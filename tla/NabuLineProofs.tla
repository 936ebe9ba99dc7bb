--------------------------- MODULE NabuLineProofs ---------------------------
(***************************************************************************)
(* Proofs about NabuLine, for any packets, requests, channel codes and     *)
(* commands, and any number of upsets.                                     *)
(***************************************************************************)
EXTENDS NabuLine, SequenceTheorems, TLAPS

\* What is appended to a queue comes last; what is taken was first.
LEMMA Grows ==
  ASSUME NEW S, NEW s \in Seq(S), NEW u \in Seq(S)
  PROVE  /\ s \o u \in Seq(S) /\ Len(s \o u) = Len(s) + Len(u)
         /\ \A k \in 1 .. Len(s) : (s \o u)[k] = s[k]
         /\ \A k \in 1 .. Len(u) : (s \o u)[Len(s) + k] = u[k]
         /\ \A k \in 1 .. Len(s \o u) : k > Len(s) => (s \o u)[k] = u[k - Len(s)]
OBVIOUS

LEMMA Shrinks ==
  ASSUME NEW S, NEW s \in Seq(S), s # <<>>
  PROVE  /\ s[1] \in S /\ Head(s) = s[1] /\ Len(s) > 0
         /\ Tail(s) \in Seq(S) /\ Len(Tail(s)) = Len(s) - 1
         /\ \A k \in 1 .. Len(s) - 1 : Tail(s)[k] = s[k + 1]
OBVIOUS

LEMMA RawIs ==
  ASSUME NEW bytes \in Seq(Byte)
  PROVE  /\ Raw(bytes) \in Seq(FromGateway) /\ Len(Raw(bytes)) = Len(bytes)
         /\ \A k \in 1 .. Len(bytes) : Raw(bytes)[k] = Marked(bytes[k], "reply", 0)
PROOF
<1>1. DOMAIN bytes = 1 .. Len(bytes) /\ Len(bytes) \in Nat
  OBVIOUS
<1>2. \A k \in 1 .. Len(bytes) : bytes[k] \in Byte
  OBVIOUS
<1>3. \A k \in 1 .. Len(bytes) : Marked(bytes[k], "reply", 0) \in FromGateway
  BY <1>2 DEF Marked, FromGateway
<1>4. Raw(bytes) = [k \in 1 .. Len(bytes) |-> Marked(bytes[k], "reply", 0)]
  BY <1>1 DEF Raw, Marked
<1> QED
  BY <1>1, <1>3, <1>4, IsASeq

\* What a packet's bytes, its end and a refusal look like on the line.
LEMMA DoubledIs ==
  ASSUME NEW b \in Byte, NEW k \in Nat
  PROVE  Doubled(b, k) \in Seq(FromGateway) /\ Len(Doubled(b, k)) = IF b = 16 THEN 2 ELSE 1
PROOF
<1>1. \A meant \in {"data", "mark"} : Marked(b, meant, k) \in FromGateway
  BY DEF Marked, FromGateway
<1>2. CASE b = 16
  BY <1>1, <1>2 DEF Doubled
<1>3. CASE b # 16
  BY <1>1, <1>3 DEF Doubled
<1> QED
  BY <1>2, <1>3

LEMMA EndsAre ==
  ASSUME NEW k \in Nat
  PROVE  /\ Epilog(k) \in Seq(FromGateway) /\ Len(Epilog(k)) = 2
         /\ Refusal(k) \in Seq(FromGateway) /\ Len(Refusal(k)) = 3
BY DEF Epilog, Refusal, End, Marked, FromGateway, Byte

\* The gateway replies what the NABU waits for.
LEMMA ReplyIs ==
  ASSUME NEW b \in Byte
  PROVE  /\ Reply(b) \in Seq(Byte)
         /\ b \notin {132, 133} =>
              /\ Len(Reply(b)) = Len(Replies(b))
              /\ \A k \in 1 .. Len(Reply(b)) : Reply(b)[k] \in Replies(b)[k]
PROOF
<1>1. CASE b = 1
  BY <1>1 DEF Reply, Replies, ChannelStatus, End, Byte
<1>2. CASE b = 131
  BY <1>2 DEF Reply, Replies, Ack, Done, Byte
<1>3. CASE b = 5
  BY <1>3 DEF Reply, Replies, Done, Byte
<1>4. CASE b = 30
  BY <1>4 DEF Reply, Replies, End, Byte
<1>5. CASE b \in {129, 130}
  <2>1. Reply(b) = <<16, 6>> /\ Replies(b) = <<{16}, {6}>>
    BY <1>5 DEF Reply, Replies, Ack
  <2> QED
    BY <2>1 DEF Byte
<1>6. CASE b \notin {1, 5, 30, 129, 130, 131}
  <2>1. Reply(b) = <<>>
    BY <1>6 DEF Reply
  <2>2. b \notin {132, 133} => Replies(b) = <<>>
    BY <1>6 DEF Replies
  <2> QED
    BY <2>1, <2>2
<1> QED
  BY <1>1, <1>2, <1>3, <1>4, <1>5, <1>6
-----------------------------------------------------------------------------
\* The NABU's state fits its stage, and where it is in it.
StageFits ==
  /\ cmd = Idle <=> stage = "idle"
  /\ stage \in {"kind", "ack", "nak", "body"} => cmd = 132
  /\ stage \in {"param", "done"} => cmd \in {132, 133}
  /\ cmd = 132 => params \in PacketRequests
  /\ cmd = 133 => params \in Words
  /\ stage # "idle" => packet = NoBody
  /\ stage \notin {"idle", "body"} => got = <<>> /\ ~esc

AtFits ==
  IF stage = "reply" THEN at < Len(Replies(cmd))
  ELSE IF stage = "param" THEN at < Len(params)
  ELSE IF stage \in {"ack", "nak"} THEN at \in {0, 1} ELSE at = 0

StageOK == StageFits /\ AtFits

\* The gateway's answer fits its pc.
Delivers == answer \in {"packet", "pak", "aborted"}
ServingOK ==
  /\ pc \in {"prolog", "read_10", "read_06"} => (Delivers \/ answer = "twice") /\ sent = 0
  /\ pc = "data" => Delivers /\ sent <= Len(body)
  /\ pc = "refuse" => answer = "refused" /\ sent = 0
  /\ Delivers => body \in Seq(Byte)
  /\ pc = "packet" => Len(args) <= 3
  /\ pc = "channel_high" => channelWord \in Byte

AcksOnly == \A k \in 1 .. Len(rx) : rx[k].meant = "ack"

\* A handshake is two bytes, and of the last three in the FIFO one is no ack.
RxMarks ==
  /\ \A k \in 1 .. Len(rx) : rx[k].meant = "ack" => rx[k].byte \in {16, 6}
  /\ Len(rx) > 2 => \E k \in Len(rx) - 2 .. Len(rx) : rx[k].meant # "ack"

Room ==
  /\ cmd \notin {131, Idle} => Len(rx) <= 4
  /\ Len(rx) <= 5 + upsets
  /\ stage = "command" => Len(rx) <= 4 + upsets

RxOK == RxMarks /\ Room

\* A command before its first reply.
Called ==
  /\ cmd \notin {131, Idle} /\ stage = "command" => AcksOnly /\ Len(rx) <= 2
  /\ cmd \notin {131, Idle} /\ stage = "reply" =>
       /\ Len(rx) <= 3
       /\ \A k \in 1 .. Len(rx) :
            \/ rx[k].meant = "ack"
            \/ k = Len(rx) /\ rx[k] = [byte |-> cmd, meant |-> "command"]

Entered == IF cmd = 132 THEN pc = "packet" /\ args = <<>> ELSE pc = "channel_low"

Opening ==
  cmd \in {132, 133} =>
    /\ (stage = "command" \/ (stage = "reply" /\ at = 0)) /\ tx # <<>> /\ tx[1].byte = 16 =>
         /\ Len(tx) >= 2
         /\ tx[2].byte = 6 => stage = "reply" /\ Len(tx) = 2 /\ rx = <<>> /\ Entered
    /\ stage = "reply" /\ at = 1 =>
         /\ tx # <<>>
         /\ tx[1].byte = 6 => Len(tx) = 1 /\ rx = <<>> /\ Entered

\* n parameters are put.
RequestPut(n) ==
  /\ pc = "packet" /\ Len(args) + Len(rx) = n /\ Len(args) <= 3
  /\ \A k \in 1 .. Len(args) : args[k] = params[k]
  /\ \A k \in 1 .. Len(rx) : rx[k].byte = params[Len(args) + k]

WordPut(n) ==
  /\ \/ pc = "channel_low" /\ Len(rx) = n
     \/ pc = "channel_high" /\ Len(rx) = n - 1 /\ channelWord = params[1]
  /\ \A k \in 1 .. Len(rx) : rx[k].byte = params[n - Len(rx) + k]

ArgsPut(n) ==
  /\ tx = <<>> /\ \A k \in 1 .. Len(rx) : rx[k].meant = "param"
  /\ IF cmd = 132 THEN RequestPut(n) ELSE WordPut(n)

AnswerBegun(n) ==
  /\ rx = <<>> /\ args = params
  /\ \/ pc \in {"fetch", "prolog", "refuse"} /\ Len(tx) = n
     \/ /\ pc = "read_10" /\ Len(tx) = n + 1
        /\ tx[n + 1].byte = IF answer = "twice" THEN 144 ELSE 145
     \/ /\ pc \in {"loop", "boot"} /\ Len(tx) >= n
        /\ Len(tx) > n => tx[n + 1].byte \in {144, 16}

Asked ==
  /\ stage = "param" => ArgsPut(at)
  /\ stage = "done" =>
       \/ ArgsPut(Len(params))
       \/ tx # <<>> /\ tx[1].byte = Done /\
            IF cmd = 132 THEN AnswerBegun(1) ELSE rx = <<>> /\ pc \in {"loop", "boot"}
  /\ stage = "kind" => AnswerBegun(0)

Refusing == stage = "nak" => Len(rx) <= at /\ AcksOnly

\* What is on the line of a packet.
Content == IF answer = "aborted" THEN Append(body, 144) ELSE body
Last == IF answer = "aborted" THEN 6 ELSE End[2]

\* Of content c that ends with l, the line t holds the bytes after those got, up to
\* the s-th while pc is "data", and then all.
Comes(c, x, k) ==
  x.item = k /\ x.meant = IF k > Len(c) \/ c[k] = 16 THEN "mark" ELSE "data"
Follows(c, x, k) ==
  x.item = k /\ x.meant = IF k > Len(c) THEN "end" ELSE "data"

Means(c, l, x) ==
  /\ x.meant = "data" => x.item \in 1 .. Len(c) /\ x.byte = c[x.item]
  /\ x.meant = "mark" => /\ x.item \in 1 .. Len(c) + 1 /\ x.byte = 16
                         /\ x.item <= Len(c) => c[x.item] = 16
  /\ x.meant = "end" => x.item = Len(c) + 1 /\ x.byte = l

Chained(c, l, t, p, s, k) ==
  /\ Means(c, l, t[k])
  /\ t[k].meant = "mark" => k < Len(t) /\ Follows(c, t[k + 1], t[k].item)
  /\ t[k].meant = "data" =>
       IF k < Len(t) THEN Comes(c, t[k + 1], t[k].item + 1) ELSE p = "data" /\ t[k].item = s
  /\ t[k].meant \in {"end", "reply"} => p # "data"

Decoding(c, l, t, p, s, g, x) ==
  /\ \A k \in 1 .. Len(t) : Chained(c, l, t, p, s, k)
  /\ IF t = <<>> THEN p = "data" /\ s = Len(g) /\ ~x
     ELSE IF x THEN Follows(c, t[1], Len(g) + 1) ELSE Comes(c, t[1], Len(g) + 1)
  /\ Len(g) <= Len(c) /\ \A k \in 1 .. Len(g) : g[k] = c[k]
  /\ x /\ Len(g) < Len(c) => c[Len(g) + 1] = 16

Decodes == Decoding(Content, Last, tx, pc, sent, got, esc)

\* n bytes of the handshake are put.
AckPut(n) ==
  /\ tx = <<>> /\ got = <<>> /\ ~esc
  /\ pc = IF n - Len(rx) = 0 THEN "read_10" ELSE "read_06"
  /\ n - Len(rx) \in {0, 1}
  /\ \A k \in 1 .. Len(rx) : rx[k] = [byte |-> Ack[n - Len(rx) + k], meant |-> "ack"]

Receiving ==
  /\ stage \in {"ack", "body"} => args = params /\ Delivers
  /\ stage = "ack" => AckPut(at)
  /\ stage = "body" =>
       \/ AckPut(2)
       \/ pc \in {"data", "loop", "boot"} /\ rx = <<>> /\ Decodes
  /\ packet # NoBody =>
       /\ packet = body /\ answer \in {"packet", "pak"} /\ args = params
       /\ rx = <<>> /\ pc \in {"loop", "boot"}

LineInv ==
  /\ StageOK /\ ServingOK /\ RxOK /\ Called /\ Opening /\ Asked /\ Refusing /\ Receiving

\* What holds besides without upsets.
Mute == {1, 5, 30, 129, 130, 131, 132, 133}

CalmPc ==
  /\ answer # "twice"
  /\ pc = "boot" =>
       cmd = 131 /\ rx = <<>> /\ tx = <<>> /\ stage \in {"command", "reply"} /\ at = 0
  /\ pc \in {"channel_low", "channel_high"} => cmd = 133

CalmWord ==
  /\ cmd = 133 => word = NoWord
  /\ word # NoWord => channelWord = word[1] + 256 * word[2] /\ channelValid

\* Between commands nothing is in the FIFO that draws an answer.
CalmIdle ==
  stage = "idle" =>
    /\ pc = "loop"
    /\ \A k \in 1 .. Len(rx) : rx[k].meant \in {"ack", "command"} /\ rx[k].byte \notin Mute

CalmCommand == stage = "command" => pc \in {"loop", "boot"} /\ tx = <<>> /\ AcksOnly

\* The command is on its way, or its reply is; or the gateway booted too late for it.
CommandComes ==
  /\ at = 0 /\ tx = <<>> /\ pc = "loop" /\ rx # <<>>
  /\ \A k \in 1 .. Len(rx) - 1 : rx[k].meant = "ack"
  /\ rx[Len(rx)] = [byte |-> cmd, meant |-> "command"]

CalledPc == IF cmd = 132 THEN "packet" ELSE IF cmd = 133 THEN "channel_low" ELSE "loop"
ReplyComes ==
  /\ rx = <<>> /\ pc = CalledPc
  /\ cmd = 132 => args = <<>>
  /\ Len(tx) = Len(Replies(cmd)) - at
  /\ \A k \in 1 .. Len(tx) : tx[k].byte \in Replies(cmd)[at + k]

CommandLost == cmd = 131 /\ at = 0 /\ rx = <<>> /\ tx = <<>> /\ pc \in {"boot", "loop"}

CalmReply == stage = "reply" => CommandComes \/ ReplyComes \/ CommandLost

CalmDone ==
  stage = "done" /\ cmd = 133 /\ tx # <<>> =>
    Len(tx) = 1 /\ channelWord = params[1] + 256 * params[2] /\ channelValid

\* n bytes before the answer: there is none, or it is a refusal.
Unserved(n) == IF Len(tx) = n THEN answer = "silence" ELSE tx[n + 1].byte = 144
CalmKind ==
  pc = "loop" /\ cmd = 132 =>
    (stage = "done" => Unserved(1)) /\ (stage = "kind" => Unserved(0))

CalmNak == stage = "nak" => pc = "loop"
CalmBody == stage = "body" => \A k \in 1 .. Len(tx) : tx[k].meant = "end" => k = Len(tx)

Calm ==
  /\ CalmPc /\ CalmWord /\ CalmIdle /\ CalmCommand /\ CalmReply
  /\ CalmDone /\ CalmKind /\ CalmNak /\ CalmBody

CalmInv == upsets = 0 => Calm
-----------------------------------------------------------------------------
\* What the steps do to the two queues.
RxTakes(b) ==
  /\ rx' \in Seq(ToGateway) /\ Len(rx) > 0 /\ rx[1] \in ToGateway
  /\ rx[1].byte = b /\ b \in Byte
  /\ Len(rx') = Len(rx) - 1
  /\ \A k \in 1 .. Len(rx') : rx'[k] = rx[k + 1]

TxSends(u) ==
  /\ tx' \in Seq(FromGateway) /\ Len(tx') = Len(tx) + Len(u) /\ Len(u) \in Nat
  /\ \A k \in 1 .. Len(tx) : tx'[k] = tx[k]
  /\ \A k \in 1 .. Len(u) : tx'[Len(tx) + k] = u[k]
  /\ \A k \in 1 .. Len(tx') : k > Len(tx) => tx'[k] = u[k - Len(tx)]

TxHears(b) ==
  /\ tx' \in Seq(FromGateway) /\ Len(tx) > 0 /\ tx[1] \in FromGateway
  /\ tx[1].byte = b /\ b \in Byte
  /\ Len(tx') = Len(tx) - 1
  /\ \A k \in 1 .. Len(tx') : tx'[k] = tx[k + 1]

RxPuts(e) ==
  /\ rx' \in Seq(ToGateway) /\ Len(rx') = Len(rx) + 1
  /\ \A k \in 1 .. Len(rx) : rx'[k] = rx[k]
  /\ rx'[Len(rx) + 1] = e

LEMMA TakenIs == ASSUME QueueTypes, NEW b, Taken(b) PROVE RxTakes(b)
PROOF
<1>1. rx \in Seq(ToGateway) /\ rx # <<>> /\ rx' = Tail(rx) /\ Head(rx).byte = b
  BY DEF QueueTypes, Taken
<1>2. rx[1] \in ToGateway /\ rx[1].byte = b
  BY <1>1, Shrinks
<1>3. rx[1].byte \in Byte
  BY <1>2 DEF ToGateway
<1>4. /\ Tail(rx) \in Seq(ToGateway) /\ Len(rx) > 0 /\ Len(Tail(rx)) = Len(rx) - 1
      /\ \A k \in 1 .. Len(rx) - 1 : Tail(rx)[k] = rx[k + 1]
  BY <1>1, Shrinks
<1> QED
  BY <1>1, <1>2, <1>3, <1>4 DEF RxTakes

LEMMA HeardIs == ASSUME QueueTypes, NEW b, Heard(b) PROVE TxHears(b)
PROOF
<1>1. tx \in Seq(FromGateway) /\ tx # <<>> /\ tx' = Tail(tx) /\ Head(tx).byte = b
  BY DEF QueueTypes, Heard
<1>2. tx[1] \in FromGateway /\ tx[1].byte = b
  BY <1>1, Shrinks
<1>3. tx[1].byte \in Byte
  BY <1>2 DEF FromGateway
<1>4. /\ Tail(tx) \in Seq(FromGateway) /\ Len(tx) > 0 /\ Len(Tail(tx)) = Len(tx) - 1
      /\ \A k \in 1 .. Len(tx) - 1 : Tail(tx)[k] = tx[k + 1]
  BY <1>1, Shrinks
<1> QED
  BY <1>1, <1>2, <1>3, <1>4 DEF TxHears

LEMMA SendsIs ==
  ASSUME QueueTypes, NEW u \in Seq(FromGateway), tx' = tx \o u PROVE TxSends(u)
PROOF
<1>1. tx \in Seq(FromGateway)
  BY DEF QueueTypes
<1>2. Len(u) \in Nat
  OBVIOUS
<1>3. /\ tx \o u \in Seq(FromGateway) /\ Len(tx \o u) = Len(tx) + Len(u)
      /\ \A k \in 1 .. Len(tx) : (tx \o u)[k] = tx[k]
      /\ \A k \in 1 .. Len(u) : (tx \o u)[Len(tx) + k] = u[k]
      /\ \A k \in 1 .. Len(tx \o u) : k > Len(tx) => (tx \o u)[k] = u[k - Len(tx)]
  BY <1>1, Grows
<1> QED
  BY <1>2, <1>3 DEF TxSends

LEMMA PutIs ==
  ASSUME QueueTypes, NEW b \in Byte, NEW meant \in {"command", "param", "ack"}, Put(b, meant)
  PROVE  /\ pc = "boot" => rx' = rx
         /\ pc # "boot" => RxPuts([byte |-> b, meant |-> meant])
PROOF
<1>1. rx \in Seq(ToGateway) /\ [byte |-> b, meant |-> meant] \in ToGateway
  BY DEF QueueTypes, ToGateway
<1>2. ASSUME pc # "boot"
      PROVE  rx' = Append(rx, [byte |-> b, meant |-> meant])
  BY <1>2 DEF Put
<1> QED
  BY <1>1, <1>2, AppendProperties DEF Put, RxPuts
\* The two sides of a step: the gateway's, with the console and the time limits,
\* and the NABU's.
NabuKept ==
  UNCHANGED <<cmd, params, stage, at, word, got, esc, packet>> /\ upsets' \in {upsets, upsets + 1}

Gateway == AdapterStep \/ Reboot \/ TestKey \/ FetchedEmpty \/ (NabuSilent /\ AdapterTimeout)

Reset == Restart /\ UNCHANGED adapter_vars /\ upsets' = upsets + 1
Nabu == NabuStep \/ NabuBegin \/ Reset

LEMMA TwoSides ==
  ASSUME NabuTypes, [LineNext]_line_vars
  PROVE  \/ Gateway /\ NabuKept /\ upsets' \in 0 .. MaxUpsets
         \/ Nabu /\ upsets' \in 0 .. MaxUpsets
         \/ UNCHANGED line_vars
PROOF
<1>1. upsets \in 0 .. MaxUpsets /\ MaxUpsets \in Nat
  BY NabuAssumption DEF NabuTypes
<1>2. CASE AdapterStep /\ UNCHANGED nabu_vars
  BY <1>1, <1>2 DEF nabu_vars, NabuKept, Gateway
<1>3. CASE Timeout
  BY <1>1, <1>3 DEF Timeout, nabu_vars, NabuKept, Gateway
<1>4. CASE NabuStep \/ NabuBegin
  <2>1. UNCHANGED upsets
    BY <1>4 DEF NabuStep, NabuBegin, PutCommand, PutParam, PutAck, Put, GiveUp, GetReply, GetDone,
                GetKind, GetData, GetOther, Drop, Heard, Begin
  <2> QED
    BY <1>1, <1>4, <2>1 DEF Nabu
<1>5. CASE Upset
  <2>1. upsets' = upsets + 1 /\ upsets < MaxUpsets
    BY <1>5 DEF Upset
  <2>2. CASE Restart /\ UNCHANGED adapter_vars
    BY <1>1, <2>1, <2>2 DEF Reset, Nabu
  <2>3. CASE /\ Reboot \/ TestKey \/ FetchedEmpty
             /\ UNCHANGED <<cmd, params, stage, at, word, got, esc, packet>>
    BY <1>1, <2>1, <2>3 DEF Gateway, NabuKept
  <2> QED
    BY <1>5, <2>2, <2>3 DEF Upset
<1> QED
  BY <1>2, <1>3, <1>4, <1>5 DEF LineNext

LEMMA GatewayCases ==
  ASSUME Gateway, NEW ACTION G,
         ASSUME Boot PROVE G,
         ASSUME Reboot PROVE G,
         ASSUME TestKey PROVE G,
         ASSUME NEW b, Simple(b) PROVE G,
         ASSUME ChangeChannel PROVE G,
         ASSUME NEW b, ChannelLow(b) PROVE G,
         ASSUME NEW b, ChannelHigh(b) PROVE G,
         ASSUME PacketRequest PROVE G,
         ASSUME NEW b, PacketArg(b) PROVE G,
         ASSUME Fetched PROVE G,
         ASSUME FetchedEmpty PROVE G,
         ASSUME Prolog PROVE G,
         ASSUME NEW b, Expected(b) PROVE G,
         ASSUME SendData PROVE G,
         ASSUME SendEpilog PROVE G,
         ASSUME Refuse PROVE G,
         ASSUME NabuSilent, ChannelTimeout PROVE G,
         ASSUME NabuSilent, PacketTimeout PROVE G,
         ASSUME NabuSilent, ExpectTimeout PROVE G
  PROVE  G
BY DEF Gateway, AdapterStep, AdapterTimeout

LEMMA NabuCases ==
  ASSUME Nabu, NEW ACTION G,
         ASSUME NEW c \in Commands \ {132, 133}, Begin(c, <<>>) PROVE G,
         ASSUME NEW r \in PacketRequests, Begin(132, r) PROVE G,
         ASSUME NEW w \in Words, Begin(133, w) PROVE G,
         ASSUME PutCommand PROVE G,
         ASSUME PutParam PROVE G,
         ASSUME PutAck PROVE G,
         ASSUME NEW b, GetReply(b) PROVE G,
         ASSUME NEW b, GetDone(b) PROVE G,
         ASSUME NEW b, GetKind(b) PROVE G,
         ASSUME NEW b, GetData(b) PROVE G,
         ASSUME NEW b, GetOther(b) PROVE G,
         ASSUME NEW b, Drop(b) PROVE G,
         ASSUME GiveUp PROVE G,
         ASSUME Reset PROVE G
  PROVE  G
BY DEF Nabu, NabuStep, NabuBegin
-----------------------------------------------------------------------------
\* The gateway takes bytes from the front of one queue, or clears it, and adds
\* to the end of the other.
RxLess == rx' = rx \/ rx' = <<>> \/ \E b : RxTakes(b)
TxMore == tx' = tx \/ \E u \in Seq(FromGateway) : TxSends(u)

LEMMA Typed ==
  QueueTypes =>
    /\ RxLess => rx' \in Seq(ToGateway)
    /\ TxMore => tx' \in Seq(FromGateway)
PROOF
<1>1. <<>> \in Seq(ToGateway)
  OBVIOUS
<1> QED
  BY <1>1, Zenon DEF QueueTypes, RxLess, TxMore, RxTakes, TxSends

LEMMA BodyBytes ==
  ASSUME GatewayTypes, ServingOK, pc = "data"
  PROVE  /\ Delivers /\ body \in Seq(Byte) /\ sent \in 0 .. Len(body) /\ Len(body) \in Nat
         /\ \A k \in 1 .. Len(body) : body[k] \in Byte
PROOF
<1>1. Delivers /\ sent <= Len(body) /\ body \in Seq(Byte)
  BY DEF ServingOK
<1>2. sent \in Nat
  BY DEF GatewayTypes
<1> QED
  BY <1>1, <1>2

LEMMA Replied ==
  ASSUME QueueTypes, NEW bytes \in Seq(Byte), tx' = tx \o Raw(bytes)
  PROVE  Raw(bytes) \in Seq(FromGateway) /\ TxSends(Raw(bytes)) /\ TxMore
BY RawIs, SendsIs DEF TxMore

LEMMA Short ==
  /\ Ack \in Seq(Byte) /\ <<Done>> \in Seq(Byte) /\ <<16, Done>> \in Seq(Byte)
  /\ \A b \in Byte : <<b>> \in Seq(Byte)
BY DEF Ack, Done, Byte

LEMMA GatewayQueues ==
  ASSUME QueueTypes, GatewayTypes, ServingOK, Gateway
  PROVE  RxLess /\ TxMore
PROOF
<1>0. ASSUME NEW b, Taken(b) PROVE RxLess /\ b \in Byte
  BY <1>0, TakenIs DEF RxLess, RxTakes
<1>1. ASSUME Boot PROVE RxLess /\ TxMore
  BY <1>1 DEF Boot, RxLess, TxMore
<1>2. ASSUME Reboot PROVE RxLess /\ TxMore
  BY <1>2 DEF Reboot, RxLess, TxMore
<1>3. ASSUME TestKey PROVE RxLess /\ TxMore
  BY <1>3, Replied, Short DEF TestKey, RxLess
<1>4. ASSUME NEW b, Simple(b) PROVE RxLess /\ TxMore
  BY <1>0, <1>4, Replied, ReplyIs DEF Simple
<1>5. ASSUME ChangeChannel PROVE RxLess /\ TxMore
  BY <1>0, <1>5, Replied, Short DEF ChangeChannel
<1>6. ASSUME NEW b, ChannelLow(b) PROVE RxLess /\ TxMore
  BY <1>0, <1>6 DEF ChannelLow, TxMore
<1>7. ASSUME NEW b, ChannelHigh(b) PROVE RxLess /\ TxMore
  BY <1>0, <1>7, Replied, Short DEF ChannelHigh
<1>8. ASSUME PacketRequest PROVE RxLess /\ TxMore
  BY <1>0, <1>8, Replied, Short DEF PacketRequest
<1>9. ASSUME NEW b, PacketArg(b) PROVE RxLess /\ TxMore
  BY <1>0, <1>9, Replied, Short DEF PacketArg, TxMore
<1>10. ASSUME Fetched PROVE RxLess /\ TxMore
  BY <1>10 DEF Fetched, RxLess, TxMore
<1>11. ASSUME FetchedEmpty PROVE RxLess /\ TxMore
  BY <1>11 DEF FetchedEmpty, RxLess, TxMore
<1>12. ASSUME Prolog PROVE RxLess /\ TxMore
  <2>1. <<IF answer = "twice" THEN 144 ELSE 145>> \in Seq(Byte)
    BY Short DEF Byte
  <2> QED
    BY <1>12, <2>1, Replied DEF Prolog, RxLess
<1>13. ASSUME NEW b, Expected(b) PROVE RxLess /\ TxMore
  BY <1>0, <1>13 DEF Expected, TxMore
<1>14. ASSUME SendData PROVE RxLess /\ TxMore
  <2>1. pc = "data" /\ sent < Len(body) /\ tx' = tx \o Doubled(body[sent + 1], sent + 1)
    BY <1>14 DEF SendData
  <2>2. body[sent + 1] \in Byte /\ sent + 1 \in Nat
    BY <2>1, BodyBytes
  <2> QED
    BY <1>14, <2>1, <2>2, DoubledIs, SendsIs DEF SendData, RxLess, TxMore
<1>15. ASSUME SendEpilog PROVE RxLess /\ TxMore
  <2>1. sent \in Nat
    BY DEF GatewayTypes
  <2> QED
    BY <1>15, <2>1, EndsAre, SendsIs, Zenon DEF SendEpilog, RxLess, TxMore
<1>16. ASSUME Refuse PROVE RxLess /\ TxMore
  <2>1. sent \in Nat
    BY DEF GatewayTypes
  <2> QED
    BY <1>16, <2>1, EndsAre, SendsIs, Zenon DEF Refuse, RxLess, TxMore
<1>17. ASSUME ChannelTimeout \/ PacketTimeout \/ ExpectTimeout PROVE RxLess /\ TxMore
  BY <1>17 DEF ChannelTimeout, PacketTimeout, ExpectTimeout, RxLess, TxMore
<1> QED
  BY <1>1, <1>2, <1>3, <1>4, <1>5, <1>6, <1>7, <1>8, <1>9, <1>10, <1>11, <1>12, <1>13,
     <1>14, <1>15, <1>16, <1>17, GatewayCases
-----------------------------------------------------------------------------
LEMMA PartFits ==
  ASSUME NEW n \in Nat, NEW m \in Nat \ {0}, NEW k \in 1 .. (n \div m)
  PROVE  k * m \in Nat /\ k * m <= n
PROOF
<1>1. n \div m \in Nat /\ (n \div m) * m <= n
  BY SMT
<1>2. k \in Nat /\ k <= n \div m /\ m \in Nat
  BY <1>1
<1>3. k * m <= (n \div m) * m
  BY <1>1, <1>2, SMT
<1>4. k * m \in Nat
  BY <1>2, SMT
<1> QED
  BY <1>1, <1>3, <1>4, SMT

\* What handleRequest serves are bytes, and it is of the type its answer says.
LEMMA ServedBytes ==
  ASSUME NEW kind \in AnswerKinds, NEW d \in Answers[kind]
  PROVE  IF kind \in {"packet", "pak", "aborted"} THEN d \in Seq(Byte) ELSE d = NoBody
PROOF
<1>1. CASE kind \in {"packet", "pak"}
  BY <1>1, BodiesAssumption DEF Answers
<1>2. CASE kind = "aborted"
  <2>0. PICK f \in Paks : d \in {SubSeq(f, 1, k * BLOCK) : k \in 1 .. (Len(f) \div BLOCK)}
    BY <1>2 DEF Answers, Parts
  <2>1. PICK k \in 1 .. (Len(f) \div BLOCK) : d = SubSeq(f, 1, k * BLOCK)
    BY <2>0
  <2>2. f \in Seq(Byte) /\ BLOCK \in Nat \ {0} /\ Len(f) \in Nat
    BY BodiesAssumption
  <2>3. k * BLOCK \in Nat /\ k * BLOCK <= Len(f)
    BY <2>2, PartFits
  <2> QED
    BY <1>2, <2>1, <2>2, <2>3
<1>3. CASE kind \in {"refused", "silence"}
  BY <1>3 DEF Answers
<1> QED
  BY <1>1, <1>2, <1>3 DEF AnswerKinds

LEMMA Word16 ==
  /\ 0 \in Uint16 /\ \A a \in Byte : a \in Uint16
  /\ \A a, b \in Byte : a + 256 * b \in Uint16
PROOF
<1>1. 0 \in Uint16
  BY SMT DEF Uint16
<1>2. ASSUME NEW a \in Byte, NEW b \in Byte PROVE a + 256 * b \in Uint16
  <2>1. a \in Int /\ b \in Int /\ 0 <= a /\ a <= 255 /\ 0 <= b /\ b <= 255
    BY DEF Byte
  <2>2. PICK n \in Int : n = a + 256 * b /\ 0 <= n /\ n <= 255 + 256 * 255
    BY <2>1
  <2>3. PICK m \in Int : m = 256 * 256 - 1 /\ 255 + 256 * 255 <= m
    OBVIOUS
  <2>4. n <= m
    BY <2>2, <2>3
  <2>5. n \in 0 .. m
    BY <2>2, <2>4
  <2>6. Uint16 = 0 .. m
    BY <2>3, Zenon DEF Uint16
  <2> QED
    BY <2>2, <2>5, <2>6, Zenon
<1>3. ASSUME NEW a \in Byte PROVE a \in Uint16
  <2>1. 0 \in Byte
    BY DEF Byte
  <2>2. a + 256 * 0 = a
    <3>1. a \in Int
      BY DEF Byte
    <3>2. \A i \in Int : i + 256 * 0 = i
      OBVIOUS
    <3> QED
      BY <3>1, <3>2, Zenon
  <2>3. a + 256 * 0 \in Uint16
    BY <1>2, <2>1
  <2> QED
    BY <2>2, <2>3, Zenon
<1> QED
  BY <1>1, <1>2, <1>3, ZenonT(60)

LEMMA GatewayServes ==
  ASSUME QueueTypes, GatewayTypes, ServingOK, Gateway
  PROVE  GatewayTypes' /\ ServingOK'
PROOF
<1>0. ASSUME NEW b, Taken(b) PROVE b \in Byte
  BY <1>0, TakenIs DEF RxTakes
<1> USE DEF ServingOK, Delivers
<1>1. ASSUME Boot PROVE GatewayTypes' /\ ServingOK'
  BY <1>1 DEF Boot, GatewayTypes
<1>2. ASSUME Reboot PROVE GatewayTypes' /\ ServingOK'
  BY <1>2, Word16 DEF Reboot, GatewayTypes
<1>3. ASSUME TestKey PROVE GatewayTypes' /\ ServingOK'
  BY <1>3 DEF TestKey, GatewayTypes
<1>4. ASSUME NEW b, Simple(b) PROVE GatewayTypes' /\ ServingOK'
  BY <1>4 DEF Simple, GatewayTypes
<1>5. ASSUME ChangeChannel PROVE GatewayTypes' /\ ServingOK'
  BY <1>5 DEF ChangeChannel, GatewayTypes
<1>6. ASSUME NEW b, ChannelLow(b) PROVE GatewayTypes' /\ ServingOK'
  <2>1. b \in Byte /\ b \in Uint16
    BY <1>0, <1>6, Word16 DEF ChannelLow
  <2> QED
    BY <1>6, <2>1 DEF ChannelLow, GatewayTypes
<1>7. ASSUME NEW b, ChannelHigh(b) PROVE GatewayTypes' /\ ServingOK'
  <2>1. b \in Byte /\ channelWord \in Byte
    BY <1>0, <1>7 DEF ChannelHigh
  <2>2. channelWord + 256 * b \in Uint16
    BY <2>1, Word16
  <2>3. channelWord' \in Uint16
    BY <1>7, <2>2 DEF ChannelHigh
  <2> QED
    BY <1>7, <2>3 DEF ChannelHigh, GatewayTypes
<1>8. ASSUME PacketRequest PROVE GatewayTypes' /\ ServingOK'
  BY <1>8 DEF PacketRequest, GatewayTypes
<1>9. ASSUME NEW b, PacketArg(b) PROVE GatewayTypes' /\ ServingOK'
  <2>1. b \in Byte /\ args \in Seq(Byte) /\ Len(args) <= 3 /\ args' = Append(args, b)
    BY <1>0, <1>9 DEF PacketArg, GatewayTypes
  <2>2. args' \in Seq(Byte) /\ Len(args') = Len(args) + 1 /\ Len(args) \in Nat
    BY <2>1
  <2> QED
    BY <1>9, <2>1, <2>2 DEF PacketArg, GatewayTypes
<1>10. ASSUME Fetched PROVE GatewayTypes' /\ ServingOK'
  <2>1. IF Delivers' THEN body' \in Seq(Byte) ELSE body' = NoBody
    BY <1>10, ServedBytes DEF Fetched
  <2>2. pc' = IF answer' = "refused" THEN "refuse"
              ELSE IF answer' = "silence" THEN "loop" ELSE "prolog"
    BY <1>10 DEF Fetched
  <2> QED
    BY <1>10, <2>1, <2>2 DEF Fetched, AnswerKinds, GatewayTypes
<1>11. ASSUME FetchedEmpty PROVE GatewayTypes' /\ ServingOK'
  BY <1>11 DEF FetchedEmpty, GatewayTypes
<1>12. ASSUME Prolog PROVE GatewayTypes' /\ ServingOK'
  BY <1>12 DEF Prolog, GatewayTypes
<1>13. ASSUME NEW b, Expected(b) PROVE GatewayTypes' /\ ServingOK'
  BY <1>13 DEF Expected, Reading, HasRead, GatewayTypes
<1>14. ASSUME SendData PROVE GatewayTypes' /\ ServingOK'
  BY <1>14, BodyBytes DEF SendData, GatewayTypes
<1>15. ASSUME SendEpilog PROVE GatewayTypes' /\ ServingOK'
  BY <1>15 DEF SendEpilog, AllSent, GatewayTypes
<1>16. ASSUME Refuse PROVE GatewayTypes' /\ ServingOK'
  BY <1>16 DEF Refuse, AllSent, GatewayTypes
<1>17. ASSUME ChannelTimeout \/ PacketTimeout PROVE GatewayTypes' /\ ServingOK'
  BY <1>17, Word16, ZenonT(60) DEF ChannelTimeout, PacketTimeout, GatewayTypes
<1>18. ASSUME ExpectTimeout PROVE GatewayTypes' /\ ServingOK'
  BY <1>18 DEF ExpectTimeout, Reading, HasRead, GatewayTypes
<1> QED
  BY <1>1, <1>2, <1>3, <1>4, <1>5, <1>6, <1>7, <1>8, <1>9, <1>10, <1>11, <1>12, <1>13,
     <1>14, <1>15, <1>16, <1>17, <1>18, GatewayCases
-----------------------------------------------------------------------------
LEMMA RepliesAre ==
  ASSUME NEW c
  PROVE  /\ Len(Replies(c)) \in 0 .. 3
         /\ \A k \in 1 .. Len(Replies(c)) : Replies(c)[k] \subseteq Byte
         /\ Replies(c) # <<>> => 0 < Len(Replies(c))
         /\ c \in {132, 133} => Replies(c) = <<{16}, {6}>>
         /\ c = 131 => Replies(c) = <<{16}, {6}, {Done}>>
PROOF
<1>1. CASE c = 1
  BY <1>1 DEF Replies, Byte
<1>2. CASE c = 5
  BY <1>2 DEF Replies, Done, Byte
<1>3. CASE c = 30
  BY <1>3 DEF Replies, Byte
<1>4. CASE c \in {129, 130, 132, 133}
  <2>1. Replies(c) = <<{16}, {6}>>
    BY <1>4 DEF Replies
  <2> QED
    BY <1>4, <2>1 DEF Byte
<1>5. CASE c = 131
  BY <1>5 DEF Replies, Done, Byte
<1>6. CASE c \notin {1, 5, 30, 129, 130, 131, 132, 133}
  <2>1. Replies(c) = <<>>
    BY <1>6 DEF Replies
  <2> QED
    BY <1>6, <2>1
<1> QED
  BY <1>1, <1>2, <1>3, <1>4, <1>5, <1>6

\* What the NABU puts and gets, and how it goes on.
LEMMA ParamsAre ==
  ASSUME NabuTypes, StageOK, stage = "param"
  PROVE  /\ Len(params) \in Nat /\ at \in 0 .. 3 /\ at < Len(params)
         /\ \A k \in 1 .. Len(params) : params[k] \in Byte
         /\ Len(params) = IF cmd = 132 THEN 4 ELSE 2
         /\ cmd \in {132, 133}
PROOF
<1>1. cmd \in {132, 133} /\ at < Len(params) /\ at \in 0 .. 3
  BY DEF StageOK, StageFits, AtFits, NabuTypes
<1>2. params \in Seq(Byte) /\ Len(params) = IF cmd = 132 THEN 4 ELSE 2
  BY <1>1, NabuAssumption DEF StageOK, StageFits
<1> QED
  BY <1>1, <1>2

LEMMA PutCommandIs ==
  ASSUME QueueTypes, NabuTypes, PutCommand
  PROVE  /\ stage = "command"
         /\ pc = "boot" => rx' = rx
         /\ pc # "boot" => RxPuts([byte |-> cmd, meant |-> "command"])
         /\ tx' = tx
         /\ IF Replies(cmd) = <<>> THEN EndCommand ELSE Turn("reply")
         /\ UNCHANGED <<params, word, got, esc, packet, upsets>>
PROOF
<1>1. cmd \in Byte /\ stage = "command" /\ Put(cmd, "command")
  BY DEF PutCommand, NabuTypes
<1> QED
  BY <1>1, PutIs DEF PutCommand, Put

LEMMA PutParamIs ==
  ASSUME QueueTypes, NabuTypes, StageOK, PutParam
  PROVE  /\ stage = "param"
         /\ pc = "boot" => rx' = rx
         /\ pc # "boot" => RxPuts([byte |-> params[at + 1], meant |-> "param"])
         /\ tx' = tx
         /\ IF at + 1 = Len(params) THEN Turn("done") ELSE Stay
         /\ UNCHANGED <<params, word, got, esc, packet, upsets>>
PROOF
<1>1. stage = "param" /\ Put(params[at + 1], "param")
  BY DEF PutParam
<1>2. params[at + 1] \in Byte
  BY <1>1, ParamsAre
<1> QED
  BY <1>1, <1>2, PutIs DEF PutParam, Put

LEMMA PutAckIs ==
  ASSUME QueueTypes, NabuTypes, StageOK, PutAck
  PROVE  /\ stage \in {"ack", "nak"} /\ at \in {0, 1}
         /\ pc = "boot" => rx' = rx
         /\ pc # "boot" => RxPuts([byte |-> IF at = 0 THEN 16 ELSE 6, meant |-> "ack"])
         /\ tx' = tx
         /\ IF at = 0 THEN Stay ELSE IF stage = "ack" THEN Turn("body") ELSE EndCommand
         /\ UNCHANGED <<params, word, got, esc, packet, upsets>>
PROOF
<1>1. stage \in {"ack", "nak"} /\ Put(Ack[at + 1], "ack") /\ at \in {0, 1}
  BY DEF PutAck, StageOK, AtFits
<1>2. Ack[at + 1] = (IF at = 0 THEN 16 ELSE 6) /\ Ack[at + 1] \in Byte
  BY <1>1 DEF Ack, Byte
<1>3. IF at = 0 THEN Stay ELSE IF stage = "ack" THEN Turn("body") ELSE EndCommand
  BY <1>1 DEF PutAck
<1>4. /\ pc = "boot" => rx' = rx
      /\ pc # "boot" => RxPuts([byte |-> Ack[at + 1], meant |-> "ack"])
  BY <1>1, <1>2, PutIs
<1> QED
  BY <1>1, <1>2, <1>3, <1>4 DEF Put

LEMMA GetReplyIs ==
  ASSUME QueueTypes, NabuTypes, StageOK, NEW b, GetReply(b)
  PROVE  /\ stage = "reply" /\ TxHears(b) /\ b \in Replies(cmd)[at + 1] /\ rx' = rx
         /\ at \in 0 .. 2 /\ at < Len(Replies(cmd))
         /\ IF at + 1 < Len(Replies(cmd)) THEN Stay
            ELSE IF cmd \in {132, 133} THEN Turn("param") ELSE EndCommand
         /\ UNCHANGED <<params, word, got, esc, packet, upsets>>
PROOF
<1>1. stage = "reply" /\ Heard(b)
  BY DEF GetReply
<1>2. b \in Replies(cmd)[at + 1]
  BY <1>1 DEF GetReply, Wanted
<1>3. at \in 0 .. 3 /\ at < Len(Replies(cmd))
  BY <1>1 DEF StageOK, StageFits, AtFits, NabuTypes
<1>4. PICK n \in 0 .. 3 : n = Len(Replies(cmd))
  BY RepliesAre, Zenon
<1>5. at \in 0 .. 2
  <2>1. at < n
    BY <1>3, <1>4, Zenon
  <2> QED
    BY <1>3, <2>1
<1> QED
  BY <1>1, <1>2, <1>3, <1>5, HeardIs DEF GetReply, Heard

LEMMA GetDoneIs ==
  ASSUME QueueTypes, NEW b, GetDone(b)
  PROVE  /\ stage = "done" /\ TxHears(b) /\ b = Done /\ rx' = rx
         /\ IF cmd = 133 THEN EndCommand /\ word' = params ELSE Turn("kind") /\ UNCHANGED word
         /\ UNCHANGED <<params, got, esc, packet, upsets>>
PROOF
<1>1. stage = "done" /\ Heard(b)
  BY DEF GetDone
<1>2. b = Done
  BY <1>1 DEF GetDone, Wanted
<1> QED
  BY <1>1, <1>2, HeardIs DEF GetDone, Heard

LEMMA GetKindIs ==
  ASSUME QueueTypes, NEW b, GetKind(b)
  PROVE  /\ stage = "kind" /\ TxHears(b) /\ b \in {144, 145} /\ rx' = rx
         /\ Turn(IF b = 145 THEN "ack" ELSE "nak")
         /\ UNCHANGED <<params, word, got, esc, packet, upsets>>
PROOF
<1>1. stage = "kind" /\ Heard(b)
  BY DEF GetKind
<1>2. b \in {144, 145}
  BY <1>1 DEF GetKind, Wanted
<1> QED
  BY <1>1, <1>2, HeardIs DEF GetKind, Heard

\* The four ways a byte of a packet is taken.
LEMMA GetDataIs ==
  ASSUME QueueTypes, NEW b, GetData(b)
  PROVE  /\ stage = "body" /\ TxHears(b) /\ rx' = rx /\ b \in Byte
         /\ UNCHANGED <<params, word, upsets>>
         /\ \/ /\ esc /\ b = 225 /\ ~esc' /\ got' = got /\ packet' = got /\ EndCommand
            \/ /\ UNCHANGED <<packet, cmd, stage, at>>
               /\ \/ ~esc /\ b = 16 /\ esc' /\ got' = got
                  \/ ~esc /\ b # 16 /\ ~esc' /\ got' = Append(got, b)
                  \/ esc /\ b = 16 /\ ~esc' /\ got' = Append(got, b)
PROOF
<1>1. stage = "body" /\ Heard(b) /\ End[2] = 225
  BY DEF GetData, End
<1>2. esc => b \in {16, 225}
  BY <1>1 DEF GetData, Wanted
<1>3. TxHears(b)
  BY <1>1, HeardIs
<1>4. CASE esc /\ b = 225
  BY <1>1, <1>3, <1>4 DEF GetData, Heard, TxHears
<1>5. CASE ~(esc /\ b = 225)
  BY <1>1, <1>2, <1>3, <1>5 DEF GetData, Heard, TxHears
<1> QED
  BY <1>4, <1>5

LEMMA GetOtherIs ==
  ASSUME QueueTypes, NEW b, GetOther(b)
  PROVE  /\ Waiting /\ b \notin Wanted /\ TxHears(b) /\ rx' = rx
         /\ IF cmd = 131
            THEN Turn("reply") /\ UNCHANGED <<params, word, got, esc, packet>>
            ELSE Restart
         /\ UNCHANGED upsets
PROOF
<1>1. Heard(b)
  BY DEF GetOther
<1> QED
  BY <1>1, HeardIs DEF GetOther, Heard

LEMMA DropIs ==
  ASSUME QueueTypes, NEW b, Drop(b)
  PROVE  /\ cmd = Idle /\ TxHears(b) /\ rx' = rx
         /\ UNCHANGED <<cmd, params, stage, at, word, got, esc, packet, upsets>>
PROOF
<1>1. Heard(b)
  BY DEF Drop
<1> QED
  BY <1>1, HeardIs DEF Drop, Heard

\* What the NABU does leaves the gateway's state alone.
GatewayKept == UNCHANGED <<pc, args, answer, body, sent, channelWord, channelValid>>

LEMMA NabuKeeps == Nabu => GatewayKept
BY DEF Nabu, NabuStep, NabuBegin, PutCommand, PutParam, PutAck, Put, GetReply, GetDone, GetKind,
       GetData, GetOther, Drop, Heard, GiveUp, Begin, Reset, adapter_vars, GatewayKept
-----------------------------------------------------------------------------
LEMMA HeardTyped ==
  ASSUME QueueTypes, NEW b, TxHears(b), rx' = rx
  PROVE  QueueTypes'
BY DEF QueueTypes, TxHears

LEMMA PutTyped ==
  ASSUME QueueTypes, NEW e, pc = "boot" => rx' = rx, pc # "boot" => RxPuts(e), tx' = tx
  PROVE  QueueTypes'
BY DEF QueueTypes, RxPuts

LEMMA RestartTyped ==
  ASSUME NabuTypes, Restart, upsets' \in 0 .. MaxUpsets
  PROVE  NabuTypes' /\ StageOK'
PROOF
<1>1. 131 \in Byte /\ <<>> \in Seq(Byte) /\ 131 \notin {0, 132, 133} /\ 0 \in 0 .. 3
  BY DEF Byte
<1>2. NabuTypes'
  BY <1>1, Zenon DEF Restart, Starts, NabuTypes
<1>3. StageOK'
  BY <1>1, Zenon DEF Restart, Starts, StageOK, StageFits, AtFits, Idle
<1> QED
  BY <1>2, <1>3

LEMMA BeginTyped ==
  ASSUME NabuTypes, NEW c, NEW what, Begin(c, what), c \in Byte \ {0},
         what \in {<<>>} \cup PacketRequests \cup Words,
         c = 132 => what \in PacketRequests, c = 133 => what \in Words
  PROVE  NabuTypes' /\ StageOK'
<1>1. word' \in Words \cup {NoWord} /\ upsets' = upsets
  BY DEF Begin, NabuTypes
<1>2. Starts(c, what)
  BY DEF Begin
<1>3. 0 \in 0 .. 3 /\ <<>> \in Seq(Byte) /\ c \in Byte /\ c # 0
  BY DEF Byte
<1>4. NabuTypes'
  BY <1>1, <1>2, <1>3, Zenon DEF Starts, NabuTypes
<1>5. StageOK'
  BY <1>1, <1>2, <1>3, Zenon DEF Starts, StageOK, StageFits, AtFits, Idle
<1> QED
  BY <1>4, <1>5

LEMMA AtEnds == EndCommand \/ Turn("kind") \/ Turn("ack") \/ Turn("nak") \/ Turn("body") \/ Turn("done")
                => AtFits' /\ at' = 0
BY DEF EndCommand, Turn, AtFits

LEMMA AtTurns ==
  /\ Turn("reply") /\ 0 < Len(Replies(cmd)) => AtFits' /\ at' = 0
  /\ Turn("param") /\ 0 < Len(params) /\ params' = params => AtFits' /\ at' = 0
PROOF
<1>1. Turn("reply") /\ 0 < Len(Replies(cmd)) => AtFits' /\ at' = 0
  BY Zenon DEF Turn, AtFits
<1>2. Turn("param") /\ 0 < Len(params) /\ params' = params => AtFits' /\ at' = 0
  BY Zenon DEF Turn, AtFits
<1> QED
  BY <1>1, <1>2

LEMMA NabuTyped ==
  ASSUME QueueTypes, NabuTypes, StageOK, Nabu, upsets' \in 0 .. MaxUpsets
  PROVE  QueueTypes' /\ NabuTypes' /\ StageOK'
PROOF
<1> DEFINE G == QueueTypes' /\ NabuTypes' /\ StageOK'
<1>0. /\ adapter_vars' = adapter_vars => QueueTypes'
      /\ 0 \in 0 .. 3 /\ Idle \in Byte /\ Idle = 0
      /\ StageFits /\ AtFits
  BY DEF adapter_vars, QueueTypes, Byte, Idle, StageOK
<1>1. ASSUME NEW c \in Commands \ {132, 133}, Begin(c, <<>>) PROVE G
  <2>1. c \in Byte \ {0}
    BY NabuAssumption
  <2>2. adapter_vars' = adapter_vars
    BY <1>1 DEF Begin
  <2> QED
    BY <1>0, <1>1, <2>1, <2>2, BeginTyped
<1>2. ASSUME NEW r \in PacketRequests, Begin(132, r) PROVE G
  <2>2. adapter_vars' = adapter_vars
    BY <1>2 DEF Begin
  <2> QED
    BY <1>0, <1>2, <2>2, BeginTyped DEF Byte
<1>3. ASSUME NEW w \in Words, Begin(133, w) PROVE G
  <2>2. adapter_vars' = adapter_vars
    BY <1>3 DEF Begin
  <2> QED
    BY <1>0, <1>3, <2>2, BeginTyped DEF Byte
<1>4. ASSUME PutCommand PROVE G
  <2>1. QueueTypes'
    BY <1>4, PutCommandIs, PutTyped
  <2>2. Replies(cmd) # <<>> => 0 < Len(Replies(cmd))
    BY RepliesAre, Zenon
  <2>3. EndCommand \/ (Turn("reply") /\ 0 < Len(Replies(cmd)))
    BY <1>4, <2>2, PutCommandIs
  <2>4. AtFits' /\ at' = 0
    BY <2>3, AtEnds, AtTurns, Zenon
  <2>5. StageFits'
    BY <1>0, <1>4, <2>3, PutCommandIs DEF EndCommand, Turn, StageFits
  <2>6. NabuTypes'
    BY <1>0, <1>4, <2>3, PutCommandIs DEF EndCommand, Turn, NabuTypes
  <2> QED
    BY <2>1, <2>4, <2>5, <2>6 DEF StageOK
<1>5. ASSUME PutParam PROVE G
  <2>1. QueueTypes'
    BY <1>5, PutParamIs, PutTyped
  <2>2. NabuTypes' /\ StageFits'
    BY <1>0, <1>5, PutParamIs, ParamsAre, SMTT(30) DEF Turn, Stay, NabuTypes, StageFits
  <2>3. AtFits'
    BY <1>5, PutParamIs, ParamsAre DEF Turn, Stay, AtFits
  <2> QED
    BY <2>1, <2>2, <2>3 DEF StageOK
<1>6. ASSUME PutAck PROVE G
  <2>1. QueueTypes'
    BY <1>6, PutAckIs, PutTyped
  <2>2. NabuTypes' /\ StageFits'
    BY <1>0, <1>6, PutAckIs DEF Turn, Stay, EndCommand, NabuTypes, StageFits
  <2>3. AtFits'
    BY <1>6, PutAckIs DEF Turn, Stay, EndCommand, AtFits
  <2> QED
    BY <2>1, <2>2, <2>3 DEF StageOK
<1>7. ASSUME NEW b, GetReply(b) PROVE G
  <2>1. QueueTypes'
    BY <1>7, GetReplyIs, HeardTyped
  <2>2. (cmd = 132 => Len(params) = 4) /\ (cmd = 133 => Len(params) = 2)
    BY NabuAssumption DEF StageOK, StageFits
  <2>3. cmd \in {132, 133} => 0 < Len(params)
    <3>1. \A l \in {2, 4} : 0 < l
      OBVIOUS
    <3>2. cmd \in {132, 133} => Len(params) \in {2, 4}
      BY <2>2, Zenon
    <3> QED
      BY <3>1, <3>2, Zenon
  <2>4. \/ Stay /\ at + 1 < Len(Replies(cmd)) /\ at + 1 \in 0 .. 3
        \/ Turn("param") /\ 0 < Len(params) /\ cmd \in {132, 133}
        \/ EndCommand
    BY <1>7, <2>3, GetReplyIs
  <2>5. AtFits'
    <3>1. CASE Stay /\ at + 1 < Len(Replies(cmd))
      <4>1. stage = "reply"
        BY <1>7, GetReplyIs
      <4> QED
        BY <3>1, <4>1, Zenon DEF Stay, AtFits
    <3> QED
      BY <1>7, <2>4, <3>1, GetReplyIs, AtEnds, AtTurns, Zenon
  <2>6. NabuTypes'
    BY <1>0, <1>7, <2>4, GetReplyIs DEF Turn, Stay, EndCommand, NabuTypes
  <2>7. StageFits'
    BY <1>0, <1>7, <2>4, GetReplyIs DEF Turn, Stay, EndCommand, StageFits
  <2> QED
    BY <2>1, <2>5, <2>6, <2>7 DEF StageOK
<1>8. ASSUME NEW b, GetDone(b) PROVE G
  <2>1. QueueTypes'
    BY <1>8, GetDoneIs, HeardTyped
  <2>2. cmd = 133 => params \in Words
    BY <1>0 DEF StageFits
  <2>3. NabuTypes' /\ StageFits'
    BY <1>0, <1>8, <2>2, GetDoneIs DEF Turn, EndCommand, NabuTypes, StageFits
  <2> QED
    BY <1>8, <2>1, <2>3, GetDoneIs, AtEnds DEF StageOK
<1>9. ASSUME NEW b, GetKind(b) PROVE G
  <2>1. QueueTypes'
    BY <1>9, GetKindIs, HeardTyped
  <2>3. NabuTypes' /\ StageFits'
    BY <1>0, <1>9, GetKindIs DEF Turn, NabuTypes, StageFits
  <2> QED
    BY <1>9, <2>1, <2>3, GetKindIs, AtEnds DEF StageOK
<1>10. ASSUME NEW b, GetData(b) PROVE G
  <2>1. QueueTypes'
    BY <1>10, GetDataIs, HeardTyped
  <2>2. got \in Seq(Byte) /\ b \in Byte /\ Append(got, b) \in Seq(Byte)
    BY <1>10, GetDataIs DEF NabuTypes
  <2>6. esc' \in BOOLEAN
    BY <1>10, Zenon DEF GetData
  <2>3. /\ got' \in {got, Append(got, b)} /\ stage = "body" /\ cmd = 132
        /\ UNCHANGED <<params, word, upsets>>
        /\ (packet' = got /\ EndCommand) \/ UNCHANGED <<packet, cmd, stage, at>>
    BY <1>0, <1>10, GetDataIs DEF StageFits
  <2>4. NabuTypes'
    BY <1>0, <2>2, <2>3, <2>6 DEF EndCommand, NabuTypes
  <2>5. StageFits' /\ AtFits'
    BY <1>0, <2>3 DEF EndCommand, StageFits, AtFits
  <2> QED
    BY <2>1, <2>4, <2>5 DEF StageOK
<1>11. ASSUME NEW b, GetOther(b) PROVE G
  <2>1. QueueTypes'
    BY <1>11, GetOtherIs, HeardTyped
  <2>2. CASE cmd = 131
    <3>0. Replies(131) # <<>>
      BY DEF Replies
    <3>2. 0 < Len(Replies(131))
      BY <3>0, RepliesAre, Zenon
    <3>3. Turn("reply") /\ UNCHANGED <<params, word, got, esc, packet, upsets>>
      BY <1>11, <2>2, GetOtherIs
    <3>4. AtFits'
      BY <2>2, <3>2, <3>3, AtTurns, Zenon
    <3>5. NabuTypes' /\ StageFits'
      BY <1>0, <2>2, <3>3 DEF Turn, NabuTypes, StageFits
    <3> QED
      BY <2>1, <3>4, <3>5 DEF StageOK
  <2>3. CASE cmd # 131
    BY <1>11, <2>1, <2>3, GetOtherIs, RestartTyped
  <2> QED
    BY <2>2, <2>3
<1>12. ASSUME NEW b, Drop(b) PROVE G
  <2>1. QueueTypes'
    BY <1>12, DropIs, HeardTyped
  <2> QED
    BY <1>12, <2>1, DropIs DEF NabuTypes, StageOK, StageFits, AtFits
<1>13. ASSUME GiveUp PROVE G
  BY <1>0, <1>13, RestartTyped DEF GiveUp
<1>14. ASSUME Reset PROVE G
  BY <1>0, <1>14, RestartTyped DEF Reset
<1> QED
  BY <1>1, <1>2, <1>3, <1>4, <1>5, <1>6, <1>7, <1>8, <1>9, <1>10, <1>11, <1>12, <1>13,
     <1>14, NabuCases

LEMMA NabuServes ==
  ASSUME GatewayTypes, ServingOK, Nabu PROVE GatewayTypes' /\ ServingOK'
BY NabuKeeps DEF GatewayKept, GatewayTypes, ServingOK, Delivers

LEMMA GatewayStage ==
  ASSUME NabuTypes, StageOK, NabuKept, upsets' \in 0 .. MaxUpsets
  PROVE  NabuTypes' /\ StageOK'
BY DEF NabuKept, NabuTypes, StageOK, StageFits, AtFits
-----------------------------------------------------------------------------
\* What is before the gateway, step by step.
LEMMA RxShrinks ==
  ASSUME QueueTypes, NabuTypes, NabuKept, RxLess, RxOK, Called, Refusing, upsets' \in 0 .. MaxUpsets
  PROVE  RxOK' /\ Called' /\ Refusing'
PROOF
<1>1. rx' = <<>> \/ rx' = rx \/ \E b : RxTakes(b)
  BY DEF RxLess
<1>2. upsets \in Nat /\ upsets' \in Nat /\ upsets <= upsets' /\ MaxUpsets \in Nat
  BY NabuAssumption DEF NabuTypes, NabuKept
<1>3. CASE rx' = <<>>
  <2>1. Len(rx') = 0
    BY <1>3
  <2>6. ~(Len(rx') > 2) /\ \A k \in 1 .. Len(rx') : FALSE
    BY <2>1
  <2>7. RxMarks'
    BY <2>6, Zenon DEF RxMarks
  <2>9. 0 <= 4 /\ 0 <= 4 + upsets' /\ 0 <= 5 + upsets'
    <3>1. 0 <= 4 /\ \A n \in Nat : 0 <= 4 + n /\ 0 <= 5 + n
      OBVIOUS
    <3> QED
      BY <1>2, <3>1, Zenon
  <2>8. Room'
    BY <2>1, <2>9, Zenon DEF Room
  <2>3. AcksOnly' /\ Called'
    BY <2>1, <2>6 DEF AcksOnly, Called
  <2>4. at' \in 0 .. 3
    BY DEF NabuKept, NabuTypes
  <2>5. Refusing'
    BY <2>1, <2>3, <2>4 DEF Refusing
  <2> QED
    BY <2>3, <2>5, <2>7, <2>8 DEF RxOK
<1>4. CASE rx' = rx
  <2>1. RxMarks'
    BY <1>4 DEF RxMarks, RxOK
  <2>2. Room'
    BY <1>2, <1>4 DEF Room, RxOK, NabuKept, QueueTypes
  <2>3. Called' /\ Refusing'
    BY <1>4 DEF Called, Refusing, AcksOnly, NabuKept
  <2> QED
    BY <2>1, <2>2, <2>3 DEF RxOK
<1>5. ASSUME NEW b, RxTakes(b) PROVE RxOK' /\ Called' /\ Refusing'
  <2>1. /\ Len(rx) \in Nat /\ Len(rx) > 0 /\ Len(rx') = Len(rx) - 1
        /\ \A k \in 1 .. Len(rx') : rx'[k] = rx[k + 1] /\ k + 1 \in 1 .. Len(rx)
    BY <1>5 DEF RxTakes, QueueTypes
  <2>2. ASSUME Len(rx') > 2
        PROVE  \E k \in Len(rx') - 2 .. Len(rx') : rx'[k].meant # "ack"
    <3>1. PICK k \in Len(rx) - 2 .. Len(rx) : rx[k].meant # "ack"
      BY <2>1, <2>2 DEF RxOK, RxMarks
    <3>2. k - 1 \in Len(rx') - 2 .. Len(rx') /\ k - 1 \in 1 .. Len(rx') /\ (k - 1) + 1 = k
      BY <2>1, <2>2
    <3> QED
      BY <2>1, <3>1, <3>2
  <2>3. RxMarks'
    BY <2>1, <2>2 DEF RxOK, RxMarks
  <2>4. Room'
    BY <1>2, <2>1 DEF Room, RxOK, NabuKept
  <2>5. AcksOnly => AcksOnly'
    BY <2>1 DEF AcksOnly
  <2>6. Called'
    BY <2>1, <2>5 DEF Called, NabuKept
  <2>7. Refusing'
    BY <2>1, <2>5 DEF Refusing, NabuKept, NabuTypes
  <2> QED
    BY <2>3, <2>4, <2>6, <2>7 DEF RxOK
<1> QED
  BY <1>1, <1>3, <1>4, <1>5

\* Where only acks are left they are at most a handshake.
LEMMA OneHandshake ==
  ASSUME QueueTypes, RxOK, \A k \in DOMAIN rx : rx[k].meant = "ack"
  PROVE  AcksOnly /\ Len(rx) <= 2
PROOF
<1>1. Len(rx) \in Nat /\ DOMAIN rx = 1 .. Len(rx)
  BY DEF QueueTypes
<1>2. Len(rx) > 2 => \E k \in 1 .. Len(rx) : rx[k].meant # "ack"
  BY <1>1 DEF RxOK, RxMarks
<1> QED
  BY <1>1, <1>2 DEF AcksOnly

\* One more byte before the gateway.
LEMMA MarksGrow ==
  ASSUME QueueTypes, RxMarks, NEW e, RxPuts(e),
         e.meant # "ack" \/ (e.byte \in {16, 6} /\ Len(rx) <= 1)
  PROVE  RxMarks'
PROOF
<1>1. /\ Len(rx) \in Nat /\ Len(rx') = Len(rx) + 1 /\ rx'[Len(rx) + 1] = e
      /\ \A k \in 1 .. Len(rx) : rx'[k] = rx[k]
  BY DEF QueueTypes, RxPuts
<1>2. ASSUME NEW k \in 1 .. Len(rx'), rx'[k].meant = "ack" PROVE rx'[k].byte \in {16, 6}
  <2>1. CASE k = Len(rx) + 1
    BY <1>1, <1>2, <2>1
  <2>2. CASE k # Len(rx) + 1
    <3>1. k \in 1 .. Len(rx) /\ rx'[k] = rx[k]
      BY <1>1, <2>2
    <3> QED
      BY <1>2, <3>1 DEF RxMarks
  <2> QED
    BY <2>1, <2>2
<1>3. ASSUME Len(rx') > 2 PROVE \E k \in Len(rx') - 2 .. Len(rx') : rx'[k].meant # "ack"
  BY <1>1, <1>3
<1> QED
  BY <1>2, <1>3 DEF RxMarks

\* What the invariant says of the queue where the NABU puts and turns.
LEMMA ParamsBefore ==
  ASSUME QueueTypes, NabuTypes, StageOK, Asked, stage = "param"
  PROVE  pc # "boot" /\ tx = <<>> /\ Len(rx) \in 0 .. at
PROOF
<1>1. ArgsPut(at) /\ at \in 0 .. 3 /\ Len(rx) \in Nat
  BY DEF Asked, NabuTypes, QueueTypes
<1>2. CASE cmd = 132
  BY <1>1, <1>2 DEF ArgsPut, RequestPut
<1>3. CASE cmd # 132
  BY <1>1, <1>3 DEF ArgsPut, WordPut
<1> QED
  BY <1>2, <1>3

LEMMA AcksBefore ==
  ASSUME QueueTypes, NabuTypes, Refusing, Receiving, stage \in {"ack", "nak"}
  PROVE  AcksOnly /\ Len(rx) \in 0 .. at
PROOF
<1>1. at \in 0 .. 3 /\ Len(rx) \in Nat
  BY DEF NabuTypes, QueueTypes
<1>2. CASE stage = "nak"
  BY <1>1, <1>2 DEF Refusing
<1>3. CASE stage = "ack"
  <2>1. /\ at - Len(rx) \in {0, 1}
        /\ \A k \in 1 .. Len(rx) : rx[k] = [byte |-> Ack[at - Len(rx) + k], meant |-> "ack"]
    BY <1>3 DEF Receiving, AckPut
  <2>2. AcksOnly
    <3>1. ASSUME NEW k \in 1 .. Len(rx) PROVE rx[k].meant = "ack"
      <4>1. PICK b : rx[k] = [byte |-> b, meant |-> "ack"]
        BY <2>1, Zenon
      <4> QED
        BY <4>1
    <3> QED
      BY <3>1 DEF AcksOnly
  <2> QED
    BY <1>1, <2>1, <2>2
<1> QED
  BY <1>2, <1>3

\* The queue before the gateway is as it was, and the NABU goes on.
LEMMA RxStays ==
  ASSUME rx' = rx, RxOK, upsets' = upsets, stage' # "command", cmd' \in {cmd, Idle}
  PROVE  RxOK'
BY DEF RxOK, RxMarks, Room

LEMMA RxRestarts ==
  ASSUME QueueTypes, upsets' \in Nat, rx' = rx, RxOK, Restart, Len(rx) <= 4 + upsets'
  PROVE  RxOK' /\ Called' /\ Refusing'
PROOF
<1>1. RxMarks'
  BY DEF RxOK, RxMarks
<1>2. cmd' = 131 /\ stage' = "command"
  BY DEF Restart, Starts
<1>0. \A n, m \in Nat : n <= 4 + m => n <= 5 + m
  OBVIOUS
<1>5. Len(rx) \in Nat
  BY DEF QueueTypes
<1>3. Len(rx') <= 4 + upsets' /\ Len(rx') <= 5 + upsets'
  BY <1>0, <1>5, Zenon
<1>4. Room'
  BY <1>2, <1>3, Zenon DEF Room
<1> QED
  BY <1>1, <1>2, <1>4 DEF RxOK, Called, Refusing

LEMMA RxNabu ==
  ASSUME QueueTypes, NabuTypes, StageOK, RxOK, Called, Asked, Refusing, Receiving,
         Nabu, upsets' \in 0 .. MaxUpsets
  PROVE  RxOK' /\ Called' /\ Refusing'
PROOF
<1> DEFINE G == RxOK' /\ Called' /\ Refusing'
<1>0. /\ Len(rx) \in Nat /\ upsets \in Nat /\ upsets' \in Nat /\ at \in 0 .. 3 /\ Idle = 0
      /\ RxMarks /\ Room /\ StageFits
  BY NabuAssumption DEF QueueTypes, NabuTypes, RxOK, StageOK, Idle
<1>1. ASSUME NEW c, NEW what, Begin(c, what) PROVE G
  <2>1. /\ rx' = rx /\ upsets' = upsets /\ stage' = "command" /\ at' = 0
    BY <1>1 DEF Begin, Starts, adapter_vars
  <2>2. AcksOnly /\ Len(rx) <= 2
    BY <1>1, OneHandshake DEF Begin
  <2>3. RxMarks' /\ AcksOnly' /\ Len(rx') <= 2
    BY <1>0, <2>1, <2>2 DEF RxMarks, AcksOnly
  <2>4. Room'
    BY <1>0, <2>1, <2>2 DEF Room
  <2> QED
    BY <2>1, <2>3, <2>4 DEF RxOK, Called, Refusing
<1>2. ASSUME PutCommand PROVE G
  <2>0. /\ stage = "command" /\ stage' \in {"reply", "idle"} /\ upsets' = upsets
        /\ stage' = "reply" => cmd' = cmd
        /\ cmd' \in {cmd, Idle} /\ (stage' = "reply" \/ cmd' = Idle)
    BY <1>2, PutCommandIs DEF EndCommand, Turn
  <2>1. CASE pc = "boot"
    <3>1. rx' = rx
      BY <1>2, <2>1, PutCommandIs
    <3>2. RxOK'
      BY <2>0, <3>1, RxStays
    <3>3. Called' /\ Refusing'
      BY <2>0, <3>1 DEF Called, Refusing, AcksOnly
    <3> QED
      BY <3>2, <3>3
  <2>2. CASE pc # "boot"
    <3>1. /\ RxPuts([byte |-> cmd, meant |-> "command"])
      BY <1>2, <2>2, PutCommandIs
    <3>2. /\ Len(rx') = Len(rx) + 1 /\ rx'[Len(rx')] = [byte |-> cmd, meant |-> "command"]
          /\ \A k \in 1 .. Len(rx') : k # Len(rx') => rx'[k] = rx[k] /\ k \in 1 .. Len(rx)
      BY <1>0, <3>1 DEF RxPuts
    <3>3. RxMarks'
      BY <1>0, <3>1, MarksGrow
    <3>4. Room' 
      BY <1>0, <2>0, <3>2 DEF Room, Called
    <3>5. Called'
      BY <1>0, <2>0, <3>2 DEF Called, AcksOnly
    <3>6. Refusing'
      BY <2>0 DEF Refusing
    <3> QED
      BY <3>3, <3>4, <3>5, <3>6 DEF RxOK
  <2> QED
    BY <2>1, <2>2
<1>3. ASSUME PutParam PROVE G
  <2>1. /\ stage = "param" /\ pc # "boot" /\ Len(rx) \in 0 .. at /\ at < Len(params) /\ cmd' = cmd
        /\ stage' \in {"param", "done"} /\ upsets' = upsets
    BY <1>3, PutParamIs, ParamsBefore, ParamsAre DEF Turn, Stay
  <2>2. RxPuts([byte |-> params[at + 1], meant |-> "param"])
    BY <1>3, <2>1, PutParamIs
  <2>3. RxMarks'
    BY <1>0, <2>2, MarksGrow
  <2>4. Len(rx') = Len(rx) + 1
    BY <2>2 DEF RxPuts
  <2>5. Room'
    BY <1>0, <2>1, <2>4 DEF Room
  <2> QED
    BY <2>1, <2>3, <2>5 DEF RxOK, Called, Refusing
<1>4. ASSUME PutAck PROVE G
  <2>1. /\ stage \in {"ack", "nak"} /\ AcksOnly /\ Len(rx) \in 0 .. at /\ at \in {0, 1}
        /\ cmd' \in {cmd, Idle} /\ stage' # "command" /\ upsets' = upsets
        /\ stage' = "nak" => at = 0 /\ at' = 1
        /\ stage' = "reply" => FALSE
    BY <1>4, PutAckIs, AcksBefore DEF Turn, Stay, EndCommand
  <2>2. CASE pc = "boot"
    <3>1. rx' = rx
      BY <1>4, <2>2, PutAckIs
    <3>2. RxOK'
      BY <2>1, <3>1, RxStays
    <3>3. Called' /\ Refusing'
      BY <2>1, <3>1 DEF Called, Refusing, AcksOnly
    <3> QED
      BY <3>2, <3>3
  <2>3. CASE pc # "boot"
    <3>0. PICK b \in {16, 6} : RxPuts([byte |-> b, meant |-> "ack"])
      BY <1>4, <2>3, PutAckIs
    <3>1. Len(rx') = Len(rx) + 1 /\ \A k \in 1 .. Len(rx) : rx'[k] = rx[k]
      BY <3>0 DEF RxPuts
    <3>2. rx'[Len(rx) + 1].meant = "ack"
      BY <3>0 DEF RxPuts
    <3>3. RxMarks'
      BY <1>0, <2>1, <3>0, MarksGrow
    <3>4. Room'
      BY <1>0, <2>1, <3>1 DEF Room
    <3>5. AcksOnly'
      BY <1>0, <2>1, <3>1, <3>2 DEF AcksOnly
    <3>6. Called' /\ Refusing'
      BY <1>0, <2>1, <3>1, <3>5 DEF Called, Refusing
    <3> QED
      BY <3>3, <3>4, <3>6 DEF RxOK
  <2> QED
    BY <2>2, <2>3
<1>5. ASSUME NEW b, GetReply(b) \/ GetDone(b) \/ GetKind(b) \/ GetData(b) \/ Drop(b) PROVE G
  <2>1. /\ rx' = rx /\ upsets' = upsets /\ stage' # "command" /\ cmd' \in {cmd, Idle}
        /\ stage' = "reply" => stage = "reply" /\ cmd' = cmd
        /\ stage' = "nak" => stage = "kind"
    BY <1>0, <1>5, GetReplyIs, GetDoneIs, GetKindIs, GetDataIs, DropIs
       DEF Turn, Stay, EndCommand, StageFits
  <2>2. RxOK'
    BY <2>1, RxStays
  <2>3. Called'
    BY <2>1 DEF Called
  <2>4. Refusing'
    <3>1. CASE stage = "kind"
      <4>1. rx' = <<>>
        BY <2>1, <3>1 DEF Asked, AnswerBegun
      <4>2. at' \in 0 .. 3
        <5>1. NabuTypes'
          BY NabuTyped
        <5> QED
          BY <5>1 DEF NabuTypes
      <4>3. (\A k \in 1 .. Len(<<>>) : FALSE) /\ \A n \in 0 .. 3 : Len(<<>>) <= n
        OBVIOUS
      <4> QED
        BY <4>1, <4>2, <4>3, Zenon DEF Refusing, AcksOnly
    <3>2. CASE stage # "kind"
      BY <2>1, <3>2 DEF Refusing
    <3> QED
      BY <3>1, <3>2
  <2> QED
    BY <2>2, <2>3, <2>4
<1>6. ASSUME NEW b, GetOther(b) PROVE G
  <2>1. rx' = rx /\ upsets' = upsets /\ cmd # Idle
    BY <1>0, <1>6, GetOtherIs DEF Waiting, StageFits
  <2>2. CASE cmd = 131
    <3>1. stage' = "reply" /\ cmd' = 131
      BY <1>6, <2>2, GetOtherIs DEF Turn
    <3> QED
      BY <2>1, <2>2, <3>1, RxStays DEF Called, Refusing
  <2>3. CASE cmd # 131
    <3>1. Len(rx) <= 4 + upsets'
      BY <1>0, <2>1, <2>3 DEF Room
    <3> QED
      BY <1>0, <1>6, <2>1, <2>3, <3>1, GetOtherIs, RxRestarts
  <2> QED
    BY <2>2, <2>3
<1>7. ASSUME GiveUp PROVE G
  <2>1. rx' = rx /\ Restart /\ Len(rx) = 0 /\ upsets' = upsets
    BY <1>7 DEF GiveUp, Quiet, adapter_vars
  <2>2. Len(rx) <= 4 + upsets'
    BY <1>0, <2>1
  <2> QED
    BY <1>0, <2>1, <2>2, RxRestarts
<1>8. ASSUME Reset PROVE G
  <2>1. rx' = rx /\ Restart /\ upsets' = upsets + 1
    BY <1>8 DEF Reset, adapter_vars
  <2>2. Len(rx) <= 4 + upsets'
    BY <1>0, <2>1 DEF Room
  <2> QED
    BY <1>0, <2>1, <2>2, RxRestarts
<1> QED
  BY <1>1, <1>2, <1>3, <1>4, <1>5, <1>6, <1>7, <1>8, NabuCases
-----------------------------------------------------------------------------
\* While the NABU has the last of the gateway's bytes still to get, a gateway that
\* reads and has nothing to read does nothing.
LEMMA Blocked ==
  ASSUME Gateway, tx # <<>>, rx = <<>>, pc \in {"packet", "channel_low", "channel_high"}
  PROVE  FALSE
BY GatewayCases DEF Boot, Reboot, TestKey, Simple, ChangeChannel, ChannelLow, ChannelHigh, PacketRequest,
   PacketArg, Taken, Fetched, FetchedEmpty, Prolog, Expected, Reading, SendData, SendEpilog, AllSent,
   Refuse, NabuSilent

LEMMA NoReply == ASSUME NEW b \in {16, 6} PROVE Raw(Reply(b)) = <<>>
BY DEF Raw, Reply

\* Before a command is replied to, what the gateway takes is left of a handshake,
\* or it is the command.
LEMMA CalledTakes ==
  ASSUME QueueTypes, RxOK, Called, cmd \in {132, 133}, stage \in {"command", "reply"},
         NEW b, RxTakes(b)
  PROVE  b \in {16, 6} \/ (b = cmd /\ stage = "reply" /\ Len(rx) = 1)
PROOF
<1>1. Len(rx) > 0 /\ rx[1].byte = b /\ cmd \notin {131, Idle} /\ Len(rx) \in Nat
  BY DEF RxTakes, Idle, QueueTypes
<1>2. rx[1].meant = "ack" => b \in {16, 6}
  BY <1>1 DEF RxOK, RxMarks
<1>3. stage = "command" => rx[1].meant = "ack"
  BY <1>1 DEF Called, AcksOnly
<1>4. stage = "reply" =>
        rx[1].meant = "ack" \/ (Len(rx) = 1 /\ rx[1] = [byte |-> cmd, meant |-> "command"])
  <2>1. ASSUME stage = "reply"
        PROVE  rx[1].meant = "ack" \/ (1 = Len(rx) /\ rx[1] = [byte |-> cmd, meant |-> "command"])
    <3>1. 1 \in 1 .. Len(rx)
      BY <1>1
    <3> QED
      BY <1>1, <2>1, <3>1, ZenonT(60) DEF Called
  <2> QED
    BY <2>1
<1> QED
  BY <1>1, <1>2, <1>3, <1>4

Opened == tx # <<>> /\ tx[1].byte = 16 =>
  /\ Len(tx) >= 2
  /\ tx[2].byte = 6 => stage = "reply" /\ Len(tx) = 2 /\ rx = <<>> /\ Entered

LEMMA AckIs == Raw(Ack) = <<Marked(16, "reply", 0), Marked(6, "reply", 0)>> /\ Raw(Ack) \in Seq(FromGateway)
PROOF
<1>1. Ack = <<16, 6>> /\ Ack \in Seq(Byte)
  BY Short DEF Ack
<1>2. Raw(Ack) \in Seq(FromGateway)
  BY <1>1, RawIs
<1>3. Raw(<<16, 6>>) = <<Marked(16, "reply", 0), Marked(6, "reply", 0)>>
  BY DEF Raw
<1> QED
  BY <1>1, <1>2, <1>3

LEMMA EmptyTaken ==
  ASSUME QueueTypes, NEW b, RxTakes(b), Len(rx) = 1 PROVE rx' = <<>>
PROOF
<1>1. rx' \in Seq(ToGateway) /\ Len(rx') = 0
  BY DEF RxTakes
<1> QED
  BY <1>1

\* The gateway's first byte after a call is its acknowledgement, or no 0x10.
LEMMA OpeningStarts ==
  ASSUME QueueTypes, GatewayTypes, ServingOK, RxOK, Called, Gateway, tx = <<>>,
         cmd \in {132, 133}, stage \in {"command", "reply"}, NabuKept
  PROVE  Opened'
PROOF
<1> DEFINE G == Opened'
<1>0. stage' = stage /\ cmd' = cmd
  BY DEF NabuKept
<1>1. ASSUME tx' = tx PROVE G
  BY <1>1 DEF Opened
<1>2. ASSUME NEW a, tx' = tx \o Raw(<<a>>), a # 16, a \in Byte PROVE G
  <2>1. Raw(<<a>>) = <<Marked(a, "reply", 0)>>
    BY DEF Raw
  <2>2. tx' = <<Marked(a, "reply", 0)>>
    BY <1>2, <2>1
  <2> QED
    BY <1>2, <2>2 DEF Opened, Marked
<1>3. ASSUME TestKey PROVE G
  <2>1. Raw(<<16, Done>>) = <<Marked(16, "reply", 0), Marked(228, "reply", 0)>>
    BY DEF Raw, Done
  <2>2. tx' = <<Marked(16, "reply", 0), Marked(228, "reply", 0)>>
    BY <1>3, <2>1 DEF TestKey
  <2> QED
    BY <2>2 DEF Opened, Marked
<1>4. ASSUME NEW b, Simple(b) PROVE G
  <2>1. RxTakes(b) /\ b # 132 /\ b # 133 /\ tx' = tx \o Raw(Reply(b))
    BY <1>4, TakenIs DEF Simple
  <2>2. b \in {16, 6}
    BY <2>1, CalledTakes
  <2>3. tx' = tx
    BY <2>1, <2>2, NoReply
  <2> QED
    BY <1>1, <2>3
<1>5. ASSUME NEW b \in {132, 133}, Taken(b), tx' = tx \o Raw(Ack), 
             IF b = 132 THEN pc' = "packet" /\ args' = <<>> ELSE pc' = "channel_low"
      PROVE  G
  <2>1. b = cmd /\ stage = "reply" /\ rx' = <<>>
    BY <1>5, TakenIs, CalledTakes, EmptyTaken
  <2>2. tx' = <<Marked(16, "reply", 0), Marked(6, "reply", 0)>>
    BY <1>5, AckIs
  <2>3. Entered'
    BY <1>0, <1>5, <2>1 DEF Entered
  <2> QED
    BY <1>0, <2>1, <2>2, <2>3 DEF Opened, Marked
<1>6. ASSUME ChangeChannel PROVE G
  BY <1>5, <1>6 DEF ChangeChannel
<1>7. ASSUME PacketRequest PROVE G
  BY <1>5, <1>7 DEF PacketRequest
<1>8. ASSUME NEW b, PacketArg(b) \/ ChannelHigh(b) PROVE G
  <2>1. tx' = tx \/ tx' = tx \o Raw(<<Done>>)
    BY <1>8 DEF PacketArg, ChannelHigh
  <2> QED
    BY <1>1, <1>2, <2>1 DEF Done, Byte
<1>9. ASSUME Prolog PROVE G
  <2>1. \E a \in {144, 145} : tx' = tx \o Raw(<<a>>)
    BY <1>9 DEF Prolog
  <2> QED
    BY <1>2, <2>1 DEF Byte
<1>10. ASSUME SendData PROVE G
  <2>1. PICK b, k : tx' = tx \o Doubled(b, k)
    BY <1>10 DEF SendData
  <2>2. CASE b = 16
    <3>1. tx' = <<Marked(16, "mark", k), Marked(16, "data", k)>>
      BY <2>1, <2>2 DEF Doubled
    <3> QED
      BY <3>1 DEF Opened, Marked
  <2>3. CASE b # 16
    <3>1. tx' = <<Marked(b, "data", k)>>
      BY <2>1, <2>3 DEF Doubled
    <3> QED
      BY <2>3, <3>1 DEF Opened, Marked
  <2> QED
    BY <2>2, <2>3
<1>11. ASSUME SendEpilog PROVE G
  <2>1. tx' = <<Marked(16, "mark", sent + 1), Marked(225, "end", sent + 1)>>
    BY <1>11 DEF SendEpilog, Epilog, End
  <2> QED
    BY <2>1 DEF Opened, Marked
<1>12. ASSUME Refuse PROVE G
  <2>1. tx' = <<Marked(144, "data", sent + 1), Marked(16, "mark", sent + 2), Marked(6, "end", sent + 2)>>
    BY <1>12 DEF Refuse, Refusal
  <2> QED
    BY <2>1 DEF Opened, Marked
<1> QED
  BY <1>1, <1>3, <1>4, <1>6, <1>7, <1>8, <1>9, <1>10, <1>11, <1>12, GatewayCases
     DEF Boot, Reboot, ChannelLow, Fetched, FetchedEmpty, Expected, ChannelTimeout, PacketTimeout,
         ExpectTimeout

LEMMA OpeningGateway ==
  ASSUME QueueTypes, GatewayTypes, ServingOK, RxOK, Called, Opening, Gateway, NabuKept
  PROVE  Opening'
PROOF
<1>0. /\ UNCHANGED <<cmd, stage, at>> /\ TxMore /\ Len(tx) \in Nat
      /\ tx # <<>> => Len(tx) > 0
  BY GatewayQueues DEF NabuKept, QueueTypes
<1>1. SUFFICES ASSUME cmd \in {132, 133} PROVE Opening'
  BY <1>0 DEF Opening
<1>2. CASE tx = <<>>
  <2>1. stage \in {"command", "reply"} => Opened'
    BY <1>1, <1>2, OpeningStarts
  <2>2. ~(stage = "reply" /\ at = 1)
    BY <1>1, <1>2 DEF Opening
  <2> QED
    BY <1>0, <1>1, <2>1, <2>2 DEF Opening, Opened
<1>3. CASE tx # <<>>
  <2>1. ~(rx = <<>> /\ Entered)
    BY <1>1, <1>3, Blocked DEF Entered
  <2>2. /\ Len(tx') \in Nat /\ Len(tx') >= Len(tx) /\ \A k \in 1 .. Len(tx) : tx'[k] = tx[k]
    BY <1>0 DEF TxMore, TxSends
  <2>3. tx' # <<>> /\ tx'[1] = tx[1] /\ (Len(tx) >= 2 => tx'[2] = tx[2] /\ Len(tx') >= 2)
    BY <1>0, <1>3, <2>2
  <2> QED
    BY <1>0, <1>1, <1>3, <2>1, <2>2, <2>3 DEF Opening
<1> QED
  BY <1>2, <1>3

LEMMA OpeningNabu ==
  ASSUME QueueTypes, NabuTypes, StageOK, Opening, Nabu
  PROVE  Opening'
PROOF
<1> DEFINE G == Opening'
<1>0. StageFits /\ Idle = 0 /\ Len(tx) \in Nat
  BY DEF StageOK, Idle, QueueTypes
<1>1. ASSUME cmd' \notin {132, 133} \/ stage' \notin {"command", "reply"} PROVE G
  BY <1>1 DEF Opening
<1>2. ASSUME NEW c, NEW what, Begin(c, what) PROVE G
  BY <1>2 DEF Begin, Starts, adapter_vars, Opening
<1>3. ASSUME PutCommand PROVE G
  <2>1. stage = "command" /\ tx' = tx /\ (EndCommand \/ Turn("reply"))
    BY <1>3, PutCommandIs
  <2>2. CASE EndCommand
    BY <1>1, <2>2 DEF EndCommand, Idle
  <2>3. CASE Turn("reply")
    BY <2>1, <2>3 DEF Turn, Opening
  <2> QED
    BY <2>1, <2>2, <2>3
<1>4. ASSUME PutParam \/ PutAck PROVE G
  BY <1>1, <1>4, PutParamIs, PutAckIs DEF Turn, Stay, EndCommand
<1>5. ASSUME NEW b, GetReply(b) PROVE G
  <2>1. /\ TxHears(b) /\ rx' = rx /\ stage = "reply" /\ b \in Replies(cmd)[at + 1] /\ at \in 0 .. 2
        /\ GatewayKept /\ (Stay \/ stage' \notin {"command", "reply"})
    BY <1>5, GetReplyIs, NabuKeeps DEF Turn, EndCommand
  <2>2. CASE Stay /\ cmd \in {132, 133}
    <3>1. CASE at = 0
      <4>1. Replies(cmd) = <<{16}, {6}>>
        BY <2>2, RepliesAre
      <4>2. b = 16
        BY <2>1, <3>1, <4>1
      <4>3. /\ tx # <<>> /\ tx[1].byte = 16
        BY <2>1, <4>2 DEF TxHears
      <4>4. Len(tx) >= 2 /\ (tx[2].byte = 6 => Len(tx) = 2 /\ rx = <<>> /\ Entered)
        BY <2>1, <2>2, <3>1, <4>3 DEF Opening
      <4>5. tx' # <<>> /\ tx'[1] = tx[2] /\ Len(tx') = Len(tx) - 1
        BY <1>0, <2>1, <4>4 DEF TxHears
      <4>6. Entered => Entered'
        BY <2>1, <2>2 DEF Entered, GatewayKept, Stay
      <4>7. stage' = "reply" /\ at' = 1
        BY <2>1, <2>2, <3>1 DEF Stay
      <4> QED
        BY <1>0, <2>1, <4>4, <4>5, <4>6, <4>7 DEF Opening
    <3>2. CASE at # 0
      <4>1. at' = at + 1
        BY <2>2 DEF Stay
      <4>2. at' # 0 /\ at' # 1
        BY <2>1, <3>2, <4>1
      <4>3. stage' = "reply"
        BY <2>1, <2>2 DEF Stay
      <4> QED
        BY <4>2, <4>3 DEF Opening
    <3> QED
      BY <3>1, <3>2
  <2>3. CASE cmd \notin {132, 133}
    BY <1>0, <1>1, <1>5, <2>3, GetReplyIs DEF Stay, Turn, EndCommand
  <2> QED
    BY <1>1, <2>1, <2>2, <2>3
<1>6. ASSUME NEW b, GetDone(b) \/ GetKind(b) \/ GetData(b) \/ Drop(b) PROVE G
  BY <1>0, <1>1, <1>6, GetDoneIs, GetKindIs, GetDataIs, DropIs DEF Turn, EndCommand, StageFits
<1>7. ASSUME NEW b, GetOther(b) PROVE G
  <2>1. cmd' = 131
    BY <1>7, GetOtherIs DEF Turn, Restart, Starts
  <2> QED
    BY <1>1, <2>1
<1>8. ASSUME GiveUp \/ Reset PROVE G
  BY <1>1, <1>8 DEF GiveUp, Reset, Restart, Starts
<1> QED
  BY <1>2, <1>3, <1>4, <1>5, <1>6, <1>7, <1>8, NabuCases
-----------------------------------------------------------------------------
\* The gateway reads the parameters the NABU puts.
LEMMA GatewayArgs ==
  ASSUME Gateway, tx = <<>>, pc \in {"packet", "channel_low", "channel_high"}
  PROVE  \/ \E b : PacketArg(b) \/ ChannelLow(b) \/ ChannelHigh(b)
         \/ NabuSilent /\ rx = <<>>
PROOF
<1> DEFINE G == (\E b : PacketArg(b) \/ ChannelLow(b) \/ ChannelHigh(b)) \/ (NabuSilent /\ rx = <<>>)
<1>1. pc # "boot" /\ pc # "loop" /\ pc # "fetch" /\ pc # "prolog" /\ pc # "data" /\ pc # "refuse"
      /\ ~Reading
  BY DEF Reading
<1> QED
  BY <1>1, GatewayCases, Zenon DEF Boot, Reboot, TestKey, Simple, ChangeChannel, PacketRequest,
     Fetched, FetchedEmpty, Prolog, Expected, SendData, SendEpilog, AllSent,
     Refuse, ChannelTimeout, PacketTimeout, ExpectTimeout

LEMMA DoneIs ==
  ASSUME tx = <<>>, tx' = tx \o Raw(<<Done>>)
  PROVE  tx' # <<>> /\ Len(tx') = 1 /\ tx'[1].byte = Done
PROOF
<1>1. Raw(<<Done>>) = <<Marked(Done, "reply", 0)>>
  BY DEF Raw
<1>2. tx' = <<Marked(Done, "reply", 0)>>
  BY <1>1
<1> QED
  BY <1>2 DEF Marked

LEMMA RequestTaken ==
  ASSUME QueueTypes, GatewayTypes, NEW n \in 0 .. 4, RequestPut(n), tx = <<>>,
         \A k \in 1 .. Len(rx) : rx[k].meant = "param",
         Len(params) = 4, params \in Seq(Byte),
         NEW b, PacketArg(b), params' = params
  PROVE  \/ RequestPut(n)' /\ tx' = <<>> /\ \A k \in 1 .. Len(rx') : rx'[k].meant = "param"
         \/ /\ n = 4 /\ rx' = <<>> /\ pc' = "fetch" /\ args' = params
            /\ tx' # <<>> /\ Len(tx') = 1 /\ tx'[1].byte = Done
PROOF
<1>1. RxTakes(b) /\ args' = Append(args, b)
  BY TakenIs DEF PacketArg
<1>2. /\ args \in Seq(Byte) /\ Len(args) \in Nat /\ Len(rx) \in Nat /\ Len(rx) > 0
      /\ Len(rx') = Len(rx) - 1 /\ Len(args) + Len(rx) = n /\ Len(args) <= 3
  BY <1>1 DEF GatewayTypes, QueueTypes, RxTakes, RequestPut
<1>3. /\ args' \in Seq(Byte) /\ Len(args') = Len(args) + 1 /\ args'[Len(args) + 1] = b
      /\ \A k \in 1 .. Len(args) : args'[k] = args[k]
  BY <1>1, <1>2, AppendProperties DEF RxTakes
<1>4. b = params[Len(args) + 1]
  <2>1. 1 \in 1 .. Len(rx) /\ rx[1].byte = b
    BY <1>1, <1>2 DEF RxTakes
  <2> QED
    BY <2>1 DEF RequestPut
<1>5. \A k \in 1 .. Len(args') : args'[k] = params[k]
  BY <1>2, <1>3, <1>4 DEF RequestPut
<1>6. /\ \A k \in 1 .. Len(rx') : rx'[k].byte = params[Len(args') + k]
      /\ \A k \in 1 .. Len(rx') : rx'[k].meant = "param"
  <2>1. ASSUME NEW k \in 1 .. Len(rx')
        PROVE  rx'[k].byte = params[Len(args') + k] /\ rx'[k].meant = "param"
    <3>1. k + 1 \in 1 .. Len(rx) /\ rx'[k] = rx[k + 1]
      BY <1>1, <1>2 DEF RxTakes
    <3>2. rx[k + 1].byte = params[Len(args) + (k + 1)] /\ rx[k + 1].meant = "param"
      BY <3>1 DEF RequestPut
    <3>3. Len(args) + (k + 1) = Len(args') + k
      BY <1>2, <1>3, <3>1
    <3> QED
      BY <3>1, <3>2, <3>3
  <2> QED
    BY <2>1
<1>7. CASE Len(args) < 3
  <2>1. pc' = "packet" /\ tx' = <<>>
    BY <1>7 DEF PacketArg, RequestPut
  <2>2. Len(args') + Len(rx') = n /\ Len(args') <= 3
    BY <1>2, <1>3, <1>7
  <2> QED
    BY <1>5, <1>6, <2>1, <2>2 DEF RequestPut
<1>8. CASE ~(Len(args) < 3)
  <2>1. pc' = "fetch" /\ tx' # <<>> /\ Len(tx') = 1 /\ tx'[1].byte = Done
    BY <1>8, DoneIs DEF PacketArg
  <2>2. Len(rx) = 1 /\ n = 4 /\ Len(args') = 4
    BY <1>2, <1>3, <1>8
  <2>3. rx' = <<>>
    BY <1>1, <2>2, EmptyTaken
  <2>4. args' = params
    BY <1>3, <1>5, <2>2
  <2> QED
    BY <2>1, <2>2, <2>3, <2>4
<1> QED
  BY <1>7, <1>8

LEMMA WordTaken ==
  ASSUME QueueTypes, GatewayTypes, NEW n \in 0 .. 2, WordPut(n), tx = <<>>,
         \A k \in 1 .. Len(rx) : rx[k].meant = "param",
         NEW b, ChannelLow(b) \/ ChannelHigh(b), params' = params
  PROVE  \/ WordPut(n)' /\ tx' = <<>> /\ \A k \in 1 .. Len(rx') : rx'[k].meant = "param"
         \/ /\ n = 2 /\ rx' = <<>> /\ pc' = "loop" /\ tx' # <<>> /\ tx'[1].byte = Done
            /\ Len(tx') = 1 /\ channelWord' = channelWord + 256 * b /\ channelValid'
            /\ channelWord = params[1] /\ b = params[2]
PROOF
<1>1. RxTakes(b)
  BY TakenIs DEF ChannelLow, ChannelHigh
<1>2. /\ Len(rx) \in Nat /\ Len(rx) > 0 /\ Len(rx') = Len(rx) - 1 /\ rx[1].byte = b
      /\ Len(rx) \in {n, n - 1} /\ 1 \in 1 .. Len(rx)
  BY <1>1 DEF QueueTypes, RxTakes, WordPut
<1>3. b = params[n - Len(rx) + 1]
  BY <1>2 DEF WordPut
<1>4. /\ \A k \in 1 .. Len(rx') : rx'[k].byte = params[n - Len(rx') + k]
      /\ \A k \in 1 .. Len(rx') : rx'[k].meant = "param"
  <2>1. ASSUME NEW k \in 1 .. Len(rx')
        PROVE  rx'[k].byte = params[n - Len(rx') + k] /\ rx'[k].meant = "param"
    <3>1. k + 1 \in 1 .. Len(rx) /\ rx'[k] = rx[k + 1]
      BY <1>1, <1>2 DEF RxTakes
    <3>2. rx[k + 1].byte = params[n - Len(rx) + (k + 1)] /\ rx[k + 1].meant = "param"
      BY <3>1 DEF WordPut
    <3>3. n - Len(rx) + (k + 1) = n - Len(rx') + k
      BY <1>2, <3>1
    <3> QED
      BY <3>1, <3>2, <3>3
  <2> QED
    BY <2>1
<1>5. CASE ChannelLow(b)
  <2>1. pc = "channel_low" /\ pc' = "channel_high" /\ channelWord' = b /\ tx' = <<>>
    BY <1>5 DEF ChannelLow
  <2>2. Len(rx) = n
    BY <2>1 DEF WordPut
  <2>3. Len(rx') = n - 1 /\ b = params[1]
    BY <1>2, <1>3, <2>2
  <2> QED
    BY <1>4, <2>1, <2>3 DEF WordPut
<1>6. CASE ChannelHigh(b)
  <2>1. /\ pc = "channel_high" /\ pc' = "loop" /\ channelWord' = channelWord + 256 * b
        /\ channelValid' /\ tx' # <<>> /\ Len(tx') = 1 /\ tx'[1].byte = Done
    BY <1>6, DoneIs DEF ChannelHigh
  <2>2. Len(rx) = n - 1 /\ channelWord = params[1]
    BY <2>1 DEF WordPut
  <2>3. n = 2 /\ Len(rx) = 1 /\ b = params[2]
    BY <1>2, <1>3, <2>2
  <2>4. rx' = <<>>
    BY <1>1, <2>3, EmptyTaken
  <2> QED
    BY <2>1, <2>2, <2>3, <2>4
<1> QED
  BY <1>5, <1>6

LEMMA RawOne ==
  ASSUME NEW a \in Byte
  PROVE  Raw(<<a>>) \in Seq(FromGateway) /\ Len(Raw(<<a>>)) = 1 /\ Raw(<<a>>)[1].byte = a
PROOF
<1>1. Raw(<<a>>) = <<Marked(a, "reply", 0)>>
  BY DEF Raw
<1>2. <<a>> \in Seq(Byte)
  OBVIOUS
<1>3. Raw(<<a>>) \in Seq(FromGateway)
  BY <1>2, RawIs
<1> QED
  BY <1>1, <1>3 DEF Marked

LEMMA TestIs ==
  /\ Raw(<<16, Done>>) \in Seq(FromGateway) /\ Len(Raw(<<16, Done>>)) > 0
  /\ Raw(<<16, Done>>)[1].byte \in {144, 16}
PROOF
<1>1. Raw(<<16, Done>>) = <<Marked(16, "reply", 0), Marked(Done, "reply", 0)>>
  BY DEF Raw
<1>2. <<16, Done>> \in Seq(Byte)
  BY Short
<1>3. Raw(<<16, Done>>) \in Seq(FromGateway)
  BY <1>2, RawIs
<1> QED
  BY <1>1, <1>3 DEF Marked

\* The answer begins behind the n bytes that are still to be got.
LEMMA AnswerGoesOn ==
  ASSUME QueueTypes, GatewayTypes, ServingOK, NEW n \in {0, 1}, AnswerBegun(n), Gateway,
         params' = params
  PROVE  AnswerBegun(n)'
PROOF
<1> DEFINE G == AnswerBegun(n)'
<1>0. rx = <<>> /\ args = params /\ Len(tx) \in Nat /\ tx \in Seq(FromGateway)
  BY DEF AnswerBegun, QueueTypes
<1>1. ASSUME Boot PROVE G
  BY <1>1 DEF Boot, AnswerBegun
<1>2. ASSUME Reboot PROVE G
  BY <1>2 DEF Reboot, AnswerBegun
<1>3. ASSUME NEW u \in Seq(FromGateway), tx' = tx \o u, Len(u) > 0, u[1].byte \in {144, 16},
             pc \in {"loop", "refuse"}, pc' = "loop", UNCHANGED <<args, rx>>
      PROVE  G
  <2>1. TxSends(u)
    BY <1>3, SendsIs
  <2>2. /\ Len(tx') = Len(tx) + Len(u) /\ Len(u) \in Nat
        /\ \A k \in 1 .. Len(tx) : tx'[k] = tx[k]
        /\ \A k \in 1 .. Len(u) : tx'[Len(tx) + k] = u[k]
    BY <2>1 DEF TxSends
  <2>3. 1 \in 1 .. Len(u)
    BY <1>3, <2>2
  <2>4. tx'[Len(tx) + 1].byte \in {144, 16}
    BY <1>3, <2>2, <2>3
  <2>5. Len(tx) >= n /\ (Len(tx) > n => tx[n + 1].byte \in {144, 16})
    BY <1>0, <1>3 DEF AnswerBegun
  <2>6. Len(tx') > n /\ tx'[n + 1].byte \in {144, 16}
    <3>1. CASE Len(tx) > n
      <4>1. n + 1 \in 1 .. Len(tx)
        BY <1>0, <3>1
      <4> QED
        BY <1>0, <1>3, <2>2, <2>5, <3>1, <4>1
    <3>2. CASE Len(tx) = n
      BY <1>0, <1>3, <2>2, <2>4, <3>2
    <3> QED
      BY <1>0, <2>5, <3>1, <3>2
  <2>7. Len(tx') >= n
    BY <1>0, <1>3, <2>2, <2>5
  <2> QED
    BY <1>0, <1>3, <2>6, <2>7 DEF AnswerBegun
<1>4. ASSUME TestKey PROVE G
  BY <1>3, <1>4, TestIs DEF TestKey
<1>5. ASSUME Fetched PROVE G
  <2>1. pc = "fetch" /\ pc' \in {"refuse", "loop", "prolog"} /\ UNCHANGED <<args, rx, tx>>
    BY <1>5 DEF Fetched
  <2>2. Len(tx) = n
    BY <1>0, <2>1 DEF AnswerBegun
  <2> QED
    BY <1>0, <2>1, <2>2 DEF AnswerBegun
<1>6. ASSUME FetchedEmpty PROVE G
  BY <1>0, <1>6 DEF FetchedEmpty, AnswerBegun
<1>7. ASSUME Prolog PROVE G
  <2>0. pc = "prolog" /\ pc' = "read_10" /\ UNCHANGED <<args, rx, answer>>
    BY <1>7 DEF Prolog
  <2>1. PICK a \in Byte : a = (IF answer = "twice" THEN 144 ELSE 145) /\ tx' = tx \o Raw(<<a>>)
    <3>1. 144 \in Byte /\ 145 \in Byte
      BY DEF Byte
    <3> QED
      BY <1>7, <3>1, Zenon DEF Prolog
  <2>3. Raw(<<a>>) \in Seq(FromGateway) /\ Len(Raw(<<a>>)) = 1 /\ Raw(<<a>>)[1].byte = a
    BY RawOne
  <2>4. Len(tx) = n
    BY <1>0, <2>0 DEF AnswerBegun
  <2>5. TxSends(Raw(<<a>>))
    BY <2>1, <2>3, SendsIs
  <2>6. Len(tx') = n + 1 /\ tx'[n + 1].byte = a
    BY <2>3, <2>4, <2>5 DEF TxSends
  <2> QED
    BY <1>0, <2>0, <2>1, <2>6 DEF AnswerBegun
<1>8. ASSUME Refuse PROVE G
  <2>1. /\ pc = "refuse" /\ pc' = "loop" /\ UNCHANGED <<args, rx>> /\ tx' = tx \o Refusal(sent)
        /\ sent \in Nat
    BY <1>8 DEF Refuse, AllSent, AnswerBegun, GatewayTypes
  <2>2. Refusal(sent) \in Seq(FromGateway) /\ Len(Refusal(sent)) = 3
    BY <2>1, EndsAre
  <2>3. Refusal(sent)[1].byte \in {144, 16} /\ Len(Refusal(sent)) > 0
    BY DEF Refusal, Marked
  <2> QED
    BY <1>3, <2>1, <2>2, <2>3
<1>9. ASSUME NEW b, Taken(b) PROVE G
  BY <1>0, <1>9 DEF Taken
<1>10. ASSUME SendData \/ SendEpilog \/ ChannelTimeout \/ PacketTimeout PROVE G
  BY <1>10 DEF SendData, SendEpilog, AllSent, ChannelTimeout, PacketTimeout, AnswerBegun
<1>11. ASSUME NabuSilent, ExpectTimeout PROVE G
  <2>1. pc = "read_10" /\ tx = <<>>
    BY <1>11 DEF ExpectTimeout, Reading, NabuSilent, AnswerBegun
  <2>2. Len(tx) = n + 1
    BY <2>1 DEF AnswerBegun
  <2> QED
    BY <2>1, <2>2
<1> QED
  BY <1>1, <1>2, <1>4, <1>5, <1>6, <1>7, <1>8, <1>9, <1>10, <1>11, GatewayCases
     DEF Simple, ChangeChannel, ChannelLow, ChannelHigh, PacketRequest, PacketArg, Expected

LEMMA ParamsLen ==
  ASSUME StageOK, stage \in {"param", "done", "kind"}
  PROVE  /\ cmd \in {132, 133} /\ params \in Seq(Byte) /\ Len(params) = IF cmd = 132 THEN 4 ELSE 2
         /\ stage = "kind" => cmd = 132
BY NabuAssumption DEF StageOK, StageFits

\* Reading parameters, the gateway goes on to the answer when it has them all.
LEMMA ArgsGateway ==
  ASSUME QueueTypes, GatewayTypes, StageOK, stage \in {"param", "done"},
         NEW n \in 0 .. Len(params), ArgsPut(n), Gateway, NabuKept,
         stage = "done" => n = Len(params)
  PROVE  \/ ArgsPut(n)'
         \/ /\ n = Len(params) /\ rx' = <<>> /\ tx' # <<>> /\ tx'[1].byte = Done /\ Len(tx') = 1
            /\ cmd = 132 => pc' = "fetch" /\ args' = params
            /\ cmd = 133 => pc' = "loop" /\ channelValid' /\ channelWord' = params[1] + 256 * params[2]
PROOF
<1>0. /\ cmd \in {132, 133} /\ params \in Seq(Byte) /\ Len(params) = IF cmd = 132 THEN 4 ELSE 2
      /\ params' = params /\ cmd' = cmd
      /\ tx = <<>> /\ \A k \in 1 .. Len(rx) : rx[k].meant = "param"
      /\ Len(rx) \in Nat /\ Len(args) \in Nat
  BY ParamsLen DEF NabuKept, ArgsPut, QueueTypes, GatewayTypes
<1>1. CASE cmd = 132
  <2>1. RequestPut(n) /\ pc = "packet" /\ Len(params) = 4
    BY <1>0, <1>1 DEF ArgsPut, RequestPut
  <2>2. ~(NabuSilent /\ rx = <<>>)
    <3>1. CASE stage = "param"
      BY <1>1, <3>1 DEF NabuSilent, Waiting, Idle
    <3>2. CASE stage = "done"
      BY <1>0, <2>1, <3>2 DEF RequestPut
    <3> QED
      BY <3>1, <3>2
  <2>3. PICK b : PacketArg(b)
    BY <1>0, <2>1, <2>2, GatewayArgs DEF ChannelLow, ChannelHigh
  <2>4. n \in 0 .. 4
    BY <2>1
  <2>5. \/ RequestPut(n)' /\ tx' = <<>> /\ \A k \in 1 .. Len(rx') : rx'[k].meant = "param"
        \/ /\ n = 4 /\ rx' = <<>> /\ pc' = "fetch" /\ args' = params
           /\ tx' # <<>> /\ Len(tx') = 1 /\ tx'[1].byte = Done
    BY <1>0, <2>1, <2>3, <2>4, RequestTaken
  <2> QED
    BY <1>0, <1>1, <2>1, <2>5 DEF ArgsPut
<1>2. CASE cmd = 133
  <2>1. WordPut(n) /\ pc \in {"channel_low", "channel_high"} /\ Len(params) = 2
    BY <1>0, <1>2 DEF ArgsPut, WordPut
  <2>2. ~(NabuSilent /\ rx = <<>>)
    <3>1. CASE stage = "param"
      BY <1>2, <3>1 DEF NabuSilent, Waiting, Idle
    <3>2. CASE stage = "done"
      BY <1>0, <2>1, <3>2 DEF WordPut
    <3> QED
      BY <3>1, <3>2
  <2>3. PICK b : ChannelLow(b) \/ ChannelHigh(b)
    BY <1>0, <2>1, <2>2, GatewayArgs DEF PacketArg
  <2>4. n \in 0 .. 2
    BY <2>1
  <2>5. \/ WordPut(n)' /\ tx' = <<>> /\ \A k \in 1 .. Len(rx') : rx'[k].meant = "param"
        \/ /\ n = 2 /\ rx' = <<>> /\ pc' = "loop" /\ tx' # <<>> /\ tx'[1].byte = Done
           /\ Len(tx') = 1 /\ channelWord' = channelWord + 256 * b /\ channelValid'
           /\ channelWord = params[1] /\ b = params[2]
    BY <1>0, <2>1, <2>3, <2>4, WordTaken
  <2> QED
    BY <1>0, <1>2, <2>1, <2>5 DEF ArgsPut
<1> QED
  BY <1>0, <1>1, <1>2

LEMMA AskedGateway ==
  ASSUME QueueTypes, GatewayTypes, NabuTypes, ServingOK, StageOK, Asked, Gateway, NabuKept
  PROVE  Asked'
PROOF
<1>0. /\ UNCHANGED <<cmd, params, stage, at>> /\ Len(tx) \in Nat /\ TxMore /\ RxLess
  BY GatewayQueues DEF NabuKept, QueueTypes
<1>1. CASE stage = "param"
  <2>1. PICK n : n = at
    OBVIOUS
  <2>2. n \in 0 .. Len(params) /\ ArgsPut(n) /\ n # Len(params)
    BY <1>1, <2>1, ParamsAre DEF Asked
  <2>3. ArgsPut(n)'
    BY <1>1, <2>2, ArgsGateway
  <2> QED
    BY <1>0, <1>1, <2>1, <2>3 DEF Asked
<1>2. CASE stage = "done" /\ ArgsPut(Len(params))
  <2>1. PICK n : n = Len(params)
    OBVIOUS
  <2>2. n \in 0 .. Len(params) /\ ArgsPut(n) /\ cmd \in {132, 133}
    BY <1>2, <2>1, ParamsLen
  <2>3. \/ ArgsPut(n)'
        \/ /\ rx' = <<>> /\ tx' # <<>> /\ tx'[1].byte = Done /\ Len(tx') = 1
           /\ cmd = 132 => pc' = "fetch" /\ args' = params
           /\ cmd = 133 => pc' = "loop"
    BY <1>2, <2>1, <2>2, ArgsGateway
  <2>4. CASE ArgsPut(n)'
    BY <1>0, <1>2, <2>1, <2>4 DEF Asked
  <2>5. CASE ~ArgsPut(n)'
    BY <1>0, <1>2, <2>2, <2>3, <2>5 DEF Asked, AnswerBegun
  <2> QED
    BY <2>4, <2>5
<1>3. ASSUME stage = "done", tx # <<>>, tx[1].byte = Done,
             IF cmd = 132 THEN AnswerBegun(1) ELSE rx = <<>> /\ pc \in {"loop", "boot"}
      PROVE  Asked'
  <2>1. Len(tx) > 0 /\ 1 \in 1 .. Len(tx)
    BY <1>0, <1>3 DEF QueueTypes
  <2>2. tx' # <<>> /\ tx'[1] = tx[1]
    <3>1. CASE tx' = tx
      BY <1>3, <3>1
    <3>2. CASE \E u \in Seq(FromGateway) : TxSends(u)
      <4>1. Len(tx') > 0 /\ tx'[1] = tx[1]
        BY <1>0, <2>1, <3>2 DEF TxSends
      <4> QED
        BY <4>1
    <3> QED
      BY <1>0, <3>1, <3>2 DEF TxMore
  <2>3. CASE cmd = 132
    BY <1>0, <1>3, <2>2, <2>3, AnswerGoesOn DEF Asked
  <2>4. CASE cmd # 132
    <3>1. ASSUME NEW b, Taken(b) PROVE FALSE
      BY <1>3, <2>4, <3>1 DEF Taken
    <3>2. pc \in {"loop", "boot"} /\ rx = <<>>
      BY <1>3, <2>4
    <3>3. rx' = <<>> /\ pc' \in {"loop", "boot"}
      BY <3>1, <3>2, GatewayCases DEF Boot, Reboot, TestKey, Simple, ChangeChannel, ChannelLow,
         ChannelHigh, PacketRequest, PacketArg, Fetched, FetchedEmpty, Prolog, Expected, SendData,
         SendEpilog, AllSent, Refuse, ChannelTimeout, PacketTimeout, ExpectTimeout, Reading
    <3> QED
      BY <1>0, <1>3, <2>2, <2>4, <3>3 DEF Asked
  <2> QED
    BY <2>3, <2>4
<1>4. CASE stage = "kind"
  <2>1. AnswerBegun(0)'
    BY <1>0, <1>4, AnswerGoesOn DEF Asked
  <2> QED
    BY <1>0, <1>4, <2>1 DEF Asked
<1>5. CASE stage \notin {"param", "done", "kind"}
  BY <1>0, <1>5 DEF Asked
<1> QED
  BY <1>1, <1>2, <1>3, <1>4, <1>5 DEF Asked

\* The NABU puts one more parameter.
LEMMA ParamPut ==
  ASSUME QueueTypes, GatewayTypes, NabuTypes, StageOK, stage = "param", ArgsPut(at), PutParam,
         NEW n, n = at + 1
  PROVE  ArgsPut(n)'
PROOF
<1>0. /\ cmd \in {132, 133} /\ at \in 0 .. 3 /\ tx = <<>> /\ Len(rx) \in Nat /\ Len(args) \in Nat
      /\ \A k \in 1 .. Len(rx) : rx[k].meant = "param"
  BY ParamsAre DEF ArgsPut, NabuTypes, QueueTypes, GatewayTypes
<1>2. UNCHANGED <<params, cmd, args, pc, channelWord>> /\ tx' = <<>>
  BY <1>0, PutParamIs DEF PutParam, Put, Turn, Stay
<1>3. pc # "boot"
  BY <1>0 DEF ArgsPut, RequestPut, WordPut
<1>4. RxPuts([byte |-> params[at + 1], meant |-> "param"])
  BY <1>3, PutParamIs
<1>5. /\ Len(rx') = Len(rx) + 1 /\ \A k \in 1 .. Len(rx) : rx'[k] = rx[k]
      /\ rx'[Len(rx) + 1].byte = params[n] /\ rx'[Len(rx) + 1].meant = "param"
  BY <1>4 DEF RxPuts
<1>6. \A k \in 1 .. Len(rx') : rx'[k].meant = "param"
  <2>1. ASSUME NEW k \in 1 .. Len(rx') PROVE k = Len(rx) + 1 \/ k \in 1 .. Len(rx)
    BY <1>0, <1>5
  <2> QED
    BY <1>0, <1>5, <2>1
<1>7. CASE cmd = 132
  <2>1. /\ pc = "packet" /\ Len(args) + Len(rx) = at /\ Len(args) <= 3
        /\ \A k \in 1 .. Len(args) : args[k] = params[k]
        /\ \A k \in 1 .. Len(rx) : rx[k].byte = params[Len(args) + k]
    BY <1>7 DEF ArgsPut, RequestPut
  <2>2. n = Len(args) + (Len(rx) + 1)
    BY <1>0, <2>1
  <2>3. ASSUME NEW k \in 1 .. Len(rx') PROVE rx'[k].byte = params[Len(args) + k]
    <3>1. k = Len(rx) + 1 \/ k \in 1 .. Len(rx)
      BY <1>0, <1>5
    <3> QED
      BY <1>5, <2>1, <2>2, <3>1
  <2>4. Len(args') + Len(rx') = n
    BY <1>0, <1>2, <1>5, <2>2
  <2>5. RequestPut(n)'
    BY <1>2, <2>1, <2>3, <2>4 DEF RequestPut
  <2>6. ArgsPut(n)'
    BY <1>2, <1>6, <1>7, <2>5 DEF ArgsPut
  <2> QED
    BY <2>6
<1>8. CASE cmd = 133
  <2>1. /\ \/ pc = "channel_low" /\ Len(rx) = at
           \/ pc = "channel_high" /\ Len(rx) = at - 1 /\ channelWord = params[1]
        /\ \A k \in 1 .. Len(rx) : rx[k].byte = params[at - Len(rx) + k]
    BY <1>8 DEF ArgsPut, WordPut
  <2>2. n - Len(rx') = at - Len(rx) /\ n = at - Len(rx) + (Len(rx) + 1)
    BY <1>0, <1>5
  <2>3. ASSUME NEW k \in 1 .. Len(rx') PROVE rx'[k].byte = params[n - Len(rx') + k]
    <3>1. k = Len(rx) + 1 \/ k \in 1 .. Len(rx)
      BY <1>0, <1>5
    <3> QED
      BY <1>5, <2>1, <2>2, <3>1
  <2>4. \/ pc' = "channel_low" /\ Len(rx') = n
        \/ pc' = "channel_high" /\ Len(rx') = n - 1 /\ channelWord' = params'[1]
    BY <1>0, <1>2, <1>5, <2>1
  <2>5. WordPut(n)'
    BY <1>2, <2>3, <2>4 DEF WordPut
  <2>6. ArgsPut(n)'
    BY <1>2, <1>6, <1>8, <2>5 DEF ArgsPut
  <2> QED
    BY <2>6
<1> QED
  BY <1>0, <1>7, <1>8

LEMMA AskedNabu ==
  ASSUME QueueTypes, GatewayTypes, NabuTypes, StageOK, Opening, Asked, Nabu
  PROVE  Asked'
PROOF
<1> DEFINE G == Asked'
<1>0. StageFits /\ Idle = 0 /\ Len(tx) \in Nat /\ GatewayKept /\ tx \in Seq(FromGateway)
  BY NabuKeeps DEF StageOK, Idle, QueueTypes
<1>1. ASSUME stage' \notin {"param", "done", "kind"} PROVE G
  BY <1>1 DEF Asked
<1>2. ASSUME NEW c, NEW what, Begin(c, what) PROVE G
  BY <1>1, <1>2 DEF Begin, Starts
<1>3. ASSUME PutCommand PROVE G
  BY <1>1, <1>3, PutCommandIs DEF EndCommand, Turn
<1>4. ASSUME PutParam PROVE G
  <2>1. stage = "param" /\ params' = params /\ ArgsPut(at)
    BY <1>4, PutParamIs DEF Asked
  <2>2. PICK n : n = at + 1
    OBVIOUS
  <2>3. ArgsPut(n)'
    BY <1>4, <2>1, <2>2, ParamPut
  <2>4. CASE at + 1 = Len(params)
    <3>1. stage' = "done" /\ n = Len(params')
      BY <1>4, <2>1, <2>2, <2>4, PutParamIs DEF Turn
    <3> QED
      BY <2>3, <3>1 DEF Asked
  <2>5. CASE at + 1 # Len(params)
    <3>1. stage' = "param" /\ at' = n
      BY <1>4, <2>1, <2>2, <2>5, PutParamIs DEF Stay
    <3> QED
      BY <2>3, <3>1 DEF Asked
  <2> QED
    BY <2>4, <2>5
<1>5. ASSUME PutAck PROVE G
  BY <1>1, <1>5, PutAckIs DEF Turn, Stay, EndCommand
<1>6. ASSUME NEW b, GetReply(b) PROVE G
  <2>1. /\ stage = "reply" /\ TxHears(b) /\ rx' = rx /\ b \in Replies(cmd)[at + 1] /\ at \in 0 .. 2
        /\ at < Len(Replies(cmd))
        /\ IF at + 1 < Len(Replies(cmd)) THEN Stay
           ELSE IF cmd \in {132, 133} THEN Turn("param") ELSE EndCommand
    BY <1>6, GetReplyIs
  <2>2. CASE stage' \notin {"param", "done", "kind"}
    BY <1>1, <2>2
  <2>3. CASE stage' \in {"param", "done", "kind"}
    <3>1. cmd \in {132, 133} /\ Turn("param") /\ ~(at + 1 < Len(Replies(cmd)))
      BY <2>1, <2>3 DEF Stay, EndCommand
    <3>2. Replies(cmd) = <<{16}, {6}>>
      BY <3>1, RepliesAre
    <3>3. at = 1 /\ b = 6
      BY <2>1, <3>1, <3>2
    <3>4. tx # <<>> /\ tx[1].byte = 6
      BY <2>1, <3>3 DEF TxHears
    <3>5. Len(tx) = 1 /\ rx = <<>> /\ Entered
      BY <2>1, <3>1, <3>3, <3>4 DEF Opening
    <3>6. tx' = <<>>
      <4>1. tx' \in Seq(FromGateway) /\ Len(tx') = 0
        BY <2>1, <3>5 DEF TxHears
      <4> QED
        BY <4>1
    <3>7. stage' = "param" /\ at' = 0 /\ cmd' = cmd /\ rx' = <<>> /\ pc' = pc /\ args' = args
      BY <1>0, <2>1, <3>1, <3>5 DEF Turn, GatewayKept
    <3>8. Len(<<>>) = 0 /\ \A k \in 1 .. Len(<<>>) : FALSE
      OBVIOUS
    <3>9. ArgsPut(0)'
      <4>1. CASE cmd = 132
        <5>1. pc' = "packet" /\ args' = <<>>
          BY <3>5, <3>7, <4>1 DEF Entered
        <5>2. RequestPut(0)'
          BY <3>7, <5>1 DEF RequestPut
        <5> QED
          BY <3>6, <3>7, <3>8, <4>1, <5>2 DEF ArgsPut
      <4>2. CASE cmd = 133
        <5>1. pc' = "channel_low"
          BY <3>5, <3>7, <4>2 DEF Entered
        <5>2. WordPut(0)'
          BY <3>7, <5>1 DEF WordPut
        <5> QED
          BY <3>6, <3>7, <3>8, <4>2, <5>2 DEF ArgsPut
      <4> QED
        BY <3>1, <4>1, <4>2
    <3> QED
      BY <3>7, <3>9 DEF Asked
  <2> QED
    BY <2>2, <2>3
<1>7. ASSUME NEW b, GetDone(b) PROVE G
  <2>1. stage = "done" /\ TxHears(b) /\ rx' = rx /\ params' = params
    BY <1>7, GetDoneIs
  <2>2. tx # <<>> /\ Len(tx) > 0
    BY <2>1 DEF TxHears
  <2>3. CASE cmd = 132
    <3>1. AnswerBegun(1)
      BY <2>1, <2>2, <2>3 DEF Asked, ArgsPut
    <3>2. /\ Len(tx') \in Nat /\ Len(tx') = Len(tx) - 1
          /\ \A k \in 1 .. Len(tx') : tx'[k] = tx[k + 1]
      BY <1>0, <2>1 DEF TxHears
    <3>3. Len(tx') > 0 => tx'[1] = tx[2]
      BY <3>2
    <3>4. UNCHANGED <<rx, args, params, pc, answer>>
      BY <1>0, <2>1 DEF GatewayKept
    <3>5. ASSUME pc \in {"fetch", "prolog", "refuse"} PROVE AnswerBegun(0)'
      <4>1. Len(tx) = 1
        BY <3>1, <3>5 DEF AnswerBegun
      <4>2. Len(tx') = 0
        BY <3>2, <4>1
      <4>3. rx' = <<>> /\ args' = params' /\ pc' \in {"fetch", "prolog", "refuse"}
        BY <3>1, <3>4, <3>5 DEF AnswerBegun
      <4> QED
        BY <4>2, <4>3, Zenon DEF AnswerBegun
    <3>6. ASSUME pc = "read_10" PROVE AnswerBegun(0)'
      <4>1. Len(tx) = 2 /\ tx[2].byte = IF answer = "twice" THEN 144 ELSE 145
        BY <3>1, <3>6 DEF AnswerBegun
      <4>2. Len(tx') = 1 /\ tx'[1] = tx[2]
        BY <3>2, <3>3, <4>1
      <4>3. 0 + 1 = 1
        OBVIOUS
      <4>4. pc' = "read_10" /\ Len(tx') = 0 + 1 /\ tx'[0 + 1].byte = IF answer' = "twice" THEN 144 ELSE 145
        <5>1. answer' = answer /\ pc' = "read_10"
          BY <3>4, <3>6
        <5>2. tx'[1].byte = IF answer' = "twice" THEN 144 ELSE 145
          BY <4>1, <4>2, <5>1
        <5> QED
          BY <4>2, <4>3, <5>1, <5>2
      <4>5. rx' = <<>> /\ args' = params'
        BY <3>1, <3>4 DEF AnswerBegun
      <4> QED
        BY <4>4, <4>5, Zenon DEF AnswerBegun
    <3>7. ASSUME pc \in {"loop", "boot"} PROVE AnswerBegun(0)'
      <4>1. Len(tx) > 1 => tx[2].byte \in {144, 16}
        BY <3>1, <3>7 DEF AnswerBegun
      <4>2. Len(tx') > 0 => tx'[1].byte \in {144, 16}
        BY <1>0, <3>2, <3>3, <4>1
      <4>3. 0 + 1 = 1
        OBVIOUS
      <4>4. Len(tx') >= 0
        BY <3>2
      <4>5. rx' = <<>> /\ args' = params' /\ pc' \in {"loop", "boot"}
        BY <3>1, <3>4, <3>7 DEF AnswerBegun
      <4> QED
        BY <4>2, <4>3, <4>4, <4>5, Zenon DEF AnswerBegun
    <3>8. AnswerBegun(0)'
      BY <3>1, <3>5, <3>6, <3>7 DEF AnswerBegun
    <3>9. stage' = "kind"
      BY <1>7, <2>3, GetDoneIs DEF Turn
    <3> QED
      BY <3>8, <3>9 DEF Asked
  <2>4. CASE cmd # 132
    <3>1. cmd = 133
      BY <2>1, <2>4, ParamsLen
    <3> QED
      BY <1>1, <1>7, <3>1, GetDoneIs DEF EndCommand
  <2> QED
    BY <2>3, <2>4
<1>8. ASSUME NEW b, GetKind(b) \/ GetData(b) \/ Drop(b) PROVE G
  <2>1. stage' \notin {"param", "done", "kind"}
    BY <1>0, <1>8, GetKindIs, GetDataIs, DropIs DEF Turn, EndCommand, StageFits
  <2> QED
    BY <1>1, <2>1
<1>9. ASSUME NEW b, GetOther(b) PROVE G
  <2>1. stage' \in {"reply", "command"}
    BY <1>9, GetOtherIs DEF Turn, Restart, Starts
  <2> QED
    BY <1>1, <2>1
<1>10. ASSUME GiveUp \/ Reset PROVE G
  BY <1>1, <1>10 DEF GiveUp, Reset, Restart, Starts
<1> QED
  BY <1>2, <1>3, <1>4, <1>5, <1>6, <1>7, <1>8, <1>9, <1>10, NabuCases
-----------------------------------------------------------------------------
\* A line that grows and shrinks keeps decoding to the content.
LEMMA ChainGrows ==
  ASSUME NEW c \in Seq(Byte), NEW l, NEW t \in Seq(FromGateway), NEW u \in Seq(FromGateway),
         NEW s, NEW p, NEW r, u # <<>>,
         \A k \in 1 .. Len(t) : Chained(c, l, t, "data", s, k),
         \A k \in 1 .. Len(u) : Chained(c, l, u, p, r, k),
         Comes(c, u[1], s + 1)
  PROVE  \A k \in 1 .. Len(t \o u) : Chained(c, l, t \o u, p, r, k)
PROOF
<1> DEFINE v == t \o u
<1>1. /\ v \in Seq(FromGateway) /\ Len(v) = Len(t) + Len(u)
      /\ \A k \in 1 .. Len(t) : v[k] = t[k]
      /\ \A k \in 1 .. Len(u) : v[Len(t) + k] = u[k]
  BY Grows
<1>2. Len(t) \in Nat /\ Len(u) \in Nat /\ Len(u) > 0 /\ Len(v) \in Nat
  OBVIOUS
<1> HIDE DEF v
<1>3. ASSUME NEW k \in 1 .. Len(t) PROVE Chained(c, l, v, p, r, k)
  <2>1. v[k] = t[k] /\ k < Len(v) /\ t[k] \in FromGateway /\ Chained(c, l, t, "data", s, k)
    BY <1>1, <1>2
  <2>2. CASE k < Len(t)
    <3>0. k + 1 \in 1 .. Len(t)
      BY <1>2, <2>2
    <3>1. v[k + 1] = t[k + 1]
      BY <1>1, <3>0
    <3> QED
      BY <2>1, <2>2, <3>1 DEF Chained
  <2>3. CASE k = Len(t)
    <3>1. v[k + 1] = u[1]
      BY <1>1, <1>2, <2>3
    <3>2. ~(k < Len(t)) /\ t[k].meant \in {"reply", "data", "mark", "end"}
      BY <1>2, <2>1, <2>3 DEF FromGateway
    <3>3. t[k].meant = "data" /\ t[k].item = s /\ Means(c, l, t[k])
      BY <2>1, <3>2 DEF Chained
    <3> QED
      BY <2>1, <3>1, <3>3 DEF Chained
  <2> QED
    BY <1>2, <2>2, <2>3
<1>4. ASSUME NEW j \in 1 .. Len(u) PROVE Chained(c, l, v, p, r, Len(t) + j)
  <2>1. v[Len(t) + j] = u[j] /\ Chained(c, l, u, p, r, j)
    BY <1>1
  <2>2. Len(t) + j < Len(v) <=> j < Len(u)
    BY <1>1, <1>2
  <2>3. j < Len(u) => v[(Len(t) + j) + 1] = u[j + 1]
    <3>1. (Len(t) + j) + 1 = Len(t) + (j + 1)
      BY <1>2
    <3>2. j < Len(u) => j + 1 \in 1 .. Len(u)
      BY <1>2
    <3> QED
      BY <1>1, <3>1, <3>2
  <2> QED
    BY <2>1, <2>2, <2>3 DEF Chained
<1>5. ASSUME NEW k \in 1 .. Len(v) PROVE Chained(c, l, v, p, r, k)
  <2>1. CASE k \in 1 .. Len(t)
    BY <1>3, <2>1
  <2>2. CASE k \notin 1 .. Len(t)
    <3>1. k - Len(t) \in 1 .. Len(u) /\ k = Len(t) + (k - Len(t))
      BY <1>1, <1>2, <2>2
    <3> QED
      BY <1>4, <3>1
  <2> QED
    BY <2>1, <2>2
<1> QED
  BY <1>5 DEF v

LEMMA Extends ==
  ASSUME NEW c \in Seq(Byte), NEW l, NEW t \in Seq(FromGateway), NEW u \in Seq(FromGateway),
         NEW s, NEW p, NEW r, NEW g, NEW x, u # <<>>,
         Decoding(c, l, t, "data", s, g, x),
         \A k \in 1 .. Len(u) : Chained(c, l, u, p, r, k),
         Comes(c, u[1], s + 1)
  PROVE  Decoding(c, l, t \o u, p, r, g, x)
PROOF
<1>1. \A k \in 1 .. Len(t \o u) : Chained(c, l, t \o u, p, r, k)
  BY ChainGrows DEF Decoding
<1>2. t \o u # <<>>
  OBVIOUS
<1>3. CASE t = <<>>
  <2>1. t \o u = u
    BY <1>3
  <2> QED
    BY <1>1, <1>2, <1>3, <2>1 DEF Decoding
<1>4. CASE t # <<>>
  <2>1. (t \o u)[1] = t[1]
    BY <1>4
  <2> QED
    BY <1>1, <1>2, <1>4, <2>1 DEF Decoding
<1> QED
  BY <1>3, <1>4

\* Test bytes behind it.
LEMMA ExtendsIdle ==
  ASSUME NEW c, NEW l, NEW t \in Seq(FromGateway), NEW u \in Seq(FromGateway),
         NEW s, NEW p, NEW g, NEW x, p # "data",
         Decoding(c, l, t, p, s, g, x),
         \A k \in 1 .. Len(u) : u[k].meant = "reply"
  PROVE  Decoding(c, l, t \o u, p, s, g, x)
PROOF
<1> DEFINE v == t \o u
<1>1. /\ v \in Seq(FromGateway) /\ Len(v) = Len(t) + Len(u)
      /\ \A k \in 1 .. Len(t) : v[k] = t[k]
      /\ \A k \in 1 .. Len(v) : k > Len(t) => v[k] = u[k - Len(t)]
  BY Grows
<1>2. Len(t) \in Nat /\ Len(u) \in Nat /\ Len(v) \in Nat /\ t # <<>> /\ Len(t) > 0
  BY DEF Decoding
<1> HIDE DEF v
<1>3. ASSUME NEW k \in 1 .. Len(v) PROVE Chained(c, l, v, p, s, k)
  <2>1. CASE k < Len(t)
    <3>1. v[k] = t[k] /\ v[k + 1] = t[k + 1] /\ k < Len(v)
      <4>1. k \in 1 .. Len(t) /\ k + 1 \in 1 .. Len(t) /\ k < Len(v)
        BY <1>1, <1>2, <2>1
      <4> QED
        BY <1>1, <4>1, Zenon
    <3>2. Chained(c, l, t, p, s, k)
      BY <1>2, <2>1 DEF Decoding
    <3> QED
      BY <2>1, <3>1, <3>2 DEF Chained
  <2>2. CASE k = Len(t)
    <3>1. v[k] = t[k] /\ Chained(c, l, t, p, s, k) /\ ~(k < Len(t))
      BY <1>1, <1>2, <2>2 DEF Decoding
    <3>2. t[k].meant # "mark" /\ t[k].meant # "data" /\ Means(c, l, t[k])
      BY <3>1 DEF Chained
    <3> QED
      BY <3>1, <3>2 DEF Chained
  <2>3. CASE k > Len(t)
    <3>1. v[k].meant = "reply"
      <4>1. v[k] = u[k - Len(t)] /\ k - Len(t) \in 1 .. Len(u)
        BY <1>1, <1>2, <2>3
      <4> QED
        BY <4>1
    <3> QED
      BY <3>1 DEF Chained, Means
  <2> QED
    BY <1>2, <2>1, <2>2, <2>3
<1>4. v # <<>> /\ v[1] = t[1]
  BY <1>1, <1>2
<1>5. Decoding(c, l, v, p, s, g, x)
  BY <1>2, <1>3, <1>4 DEF Decoding
<1> QED
  BY <1>5 DEF v

\* The pc of a gateway that has sent it all.
LEMMA DecodesIdle ==
  ASSUME NEW c, NEW l, NEW t, NEW s, NEW r, NEW p, NEW q, NEW g, NEW x,
         p # "data", q # "data", Decoding(c, l, t, p, s, g, x)
  PROVE  Decoding(c, l, t, q, r, g, x)
BY DEF Decoding, Chained

\* A byte is got: the rest of the line still decodes, and the byte is what was meant.
LEMMA ChainShrinks ==
  ASSUME NEW c, NEW l, NEW t \in Seq(FromGateway), NEW p, NEW s, t # <<>>,
         NEW v \in Seq(FromGateway), Len(v) = Len(t) - 1,
         \A k \in 1 .. Len(v) : v[k] = t[k + 1],
         \A k \in 1 .. Len(t) : Chained(c, l, t, p, s, k)
  PROVE  \A k \in 1 .. Len(v) : Chained(c, l, v, p, s, k)
PROOF
<1>1. Len(t) \in Nat /\ Len(v) \in Nat
  OBVIOUS
<1>2. ASSUME NEW k \in 1 .. Len(v) PROVE Chained(c, l, v, p, s, k)
  <2>1. v[k] = t[k + 1] /\ k + 1 \in 1 .. Len(t) /\ (k < Len(v) <=> k + 1 < Len(t))
    BY <1>1
  <2>2. k < Len(v) => v[k + 1] = t[(k + 1) + 1]
    BY <1>1
  <2>3. Chained(c, l, t, p, s, k + 1)
    BY <2>1
  <2> QED
    BY <2>1, <2>2, <2>3 DEF Chained
<1> QED
  BY <1>2

LEMMA GotItem ==
  ASSUME NEW c \in Seq(Byte), NEW l, NEW t \in Seq(FromGateway), NEW p, NEW s, t # <<>>,
         NEW v \in Seq(FromGateway), Len(v) = Len(t) - 1,
         \A k \in 1 .. Len(v) : v[k] = t[k + 1],
         NEW g \in Seq(Byte), NEW b \in Byte, b = t[1].byte,
         \A k \in 1 .. Len(t) : Chained(c, l, t, p, s, k),
         \A k \in 1 .. Len(g) : g[k] = c[k],
         t[1].meant = "data", t[1].item = Len(g) + 1
  PROVE  Decoding(c, l, v, p, s, Append(g, b), FALSE)
PROOF
<1> DEFINE n == Len(g)
<1>0. \A k \in 1 .. Len(v) : Chained(c, l, v, p, s, k)
  BY ChainShrinks
<1>1. /\ n \in Nat /\ Len(c) \in Nat /\ Len(t) \in Nat /\ Len(t) > 0 /\ Len(v) \in Nat
      /\ \A k \in 1 .. Len(v) : Chained(c, l, v, p, s, k)
  BY <1>0
<1>2. Chained(c, l, t, p, s, 1) /\ (v = <<>> <=> ~(1 < Len(t))) /\ (v # <<>> => v[1] = t[2])
  BY <1>1
<1>3. n + 1 \in 1 .. Len(c) /\ b = c[n + 1]
  BY <1>2 DEF Chained, Means
<1>4. IF v # <<>> THEN Comes(c, v[1], (n + 1) + 1) ELSE p = "data" /\ s = n + 1
  BY <1>2 DEF Chained
<1> DEFINE h == Append(g, b)
<1>5. h \in Seq(Byte) /\ Len(h) = n + 1 /\ h[n + 1] = b /\ \A k \in 1 .. n : h[k] = g[k]
  BY AppendProperties
<1> HIDE DEF h
<1>6. Len(h) <= Len(c) /\ \A k \in 1 .. Len(h) : h[k] = c[k]
  <2>1. ASSUME NEW k \in 1 .. Len(h) PROVE k = n + 1 \/ k \in 1 .. n
    BY <1>1, <1>5
  <2> QED
    BY <1>1, <1>3, <1>5, <2>1
<1> HIDE DEF n
<1>7. Decoding(c, l, v, p, s, h, FALSE)
  BY <1>1, <1>4, <1>5, <1>6 DEF Decoding
<1> QED
  BY <1>7 DEF h

HeadGot(c, t, v, g, b) ==
  /\ c \in Seq(Byte) /\ g \in Seq(Byte) /\ t \in Seq(FromGateway) /\ v \in Seq(FromGateway)
  /\ t # <<>> /\ b = t[1].byte /\ b \in Byte
  /\ Len(v) = Len(t) - 1 /\ \A k \in 1 .. Len(v) : v[k] = t[k + 1]

LEMMA GotPlain ==
  ASSUME NEW c, NEW l, NEW t, NEW p, NEW s, NEW v, NEW g, NEW b, HeadGot(c, t, v, g, b),
         Decoding(c, l, t, p, s, g, FALSE)
  PROVE  /\ b = 16 => Decoding(c, l, v, p, s, g, TRUE)
         /\ b # 16 => Decoding(c, l, v, p, s, Append(g, b), FALSE)
PROOF
<1> DEFINE n == Len(g)
<1> USE DEF HeadGot
<1>0. /\ n \in Nat /\ Len(c) \in Nat /\ n <= Len(c) /\ \A k \in 1 .. n : g[k] = c[k]
      /\ Len(t) \in Nat /\ Len(t) > 0 /\ Len(v) \in Nat
      /\ \A k \in 1 .. Len(t) : Chained(c, l, t, p, s, k)
  BY DEF Decoding
<1>1. \A k \in 1 .. Len(v) : Chained(c, l, v, p, s, k)
  BY <1>0, ChainShrinks
<1>2. Chained(c, l, t, p, s, 1) /\ Means(c, l, t[1]) /\ (v = <<>> <=> ~(1 < Len(t))) /\ (v # <<>> => v[1] = t[2])
  BY <1>0 DEF Chained
<1>3. /\ t[1].item = n + 1
      /\ t[1].meant = IF n + 1 > Len(c) \/ c[n + 1] = 16 THEN "mark" ELSE "data"
  BY DEF Decoding, Comes
<1>4. ASSUME b = 16 PROVE Decoding(c, l, v, p, s, g, TRUE)
  <2>1. t[1].meant = "mark"
    <3>1. ASSUME t[1].meant = "data" PROVE FALSE
      <4>1. n + 1 \in 1 .. Len(c) /\ c[n + 1] = 16
        BY <1>2, <1>3, <1>4, <3>1 DEF Means
      <4> QED
        BY <1>0, <1>3, <3>1, <4>1
    <3> QED
      BY <1>3, <3>1
  <2>2. 1 < Len(t) /\ Follows(c, t[2], n + 1)
    BY <1>2, <1>3, <2>1 DEF Chained
  <2>3. n < Len(c) => c[n + 1] = 16
    <3>1. n < Len(c) => n + 1 <= Len(c)
      BY <1>0
    <3> QED
      BY <1>2, <1>3, <2>1, <3>1 DEF Means
  <2> QED
    BY <1>0, <1>1, <1>2, <2>2, <2>3 DEF Decoding
<1>5. ASSUME b # 16 PROVE Decoding(c, l, v, p, s, Append(g, b), FALSE)
  <2>1. t[1].meant = "data"
    BY <1>2, <1>3, <1>5 DEF Means
  <2> QED
    BY <1>0, <1>3, <2>1, GotItem
<1> QED
  BY <1>4, <1>5

LEMMA GotMarked ==
  ASSUME NEW c, NEW l, NEW t, NEW p, NEW s, NEW v, NEW g, NEW b, HeadGot(c, t, v, g, b),
         Decoding(c, l, t, p, s, g, TRUE)
  PROVE  /\ l # 16 /\ b = 16 => Decoding(c, l, v, p, s, Append(g, b), FALSE)
         /\ b = 225 => l = 225 /\ Len(g) = Len(c) /\ p # "data"
PROOF
<1> DEFINE n == Len(g)
<1> USE DEF HeadGot
<1>0. /\ n \in Nat /\ Len(c) \in Nat /\ n <= Len(c) /\ \A k \in 1 .. n : g[k] = c[k]
      /\ Len(t) \in Nat /\ Len(t) > 0 /\ n < Len(c) => c[n + 1] = 16
      /\ \A k \in 1 .. Len(t) : Chained(c, l, t, p, s, k)
  BY DEF Decoding
<1>2. Chained(c, l, t, p, s, 1) /\ Means(c, l, t[1])
  BY <1>0 DEF Chained
<1>3. t[1].item = n + 1 /\ t[1].meant = IF n + 1 > Len(c) THEN "end" ELSE "data"
  BY DEF Decoding, Follows
<1>4. ASSUME l # 16, b = 16 PROVE Decoding(c, l, v, p, s, Append(g, b), FALSE)
  <2>1. t[1].meant = "data"
    BY <1>2, <1>3, <1>4 DEF Means
  <2> QED
    BY <1>0, <1>3, <2>1, GotItem
<1>5. ASSUME b = 225 PROVE l = 225 /\ Len(g) = Len(c) /\ p # "data"
  <2>1. ASSUME t[1].meant = "data" PROVE FALSE
    <3>1. n + 1 \in 1 .. Len(c) /\ c[n + 1] = 225
      BY <1>2, <1>3, <1>5, <2>1 DEF Means
    <3> QED
      BY <1>0, <1>5, <3>1
  <2>2. t[1].meant = "end" /\ n + 1 > Len(c)
    BY <1>3, <2>1
  <2>3. l = 225 /\ p # "data"
    BY <1>2, <1>5, <2>2 DEF Means, Chained
  <2>4. n = Len(c)
    BY <1>0, <2>2
  <2> QED
    BY <1>0, <2>3, <2>4
<1> QED
  BY <1>4, <1>5
-----------------------------------------------------------------------------
\* What is sent of a packet is well chained, and ends it.
LEMMA ContentIs ==
  ASSUME ServingOK, Delivers
  PROVE  /\ body \in Seq(Byte) /\ Content \in Seq(Byte) /\ Last \in {6, 225}
         /\ \A k \in 1 .. Len(body) : Content[k] = body[k]
         /\ IF answer = "aborted"
            THEN Len(Content) = Len(body) + 1 /\ Content[Len(body) + 1] = 144 /\ Last = 6
            ELSE Content = body /\ Last = 225
PROOF
<1>1. body \in Seq(Byte) /\ 144 \in Byte
  BY DEF ServingOK, Byte
<1>2. CASE answer = "aborted"
  <2>1. /\ Append(body, 144) \in Seq(Byte) /\ Len(Append(body, 144)) = Len(body) + 1
        /\ Append(body, 144)[Len(body) + 1] = 144
        /\ \A k \in 1 .. Len(body) : Append(body, 144)[k] = body[k]
    BY <1>1, AppendProperties
  <2> QED
    BY <1>1, <1>2, <2>1 DEF Content, Last
<1>3. CASE answer # "aborted"
  BY <1>1, <1>3 DEF Content, Last, End
<1> QED
  BY <1>2, <1>3

LEMMA DataChained ==
  ASSUME NEW c \in Seq(Byte), NEW l, NEW k \in 1 .. Len(c), NEW u, u = Doubled(c[k], k)
  PROVE  /\ u \in Seq(FromGateway) /\ u # <<>> /\ Comes(c, u[1], k)
         /\ \A j \in 1 .. Len(u) : Chained(c, l, u, "data", k, j)
PROOF
<1>1. c[k] \in Byte /\ k \in Nat /\ Len(c) \in Nat
  OBVIOUS
<1>2. u \in Seq(FromGateway)
  BY <1>1, DoubledIs
<1>3. CASE c[k] = 16
  <2>1. u = <<Marked(16, "mark", k), Marked(16, "data", k)>>
    BY <1>3 DEF Doubled
  <2>2. Len(u) = 2 /\ u[1] = Marked(16, "mark", k) /\ u[2] = Marked(16, "data", k)
    BY <2>1
  <2>3. Chained(c, l, u, "data", k, 1) /\ Chained(c, l, u, "data", k, 2) /\ Comes(c, u[1], k)
    BY <1>1, <1>3, <2>2 DEF Chained, Means, Follows, Comes, Marked
  <2> QED
    BY <1>2, <2>1, <2>2, <2>3
<1>4. CASE c[k] # 16
  <2>1. u = <<Marked(c[k], "data", k)>>
    BY <1>4 DEF Doubled
  <2>2. Len(u) = 1 /\ u[1] = Marked(c[k], "data", k)
    BY <2>1
  <2>3. Chained(c, l, u, "data", k, 1) /\ Comes(c, u[1], k)
    BY <1>1, <1>4, <2>2 DEF Chained, Means, Follows, Comes, Marked
  <2> QED
    BY <1>2, <2>1, <2>2, <2>3
<1> QED
  BY <1>3, <1>4

LEMMA EpilogChained ==
  ASSUME NEW c \in Seq(Byte), NEW r, NEW u, u = Epilog(Len(c))
  PROVE  /\ u \in Seq(FromGateway) /\ u # <<>> /\ Comes(c, u[1], Len(c) + 1)
         /\ \A j \in 1 .. Len(u) : Chained(c, 225, u, "loop", r, j)
PROOF
<1>1. Len(c) \in Nat
  OBVIOUS
<1>2. u \in Seq(FromGateway)
  BY <1>1, EndsAre
<1>3. u = <<Marked(16, "mark", Len(c) + 1), Marked(225, "end", Len(c) + 1)>>
  BY DEF Epilog, End
<1>4. Len(u) = 2 /\ u[1] = Marked(16, "mark", Len(c) + 1) /\ u[2] = Marked(225, "end", Len(c) + 1)
  BY <1>3
<1>5. /\ Chained(c, 225, u, "loop", r, 1) /\ Chained(c, 225, u, "loop", r, 2)
      /\ Comes(c, u[1], Len(c) + 1)
  BY <1>1, <1>4 DEF Chained, Means, Follows, Comes, Marked
<1> QED
  BY <1>2, <1>3, <1>4, <1>5

LEMMA RefusalChained ==
  ASSUME NEW c \in Seq(Byte), NEW s \in Nat, Len(c) = s + 1, c[s + 1] = 144,
         NEW u, u = Refusal(s)
  PROVE  /\ u \in Seq(FromGateway) /\ u # <<>> /\ Comes(c, u[1], s + 1)
         /\ \A j \in 1 .. Len(u) : Chained(c, 6, u, "loop", s, j)
PROOF
<1>2. u \in Seq(FromGateway)
  BY EndsAre
<1>3. u = <<Marked(144, "data", s + 1), Marked(16, "mark", s + 2), Marked(6, "end", s + 2)>>
  BY DEF Refusal
<1>4. /\ Len(u) = 3 /\ u[1] = Marked(144, "data", s + 1) /\ u[2] = Marked(16, "mark", s + 2)
      /\ u[3] = Marked(6, "end", s + 2)
  BY <1>3
<1>5. /\ Chained(c, 6, u, "loop", s, 1) /\ Chained(c, 6, u, "loop", s, 2)
      /\ Chained(c, 6, u, "loop", s, 3) /\ Comes(c, u[1], s + 1)
  BY <1>4 DEF Chained, Means, Follows, Comes, Marked
<1> QED
  BY <1>2, <1>3, <1>4, <1>5

\* A gateway that has answered, and has nothing to read, does nothing to the answer.
LEMMA GatewayIdle ==
  ASSUME QueueTypes, Gateway, rx = <<>>, pc \in {"loop", "boot"}
  PROVE  /\ rx' = <<>> /\ pc' \in {"loop", "boot"} /\ UNCHANGED <<args, answer, body, sent>>
         /\ tx' = tx \/ tx' = tx \o Raw(<<16, Done>>)
BY GatewayCases DEF Boot, Reboot, TestKey, Simple, ChangeChannel, ChannelLow, ChannelHigh, PacketRequest,
   PacketArg, Taken, Fetched, FetchedEmpty, Prolog, Expected, Reading, SendData, SendEpilog, AllSent,
   Refuse, ChannelTimeout, PacketTimeout, ExpectTimeout

\* The bytes of a packet go to the line in their order, and its end after them.
LEMMA DecodesGateway ==
  ASSUME QueueTypes, GatewayTypes, ServingOK, Delivers, Decodes, rx = <<>>,
         pc \in {"data", "loop", "boot"}, Gateway, UNCHANGED <<got, esc>>
  PROVE  /\ rx' = <<>> /\ pc' \in {"data", "loop", "boot"} /\ Decodes'
         /\ UNCHANGED <<args, answer, body>>
PROOF
<1>0. /\ body \in Seq(Byte) /\ Content \in Seq(Byte) /\ tx \in Seq(FromGateway) /\ sent \in Nat
      /\ Decoding(Content, Last, tx, pc, sent, got, esc) /\ Len(body) \in Nat
  BY ContentIs DEF QueueTypes, GatewayTypes, Decodes
<1>1. ASSUME UNCHANGED <<answer, body>>,
             Decoding(Content, Last, tx', pc', sent', got, esc)
      PROVE  Decodes'
  <2>1. Content' = Content /\ Last' = Last
    BY <1>1 DEF Content, Last
  <2> QED
    BY <1>1, <2>1 DEF Decodes
<1>2. CASE pc \in {"loop", "boot"}
  <2>1. /\ rx' = <<>> /\ pc' \in {"loop", "boot"} /\ UNCHANGED <<args, answer, body, sent>>
        /\ tx' = tx \/ tx' = tx \o Raw(<<16, Done>>)
    BY <1>2, GatewayIdle
  <2>2. Decoding(Content, Last, tx, pc', sent', got, esc)
    BY <1>0, <1>2, <2>1, DecodesIdle
  <2>3. /\ Raw(<<16, Done>>) \in Seq(FromGateway)
        /\ \A k \in 1 .. Len(Raw(<<16, Done>>)) : Raw(<<16, Done>>)[k].meant = "reply"
    <3>1. Raw(<<16, Done>>) = <<Marked(16, "reply", 0), Marked(Done, "reply", 0)>>
      BY DEF Raw
    <3> DEFINE v == <<Marked(16, "reply", 0), Marked(Done, "reply", 0)>>
    <3>2. \A k \in 1 .. Len(v) : v[k].meant = "reply"
      BY DEF Marked
    <3>3. Raw(<<16, Done>>) = v
      BY <3>1
    <3> HIDE DEF v
    <3> QED
      BY <3>2, <3>3, TestIs
  <2>4. Decoding(Content, Last, tx', pc', sent', got, esc)
    BY <1>0, <2>1, <2>2, <2>3, ExtendsIdle
  <2> QED
    BY <1>1, <2>1, <2>4
<1>3. CASE pc = "data"
  <2>0. Decoding(Content, Last, tx, "data", sent, got, esc)
    BY <1>0, <1>3
  <2> DEFINE G == /\ rx' = <<>> /\ pc' \in {"data", "loop", "boot"} /\ Decodes'
                  /\ UNCHANGED <<args, answer, body>>
  <2>1. ASSUME SendData PROVE G
    <3>1. /\ sent < Len(body) /\ sent' = sent + 1 /\ UNCHANGED <<pc, args, answer, body, rx>>
          /\ tx' = tx \o Doubled(body[sent + 1], sent + 1)
      BY <2>1 DEF SendData
    <3>2. sent + 1 \in 1 .. Len(body)
      BY <1>0, <3>1
    <3>3. sent + 1 \in 1 .. Len(Content) /\ Content[sent + 1] = body[sent + 1]
      <4>1. Len(Content) \in {Len(body), Len(body) + 1}
        BY ContentIs
      <4> QED
        BY <1>0, <3>2, <4>1, ContentIs
    <3> DEFINE u == Doubled(body[sent + 1], sent + 1)
    <3>4. /\ u \in Seq(FromGateway) /\ u # <<>> /\ Comes(Content, u[1], sent + 1)
          /\ \A j \in 1 .. Len(u) : Chained(Content, Last, u, "data", sent + 1, j)
      BY <1>0, <3>3, DataChained
    <3> HIDE DEF u
    <3>5. Decoding(Content, Last, tx \o u, "data", sent + 1, got, esc)
      BY <1>0, <2>0, <3>4, Extends
    <3>6. Decoding(Content, Last, tx', pc', sent', got, esc)
      BY <1>3, <3>1, <3>5 DEF u
    <3> QED
      BY <1>1, <1>3, <3>1, <3>6
  <2>2. ASSUME SendEpilog PROVE G
    <3>1. /\ sent = Len(body) /\ answer # "aborted" /\ pc' = "loop"
          /\ UNCHANGED <<args, answer, body, sent, rx>> /\ tx' = tx \o Epilog(sent)
      BY <2>2 DEF SendEpilog, AllSent
    <3>2. Content = body /\ Last = 225
      BY <3>1, ContentIs
    <3> DEFINE u == Epilog(sent)
    <3>3. /\ u \in Seq(FromGateway) /\ u # <<>> /\ Comes(Content, u[1], sent + 1)
          /\ \A j \in 1 .. Len(u) : Chained(Content, Last, u, "loop", sent, j)
      BY <1>0, <3>1, <3>2, EpilogChained, ZenonT(60)
    <3> HIDE DEF u
    <3>4. Decoding(Content, Last, tx \o u, "loop", sent, got, esc)
      BY <1>0, <2>0, <3>3, Extends
    <3>5. Decoding(Content, Last, tx', pc', sent', got, esc)
      BY <3>1, <3>4 DEF u
    <3> QED
      BY <1>1, <3>1, <3>5
  <2>3. ASSUME Refuse PROVE G
    <3>1. /\ sent = Len(body) /\ answer = "aborted" /\ pc' = "loop"
          /\ UNCHANGED <<args, answer, body, sent, rx>> /\ tx' = tx \o Refusal(sent)
      BY <1>3, <2>3 DEF Refuse, AllSent
    <3>2. Len(Content) = sent + 1 /\ Content[sent + 1] = 144 /\ Last = 6
      BY <3>1, ContentIs
    <3> DEFINE u == Refusal(sent)
    <3>3. /\ u \in Seq(FromGateway) /\ u # <<>> /\ Comes(Content, u[1], sent + 1)
          /\ \A j \in 1 .. Len(u) : Chained(Content, 6, u, "loop", sent, j)
      <4>1. PICK c \in Seq(Byte) : c = Content
        BY <1>0
      <4>2. PICK n \in Nat : n = sent
        BY <1>0
      <4>3. Len(c) = n + 1 /\ c[n + 1] = 144
        BY <3>2, <4>1, <4>2
      <4>4. PICK v : v = Refusal(n)
        OBVIOUS
      <4>5. /\ v \in Seq(FromGateway) /\ v # <<>> /\ Comes(c, v[1], n + 1)
            /\ \A j \in 1 .. Len(v) : Chained(c, 6, v, "loop", n, j)
        BY <4>3, <4>4, RefusalChained
      <4> QED
        BY <4>1, <4>2, <4>4, <4>5
    <3> HIDE DEF u
    <3>4. Decoding(Content, Last, tx \o u, "loop", sent, got, esc)
      BY <1>0, <2>0, <3>2, <3>3, Extends
    <3>5. Decoding(Content, Last, tx', pc', sent', got, esc)
      BY <3>1, <3>4 DEF u
    <3> QED
      BY <1>1, <3>1, <3>5
  <2> QED
    BY <1>3, <2>1, <2>2, <2>3, GatewayCases DEF Boot, Reboot, TestKey, Simple, ChangeChannel, ChannelLow,
       ChannelHigh, PacketRequest, PacketArg, Fetched, FetchedEmpty, Prolog, Expected, Reading,
       ChannelTimeout, PacketTimeout, ExpectTimeout
<1> QED
  BY <1>2, <1>3

\* The gateway takes the handshake, and begins to send when it has both bytes.
LEMMA AckTaken ==
  ASSUME QueueTypes, GatewayTypes, ServingOK, Delivers, NEW n \in 0 .. 2, AckPut(n), Gateway,
         UNCHANGED <<got, esc>>, n = 2 \/ ~NabuSilent
  PROVE  /\ AckPut(n)' \/ (n = 2 /\ pc' = "data" /\ rx' = <<>> /\ Decodes')
         /\ UNCHANGED <<args, answer, body>>
PROOF
<1> DEFINE m == n - Len(rx)
<1>0. /\ Len(rx) \in Nat /\ m \in {0, 1} /\ tx = <<>> /\ got = <<>> /\ ~esc
      /\ pc = IF m = 0 THEN "read_10" ELSE "read_06"
      /\ \A k \in 1 .. Len(rx) : rx[k] = [byte |-> Ack[m + k], meant |-> "ack"]
  BY DEF AckPut, QueueTypes
<1>1. \E b : Expected(b)
  <2> DEFINE G == \E b : Expected(b)
  <2>1. ASSUME NabuSilent, ExpectTimeout PROVE G
    <3>1. rx = <<>> /\ n = 2
      BY <2>1 DEF ExpectTimeout
    <3> QED
      BY <1>0, <3>1
  <2> QED
    BY <1>0, <2>1, GatewayCases DEF Boot, Reboot, TestKey, Simple, ChangeChannel, ChannelLow, ChannelHigh,
       PacketRequest, PacketArg, Fetched, FetchedEmpty, Prolog, SendData, SendEpilog, AllSent, Refuse,
       ChannelTimeout, PacketTimeout
<1>2. PICK b : Expected(b)
  BY <1>1
<1>3. RxTakes(b) /\ HasRead(b = Awaited) /\ UNCHANGED <<args, answer, body, sent, tx>>
  BY <1>2, TakenIs DEF Expected
<1>4. Len(rx) > 0 /\ rx[1].byte = b /\ Len(rx') = Len(rx) - 1 /\ \A k \in 1 .. Len(rx') : rx'[k] = rx[k + 1]
  BY <1>3 DEF RxTakes
<1>5. b = Ack[m + 1]
  <2>1. rx[1] = [byte |-> Ack[m + 1], meant |-> "ack"]
    BY <1>0, <1>4
  <2> QED
    BY <1>4, <2>1
<1>6. b = Awaited
  BY <1>0, <1>5 DEF Awaited, Ack
<1>7. HasRead(TRUE) /\ answer # "twice"
  BY <1>3, <1>6 DEF Delivers
<1>8. CASE m = 0
  <2>1. pc' = "read_06"
    BY <1>0, <1>7, <1>8 DEF HasRead
  <2>2. n - Len(rx') = 1
    BY <1>0, <1>4, <1>8
  <2>3. \A k \in 1 .. Len(rx') : rx'[k] = [byte |-> Ack[1 + k], meant |-> "ack"]
    <3>1. ASSUME NEW k \in 1 .. Len(rx') PROVE rx'[k] = [byte |-> Ack[1 + k], meant |-> "ack"]
      <4>1. k + 1 \in 1 .. Len(rx) /\ rx'[k] = rx[k + 1] /\ m + (k + 1) = 1 + k
        BY <1>0, <1>4, <1>8
      <4> QED
        BY <1>0, <4>1
    <3> QED
      BY <3>1
  <2>4. AckPut(n)'
    BY <1>0, <1>3, <2>1, <2>2, <2>3 DEF AckPut
  <2> QED
    BY <1>3, <2>4
<1>9. CASE m = 1
  <2>1. pc' = "data"
    BY <1>0, <1>7, <1>9 DEF HasRead
  <2>2. n = 2 /\ Len(rx') = 0
    BY <1>0, <1>4, <1>9
  <2>3. rx' = <<>>
    BY <1>3, <2>2 DEF RxTakes
  <2>4. sent' = 0
    BY <1>0, <1>3 DEF ServingOK
  <2>5. Content' = Content /\ Content \in Seq(Byte)
    BY <1>3, ContentIs DEF Content
  <2>6. tx' = <<>> /\ got' = <<>> /\ ~esc'
    BY <1>0, <1>3
  <2>7. Decodes'
    BY <2>1, <2>4, <2>5, <2>6 DEF Decodes, Decoding
  <2> QED
    BY <1>3, <2>1, <2>2, <2>3, <2>7
<1> QED
  BY <1>0, <1>8, <1>9

LEMMA ReceivingGateway ==
  ASSUME QueueTypes, GatewayTypes, NabuTypes, ServingOK, StageOK, Receiving, Gateway, NabuKept
  PROVE  Receiving'
PROOF
<1>0. /\ UNCHANGED <<cmd, stage, at, params, packet, got, esc>> /\ StageFits /\ AtFits
  BY DEF NabuKept, StageOK
<1>1. stage \in {"ack", "body"} =>
        UNCHANGED <<args, answer, body>> /\ args = params /\ Delivers
  <2>1. CASE stage = "ack"
    <3>1. PICK n : n = at
      OBVIOUS
    <3>2. n \in 0 .. 2 /\ AckPut(n) /\ ~NabuSilent /\ Delivers /\ args = params
      BY <1>0, <2>1, <3>1 DEF AtFits, Receiving, StageFits, NabuSilent, Waiting
    <3> QED
      BY <1>0, <3>2, AckTaken
  <2>2. CASE stage = "body"
    <3>1. Delivers /\ args = params
      BY <2>2 DEF Receiving
    <3>2. CASE AckPut(2)
      BY <1>0, <3>1, <3>2, AckTaken
    <3>3. CASE pc \in {"data", "loop", "boot"} /\ rx = <<>> /\ Decodes
      BY <1>0, <3>1, <3>3, DecodesGateway
    <3> QED
      BY <2>2, <3>2, <3>3 DEF Receiving
  <2> QED
    BY <2>1, <2>2
<1>2. stage \in {"ack", "body"} => args' = params' /\ Delivers'
  BY <1>0, <1>1 DEF Delivers
<1>3. stage = "ack" => AckPut(at)'
  <2>1. ASSUME stage = "ack" PROVE AckPut(at)'
    <3>1. PICK n : n = at
      OBVIOUS
    <3>2. n \in 0 .. 1 /\ AckPut(n) /\ ~NabuSilent /\ Delivers
      BY <1>0, <2>1, <3>1 DEF AtFits, Receiving, StageFits, NabuSilent, Waiting
    <3>3. AckPut(n)'
      BY <1>0, <3>2, AckTaken
    <3> QED
      BY <1>0, <3>1, <3>3
  <2> QED
    BY <2>1
<1>4. stage = "body" =>
        AckPut(2)' \/ (pc' \in {"data", "loop", "boot"} /\ rx' = <<>> /\ Decodes')
  <2>1. ASSUME stage = "body"
        PROVE  AckPut(2)' \/ (pc' \in {"data", "loop", "boot"} /\ rx' = <<>> /\ Decodes')
    <3>1. Delivers
      BY <2>1 DEF Receiving
    <3>2. CASE AckPut(2)
      BY <1>0, <3>1, <3>2, AckTaken
    <3>3. CASE pc \in {"data", "loop", "boot"} /\ rx = <<>> /\ Decodes
      BY <1>0, <3>1, <3>3, DecodesGateway
    <3> QED
      BY <2>1, <3>2, <3>3 DEF Receiving
  <2> QED
    BY <2>1
<1>5. packet # NoBody =>
        /\ packet' = body' /\ answer' \in {"packet", "pak"} /\ args' = params'
        /\ rx' = <<>> /\ pc' \in {"loop", "boot"}
  BY <1>0, GatewayIdle DEF Receiving
<1> QED
  BY <1>0, <1>2, <1>3, <1>4, <1>5 DEF Receiving

\* The NABU puts a byte of its handshake.
LEMMA AckPuts ==
  ASSUME QueueTypes, NEW n \in 0 .. 1, AckPut(n), pc' = pc, tx' = tx, UNCHANGED <<got, esc>>,
         RxPuts([byte |-> IF n = 0 THEN 16 ELSE 6, meant |-> "ack"])
  PROVE  AckPut(n + 1)'
PROOF
<1> DEFINE m == n - Len(rx)
<1>0. /\ Len(rx) \in Nat /\ m \in {0, 1} /\ tx = <<>> /\ got = <<>> /\ ~esc
      /\ pc = IF m = 0 THEN "read_10" ELSE "read_06"
      /\ \A k \in 1 .. Len(rx) : rx[k] = [byte |-> Ack[m + k], meant |-> "ack"]
  BY DEF AckPut, QueueTypes
<1>1. /\ Len(rx') = Len(rx) + 1 /\ \A k \in 1 .. Len(rx) : rx'[k] = rx[k]
      /\ rx'[Len(rx) + 1] = [byte |-> IF n = 0 THEN 16 ELSE 6, meant |-> "ack"]
  BY DEF RxPuts
<1>2. (n + 1) - Len(rx') = m
  BY <1>0, <1>1
<1>3. Ack[n + 1] = IF n = 0 THEN 16 ELSE 6
  BY DEF Ack
<1>4. ASSUME NEW k \in 1 .. Len(rx') PROVE rx'[k] = [byte |-> Ack[m + k], meant |-> "ack"]
  <2>1. CASE k \in 1 .. Len(rx)
    BY <1>0, <1>1, <2>1
  <2>2. CASE k = Len(rx) + 1
    <3>1. m + k = n + 1
      BY <1>0, <2>2
    <3> QED
      BY <1>1, <1>3, <2>2, <3>1
  <2> QED
    BY <1>0, <1>1, <2>1, <2>2
<1> HIDE DEF m
<1> QED
  BY <1>0, <1>2, <1>4 DEF AckPut

LEMMA ReceivingNabu ==
  ASSUME QueueTypes, GatewayTypes, NabuTypes, ServingOK, StageOK, Asked, Receiving, Nabu
  PROVE  Receiving'
PROOF
<1> DEFINE G == Receiving'
<1>0. /\ StageFits /\ AtFits /\ Idle = 0 /\ GatewayKept /\ tx \in Seq(FromGateway) /\ Len(tx) \in Nat
      /\ NoBody \notin Seq(Byte)
  BY NabuKeeps, BodiesAssumption DEF StageOK, Idle, QueueTypes
<1>1. ASSUME stage' \notin {"ack", "body"}, packet' = NoBody PROVE G
  BY <1>1 DEF Receiving
<1>2. ASSUME NEW c, NEW what, Begin(c, what) PROVE G
  BY <1>1, <1>2 DEF Begin, Starts
<1>3. ASSUME PutCommand \/ PutParam PROVE G
  BY <1>0, <1>1, <1>3, PutCommandIs, PutParamIs DEF Turn, Stay, EndCommand, StageFits
<1>4. ASSUME PutAck PROVE G
  <2>1. /\ stage \in {"ack", "nak"} /\ at \in {0, 1} /\ tx' = tx
        /\ pc # "boot" => RxPuts([byte |-> IF at = 0 THEN 16 ELSE 6, meant |-> "ack"])
        /\ IF at = 0 THEN Stay ELSE IF stage = "ack" THEN Turn("body") ELSE EndCommand
        /\ UNCHANGED <<params, got, esc, packet>>
    BY <1>4, PutAckIs
  <2>2. packet' = NoBody
    BY <1>0, <2>1 DEF StageFits
  <2>3. CASE stage = "nak"
    BY <1>1, <2>1, <2>2, <2>3 DEF Stay, EndCommand
  <2>4. CASE stage = "ack"
    <3>1. AckPut(at) /\ args = params /\ Delivers
      BY <2>4 DEF Receiving
    <3>2. PICK n \in 0 .. 1 : n = at
      BY <2>1
    <3>3. pc # "boot"
      BY <3>1 DEF AckPut
    <3>4. pc' = pc /\ UNCHANGED <<args, answer>>
      BY <1>0 DEF GatewayKept
    <3>5. AckPut(n + 1)'
      <4>1. RxPuts([byte |-> IF n = 0 THEN 16 ELSE 6, meant |-> "ack"])
        BY <2>1, <3>2, <3>3
      <4> QED
        BY <2>1, <3>1, <3>2, <3>4, <4>1, AckPuts
    <3>6. Delivers' /\ args' = params'
      BY <2>1, <3>1, <3>4 DEF Delivers
    <3>7. CASE at = 0
      <4>1. stage' = "ack" /\ at' = n + 1
        BY <2>1, <2>4, <3>2, <3>7 DEF Stay
      <4>2. AckPut(at)'
        BY <3>5, <4>1
      <4> QED
        BY <2>2, <3>6, <4>1, <4>2 DEF Receiving
    <3>8. CASE at = 1
      <4>1. stage' = "body" /\ n + 1 = 2
        BY <2>1, <2>4, <3>2, <3>8 DEF Turn
      <4>2. AckPut(2)'
        BY <3>5, <4>1
      <4> QED
        BY <2>2, <3>6, <4>1, <4>2 DEF Receiving
    <3> QED
      BY <2>1, <3>7, <3>8
  <2> QED
    BY <2>1, <2>3, <2>4
<1>5. ASSUME NEW b, GetReply(b) \/ GetDone(b) PROVE G
  BY <1>0, <1>1, <1>5, GetReplyIs, GetDoneIs DEF Turn, Stay, EndCommand, StageFits
<1>6. ASSUME NEW b, GetKind(b) PROVE G
  <2>1. /\ stage = "kind" /\ TxHears(b) /\ b \in {144, 145} /\ rx' = rx
        /\ Turn(IF b = 145 THEN "ack" ELSE "nak") /\ UNCHANGED <<params, got, esc, packet>>
    BY <1>6, GetKindIs
  <2>2. packet' = NoBody /\ got' = <<>> /\ ~esc'
    BY <1>0, <2>1 DEF StageFits
  <2>3. CASE b = 144
    BY <1>1, <2>1, <2>2, <2>3 DEF Turn
  <2>4. CASE b = 145
    <3>1. AnswerBegun(0) /\ Len(tx) > 0 /\ tx[1].byte = 145
      BY <2>1, <2>4 DEF Asked, TxHears
    <3>2. /\ rx = <<>> /\ args = params /\ pc = "read_10" /\ Len(tx) = 1 /\ answer # "twice"
      BY <3>1 DEF AnswerBegun
    <3>3. Delivers
      BY <3>2 DEF ServingOK
    <3>4. stage' = "ack" /\ at' = 0
      BY <2>1, <2>4 DEF Turn
    <3>5. Len(tx') = 0 /\ tx' \in Seq(FromGateway)
      BY <2>1, <3>2 DEF TxHears
    <3>6. tx' = <<>>
      BY <3>5
    <3>7. /\ pc' = "read_10" /\ args' = params' /\ Delivers' /\ rx' = <<>>
      BY <1>0, <2>1, <3>2, <3>3 DEF GatewayKept, Delivers
    <3>8. AckPut(0)'
      <4>1. PICK r : r = rx' /\ r = <<>>
        BY <3>7, Zenon
      <4>2. Len(r) = 0
        BY <4>1
      <4>20. 0 - Len(r) = 0 /\ \A k : k \notin 1 .. Len(r)
        BY <4>2
      <4>3. /\ 0 - Len(rx') = 0 /\ \A k : k \notin 1 .. Len(rx') /\ 0 \in {0, 1}
        BY <4>1, <4>20, Zenon
      <4>4. pc' = IF 0 - Len(rx') = 0 THEN "read_10" ELSE "read_06"
        BY <3>7, <4>3, Zenon
      <4>5. 0 - Len(rx') \in {0, 1}
        BY <4>3, Zenon
      <4>6. \A k \in 1 .. Len(rx') :
              rx'[k] = [byte |-> Ack[(0 - Len(rx')) + k], meant |-> "ack"]
        BY <4>3, Zenon
      <4> QED
        BY <2>2, <3>6, <4>4, <4>5, <4>6, Zenon DEF AckPut
    <3>9. AckPut(at)'
      BY <3>4, <3>8
    <3> QED
      BY <2>2, <3>4, <3>7, <3>9 DEF Receiving
  <2> QED
    BY <2>1, <2>3, <2>4
<1>7. ASSUME NEW b, GetData(b) PROVE G
  <2>1. /\ stage = "body" /\ TxHears(b) /\ rx' = rx /\ b \in Byte /\ params' = params
        /\ \/ /\ esc /\ b = 225 /\ ~esc' /\ got' = got /\ packet' = got /\ EndCommand
           \/ /\ UNCHANGED <<packet, cmd, stage, at>>
              /\ \/ ~esc /\ b = 16 /\ esc' /\ got' = got
                 \/ ~esc /\ b # 16 /\ ~esc' /\ got' = Append(got, b)
                 \/ esc /\ b = 16 /\ ~esc' /\ got' = Append(got, b)
    BY <1>7, GetDataIs
  <2>2. /\ Len(tx) > 0 /\ tx # <<>> /\ tx' \in Seq(FromGateway) /\ Len(tx') = Len(tx) - 1
        /\ \A k \in 1 .. Len(tx') : tx'[k] = tx[k + 1]
    BY <1>0, <2>1 DEF TxHears
  <2>20. b = tx[1].byte
    BY <2>1 DEF TxHears
  <2>3. /\ args = params /\ Delivers /\ pc \in {"data", "loop", "boot"} /\ rx = <<>> /\ Decodes
    BY <2>1, <2>2 DEF Receiving, AckPut
  <2>4. Content \in Seq(Byte) /\ Last \in {6, 225} /\ got \in Seq(Byte) /\ esc \in BOOLEAN
    BY <2>3, ContentIs DEF NabuTypes
  <2>5. /\ ~esc /\ b = 16 => Decoding(Content, Last, tx', pc, sent, got, TRUE)
        /\ (~esc /\ b # 16) \/ (esc /\ b = 16) =>
             Decoding(Content, Last, tx', pc, sent, Append(got, b), FALSE)
        /\ esc /\ b = 225 => Last = 225 /\ got = Content /\ pc # "data"
    <3>0. PICK l : l = Last /\ l # 16
      BY <2>4
    <3>1. PICK c \in Seq(Byte) : c = Content /\ l = Last /\ l # 16
      BY <2>4, <3>0
    <3>2. PICK t \in Seq(FromGateway), v \in Seq(FromGateway) : t = tx /\ v = tx'
      BY <1>0, <2>2
    <3>3. PICK g \in Seq(Byte) : g = got
      BY <2>4
    <3>4. PICK p, s : p = pc /\ s = sent
      OBVIOUS
    <3>5. Decoding(c, l, t, p, s, g, esc)
      BY <2>3, <3>1, <3>2, <3>3, <3>4 DEF Decodes
    <3>6. HeadGot(c, t, v, g, b)
      BY <2>1, <2>2, <2>20, <3>2 DEF HeadGot
    <3>7. CASE ~esc
      <4>1. Decoding(c, l, t, p, s, g, FALSE)
        BY <2>4, <3>5, <3>7
      <4>2. /\ b = 16 => Decoding(c, l, v, p, s, g, TRUE)
            /\ b # 16 => Decoding(c, l, v, p, s, Append(g, b), FALSE)
        BY <3>6, <4>1, GotPlain
      <4> QED
        BY <3>1, <3>2, <3>3, <3>4, <3>7, <4>2
    <3>8. CASE esc
      <4>1. Decoding(c, l, t, p, s, g, TRUE)
        BY <2>4, <3>5, <3>8
      <4>2. /\ l # 16 /\ b = 16 => Decoding(c, l, v, p, s, Append(g, b), FALSE)
            /\ b = 225 => l = 225 /\ Len(g) = Len(c) /\ p # "data"
        BY <3>6, <4>1, GotMarked
      <4>3. Len(g) = Len(c) => g = c
        <5>1. \A k \in 1 .. Len(g) : g[k] = c[k]
          BY <4>1 DEF Decoding
        <5> QED
          BY <5>1
      <4> QED
        BY <3>1, <3>2, <3>3, <3>4, <3>8, <4>2, <4>3
    <3> QED
      BY <3>7, <3>8
  <2>6. /\ pc' = pc /\ sent' = sent /\ args' = params' /\ Delivers' /\ Content' = Content
        /\ Last' = Last /\ body' = body /\ answer' = answer /\ rx' = <<>>
    BY <1>0, <2>1, <2>3 DEF GatewayKept, Content, Last, Delivers
  <2>7. CASE esc /\ b = 225
    <3>1. packet' = got /\ stage' = "idle"
      BY <2>1, <2>7 DEF EndCommand
    <3>2. answer # "aborted" /\ got = body /\ pc \in {"loop", "boot"}
      BY <2>3, <2>5, <2>7, ContentIs
    <3> QED
      BY <2>3, <2>6, <3>1, <3>2 DEF Receiving, Delivers
  <2>8. CASE ~(esc /\ b = 225)
    <3>1. packet' = packet /\ stage' = "body"
      BY <2>1, <2>8
    <3>2. packet = NoBody
      BY <1>0, <2>1 DEF StageFits
    <3>3. Decoding(Content, Last, tx', pc, sent, got', esc')
      <4>1. esc' \in BOOLEAN
        BY <1>7, Zenon DEF GetData
      <4>2. CASE esc'
        <5>1. esc' = TRUE /\ got' = got /\ ~esc /\ b = 16
          BY <2>1, <2>8, <4>1, <4>2
        <5>2. Decoding(Content, Last, tx', pc, sent, got, TRUE)
          BY <2>5, <5>1
        <5> QED
          BY <5>1, <5>2, Zenon
      <4>3. CASE ~esc'
        <5>1. esc' = FALSE /\ got' = Append(got, b) /\ ((~esc /\ b # 16) \/ (esc /\ b = 16))
          BY <2>1, <2>8, <4>1, <4>3
        <5>2. Decoding(Content, Last, tx', pc, sent, Append(got, b), FALSE)
          BY <2>5, <5>1
        <5> QED
          BY <5>1, <5>2, Zenon
      <4> QED
        BY <4>2, <4>3
    <3>4. Decodes'
      BY <2>6, <3>3 DEF Decodes
    <3> QED
      BY <2>3, <2>6, <3>1, <3>2, <3>4 DEF Receiving
  <2> QED
    BY <2>7, <2>8
<1>8. ASSUME NEW b, GetOther(b) PROVE G
  BY <1>0, <1>1, <1>8, GetOtherIs DEF Turn, Restart, Starts, StageFits, Waiting
<1>9. ASSUME NEW b, Drop(b) PROVE G
  <2>1. cmd = Idle /\ rx' = rx /\ UNCHANGED <<params, stage, at, packet, got, esc>>
    BY <1>9, DropIs
  <2>2. stage = "idle"
    BY <1>0, <2>1 DEF StageFits
  <2> QED
    BY <1>0, <2>1, <2>2 DEF Receiving, GatewayKept
<1>10. ASSUME GiveUp \/ Reset PROVE G
  BY <1>1, <1>10 DEF GiveUp, Reset, Restart, Starts
<1> QED
  BY <1>2, <1>3, <1>4, <1>5, <1>6, <1>7, <1>8, <1>9, <1>10, NabuCases
-----------------------------------------------------------------------------
\* The inductive invariant.
LineTypes == QueueTypes /\ GatewayTypes /\ NabuTypes

LEMMA LineInitOK == LineInit => LineTypes /\ LineInv
PROOF
<1> SUFFICES ASSUME LineInit PROVE LineTypes /\ LineInv
  OBVIOUS
<1>1. /\ pc = "boot" /\ args = <<>> /\ answer = "silence" /\ body = NoBody /\ sent = 0
      /\ channelWord = 0 /\ channelValid = TRUE /\ rx = <<>> /\ tx = <<>>
      /\ cmd = 131 /\ params = <<>> /\ stage = "command" /\ at = 0
      /\ word = NoWord /\ got = <<>> /\ esc = FALSE /\ packet = NoBody /\ upsets = 0
  BY DEF LineInit, AdapterStart, NabuStart
<1>2. /\ <<>> \in Seq(Byte) /\ Len(<<>>) = 0 /\ 131 \in Byte /\ 0 \in 0 .. 3 /\ 0 \in 0 .. MaxUpsets
      /\ <<>> \in Seq(ToGateway) /\ <<>> \in Seq(FromGateway) /\ MaxUpsets \in Nat
  BY NabuAssumption DEF Byte
<1>3. QueueTypes /\ NabuTypes
  BY <1>1, <1>2, Zenon DEF QueueTypes, NabuTypes
<1>4. GatewayTypes
  BY <1>1, <1>2, Word16 DEF GatewayTypes, AnswerKinds
<1>5. /\ StageOK /\ ServingOK /\ RxOK /\ Called /\ Opening /\ Asked /\ Refusing /\ Receiving
  BY <1>1, <1>2 DEF StageOK, StageFits, AtFits, Idle, ServingOK, Delivers, RxOK, RxMarks, Room, Called,
     AcksOnly, Opening, Asked, Refusing, Receiving
<1> QED
  BY <1>3, <1>4, <1>5 DEF LineTypes, LineInv

LEMMA LineStep == LineTypes /\ LineInv /\ [LineNext]_line_vars => LineTypes' /\ LineInv'
PROOF
<1> SUFFICES ASSUME LineTypes, LineInv, [LineNext]_line_vars PROVE LineTypes' /\ LineInv'
  OBVIOUS
<1>0. /\ QueueTypes /\ GatewayTypes /\ NabuTypes
      /\ StageOK /\ ServingOK /\ RxOK /\ Called /\ Opening /\ Asked /\ Refusing /\ Receiving
  BY DEF LineTypes, LineInv
<1>1. CASE Gateway /\ NabuKept /\ upsets' \in 0 .. MaxUpsets
  <2>1. RxLess /\ TxMore
    BY <1>0, <1>1, GatewayQueues
  <2>2. QueueTypes'
    BY <1>0, <2>1, Typed DEF QueueTypes
  <2>3. GatewayTypes' /\ ServingOK'
    BY <1>0, <1>1, GatewayServes
  <2>4. NabuTypes' /\ StageOK'
    BY <1>0, <1>1, GatewayStage
  <2>5. RxOK' /\ Called' /\ Refusing'
    BY <1>0, <1>1, <2>1, RxShrinks
  <2>6. Opening' /\ Asked' /\ Receiving'
    BY <1>0, <1>1, OpeningGateway, AskedGateway, ReceivingGateway
  <2> QED
    BY <2>2, <2>3, <2>4, <2>5, <2>6 DEF LineTypes, LineInv
<1>2. CASE Nabu /\ upsets' \in 0 .. MaxUpsets
  <2>1. QueueTypes' /\ NabuTypes' /\ StageOK'
    BY <1>0, <1>2, NabuTyped
  <2>2. GatewayTypes' /\ ServingOK'
    BY <1>0, <1>2, NabuServes
  <2>3. RxOK' /\ Called' /\ Refusing'
    BY <1>0, <1>2, RxNabu
  <2>4. Opening' /\ Asked' /\ Receiving'
    BY <1>0, <1>2, OpeningNabu, AskedNabu, ReceivingNabu
  <2> QED
    BY <2>1, <2>2, <2>3, <2>4 DEF LineTypes, LineInv
<1>3. CASE UNCHANGED line_vars
  <2>1. UNCHANGED <<pc, args, answer, body, sent, channelWord, channelValid, rx, tx,
                    cmd, params, stage, at, word, got, esc, packet, upsets>>
    BY <1>3 DEF line_vars, adapter_vars, nabu_vars
  <2>2. QueueTypes' /\ GatewayTypes' /\ NabuTypes'
    BY <1>0, <2>1 DEF QueueTypes, GatewayTypes, NabuTypes
  <2>3. StageOK' /\ ServingOK' /\ RxOK' /\ Called' /\ Refusing'
    BY <1>0, <2>1 DEF StageOK, StageFits, AtFits, ServingOK, Delivers, RxOK, RxMarks, Room, Called,
       AcksOnly, Refusing
  <2>4. Opening' /\ Asked'
    <3>1. Opening'
      BY <1>0, <2>1 DEF Opening, Entered
    <3>2. ASSUME NEW n PROVE (ArgsPut(n) => ArgsPut(n)') /\ (AnswerBegun(n) => AnswerBegun(n)')
      BY <2>1 DEF ArgsPut, RequestPut, WordPut, AnswerBegun
    <3>3. PICK n, m : n = at /\ m = Len(params)
      OBVIOUS
    <3>4. stage = "param" => ArgsPut(n)'
      BY <1>0, <3>2, <3>3, Zenon DEF Asked
    <3>7. stage = "kind" => AnswerBegun(0)'
      BY <1>0, <3>2, <3>3, Zenon DEF Asked
    <3>8. stage = "done" => \/ ArgsPut(m)'
                            \/ tx # <<>> /\ tx[1].byte = Done /\
                                 IF cmd = 132 THEN AnswerBegun(1)' ELSE rx = <<>> /\ pc \in {"loop", "boot"}
      BY <1>0, <3>2, <3>3, Zenon DEF Asked
    <3>5. n = at' /\ m = Len(params')
      BY <2>1, <3>3
    <3>6. Asked'
      BY <2>1, <3>4, <3>5, <3>7, <3>8 DEF Asked
    <3> QED
      BY <3>1, <3>6, Zenon
  <2>5. Receiving'
    <3>1. (Delivers => Delivers') /\ (Decodes => Decodes')
      <4>1. Content' = Content /\ Last' = Last
        BY <2>1 DEF Content, Last
      <4> QED
        BY <2>1, <4>1, Zenon DEF Decodes, Delivers
    <3>2. ASSUME NEW n PROVE AckPut(n) => AckPut(n)'
      BY <2>1 DEF AckPut
    <3>3. PICK n : n = at
      OBVIOUS
    <3>4. stage = "ack" => AckPut(n)'
      BY <1>0, <3>2, <3>3, Zenon DEF Receiving
    <3>5. stage = "body" => AckPut(2)' \/ (pc \in {"data", "loop", "boot"} /\ rx = <<>> /\ Decodes')
      BY <1>0, <3>1, <3>2, Zenon DEF Receiving
    <3>6. n = at'
      BY <2>1, <3>3
    <3> QED
      BY <1>0, <2>1, <3>1, <3>4, <3>5, <3>6 DEF Receiving
  <2> QED
    BY <2>2, <2>3, <2>4, <2>5 DEF LineTypes, LineInv
<1> QED
  BY <1>0, <1>1, <1>2, <1>3, TwoSides

\* Where each side is in its command, what is under way between them and what the
\* gateway is at fit together, in every state, whatever upsets there were.
THEOREM LineInvariant == LineSpec => [](LineTypes /\ LineInv)
BY LineInitOK, LineStep, PTL DEF LineSpec

\* The line and its two ends keep their types, and no byte for the gateway is lost:
\* with the commands, parameters and handshakes the NABU sends, however often it or
\* the gateway starts over, the receive FIFO never holds more than five bytes and one
\* for each upset.
THEOREM LineTypeCorrect ==
  ASSUME RxDepth >= 5 + MaxUpsets
  PROVE  LineSpec => []LineTypeOK
PROOF
<1>1. ASSUME LineTypes, LineInv PROVE LineTypeOK
  <2>1. /\ Len(rx) \in Nat /\ upsets \in 0 .. MaxUpsets /\ Len(rx) <= 5 + upsets
        /\ MaxUpsets \in Nat /\ RxDepth \in Nat
    BY <1>1, NabuAssumption DEF LineTypes, QueueTypes, NabuTypes, LineInv, RxOK, Room
  <2>2. Len(rx) <= RxDepth
    BY <2>1
  <2> QED
    BY <1>1, <2>2 DEF LineTypes, LineTypeOK
<1> QED
  BY <1>1, LineInvariant, PTL

\* A packet the NABU took as complete is, byte for byte, what the gateway served for
\* this very request, whatever the packet's bytes are, and whatever resets, reboots,
\* test bytes and refusals came before.
THEOREM PacketsAreWhole == LineSpec => []PacketWhole
PROOF
<1>1. LineInv => PacketWhole
  BY DEF LineInv, Receiving, PacketWhole
<1> QED
  BY <1>1, LineInvariant, PTL
-----------------------------------------------------------------------------
\* Without upsets.  The gateway's time limits never pass: it is at a read only while
\* what it reads is on its way.
Whole == LineTypes /\ LineInv
CalmGateway == AdapterStep /\ UNCHANGED nabu_vars
CalmNabu == NabuStep \/ NabuBegin

LEMMA WholeIs ==
  ASSUME Whole
  PROVE  /\ QueueTypes /\ GatewayTypes /\ NabuTypes /\ StageOK /\ ServingOK /\ RxOK
         /\ Called /\ Opening /\ Asked /\ Refusing /\ Receiving
BY DEF Whole, LineTypes, LineInv

LEMMA CalmIs ==
  ASSUME Calm
  PROVE  /\ CalmPc /\ CalmWord /\ CalmIdle /\ CalmCommand /\ CalmReply
         /\ CalmDone /\ CalmKind /\ CalmNak /\ CalmBody
BY DEF Calm

\* Until all its parameters are taken, one is in the FIFO.
LEMMA ArgsLeft ==
  ASSUME QueueTypes, GatewayTypes, StageOK, stage = "done", ArgsPut(Len(params))
  PROVE  /\ rx # <<>> /\ tx = <<>>
         /\ IF cmd = 132 THEN pc = "packet" ELSE pc \in {"channel_low", "channel_high"}
PROOF
<1>1. cmd \in {132, 133} /\ Len(params) = IF cmd = 132 THEN 4 ELSE 2
  BY ParamsLen
<1>2. PICK n \in {2, 4} : n = Len(params) /\ (cmd = 132 => n = 4) /\ (cmd # 132 => n = 2)
  BY <1>1
<1>3. ArgsPut(n)
  BY <1>2
<1>4. Len(args) \in Nat /\ Len(rx) \in Nat
  BY DEF QueueTypes, GatewayTypes
<1>5. tx = <<>> /\ IF cmd = 132 THEN RequestPut(n) ELSE WordPut(n)
  BY <1>3 DEF ArgsPut
<1>6. CASE cmd = 132
  <2>1. pc = "packet" /\ Len(args) + Len(rx) = 4 /\ Len(args) <= 3
    BY <1>2, <1>5, <1>6 DEF RequestPut
  <2> QED
    BY <1>4, <1>5, <1>6, <2>1
<1>7. CASE cmd # 132
  <2>1. (pc = "channel_low" /\ Len(rx) = 2) \/ (pc = "channel_high" /\ Len(rx) = 1)
    <3>1. WordPut(n) /\ n = 2
      BY <1>2, <1>5, <1>7
    <3>2. (pc = "channel_low" /\ Len(rx) = n) \/ (pc = "channel_high" /\ Len(rx) = n - 1)
      BY <3>1 DEF WordPut
    <3> QED
      BY <1>4, <3>1, <3>2
  <2> QED
    BY <1>5, <1>7, <2>1
<1> QED
  BY <1>6, <1>7

\* Where the gateway may be at each stage.
LEMMA StagePcs ==
  ASSUME Whole, Calm
  PROVE  /\ stage = "idle" => pc = "loop"
         /\ stage = "command" => pc \in {"loop", "boot"} /\ tx = <<>>
         /\ stage = "param" => /\ pc \in {"packet", "channel_low", "channel_high"} /\ tx = <<>>
                               /\ \A k \in 1 .. Len(rx) : rx[k].meant = "param"
         /\ stage = "done" =>
              \/ /\ pc \in {"packet", "channel_low", "channel_high"} /\ tx = <<>> /\ rx # <<>>
                 /\ \A k \in 1 .. Len(rx) : rx[k].meant = "param"
              \/ cmd = 132 /\ AnswerBegun(1) /\ pc # "boot" /\ tx # <<>> /\ tx[1].byte = Done
              \/ cmd = 133 /\ rx = <<>> /\ pc = "loop" /\ tx # <<>> /\ tx[1].byte = Done
         /\ stage = "kind" => cmd = 132 /\ AnswerBegun(0) /\ pc # "boot"
         /\ stage = "ack" => AckPut(at) /\ Reading
         /\ stage = "nak" => pc = "loop" /\ AcksOnly
         /\ stage = "body" => \/ AckPut(2) /\ Reading /\ rx # <<>>
                              \/ pc \in {"data", "loop"} /\ rx = <<>> /\ Decodes
PROOF
<1>0. /\ QueueTypes /\ GatewayTypes /\ NabuTypes /\ StageOK /\ Asked /\ Refusing /\ Receiving
      /\ CalmPc /\ CalmIdle /\ CalmCommand /\ CalmNak /\ StageFits
  BY WholeIs, CalmIs DEF StageOK
<1>1. pc = "boot" => stage \in {"command", "reply"}
  BY <1>0 DEF CalmPc
<1>2. ASSUME stage = "param"
      PROVE  /\ pc \in {"packet", "channel_low", "channel_high"} /\ tx = <<>>
             /\ \A k \in 1 .. Len(rx) : rx[k].meant = "param"
  BY <1>0, <1>2 DEF Asked, ArgsPut, RequestPut, WordPut
<1>3. ASSUME stage = "done"
      PROVE  \/ /\ pc \in {"packet", "channel_low", "channel_high"} /\ tx = <<>> /\ rx # <<>>
                /\ \A k \in 1 .. Len(rx) : rx[k].meant = "param"
             \/ cmd = 132 /\ AnswerBegun(1) /\ pc # "boot" /\ tx # <<>> /\ tx[1].byte = Done
             \/ cmd = 133 /\ rx = <<>> /\ pc = "loop" /\ tx # <<>> /\ tx[1].byte = Done
  <2>1. cmd \in {132, 133}
    BY <1>0, <1>3 DEF StageFits
  <2>2. CASE ArgsPut(Len(params))
    <3>1. rx # <<>> /\ tx = <<>> /\ pc \in {"packet", "channel_low", "channel_high"}
      BY <1>0, <1>3, <2>2, ArgsLeft
    <3>2. \A k \in 1 .. Len(rx) : rx[k].meant = "param"
      BY <2>2 DEF ArgsPut
    <3> QED
      BY <3>1, <3>2
  <2>3. CASE /\ tx # <<>> /\ tx[1].byte = Done
             /\ IF cmd = 132 THEN AnswerBegun(1) ELSE rx = <<>> /\ pc \in {"loop", "boot"}
    BY <1>1, <1>3, <2>1, <2>3
  <2> QED
    BY <1>0, <1>3, <2>2, <2>3 DEF Asked
<1>4. stage = "kind" => cmd = 132 /\ AnswerBegun(0) /\ pc # "boot"
  BY <1>0, <1>1 DEF Asked, StageFits
<1>5. stage = "ack" => AckPut(at) /\ Reading
  BY <1>0 DEF Receiving, AckPut, Reading
<1>6. ASSUME stage = "body"
      PROVE  \/ AckPut(2) /\ Reading /\ rx # <<>>
             \/ pc \in {"data", "loop"} /\ rx = <<>> /\ Decodes
  <2>1. ASSUME AckPut(2) PROVE Reading /\ rx # <<>>
    <3>1. 2 - Len(rx) \in {0, 1} /\ Reading
      BY <2>1 DEF AckPut, Reading
    <3> QED
      BY <3>1
  <2> QED
    BY <1>0, <1>1, <1>6, <2>1 DEF Receiving
<1>7. stage = "nak" => pc = "loop" /\ AcksOnly
  BY <1>0 DEF CalmNak, Refusing
<1>8. (stage = "idle" => pc = "loop") /\ (stage = "command" => pc \in {"loop", "boot"} /\ tx = <<>>)
  BY <1>0 DEF CalmIdle, CalmCommand
<1> QED
  BY <1>2, <1>3, <1>4, <1>5, <1>6, <1>7, <1>8

\* What a reply takes before it is sent, and that some of it is left to get.
LEMMA ReplyLeft ==
  ASSUME Whole, stage = "reply", ReplyComes
  PROVE  /\ tx # <<>> /\ Len(tx) \in 1 .. 3 /\ tx[1].byte \in Replies(cmd)[at + 1]
         /\ pc \in {"packet", "channel_low", "loop"}
PROOF
<1>1. /\ at < Len(Replies(cmd)) /\ at \in 0 .. 3 /\ tx \in Seq(FromGateway)
      /\ Len(tx) = Len(Replies(cmd)) - at
      /\ \A k \in 1 .. Len(tx) : tx[k].byte \in Replies(cmd)[at + k]
  BY WholeIs DEF StageOK, AtFits, NabuTypes, QueueTypes, ReplyComes
<1>2. PICK n \in 0 .. 3 : n = Len(Replies(cmd))
  BY RepliesAre, Zenon
<1>3. at < n /\ Len(tx) = n - at
  BY <1>1, <1>2, Zenon
<1>4. Len(tx) \in 1 .. 3 /\ tx # <<>>
  BY <1>1, <1>3
<1> QED
  BY <1>1, <1>4 DEF ReplyComes, CalledPc

LEMMA NoTimeout ==
  ASSUME Whole, Calm, NabuSilent, AdapterTimeout PROVE FALSE
PROOF
<1>1. /\ tx = <<>> /\ (cmd = Idle \/ Waiting) /\ rx = <<>>
      /\ pc \in {"channel_low", "channel_high", "packet", "read_10", "read_06"}
  BY DEF NabuSilent, AdapterTimeout, ChannelTimeout, PacketTimeout, ExpectTimeout, Reading
<1>2. StageFits /\ CalmReply
  BY WholeIs, CalmIs DEF StageOK
<1>3. stage = "idle" => FALSE
  BY <1>1, StagePcs
<1>4. stage = "reply" => FALSE
  BY <1>1, <1>2, ReplyLeft DEF CalmReply, CommandComes, CommandLost
<1>5. stage = "done" => FALSE
  BY <1>1, StagePcs
<1>6. stage = "kind" => FALSE
  BY <1>1, StagePcs DEF AnswerBegun
<1>7. stage = "body" => FALSE
  BY <1>1, StagePcs
<1> QED
  BY <1>1, <1>2, <1>3, <1>4, <1>5, <1>6, <1>7 DEF StageFits, Waiting

LEMMA CalmSides ==
  ASSUME Whole, [LineNext]_line_vars, upsets' = 0, Calm
  PROVE  CalmGateway \/ CalmNabu \/ UNCHANGED line_vars
PROOF
<1>1. upsets \in Nat
  BY WholeIs, NabuAssumption DEF NabuTypes
<1>2. ~Upset
  BY <1>1 DEF Upset
<1>3. ~Timeout
  BY NoTimeout DEF Timeout
<1> QED
  BY <1>2, <1>3 DEF LineNext, CalmGateway, CalmNabu

LEMMA CalmBefore ==
  ASSUME NabuTypes, [LineNext]_line_vars, upsets' = 0 PROVE upsets = 0
PROOF
<1>1. upsets \in Nat
  BY NabuAssumption DEF NabuTypes
<1>2. NabuStep \/ NabuBegin => upsets' = upsets
  BY DEF NabuStep, NabuBegin, PutCommand, PutParam, PutAck, Put, GiveUp, GetReply, GetDone,
         GetKind, GetData, GetOther, Drop, Heard, Begin
<1>3. Upset => FALSE
  BY <1>1 DEF Upset
<1> QED
  BY <1>2, <1>3 DEF LineNext, Timeout, nabu_vars, line_vars

\* Each byte is taken for what was meant by it.
LEMMA CalmInStep == Whole /\ Calm => (rx # <<>> => Head(rx).meant \in Takes)
PROOF
<1> SUFFICES ASSUME Whole, Calm, rx # <<>> PROVE Head(rx).meant \in Takes
  OBVIOUS
<1>0. Len(rx) > 0 /\ Len(rx) \in Nat /\ Head(rx) = rx[1] /\ StageFits /\ NabuTypes
  BY WholeIs DEF QueueTypes, StageOK
<1>14. /\ pc = "loop" => Takes = {"command", "ack"}
       /\ pc \in {"packet", "channel_low", "channel_high"} => Takes = {"param"}
       /\ Reading => Takes = {"ack"}
  BY DEF Takes, Reading
<1>1. ASSUME pc = "loop", rx[1].meant \in {"command", "ack"} PROVE Head(rx).meant \in Takes
  BY <1>0, <1>1, <1>14
<1>2. ASSUME pc \in {"packet", "channel_low", "channel_high"},
             \A k \in 1 .. Len(rx) : rx[k].meant = "param" 
      PROVE  Head(rx).meant \in Takes
  <2>1. rx[1].meant = "param"
    BY <1>0, <1>2
  <2> QED
    BY <1>0, <1>2, <1>14, <2>1
<1>3. ASSUME NEW n, AckPut(n), Reading PROVE Head(rx).meant \in Takes
  <2>1. rx[1] = [byte |-> Ack[n - Len(rx) + 1], meant |-> "ack"]
    BY <1>0, <1>3 DEF AckPut
  <2> QED
    BY <1>0, <1>3, <1>14, <2>1
<1>4. CASE stage = "idle"
  BY <1>0, <1>1, <1>4, CalmIs DEF CalmIdle
<1>5. CASE stage = "command"
  BY <1>0, <1>1, <1>5, CalmIs DEF CalmCommand, CalmPc, AcksOnly
<1>6. CASE stage = "reply"
  <2>1. CommandComes
    BY <1>0, <1>6, CalmIs DEF CalmReply, ReplyComes, CommandLost
  <2>2. rx[1].meant \in {"command", "ack"}
    <3>1. CASE Len(rx) = 1
      BY <2>1, <3>1 DEF CommandComes
    <3>2. CASE Len(rx) # 1
      BY <1>0, <2>1, <3>2 DEF CommandComes
    <3> QED
      BY <3>1, <3>2
  <2> QED
    BY <1>1, <2>1, <2>2 DEF CommandComes
<1>7. CASE stage \in {"param", "done"}
  BY <1>0, <1>2, <1>7, StagePcs DEF AnswerBegun
<1>8. CASE stage = "kind"
  BY <1>0, <1>8, StagePcs DEF AnswerBegun
<1>9. CASE stage = "ack"
  BY <1>3, <1>9, StagePcs
<1>10. CASE stage = "nak"
  BY <1>0, <1>1, <1>10, StagePcs DEF AcksOnly
<1>11. CASE stage = "body"
  BY <1>3, <1>11, StagePcs
<1> QED
  BY <1>0, <1>4, <1>5, <1>6, <1>7, <1>8, <1>9, <1>10, <1>11 DEF NabuTypes

\* What the loop takes is left of a handshake, or a command nobody waits for, or the
\* one that is waited for.
LEMMA CalmTakes ==
  ASSUME Whole, Calm, pc = "loop", NEW b, RxTakes(b)
  PROVE  \/ b \in {16, 6} /\ rx[1].meant = "ack" /\ stage \in {"idle", "command", "reply", "nak"}
         \/ stage = "idle" /\ b \notin Mute
         \/ stage = "reply" /\ at = 0 /\ b = cmd /\ tx = <<>> /\ Len(rx) = 1
PROOF
<1>0. /\ Len(rx) > 0 /\ Len(rx) \in Nat /\ rx[1].byte = b /\ StageFits /\ NabuTypes
      /\ rx[1].meant = "ack" => b \in {16, 6}
  BY WholeIs DEF QueueTypes, StageOK, RxTakes, RxOK, RxMarks
<1>1. CASE stage = "idle"
  BY <1>0, <1>1, CalmIs DEF CalmIdle
<1>2. CASE stage = "command"
  BY <1>0, <1>2, CalmIs DEF CalmCommand, AcksOnly
<1>3. CASE stage = "reply"
  <2>1. CommandComes
    BY <1>0, <1>3, CalmIs DEF CalmReply, ReplyComes, CommandLost
  <2>2. CASE Len(rx) = 1
    BY <1>0, <1>3, <2>1, <2>2 DEF CommandComes
  <2>3. CASE Len(rx) # 1
    <3>0. PICK n \in Nat : n = Len(rx) /\ n > 0 /\ n # 1
      BY <1>0, <2>3
    <3>3. 1 \in 1 .. n - 1
      BY <3>0
    <3>1. 1 \in 1 .. Len(rx) - 1
      BY <3>0, <3>3
    <3>2. rx[1].meant = "ack"
      BY <2>1, <3>1, Zenon DEF CommandComes
    <3> QED
      BY <1>0, <1>3, <3>2
  <2> QED
    BY <2>2, <2>3
<1>4. CASE stage = "nak"
  BY <1>0, <1>4, StagePcs DEF AcksOnly
<1>5. CASE stage \in {"param", "done", "kind"}
  BY <1>0, <1>5, StagePcs DEF AnswerBegun
<1>6. CASE stage \in {"ack", "body"}
  BY <1>0, <1>6, StagePcs DEF Reading
<1> QED
  BY <1>0, <1>1, <1>2, <1>3, <1>4, <1>5, <1>6 DEF NabuTypes

\* The gateway's steps keep it so.
LEMMA CalmStill ==
  ASSUME AdapterStep, rx = <<>>, pc \in {"loop", "packet", "channel_low", "channel_high", "read_10"}
  PROVE  FALSE
BY DEF AdapterStep, Boot, ChangeChannel, PacketRequest, Fetched, Prolog, SendData, SendEpilog, AllSent,
   Refuse, Simple, ChannelLow, ChannelHigh, PacketArg, Expected, Taken

LEMMA LoopSteps ==
  ASSUME Whole, Calm, pc = "loop", AdapterStep, UNCHANGED <<cmd, stage, at>>
  PROVE  \E b : /\ RxTakes(b)
                /\ \/ /\ UNCHANGED pc
                      /\ \/ /\ b \in {16, 6} /\ rx[1].meant = "ack" /\ tx' = tx
                            /\ stage \in {"idle", "command", "reply", "nak"}
                         \/ stage = "idle"
                   \/ stage = "reply" /\ ReplyComes'
PROOF
<1> DEFINE P(b) == /\ RxTakes(b)
                   /\ \/ /\ UNCHANGED pc
                         /\ \/ /\ b \in {16, 6} /\ rx[1].meant = "ack" /\ tx' = tx
                               /\ stage \in {"idle", "command", "reply", "nak"}
                            \/ stage = "idle"
                      \/ stage = "reply" /\ ReplyComes'
<1>0. QueueTypes /\ StageOK
  BY WholeIs
<1>1. PICK b : /\ Taken(b)
               /\ \/ Simple(b)
                  \/ b = 133 /\ ChangeChannel
                  \/ b = 132 /\ PacketRequest
  BY DEF AdapterStep, Boot, ChangeChannel, PacketRequest, Fetched, Prolog, SendData, SendEpilog, AllSent,
     Refuse, Simple, ChannelLow, ChannelHigh, PacketArg, Expected, Reading
<1>2. RxTakes(b)
  BY <1>0, <1>1, TakenIs
<1>3. CASE b \in {16, 6} /\ rx[1].meant = "ack" /\ stage \in {"idle", "command", "reply", "nak"}
  <2>1. Simple(b) /\ Raw(Reply(b)) = <<>> /\ tx \in Seq(FromGateway)
    BY <1>0, <1>1, <1>3, NoReply DEF QueueTypes
  <2>2. tx' = tx /\ UNCHANGED pc
    BY <2>1 DEF Simple
  <2> QED
    BY <1>2, <1>3, <2>2
<1>4. CASE stage = "idle" /\ b \notin Mute
  <2>1. Simple(b)
    BY <1>1, <1>4 DEF Mute
  <2> QED
    BY <1>2, <1>4, <2>1 DEF Simple
<1>5. CASE stage = "reply" /\ at = 0 /\ b = cmd /\ tx = <<>> /\ Len(rx) = 1
  <2>1. rx' = <<>> /\ at' = 0 /\ cmd' = cmd
    BY <1>0, <1>2, <1>5, EmptyTaken
  <2>2. Len(tx') = Len(Replies(cmd)) /\ \A k \in 1 .. Len(tx') : tx'[k].byte \in Replies(cmd)[k]
    <3>1. CASE b \notin {132, 133}
      <4>1. b \in Byte /\ tx' = Raw(Reply(b))
        <5>1. tx' = tx \o Raw(Reply(b)) /\ b \in Byte
          BY <1>1, <1>2, <3>1 DEF Simple, RxTakes
        <5>2. Raw(Reply(b)) \in Seq(FromGateway)
          BY <5>1, ReplyIs, RawIs
        <5> QED
          BY <1>5, <5>1, <5>2
      <4>2. /\ Len(Raw(Reply(b))) = Len(Replies(b))
            /\ \A k \in 1 .. Len(Raw(Reply(b))) : Raw(Reply(b))[k].byte \in Replies(b)[k]
        <5>1. /\ Reply(b) \in Seq(Byte) /\ Len(Reply(b)) = Len(Replies(b))
              /\ \A k \in 1 .. Len(Reply(b)) : Reply(b)[k] \in Replies(b)[k]
          BY <3>1, <4>1, ReplyIs
        <5>2. /\ Len(Raw(Reply(b))) = Len(Reply(b))
              /\ \A k \in 1 .. Len(Reply(b)) : Raw(Reply(b))[k] = Marked(Reply(b)[k], "reply", 0)
          BY <5>1, RawIs
        <5>3. \A k \in 1 .. Len(Reply(b)) : Raw(Reply(b))[k].byte = Reply(b)[k]
          <6>1. ASSUME NEW k \in 1 .. Len(Reply(b)) PROVE Raw(Reply(b))[k].byte = Reply(b)[k]
            <7>1. Raw(Reply(b))[k] = [byte |-> Reply(b)[k], meant |-> "reply", item |-> 0]
              BY <5>2 DEF Marked
            <7> QED
              BY <7>1
          <6> QED
            BY <6>1
        <5> QED
          BY <5>1, <5>2, <5>3, Zenon
      <4> QED
        BY <1>5, <4>1, <4>2, Zenon
    <3>2. CASE b \in {132, 133}
      <4>1. tx' = <<Marked(16, "reply", 0), Marked(6, "reply", 0)>>
        BY <1>1, <1>5, <3>2, AckIs DEF Simple, ChangeChannel, PacketRequest
      <4>2. Replies(cmd) = <<{16}, {6}>>
        BY <1>5, <3>2, RepliesAre
      <4> QED
        BY <4>1, <4>2 DEF Marked
    <3> QED
      BY <3>1, <3>2
  <2>3. pc' = (IF cmd = 132 THEN "packet" ELSE IF cmd = 133 THEN "channel_low" ELSE "loop")
        /\ (cmd = 132 => args' = <<>>)
    BY <1>1, <1>5 DEF Simple, ChangeChannel, PacketRequest
  <2>4. Len(tx') = Len(Replies(cmd)) - 0
        /\ \A k \in 1 .. Len(tx') : tx'[k].byte \in Replies(cmd)[0 + k]
    <3>1. PICK n \in 0 .. 3 : n = Len(Replies(cmd))
      BY RepliesAre, Zenon
    <3>2. Len(tx') = n - 0
      BY <2>2, <3>1
    <3>3. ASSUME NEW k \in 1 .. Len(tx') PROVE tx'[k].byte \in Replies(cmd)[0 + k]
      <4>1. 0 + k = k
        OBVIOUS
      <4> QED
        BY <2>2, <4>1
    <3> QED
      BY <3>1, <3>2, <3>3
  <2>5. ReplyComes'
    BY <2>1, <2>3, <2>4 DEF ReplyComes, CalledPc
  <2> QED
    BY <1>2, <1>5, <2>5
<1> QED
  BY <1>2, <1>3, <1>4, <1>5, CalmTakes

LEMMA CalmGatewayPc == ASSUME Whole, Calm, CalmGateway PROVE CalmPc' /\ CalmWord'
PROOF
<1>0. /\ CalmPc /\ CalmWord /\ AdapterStep /\ UNCHANGED <<cmd, params, stage, at, word>>
  BY CalmIs DEF CalmGateway, nabu_vars
<1>1. answer' # "twice" /\ pc' # "boot"
  BY <1>0 DEF CalmPc, AdapterStep, Boot, ChangeChannel, PacketRequest, Fetched, AnswerKinds, Prolog,
     SendData, SendEpilog, Refuse, Simple, ChannelLow, ChannelHigh, PacketArg, Expected, HasRead, AllSent
<1>2. pc \notin {"channel_low", "channel_high"} => UNCHANGED <<channelWord, channelValid>>
  BY <1>0 DEF AdapterStep, Boot, ChangeChannel, PacketRequest, Fetched, Prolog,
     SendData, SendEpilog, Refuse, Simple, ChannelLow, ChannelHigh, PacketArg, Expected
<1>3. pc' \in {"channel_low", "channel_high"} => cmd = 133
  <2>1. CASE pc = "loop"
    BY <1>0, <2>1, LoopSteps DEF ReplyComes, CalledPc
  <2>2. CASE pc # "loop"
    <3>1. pc' \in {"channel_low", "channel_high"} => pc \in {"channel_low", "channel_high"}
      BY <1>0, <2>2 DEF AdapterStep, Boot, ChangeChannel, PacketRequest, Fetched, Prolog, HasRead,
         SendData, SendEpilog, Refuse, Simple, ChannelLow, ChannelHigh, PacketArg, Expected
    <3> QED
      BY <1>0, <3>1 DEF CalmPc
  <2> QED
    BY <2>1, <2>2
<1>4. CalmWord'
  BY <1>0, <1>2 DEF CalmWord, CalmPc
<1> QED
  BY <1>0, <1>1, <1>3, <1>4 DEF CalmPc

\* Whether there is an answer, or a refusal, when the gateway is back in its loop.
LEMMA AnswerCalm ==
  ASSUME Whole, NEW n \in {0, 1}, AnswerBegun(n), pc # "boot", AdapterStep, pc' = "loop"
  PROVE  Unserved(n)'
PROOF
<1>0. /\ QueueTypes /\ GatewayTypes /\ ServingOK /\ rx = <<>>
      /\ tx \in Seq(FromGateway) /\ Len(tx) \in Nat
  BY WholeIs DEF AnswerBegun, QueueTypes
<1>1. CASE pc \in {"loop", "read_10"}
  BY <1>0, <1>1, CalmStill
<1>2. CASE pc = "fetch"
  <2>1. Fetched
    BY <1>2 DEF AdapterStep, Boot, ChangeChannel, PacketRequest, Prolog, SendData, SendEpilog, AllSent,
       Refuse, Simple, ChannelLow, ChannelHigh, PacketArg, Expected, Reading
  <2>2. Len(tx) = n /\ tx' = tx
    BY <1>2, <2>1 DEF AnswerBegun, Fetched
  <2>3. answer' = "silence"
    BY <2>1 DEF Fetched, AnswerKinds
  <2> QED
    BY <2>2, <2>3 DEF Unserved
<1>3. CASE pc = "prolog"
  <2>1. Prolog
    BY <1>3 DEF AdapterStep, Boot, ChangeChannel, PacketRequest, Fetched, SendData, SendEpilog, AllSent,
       Refuse, Simple, ChannelLow, ChannelHigh, PacketArg, Expected, Reading
  <2> QED
    BY <2>1 DEF Prolog
<1>4. CASE pc = "refuse"
  <2>1. Refuse /\ Len(tx) = n
    BY <1>4 DEF AdapterStep, Boot, ChangeChannel, PacketRequest, Fetched, Prolog, SendData, SendEpilog,
       AllSent, Simple, ChannelLow, ChannelHigh, PacketArg, Expected, Reading, AnswerBegun
  <2>2. tx' = tx \o Refusal(sent) /\ sent \in Nat
    BY <2>1 DEF Refuse, GatewayTypes, Whole, LineTypes
  <2>3. /\ Refusal(sent) \in Seq(FromGateway) /\ Len(Refusal(sent)) = 3
        /\ Refusal(sent)[1] = Marked(144, "data", sent + 1)
    BY <2>2, EndsAre DEF Refusal
  <2>4. Len(tx') = n + 3 /\ tx'[n + 1] = Marked(144, "data", sent + 1)
    <3>1. TxSends(Refusal(sent))
      BY <1>0, <2>2, <2>3, SendsIs
    <3>2. /\ Len(tx') = Len(tx) + 3 /\ tx'[Len(tx) + 1] = Refusal(sent)[1]
      BY <2>3, <3>1 DEF TxSends
    <3> QED
      BY <2>1, <2>3, <3>2
  <2>5. Len(tx') # n /\ tx'[n + 1].byte = 144
    BY <2>4 DEF Marked
  <2> QED
    BY <2>5 DEF Unserved
<1> QED
  BY <1>1, <1>2, <1>3, <1>4 DEF AnswerBegun

LEMMA CalmGatewayKind == ASSUME Whole, Calm, CalmGateway PROVE CalmDone' /\ CalmKind'
PROOF
<1>0. /\ QueueTypes /\ GatewayTypes /\ NabuTypes /\ ServingOK /\ StageOK /\ Asked
      /\ AdapterStep /\ UNCHANGED <<cmd, params, stage, at, word, upsets>>
  BY WholeIs DEF CalmGateway, nabu_vars
<1>1. Gateway /\ NabuKept
  BY <1>0 DEF Gateway, NabuKept, CalmGateway, nabu_vars
<1>2. ASSUME stage = "done", tx = <<>>
      PROVE  /\ cmd = 132 => pc' # "loop"
             /\ cmd = 133 /\ tx' # <<>> =>
                  Len(tx') = 1 /\ channelWord' = params[1] + 256 * params[2] /\ channelValid'
  <2>1. ArgsPut(Len(params))
    BY <1>0, <1>2 DEF Asked
  <2>2. PICK n : n = Len(params)
    OBVIOUS
  <2>3. n \in 0 .. Len(params) /\ ArgsPut(n)
    <3>1. Len(params) \in Nat
      BY <1>0, <1>2, ParamsLen
    <3> QED
      BY <2>1, <2>2, <3>1
  <2>4. \/ ArgsPut(n)'
        \/ /\ n = Len(params) /\ rx' = <<>> /\ tx' # <<>> /\ tx'[1].byte = Done /\ Len(tx') = 1
           /\ cmd = 132 => pc' = "fetch" /\ args' = params
           /\ cmd = 133 => pc' = "loop" /\ channelValid' /\ channelWord' = params[1] + 256 * params[2]
    BY <1>0, <1>1, <1>2, <2>2, <2>3, ArgsGateway
  <2>5. ArgsPut(n)' => tx' = <<>> /\ (cmd = 132 => pc' = "packet")
    BY <1>0 DEF ArgsPut, RequestPut
  <2> QED
    BY <2>4, <2>5
<1>3. ASSUME stage = "done", tx # <<>>, cmd = 133 PROVE FALSE
  <2>1. rx = <<>> /\ pc = "loop"
    BY <1>3, StagePcs
  <2> QED
    BY <1>0, <2>1, CalmStill
<1>4. CalmDone'
  BY <1>0, <1>2, <1>3 DEF CalmDone
<1>5. ASSUME stage = "done", cmd = 132, pc' = "loop" PROVE Unserved(1)'
  <2>1. tx # <<>>
    BY <1>2, <1>5
  <2>2. AnswerBegun(1) /\ pc # "boot"
    BY <1>5, <2>1, StagePcs
  <2> QED
    BY <1>0, <1>5, <2>2, AnswerCalm
<1>6. ASSUME stage = "kind", cmd = 132, pc' = "loop" PROVE Unserved(0)'
  <2>2. AnswerBegun(0) /\ pc # "boot"
    BY <1>6, StagePcs
  <2> QED
    BY <1>0, <1>6, <2>2, AnswerCalm
<1>7. CalmKind'
  BY <1>0, <1>5, <1>6, Zenon DEF CalmKind
<1> QED
  BY <1>4, <1>7

\* The end of a packet is the last that is sent of it.
LEMMA LastSent ==
  ASSUME NEW t \in Seq(FromGateway), NEW u \in Seq(FromGateway),
         \A k \in 1 .. Len(t) : t[k].meant # "end",
         \A k \in 1 .. Len(u) : u[k].meant = "end" => k = Len(u)
  PROVE  \A k \in 1 .. Len(t \o u) : (t \o u)[k].meant = "end" => k = Len(t \o u)
PROOF
<1>1. /\ Len(t \o u) = Len(t) + Len(u) /\ Len(t) \in Nat /\ Len(u) \in Nat
      /\ \A k \in 1 .. Len(t) : (t \o u)[k] = t[k]
      /\ \A k \in 1 .. Len(t \o u) : k > Len(t) => (t \o u)[k] = u[k - Len(t)]
  BY Grows
<1>2. ASSUME NEW k \in 1 .. Len(t \o u), (t \o u)[k].meant = "end" PROVE k = Len(t \o u)
  <2>1. k > Len(t)
    BY <1>1, <1>2
  <2>2. k - Len(t) \in 1 .. Len(u) /\ u[k - Len(t)].meant = "end"
    BY <1>1, <1>2, <2>1
  <2>3. k - Len(t) = Len(u)
    BY <2>2
  <2> QED
    BY <1>1, <2>3
<1> QED
  BY <1>2

LEMMA CalmGatewayBody == ASSUME Whole, Calm, CalmGateway PROVE CalmBody'
PROOF
<1>0. /\ QueueTypes /\ GatewayTypes /\ ServingOK /\ CalmBody
      /\ AdapterStep /\ UNCHANGED stage /\ tx \in Seq(FromGateway)
  BY WholeIs, CalmIs DEF CalmGateway, nabu_vars, QueueTypes
<1>1. SUFFICES ASSUME stage = "body"
      PROVE  \A k \in 1 .. Len(tx') : tx'[k].meant = "end" => k = Len(tx')
  BY <1>0 DEF CalmBody
<1>2. CASE Reading
  <2>1. tx' = tx
    BY <1>0, <1>2 DEF AdapterStep, Boot, ChangeChannel, PacketRequest, Fetched, Prolog, SendData, SendEpilog,
       AllSent, Refuse, Simple, ChannelLow, ChannelHigh, PacketArg, Expected, Reading
  <2> QED
    BY <1>0, <1>1, <2>1 DEF CalmBody
<1>3. CASE pc = "loop" /\ rx = <<>>
  BY <1>0, <1>3, CalmStill
<1>4. CASE pc = "data" /\ Decodes
  <2>1. \A k \in 1 .. Len(tx) : tx[k].meant # "end"
    BY <1>4 DEF Decodes, Decoding, Chained
  <2>2. /\ body \in Seq(Byte) /\ sent \in 0 .. Len(body) /\ Len(body) \in Nat
        /\ \A k \in 1 .. Len(body) : body[k] \in Byte
    BY <1>0, <1>4, BodyBytes
  <2>3. SendData \/ SendEpilog \/ Refuse
    BY <1>0, <1>4 DEF AdapterStep, Boot, ChangeChannel, PacketRequest, Fetched, Prolog, Simple,
       ChannelLow, ChannelHigh, PacketArg, Expected, Reading
  <2>4. \E u \in Seq(FromGateway) :
          tx' = tx \o u /\ \A k \in 1 .. Len(u) : u[k].meant = "end" => k = Len(u)
    <3>1. CASE SendData
      <4>1. tx' = tx \o Doubled(body[sent + 1], sent + 1) /\ body[sent + 1] \in Byte /\ sent + 1 \in Nat
        BY <2>2, <3>1 DEF SendData
      <4>2. PICK b \in Byte, j \in Nat : b = body[sent + 1] /\ j = sent + 1
        BY <4>1
      <4>3. Doubled(b, j) \in Seq(FromGateway) /\ tx' = tx \o Doubled(b, j)
        BY <4>1, <4>2, DoubledIs
      <4>4. \A k \in 1 .. Len(Doubled(b, j)) : Doubled(b, j)[k].meant # "end"
        BY DEF Doubled, Marked
      <4> QED
        BY <4>3, <4>4
    <3>2. CASE SendEpilog
      <4>1. tx' = tx \o Epilog(sent) /\ Epilog(sent) \in Seq(FromGateway)
        BY <2>2, <3>2, EndsAre DEF SendEpilog
      <4>2. \A k \in 1 .. Len(Epilog(sent)) : Epilog(sent)[k].meant = "end" => k = Len(Epilog(sent))
        BY DEF Epilog, Marked
      <4> QED
        BY <4>1, <4>2
    <3>3. CASE Refuse
      <4>1. tx' = tx \o Refusal(sent) /\ Refusal(sent) \in Seq(FromGateway)
        BY <2>2, <3>3, EndsAre DEF Refuse
      <4>2. \A k \in 1 .. Len(Refusal(sent)) : Refusal(sent)[k].meant = "end" => k = Len(Refusal(sent))
        BY DEF Refusal, Marked
      <4> QED
        BY <4>1, <4>2
    <3> QED
      BY <2>3, <3>1, <3>2, <3>3
  <2> QED
    BY <1>0, <2>1, <2>4, LastSent
<1> QED
  BY <1>1, <1>2, <1>3, <1>4, StagePcs

LEMMA CalmGatewayCalls ==
  ASSUME Whole, Calm, CalmGateway PROVE CalmIdle' /\ CalmCommand' /\ CalmReply' /\ CalmNak'
PROOF
<1>0. /\ QueueTypes /\ StageOK /\ CalmIdle /\ CalmCommand /\ CalmReply /\ CalmNak /\ CalmPc
      /\ AdapterStep /\ UNCHANGED <<cmd, params, stage, at>> /\ Len(rx) \in Nat
  BY WholeIs, CalmIs DEF CalmGateway, nabu_vars, QueueTypes
<1>1. ASSUME pc = "boot"
      PROVE  pc' = "loop" /\ rx' = rx /\ tx' = tx
  BY <1>0, <1>1 DEF AdapterStep, Boot, ChangeChannel, PacketRequest, Fetched, Prolog, SendData, SendEpilog,
     AllSent, Refuse, Simple, ChannelLow, ChannelHigh, PacketArg, Expected, Reading
<1>2. ASSUME pc = "loop", stage \in {"idle", "command", "nak"}
      PROVE  /\ pc' = "loop" /\ Len(rx') = Len(rx) - 1 /\ \A k \in 1 .. Len(rx') : rx'[k] = rx[k + 1]
             /\ stage = "command" => tx' = tx
  <2>1. PICK b : /\ RxTakes(b)
                 /\ \/ /\ UNCHANGED pc
                       /\ \/ /\ b \in {16, 6} /\ rx[1].meant = "ack" /\ tx' = tx
                             /\ stage \in {"idle", "command", "reply", "nak"}
                          \/ stage = "idle"
                    \/ stage = "reply" /\ ReplyComes'
    BY <1>0, <1>2, LoopSteps
  <2> QED
    BY <1>2, <2>1 DEF RxTakes
<1>3. ASSUME Len(rx') = Len(rx) - 1, \A k \in 1 .. Len(rx') : rx'[k] = rx[k + 1], NEW k \in 1 .. Len(rx')
      PROVE  k + 1 \in 1 .. Len(rx) /\ rx'[k] = rx[k + 1]
  BY <1>0, <1>3
<1>4. CalmIdle'
  <2>1. SUFFICES ASSUME stage = "idle"
        PROVE  /\ pc' = "loop"
               /\ \A k \in 1 .. Len(rx') : rx'[k].meant \in {"ack", "command"} /\ rx'[k].byte \notin Mute
    BY <1>0 DEF CalmIdle
  <2>2. pc = "loop"
    BY <1>0, <2>1 DEF CalmIdle
  <2> QED
    BY <1>0, <1>2, <1>3, <2>1, <2>2 DEF CalmIdle
<1>5. CalmCommand'
  <2>1. SUFFICES ASSUME stage = "command" PROVE pc' \in {"loop", "boot"} /\ tx' = <<>> /\ AcksOnly'
    BY <1>0 DEF CalmCommand
  <2>2. pc \in {"loop", "boot"} /\ tx = <<>> /\ AcksOnly
    BY <1>0, <2>1 DEF CalmCommand
  <2>3. CASE pc = "boot"
    BY <1>1, <2>2, <2>3 DEF AcksOnly
  <2>4. CASE pc = "loop"
    BY <1>2, <1>3, <2>1, <2>2, <2>4 DEF AcksOnly
  <2> QED
    BY <2>2, <2>3, <2>4
<1>6. CalmNak'
  BY <1>0, <1>2 DEF CalmNak
<1>7. CalmReply'
  <2>1. SUFFICES ASSUME stage = "reply" PROVE CommandComes' \/ ReplyComes' \/ CommandLost'
    BY <1>0 DEF CalmReply
  <2>2. CASE CommandComes
    <3>1. PICK b : /\ RxTakes(b)
                   /\ \/ /\ UNCHANGED pc
                         /\ \/ /\ b \in {16, 6} /\ rx[1].meant = "ack" /\ tx' = tx
                               /\ stage \in {"idle", "command", "reply", "nak"}
                            \/ stage = "idle"
                      \/ stage = "reply" /\ ReplyComes'
      BY <1>0, <2>2, LoopSteps DEF CommandComes
    <3>2. CASE UNCHANGED pc /\ rx[1].meant = "ack" /\ tx' = tx
      <4>1. /\ Len(rx) > 0 /\ Len(rx') = Len(rx) - 1 /\ \A k \in 1 .. Len(rx') : rx'[k] = rx[k + 1]
            /\ rx[Len(rx)] = [byte |-> cmd, meant |-> "command"]
            /\ \A k \in 1 .. Len(rx) - 1 : rx[k].meant = "ack"
        BY <2>2, <3>1 DEF RxTakes, CommandComes
      <4>2. PICK n \in Nat : n = Len(rx) /\ n > 0
        BY <1>0, <4>1
      <4>3. n # 1
        BY <3>2, <4>1, <4>2
      <4>4. Len(rx') = n - 1 /\ rx'[n - 1] = [byte |-> cmd, meant |-> "command"] /\ n - 1 > 0
        <5>1. n - 1 \in 1 .. Len(rx') /\ (n - 1) + 1 = n /\ Len(rx') = n - 1
          BY <4>1, <4>2, <4>3
        <5> QED
          BY <4>1, <4>2, <5>1
      <4>5. ASSUME NEW k \in 1 .. Len(rx') - 1 PROVE rx'[k].meant = "ack"
        <5>1. k \in 1 .. Len(rx') /\ k + 1 \in 1 .. Len(rx) - 1
          BY <4>1, <4>2, <4>4
        <5> QED
          BY <4>1, <5>1
      <4>6. rx' # <<>> /\ rx'[Len(rx')] = [byte |-> cmd', meant |-> "command"]
        BY <1>0, <4>4
      <4>7. at' = 0 /\ tx' = <<>> /\ pc' = "loop"
        BY <1>0, <2>2, <3>2 DEF CommandComes
      <4> QED
        BY <4>5, <4>6, <4>7 DEF CommandComes
    <3> QED
      BY <2>1, <3>1, <3>2
  <2>3. CASE ReplyComes
    <3>1. rx = <<>> /\ pc \in {"packet", "channel_low", "loop"}
      BY <2>1, <2>3, ReplyLeft DEF ReplyComes
    <3> QED
      BY <1>0, <3>1, CalmStill
  <2>4. CASE CommandLost
    <3>1. pc # "loop"
      BY <1>0, <2>4, CalmStill DEF CommandLost
    <3>2. pc' = "loop" /\ rx' = rx /\ tx' = tx
      BY <1>1, <2>4, <3>1 DEF CommandLost
    <3> QED
      BY <1>0, <2>4, <3>2 DEF CommandLost
  <2> QED
    BY <1>0, <2>1, <2>2, <2>3, <2>4 DEF CalmReply
<1> QED
  BY <1>4, <1>5, <1>6, <1>7

LEMMA CalmGatewayOK == ASSUME Whole, Calm, CalmGateway PROVE Calm'
BY CalmGatewayPc, CalmGatewayCalls, CalmGatewayKind, CalmGatewayBody DEF Calm
-----------------------------------------------------------------------------
\* The NABU gives up a command only when its answer is silence or was cut short, or
\* when the gateway was not up yet for the first one.
NotServed ==
  /\ cmd = 132 /\ pc = "loop" /\ rx = <<>> /\ answer \in {"silence", "aborted"}
  /\ tx' = <<>>

\* What follows the mark, unless it is 0x10 again, ends the packet.
LEMMA EndHeard ==
  ASSUME Whole, stage = "body", Decodes, esc, NEW b, TxHears(b), b # 16
  PROVE  tx[1].meant = "end" /\ b = Last /\ pc # "data"
PROOF
<1>0. /\ QueueTypes /\ NabuTypes /\ Receiving /\ ServingOK /\ Len(tx) \in Nat /\ Len(tx) > 0
      /\ tx # <<>> /\ tx[1].byte = b
  BY WholeIs DEF QueueTypes, TxHears
<1>1. PICK c, l : /\ c = Content /\ l = Last /\ Decoding(c, l, tx, pc, sent, got, esc)
  BY DEF Decodes
<1>2. PICK x : x = tx[1] /\ x.byte = b
  BY <1>0
<1>3. Follows(c, x, Len(got) + 1) /\ Chained(c, l, tx, pc, sent, 1)
  BY <1>0, <1>1, <1>2 DEF Decoding
<1>4. Means(c, l, x) /\ (x.meant = "end" => pc # "data")
  BY <1>2, <1>3 DEF Chained
<1>5. x.meant # "data"
  <2>1. SUFFICES ASSUME x.meant = "data" PROVE FALSE
    OBVIOUS
  <2>2. x.item = Len(got) + 1 /\ x.item \in 1 .. Len(c) /\ b = c[Len(got) + 1]
    BY <1>2, <1>3, <1>4, <2>1 DEF Follows, Means
  <2>3. Len(got) \in Nat /\ Len(c) \in Nat
    <3>1. Delivers
      BY <1>0 DEF Receiving
    <3> QED
      BY <1>0, <1>1, <3>1, ContentIs DEF NabuTypes
  <2>4. Len(got) < Len(c)
    BY <2>2, <2>3
  <2> QED
    BY <1>1, <2>2, <2>4 DEF Decoding
<1>6. x.meant = "end"
  BY <1>3, <1>5 DEF Follows
<1> QED
  BY <1>1, <1>2, <1>4, <1>6 DEF Means

LEMMA AbortedHeard ==
  ASSUME Whole, Calm, stage = "body", NEW b, GetOther(b)
  PROVE  NotServed
PROOF
<1>0. /\ QueueTypes /\ NabuTypes /\ StageFits /\ CalmBody /\ TxHears(b) /\ b \notin Wanted
      /\ tx \in Seq(FromGateway) /\ Len(tx) \in Nat /\ Len(tx) > 0
  BY WholeIs, CalmIs, GetOtherIs DEF StageOK, QueueTypes, TxHears
<1>1. pc \in {"data", "loop"} /\ rx = <<>> /\ Decodes
  <2>1. ~AckPut(2)
    BY <1>0 DEF AckPut
  <2> QED
    BY <1>0, <2>1, StagePcs
<1>2. esc /\ b \notin {16, 225}
  BY <1>0 DEF Wanted, TxHears, NabuTypes, End
<1>3. tx[1].meant = "end" /\ b = Last /\ pc = "loop"
  BY <1>0, <1>1, <1>2, EndHeard
<1>4. answer = "aborted"
  <2>1. End[2] = 225
    BY DEF End
  <2> QED
    BY <1>2, <1>3, <2>1 DEF Last
<1>5. tx' = <<>>
  <2>0. 1 \in 1 .. Len(tx)
    BY <1>0
  <2>1. Len(tx) = 1
    BY <1>0, <1>3, <2>0 DEF CalmBody
  <2>2. tx' \in Seq(FromGateway) /\ Len(tx') = 0
    BY <1>0, <2>1 DEF TxHears
  <2> QED
    BY <2>2
<1> QED
  BY <1>0, <1>1, <1>3, <1>4, <1>5 DEF NotServed, StageFits

LEMMA CalmRestarts ==
  ASSUME Whole, Calm, GiveUp \/ \E b : GetOther(b)
  PROVE  /\ Restart /\ rx' = rx
         /\ NotServed \/ (CommandLost /\ tx' = tx)
PROOF
<1>0. /\ QueueTypes /\ NabuTypes /\ StageFits /\ CalmPc /\ CalmReply /\ CalmKind
      /\ tx \in Seq(FromGateway) /\ Len(tx) \in Nat
  BY WholeIs, CalmIs DEF StageOK, QueueTypes
<1>1. ASSUME NEW b, GetOther(b) PROVE Restart /\ rx' = rx /\ NotServed
  <2>0. /\ TxHears(b) /\ b \notin Wanted /\ Len(tx) > 0 /\ tx # <<>> /\ tx[1].byte = b /\ Waiting
        /\ rx' = rx /\ (cmd # 131 => Restart)
    BY <1>0, <1>1, GetOtherIs DEF TxHears
  <2>1. stage # "reply"
    <3>1. SUFFICES ASSUME stage = "reply" PROVE FALSE
      OBVIOUS
    <3>2. ReplyComes
      BY <1>0, <2>0, <3>1 DEF CalmReply, CommandComes, CommandLost
    <3> QED
      BY <2>0, <3>1, <3>2, ReplyLeft DEF Wanted
  <2>2. stage # "done"
    <3>1. SUFFICES ASSUME stage = "done" PROVE FALSE
      OBVIOUS
    <3>2. tx[1].byte = Done
      BY <2>0, <3>1, StagePcs
    <3> QED
      BY <2>0, <3>1, <3>2 DEF Wanted
  <2>3. stage # "kind"
    <3>1. SUFFICES ASSUME stage = "kind" PROVE FALSE
      OBVIOUS
    <3>2. cmd = 132 /\ AnswerBegun(0) /\ pc # "boot"
      BY <3>1, StagePcs
    <3>3. b \in {144, 145}
      BY <1>0, <2>0, <3>1, <3>2 DEF AnswerBegun, CalmKind, Unserved, CalmPc
    <3> QED
      BY <2>0, <3>1, <3>3 DEF Wanted
  <2>4. stage = "body"
    BY <2>0, <2>1, <2>2, <2>3 DEF Waiting
  <2>5. NotServed
    BY <1>1, <2>4, AbortedHeard
  <2> QED
    BY <2>0, <2>5 DEF NotServed
<1>2. ASSUME GiveUp PROVE Restart /\ rx' = rx /\ (NotServed \/ (CommandLost /\ tx' = tx))
  <2>0. /\ Waiting /\ tx = <<>> /\ rx = <<>> /\ pc \notin {"fetch", "prolog", "data", "refuse"}
        /\ Restart /\ rx' = rx /\ tx' = tx
    BY <1>2 DEF GiveUp, Quiet, Sending, adapter_vars
  <2>1. CASE stage = "reply"
    BY <1>0, <2>0, <2>1, ReplyLeft DEF CalmReply, CommandComes
  <2>2. CASE stage = "done"
    BY <2>0, <2>2, StagePcs
  <2>3. CASE stage = "kind"
    <3>1. cmd = 132 /\ AnswerBegun(0) /\ pc # "boot"
      BY <2>3, StagePcs
    <3>2. pc = "loop" /\ Len(tx) = 0
      BY <2>0, <3>1 DEF AnswerBegun
    <3>3. answer = "silence"
      BY <1>0, <2>3, <3>1, <3>2 DEF CalmKind, Unserved
    <3> QED
      BY <2>0, <3>1, <3>2, <3>3 DEF NotServed
  <2>4. CASE stage = "body"
    <3>1. Decodes
      BY <2>0, <2>4, StagePcs
    <3>2. pc = "data"
      BY <2>0, <3>1 DEF Decodes, Decoding
    <3> QED
      BY <2>0, <3>2
  <2> QED
    BY <2>0, <2>1, <2>2, <2>3, <2>4 DEF Waiting
<1> QED
  BY <1>1, <1>2
-----------------------------------------------------------------------------
\* The NABU's steps keep it so.
LEMMA RestartCalm ==
  ASSUME Whole, Calm, GatewayKept, GiveUp \/ \E b : GetOther(b) PROVE Calm'
PROOF
<1>0. CalmPc /\ CalmWord /\ GatewayKept
  BY CalmIs
<1>1. /\ cmd' = 131 /\ stage' = "command" /\ at' = 0 /\ word' = word
      /\ rx' = rx /\ (NotServed \/ (CommandLost /\ tx' = tx))
  BY CalmRestarts DEF Restart, Starts
<1>2. /\ rx' = <<>> /\ tx' = <<>> /\ pc' \in {"boot", "loop"} /\ pc' = pc
      /\ UNCHANGED <<answer, channelWord, channelValid>>
  BY <1>0, <1>1 DEF NotServed, CommandLost, GatewayKept
<1>3. AcksOnly'
  BY <1>2 DEF AcksOnly
<1> QED
  BY <1>0, <1>1, <1>2, <1>3 DEF Calm, CalmPc, CalmWord, CalmIdle, CalmCommand, CalmReply, CalmDone,
     CalmKind, CalmNak, CalmBody

LEMMA BeginCalm == ASSUME Whole, Calm, GatewayKept, NEW c, NEW what, Begin(c, what) PROVE Calm'
PROOF
<1>0. CalmPc /\ CalmWord /\ CalmIdle /\ GatewayKept /\ StageFits /\ QueueTypes
  BY WholeIs, CalmIs DEF StageOK
<1>1. /\ cmd = Idle /\ tx = <<>> /\ \A k \in DOMAIN rx : rx[k].meant = "ack"
      /\ cmd' = c /\ stage' = "command" /\ at' = 0 /\ word' = IF c = 133 THEN NoWord ELSE word
      /\ rx' = rx /\ tx' = tx
  BY DEF Begin, Starts, adapter_vars
<1>2. pc = "loop" /\ UNCHANGED <<pc, answer, channelWord, channelValid>>
  BY <1>0, <1>1 DEF StageFits, CalmIdle, GatewayKept
<1>3. AcksOnly'
  <2>1. DOMAIN rx = 1 .. Len(rx)
    BY <1>0 DEF QueueTypes
  <2> QED
    BY <1>1, <2>1 DEF AcksOnly
<1> QED
  BY <1>0, <1>1, <1>2, <1>3 DEF Calm, CalmPc, CalmWord, CalmIdle, CalmCommand, CalmReply, CalmDone,
     CalmKind, CalmNak, CalmBody

LEMMA PutCommandCalm == ASSUME Whole, Calm, GatewayKept, PutCommand PROVE Calm'
PROOF
<1>0. /\ CalmPc /\ CalmWord /\ CalmCommand /\ GatewayKept /\ StageOK /\ QueueTypes /\ NabuTypes /\ RxMarks
      /\ Len(rx) \in Nat
  BY WholeIs, CalmIs DEF RxOK, QueueTypes
<1>1. /\ stage = "command" /\ tx' = tx
      /\ pc = "boot" => rx' = rx
      /\ pc # "boot" => RxPuts([byte |-> cmd, meant |-> "command"])
      /\ IF Replies(cmd) = <<>> THEN EndCommand ELSE Turn("reply")
      /\ UNCHANGED <<params, word, got, esc, packet, upsets>>
  BY <1>0, PutCommandIs
<1>2. /\ pc \in {"loop", "boot"} /\ tx = <<>> /\ AcksOnly /\ at = 0
      /\ UNCHANGED <<pc, answer, channelWord, channelValid>>
  BY <1>0, <1>1 DEF CalmCommand, GatewayKept, StageOK, AtFits
<1>3. ASSUME pc = "loop"
      PROVE  /\ Len(rx') = Len(rx) + 1 /\ rx'[Len(rx')] = [byte |-> cmd, meant |-> "command"]
             /\ \A k \in 1 .. Len(rx') - 1 : rx'[k] = rx[k] /\ rx'[k].meant = "ack" /\ rx'[k].byte \in {16, 6}
  <2>1. /\ Len(rx') = Len(rx) + 1 /\ rx'[Len(rx) + 1] = [byte |-> cmd, meant |-> "command"]
        /\ \A k \in 1 .. Len(rx) : rx'[k] = rx[k]
    BY <1>1, <1>3 DEF RxPuts
  <2> QED
    BY <1>0, <1>2, <2>1 DEF AcksOnly, RxMarks
<1>4. CASE Replies(cmd) = <<>>
  <2>1. cmd \notin Mute
    BY <1>4 DEF Mute, Replies
  <2>2. pc = "loop"
    BY <1>0, <1>2, <2>1 DEF CalmPc, Mute
  <2>3. cmd' = Idle /\ stage' = "idle" /\ at' = 0
    BY <1>1, <1>4 DEF EndCommand
  <2>4. \A k \in 1 .. Len(rx') : rx'[k].meant \in {"ack", "command"} /\ rx'[k].byte \notin Mute
    <3>1. ASSUME NEW k \in 1 .. Len(rx')
          PROVE  rx'[k].meant \in {"ack", "command"} /\ rx'[k].byte \notin Mute
      <4>1. CASE k = Len(rx')
        <5>1. rx'[k] = [byte |-> cmd, meant |-> "command"]
          BY <1>3, <2>2, <4>1
        <5> QED
          BY <2>1, <5>1
      <4>2. CASE k # Len(rx')
        <5>1. k \in 1 .. Len(rx') - 1
          BY <1>0, <1>3, <2>2, <4>2
        <5>2. rx'[k].meant = "ack" /\ rx'[k].byte \in {16, 6}
          BY <1>3, <2>2, <5>1
        <5> QED
          BY <5>2 DEF Mute
      <4> QED
        BY <4>1, <4>2
    <3> QED
      BY <3>1
  <2> QED
    BY <1>0, <1>1, <1>2, <2>2, <2>3, <2>4 DEF Calm, CalmPc, CalmWord, CalmIdle, CalmCommand, CalmReply,
       CalmDone, CalmKind, CalmNak, CalmBody, Idle
<1>5. CASE Replies(cmd) # <<>>
  <2>1. cmd' = cmd /\ stage' = "reply" /\ at' = 0
    BY <1>1, <1>5 DEF Turn
  <2>2. CASE pc = "loop"
    <3>1. rx' # <<>> /\ \A k \in 1 .. Len(rx') - 1 : rx'[k].meant = "ack"
      BY <1>0, <1>3, <2>2
    <3>2. CommandComes'
      BY <1>1, <1>2, <1>3, <2>1, <2>2, <3>1 DEF CommandComes
    <3> QED
      BY <1>0, <1>1, <1>2, <2>1, <2>2, <3>2 DEF Calm, CalmPc, CalmWord, CalmIdle, CalmCommand, CalmReply,
         CalmDone, CalmKind, CalmNak, CalmBody
  <2>3. CASE pc = "boot"
    <3>1. cmd = 131 /\ rx = <<>> /\ rx' = rx
      BY <1>0, <1>1, <2>3 DEF CalmPc
    <3>2. CommandLost'
      BY <1>1, <1>2, <2>1, <3>1 DEF CommandLost
    <3> QED
      BY <1>0, <1>1, <1>2, <2>1, <3>1, <3>2 DEF Calm, CalmPc, CalmWord, CalmIdle, CalmCommand, CalmReply,
         CalmDone, CalmKind, CalmNak, CalmBody
  <2> QED
    BY <1>2, <2>2, <2>3
<1> QED
  BY <1>4, <1>5

LEMMA PutParamCalm == ASSUME Whole, Calm, GatewayKept, PutParam PROVE Calm'
PROOF
<1>0. /\ CalmPc /\ CalmWord /\ GatewayKept /\ StageOK /\ QueueTypes /\ NabuTypes
  BY WholeIs, CalmIs
<1>1. /\ stage = "param" /\ tx' = tx /\ word' = word
      /\ IF at + 1 = Len(params) THEN Turn("done") ELSE Stay
  BY <1>0, PutParamIs
<1>2. /\ pc \in {"packet", "channel_low", "channel_high"} /\ tx = <<>>
      /\ UNCHANGED <<pc, answer, channelWord, channelValid>>
  BY <1>0, <1>1, StagePcs DEF GatewayKept
<1>3. cmd' = cmd /\ stage' \in {"param", "done"}
  BY <1>1 DEF Turn, Stay
<1> QED
  BY <1>0, <1>1, <1>2, <1>3 DEF Calm, CalmPc, CalmWord, CalmIdle, CalmCommand, CalmReply,
     CalmDone, CalmKind, CalmNak, CalmBody

LEMMA PutAckCalm == ASSUME Whole, Calm, GatewayKept, PutAck PROVE Calm'
PROOF
<1>0. /\ CalmPc /\ CalmWord /\ GatewayKept /\ StageOK /\ QueueTypes /\ NabuTypes /\ RxMarks
      /\ Len(rx) \in Nat
  BY WholeIs, CalmIs DEF RxOK, QueueTypes
<1>1. /\ stage \in {"ack", "nak"} /\ tx' = tx /\ word' = word
      /\ pc # "boot" => RxPuts([byte |-> IF at = 0 THEN 16 ELSE 6, meant |-> "ack"])
      /\ IF at = 0 THEN Stay ELSE IF stage = "ack" THEN Turn("body") ELSE EndCommand
  BY <1>0, PutAckIs
<1>2. /\ pc # "boot" /\ UNCHANGED <<pc, answer, channelWord, channelValid>>
      /\ stage = "nak" => pc = "loop" /\ AcksOnly
      /\ stage = "ack" => tx = <<>> /\ Reading
  BY <1>0, <1>1, StagePcs DEF GatewayKept, AckPut, Reading
<1>3. CASE cmd' = cmd /\ stage' = stage
  BY <1>0, <1>1, <1>2, <1>3 DEF Calm, CalmPc, CalmWord, CalmIdle, CalmCommand, CalmReply,
     CalmDone, CalmKind, CalmNak, CalmBody
<1>4. CASE stage = "ack" /\ stage' = "body" /\ cmd' = cmd
  BY <1>0, <1>1, <1>2, <1>4 DEF Calm, CalmPc, CalmWord, CalmIdle, CalmCommand, CalmReply,
     CalmDone, CalmKind, CalmNak, CalmBody
<1>5. CASE stage = "nak" /\ EndCommand
  <2>1. /\ Len(rx') = Len(rx) + 1 /\ \A k \in 1 .. Len(rx) : rx'[k] = rx[k]
        /\ rx'[Len(rx) + 1] = [byte |-> IF at = 0 THEN 16 ELSE 6, meant |-> "ack"]
    BY <1>1, <1>2 DEF RxPuts
  <2>2. \A k \in 1 .. Len(rx') : rx'[k].meant = "ack" /\ rx'[k].byte \in {16, 6}
    BY <1>0, <1>2, <1>5, <2>1 DEF AcksOnly, RxMarks
  <2>3. \A k \in 1 .. Len(rx') : rx'[k].meant \in {"ack", "command"} /\ rx'[k].byte \notin Mute
    BY <2>2 DEF Mute
  <2>4. cmd' = Idle /\ stage' = "idle"
    BY <1>5 DEF EndCommand
  <2> QED
    BY <1>0, <1>1, <1>2, <1>5, <2>3, <2>4 DEF Calm, CalmPc, CalmWord, CalmIdle, CalmCommand, CalmReply,
       CalmDone, CalmKind, CalmNak, CalmBody, Idle
<1> QED
  BY <1>1, <1>3, <1>4, <1>5 DEF Stay, Turn

LEMMA GetReplyCalm == ASSUME Whole, Calm, GatewayKept, NEW b, GetReply(b) PROVE Calm'
PROOF
<1>0. /\ CalmPc /\ CalmWord /\ CalmReply /\ GatewayKept /\ StageOK /\ QueueTypes /\ NabuTypes
      /\ Len(tx) \in Nat
  BY WholeIs, CalmIs DEF QueueTypes
<1>1. /\ stage = "reply" /\ TxHears(b) /\ rx' = rx /\ word' = word /\ params' = params
      /\ at \in 0 .. 2
      /\ IF at + 1 < Len(Replies(cmd)) THEN Stay
         ELSE IF cmd \in {132, 133} THEN Turn("param") ELSE EndCommand
  BY <1>0, GetReplyIs
<1>2. /\ Len(tx) > 0 /\ Len(tx') = Len(tx) - 1 /\ \A k \in 1 .. Len(tx') : tx'[k] = tx[k + 1]
      /\ tx' \in Seq(FromGateway)
  BY <1>1 DEF TxHears
<1>3. ReplyComes
  BY <1>0, <1>1, <1>2 DEF CalmReply, CommandComes, CommandLost
<1>4. /\ rx = <<>> /\ pc = CalledPc /\ UNCHANGED <<pc, args, answer, channelWord, channelValid>>
      /\ Len(tx) = Len(Replies(cmd)) - at /\ (cmd = 132 => args = <<>>)
      /\ \A k \in 1 .. Len(tx) : tx[k].byte \in Replies(cmd)[at + k]
  BY <1>0, <1>3 DEF ReplyComes, GatewayKept
<1>5. PICK n \in 0 .. 3 : n = Len(Replies(cmd))
  BY RepliesAre, Zenon
<1>6. pc # "boot" /\ (pc \in {"channel_low", "channel_high"} => cmd = 133)
  BY <1>4 DEF CalledPc
<1>7. CASE at + 1 < Len(Replies(cmd))
  <2>1. cmd' = cmd /\ stage' = "reply" /\ at' = at + 1
    BY <1>1, <1>7 DEF Stay
  <2>2. Len(tx') = n - (at + 1) /\ \A k \in 1 .. Len(tx') : tx'[k].byte \in Replies(cmd)[(at + 1) + k]
    <3>1. Len(tx) = n - at
      BY <1>4, <1>5
    <3>2. Len(tx') = n - (at + 1)
      BY <1>1, <1>2, <1>5, <3>1
    <3>3. ASSUME NEW k \in 1 .. Len(tx') PROVE tx'[k].byte \in Replies(cmd)[(at + 1) + k]
      <4>1. k + 1 \in 1 .. Len(tx) /\ at + (k + 1) = (at + 1) + k
        BY <1>1, <1>2
      <4>2. tx[k + 1].byte \in Replies(cmd)[at + (k + 1)] /\ tx'[k] = tx[k + 1]
        BY <1>2, <1>4, <4>1
      <4> QED
        BY <4>1, <4>2
    <3> QED
      BY <3>2, <3>3
  <2>3. Len(tx') = Len(Replies(cmd')) - at' /\ \A k \in 1 .. Len(tx') : tx'[k].byte \in Replies(cmd')[at' + k]
    BY <1>5, <2>1, <2>2, Zenon
  <2>4. ReplyComes'
    BY <1>1, <1>4, <2>1, <2>3 DEF ReplyComes, CalledPc
  <2> QED
    BY <1>0, <1>1, <1>4, <1>6, <2>1, <2>4 DEF Calm, CalmPc, CalmWord, CalmIdle, CalmCommand, CalmReply,
       CalmDone, CalmKind, CalmNak, CalmBody
<1>8. CASE ~(at + 1 < Len(Replies(cmd))) /\ cmd \in {132, 133}
  <2>1. cmd' = cmd /\ stage' = "param"
    BY <1>1, <1>8 DEF Turn
  <2> QED
    BY <1>0, <1>1, <1>4, <1>6, <2>1 DEF Calm, CalmPc, CalmWord, CalmIdle, CalmCommand, CalmReply,
       CalmDone, CalmKind, CalmNak, CalmBody
<1>9. CASE ~(at + 1 < Len(Replies(cmd))) /\ cmd \notin {132, 133}
  <2>1. cmd' = Idle /\ stage' = "idle" /\ pc = "loop"
    BY <1>1, <1>4, <1>9 DEF EndCommand, CalledPc
  <2> QED
    BY <1>0, <1>1, <1>4, <1>6, <2>1 DEF Calm, CalmPc, CalmWord, CalmIdle, CalmCommand, CalmReply,
       CalmDone, CalmKind, CalmNak, CalmBody, Idle
<1> QED
  BY <1>7, <1>8, <1>9

LEMMA GetDoneCalm == ASSUME Whole, Calm, GatewayKept, NEW b, GetDone(b) PROVE Calm'
PROOF
<1>0. /\ CalmPc /\ CalmWord /\ CalmDone /\ CalmKind /\ GatewayKept /\ StageFits /\ QueueTypes
      /\ Len(tx) \in Nat
  BY WholeIs, CalmIs DEF QueueTypes, StageOK
<1>1. /\ stage = "done" /\ TxHears(b) /\ rx' = rx
      /\ IF cmd = 133 THEN EndCommand /\ word' = params ELSE Turn("kind") /\ UNCHANGED word
  BY <1>0, GetDoneIs
<1>2. /\ Len(tx) > 0 /\ Len(tx') = Len(tx) - 1 /\ \A k \in 1 .. Len(tx') : tx'[k] = tx[k + 1]
      /\ UNCHANGED <<pc, answer, channelWord, channelValid>> /\ cmd \in {132, 133}
  BY <1>0, <1>1 DEF TxHears, GatewayKept, StageFits
<1>3. \/ cmd = 132 /\ AnswerBegun(1) /\ pc # "boot"
      \/ cmd = 133 /\ rx = <<>> /\ pc = "loop"
  BY <1>1, <1>2, StagePcs
<1>4. CASE cmd = 133
  <2>1. cmd' = Idle /\ stage' = "idle" /\ word' = params
    BY <1>1, <1>4 DEF EndCommand
  <2>2. channelWord = params[1] + 256 * params[2] /\ channelValid
    BY <1>0, <1>1, <1>2, <1>4 DEF CalmDone
  <2>3. channelWord' = word'[1] + 256 * word'[2] /\ channelValid'
    BY <1>2, <2>1, <2>2
  <2>4. CalmWord'
    BY <2>1, <2>3 DEF CalmWord, Idle
  <2> QED
    BY <1>0, <1>1, <1>2, <1>3, <1>4, <2>1, <2>4 DEF Calm, CalmPc, CalmIdle, CalmCommand, CalmReply,
       CalmDone, CalmKind, CalmNak, CalmBody, Idle
<1>5. CASE cmd = 132
  <2>1. cmd' = cmd /\ stage' = "kind" /\ word' = word
    BY <1>1, <1>5 DEF Turn
  <2>2. pc = "loop" => Unserved(0)'
    <3>1. SUFFICES ASSUME pc = "loop" PROVE Unserved(0)'
      OBVIOUS
    <3>2. IF Len(tx) = 1 THEN answer = "silence" ELSE tx[2].byte = 144
      BY <1>0, <1>1, <1>5, <3>1 DEF CalmKind, Unserved
    <3>3. CASE Len(tx) = 1
      BY <1>2, <3>2, <3>3 DEF Unserved
    <3>4. CASE Len(tx) # 1
      <4>1. Len(tx') # 0 /\ 1 \in 1 .. Len(tx') /\ tx'[1] = tx[2]
        <5>1. PICK n \in Nat : n = Len(tx) /\ n > 1
          BY <1>0, <1>2, <3>4
        <5>2. Len(tx') = n - 1
          BY <1>2, <5>1
        <5>3. 1 \in 1 .. Len(tx') /\ Len(tx') # 0
          BY <5>1, <5>2
        <5> QED
          BY <1>2, <5>3
      <4>2. tx'[0 + 1].byte = 144
        BY <3>2, <3>4, <4>1
      <4> QED
        BY <4>1, <4>2, Zenon DEF Unserved
    <3> QED
      BY <3>3, <3>4
  <2> QED
    BY <1>0, <1>1, <1>2, <1>3, <1>5, <2>1, <2>2 DEF Calm, CalmPc, CalmWord, CalmIdle, CalmCommand, CalmReply,
       CalmDone, CalmKind, CalmNak, CalmBody
<1> QED
  BY <1>2, <1>4, <1>5

LEMMA GetKindCalm == ASSUME Whole, Calm, GatewayKept, NEW b, GetKind(b) PROVE Calm'
PROOF
<1>0. /\ CalmPc /\ CalmWord /\ CalmKind /\ GatewayKept /\ StageFits /\ QueueTypes
      /\ Len(tx) \in Nat
  BY WholeIs, CalmIs DEF QueueTypes, StageOK
<1>1. /\ stage = "kind" /\ TxHears(b) /\ rx' = rx /\ b \in {144, 145} /\ word' = word
      /\ Turn(IF b = 145 THEN "ack" ELSE "nak")
  BY <1>0, GetKindIs
<1>2. /\ Len(tx) > 0 /\ tx[1].byte = b /\ UNCHANGED <<pc, answer, channelWord, channelValid>>
  BY <1>0, <1>1 DEF TxHears, GatewayKept
<1>3. cmd = 132 /\ AnswerBegun(0) /\ pc # "boot"
  BY <1>1, StagePcs
<1>4. b = 144 => pc = "loop"
  BY <1>0, <1>2, <1>3 DEF AnswerBegun, CalmPc
<1>5. cmd' = cmd /\ stage' \in {"ack", "nak"} /\ (stage' = "nak" => b = 144)
  BY <1>1 DEF Turn
<1> QED
  BY <1>0, <1>1, <1>2, <1>3, <1>4, <1>5 DEF Calm, CalmPc, CalmWord, CalmIdle, CalmCommand, CalmReply,
     CalmDone, CalmKind, CalmNak, CalmBody

LEMMA GetDataCalm == ASSUME Whole, Calm, GatewayKept, NEW b, GetData(b) PROVE Calm'
PROOF
<1>0. /\ CalmPc /\ CalmWord /\ CalmBody /\ GatewayKept /\ StageFits /\ QueueTypes
      /\ Len(tx) \in Nat
  BY WholeIs, CalmIs DEF QueueTypes, StageOK
<1>1. /\ stage = "body" /\ TxHears(b) /\ rx' = rx /\ word' = word
      /\ \/ UNCHANGED <<cmd, stage>>
         \/ esc /\ b = 225 /\ EndCommand
  BY <1>0, GetDataIs
<1>2. /\ Len(tx) > 0 /\ Len(tx') = Len(tx) - 1 /\ \A k \in 1 .. Len(tx') : tx'[k] = tx[k + 1]
      /\ UNCHANGED <<pc, answer, channelWord, channelValid>> /\ cmd = 132 /\ tx[1].byte = b
  BY <1>0, <1>1 DEF TxHears, GatewayKept, StageFits
<1>3. pc \in {"data", "loop"} /\ rx = <<>> /\ Decodes
  <2>1. ~AckPut(2)
    BY <1>2 DEF AckPut
  <2> QED
    BY <1>1, <2>1, StagePcs
<1>4. CASE UNCHANGED <<cmd, stage>>
  <2>1. ASSUME NEW k \in 1 .. Len(tx'), tx'[k].meant = "end" PROVE k = Len(tx')
    <3>1. k + 1 \in 1 .. Len(tx) /\ tx[k + 1].meant = "end"
      BY <1>0, <1>2, <2>1
    <3>2. k + 1 = Len(tx)
      BY <1>0, <1>1, <3>1 DEF CalmBody
    <3> QED
      BY <1>2, <3>2
  <2>2. CalmBody'
    BY <2>1 DEF CalmBody
  <2> QED
    BY <1>0, <1>1, <1>2, <1>3, <1>4, <2>2 DEF Calm, CalmPc, CalmWord, CalmIdle, CalmCommand, CalmReply,
       CalmDone, CalmKind, CalmNak
<1>5. CASE esc /\ b = 225 /\ EndCommand
  <2>1. pc = "loop"
    <3>1. pc # "data"
      BY <1>1, <1>3, <1>5, EndHeard
    <3> QED
      BY <1>3, <3>1
  <2>2. cmd' = Idle /\ stage' = "idle"
    BY <1>5 DEF EndCommand
  <2> QED
    BY <1>0, <1>1, <1>2, <1>3, <2>1, <2>2 DEF Calm, CalmPc, CalmWord, CalmIdle, CalmCommand, CalmReply,
       CalmDone, CalmKind, CalmNak, CalmBody, Idle
<1> QED
  BY <1>1, <1>4, <1>5

LEMMA DropCalm == ASSUME Whole, Calm, GatewayKept, NEW b, Drop(b) PROVE Calm'
PROOF
<1>0. /\ CalmPc /\ CalmWord /\ CalmIdle /\ GatewayKept /\ StageFits /\ QueueTypes
  BY WholeIs, CalmIs DEF StageOK
<1>1. cmd = Idle /\ rx' = rx /\ UNCHANGED <<cmd, stage, word>>
  BY <1>0, DropIs
<1>2. stage = "idle" /\ UNCHANGED <<pc, answer, channelWord, channelValid>>
  BY <1>0, <1>1 DEF StageFits, GatewayKept
<1> QED
  BY <1>0, <1>1, <1>2 DEF Calm, CalmPc, CalmWord, CalmIdle, CalmCommand, CalmReply,
     CalmDone, CalmKind, CalmNak, CalmBody

LEMMA CalmNabuOK == ASSUME Whole, Calm, CalmNabu PROVE Calm'
PROOF
<1>1. Nabu
  BY DEF CalmNabu, Nabu
<1>2. GatewayKept
  BY <1>1, NabuKeeps
<1> QED
  BY <1>2, RestartCalm, BeginCalm, PutCommandCalm, PutParamCalm, PutAckCalm, GetReplyCalm, GetDoneCalm,
     GetKindCalm, GetDataCalm, DropCalm DEF CalmNabu, NabuStep, NabuBegin
-----------------------------------------------------------------------------
LEMMA CalmInitOK == LineInit => CalmInv
PROOF
<1> SUFFICES ASSUME LineInit PROVE Calm
  BY DEF CalmInv
<1>1. /\ pc = "boot" /\ answer = "silence" /\ rx = <<>> /\ tx = <<>> /\ cmd = 131
      /\ stage = "command" /\ at = 0 /\ word = NoWord
  BY DEF LineInit, AdapterStart, NabuStart
<1> QED
  BY <1>1 DEF Calm, CalmPc, CalmWord, CalmIdle, CalmCommand, CalmReply, CalmDone,
     CalmKind, CalmNak, CalmBody, AcksOnly

LEMMA CalmStep == Whole /\ CalmInv /\ [LineNext]_line_vars => CalmInv'
PROOF
<1> SUFFICES ASSUME Whole, CalmInv, [LineNext]_line_vars, upsets' = 0 PROVE Calm'
  BY DEF CalmInv
<1>1. Calm
  BY WholeIs, CalmBefore DEF CalmInv
<1>2. CASE UNCHANGED line_vars
  <2>1. UNCHANGED <<pc, args, answer, body, sent, channelWord, channelValid, rx, tx,
                    cmd, params, stage, at, word, got, esc, packet, upsets>>
    BY <1>2 DEF line_vars, adapter_vars, nabu_vars
  <2>2. CalmPc' /\ CalmWord' /\ CalmIdle' /\ CalmCommand'
    BY <1>1, <2>1 DEF Calm, CalmPc, CalmWord, CalmIdle, CalmCommand, AcksOnly
  <2>3. CalmReply' /\ CalmDone' /\ CalmKind' /\ CalmNak' /\ CalmBody'
    BY <1>1, <2>1 DEF Calm, CalmReply, CommandComes, ReplyComes, CommandLost, CalledPc,
       CalmDone, CalmKind, Unserved, CalmNak, CalmBody
  <2> QED
    BY <2>2, <2>3 DEF Calm
<1> QED
  BY <1>1, <1>2, CalmSides, CalmGatewayOK, CalmNabuOK

\* As long as nothing upset the two, they are in step: what is on the line either way
\* is what the other side waits for next.
THEOREM CalmInvariant == LineSpec => [](Whole /\ CalmInv)
PROOF
<1>1. LineInit => Whole /\ CalmInv
  BY LineInitOK, CalmInitOK DEF Whole
<1>2. Whole /\ CalmInv /\ [LineNext]_line_vars => Whole' /\ CalmInv'
  BY LineStep, CalmStep DEF Whole
<1> QED
  BY <1>1, <1>2, PTL DEF LineSpec

\* Without upsets each byte the gateway reads is taken for what the NABU meant by it,
\* whatever it asks for, and however that is answered.
THEOREM StaysInStep == LineSpec => []InStep
PROOF
<1>1. Whole /\ CalmInv => InStep
  BY CalmInStep DEF CalmInv, InStep
<1> QED
  BY <1>1, CalmInvariant, PTL

\* The gateway then has the channel code the NABU got confirmed.
THEOREM ChannelCodesAgree == LineSpec => []ChannelAgreed
PROOF
<1>1. Whole /\ CalmInv => ChannelAgreed
  BY DEF CalmInv, Calm, CalmWord, ChannelAgreed
<1> QED
  BY <1>1, CalmInvariant, PTL

\* And the NABU starts over only from a packet request that was answered with silence,
\* or cut short.
THEOREM StartsOver == LineSpec => StartsOverForCause
PROOF
<1>1. ASSUME Whole, CalmInv, [LineNext]_line_vars, cmd' = 131, cmd \notin {131, Idle}
      PROVE  upsets' > 0 \/ answer \in {"silence", "aborted"}
  <2>1. upsets' \in Nat
    <3>1. upsets' \in 0 .. MaxUpsets
      BY <1>1, LineStep DEF Whole, LineTypes, NabuTypes
    <3> QED
      BY <3>1, NabuAssumption
  <2>2. SUFFICES ASSUME upsets' = 0 PROVE answer \in {"silence", "aborted"}
    BY <2>1
  <2>3. Calm
    BY <1>1, <2>2, WholeIs, CalmBefore DEF CalmInv
  <2>4. CalmNabu
    BY <1>1, <2>2, <2>3, CalmSides DEF CalmGateway, line_vars, nabu_vars
  <2>5. GiveUp \/ \E b : GetOther(b)
    BY <1>1, <2>4 DEF CalmNabu, NabuStep, NabuBegin, Begin, PutCommand, PutParam, PutAck, GetReply, GetDone,
       GetKind, GetData, Drop, Turn, Stay, EndCommand, Idle
  <2> QED
    BY <1>1, <2>3, <2>5, CalmRestarts DEF NotServed, CommandLost
<1>2. Whole /\ CalmInv /\ [LineNext]_line_vars =>
        [cmd' = 131 /\ cmd \notin {131, Idle} =>
           upsets' > 0 \/ answer \in {"silence", "aborted"}]_line_vars
  BY <1>1
<1> QED
  BY <1>2, CalmInvariant, PTL DEF LineSpec, StartsOverForCause
=============================================================================
