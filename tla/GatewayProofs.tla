---------------------------- MODULE GatewayProofs ----------------------------
(***************************************************************************)
(* Proofs about Gateway, for every set of files, requests, TIDs and sizes: *)
(* first what holds whatever the environment does wrong, then what it      *)
(* keeps and sends when nothing but the power goes wrong, for all sizes    *)
(* that SegmentBuffer and the block numbers can hold.                      *)
(***************************************************************************)
EXTENDS Gateway, TftpProofs, PacketizerProofs

\* The inductive invariant: until tftp_get stores its handle no transfer is
\* open, and handling_request is as handleRequest set it, for no callback that
\* could clear it runs.
GetBegun == pc = "get" /\ "handle" \in stores => ~handle /\ handling_request

OwnerInv == UartOwned /\ GetBegun

LEMMA OwnerStart == GatewayStart => OwnerInv
BY DEF GatewayStart, OwnerInv, UartOwned, GetBegun

LEMMA RequestOwner == OwnerInv /\ NabuRequest => OwnerInv'
PROOF
<1> SUFFICES ASSUME OwnerInv, NabuRequest PROVE OwnerInv'
  OBVIOUS
<1>1. handle' = handle
  BY DEF NabuRequest, engine_vars
<1>2. PICK r \in Requests :
        RequestTime(r) \/ RequestCached(r) \/ RequestSegment(r) \/ RequestPacket(r)
  BY DEF NabuRequest
<1>3. pc = "listen" /\ ~handle
  BY <1>2 DEF RequestTime, RequestCached, RequestSegment, RequestPacket, Asked,
              OwnerInv, UartOwned
<1>4. pc' = "get" => handling_request'
  BY <1>2, <1>3 DEF RequestTime, RequestCached, RequestSegment, RequestPacket, BeginGet
<1> QED
  BY <1>1, <1>3, <1>4 DEF OwnerInv, UartOwned, GetBegun

LEMMA MainOwner == OwnerInv /\ MainStep => OwnerInv'
PROOF
<1> SUFFICES ASSUME OwnerInv, MainStep PROVE OwnerInv'
  OBVIOUS
<1> USE DEF OwnerInv, UartOwned, GetBegun, engine_vars, ctx_vars
<1>1. CASE StoreHandle
  BY <1>1 DEF StoreHandle, Stored1, InGet, Quiet
<1>2. CASE StoreBlknum
  BY <1>2 DEF StoreBlknum, Stored1, InGet, Quiet
<1>3. CASE StoreMode
  BY <1>3 DEF StoreMode, Stored1, InGet, Quiet
<1>4. CASE SendRequest
  BY <1>4 DEF SendRequest, InGet, Quiet
<1>5. CASE GetFails
  BY <1>5 DEF GetFails, Quiet
<1>6. CASE FallBack
  BY <1>6 DEF FallBack, Polled, BeginGet
<1>7. CASE Finish
  BY <1>7 DEF Finish, Polled
<1> QED
  BY <1>1, <1>2, <1>3, <1>4, <1>5, <1>6, <1>7 DEF MainStep

\* A callback runs inside an open transfer; the one that clears
\* handling_request is the one after which the transfer is closed.
LEMMA ReceiveOwner == OwnerInv /\ Receive => OwnerInv'
PROOF
<1> SUFFICES ASSUME OwnerInv, Receive PROVE OwnerInv'
  OBVIOUS
<1>1. UNCHANGED <<pc, stores>>
  BY DEF Receive, main_vars
<1>2. PICK m \in net :
        \/ WriteBlock(m) \/ WriteLastRaw(m) \/ WriteLastSegment(m)
        \/ NotWritten(m) \/ TransferError(m) \/ StaleError(m)
  BY DEF Receive
<1> USE DEF OwnerInv, UartOwned, GetBegun
<1>3. CASE WriteBlock(m)
  BY <1>1, <1>3 DEF WriteBlock, DataNext, DataWanted
<1>4. CASE WriteLastRaw(m) \/ WriteLastSegment(m)
  BY <1>1, <1>4 DEF WriteLastRaw, WriteLastSegment, DataNext, DataWanted, CloseHandle
<1>5. CASE NotWritten(m)
  BY <1>1, <1>5 DEF NotWritten, DataUnwanted, DataRepeat, DataWrong, Rejected, Answered,
                    Connection, ctx_vars
<1>6. CASE TransferError(m)
  BY <1>1, <1>6 DEF TransferError, RecvError, CloseHandle
<1>7. CASE StaleError(m)
  BY <1>1, <1>7 DEF StaleError, RecvError, ctx_vars
<1> QED
  BY <1>2, <1>3, <1>4, <1>5, <1>6, <1>7

LEMMA OwnerStep == OwnerInv /\ [GatewayNext]_gateway_vars => OwnerInv'
PROOF
<1> SUFFICES ASSUME OwnerInv, [GatewayNext]_gateway_vars PROVE OwnerInv'
  OBVIOUS
<1>1. CASE Server \/ Fault \/ ServerTimeout \/ UNCHANGED gateway_vars
  BY <1>1 DEF Server, Fault, ServerTimeout, Unchanged, gateway_vars, engine_vars,
              main_vars, ctx_vars, OwnerInv, UartOwned, GetBegun
<1>2. CASE Reset
  BY <1>2 DEF Reset, OwnerInv, UartOwned, GetBegun
<1> QED
  BY <1>1, <1>2, RequestOwner, MainOwner, ReceiveOwner DEF GatewayNext

\* Whatever is lost, late or aborted on the network, no transfer is open while
\* the main loop listens: the callbacks never write to its UART or its buffer.
THEOREM UartIsOwned == GatewaySpec => []UartOwned
PROOF
<1>1. OwnerInv => UartOwned
  BY DEF OwnerInv
<1> QED
  BY OwnerStart, OwnerStep, <1>1, PTL DEF GatewaySpec
-----------------------------------------------------------------------------
\* What has been sent is a sequence, of whatever tokens.
IsSeq(s) == \E S : s \in Seq(S)

TurnInv == OwnerInv /\ IsSeq(uart)

LEMMA Extended ==
  ASSUME NEW s, NEW t, IsSeq(s), IsSeq(t)
  PROVE  IsSeq(s \o t) /\ PacketService!Prefix(s, s \o t)
<1>1. PICK S, T : s \in Seq(S) /\ t \in Seq(T)
  BY DEF IsSeq
<1>2. s \in Seq(S \cup T) /\ t \in Seq(S \cup T)
  BY <1>1
<1>3. s \o t \in Seq(S \cup T) /\ PacketService!Prefix(s, s \o t)
  BY <1>2 DEF PacketService!Prefix
<1> QED BY <1>3 DEF IsSeq

LEMMA Same ==
  ASSUME NEW s, IsSeq(s)
  PROVE  PacketService!Prefix(s, s)
BY DEF IsSeq, PacketService!Prefix

LEMMA Tuples ==
  /\ IsSeq(<<>>)
  /\ \A a : IsSeq(<<a>>)
  /\ \A a, b : IsSeq(<<a, b>>)
  /\ \A a, b, c : IsSeq(<<a, b, c>>)
<1>1. <<>> \in Seq({})
  OBVIOUS
<1>2. \A a : <<a>> \in Seq({a})
  OBVIOUS
<1>3. \A a, b : <<a, b>> \in Seq({a, b})
  OBVIOUS
<1>4. \A a, b, c : <<a, b, c>> \in Seq({a, b, c})
  OBVIOUS
<1> QED BY <1>1, <1>2, <1>3, <1>4 DEF IsSeq

\* What is sent without a fetch, by handleRequest or by tftp_close.
LEMMA AtOnceSent ==
  /\ \A packet : \A ack \in BOOLEAN :
       AtOnce(SendPacketized(packet, ack)) /\ IsSeq(SendPacketized(packet, ack))
  /\ \A seg, num, n, buf : \A ack \in BOOLEAN :
       /\ AtOnce(PacketizeSegment(seg, num, n, buf, ack))
       /\ IsSeq(PacketizeSegment(seg, num, n, buf, ack))
<1>1. AtOnce(<<>>) /\ IsSeq(<<>>)
  BY Tuples DEF AtOnce
<1>2. ASSUME NEW packet, NEW ack \in BOOLEAN
      PROVE  AtOnce(SendPacketized(packet, ack)) /\ IsSeq(SendPacketized(packet, ack))
  <2>1. AtOnce(<<Auth>>) /\ IsSeq(<<Auth>>)
    BY Tuples DEF AtOnce
  <2>2. AtOnce(<<Auth, packet, Epilog>>) /\ IsSeq(<<Auth, packet, Epilog>>)
    BY Tuples DEF AtOnce
  <2> QED BY <2>1, <2>2 DEF SendPacketized
<1> QED BY <1>1, <1>2 DEF PacketizeSegment

LEMMA RequestTurn ==
  0 \notin Segments /\ TurnInv /\ NabuRequest =>
    (PacketService!AskNow \/ PacketService!AskFetch) /\ IsSeq(uart)'
<1> SUFFICES ASSUME 0 \notin Segments, TurnInv, NabuRequest
             PROVE  (PacketService!AskNow \/ PacketService!AskFetch) /\ IsSeq(uart)'
  OBVIOUS
<1>1. PICK r \in Requests :
        RequestTime(r) \/ RequestCached(r) \/ RequestSegment(r) \/ RequestPacket(r)
  BY DEF NabuRequest
<1>2. CASE RequestTime(r) \/ RequestCached(r)
  <2>1. AtOnce(uart') /\ IsSeq(uart')
    BY <1>2, AtOnceSent DEF RequestTime, RequestCached
  <2>2. /\ pc = "listen" /\ pc' = "listen" /\ request' = r
        /\ PacketMode' = PacketMode /\ SegmentNumber' = SegmentNumber
    BY <1>2 DEF RequestTime, RequestCached, Asked
  <2>3. AtHand' = AtHand
    BY <2>2 DEF AtHand
  <2> QED BY <2>1, <2>2, <2>3 DEF PacketService!AskNow, AtOnce
<1>3. CASE RequestSegment(r) \/ RequestPacket(r)
  <2>1. /\ pc = "listen" /\ pc' = "get" /\ request' = r /\ uart' = <<>> /\ ~Cached(r)
        /\ SegmentNumber' = r.seg /\ PacketMode' = (r.pkt # 0)
    BY <1>3 DEF RequestSegment, RequestPacket, Asked, BeginGet, PacketOpen
  <2>2. r.seg # 0
    BY DEF Requests
  <2>3. AtHand # r.seg /\ AtHand' = IF r.pkt = 0 THEN r.seg ELSE 0
    BY <2>1, <2>2 DEF AtHand, Cached
  <2> QED BY <2>1, <2>3, Tuples DEF PacketService!AskFetch, PacketService!NoSegment
<1> QED BY <1>1, <1>2, <1>3

LEMMA MainTurn ==
  TurnInv /\ MainStep =>
    /\ [PacketService!TurnsNext]_(PacketService!service_vars)
    /\ IsSeq(uart)'
<1> SUFFICES ASSUME TurnInv, MainStep
             PROVE  /\ [PacketService!TurnsNext]_(PacketService!service_vars)
                    /\ IsSeq(uart)'
  OBVIOUS
<1>1. CASE StoreHandle \/ StoreBlknum \/ StoreMode \/ SendRequest \/ GetFails
  <2>1. UNCHANGED <<uart, request, PacketMode, SegmentNumber>>
    BY <1>1 DEF StoreHandle, StoreBlknum, StoreMode, SendRequest, GetFails, Quiet, ctx_vars
  <2>2. pc # "listen" /\ pc' # "listen"
    BY <1>1 DEF StoreHandle, StoreBlknum, StoreMode, SendRequest, GetFails, Stored1, InGet
  <2> QED BY <2>1, <2>2 DEF PacketService!service_vars, AtHand, TurnInv
<1>2. CASE FallBack
  <2>1. /\ pc = "wait" /\ pc' = "get" /\ PacketMode' = TRUE
        /\ UNCHANGED <<uart, request>>
    BY <1>2 DEF FallBack, Polled, BeginGet, PacketOpen
  <2>2. AtHand' = 0 /\ PacketService!Prefix(uart, uart')
    BY <2>1, Same DEF AtHand, TurnInv
  <2> QED BY <2>1, <2>2 DEF PacketService!TurnsNext, PacketService!SendMore,
             PacketService!Go, PacketService!NoSegment, TurnInv
<1>3. CASE Finish
  <2>1. /\ pc = "wait" /\ pc' = "listen"
        /\ UNCHANGED <<request, PacketMode, SegmentNumber>>
        /\ uart' = uart \/ uart' = uart \o <<Refuse>>
    <3>1. IsSeq(uart) => Append(uart, Refuse) = uart \o <<Refuse>>
      BY DEF IsSeq
    <3> QED BY <1>3, <3>1 DEF Finish, Polled, TurnInv
  <2>2. PacketService!Prefix(uart, uart') /\ IsSeq(uart')
    BY <2>1, Same, Extended, Tuples DEF TurnInv
  <2>3. AtHand' = AtHand
    BY <2>1 DEF AtHand
  <2> QED BY <2>1, <2>2, <2>3 DEF PacketService!TurnsNext, PacketService!SendLast,
             PacketService!Go
<1> QED BY <1>1, <1>2, <1>3 DEF MainStep

\* What a callback sends is added to the answer of the request being served.
LEMMA ReceiveTurn ==
  TurnInv /\ Receive =>
    /\ [PacketService!TurnsNext]_(PacketService!service_vars)
    /\ IsSeq(uart)'
<1> SUFFICES ASSUME TurnInv, Receive
             PROVE  /\ [PacketService!TurnsNext]_(PacketService!service_vars)
                    /\ IsSeq(uart)'
  OBVIOUS
<1>1. UNCHANGED <<pc, request>>
  BY DEF Receive, main_vars
<1>2. PICK m \in net :
        \/ WriteBlock(m) \/ WriteLastRaw(m) \/ WriteLastSegment(m)
        \/ NotWritten(m) \/ TransferError(m) \/ StaleError(m)
  BY DEF Receive
<1>3. IsSeq(uart)
  BY DEF TurnInv
<1>4. CASE NotWritten(m) \/ TransferError(m) \/ StaleError(m)
  <2>1. UNCHANGED <<uart, PacketMode, SegmentNumber>>
    BY <1>4 DEF NotWritten, TransferError, StaleError, ctx_vars
  <2> QED BY <1>1, <1>3, <2>1 DEF PacketService!service_vars, AtHand
<1>5. CASE WriteBlock(m) \/ WriteLastRaw(m) \/ WriteLastSegment(m)
  <2>1. pc # "listen"
    BY <1>5 DEF WriteBlock, WriteLastRaw, WriteLastSegment, DataNext, DataWanted,
                TurnInv, OwnerInv, UartOwned
  <2>2. \A bytes : IsSeq(WriteRaw(bytes))
    BY Tuples DEF WriteRaw
  <2>3. PacketService!Prefix(uart, uart') /\ IsSeq(uart')
    <3>1. CASE WriteBlock(m)
      BY <1>3, <2>2, <3>1, Same, Extended DEF WriteBlock
    <3>2. CASE WriteLastRaw(m)
      <4>1. PICK more : IsSeq(more) /\
              uart' = uart \o WriteRaw(BlockBytes(m.file, m.blk)) \o more
        BY <3>2, Tuples DEF WriteLastRaw
      <4>2. PICK all : IsSeq(all) /\ uart' = uart \o all
        <5>1. \A S, T, U : \A a \in Seq(S), b \in Seq(T), c \in Seq(U) :
                 a \o b \o c = a \o (b \o c)
          <6>1. ASSUME NEW S, NEW T, NEW U, NEW a \in Seq(S), NEW b \in Seq(T), NEW c \in Seq(U)
                PROVE  a \o b \o c = a \o (b \o c)
            <7>1. /\ a \in Seq(S \cup T \cup U) /\ b \in Seq(S \cup T \cup U)
                  /\ c \in Seq(S \cup T \cup U)
              OBVIOUS
            <7> QED BY <7>1
          <6> QED BY <6>1
        <5> DEFINE raw == WriteRaw(BlockBytes(m.file, m.blk))
        <5>2. IsSeq(raw) /\ IsSeq(more) /\ IsSeq(uart) /\ uart' = uart \o raw \o more
          BY <1>3, <2>2, <4>1
        <5> HIDE DEF raw
        <5>3. uart' = uart \o (raw \o more)
          BY <5>1, <5>2 DEF IsSeq
        <5> QED BY <5>2, <5>3, Extended
      <4> QED BY <1>3, <4>2, Extended
    <3>3. CASE WriteLastSegment(m)
      <4>1. uart' = uart \/ \E more : IsSeq(more) /\ uart' = uart \o more
        BY <3>3, Tuples, AtOnceSent DEF WriteLastSegment
      <4> QED BY <1>3, <4>1, Same, Extended
    <3> QED BY <1>5, <3>1, <3>2, <3>3
  <2>4. AtHand' = AtHand
    <3>1. /\ PacketMode' = PacketMode
          /\ SegmentNumber' = SegmentNumber \/ PacketMode
      BY <1>5 DEF WriteBlock, WriteLastRaw, WriteLastSegment
    <3> QED BY <3>1 DEF AtHand
  <2> QED BY <1>1, <2>1, <2>3, <2>4 DEF PacketService!TurnsNext, PacketService!SendMore,
             PacketService!Go
<1> QED BY <1>2, <1>4, <1>5

LEMMA TurnStep ==
  0 \notin Segments /\ TurnInv /\ [GatewayNext]_gateway_vars =>
    TurnInv' /\ [PacketService!TurnsNext]_(PacketService!service_vars)
<1> SUFFICES ASSUME 0 \notin Segments, TurnInv, [GatewayNext]_gateway_vars
             PROVE  TurnInv' /\ [PacketService!TurnsNext]_(PacketService!service_vars)
  OBVIOUS
<1>1. OwnerInv'
  BY OwnerStep DEF TurnInv
<1>2. CASE Server \/ Fault \/ ServerTimeout \/ UNCHANGED gateway_vars
  <2>1. UNCHANGED <<pc, request, uart, PacketMode, SegmentNumber>>
    BY <1>2 DEF Server, Fault, ServerTimeout, Unchanged, gateway_vars, main_vars, ctx_vars
  <2> QED BY <1>1, <2>1 DEF TurnInv, PacketService!service_vars, AtHand
<1>3. CASE Reset
  <2>1. pc' = "listen" /\ request' = NoRequest /\ uart' = <<>> /\ AtHand' = 0
    BY <1>3 DEF Reset, ResetCache, AtHand
  <2> QED BY <1>1, <2>1, Tuples DEF TurnInv, PacketService!TurnsNext, PacketService!Restart,
             PacketService!NoSegment
<1> QED BY <1>1, <1>2, <1>3, RequestTurn, MainTurn, ReceiveTurn
           DEF GatewayNext, TurnInv, PacketService!TurnsNext

\* The gateway implements the turns of Service, for every set of files and
\* requests (segment 0, the code's mark for none, is no segment), whatever is
\* lost, late, aborted or reset.
THEOREM GatewayTakesTurns == 0 \notin Segments /\ GatewaySpec => TakesTurns
<1> SUFFICES ASSUME 0 \notin Segments PROVE GatewaySpec => TakesTurns
  OBVIOUS
<1>1. GatewayStart => TurnInv /\ PacketService!ServiceStart
  BY OwnerStart, Tuples DEF GatewayStart, TurnInv, PacketService!ServiceStart,
     PacketService!NoSegment, AtHand
<1>2. TurnInv /\ [GatewayNext]_gateway_vars =>
        TurnInv' /\ [PacketService!TurnsNext]_(PacketService!service_vars)
  BY TurnStep
<1> QED BY <1>1, <1>2, PTL DEF GatewaySpec, TakesTurns, PacketService!TurnsSpec

-----------------------------------------------------------------------------
\* The engine is a client's, and block numbers suffice for the files.
Fitting == "client" \in Modes /\ \A f \in DOMAIN Stored : LastBlock(f) \in Blk

\* A server's transfer and each of its blocks under way are of a stored file.
NetOK ==
  \A m \in net :
    /\ m.op \in {"DATA", "SERVER_ERROR"} => m.tid \in Peers
    /\ m.op = "DATA" => m.file \in DOMAIN Stored /\ m.blk \in 1 .. LastBlock(m.file)

SessionOK ==
  /\ session \in [Peers -> [file : DOMAIN Stored \cup {NoFile}, blk : Nat]]
  /\ \A t \in Peers : session[t] # Idle =>
       session[t].file \in DOMAIN Stored /\ session[t].blk \in 1 .. LastBlock(session[t].file)

GatewayInv == GatewayTypeOK /\ NetOK /\ SessionOK

LEMMA DivMod ==
  ASSUME NEW a \in Nat, NEW b \in Nat \ {0}
  PROVE  /\ a \div b \in Nat /\ a % b \in 0 .. b - 1
         /\ (a \div b) * b <= a /\ a < (a \div b) * b + b
OBVIOUS

LEMMA Blocks ==
  ASSUME NEW f \in DOMAIN Stored
  PROVE  /\ LastBlock(f) \in Nat \ {0} /\ Stored[f] \in Nat
         /\ (LastBlock(f) - 1) * BLOCK <= Stored[f]
<1>1. Stored[f] \in Nat /\ BLOCK \in Nat \ {0}
  BY FilesAssumption, SizesAssumption
<1>2. Stored[f] \div BLOCK \in Nat /\ (Stored[f] \div BLOCK) * BLOCK <= Stored[f]
  BY <1>1, DivMod
<1>3. LastBlock(f) - 1 = Stored[f] \div BLOCK
  BY <1>2 DEF LastBlock
<1> QED BY <1>1, <1>2, <1>3 DEF LastBlock

\* A block is a sequence of bytes of its file.
LEMMA BlockIsBytes ==
  ASSUME NEW f \in DOMAIN Stored, NEW b \in 1 .. LastBlock(f)
  PROVE  BlockBytes(f, b) \in Seq(Bytes)
<1> DEFINE lo == (b - 1) * BLOCK
           hi == IF b = LastBlock(f) THEN Stored[f] ELSE b * BLOCK
<1>1. lo \in Nat /\ hi \in Nat /\ lo <= hi
  <2>1. BLOCK \in Nat \ {0} /\ b \in Nat \ {0}
    BY Blocks, SizesAssumption
  <2>2. b * BLOCK = (b - 1) * BLOCK + BLOCK /\ (b - 1) * BLOCK \in Nat
    BY <2>1
  <2> QED BY <2>1, <2>2, Blocks
<1>2. f \in Files
  BY FilesAssumption
<1>3. BlockBytes(f, b) = [k \in 1 .. hi - lo |-> <<f, lo + k - 1>>]
  BY DEF BlockBytes, FileBytes
<1> HIDE DEF lo, hi
<1>4. \A k \in 1 .. hi - lo : <<f, lo + k - 1>> \in Bytes
  <2> SUFFICES ASSUME NEW k \in 1 .. hi - lo PROVE <<f, lo + k - 1>> \in Bytes
    OBVIOUS
  <2>1. lo + k - 1 \in Nat
    BY <1>1
  <2> QED BY <1>2, <2>1 DEF Bytes
<1>5. hi - lo \in Nat
  BY <1>1
<1> QED BY <1>3, <1>4, <1>5

\* SegmentBuffer[SegmentWritePtr++] stays within the buffer.
LEMMA WriteSegmentOK ==
  ASSUME GatewayTypeOK, NEW bytes \in Seq(Bytes), WriteSegment(bytes)
  PROVE  /\ SegmentWritePtr' \in 0 .. MAXSEGMENTSIZE - 1
         /\ SegmentBuffer' \in [0 .. MAXSEGMENTSIZE - 1 -> Bytes]
<1>1. SegmentWritePtr \in Nat /\ MAXSEGMENTSIZE \in Nat \ {0} /\ Len(bytes) \in Nat
  BY PacketizerAssumption DEF GatewayTypeOK
<1>2. SegmentWritePtr' \in 0 .. MAXSEGMENTSIZE - 1
  <2>1. SegmentWritePtr + Len(bytes) \in Nat
    BY <1>1
  <2> QED BY <1>1, <2>1, DivMod DEF WriteSegment
<1>3. ASSUME NEW j \in 0 .. MAXSEGMENTSIZE - 1
      PROVE  (IF (j - SegmentWritePtr) % MAXSEGMENTSIZE < Len(bytes)
              THEN bytes[((j - SegmentWritePtr) % MAXSEGMENTSIZE) + 1] ELSE SegmentBuffer[j])
             \in Bytes
  <2> DEFINE k == (j - SegmentWritePtr) % MAXSEGMENTSIZE
  <2>1. k \in Nat
    BY <1>1
  <2>2. SegmentBuffer[j] \in Bytes
    BY DEF GatewayTypeOK
  <2> HIDE DEF k
  <2>3. k < Len(bytes) => bytes[k + 1] \in Bytes
    BY <1>1, <2>1
  <2> QED BY <2>2, <2>3 DEF k
<1> QED BY <1>2, <1>3 DEF WriteSegment

LEMMA TypeStart == Fitting /\ GatewayStart => GatewayInv
<1> SUFFICES ASSUME Fitting, GatewayStart PROVE GatewayInv
  OBVIOUS
<1>1. TftpTypeOK
  <2>1. 0 \in 0 .. TimerPool
    BY TimeoutAssumption
  <2>2. tftp_mode \in Modes \cup {"off"}
    BY DEF GatewayStart, Fitting
  <2> QED BY <2>1, <2>2, Ranges, Zeroes DEF GatewayStart, TftpTypeOK
<1>2. Junk \in Bytes
  BY DEF Junk, Bytes
<1>3. 0 \in 0 .. MAXSEGMENTSIZE - 1
  BY PacketizerAssumption
<1>4. GatewayTypeOK
  BY <1>1, <1>2, <1>3 DEF GatewayStart, GatewayTypeOK
<1>5. NetOK
  BY DEF GatewayStart, NetOK
<1>6. SessionOK
  BY DEF GatewayStart, SessionOK, Idle
<1> QED BY <1>4, <1>5, <1>6 DEF GatewayInv

\* A step of the main loop leaves most of the engine alone.
LEMMA RequestType == GatewayInv /\ NabuRequest => GatewayInv'
<1> SUFFICES ASSUME GatewayInv, NabuRequest PROVE GatewayInv'
  OBVIOUS
<1>1. PICK r \in Requests :
        RequestTime(r) \/ RequestCached(r) \/ RequestSegment(r) \/ RequestPacket(r)
  BY DEF NabuRequest
<1>2. UNCHANGED <<engine_vars, net, session>> /\ reply' = NoReply
  BY DEF NabuRequest
<1>3. TftpTypeOK'
  BY <1>2, Zeroes DEF GatewayInv, GatewayTypeOK, TftpTypeOK, engine_vars
<1>4. r.seg \in Segments /\ r.pkt \in Packets /\ 0 \in 0 .. MAXSEGMENTSIZE - 1
  BY PacketizerAssumption DEF Requests
<1>5. /\ pc' \in {"listen", "get", "wait"} /\ phase' \in {"nabu", "pak"}
      /\ stores' \subseteq TftpStores /\ request' \in Requests \cup {NoRequest}
      /\ handling_request' \in BOOLEAN /\ request_handled' \in BOOLEAN
      /\ PacketMode' \in BOOLEAN /\ PacketPrologSent' \in BOOLEAN
      /\ SegmentNumber' \in Segments \cup {0}
      /\ SegmentWritePtr' \in 0 .. MAXSEGMENTSIZE - 1
      /\ SegmentBuffer' = SegmentBuffer
      /\ PacketNumber' \in Packets \cup {0}
  <2>1. CASE RequestTime(r)
    BY <2>1 DEF RequestTime, Asked, GatewayInv, GatewayTypeOK
  <2>2. CASE RequestCached(r)
    BY <2>2, <1>4 DEF RequestCached, Asked, GatewayInv, GatewayTypeOK
  <2>3. CASE RequestSegment(r)
    BY <2>3, <1>4 DEF RequestSegment, Asked, BeginGet, GatewayInv, GatewayTypeOK
  <2>4. CASE RequestPacket(r)
    BY <2>4, <1>4 DEF RequestPacket, Asked, BeginGet, PacketOpen, GatewayInv, GatewayTypeOK
  <2> QED BY <1>1, <2>1, <2>2, <2>3, <2>4
<1> QED BY <1>2, <1>3, <1>5 DEF GatewayInv, GatewayTypeOK, NetOK, SessionOK

LEMMA MainType == GatewayInv /\ MainStep => GatewayInv'
<1> SUFFICES ASSUME GatewayInv, MainStep PROVE GatewayInv'
  OBVIOUS
<1>1. session' = session /\ reply' = NoReply
  BY DEF MainStep, StoreHandle, StoreBlknum, StoreMode, SendRequest, GetFails, FallBack,
         Finish, Quiet, engine_vars
<1>2. TftpTypeOK'
  <2>1. TftpTypeOK /\ 0 \in Blk /\ 1 \in Blk /\ {} \subseteq Peers
    BY Ranges DEF GatewayInv, GatewayTypeOK
  <2>2. CASE StoreHandle
    BY <1>1, <2>1, <2>2, Zeroes DEF StoreHandle, TftpTypeOK
  <2>3. CASE StoreBlknum
    BY <1>1, <2>1, <2>3, Zeroes DEF StoreBlknum, TftpTypeOK
  <2>4. CASE StoreMode
    BY <1>1, <2>1, <2>4, Zeroes DEF StoreMode, TftpTypeOK
  <2>5. CASE SendRequest \/ GetFails \/ FallBack \/ Finish
    <3>1. UNCHANGED engine_vars
      BY <2>5 DEF SendRequest, GetFails, FallBack, Finish
    <3> QED BY <1>1, <2>1, <3>1, Zeroes DEF engine_vars, TftpTypeOK
  <2> QED BY <2>2, <2>3, <2>4, <2>5 DEF MainStep
<1>3. GatewayTypeOK'
  <2>1. CASE StoreHandle \/ StoreBlknum \/ StoreMode \/ SendRequest \/ GetFails
    <3>1. /\ UNCHANGED <<ctx_vars, phase, request>> /\ pc' \in {pc, "wait"}
          /\ stores' \subseteq stores
      BY <2>1 DEF StoreHandle, StoreBlknum, StoreMode, SendRequest, GetFails, Stored1, Quiet
    <3> QED BY <1>2, <3>1 DEF GatewayInv, GatewayTypeOK, ctx_vars
  <2>2. CASE FallBack
    <3>1. 0 \in 0 .. MAXSEGMENTSIZE - 1
      BY PacketizerAssumption
    <3> QED BY <1>2, <2>2, <3>1 DEF FallBack, BeginGet, PacketOpen, GatewayInv, GatewayTypeOK
  <2>3. CASE Finish
    BY <1>2, <2>3 DEF Finish, GatewayInv, GatewayTypeOK
  <2> QED BY <2>1, <2>2, <2>3 DEF MainStep
<1>4. NetOK'
  <2>1. \A m \in net' : m \in net \/ m = ReadRequest(Wanted)
    BY DEF MainStep, StoreHandle, StoreBlknum, StoreMode, SendRequest, GetFails, FallBack, Finish
  <2> QED BY <2>1 DEF GatewayInv, NetOK, ReadRequest, Message
<1> QED BY <1>1, <1>3, <1>4 DEF GatewayInv, SessionOK

LEMMA ReceiveType == Fitting /\ GatewayInv /\ Receive => GatewayInv'
<1> SUFFICES ASSUME Fitting, GatewayInv, Receive PROVE GatewayInv'
  OBVIOUS
<1>1. PICK m \in net :
        /\ \/ /\ m.op = "DATA"
              /\ WriteBlock(m) \/ WriteLastRaw(m) \/ WriteLastSegment(m) \/ NotWritten(m)
           \/ m.op = "SERVER_ERROR" /\ (TransferError(m) \/ StaleError(m))
        /\ Received(m) /\ UNCHANGED <<main_vars, session>>
  BY DEF Receive
<1>2. m.tid \in Peers
  BY <1>1 DEF GatewayInv, NetOK
<1>3. m.op = "DATA" => m.file \in DOMAIN Stored /\ m.blk \in 1 .. LastBlock(m.file)
  BY <1>1 DEF GatewayInv, NetOK
<1>b. m.op = "DATA" => m.blk \in Blk
  <2> SUFFICES ASSUME m.op = "DATA" PROVE m.blk \in Blk
    OBVIOUS
  <2>1. LastBlock(m.file) \in 0 .. BlkMod - 1 /\ m.blk \in 1 .. LastBlock(m.file)
    BY <1>3 DEF Fitting, Blk
  <2> QED BY <2>1, BlkModAssumption DEF Blk
<1>4. \E p \in Peers : Recv(p)
  <2> HIDE DEF Blk
  <2>1. CASE m.op = "DATA" /\ (WriteBlock(m) \/ WriteLastRaw(m) \/ WriteLastSegment(m))
    <3>1. \E full \in BOOLEAN : DataNext(m.tid, m.blk, full)
      BY <2>1 DEF WriteBlock, WriteLastRaw, WriteLastSegment
    <3> QED BY <1>2, <1>b, <2>1, <3>1 DEF Recv
  <2>2. CASE m.op = "DATA" /\ NotWritten(m)
    BY <1>2, <1>b, <2>2 DEF NotWritten, Recv
  <2>3. CASE TransferError(m) \/ StaleError(m)
    BY <1>2, <2>3 DEF TransferError, StaleError, Recv
  <2> QED BY <1>1, <2>1, <2>2, <2>3
<1>5. TftpTypeOK'
  BY <1>4, TypeStep DEF GatewayInv, GatewayTypeOK, TftpNext
<1>6. GatewayTypeOK'
  <2> USE DEF GatewayInv
  <2>1. UNCHANGED <<pc, phase, stores, request>>
    BY <1>1 DEF main_vars
  <2>2. CASE NotWritten(m) \/ StaleError(m) \/ TransferError(m)
    BY <1>5, <2>1, <2>2
       DEF NotWritten, StaleError, TransferError, CtxError, ctx_vars, GatewayTypeOK
  <2>3. CASE m.op = "DATA" /\ (WriteBlock(m) \/ WriteLastRaw(m) \/ WriteLastSegment(m))
    <3>1. BlockBytes(m.file, m.blk) \in Seq(Bytes)
      BY <1>3, <2>3, BlockIsBytes
    <3>2. /\ SegmentWritePtr' \in 0 .. MAXSEGMENTSIZE - 1
          /\ SegmentBuffer' \in [0 .. MAXSEGMENTSIZE - 1 -> Bytes]
      <4>1. \/ WriteSegment(BlockBytes(m.file, m.blk))
            \/ UNCHANGED <<SegmentWritePtr, SegmentBuffer>>
        BY <2>3 DEF WriteBlock, WriteLastRaw, WriteLastSegment
      <4> QED BY <3>1, <4>1, WriteSegmentOK DEF GatewayTypeOK
    <3>3. /\ handling_request' \in BOOLEAN /\ request_handled' \in BOOLEAN
          /\ PacketMode' \in BOOLEAN /\ PacketPrologSent' \in BOOLEAN
          /\ SegmentNumber' \in Segments \cup {0} /\ PacketNumber' \in Packets \cup {0}
      <4>1. CASE WriteBlock(m)
        BY <4>1 DEF WriteBlock, GatewayTypeOK
      <4>2. CASE WriteLastRaw(m)
        BY <4>2 DEF WriteLastRaw, GatewayTypeOK, Closing
      <4>3. CASE WriteLastSegment(m)
        BY <4>3 DEF WriteLastSegment, GatewayTypeOK
      <4> QED BY <2>3, <4>1, <4>2, <4>3
    <3> QED BY <1>5, <2>1, <3>2, <3>3 DEF GatewayTypeOK
  <2> QED BY <1>1, <2>2, <2>3
<1>7. NetOK'
  <2>1. reply' = NoReply \/ reply'.op \in {"ACK", "ERROR"}
    <3>1. \/ \E full \in BOOLEAN : DataNext(m.tid, m.blk, full)
          \/ NotWritten(m) \/ RecvError(m.tid)
      BY <1>1 DEF WriteBlock, WriteLastRaw, WriteLastSegment, TransferError, StaleError
    <3> QED BY <3>1 DEF DataNext, NotWritten, RecvError, DataUnwanted, DataRepeat, DataWrong,
               Rejected, Answered, Send, Datagram
  <2>2. \A x \in net' : x \in net \/ x.op \in {"ACK", "ERROR"}
    BY <1>1, <2>1 DEF Received, Message
  <2> QED BY <2>2 DEF GatewayInv, NetOK
<1>8. SessionOK'
  BY <1>1 DEF GatewayInv, SessionOK
<1> QED BY <1>6, <1>7, <1>8 DEF GatewayInv

LEMMA ServerType == GatewayInv /\ (Server \/ Fault \/ ServerTimeout) => GatewayInv'
<1> SUFFICES ASSUME GatewayInv, Server \/ Fault \/ ServerTimeout PROVE GatewayInv'
  OBVIOUS
<1>1. reply' = NoReply /\ UNCHANGED <<engine_vars, main_vars, ctx_vars>>
  BY DEF Server, Fault, ServerTimeout, Unchanged
<1>2. GatewayTypeOK'
  BY <1>1, Zeroes DEF GatewayInv, GatewayTypeOK, TftpTypeOK, engine_vars, main_vars, ctx_vars
<1>3. NetOK /\ SessionOK
  BY DEF GatewayInv
\* A transfer that begins or goes on, and its datagram.
<1>4. ASSUME NEW t \in Peers, NEW f \in DOMAIN Stored, NEW b \in 1 .. LastBlock(f)
      PROVE  /\ [file |-> f, blk |-> b] \in [file : DOMAIN Stored \cup {NoFile}, blk : Nat]
             /\ [session EXCEPT ![t] = [file |-> f, blk |-> b]] = session' => SessionOK'
             /\ (\A x \in net' : x \in net \/ x = DataMessage(t, b, f)) => NetOK'
  <2>1. LastBlock(f) \in Nat
    BY Blocks
  <2> QED BY <1>3, <1>4, <2>1 DEF SessionOK, NetOK, DataMessage, Message
<1>5. ASSUME NEW t \in Peers
      PROVE  /\ session' = [session EXCEPT ![t] = Idle] => SessionOK'
             /\ (\A x \in net' : x \in net \/ x = ErrorFrom(t)) => NetOK'
  <2>1. Idle \in [file : DOMAIN Stored \cup {NoFile}, blk : Nat]
    BY DEF Idle
  <2> QED BY <1>3, <1>5, <2>1 DEF SessionOK, NetOK, ErrorFrom, Message
<1>6. session' = session => SessionOK'
  BY <1>3 DEF SessionOK
<1>7. net' \subseteq net => NetOK'
  BY <1>3 DEF NetOK
<1>8. ASSUME NEW t \in Peers, NEW m \in net, Serve(t, m) PROVE NetOK' /\ SessionOK'
  <2>1. CASE m.op = "RRQ" /\ m.file \in DOMAIN Stored /\ session[t] = Idle
    <3>1. 1 \in 1 .. LastBlock(m.file)
      BY <2>1, Blocks
    <3> QED BY <1>4, <1>8, <2>1, <3>1 DEF Serve
  <2>2. CASE m.op = "RRQ" /\ m.file \notin DOMAIN Stored
    BY <1>5, <1>6, <1>8, <2>2 DEF Serve
  <2>3. CASE m.op = "ACK"
    <3> DEFINE s == session[t]
    <3>1. CASE s = Idle \/ m.blk # s.blk
      BY <1>6, <1>7, <1>8, <2>3, <3>1 DEF Serve
    <3>2. CASE ~(s = Idle \/ m.blk # s.blk) /\ s.blk = LastBlock(s.file)
      BY <1>5, <1>7, <1>8, <2>3, <3>2 DEF Serve
    <3>3. CASE ~(s = Idle \/ m.blk # s.blk) /\ s.blk # LastBlock(s.file)
      <4>1. s.file \in DOMAIN Stored /\ s.blk + 1 \in 1 .. LastBlock(s.file)
        BY <1>3, <3>3, Blocks DEF SessionOK
      <4>2. /\ session' = [session EXCEPT ![t].blk = s.blk + 1]
            /\ net' = (net \ {m}) \cup {DataMessage(t, s.blk + 1, s.file)}
        BY <1>8, <2>3, <3>3 DEF Serve
      <4>3. NetOK'
        <5>1. \A x \in net' : x \in net \/ x = DataMessage(t, s.blk + 1, s.file)
          BY <4>2
        <5> HIDE DEF s
        <5> QED BY <1>4, <4>1, <5>1
      <4>4. SessionOK'
        <5>1. session' \in [Peers -> [file : DOMAIN Stored \cup {NoFile}, blk : Nat]]
          BY <1>3, <4>1, <4>2, Blocks DEF SessionOK
        <5>2. /\ session'[t].file = s.file /\ session'[t].blk = s.blk + 1
              /\ \A u \in Peers \ {t} : session'[u] = session[u]
          BY <1>3, <4>2 DEF SessionOK
        <5> QED BY <1>3, <4>1, <5>1, <5>2 DEF SessionOK
      <4> QED BY <4>3, <4>4
    <3> QED BY <3>1, <3>2, <3>3
  <2>4. CASE m.op = "ERROR"
    BY <1>5, <1>7, <1>8, <2>4 DEF Serve
  <2> QED BY <1>8, <2>1, <2>2, <2>3, <2>4 DEF Serve
<1>9. CASE Server
  BY <1>2, <1>8, <1>9 DEF Server, GatewayInv
<1>10. CASE Fault
  <2>1. ASSUME NEW m \in net, Lose(m) PROVE NetOK' /\ SessionOK'
    BY <1>6, <1>7, <2>1 DEF Lose
  <2>2. ASSUME NEW t \in Peers, Retransmit(t) PROVE NetOK' /\ SessionOK'
    <3>1. session[t].file \in DOMAIN Stored /\ session[t].blk \in 1 .. LastBlock(session[t].file)
      BY <1>3, <2>2 DEF Retransmit, SessionOK
    <3> QED BY <1>4, <1>6, <2>2, <3>1 DEF Retransmit
  <2>3. ASSUME NEW t \in Peers, Abort(t) PROVE NetOK' /\ SessionOK'
    BY <1>5, <2>3 DEF Abort
  <2> QED BY <1>2, <1>10, <2>1, <2>2, <2>3 DEF Fault, GatewayInv
<1>11. CASE ServerTimeout
  BY <1>2, <1>5, <1>7, <1>11 DEF ServerTimeout, GiveUp, GatewayInv
<1> QED BY <1>9, <1>10, <1>11

LEMMA GatewayTypeStep ==
  Fitting /\ GatewayInv /\ [GatewayNext]_gateway_vars => GatewayInv'
<1> SUFFICES ASSUME Fitting, GatewayInv, [GatewayNext]_gateway_vars PROVE GatewayInv'
  OBVIOUS
<1>1. CASE Reset
  <2>1. 0 \in 0 .. MAXSEGMENTSIZE - 1 /\ Junk \in Bytes /\ 0 \in 0 .. TimerPool
    BY PacketizerAssumption, TimeoutAssumption DEF Junk, Bytes
  <2>2. TftpTypeOK'
    BY <1>1, <2>1, Ranges, Zeroes DEF Reset, TftpTypeOK, Fitting
  <2> QED BY <1>1, <2>1, <2>2 DEF Reset, ResetCache, GatewayInv, GatewayTypeOK, NetOK, SessionOK
<1>2. CASE UNCHANGED gateway_vars
  BY <1>2 DEF gateway_vars, engine_vars, main_vars, ctx_vars, GatewayInv, GatewayTypeOK,
              TftpTypeOK, NetOK, SessionOK
<1> QED BY <1>1, <1>2, RequestType, MainType, ReceiveType, ServerType DEF GatewayNext

\* The globals of wifi.c, packet.c and tftp.c are always of their types, and
\* no byte is written outside SegmentBuffer, whatever files the server has (of
\* fewer than 2^16 blocks) and whatever is lost, repeated, aborted or reset.
THEOREM GatewayTypeCorrect == Fitting /\ GatewaySpec => []GatewayTypeOK
<1> SUFFICES ASSUME Fitting PROVE GatewaySpec => []GatewayTypeOK
  OBVIOUS
<1>1. GatewayStart => GatewayInv
  BY TypeStart
<1>2. GatewayInv /\ [GatewayNext]_gateway_vars => GatewayInv'
  BY GatewayTypeStep
<1>3. GatewayInv => GatewayTypeOK
  BY DEF GatewayInv
<1> QED BY <1>1, <1>2, <1>3, PTL DEF GatewaySpec

-----------------------------------------------------------------------------
\* The assumptions: no datagram is lost, repeated or aborted, the engine starts,
\* 0 is no segment, and every segment fits SegmentBuffer with its 16-bit size.
Calm ==
  /\ Faults \subseteq {"reset"} /\ 0 \notin Segments /\ Fitting
  /\ \A seg \in Segments : Nabu(seg) \in DOMAIN Stored => Stored[Nabu(seg)] < MAXSEGMENTSIZE

-----------------------------------------------------------------------------
\* The inductive invariant.  A datagram under way is the last ACK of a transfer
\* that is over for the gateway, or the one that moves the open transfer on.
Over(m) ==
  /\ m.tid \in Peers /\ session[m.tid] # Idle
  /\ m.blk = session[m.tid].blk /\ m.blk = LastBlock(session[m.tid].file)
  /\ m = Message("ACK", m.tid, m.blk, NoFile)

FreshData(m) ==
  /\ m.tid \in Peers /\ Wanted \in DOMAIN Stored
  /\ session[m.tid] = [file |-> Wanted, blk |-> blknum]
  /\ m = DataMessage(m.tid, blknum, Wanted)

FreshAck(m) ==
  /\ m.tid \in Peers /\ Wanted \in DOMAIN Stored /\ blknum # 1
  /\ session[m.tid] = [file |-> Wanted, blk |-> blknum - 1]
  /\ m = Message("ACK", m.tid, blknum - 1, NoFile)

Fresh(m) ==
  \/ m = ReadRequest(Wanted) /\ blknum = 1
  \/ FreshData(m) \/ FreshAck(m)
  \/ m.tid \in Peers /\ Wanted \notin DOMAIN Stored /\ m = ErrorFrom(m.tid)

NetInv ==
  /\ \A m \in net : Over(m) \/ (pc = "wait" /\ handle /\ Fresh(m))
  /\ \A m, n \in net : Over(m) \/ Over(n) \/ m = n
  /\ \A m, n \in net : m.tid = n.tid => m = n

\* The main loop and the variables tftp_get and handleRequest set for it.
Getting ==
  pc = "get" =>
    /\ "handle" \notin stores => handle
    /\ "blknum" \notin stores => blknum = 1
    /\ "mode_write" \notin stores => mode_write
    /\ ~request_handled
    /\ phase = "nabu" => SegmentWritePtr = 0

Serving ==
  pc # "listen" =>
    /\ request \in Requests
    /\ phase = "nabu" =>
         ~PacketMode /\ SegmentNumber = request.seg /\ PacketNumber = 0 /\ request.pkt = 0
    /\ phase = "pak" => PacketMode /\ (pc = "get" \/ handle => SegmentNumber = request.seg)

Waiting ==
  pc = "wait" /\ handle =>
    /\ mode_write /\ ~request_handled
    /\ blknum \in 1 .. IF Wanted \in DOMAIN Stored THEN LastBlock(Wanted) ELSE 1

Begun == tftp_mode = "client" /\ Getting /\ Serving /\ Waiting

\* The first n bytes of f are in SegmentBuffer.
Copied(f, n) == SegmentWritePtr = n /\ \A i \in 0 .. n - 1 : SegmentBuffer[i] = <<f, i>>

Filling ==
  pc = "wait" /\ handle /\ phase = "nabu" /\ Wanted \in DOMAIN Stored =>
    Copied(Wanted, (blknum - 1) * BLOCK)

Filled ==
  pc = "wait" /\ ~handle /\ phase = "nabu" /\ request_handled =>
    Wanted \in DOMAIN Stored /\ Copied(Wanted, Stored[Wanted])

CacheInv ==
  OwnerInv /\ GatewayInv /\ NetInv /\ Begun /\ Filling /\ Filled /\ CacheCoherent

-----------------------------------------------------------------------------
LEMMA ModBelow ==
  ASSUME NEW x \in Int, NEW w \in Nat \ {0}, x < 0, -w <= x
  PROVE  x % w = x + w
OBVIOUS

\* Where block b of a stored file lies.
LEMMA BlockLies ==
  ASSUME NEW f \in DOMAIN Stored, NEW b \in 1 .. LastBlock(f)
  PROVE  LET lo == (b - 1) * BLOCK
             hi == IF b = LastBlock(f) THEN Stored[f] ELSE b * BLOCK
         IN  /\ lo \in Nat /\ hi \in Nat /\ lo <= hi /\ hi <= Stored[f]
             /\ BlockBytes(f, b) = [k \in 1 .. hi - lo |-> <<f, lo + k - 1>>]
<1> DEFINE lo == (b - 1) * BLOCK
           hi == IF b = LastBlock(f) THEN Stored[f] ELSE b * BLOCK
<1>1. BLOCK \in Nat \ {0} /\ b \in Nat \ {0} /\ LastBlock(f) \in Nat /\ Stored[f] \in Nat
  BY Blocks, SizesAssumption
<1>2. b * BLOCK = (b - 1) * BLOCK + BLOCK /\ (b - 1) * BLOCK \in Nat
  BY <1>1
<1>3. b # LastBlock(f) => b * BLOCK <= (LastBlock(f) - 1) * BLOCK
  BY <1>1
<1>4. (LastBlock(f) - 1) * BLOCK <= Stored[f]
  BY Blocks
<1>5. lo \in Nat /\ hi \in Nat /\ lo <= hi /\ hi <= Stored[f]
  <2>1. (LastBlock(f) - 1) * BLOCK \in Nat /\ b * BLOCK \in Nat
    BY <1>1
  <2> QED BY <1>1, <1>2, <1>3, <1>4, <2>1
<1> QED BY <1>5 DEF BlockBytes, FileBytes

\* A block written after those before it, in a buffer that has room for all.
LEMMA CopyBlock ==
  ASSUME GatewayTypeOK, NEW f \in DOMAIN Stored, Stored[f] < MAXSEGMENTSIZE,
         NEW b \in 1 .. LastBlock(f), Copied(f, (b - 1) * BLOCK),
         WriteSegment(BlockBytes(f, b))
  PROVE  Copied(f, IF b = LastBlock(f) THEN Stored[f] ELSE b * BLOCK)'
<1> DEFINE lo == (b - 1) * BLOCK
           hi == IF b = LastBlock(f) THEN Stored[f] ELSE b * BLOCK
           M == MAXSEGMENTSIZE
<1>1. /\ lo \in Nat /\ hi \in Nat /\ lo <= hi /\ hi <= Stored[f]
      /\ BlockBytes(f, b) = [k \in 1 .. hi - lo |-> <<f, lo + k - 1>>]
  BY BlockLies
<1>2. M \in Nat \ {0} /\ hi < M
  <2>1. Stored[f] \in Nat
    BY Blocks
  <2> HIDE DEF hi
  <2> QED BY <1>1, <2>1, PacketizerAssumption
<1>3. SegmentWritePtr = lo /\ \A i \in 0 .. lo - 1 : SegmentBuffer[i] = <<f, i>>
  BY DEF Copied
<1> HIDE DEF lo, hi, M
<1>4. Len(BlockBytes(f, b)) = hi - lo
  BY <1>1
<1>5. /\ SegmentWritePtr' = (lo + (hi - lo)) % M
      /\ SegmentBuffer' =
           [i \in 0 .. M - 1 |->
              IF (i - lo) % M < hi - lo THEN BlockBytes(f, b)[((i - lo) % M) + 1]
              ELSE SegmentBuffer[i]]
  BY <1>3, <1>4 DEF WriteSegment, M
<1>6. SegmentWritePtr' = hi
  <2>1. lo + (hi - lo) = hi /\ hi % M = hi
    BY <1>1, <1>2, ModSmall
  <2> QED BY <1>5, <2>1
<1>7. ASSUME NEW i \in 0 .. hi - 1 PROVE SegmentBuffer'[i] = <<f, i>>
  <2>1. i \in 0 .. M - 1
    BY <1>1, <1>2
  <2>2. CASE i < lo
    <3>1. (i - lo) % M = i - lo + M
      <4>1. i - lo \in Int /\ i - lo < 0 /\ -M <= i - lo
        BY <1>1, <1>2, <2>1, <2>2
      <4> QED BY <1>2, <4>1, ModBelow
    <3>2. ~(i - lo + M < hi - lo)
      BY <1>1, <1>2, <2>1
    <3>3. SegmentBuffer'[i] = SegmentBuffer[i]
      BY <1>5, <2>1, <3>1, <3>2
    <3> QED BY <1>1, <1>3, <2>1, <2>2, <3>3
  <2>3. CASE ~(i < lo)
    <3>1. i - lo \in Nat /\ i - lo < M /\ i - lo < hi - lo
      BY <1>1, <1>2, <2>1, <2>3
    <3>2. (i - lo) % M = i - lo
      BY <1>2, <3>1, ModSmall
    <3>3. SegmentBuffer'[i] = BlockBytes(f, b)[(i - lo) + 1]
      BY <1>5, <2>1, <3>1, <3>2
    <3>4. (i - lo) + 1 \in 1 .. hi - lo /\ lo + ((i - lo) + 1) - 1 = i
      BY <1>1, <2>1, <3>1
    <3> QED BY <1>1, <3>3, <3>4
  <2> QED BY <2>2, <2>3
<1> QED BY <1>6, <1>7 DEF Copied, hi

-----------------------------------------------------------------------------
LEMMA CacheStart == Calm /\ GatewayStart => CacheInv
<1> SUFFICES ASSUME Calm, GatewayStart PROVE CacheInv
  OBVIOUS
<1>1. OwnerInv /\ GatewayInv
  BY OwnerStart, TypeStart DEF Calm
<1>2. tftp_mode = "client"
  BY DEF Calm, GatewayStart
<1> QED BY <1>1, <1>2 DEF GatewayStart, CacheInv, NetInv, Begun, Getting, Serving, Waiting,
           Filling, Filled, CacheCoherent

\* While no transfer is open, what is under way is over.
LEMMA OnlyOver ==
  ASSUME CacheInv, pc # "wait" \/ ~handle
  PROVE  \A m \in net : Over(m)
BY DEF CacheInv, NetInv

LEMMA OverKept ==
  ASSUME net' \subseteq net, session' = session, \A m \in net : Over(m), NetInv
  PROVE  NetInv'
BY DEF NetInv, Over

LEMMA RequestCache == Calm /\ CacheInv /\ NabuRequest => CacheInv'
<1> SUFFICES ASSUME Calm, CacheInv, NabuRequest PROVE CacheInv'
  OBVIOUS
<1>1. OwnerInv' /\ GatewayInv'
  BY RequestOwner, RequestType DEF CacheInv
<1>2. PICK r \in Requests :
        RequestTime(r) \/ RequestCached(r) \/ RequestSegment(r) \/ RequestPacket(r)
  BY DEF NabuRequest
<1>3. UNCHANGED <<engine_vars, net, session>>
  BY DEF NabuRequest
<1>4. pc = "listen" /\ ~handle
  BY <1>2 DEF RequestTime, RequestCached, RequestSegment, RequestPacket, Asked,
              CacheInv, OwnerInv, UartOwned
<1>5. NetInv'
  BY <1>3, <1>4, OnlyOver, OverKept DEF CacheInv
<1>6. tftp_mode' = "client" /\ ~handle'
  BY <1>3, <1>4 DEF CacheInv, Begun, engine_vars
<1>7. CASE RequestTime(r) \/ RequestCached(r)
  <2>1. pc' = "listen"
    BY <1>4, <1>7 DEF RequestTime, RequestCached
  <2>2. CacheCoherent'
    <3>1. UNCHANGED <<PacketMode, SegmentNumber, SegmentWritePtr, SegmentBuffer>>
      BY <1>7 DEF RequestTime, RequestCached
    <3> QED BY <1>4, <2>1, <3>1 DEF CacheInv, CacheCoherent
  <2> QED BY <1>1, <1>5, <1>6, <2>1, <2>2
     DEF CacheInv, Begun, Getting, Serving, Waiting, Filling, Filled
<1>8. CASE RequestSegment(r) \/ RequestPacket(r)
  <2>1. /\ pc' = "get" /\ request' = r /\ stores' = TftpStores /\ request_handled' = FALSE
        /\ SegmentNumber' = r.seg /\ SegmentWritePtr' = 0
    BY <1>8 DEF RequestSegment, RequestPacket, Asked, BeginGet, PacketOpen
  <2>2. \/ phase' = "nabu" /\ PacketMode' = FALSE /\ PacketNumber' = 0 /\ r.pkt = 0
        \/ phase' = "pak" /\ PacketMode' = TRUE
    BY <1>8 DEF RequestSegment, RequestPacket, BeginGet, PacketOpen
  <2>3. Begun'
    BY <1>6, <2>1, <2>2 DEF Begun, Getting, Serving, Waiting, TftpStores
  <2> QED BY <1>1, <1>5, <2>1, <2>3 DEF CacheInv, Filling, Filled, CacheCoherent
<1> QED BY <1>2, <1>7, <1>8

LEMMA MainCache == Calm /\ CacheInv /\ MainStep => CacheInv'
<1> SUFFICES ASSUME Calm, CacheInv, MainStep PROVE CacheInv'
  OBVIOUS
<1>1. OwnerInv' /\ GatewayInv'
  BY MainOwner, MainType DEF CacheInv
<1>2. session' = session
  BY DEF MainStep, StoreHandle, StoreBlknum, StoreMode, SendRequest, GetFails, FallBack,
         Finish, Quiet
<1>3. CASE StoreHandle \/ StoreBlknum \/ StoreMode
  <2>1. /\ pc = "get" /\ pc' = "get"
        /\ UNCHANGED <<tftp_mode, phase, request, net, ctx_vars>>
    BY <1>3 DEF StoreHandle, StoreBlknum, StoreMode, Stored1, InGet, Quiet
  <2>2. Getting'
    <3>1. CASE StoreHandle
      BY <2>1, <3>1 DEF StoreHandle, Stored1, CacheInv, Begun, Getting, ctx_vars
    <3>2. CASE StoreBlknum
      BY <2>1, <3>2 DEF StoreBlknum, Stored1, CacheInv, Begun, Getting, ctx_vars
    <3>3. CASE StoreMode
      BY <2>1, <3>3 DEF StoreMode, Stored1, CacheInv, Begun, Getting, ctx_vars
    <3> QED BY <1>3, <3>1, <3>2, <3>3
  <2>3. Begun'
    BY <2>1, <2>2 DEF CacheInv, Begun, Serving, Waiting, ctx_vars
  <2>4. NetInv'
    BY <1>2, <2>1, OnlyOver, OverKept DEF CacheInv
  <2> QED BY <1>1, <2>1, <2>3, <2>4 DEF CacheInv, Filling, Filled, CacheCoherent
<1>4. CASE SendRequest
  <2>1. /\ pc = "get" /\ pc' = "wait" /\ stores = {}
        /\ UNCHANGED <<engine_vars, phase, request, ctx_vars>>
        /\ net' = net \cup {ReadRequest(Wanted)}
    BY <1>4 DEF SendRequest, InGet, Quiet
  <2>2. /\ handle /\ blknum = 1 /\ mode_write /\ ~request_handled
        /\ phase = "nabu" => SegmentWritePtr = 0
    BY <2>1 DEF CacheInv, Begun, Getting
  <2>3. Wanted' = Wanted
    BY <2>1 DEF Wanted
  <2>4. Begun'
    <3>1. 1 \in 1 .. IF Wanted \in DOMAIN Stored THEN LastBlock(Wanted) ELSE 1
      BY Blocks
    <3>2. Serving' /\ Getting'
      BY <2>1, <2>2 DEF CacheInv, Begun, Serving, Getting, ctx_vars, engine_vars
    <3> QED BY <2>1, <2>2, <2>3, <3>1, <3>2 DEF CacheInv, Begun, Waiting, ctx_vars, engine_vars
  <2>5. Filling'
    <3>1. (1 - 1) * BLOCK = 0
      BY SizesAssumption
    <3> QED BY <2>1, <2>2, <2>3, <3>1 DEF Filling, Copied, ctx_vars, engine_vars
  <2>6. NetInv'
    <3>1. \A m \in net : Over(m) /\ Over(m)' /\ m.tid # NoPeer
      BY <1>2, <2>1, OnlyOver, PeersAssumption DEF Over
    <3>2. PICK new : new = ReadRequest(Wanted)
      OBVIOUS
    <3>3. new.tid = NoPeer /\ Fresh(new)' /\ net' = net \cup {new}
      BY <2>1, <2>2, <2>3, <3>2 DEF Fresh, ReadRequest, Message, engine_vars
    <3>4. pc' = "wait" /\ handle'
      BY <2>1, <2>2 DEF engine_vars
    <3>5. \A m, n \in net : m.tid = n.tid => m = n
      BY DEF CacheInv, NetInv
    <3> QED BY <3>1, <3>3, <3>4, <3>5 DEF NetInv
  <2> QED BY <1>1, <2>1, <2>2, <2>4, <2>5, <2>6
     DEF CacheInv, Filled, CacheCoherent, engine_vars
<1>5. CASE GetFails
  BY <1>5 DEF GetFails, CacheInv, Begun
<1>6. CASE FallBack
  <2>1. /\ pc = "wait" /\ ~handle /\ pc' = "get" /\ phase' = "pak" /\ stores' = TftpStores
        /\ UNCHANGED <<engine_vars, request, request_handled, SegmentNumber, net>>
        /\ PacketMode' = TRUE /\ phase = "nabu" /\ ~request_handled
    BY <1>6 DEF FallBack, Polled, BeginGet, PacketOpen, CacheInv, OwnerInv, UartOwned
  <2>2. Begun'
    BY <2>1 DEF CacheInv, Begun, Getting, Serving, Waiting, TftpStores, engine_vars
  <2>3. NetInv'
    BY <1>2, <2>1, OnlyOver, OverKept DEF CacheInv
  <2> QED BY <1>1, <2>1, <2>2, <2>3 DEF CacheInv, Filling, Filled, CacheCoherent
<1>7. CASE Finish
  <2>1. /\ pc = "wait" /\ ~handle /\ pc' = "listen" /\ (phase = "pak" \/ request_handled)
        /\ UNCHANGED <<engine_vars, phase, request, request_handled, PacketMode, SegmentNumber,
                       SegmentWritePtr, SegmentBuffer, net>>
    BY <1>7 DEF Finish, Polled, CacheInv, OwnerInv, UartOwned
  <2>2. CacheCoherent'
    <3> SUFFICES ASSUME ~PacketMode PROVE CacheCoherent'
      BY <2>1 DEF CacheCoherent
    <3>1. phase = "nabu" /\ request_handled /\ SegmentNumber = request.seg
      BY <2>1 DEF CacheInv, GatewayInv, GatewayTypeOK, Begun, Serving
    <3>2. Wanted = Nabu(SegmentNumber)
      BY <3>1 DEF Wanted
    <3>3. Wanted \in DOMAIN Stored /\ Copied(Wanted, Stored[Wanted])
      BY <2>1, <3>1 DEF CacheInv, Filled
    <3> QED BY <2>1, <3>2, <3>3 DEF CacheCoherent, Copied
  <2>3. NetInv'
    BY <1>2, <2>1, OnlyOver, OverKept DEF CacheInv
  <2> QED BY <1>1, <2>1, <2>2, <2>3
     DEF CacheInv, Begun, Getting, Serving, Waiting, Filling, Filled, engine_vars
<1> QED BY <1>3, <1>4, <1>5, <1>6, <1>7 DEF MainStep

-----------------------------------------------------------------------------
\* What a callback is run for: the datagram the open transfer waits for.
Arrived(m) ==
  /\ m \in net /\ m.tid \in Peers /\ pc = "wait" /\ handle /\ mode_write
  /\ \A n \in net \ {m} : Over(n) /\ n.tid # m.tid
  /\ Received(m) /\ UNCHANGED <<main_vars, session>>

\* A block of the file that is not its last, its last one, or the server's error.
BlockArrives(m) ==
  /\ Arrived(m) /\ FreshData(m) /\ blknum # LastBlock(Wanted) /\ WriteBlock(m)
LastArrives(m) ==
  /\ Arrived(m) /\ FreshData(m) /\ blknum = LastBlock(Wanted)
  /\ WriteLastRaw(m) \/ WriteLastSegment(m)
ErrorArrives(m) ==
  Arrived(m) /\ Wanted \notin DOMAIN Stored /\ TransferError(m)

LEMMA Arrivals ==
  ASSUME CacheInv, Receive
  PROVE  \E m \in net : BlockArrives(m) \/ LastArrives(m) \/ ErrorArrives(m)
<1>1. PICK m \in net :
        /\ \/ /\ m.op = "DATA"
              /\ \/ Full(m) /\ WriteBlock(m)
                 \/ ~Full(m) /\ (WriteLastRaw(m) \/ WriteLastSegment(m))
                 \/ NotWritten(m)
           \/ m.op = "SERVER_ERROR" /\ (TransferError(m) \/ StaleError(m))
        /\ Received(m)
        /\ UNCHANGED <<main_vars, session>>
  BY DEF Receive
<1>2. ~Over(m)
  BY <1>1 DEF Over, Message
<1>3. pc = "wait" /\ handle /\ mode_write /\ Fresh(m)
  BY <1>2 DEF CacheInv, NetInv, Begun, Waiting
<1>4. \A n \in net \ {m} : Over(n) /\ n.tid # m.tid
  BY <1>2 DEF CacheInv, NetInv
<1>5. CASE m.op = "DATA"
  <2>1. FreshData(m)
    BY <1>3, <1>5 DEF Fresh, FreshAck, ReadRequest, ErrorFrom, Message
  <2>2. Arrived(m)
    BY <1>1, <1>3, <1>4, <2>1 DEF Arrived, FreshData
  <2>3. m.blk = blknum /\ m.file = Wanted /\ Wanted \in DOMAIN Stored
    BY <2>1 DEF FreshData, DataMessage, Message
  <2>4. ~NotWritten(m)
    BY <1>3, <2>3 DEF NotWritten, DataUnwanted, DataRepeat, DataWrong
  <2>5. Full(m) <=> blknum # LastBlock(Wanted)
    <3>1. blknum \in 1 .. LastBlock(Wanted) /\ LastBlock(Wanted) \in Nat
      BY <1>3, <2>3, Blocks DEF CacheInv, Begun, Waiting
    <3> QED BY <2>3, <3>1 DEF Full
  <2> QED BY <1>1, <1>5, <2>1, <2>2, <2>4, <2>5 DEF BlockArrives, LastArrives
<1>6. CASE m.op = "SERVER_ERROR"
  <2>1. m.tid \in Peers /\ Wanted \notin DOMAIN Stored
    BY <1>3, <1>6 DEF Fresh, FreshData, FreshAck, ReadRequest, DataMessage, Message
  <2>2. Arrived(m)
    BY <1>1, <1>3, <1>4, <2>1 DEF Arrived
  <2>3. ~StaleError(m)
    BY <1>3 DEF StaleError
  <2> QED BY <1>1, <1>6, <2>1, <2>2, <2>3 DEF ErrorArrives
<1> QED BY <1>1, <1>5, <1>6

\* The answer to m takes its place.
LEMMA Answering ==
  ASSUME NEW m, Arrived(m), NEW n, n.tid = m.tid,
         net' \subseteq (net \ {m}) \cup {n},
         Over(n)' \/ (pc' = "wait" /\ handle' /\ Fresh(n)')
  PROVE  NetInv'
<1>1. \A x \in net \ {m} : Over(x)' /\ x.tid # n.tid
  BY DEF Arrived, Over
<1>2. \A x, y \in net \ {m} : x.tid = y.tid => x = y
  <2>1. ASSUME NEW x \in net \ {m}, NEW y \in net \ {m}, x.tid = y.tid PROVE x = y
    <3>1. Over(x) /\ Over(y)
      BY DEF Arrived
    <3> QED BY <2>1, <3>1 DEF Over
  <2> QED BY <2>1
<1> QED BY <1>1, <1>2 DEF NetInv

LEMMA Acknowledged ==
  ASSUME NEW m, FreshData(m), Received(m),
         reply' \in {Datagram(m.tid, "ACK", m.blk), NoReply}
  PROVE  net' \subseteq (net \ {m}) \cup {Message("ACK", m.tid, blknum, NoFile)}
BY DEF FreshData, DataMessage, Received, Datagram, Message

LEMMA ReceiveCache == Calm /\ CacheInv /\ Receive => CacheInv'
<1> SUFFICES ASSUME Calm, CacheInv, Receive PROVE CacheInv'
  OBVIOUS
<1>1. OwnerInv' /\ GatewayInv'
  BY ReceiveOwner, ReceiveType DEF CacheInv, Calm
<1>2. PICK m \in net : BlockArrives(m) \/ LastArrives(m) \/ ErrorArrives(m)
  BY Arrivals
<1>3. /\ Arrived(m) /\ pc = "wait" /\ handle /\ mode_write /\ handling_request
      /\ UNCHANGED <<pc, phase, stores, request, session>> /\ Wanted' = Wanted
  BY <1>2 DEF BlockArrives, LastArrives, ErrorArrives, Arrived, main_vars, Wanted,
              CacheInv, OwnerInv, UartOwned
<1>4. tftp_mode' = "client"
  BY <1>2 DEF BlockArrives, LastArrives, ErrorArrives, WriteBlock, WriteLastRaw,
              WriteLastSegment, TransferError, DataNext, DataWanted, RecvError, Accepts,
              CacheInv, Begun
<1>5. Getting' /\ CacheCoherent'
  BY <1>3 DEF Getting, CacheCoherent
<1>6. /\ ~request_handled /\ request \in Requests
      /\ phase = "nabu" =>
           ~PacketMode /\ SegmentNumber = request.seg /\ PacketNumber = 0 /\ request.pkt = 0
      /\ phase = "pak" => PacketMode /\ SegmentNumber = request.seg
      /\ phase \in {"nabu", "pak"}
  BY <1>3 DEF CacheInv, Begun, Waiting, Serving, GatewayInv, GatewayTypeOK
<1>7. CASE BlockArrives(m)
  <2>1. /\ FreshData(m) /\ Wanted \in DOMAIN Stored /\ m.tid \in Peers
        /\ m.blk = blknum /\ m.file = Wanted
        /\ blknum \in 1 .. LastBlock(Wanted) - 1
        /\ blknum \in Nat /\ LastBlock(Wanted) \in Nat
    <3>1. FreshData(m) /\ blknum # LastBlock(Wanted)
      BY <1>7 DEF BlockArrives
    <3>2. Wanted \in DOMAIN Stored /\ m.tid \in Peers /\ m.blk = blknum /\ m.file = Wanted
      BY <3>1 DEF FreshData, DataMessage, Message
    <3>3. blknum \in 1 .. LastBlock(Wanted) /\ LastBlock(Wanted) \in Nat
      BY <1>3, <3>2, Blocks DEF CacheInv, Begun, Waiting
    <3> QED BY <3>1, <3>2, <3>3
  <2>2. /\ WriteBlock(m) /\ DataNext(m.tid, m.blk, TRUE)
        /\ UNCHANGED <<request_handled, PacketMode, SegmentNumber, PacketNumber>>
    BY <1>7 DEF BlockArrives, WriteBlock
  <2>3. blknum' = blknum + 1 /\ handle' /\ mode_write'
    <3>1. LastBlock(Wanted) \in 0 .. BlkMod - 1
      BY <2>1 DEF Calm, Fitting, Blk
    <3>2. blknum # BlkMod - 1
      BY <2>1, <3>1, BlkModAssumption
    <3> QED BY <1>3, <2>2, <3>2 DEF DataNext, NextBlk
  <2>4. Serving' /\ Waiting'
    <3>1. blknum' \in 1 .. LastBlock(Wanted)
      BY <2>1, <2>3
    <3> QED BY <1>3, <1>6, <2>1, <2>2, <2>3, <3>1 DEF Serving, Waiting
  <2>5. Filling' /\ Filled'
    <3> SUFFICES ASSUME phase = "nabu" PROVE Filling' /\ Filled'
      BY <1>3 DEF Filling, Filled
    <3>1. WriteSegment(BlockBytes(Wanted, blknum))
      BY <1>6, <2>1, <2>2 DEF WriteBlock
    <3>2. Copied(Wanted, (blknum - 1) * BLOCK)
      BY <1>3, <2>1 DEF CacheInv, Filling
    <3>3. Stored[Wanted] < MAXSEGMENTSIZE
      BY <1>6, <2>1 DEF Calm, Wanted, Requests
    <3>4. PICK f \in DOMAIN Stored, b \in Nat :
            f = Wanted /\ b = blknum /\ b \in 1 .. LastBlock(f)
      BY <2>1
    <3>5. Copied(f, IF b = LastBlock(f) THEN Stored[f] ELSE b * BLOCK)'
      BY <3>1, <3>2, <3>3, <3>4, CopyBlock DEF CacheInv, GatewayInv
    <3>6. b # LastBlock(f) /\ b = blknum' - 1
      BY <2>1, <2>3, <3>4
    <3> QED BY <1>3, <2>3, <3>4, <3>5, <3>6 DEF Filling, Filled
  <2>6. NetInv'
    <3>1. PICK n : n = Message("ACK", m.tid, blknum, NoFile)
      OBVIOUS
    <3>2. net' \subseteq (net \ {m}) \cup {n}
      BY <1>3, <2>1, <2>2, <3>1, Acknowledged DEF DataNext, Send, Arrived
    <3>3. blknum' - 1 = blknum /\ blknum' # 1
      BY <2>1, <2>3
    <3>4. FreshAck(n)' /\ n.tid = m.tid
      BY <1>3, <2>1, <3>1, <3>3 DEF FreshAck, FreshData, Message
    <3> QED BY <1>3, <2>3, <3>2, <3>4, Answering DEF Fresh
  <2> QED BY <1>1, <1>4, <1>5, <2>4, <2>5, <2>6 DEF CacheInv, Begun
<1>8. CASE LastArrives(m)
  <2>1. /\ FreshData(m) /\ Wanted \in DOMAIN Stored /\ m.tid \in Peers
        /\ m.blk = blknum /\ m.file = Wanted /\ blknum = LastBlock(Wanted)
    BY <1>8 DEF LastArrives, FreshData, DataMessage, Message
  <2>2. /\ DataNext(m.tid, m.blk, FALSE) /\ PacketMode' = PacketMode
        /\ \/ phase = "pak" /\ WriteLastRaw(m)
           \/ phase = "nabu" /\ WriteLastSegment(m)
    BY <1>6, <1>8 DEF LastArrives, WriteLastRaw, WriteLastSegment
  <2>3. ~handle'
    BY <2>2 DEF DataNext, CloseHandle
  <2>4. Serving' /\ Waiting'
    <3>1. phase = "nabu" => UNCHANGED <<SegmentNumber, PacketNumber>>
      BY <2>2 DEF WriteLastSegment
    <3> QED BY <1>3, <1>6, <2>2, <2>3, <3>1 DEF Serving, Waiting
  <2>5. Filling' /\ Filled'
    <3> SUFFICES ASSUME phase = "nabu" PROVE Filled'
      BY <1>3, <2>3 DEF Filling, Filled
    <3>1. WriteSegment(BlockBytes(Wanted, blknum))
      BY <2>1, <2>2 DEF WriteLastSegment
    <3>2. Copied(Wanted, (blknum - 1) * BLOCK)
      BY <1>3, <2>1 DEF CacheInv, Filling
    <3>3. Stored[Wanted] < MAXSEGMENTSIZE
      BY <1>6, <2>1 DEF Calm, Wanted, Requests
    <3>4. PICK f \in DOMAIN Stored, b \in Nat :
            f = Wanted /\ b = LastBlock(f) /\ b \in 1 .. LastBlock(f)
      BY <2>1, Blocks
    <3>5. Copied(f, IF b = LastBlock(f) THEN Stored[f] ELSE b * BLOCK)'
      BY <2>1, <3>1, <3>2, <3>3, <3>4, CopyBlock DEF CacheInv, GatewayInv
    <3> QED BY <1>3, <2>1, <3>4, <3>5 DEF Filled
  <2>6. NetInv'
    <3>1. PICK n : n = Message("ACK", m.tid, blknum, NoFile)
      OBVIOUS
    <3>2. net' \subseteq (net \ {m}) \cup {n}
      BY <1>3, <2>1, <2>2, <3>1, Acknowledged DEF DataNext, Send, Arrived
    <3>3. Over(n)' /\ n.tid = m.tid
      <4>1. session'[m.tid] = [file |-> Wanted, blk |-> LastBlock(Wanted)]
        BY <1>3, <2>1 DEF FreshData
      <4>2. session'[m.tid] # Idle
        BY <2>1, <4>1, FilesAssumption DEF Idle
      <4> QED BY <2>1, <3>1, <4>1, <4>2 DEF Over, Message
    <3> QED BY <1>3, <3>2, <3>3, Answering
  <2> QED BY <1>1, <1>4, <1>5, <2>4, <2>5, <2>6 DEF CacheInv, Begun
<1>9. CASE ErrorArrives(m)
  <2>1. /\ ~handle' /\ ~request_handled' /\ reply' = NoReply
        /\ UNCHANGED <<PacketMode, SegmentNumber, PacketNumber>>
    BY <1>9 DEF ErrorArrives, TransferError, RecvError, CloseHandle, CtxError
  <2>2. Serving' /\ Waiting' /\ Filling' /\ Filled'
    BY <1>3, <1>6, <2>1 DEF Serving, Waiting, Filling, Filled
  <2>3. NetInv'
    <3>1. net' \subseteq net \ {m}
      BY <1>3, <2>1 DEF Arrived, Received
    <3>2. \A x \in net \ {m} : Over(x)'
      BY <1>3 DEF Arrived, Over
    <3> QED BY <3>1, <3>2 DEF NetInv, CacheInv
  <2> QED BY <1>1, <1>4, <1>5, <2>2, <2>3 DEF CacheInv, Begun
<1> QED BY <1>2, <1>7, <1>8, <1>9

-----------------------------------------------------------------------------
\* m is taken by the server, which answers with n and moves the transfer of
\* its TID t alone.
LEMMA Answered1 ==
  ASSUME CacheInv, NEW m \in net, NEW t \in Peers, NEW n, n.tid = t,
         net' \subseteq (net \ {m}) \cup {n},
         \A x \in net \ {m} : x.tid # t,
         \A u \in Peers \ {t} : session'[u] = session[u],
         ~Over(m), pc' = pc, handle' = handle, Fresh(n)'
  PROVE  NetInv'
<1>1. pc = "wait" /\ handle /\ \A x \in net \ {m} : Over(x)
  BY DEF CacheInv, NetInv
<1>2. \A x \in net \ {m} : Over(x)'
  BY <1>1 DEF Over
<1>3. \A x, y \in net : x.tid = y.tid => x = y
  BY DEF CacheInv, NetInv
<1> QED BY <1>1, <1>2, <1>3 DEF NetInv

LEMMA ServerCache == Calm /\ CacheInv /\ (Server \/ Fault \/ ServerTimeout) => CacheInv'
<1> SUFFICES ASSUME Calm, CacheInv, Server \/ Fault \/ ServerTimeout PROVE CacheInv'
  OBVIOUS
<1>1. UNCHANGED <<engine_vars, main_vars, ctx_vars>>
  BY DEF Server, Fault, ServerTimeout, Unchanged
<1>2. OwnerInv' /\ GatewayInv'
  BY <1>1, ServerType
     DEF CacheInv, OwnerInv, UartOwned, GetBegun, engine_vars, main_vars, ctx_vars
<1>3. Begun' /\ Filling' /\ Filled' /\ CacheCoherent'
  BY <1>1 DEF CacheInv, Begun, Getting, Serving, Waiting, Filling, Filled, Wanted, Copied,
              CacheCoherent, engine_vars, main_vars, ctx_vars
<1>4. pc' = pc /\ handle' = handle /\ blknum' = blknum /\ Wanted' = Wanted
  BY <1>1 DEF engine_vars, main_vars, Wanted
<1>5. /\ session \in [Peers -> [file : DOMAIN Stored \cup {NoFile}, blk : Nat]]
      /\ \A x, y \in net : x.tid = y.tid => x = y
  BY DEF CacheInv, GatewayInv, SessionOK, NetInv
<1>6. ASSUME NEW t \in Peers, NEW m \in net, Serve(t, m) PROVE NetInv'
  <2>1. Over(m) \/ (pc = "wait" /\ handle /\ Fresh(m))
    BY DEF CacheInv, NetInv
  <2>2. CASE Over(m)
    <3>1. m.op = "ACK" /\ m.tid = t /\ net' = net \ {m} /\ session' = [session EXCEPT ![t] = Idle]
      <4>1. /\ m.op = "ACK" /\ session[m.tid] # Idle /\ m.blk = session[m.tid].blk
            /\ m.blk = LastBlock(session[m.tid].file)
        BY <2>2 DEF Over, Message
      <4>2. m.op # "RRQ" /\ m.op # "ERROR"
        BY <4>1
      <4> QED BY <1>6, <4>1, <4>2 DEF Serve
    <3>2. \A x \in net' : x.tid # t /\ x \in net
      BY <1>5, <3>1
    <3>3. \A u : u # t => session'[u] = session[u] \/ u \notin Peers
      BY <1>5, <3>1
    <3>4. \A x \in net' : (Over(x) => Over(x)') /\ (Fresh(x) => Fresh(x)')
      BY <1>4, <3>2, <3>3 DEF Over, Fresh, FreshData, FreshAck
    <3> QED BY <1>4, <3>2, <3>4 DEF CacheInv, NetInv
  <2>3. CASE ~Over(m) /\ m = ReadRequest(Wanted) /\ blknum = 1
    <3>1. m.op = "RRQ" /\ m.file = Wanted /\ session[t] = Idle
      BY <1>6, <2>3 DEF ReadRequest, Message, Serve
    <3>2. \A x \in net \ {m} : x.tid # t
      BY <2>3, <3>1 DEF CacheInv, NetInv, Over
    <3>3. CASE Wanted \in DOMAIN Stored
      <4>1. /\ session' = [session EXCEPT ![t] = [file |-> Wanted, blk |-> 1]]
            /\ net' = (net \ {m}) \cup {DataMessage(t, 1, Wanted)}
        BY <1>6, <3>1, <3>3 DEF Serve
      <4>2. PICK n : n = DataMessage(t, 1, Wanted)
        OBVIOUS
      <4>3. /\ session'[t] = [file |-> Wanted, blk |-> 1]
            /\ \A u \in Peers \ {t} : session'[u] = session[u]
        BY <1>5, <4>1
      <4>4. Fresh(n)' /\ n.tid = t
        BY <1>4, <2>3, <3>3, <4>2, <4>3 DEF Fresh, FreshData, DataMessage, Message
      <4> QED BY <1>4, <2>3, <3>2, <4>1, <4>2, <4>3, <4>4, Answered1
    <3>4. CASE Wanted \notin DOMAIN Stored
      <4>1. session' = session /\ net' = (net \ {m}) \cup {ErrorFrom(t)}
        BY <1>6, <3>1, <3>4 DEF Serve
      <4>2. PICK n : n = ErrorFrom(t)
        OBVIOUS
      <4>3. Fresh(n)' /\ n.tid = t
        BY <1>4, <3>4, <4>2 DEF Fresh, ErrorFrom, Message
      <4> QED BY <1>4, <2>3, <3>2, <4>1, <4>2, <4>3, Answered1
    <3> QED BY <3>3, <3>4
  <2>4. CASE ~Over(m) /\ FreshAck(m)
    <3>1. /\ m.op = "ACK" /\ m.tid = t /\ m.blk = blknum - 1 /\ Wanted \in DOMAIN Stored
          /\ session[t] = [file |-> Wanted, blk |-> blknum - 1] /\ blknum # 1
      BY <1>6, <2>4 DEF FreshAck, Message, Serve
    <3>2. blknum \in 2 .. LastBlock(Wanted) /\ LastBlock(Wanted) \in Nat
      BY <2>1, <2>4, <3>1, Blocks DEF CacheInv, Begun, Waiting
    <3>3. session[t] # Idle /\ blknum - 1 # LastBlock(Wanted) /\ blknum - 1 + 1 = blknum
      BY <3>1, <3>2, FilesAssumption DEF Idle
    <3>4. /\ session' = [session EXCEPT ![t].blk = blknum - 1 + 1]
          /\ net' = (net \ {m}) \cup {DataMessage(t, blknum - 1 + 1, Wanted)}
      BY <1>6, <3>1, <3>3 DEF Serve
    <3>5. /\ session'[t] = [file |-> Wanted, blk |-> blknum]
          /\ \A u \in Peers \ {t} : session'[u] = session[u]
      BY <1>5, <3>1, <3>3, <3>4
    <3>6. PICK n : n = DataMessage(t, blknum, Wanted)
      OBVIOUS
    <3>7. Fresh(n)' /\ n.tid = t
      BY <1>4, <3>1, <3>5, <3>6 DEF Fresh, FreshData, DataMessage, Message
    <3>8. net' = (net \ {m}) \cup {n}
      BY <3>3, <3>4, <3>6
    <3>9. \A x \in net \ {m} : x.tid # t
      BY <1>5, <3>1
    <3> QED BY <1>4, <2>4, <3>5, <3>7, <3>8, <3>9, Answered1
  <2>5. CASE FreshData(m) \/ m = ErrorFrom(m.tid)
    BY <1>6, <2>5 DEF FreshData, DataMessage, ErrorFrom, Message, Serve
  <2> QED BY <2>1, <2>2, <2>3, <2>4, <2>5 DEF Fresh
<1>7. CASE Server
  BY <1>2, <1>3, <1>6, <1>7 DEF Server, CacheInv
<1>8. CASE Fault
  BY <1>8 DEF Fault, Lose, Retransmit, Abort, Calm
<1>9. CASE ServerTimeout
  <2>1. PICK t \in Peers : GiveUp(t)
    BY <1>9 DEF ServerTimeout
  <2>2. net' = net /\ \A m \in net : m.tid # t
    BY <2>1 DEF GiveUp
  <2>3. \A u \in Peers \ {t} : session'[u] = session[u]
    BY <1>5, <2>1 DEF GiveUp
  <2>4. \A m \in net : (Over(m) => Over(m)') /\ (Fresh(m) => Fresh(m)')
    BY <1>4, <2>2, <2>3 DEF Over, Fresh, FreshData, FreshAck
  <2>5. NetInv'
    BY <1>4, <2>2, <2>4 DEF CacheInv, NetInv
  <2> QED BY <1>2, <1>3, <2>5 DEF CacheInv
<1> QED BY <1>7, <1>8, <1>9

LEMMA CacheStep == Calm /\ CacheInv /\ [GatewayNext]_gateway_vars => CacheInv'
<1> SUFFICES ASSUME Calm, CacheInv, [GatewayNext]_gateway_vars PROVE CacheInv'
  OBVIOUS
<1>1. OwnerInv' /\ GatewayInv'
  BY OwnerStep, GatewayTypeStep DEF CacheInv, Calm
<1>2. CASE Reset
  <2>1. /\ pc' = "listen" /\ net' = {} /\ SegmentNumber' = 0 /\ tftp_mode' = "client"
    BY <1>2 DEF Reset, ResetCache, Calm
  <2> QED BY <1>1, <2>1 DEF CacheInv, NetInv, Begun, Getting, Serving, Waiting, Filling, Filled,
             CacheCoherent
<1>3. CASE UNCHANGED gateway_vars
  <2>1. UNCHANGED <<handle, blknum, mode_write, tftp_mode, pc, phase, stores, request,
                    request_handled, PacketMode, SegmentNumber, SegmentWritePtr, SegmentBuffer,
                    PacketNumber, net, session>>
    BY <1>3 DEF gateway_vars, engine_vars, main_vars, ctx_vars
  <2>2. Wanted' = Wanted
    BY <2>1 DEF Wanted
  <2>3. NetInv' /\ Begun'
    BY <2>1, <2>2 DEF CacheInv, NetInv, Over, Fresh, FreshData, FreshAck, Begun, Getting,
       Serving, Waiting
  <2>4. Filling' /\ Filled' /\ CacheCoherent'
    BY <2>1, <2>2 DEF CacheInv, Filling, Filled, Copied, CacheCoherent
  <2> QED BY <1>1, <2>3, <2>4 DEF CacheInv
<1> QED BY <1>2, <1>3, RequestCache, MainCache, ReceiveCache, ServerCache DEF GatewayNext

\* With nothing but the power going wrong, the segment a listening gateway
\* holds as valid is the server's file, all of it and nothing else, whatever
\* was asked before and wherever a reset came.
THEOREM CacheIsCoherent == Calm /\ GatewaySpec => []CacheCoherent
<1> SUFFICES ASSUME Calm PROVE GatewaySpec => []CacheCoherent
  OBVIOUS
<1>1. GatewayStart => CacheInv
  BY CacheStart
<1>2. CacheInv /\ [GatewayNext]_gateway_vars => CacheInv'
  BY CacheStep
<1>3. CacheInv => CacheCoherent
  BY DEF CacheInv
<1> QED BY <1>1, <1>2, <1>3, PTL DEF GatewaySpec

-----------------------------------------------------------------------------
\* What is on the line.  An empty segment is no segment: its first packet
\* would be refused, and then its .pak sent.
Answerable ==
  /\ Calm
  /\ \A seg \in Segments : Nabu(seg) \in DOMAIN Stored => Stored[Nabu(seg)] > 0

\* The prolog and the first n blocks of f; nothing for n = 0.
OpenLine(f, n) == [k \in 1 .. n + 1 |-> IF k = 1 THEN Auth ELSE Raw(BlockBytes(f, k - 1))]
Sent(f, n) == IF n = 0 THEN <<>> ELSE OpenLine(f, n)
WholePak(f) == <<Auth>> \o RawBytes(f) \o <<Epilog>>

ServedLine ==
  pc # "listen" =>
    /\ ~IsTime(request)
    /\ phase = "pak" => request.pkt # 0 \/ Nabu(request.seg) \notin DOMAIN Stored

FetchLine ==
  pc = "get" => uart = <<>> /\ (phase = "pak" => ~PacketPrologSent)

OpenTransferLine ==
  pc = "wait" /\ handle =>
    /\ phase = "nabu" => uart = <<>>
    /\ phase = "pak" => (PacketPrologSent <=> blknum # 1) /\ uart = Sent(Wanted, blknum - 1)

DoneLine ==
  pc = "wait" /\ ~handle =>
    IF request_handled
    THEN /\ Wanted \in DOMAIN Stored
         /\ phase = "nabu" =>
              \E ack \in BOOLEAN : uart = SendPacketized(TruePacket(request.seg, 0), ack)
         /\ phase = "pak" => uart = WholePak(Wanted)
    ELSE Wanted \notin DOMAIN Stored /\ uart = <<>>

LineInv == ServedLine /\ FetchLine /\ OpenTransferLine /\ DoneLine

AnswerInv == CacheInv /\ LineInv /\ CorrectAnswer

-----------------------------------------------------------------------------
\* PacketizeSegment, from a buffer that holds the file, sends its packet.
LEMMA Packetized ==
  ASSUME NEW seg \in Segments, seg # 0, Nabu(seg) \in DOMAIN Stored,
         NEW size \in 1 .. MAXSEGMENTSIZE - 1, size = Stored[Nabu(seg)],
         NEW num \in Nat, num * MAXPAYLOAD < size,
         NEW buf, \A i \in 0 .. size - 1 : buf[i] = <<Nabu(seg), i>>,
         NEW ack \in BOOLEAN
  PROVE  PacketizeSegment(seg, num, size, buf, ack) = SendPacketized(TruePacket(seg, num), ack)
<1> DEFINE o == num * MAXPAYLOAD
           n == PayloadSize(num, size)
           end == (num + 1) * MAXPAYLOAD
<1>1. /\ PacketOffset(num) = o /\ Remaining(num, size) = size - o
      /\ n \in 1 .. MAXPAYLOAD /\ o + n <= size
      /\ LastPacket(num, size) <=> o + n = size
      /\ ~LastPacket(num, size) => n = MAXPAYLOAD
  BY PacketExact
<1>2. o \in Nat /\ end = o + MAXPAYLOAD /\ MAXPAYLOAD \in Nat /\ MAXSEGMENTSIZE \in Nat
  BY PacketizerAssumption
<1> HIDE DEF o, n, end
<1>3. /\ LastPacket(num, size) <=> end >= size
      /\ (IF end >= size THEN size ELSE end) = o + n
  BY <1>1, <1>2
<1>4. BufferBytes(buf, o, n) = FileBytes(Nabu(seg), o, o + n)
  <2>1. o + n - o = n
    BY <1>1, <1>2
  <2>2. ASSUME NEW k \in 1 .. n
        PROVE  (IF o + k - 1 < MAXSEGMENTSIZE THEN buf[o + k - 1] ELSE Junk)
               = <<Nabu(seg), o + k - 1>>
    <3>1. o + k - 1 \in 0 .. size - 1 /\ o + k - 1 < MAXSEGMENTSIZE
      BY <1>1, <1>2
    <3> QED BY <3>1
  <2>3. BufferBytes(buf, o, n) =
          [k \in 1 .. n |-> IF o + k - 1 < MAXSEGMENTSIZE THEN buf[o + k - 1] ELSE Junk]
    BY DEF BufferBytes
  <2>4. FileBytes(Nabu(seg), o, o + n) = [k \in 1 .. n |-> <<Nabu(seg), o + k - 1>>]
    <3>1. \A h, d : h - o = d =>
            FileBytes(Nabu(seg), o, h) = [k \in 1 .. d |-> <<Nabu(seg), o + k - 1>>]
      BY DEF FileBytes
    <3>2. PICK h : h = o + n
      OBVIOUS
    <3>3. h - o = n
      BY <1>1, <1>2, <3>2
    <3> QED BY <3>1, <3>2, <3>3, Zenon
  <2> QED BY <2>2, <2>3, <2>4
<1>5. TruePacket(seg, num) = Packet(seg, num, end >= size, FileBytes(Nabu(seg), o, o + n))
  BY <1>3 DEF TruePacket, o, end
<1>6. Packet(seg, num, LastPacket(num, size), BufferBytes(buf, o, n)) = TruePacket(seg, num)
  <2>1. LastPacket(num, size) \in BOOLEAN /\ (end >= size) \in BOOLEAN
    BY DEF LastPacket
  <2>2. LastPacket(num, size) = (end >= size)
    BY <1>3, <2>1
  <2> QED BY <1>4, <1>5, <2>2
<1>7. seg # 0 /\ size # 0 /\ size - o # 0
  BY <1>1, <1>2
<1> QED BY <1>1, <1>6, <1>7 DEF PacketizeSegment, n

\* The blocks of a .pak, one after the other.
LEMMA FirstBlock ==
  ASSUME NEW f
  PROVE  <<>> \o <<Auth, Raw(BlockBytes(f, 1))>> = OpenLine(f, 1)
<1>1. OpenLine(f, 1) = [k \in 1 .. 2 |-> IF k = 1 THEN Auth ELSE Raw(BlockBytes(f, k - 1))]
  BY DEF OpenLine
<1>2. Raw(BlockBytes(f, 2 - 1)) = Raw(BlockBytes(f, 1))
  OBVIOUS
<1> QED BY <1>1, <1>2

\* OpenLine is a sequence.
LEMMA LineIsSeq ==
  ASSUME NEW f, NEW n \in Nat
  PROVE  \E S : OpenLine(f, n) \in Seq(S) /\ Len(OpenLine(f, n)) = n + 1
<1> DEFINE S == {OpenLine(f, n)[k] : k \in 1 .. n + 1}
<1>1. DOMAIN OpenLine(f, n) = 1 .. n + 1 /\ OpenLine(f, n) = [k \in 1 .. n + 1 |-> OpenLine(f, n)[k]]
  BY DEF OpenLine
<1>2. n + 1 \in Nat /\ \A k \in 1 .. n + 1 : OpenLine(f, n)[k] \in S
  OBVIOUS
<1> HIDE DEF S
<1>3. OpenLine(f, n) \in [1 .. n + 1 -> S]
  BY <1>1, <1>2
<1>4. OpenLine(f, n) \in Seq(S)
  BY <1>2, <1>3
<1>5. Len(OpenLine(f, n)) = n + 1
  BY <1>1, <1>2, <1>4
<1> QED BY <1>4, <1>5

LEMMA NextBlock ==
  ASSUME NEW f, NEW n \in Nat \ {0}
  PROVE  OpenLine(f, n) \o <<Raw(BlockBytes(f, n + 1))>> = OpenLine(f, n + 1)
<1> DEFINE s == OpenLine(f, n)
           t == OpenLine(f, n + 1)
           x == Raw(BlockBytes(f, n + 1))
<1>1. PICK S : s \in Seq(S) /\ Len(s) = n + 1
  BY LineIsSeq
<1>2. PICK T : t \in Seq(T) /\ Len(t) = n + 2
  <2>1. n + 1 \in Nat /\ n + 1 + 1 = n + 2
    OBVIOUS
  <2> QED BY <2>1, LineIsSeq
<1>3. \A k \in 1 .. n + 1 : t[k] = s[k]
  BY DEF OpenLine
<1>4. t[n + 2] = x
  <2>1. n + 2 \in 1 .. n + 1 + 1 /\ n + 2 # 1 /\ n + 2 - 1 = n + 1
    OBVIOUS
  <2> QED BY <2>1 DEF OpenLine
<1> HIDE DEF s, t, x
<1>5. s \o <<x>> \in Seq(S \cup {x}) /\ Len(s \o <<x>>) = n + 2
  BY <1>1
<1>6. ASSUME NEW k \in 1 .. n + 2 PROVE (s \o <<x>>)[k] = t[k]
  BY <1>1, <1>3, <1>4
<1> QED BY <1>2, <1>5, <1>6 DEF s, t, x

LEMMA WholeLine ==
  ASSUME NEW f \in DOMAIN Stored
  PROVE  OpenLine(f, LastBlock(f)) \o <<Epilog>> = WholePak(f)
<1> DEFINE n == LastBlock(f)
           s == OpenLine(f, n)
           r == RawBytes(f)
<1>1. n \in Nat \ {0}
  BY Blocks
<1>2. PICK S : s \in Seq(S) /\ Len(s) = n + 1
  BY <1>1, LineIsSeq
<1>3. DOMAIN r = 1 .. n /\ \A k \in 1 .. n : r[k] = Raw(BlockBytes(f, k))
  BY DEF RawBytes
<1>4. \A k \in 1 .. n : s[k + 1] = r[k]
  <2> SUFFICES ASSUME NEW k \in 1 .. n PROVE s[k + 1] = r[k]
    OBVIOUS
  <2>1. k + 1 \in 1 .. n + 1 /\ k + 1 # 1 /\ k + 1 - 1 = k
    BY <1>1
  <2> QED BY <1>3, <2>1 DEF OpenLine
<1>5. s[1] = Auth
  <2>1. 1 \in 1 .. n + 1
    BY <1>1
  <2> QED BY <2>1 DEF OpenLine
<1>6. r \in Seq(S)
  <2>1. r = [k \in 1 .. n |-> r[k]]
    BY DEF RawBytes
  <2>2. \A k \in 1 .. n : r[k] \in S
    <3> HIDE DEF s, r, n
    <3> QED BY <1>1, <1>2, <1>4
  <2> HIDE DEF r, n, s
  <2> QED BY <1>1, <2>1, <2>2
<1> HIDE DEF n, s, r
<1>7. Len(r) = n
  BY <1>1, <1>3, <1>6
<1>8. <<Auth>> \o r \in Seq(S) /\ Len(<<Auth>> \o r) = n + 1
  <2>1. Auth \in S
    BY <1>1, <1>2, <1>5
  <2> QED BY <1>1, <1>6, <1>7, <2>1
<1>9. ASSUME NEW k \in 1 .. n + 1 PROVE (<<Auth>> \o r)[k] = s[k]
  <2>1. CASE k = 1
    BY <1>1, <1>5, <1>6, <2>1
  <2>2. CASE k # 1
    <3>1. k - 1 \in 1 .. n /\ k - 1 + 1 = k
      BY <1>1, <2>2
    <3>2. (<<Auth>> \o r)[k] = r[k - 1]
      BY <1>6, <1>7, <2>2, <3>1
    <3> QED BY <1>4, <3>1, <3>2
  <2> QED BY <2>1, <2>2
<1>10. <<Auth>> \o r = s
  BY <1>1, <1>2, <1>8, <1>9
<1> QED BY <1>10 DEF WholePak, s, r, n

-----------------------------------------------------------------------------
LEMMA AnswerStart == Answerable /\ GatewayStart => AnswerInv
BY CacheStart DEF Answerable, GatewayStart, AnswerInv, LineInv, ServedLine, FetchLine,
   OpenTransferLine, DoneLine, CorrectAnswer

LEMMA RequestAnswer == Answerable /\ AnswerInv /\ NabuRequest => LineInv' /\ CorrectAnswer'
<1> SUFFICES ASSUME Answerable, AnswerInv, NabuRequest PROVE LineInv' /\ CorrectAnswer'
  OBVIOUS
<1>1. PICK r \in Requests :
        RequestTime(r) \/ RequestCached(r) \/ RequestSegment(r) \/ RequestPacket(r)
  BY DEF NabuRequest
<1>2. pc = "listen" /\ request' = r
  BY <1>1 DEF RequestTime, RequestCached, RequestSegment, RequestPacket, Asked
<1>3. CASE RequestTime(r)
  <2>1. pc' = "listen" /\ IsTime(r)
    BY <1>2, <1>3 DEF RequestTime
  <2>2. uart' \in Promise(r, AtHand')
    BY <1>3, <2>1 DEF RequestTime, Promise
  <2> QED BY <1>2, <2>1, <2>2 DEF LineInv, ServedLine, FetchLine, OpenTransferLine, DoneLine,
             CorrectAnswer
<1>4. CASE RequestCached(r)
  <2>1. /\ pc' = "listen" /\ ~IsTime(r) /\ ~PacketMode /\ SegmentNumber = r.seg
        /\ UNCHANGED <<PacketMode, SegmentNumber>>
    BY <1>2, <1>4 DEF RequestCached, Cached
  <2>2. PICK ack \in BOOLEAN :
          uart' = PacketizeSegment(SegmentNumber, r.pkt, SegmentWritePtr, SegmentBuffer, ack)
    BY <1>4 DEF RequestCached
  <2>3. r.seg \in Segments /\ r.seg # 0 /\ r.pkt \in Nat
    BY NumbersAssumption DEF Requests, Answerable, Calm
  <2>4. /\ Nabu(r.seg) \in DOMAIN Stored /\ SegmentWritePtr = Stored[Nabu(r.seg)]
        /\ \A i \in 0 .. SegmentWritePtr - 1 : SegmentBuffer[i] = <<Nabu(r.seg), i>>
    BY <1>2, <2>1, <2>3 DEF AnswerInv, CacheInv, CacheCoherent
  <2>5. SegmentWritePtr \in 1 .. MAXSEGMENTSIZE - 1
    <3>1. SegmentWritePtr \in Nat /\ SegmentWritePtr > 0 /\ SegmentWritePtr < MAXSEGMENTSIZE
      BY <2>3, <2>4, Blocks DEF Answerable, Calm
    <3> QED BY <3>1, PacketizerAssumption
  <2>6. InSegment(r) => uart' = SendPacketized(TruePacket(r.seg, r.pkt), ack)
    <3> SUFFICES ASSUME r.pkt * MAXPAYLOAD < SegmentWritePtr
                 PROVE  uart' = SendPacketized(TruePacket(r.seg, r.pkt), ack)
      BY <2>4 DEF InSegment
    <3> QED BY <2>1, <2>2, <2>3, <2>4, <2>5, Packetized
  <2>7. AtHand' = r.seg /\ Cached(r)'
    BY <2>1 DEF AtHand, Cached
  <2>8. InSegment(r) => uart' \in Promise(r, AtHand')
    BY <2>1, <2>4, <2>6, <2>7 DEF Promise
  <2> QED BY <1>2, <2>1, <2>7, <2>8 DEF LineInv, ServedLine, FetchLine, OpenTransferLine,
             DoneLine, CorrectAnswer, Cached
<1>5. CASE RequestSegment(r) \/ RequestPacket(r)
  <2>1. /\ pc' = "get" /\ ~IsTime(r) /\ uart' = <<>>
        /\ phase' = "pak" => r.pkt # 0 /\ PacketPrologSent' = FALSE
    BY <1>5 DEF RequestSegment, RequestPacket, BeginGet, PacketOpen
  <2> QED BY <1>2, <2>1 DEF LineInv, ServedLine, FetchLine, OpenTransferLine, DoneLine,
             CorrectAnswer
<1> QED BY <1>1, <1>3, <1>4, <1>5

LEMMA MainAnswer == Answerable /\ AnswerInv /\ MainStep => LineInv' /\ CorrectAnswer'
<1> SUFFICES ASSUME Answerable, AnswerInv, MainStep PROVE LineInv' /\ CorrectAnswer'
  OBVIOUS
<1>1. CASE StoreHandle \/ StoreBlknum \/ StoreMode
  <2>1. pc = "get" /\ pc' = "get" /\ UNCHANGED <<phase, request, ctx_vars>>
    BY <1>1 DEF StoreHandle, StoreBlknum, StoreMode, Stored1, InGet, Quiet
  <2> QED BY <2>1 DEF AnswerInv, LineInv, ServedLine, FetchLine, OpenTransferLine, DoneLine,
             CorrectAnswer, IsTime, ctx_vars
<1>2. CASE SendRequest
  <2>1. /\ pc = "get" /\ pc' = "wait" /\ stores = {} /\ Wanted' = Wanted
        /\ UNCHANGED <<engine_vars, phase, request, ctx_vars>>
    BY <1>2 DEF SendRequest, InGet, Quiet, Wanted
  <2>2. handle' /\ blknum' = 1
    BY <2>1 DEF AnswerInv, CacheInv, Begun, Getting, engine_vars
  <2>3. uart' = <<>> /\ (phase' = "pak" => ~PacketPrologSent')
    BY <2>1 DEF AnswerInv, LineInv, FetchLine, ctx_vars
  <2>4. ServedLine'
    BY <2>1 DEF AnswerInv, LineInv, ServedLine, IsTime
  <2>5. OpenTransferLine'
    <3>1. Sent(Wanted, 1 - 1) = <<>>
      BY DEF Sent
    <3> QED BY <2>1, <2>2, <2>3, <3>1 DEF OpenTransferLine
  <2> QED BY <2>1, <2>2, <2>4, <2>5 DEF LineInv, FetchLine, DoneLine, CorrectAnswer
<1>3. CASE GetFails
  BY <1>3 DEF GetFails, AnswerInv, CacheInv, Begun
<1>4. CASE FallBack
  <2>1. /\ pc = "wait" /\ ~handle /\ pc' = "get" /\ phase = "nabu" /\ phase' = "pak"
        /\ UNCHANGED <<request, uart>> /\ ~request_handled /\ PacketPrologSent' = FALSE
    BY <1>4 DEF FallBack, Polled, BeginGet, PacketOpen, AnswerInv, CacheInv, OwnerInv, UartOwned
  <2>2. Nabu(request.seg) \notin DOMAIN Stored /\ uart = <<>> /\ ~IsTime(request)
    BY <2>1 DEF AnswerInv, LineInv, ServedLine, DoneLine, Wanted
  <2> QED BY <2>1, <2>2 DEF LineInv, ServedLine, FetchLine, OpenTransferLine, DoneLine,
             CorrectAnswer, IsTime
<1>5. CASE Finish
  <2>1. /\ pc = "wait" /\ ~handle /\ pc' = "listen" /\ (phase = "pak" \/ request_handled)
        /\ UNCHANGED <<request, PacketMode, SegmentNumber>>
        /\ uart' = IF request_handled THEN uart ELSE Append(uart, Refuse)
    BY <1>5 DEF Finish, Polled, AnswerInv, CacheInv, OwnerInv, UartOwned
  <2>2. /\ request.seg # 0 /\ ~IsTime(request) /\ phase \in {"nabu", "pak"}
        /\ phase = "nabu" => ~PacketMode /\ SegmentNumber = request.seg /\ request.pkt = 0
        /\ phase = "pak" =>
             PacketMode /\ (request.pkt # 0 \/ Nabu(request.seg) \notin DOMAIN Stored)
    BY <2>1 DEF AnswerInv, CacheInv, Begun, Serving, LineInv, ServedLine, Answerable, Calm,
                Requests, GatewayInv, GatewayTypeOK
  <2>3. AtHand' = AtHand /\ AtHand = IF phase = "nabu" THEN request.seg ELSE 0
    BY <2>1, <2>2 DEF AtHand
  <2>4. uart' \in Promise(request, AtHand)
    <3>1. CASE phase = "nabu"
      <4>1. /\ Nabu(request.seg) \in DOMAIN Stored
            /\ \E ack \in BOOLEAN : uart = SendPacketized(TruePacket(request.seg, 0), ack)
        BY <2>1, <3>1 DEF AnswerInv, LineInv, DoneLine, Wanted
      <4> QED BY <2>1, <2>2, <2>3, <3>1, <4>1 DEF Promise
    <3>2. CASE phase = "pak" /\ request_handled
      <4>1. Pak(request) \in DOMAIN Stored /\ uart = WholePak(Pak(request))
        BY <2>1, <3>2 DEF AnswerInv, LineInv, DoneLine, Wanted
      <4> QED BY <2>1, <2>2, <2>3, <3>2, <4>1 DEF Promise, WholePak
    <3>3. CASE phase = "pak" /\ ~request_handled
      <4>1. Pak(request) \notin DOMAIN Stored /\ uart = <<>>
        BY <2>1, <3>3 DEF AnswerInv, LineInv, DoneLine, Wanted
      <4>2. uart' = <<Refuse>>
        BY <2>1, <3>3, <4>1
      <4> QED BY <2>2, <2>3, <3>3, <4>1, <4>2 DEF Promise
    <3> QED BY <2>2, <3>1, <3>2, <3>3
  <2>5. CorrectAnswer'
    BY <2>1, <2>2, <2>3, <2>4 DEF CorrectAnswer, Cached
  <2> QED BY <2>1, <2>5 DEF LineInv, ServedLine, FetchLine, OpenTransferLine, DoneLine
<1> QED BY <1>1, <1>2, <1>3, <1>4, <1>5 DEF MainStep

\* A block sent raw continues the line.
LEMMA LineGoesOn ==
  ASSUME NEW f \in DOMAIN Stored, NEW b \in Nat \ {0}, uart = Sent(f, b - 1),
         PacketPrologSent <=> b # 1
  PROVE  uart \o WriteRaw(BlockBytes(f, b)) = OpenLine(f, b)
<1>1. CASE b = 1
  <2>1. uart = <<>> /\ WriteRaw(BlockBytes(f, b)) = <<Auth, Raw(BlockBytes(f, 1))>>
    BY <1>1 DEF Sent, WriteRaw
  <2> QED BY <1>1, <2>1, FirstBlock
<1>2. CASE b # 1
  <2>1. PICK n \in Nat \ {0} : b = n + 1 /\ b - 1 = n
    <3>1. b - 1 \in Nat \ {0} /\ b = (b - 1) + 1
      BY <1>2
    <3> QED BY <3>1
  <2>2. uart = OpenLine(f, n) /\ WriteRaw(BlockBytes(f, b)) = <<Raw(BlockBytes(f, n + 1))>>
    BY <1>2, <2>1 DEF Sent, WriteRaw
  <2> QED BY <2>1, <2>2, NextBlock
<1> QED BY <1>1, <1>2

LEMMA ReceiveAnswer == Answerable /\ AnswerInv /\ Receive => LineInv' /\ CorrectAnswer'
<1> SUFFICES ASSUME Answerable, AnswerInv, Receive PROVE LineInv' /\ CorrectAnswer'
  OBVIOUS
<1> USE DEF AnswerInv
<1>1. PICK m \in net : BlockArrives(m) \/ LastArrives(m) \/ ErrorArrives(m)
  BY Arrivals
<1>2. /\ Arrived(m) /\ pc = "wait" /\ handle /\ handling_request
      /\ UNCHANGED <<pc, phase, request>> /\ Wanted' = Wanted
  BY <1>1 DEF BlockArrives, LastArrives, ErrorArrives, Arrived, main_vars, Wanted,
              CacheInv, OwnerInv, UartOwned
<1>3. /\ request \in Requests /\ ~IsTime(request) /\ phase \in {"nabu", "pak"}
      /\ phase = "nabu" =>
           /\ ~PacketMode /\ SegmentNumber = request.seg /\ PacketNumber = 0 /\ uart = <<>>
           /\ request.pkt = 0
      /\ phase = "pak" =>
           /\ PacketMode /\ SegmentNumber = request.seg
           /\ (PacketPrologSent <=> blknum # 1) /\ uart = Sent(Wanted, blknum - 1)
  BY <1>2 DEF CacheInv, Begun, Serving, GatewayInv, GatewayTypeOK, LineInv, ServedLine,
              OpenTransferLine
<1>4. ServedLine' /\ FetchLine' /\ CorrectAnswer'
  BY <1>2 DEF LineInv, ServedLine, FetchLine, CorrectAnswer, IsTime
<1>5. blknum \in 1 .. IF Wanted \in DOMAIN Stored THEN LastBlock(Wanted) ELSE 1
  BY <1>2 DEF CacheInv, Begun, Waiting
<1>6. CASE BlockArrives(m) \/ LastArrives(m)
  <2>1. /\ FreshData(m) /\ Wanted \in DOMAIN Stored /\ m.blk = blknum /\ m.file = Wanted
    BY <1>6 DEF BlockArrives, LastArrives, FreshData, DataMessage, Message
  <2>2. blknum \in Nat \ {0} /\ LastBlock(Wanted) \in Nat \ {0} /\ blknum <= LastBlock(Wanted)
    BY <1>5, <2>1, Blocks
  <2>3. phase = "pak" => uart \o WriteRaw(BlockBytes(Wanted, blknum)) = OpenLine(Wanted, blknum)
    BY <1>3, <2>1, <2>2, LineGoesOn
  <2>4. CASE BlockArrives(m)
    <3>1. /\ WriteBlock(m) /\ DataNext(m.tid, m.blk, TRUE) /\ blknum # LastBlock(Wanted)
      BY <2>4 DEF BlockArrives, WriteBlock
    <3>2. blknum' = blknum + 1 /\ handle'
      <4>1. LastBlock(Wanted) \in 0 .. BlkMod - 1
        BY <2>1 DEF Answerable, Calm, Fitting, Blk
      <4>2. blknum # BlkMod - 1
        BY <2>2, <3>1, <4>1, BlkModAssumption
      <4> QED BY <1>2, <3>1, <4>2 DEF DataNext, NextBlk
    <3>3. blknum' # 1 /\ blknum' - 1 = blknum /\ blknum # 0
      BY <2>2, <3>2
    <3>4. phase = "nabu" => uart' = uart
      BY <1>3, <3>1 DEF WriteBlock
    <3>5. phase = "pak" => uart' = OpenLine(Wanted, blknum) /\ PacketPrologSent'
      BY <1>3, <2>1, <2>3, <3>1 DEF WriteBlock
    <3>6. OpenTransferLine'
      BY <1>2, <1>3, <3>3, <3>4, <3>5 DEF OpenTransferLine, Sent
    <3> QED BY <1>4, <3>2, <3>6 DEF LineInv, DoneLine
  <2>5. CASE LastArrives(m)
    <3>1. /\ DataNext(m.tid, m.blk, FALSE) /\ blknum = LastBlock(Wanted)
          /\ \/ phase = "pak" /\ WriteLastRaw(m)
             \/ phase = "nabu" /\ WriteLastSegment(m)
      BY <1>3, <2>5 DEF LastArrives, WriteLastRaw, WriteLastSegment
    <3>2. ~handle'
      BY <3>1 DEF DataNext, CloseHandle
    <3>3. request.seg \in Segments /\ request.seg # 0
      BY <1>3 DEF Requests, Answerable, Calm
    <3>4. Closing
      BY <1>2, <1>3, <3>3 DEF Closing
    <3>5. CASE phase = "pak" /\ WriteLastRaw(m)
      <4>1. /\ uart' = uart \o WriteRaw(BlockBytes(Wanted, blknum)) \o <<Epilog>>
            /\ request_handled'
        BY <2>1, <3>4, <3>5 DEF WriteLastRaw
      <4>2. uart' = WholePak(Wanted)
        BY <2>1, <2>3, <3>1, <3>5, <4>1, WholeLine
      <4>3. DoneLine'
        BY <1>2, <2>1, <3>5, <4>1, <4>2 DEF DoneLine
      <4> QED BY <1>4, <3>2, <4>3 DEF LineInv, OpenTransferLine
    <3>6. CASE phase = "nabu" /\ WriteLastSegment(m)
      <4>1. PICK f \in DOMAIN Stored, b \in Nat :
              /\ f = Wanted /\ f = Nabu(request.seg)
              /\ b = LastBlock(f) /\ b \in 1 .. LastBlock(f) /\ b = blknum
        BY <2>1, <2>2, <3>1, <3>6 DEF Wanted
      <4>2. WriteSegment(BlockBytes(f, b)) /\ Copied(f, (b - 1) * BLOCK)
        BY <1>2, <2>1, <3>6, <4>1 DEF WriteLastSegment, CacheInv, Filling
      <4>3. Stored[f] \in 1 .. MAXSEGMENTSIZE - 1
        <5>1. Stored[f] \in Nat /\ Stored[f] > 0 /\ Stored[f] < MAXSEGMENTSIZE
          BY <3>3, <4>1, Blocks DEF Answerable, Calm
        <5> QED BY <5>1, PacketizerAssumption
      <4>4. Copied(f, Stored[f])'
        <5>1. Stored[f] < MAXSEGMENTSIZE
          BY <3>3, <4>1 DEF Answerable, Calm
        <5>2. Copied(f, IF b = LastBlock(f) THEN Stored[f] ELSE b * BLOCK)'
          BY <4>1, <4>2, <5>1, CopyBlock DEF CacheInv, GatewayInv
        <5> QED BY <4>1, <5>2
      <4>5. /\ SegmentWritePtr' = Stored[f] /\ SegmentWritePtr' # 0
            /\ \A i \in 0 .. Stored[f] - 1 : SegmentBuffer'[i] = <<f, i>>
        BY <4>3, <4>4 DEF Copied
      <4>6. PICK ack \in BOOLEAN :
              uart' = uart \o PacketizeSegment(SegmentNumber, PacketNumber, SegmentWritePtr',
                                               SegmentBuffer', ack)
        BY <3>4, <3>6, <4>5 DEF WriteLastSegment
      <4>7. PacketizeSegment(request.seg, 0, Stored[f], SegmentBuffer', ack)
              = SendPacketized(TruePacket(request.seg, 0), ack)
        <5>1. 0 * MAXPAYLOAD < Stored[f] /\ 0 \in Nat
          BY <4>3, PacketizerAssumption
        <5> QED BY <3>3, <4>1, <4>3, <4>5, <5>1, Packetized
      <4>8. uart' = SendPacketized(TruePacket(request.seg, 0), ack)
        <5>1. \A s : IsSeq(s) => <<>> \o s = s
          BY DEF IsSeq
        <5> QED BY <1>3, <3>6, <4>5, <4>6, <4>7, <5>1, AtOnceSent
      <4>9. request_handled'
        BY <3>4, <3>6, <4>5 DEF WriteLastSegment
      <4>10. DoneLine'
        BY <1>2, <2>1, <3>6, <4>8, <4>9 DEF DoneLine
      <4> QED BY <1>4, <3>2, <4>10 DEF LineInv, OpenTransferLine
    <3> QED BY <3>1, <3>5, <3>6
  <2> QED BY <1>6, <2>4, <2>5
<1>7. CASE ErrorArrives(m)
  <2>1. Wanted \notin DOMAIN Stored /\ ~handle' /\ ~request_handled' /\ uart' = uart
    BY <1>7 DEF ErrorArrives, TransferError, RecvError, CloseHandle, CtxError
  <2>2. uart = <<>>
    <3>1. blknum = 1
      BY <1>5, <2>1
    <3>2. Sent(Wanted, 1 - 1) = <<>>
      BY DEF Sent
    <3> QED BY <1>3, <3>1, <3>2
  <2> QED BY <1>2, <1>4, <2>1, <2>2 DEF LineInv, OpenTransferLine, DoneLine
<1> QED BY <1>1, <1>6, <1>7

LEMMA AnswerStep == Answerable /\ AnswerInv /\ [GatewayNext]_gateway_vars => AnswerInv'
<1> SUFFICES ASSUME Answerable, AnswerInv, [GatewayNext]_gateway_vars PROVE AnswerInv'
  OBVIOUS
<1>1. CacheInv'
  BY CacheStep DEF AnswerInv, Answerable
<1>2. CASE Server \/ Fault \/ ServerTimeout \/ UNCHANGED gateway_vars
  <2>1. UNCHANGED <<engine_vars, main_vars, ctx_vars>>
    BY <1>2 DEF Server, Fault, ServerTimeout, Unchanged, gateway_vars
  <2>2. UNCHANGED <<handle, blknum, pc, phase, request, request_handled, PacketMode,
                    SegmentNumber, PacketPrologSent, uart>>
    BY <2>1 DEF engine_vars, main_vars, ctx_vars
  <2>3. Wanted' = Wanted /\ AtHand' = AtHand /\ IsTime(request)' = IsTime(request)
    BY <2>2 DEF Wanted, AtHand, IsTime
  <2>4. LineInv'
    BY <2>2, <2>3 DEF AnswerInv, LineInv, ServedLine, FetchLine, OpenTransferLine, DoneLine
  <2>5. CorrectAnswer'
    BY <2>2, <2>3 DEF AnswerInv, CorrectAnswer, Cached
  <2> QED BY <1>1, <2>4, <2>5 DEF AnswerInv
<1>3. CASE Reset
  <2>1. pc' = "listen" /\ request' = NoRequest
    BY <1>3 DEF Reset
  <2> QED BY <1>1, <2>1 DEF AnswerInv, LineInv, ServedLine, FetchLine, OpenTransferLine,
             DoneLine, CorrectAnswer
<1> QED BY <1>1, <1>2, <1>3, RequestAnswer, MainAnswer, ReceiveAnswer DEF GatewayNext, AnswerInv

\* With nothing but the power going wrong, every request for a packet that
\* exists, or for none, ends with its whole answer on the line, from the right
\* file, and nothing else: at every size, number of blocks and sequence of
\* requests and resets.
THEOREM AnswersAreCorrect == Answerable /\ GatewaySpec => []CorrectAnswer
<1> SUFFICES ASSUME Answerable PROVE GatewaySpec => []CorrectAnswer
  OBVIOUS
<1>1. GatewayStart => AnswerInv
  BY AnswerStart
<1>2. AnswerInv /\ [GatewayNext]_gateway_vars => AnswerInv'
  BY AnswerStep
<1>3. AnswerInv => CorrectAnswer
  BY DEF AnswerInv
<1> QED BY <1>1, <1>2, <1>3, PTL DEF GatewaySpec

-----------------------------------------------------------------------------
\* While a .pak is being sent, the line carries the beginning of the answer.
LEMMA LineBegins ==
  ASSUME NEW f \in DOMAIN Stored, NEW n \in Nat, n <= LastBlock(f)
  PROVE  PacketService!Prefix(Sent(f, n), WholePak(f))
<1>1. PICK last \in Nat : last = LastBlock(f)
  BY Blocks
<1>2. PICK s : s = OpenLine(f, last)
  OBVIOUS
<1>3. PICK S : s \in Seq(S) /\ Len(s) = last + 1
  BY <1>2, LineIsSeq
<1>4. WholePak(f) = s \o <<Epilog>>
  BY <1>1, <1>2, WholeLine
<1>5. /\ Len(s \o <<Epilog>>) = last + 2
      /\ \A k \in 1 .. last + 1 : (s \o <<Epilog>>)[k] = s[k]
  BY <1>3
<1>6. CASE n = 0
  <2>1. Sent(f, n) = <<>> /\ Len(<<>>) = 0
    BY <1>6 DEF Sent
  <2> QED BY <1>4, <1>5, <2>1 DEF PacketService!Prefix
<1>7. CASE n # 0
  <2>1. PICK t : t = OpenLine(f, n)
    OBVIOUS
  <2>2. Len(t) = n + 1
    BY <2>1, LineIsSeq
  <2>3. \A k \in 1 .. n + 1 : t[k] = s[k]
    BY <1>1, <1>2, <2>1 DEF OpenLine
  <2>4. Sent(f, n) = t
    BY <1>7, <2>1 DEF Sent
  <2>5. \A k \in 1 .. n + 1 : (s \o <<Epilog>>)[k] = t[k]
    BY <1>1, <1>5, <2>3
  <2> QED BY <1>1, <1>4, <1>5, <2>2, <2>4, <2>5 DEF PacketService!Prefix
<1> QED BY <1>6, <1>7

LEMMA EmptyBegins ==
  ASSUME NEW r \in Requests, ~IsTime(r), NEW held
  PROVE  \E answer \in Promise(r, held) : PacketService!Prefix(<<>>, answer)
<1>1. \A s : Len(s) \in Nat => PacketService!Prefix(<<>>, s)
  BY DEF PacketService!Prefix
<1>2. Len(<<Refuse>>) \in Nat
  OBVIOUS
<1>3. Pak(r) \in DOMAIN Stored => PacketService!Prefix(<<>>, WholePak(Pak(r)))
  <2> SUFFICES ASSUME Pak(r) \in DOMAIN Stored
               PROVE  PacketService!Prefix(<<>>, WholePak(Pak(r)))
    OBVIOUS
  <2>1. Sent(Pak(r), 0) = <<>> /\ 0 <= LastBlock(Pak(r))
    BY Blocks DEF Sent
  <2> QED BY <2>1, LineBegins
<1>4. \A packet : PacketService!Prefix(<<>>, SendPacketized(packet, TRUE))
  <2>1. \A packet : Len(<<Auth, packet, Epilog>>) \in Nat
    OBVIOUS
  <2> QED BY <1>1, <2>1 DEF SendPacketized
<1> QED BY <1>1, <1>2, <1>3, <1>4 DEF Promise, WholePak

LEMMA PromiseKept == Answerable /\ AnswerInv => PacketService!Kept
<1> SUFFICES ASSUME Answerable, AnswerInv, request \in Requests, InSegment(request)
             PROVE  \E answer \in Promise(request, AtHand) :
                      IF pc # "listen" THEN PacketService!Prefix(uart, answer)
                                       ELSE uart = answer
  BY DEF PacketService!Kept
<1> USE DEF AnswerInv, CacheInv, LineInv
<1>1. CASE pc = "listen"
  <2>1. request # NoRequest
    BY NumbersAssumption DEF Requests
  <2> QED BY <1>1, <2>1 DEF CorrectAnswer
<1>2. CASE pc # "listen"
  <2>1. ~IsTime(request) /\ request.seg # 0
    BY <1>2 DEF ServedLine, Answerable, Calm, Requests
  <2>2. /\ phase \in {"nabu", "pak"} /\ pc \in {"get", "wait"}
        /\ phase = "nabu" =>
             Wanted = Nabu(request.seg) /\ AtHand = request.seg /\ request.pkt = 0
        /\ phase = "pak" => Wanted = Pak(request) /\ AtHand = 0
    BY <1>2 DEF GatewayInv, GatewayTypeOK, Begun, Serving, Wanted, AtHand
  <2>3. CASE uart = <<>>
    BY <1>2, <2>1, <2>3, EmptyBegins
  <2>4. CASE uart # <<>>
    <3>1. pc = "wait" /\ Wanted \in DOMAIN Stored
      <4>1. pc = "wait"
        BY <2>2, <2>4 DEF FetchLine
      <4>2. ~handle => Wanted \in DOMAIN Stored
        BY <2>4, <4>1 DEF DoneLine
      <4>3. handle /\ Wanted \notin DOMAIN Stored => uart = <<>>
        <5> SUFFICES ASSUME handle, Wanted \notin DOMAIN Stored PROVE uart = <<>>
          OBVIOUS
        <5>1. blknum = 1
          BY <4>1 DEF Begun, Waiting
        <5>2. Sent(Wanted, 1 - 1) = <<>>
          BY DEF Sent
        <5> QED BY <2>2, <4>1, <5>1, <5>2 DEF OpenTransferLine
      <4> QED BY <2>4, <4>1, <4>2, <4>3
    <3>2. CASE phase = "nabu"
      <4>1. ~handle /\ request_handled
        BY <2>4, <3>1, <3>2 DEF OpenTransferLine, DoneLine
      <4>2. PICK ack \in BOOLEAN : uart = SendPacketized(TruePacket(request.seg, 0), ack)
        BY <3>1, <3>2, <4>1 DEF DoneLine
      <4>3. PacketService!Prefix(uart, uart)
        BY <4>2, AtOnceSent, Same
      <4>4. uart \in Promise(request, AtHand)
        BY <2>1, <2>2, <3>1, <3>2, <4>2 DEF Promise
      <4> QED BY <1>2, <4>3, <4>4
    <3>3. CASE phase = "pak"
      <4>1. Promise(request, AtHand) = {WholePak(Wanted)}
        BY <2>1, <2>2, <3>1, <3>3 DEF Promise, WholePak
      <4>2. LastBlock(Wanted) \in Nat \ {0}
        BY <3>1, Blocks
      <4>3. CASE handle
        <5>1. blknum \in 1 .. LastBlock(Wanted) /\ uart = Sent(Wanted, blknum - 1)
          BY <3>1, <3>3, <4>3 DEF Begun, Waiting, OpenTransferLine
        <5>2. blknum - 1 \in Nat /\ blknum - 1 <= LastBlock(Wanted)
          BY <4>2, <5>1
        <5> QED BY <1>2, <3>1, <4>1, <5>1, <5>2, LineBegins
      <4>4. CASE ~handle
        <5>1. uart = WholePak(Wanted)
          BY <2>4, <3>1, <3>3, <4>4 DEF DoneLine
        <5>2. PICK last \in Nat : last = LastBlock(Wanted)
          BY <4>2
        <5>3. uart = OpenLine(Wanted, last) \o <<Epilog>>
          BY <3>1, <5>1, <5>2, WholeLine
        <5>4. IsSeq(OpenLine(Wanted, last)) /\ IsSeq(<<Epilog>>)
          BY LineIsSeq, Tuples DEF IsSeq
        <5>5. PacketService!Prefix(uart, uart)
          BY <5>3, <5>4, Extended, Same
        <5> QED BY <1>2, <4>1, <5>1, <5>5
      <4> QED BY <4>3, <4>4
    <3> QED BY <2>2, <3>2, <3>3
  <2> QED BY <2>3, <2>4
<1> QED BY <1>1, <1>2

\* With nothing but the power going wrong, the gateway implements the safety
\* part of the promise: it takes turns, at each moment the line carries the
\* beginning of a right answer, and when it listens again the whole of it.
THEOREM GatewayKeepsPromise == Answerable /\ GatewaySpec => PacketService!PromiseSpec
<1> SUFFICES ASSUME Answerable PROVE GatewaySpec => PacketService!PromiseSpec
  OBVIOUS
<1>1. GatewayStart => AnswerInv /\ TurnInv /\ PacketService!ServiceStart
  BY AnswerStart, OwnerStart, Tuples DEF GatewayStart, TurnInv, PacketService!ServiceStart,
     PacketService!NoSegment, AtHand
<1>2. AnswerInv /\ TurnInv /\ [GatewayNext]_gateway_vars =>
        /\ AnswerInv' /\ TurnInv'
        /\ [PacketService!TurnsNext /\ PacketService!Kept']_(PacketService!service_vars)
  <2> SUFFICES ASSUME AnswerInv, TurnInv, [GatewayNext]_gateway_vars
               PROVE  /\ AnswerInv' /\ TurnInv'
                      /\ PacketService!Kept'
                      /\ [PacketService!TurnsNext]_(PacketService!service_vars)
    OBVIOUS
  <2>1. AnswerInv'
    BY AnswerStep
  <2>2. TurnInv' /\ [PacketService!TurnsNext]_(PacketService!service_vars)
    BY TurnStep DEF Answerable, Calm
  <2>3. AnswerInv' => PacketService!Kept'
    BY PromiseKept, PTL
  <2> QED BY <2>1, <2>2, <2>3
<1> QED BY <1>1, <1>2, PTL DEF GatewaySpec, PacketService!PromiseSpec
=============================================================================
