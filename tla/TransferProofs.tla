--------------------------- MODULE TransferProofs ---------------------------
(***************************************************************************)
(* Proofs about Transfer, for files of every length that the block numbers *)
(* can count, every network that makes up no datagrams, every timeout, and *)
(* a client that may run out of memory at any send.                        *)
(***************************************************************************)
EXTENDS Transfer, TLAPS

USE DEF Blk

-----------------------------------------------------------------------------
\* The inductive invariant.  The client waits for the block after its copy's
\* last, and has stopped either with an error or with the last block written.
ClientInv ==
  /\ blknum \in Nat
  /\ tftp_mode = "off" => ~Asked
  /\ ~Asked => ~handle /\ ~failed /\ Len(copy) = 0
  /\ handle => mode_write /\ ~failed /\ blknum = Len(copy) + 1 /\ Len(copy) < Blocks
  /\ ClosedIsWhole
  /\ failed => ~handle /\ Len(copy) < Blocks

CopyInv == copy \in Seq(Nat) /\ CopyInOrder

\* Under way are blocks with their own numbers, and ACKs of what is written.
NetInv ==
  /\ \A m \in toClient :
       m.datagram.op = "DATA" => m.block \in 1 .. Blocks /\ m.datagram.blk = m.block
  /\ \A m \in toServer : m.op = "ACK" => m.blk \in 1 .. Len(copy)

\* The server keeps the block it has read last, which is full unless the last.
ServerInv ==
  /\ ~s_handle => s_last_data = NoData
  /\ s_handle =>
       /\ ~s_mode_write /\ position \in 1 .. Blocks /\ s_blknum = position
       /\ s_last_data = [blk |-> position, full |-> position < Blocks]

TransferInv ==
  /\ ClientInv /\ CopyInv /\ NetInv /\ ServerInv
  /\ served => Len(copy) = Blocks

LEMMA TransferInvStart == TransferStart => TransferInv
<1> SUFFICES ASSUME TransferStart PROVE TransferInv
  OBVIOUS
<1>1. copy = <<>> /\ Len(copy) = 0 /\ copy \in Seq(Nat)
  BY DEF TransferStart
<1>2. copy = [i \in 1 .. Len(copy) |-> i]
  BY <1>1
<1> QED
  BY <1>1, <1>2 DEF TransferStart, TftpStart, Server!TftpStart, TransferInv, ClientInv, CopyInv, NetInv,
     ServerInv, CopyInOrder, ClosedIsWhole, Asked

-----------------------------------------------------------------------------
\* A block number counts on as a number does while the file lasts.
LEMMA NextIs ==
  ASSUME NEW b \in Nat, b <= Blocks
  PROVE  /\ b < Blocks => NextBlk(b) = b + 1
         /\ NextBlk(b) = b + 1 \/ NextBlk(b) = 0
BY TransferAssumption, BlkModAssumption DEF NextBlk

\* The client's messages: what is new among them is the last step's reply.
LEMMA ClientSent ==
  ASSUME TransferInv, ClientSends,
         Len(copy) \in Nat, Len(copy') \in Nat, Len(copy) <= Len(copy'),
         reply' # NoReply => reply'.op # "ACK" \/ reply'.blk \in 1 .. Len(copy')
  PROVE  NetInv'
<1>1. \A m \in toServer' : m \in toServer \/ (m = reply' /\ m # NoReply)
  BY DEF ClientSends
<1>2. toClient' = toClient
  BY DEF ClientSends
<1>3. \A m \in toServer : m.op = "ACK" => m.blk \in 1 .. Len(copy')
  BY DEF TransferInv, NetInv
<1>4. \A m \in toServer' : m.op = "ACK" => m.blk \in 1 .. Len(copy')
  BY <1>1, <1>3
<1>5. \A m \in toClient' :
        m.datagram.op = "DATA" => m.block \in 1 .. Blocks /\ m.datagram.blk = m.block
  BY <1>2 DEF TransferInv, NetInv
<1> QED
  BY <1>4, <1>5 DEF NetInv

LEMMA CopyFits ==
  ASSUME TransferInv
  PROVE  Len(copy) \in Nat /\ Len(copy) <= Blocks
<1>1. Len(copy) \in Nat
  BY DEF TransferInv, CopyInv
<1>2. CASE ~Asked
  BY <1>1, <1>2, TransferAssumption DEF TransferInv, ClientInv
<1>3. CASE Asked /\ handle
  BY <1>1, <1>3, TransferAssumption DEF TransferInv, ClientInv
<1>4. CASE Asked /\ ~handle
  BY <1>1, <1>4, TransferAssumption DEF TransferInv, ClientInv, ClosedIsWhole
<1> QED
  BY <1>2, <1>3, <1>4

LEMMA ServerKept ==
  ASSUME TransferInv, ClientSends, NetInv', ClientInv', CopyInv',
         Len(copy) = Blocks => Len(copy') = Blocks
  PROVE  TransferInv'
BY DEF TransferInv, ClientSends, server_vars, ServerInv

\* A datagram that is only answered changes nothing at the client.
LEMMA ClientAnswers ==
  ASSUME TransferInv, UNCHANGED <<Connection, copy, failed, tftp_mode>>, ClientSends,
         reply' # NoReply => reply'.op # "ACK" \/ reply'.blk \in 1 .. Len(copy)
  PROVE  TransferInv'
<1>1. copy' = copy /\ Len(copy) \in Nat
  BY DEF TransferInv, CopyInv
<1>2. NetInv'
  BY <1>1, ClientSent
<1>3. ClientInv' /\ CopyInv'
  BY DEF TransferInv, ClientInv, CopyInv, CopyInOrder, ClosedIsWhole, Asked, Connection
<1> QED
  BY <1>1, <1>2, <1>3, ServerKept

LEMMA GetKeeps == TransferInv /\ Get => TransferInv'
<1> SUFFICES ASSUME TransferInv, Get PROVE TransferInv'
  OBVIOUS
<1>1. copy' = copy /\ failed' = failed /\ ClientSends /\ Len(copy) \in Nat
  BY DEF Get, TransferInv, CopyInv
<1>2. CopyInv'
  BY <1>1 DEF TransferInv, CopyInv, CopyInOrder
<1>3. CASE TftpInit("client")
  <2>1. tftp_mode = "off" /\ handle' = FALSE /\ blknum' = blknum /\ reply' = NoReply
    BY <1>3 DEF TftpInit
  <2>2. ~Asked /\ ~failed /\ Len(copy) = 0 /\ ~Asked' /\ blknum' \in Nat
    BY <2>1 DEF TransferInv, ClientInv, Asked
  <2>3. ClientInv'
    BY <1>1, <2>1, <2>2 DEF ClientInv, ClosedIsWhole
  <2>4. NetInv'
    BY <1>1, <2>1, ClientSent
  <2> QED
    BY <1>1, <1>2, <2>3, <2>4, ServerKept
<1>4. CASE ~Asked /\ TftpGet(Other)
  <2>1. /\ handle' = TRUE /\ blknum' = 1 /\ mode_write' = TRUE
        /\ tftp_mode' = tftp_mode /\ tftp_mode # "off"
        /\ reply' = Datagram(Other, "RRQ", 0) \/ reply' = NoReply
    BY <1>4 DEF TftpGet, Request, Send
  <2>2. ~failed /\ Len(copy) = 0
    BY <1>4 DEF TransferInv, ClientInv
  <2>3. blknum' = Len(copy) + 1 /\ Len(copy) < Blocks /\ blknum' \in Nat
    BY <2>1, <2>2, TransferAssumption
  <2>4. ClientInv'
    BY <1>1, <2>1, <2>2, <2>3 DEF ClientInv, ClosedIsWhole, Asked
  <2>5. NetInv'
    BY <1>1, <2>1, ClientSent DEF Datagram
  <2> QED
    BY <1>1, <1>2, <2>4, <2>5, ServerKept
<1> QED
  BY <1>3, <1>4 DEF Get

LEMMA Counting ==
  ASSUME NEW s \in Seq(Nat), \A i \in 1 .. Len(s) : s[i] = i
  PROVE  s = [i \in 1 .. Len(s) |-> i]
<1>1. s = [i \in 1 .. Len(s) |-> s[i]]
  OBVIOUS
<1> QED
  BY <1>1

\* The awaited block is written: it is the file's next.
LEMMA WriteKeeps ==
  ASSUME TransferInv, NEW b \in 1 .. Blocks, ClientSends, UNCHANGED failed,
         DataNext(Other, b, b < Blocks), copy' = Append(copy, b)
  PROVE  TransferInv'
<1>1. PICK n \in Nat : n = Len(copy)
  BY DEF TransferInv, CopyInv
<1>2. /\ handle /\ mode_write /\ mode_write' = mode_write /\ b = blknum
      /\ tftp_mode' = tftp_mode
      /\ reply' = Datagram(Other, "ACK", b) \/ reply' = NoReply
    BY DEF DataNext, DataWanted, Accepts, Send
<1>3. /\ b = n + 1 /\ n < Blocks /\ ~failed /\ ~failed'
      /\ tftp_mode # "off" /\ copy \in Seq(Nat) /\ copy = [i \in 1 .. n |-> i]
  BY <1>1, <1>2, TransferAssumption DEF TransferInv, ClientInv, CopyInv, CopyInOrder, Asked
<1>4. Len(copy') = n + 1 /\ copy' \in Seq(Nat) /\ \A i \in 1 .. n + 1 : copy'[i] = i
  BY <1>1, <1>3
<1>5. CopyInv'
  <2>1. \A i \in 1 .. Len(copy') : copy'[i] = i
    BY <1>1, <1>4
  <2> QED
    BY <1>4, <2>1, Counting DEF CopyInv, CopyInOrder
<1>6. CASE b < Blocks
  <2>1. handle' = handle /\ blknum' = NextBlk(b)
    BY <1>2, <1>6 DEF DataNext
  <2>b. NextBlk(b) = b + 1
    BY <1>6, NextIs, TransferAssumption
  <2>2. ClientInv'
    BY <1>2, <1>3, <1>4, <1>6, <2>1, <2>b, TransferAssumption DEF ClientInv, ClosedIsWhole, Asked
  <2> QED
    BY <1>1, <1>2, <1>3, <1>4, <1>5, <2>2, ClientSent, ServerKept DEF Datagram
<1>7. CASE ~(b < Blocks)
  <2>1. handle' = FALSE /\ blknum' = b
    BY <1>2, <1>7 DEF DataNext, CloseHandle
  <2>2. ClientInv'
    BY <1>2, <1>3, <1>4, <1>7, <2>1, TransferAssumption DEF ClientInv, ClosedIsWhole, Asked
  <2> QED
    BY <1>1, <1>2, <1>3, <1>4, <1>5, <2>2, ClientSent, ServerKept DEF Datagram
<1> QED
  BY <1>6, <1>7

\* The client's own failure to write closes the transfer.
LEMMA FailKeeps ==
  ASSUME TransferInv, NEW b \in 1 .. Blocks, ClientSends, failed' = TRUE, UNCHANGED copy,
         DataFailed(Other, b, b < Blocks)
  PROVE  TransferInv'
<1>1. Len(copy) \in Nat /\ CopyInv'
  BY DEF TransferInv, CopyInv, CopyInOrder
<1>2. /\ handle /\ b = blknum /\ tftp_mode' = tftp_mode /\ handle' = FALSE
      /\ reply' # NoReply => reply'.op # "ACK"
  BY DEF DataFailed, DataWanted, Accepts, SendError, Send, Datagram, CloseHandle
<1>3. Len(copy) < Blocks /\ tftp_mode # "off" /\ b \in Nat /\ b > 0
  BY <1>2, TransferAssumption DEF TransferInv, ClientInv, Asked
<1>4. blknum' = b \/ blknum' = b + 1
  <2>1. b < Blocks => NextBlk(b) = b + 1
    BY <1>3, NextIs, TransferAssumption
  <2> QED
    BY <1>2, <2>1 DEF DataFailed
<1>5. blknum' \in Nat /\ blknum' > 0
  BY <1>3, <1>4
<1>6. ClientInv'
  BY <1>2, <1>3, <1>5 DEF ClientInv, ClosedIsWhole, Asked
<1>7. NetInv'
  BY <1>1, <1>2, ClientSent
<1> QED
  BY <1>1, <1>6, <1>7, ServerKept

\* A repeated block draws the ACK of the last one written, and no other.
LEMMA RepeatKeeps ==
  ASSUME TransferInv, NEW b \in 1 .. Blocks, ClientSends, UNCHANGED <<copy, failed>>,
         DataUnwanted(Other) \/ DataRepeat(Other, b) \/ DataWrong(Other, b)
  PROVE  TransferInv'
<1>1. UNCHANGED <<Connection, copy, failed, tftp_mode>>
  BY DEF DataUnwanted, DataRepeat, DataWrong, DataWanted, Rejected, Accepts, Answered
<1>2. ASSUME DataRepeat(Other, b), reply' # NoReply
      PROVE  reply'.blk \in 1 .. Len(copy)
  <2>1. reply'.blk = b /\ handle /\ NextBlk(b) = blknum
    BY <1>2 DEF DataRepeat, DataWanted, Answered, Send, Datagram
  <2>2. blknum = Len(copy) + 1 /\ Len(copy) \in Nat
    BY <2>1 DEF TransferInv, ClientInv, CopyInv
  <2>3. NextBlk(b) = b + 1 \/ NextBlk(b) = 0
    BY NextIs, TransferAssumption
  <2> QED
    BY <2>1, <2>2, <2>3, TransferAssumption
<1>3. ASSUME DataUnwanted(Other) \/ DataWrong(Other, b), reply' # NoReply
      PROVE  reply'.op # "ACK"
  BY <1>3 DEF DataUnwanted, DataWrong, Rejected, Answered, Send, Datagram
<1> QED
  BY <1>1, <1>2, <1>3, ClientAnswers

\* An error ends the transfer, and a client without one does not notice.
LEMMA ErrorKeeps ==
  ASSUME TransferInv, GetError, ClientSends
  PROVE  TransferInv'
<1>1. /\ copy' = copy /\ failed' = (failed \/ handle) /\ reply' = NoReply
      /\ tftp_mode' = tftp_mode /\ blknum' = blknum /\ handle' = FALSE
  BY DEF GetError, RecvError, Accepts, CloseHandle, TransferInv, ClientInv
<1>2. Len(copy) \in Nat /\ CopyInv'
  BY <1>1 DEF TransferInv, CopyInv, CopyInOrder
<1>3. ClientInv'
  BY <1>1 DEF TransferInv, ClientInv, ClosedIsWhole, Asked
<1>4. NetInv'
  BY <1>1, <1>2, ClientSent
<1> QED
  BY <1>1, <1>2, <1>3, <1>4, ServerKept

LEMMA ClientKeeps ==
  ASSUME TransferInv, NEW m \in toClient, ClientRecv(m)
  PROVE  TransferInv'
<1>1. ClientSends
  BY DEF ClientRecv
<1>2. CASE m.datagram.op = "DATA" /\ GetData(m.datagram.blk, m.block)
  <2>1. m.block \in 1 .. Blocks /\ m.datagram.blk = m.block
    BY <1>2 DEF TransferInv, NetInv
  <2> QED
    BY <1>1, <1>2, <2>1, WriteKeeps, FailKeeps, RepeatKeeps DEF GetData
<1>3. CASE GetError
  BY <1>1, <1>3, ErrorKeeps
<1> QED
  BY <1>2, <1>3 DEF ClientRecv

-----------------------------------------------------------------------------
\* The server's messages.
LEMMA ServerSent ==
  ASSUME TransferInv, ServerSends, ServerInv', served' => Len(copy) = Blocks,
         s_reply' # NoReply => s_reply'.op # "DATA"
                                 \/ (position' \in 1 .. Blocks /\ s_reply'.blk = position')
  PROVE  TransferInv'
<1>1. UNCHANGED client_vars /\ toServer' = toServer
  BY DEF ServerSends
<1>2. \A m \in toClient' :
        m \in toClient \/ (m.datagram = s_reply' /\ m.block = position' /\ s_reply' # NoReply)
  BY DEF ServerSends
<1>3. NetInv'
  BY <1>1, <1>2 DEF TransferInv, NetInv, client_vars
<1>4. ClientInv' /\ CopyInv' /\ copy' = copy
  BY <1>1 DEF TransferInv, ClientInv, CopyInv, CopyInOrder, ClosedIsWhole, Asked, client_vars,
     tftp_vars
<1> QED
  BY <1>3, <1>4 DEF TransferInv

\* send_data, with memory at hand, sends the block that it has read.
LEMMA ServerReads ==
  ASSUME ~ServerPbufMayFail, NEW from \in Nat, from < Blocks, NEW t, NEW q,
         Server!SendData(Other, q, from + 1, t), Reads(from), ~s_mode_write'
  PROVE  /\ ServerInv'
         /\ s_reply' # NoReply => s_reply'.op # "DATA"
                                   \/ (position' \in 1 .. Blocks /\ s_reply'.blk = position')
<1>1. from + 1 \in 1 .. Blocks /\ from + 1 \in Blk
  BY TransferAssumption, BlkModAssumption
<1>2. s_blknum' = from + 1
  BY DEF Server!SendData
<1>3. ASSUME NEW full \in BOOLEAN,
             s_last_data' = [blk |-> from + 1, full |-> full],
             Server!Send(Server!Datagram(Other, "DATA", from + 1)), s_handle' = TRUE
      PROVE  /\ ServerInv'
             /\ s_reply' # NoReply => position' \in 1 .. Blocks /\ s_reply'.blk = position'
  <2>1. s_last_data' # NoData
    BY <1>1, <1>3, TransferAssumption
  <2>2. position' = from + 1 /\ full = (position' < Blocks)
    BY <1>3, <2>1 DEF Reads
  <2>3. s_reply' # NoReply => s_reply'.blk = from + 1
    BY <1>3 DEF Server!Send, Server!Datagram
  <2> QED
    BY <1>1, <1>2, <1>3, <2>2, <2>3 DEF ServerInv
<1>4. CASE Server!SendError(Other) /\ Server!CloseHandle(t)
  <2>1. s_handle' = FALSE /\ s_last_data' = NoData
    BY <1>4 DEF Server!CloseHandle
  <2>2. s_reply' # NoReply => s_reply'.op # "DATA"
    BY <1>4 DEF Server!SendError, Server!Send, Server!Datagram
  <2> QED
    BY <2>1, <2>2 DEF ServerInv
<1> QED
  BY <1>3, <1>4 DEF Server!SendData

\* A step of the server that reads nothing keeps its connection or closes it,
\* and repeats at most the block it holds.
LEMMA ServerIdles ==
  ASSUME TransferInv, ServerSends, UNCHANGED position, served' => Len(copy) = Blocks,
         \/ UNCHANGED <<s_handle, s_last_data, s_blknum, s_mode_write>>
         \/ s_handle' = FALSE /\ s_last_data' = NoData
         \/ ~s_handle /\ UNCHANGED <<s_handle, s_last_data, s_mode_write>>,
         s_reply' # NoReply => s_reply'.op # "DATA"
                                 \/ (s_handle /\ s_reply'.blk = position)
  PROVE  TransferInv'
<1>1. ServerInv'
  BY DEF TransferInv, ServerInv
<1>2. s_handle => position \in 1 .. Blocks
  BY DEF TransferInv, ServerInv
<1> QED
  BY <1>1, <1>2, ServerSent

LEMMA RequestServed ==
  ASSUME TransferInv, ~ServerPbufMayFail, ServeRequest, UNCHANGED served, ServerSends
  PROVE  TransferInv'
<1>1. served' => Len(copy) = Blocks
  BY DEF TransferInv
<1>2. CASE Server!ReqRead(Other) /\ Reads(0)
  <2>1. Server!SendData(Other, Other, 0 + 1, Server!Armed(s_timers)) /\ s_mode_write' = FALSE
    BY <1>2 DEF Server!ReqRead
  <2>2. 0 \in Nat /\ 0 < Blocks
    BY TransferAssumption
  <2> QED
    BY <1>1, <1>2, <2>1, <2>2, ServerReads, ServerSent
<1>3. CASE Server!ReqRefused(Other) /\ UNCHANGED position
  BY <1>1, <1>3, ServerIdles DEF Server!ReqRefused, Server!Rejected, Server!Answered,
     Server!Connection, Server!Send, Server!Datagram
<1>4. CASE Server!ReqFailed(Other) /\ UNCHANGED position
  BY <1>1, <1>4, ServerIdles DEF Server!ReqFailed, Server!ServerRequest, Server!SendError,
     Server!Send, Server!Datagram
<1> QED
  BY <1>2, <1>3, <1>4 DEF ServeRequest

\* An ACK that moves the server on is for a block that the client has written;
\* for the last one, the client has the file.
LEMMA AckServed ==
  ASSUME TransferInv, ~ServerPbufMayFail, NEW b \in 1 .. Len(copy), ServeAck(b), ServerSends
  PROVE  TransferInv'
<1>1. served => Len(copy) = Blocks
  BY DEF TransferInv
<1>2. Len(copy) \in Nat /\ Len(copy) <= Blocks
  BY CopyFits
<1>3. CASE Server!AckNext(Other, b) /\ Reads(position) /\ UNCHANGED served
  <2>1. /\ s_handle /\ s_mode_write' = s_mode_write /\ b = s_blknum /\ ~Server!LastSent
        /\ Server!SendData(Other, s_peer, Server!NextBlk(s_blknum), s_timers)
    BY <1>3 DEF Server!AckNext, Server!AckWanted
  <2>2. /\ position \in 1 .. Blocks /\ s_blknum = position /\ ~s_mode_write
        /\ s_last_data = [blk |-> position, full |-> position < Blocks]
    BY <2>1 DEF TransferInv, ServerInv
  <2>3. s_last_data # NoData
    <3>1. position \in Blk /\ (position < Blocks) \in BOOLEAN
      BY <2>2, TransferAssumption, BlkModAssumption
    <3>2. \A k \in Blk, f \in BOOLEAN : [blk |-> k, full |-> f] # NoData
      BY TransferAssumption
    <3> QED
      BY <2>2, <3>1, <3>2
  <2>4. position < Blocks
    BY <2>1, <2>2, <2>3 DEF Server!LastSent
  <2>5. Server!NextBlk(s_blknum) = position + 1
    BY <2>2, <2>4, TransferAssumption, BlkModAssumption DEF Server!NextBlk
  <2> QED
    BY <1>1, <1>3, <2>1, <2>2, <2>4, <2>5, ServerReads, ServerSent
<1>4. CASE Server!AckLast(Other, b) /\ served' = TRUE /\ UNCHANGED position
  <2>1. /\ s_handle /\ b = s_blknum /\ Server!LastSent
        /\ s_reply' = NoReply /\ s_handle' = FALSE /\ s_last_data' = NoData
    BY <1>4 DEF Server!AckLast, Server!AckWanted, Server!CloseHandle
  <2>2. /\ position \in 1 .. Blocks /\ s_blknum = position
        /\ s_last_data = [blk |-> position, full |-> position < Blocks]
    BY <2>1 DEF TransferInv, ServerInv
  <2>3. b = Blocks
    <3>1. ~s_last_data.full
      BY <2>1 DEF Server!LastSent
    <3>2. ~(position < Blocks)
      BY <2>2, <3>1
    <3> QED
      BY <2>1, <2>2, <3>2, TransferAssumption
  <2>4. Len(copy) = Blocks
    BY <1>2, <2>3
  <2> QED
    BY <1>4, <2>1, <2>4, ServerIdles
<1>5. CASE /\ Server!AckUnwanted(Other) \/ Server!AckWrong(Other, b)
           /\ UNCHANGED <<position, served>>
  <2>1. UNCHANGED <<s_handle, s_last_data, s_blknum, s_mode_write>>
    BY <1>5 DEF Server!AckUnwanted, Server!AckWrong, Server!Rejected, Server!Answered,
       Server!Connection
  <2>2. s_reply' # NoReply => s_reply'.op # "DATA"
    BY <1>5 DEF Server!AckUnwanted, Server!AckWrong, Server!Rejected, Server!Answered,
       Server!Send, Server!Datagram
  <2> QED
    BY <1>1, <1>5, <2>1, <2>2, ServerIdles
<1> QED
  BY <1>3, <1>4, <1>5 DEF ServeAck

\* The timer repeats the block that is held, or gives the transfer up.
LEMMA ServeKeeps ==
  ASSUME TransferInv, Serve
  PROVE  TransferInv'
<1>1. UNCHANGED <<position, served>> /\ ServerSends /\ (served' => Len(copy) = Blocks)
  BY DEF Serve, TransferInv
<1>2. CASE Server!TftpInit("server")
  BY <1>1, <1>2, ServerIdles DEF Server!TftpInit
<1>3. CASE Server!TickClosed \/ Server!TickQuiet
  BY <1>1, <1>3, ServerIdles DEF Server!TickClosed, Server!TickQuiet, Server!Expired
<1>4. CASE Server!TickResend
  <2>1. s_handle /\ UNCHANGED <<s_handle, s_last_data, s_blknum, s_mode_write>>
    BY <1>4 DEF Server!TickResend, Server!Expired
  <2>2. s_reply' # NoReply => s_reply'.blk = s_last_data.blk
    BY <1>4 DEF Server!TickResend, Server!Send, Server!Datagram
  <2>3. s_last_data.blk = position
    BY <2>1 DEF TransferInv, ServerInv
  <2> QED
    BY <1>1, <2>1, <2>2, <2>3, ServerIdles
<1>5. CASE Server!TickTimeout
  BY <1>1, <1>5, ServerIdles DEF Server!TickTimeout, Server!CloseHandle
<1> QED
  BY <1>2, <1>3, <1>4, <1>5 DEF Serve, Server!Tick

LEMMA ServerKeeps ==
  ASSUME TransferInv, ~ServerPbufMayFail, NEW m \in toServer, ServerRecv(m)
  PROVE  TransferInv'
<1>1. ServerSends
  BY DEF ServerRecv
<1>2. CASE m.op = "RRQ" /\ ServeRequest /\ UNCHANGED served
  BY <1>1, <1>2, RequestServed
<1>3. CASE m.op = "ACK" /\ ServeAck(m.blk)
  BY <1>1, <1>3, AckServed DEF TransferInv, NetInv
<1>4. CASE Server!RecvError(Other) /\ UNCHANGED <<position, served>>
  <2>1. /\ s_reply' = NoReply
        /\ \/ UNCHANGED <<s_handle, s_last_data, s_blknum, s_mode_write>>
           \/ s_handle' = FALSE /\ s_last_data' = NoData
    BY <1>4 DEF Server!RecvError, Server!CloseHandle
  <2> QED
    BY <1>1, <1>4, <2>1, ServerIdles DEF TransferInv
<1> QED
  BY <1>2, <1>3, <1>4 DEF ServerRecv

-----------------------------------------------------------------------------
LEMMA TransferInvStep ==
  ~ServerPbufMayFail /\ TransferInv /\ [TransferNext]_transfer_vars => TransferInv'
<1> SUFFICES ASSUME ~ServerPbufMayFail, TransferInv, [TransferNext]_transfer_vars
             PROVE  TransferInv'
  OBVIOUS
<1>1. CASE UNCHANGED transfer_vars
  BY <1>1 DEF transfer_vars, client_vars, tftp_vars, server_vars, TransferInv, ClientInv,
     CopyInv, CopyInOrder, NetInv, ServerInv, ClosedIsWhole, Asked
<1> QED
  BY <1>1, GetKeeps, ServeKeeps, ClientKeeps, ServerKeeps DEF TransferNext

LEMMA TransferInvAlways == ~ServerPbufMayFail /\ TransferSpec => []TransferInv
<1> SUFFICES ASSUME ~ServerPbufMayFail PROVE TransferSpec => []TransferInv
  OBVIOUS
<1>1. TransferInv /\ [TransferNext]_transfer_vars => TransferInv'
  BY TransferInvStep
<1> QED
  BY <1>1, TransferInvStart, PTL DEF TransferSpec

\* What tftp_get has written is the beginning of the file, while the server's
\* engine has memory for its blocks.
THEOREM CopyIsInOrder == ~ServerPbufMayFail /\ TransferSpec => []CopyInOrder
BY TransferInvAlways, PTL DEF TransferInv, CopyInv

\* A client that closes without an error has the whole file.
THEOREM ClosedHasWhole == ~ServerPbufMayFail /\ TransferSpec => []ClosedIsWhole
BY TransferInvAlways, PTL DEF TransferInv, ClientInv

\* The server's last ACK means that the client has the whole file, and keeps it.
THEOREM ServedHasWhole == ~ServerPbufMayFail /\ TransferSpec => []ServedIsWhole
<1>1. TransferInv => ServedIsWhole
  BY TransferAssumption DEF TransferInv, ClientInv, ServedIsWhole
<1> QED
  BY <1>1, TransferInvAlways, PTL

-----------------------------------------------------------------------------
\* Whatever the server's memory does, what is under way has the form of a
\* datagram with a block of the file.
WireInv ==
  /\ \A m \in toServer : m.blk \in Blk
  /\ \A m \in toClient : m.block \in Nat /\ m.datagram.blk \in Blk
  /\ position \in Nat /\ s_blknum \in Blk
  /\ s_last_data # NoData => s_last_data.blk \in Blk

LEMMA BlkCounts == 0 \in Blk /\ 1 \in Blk /\ \A b \in Blk : NextBlk(b) \in Blk
BY BlkModAssumption DEF NextBlk

LEMMA ClientWire ==
  ASSUME WireInv, ClientSends, reply' # NoReply => reply'.blk \in Blk
  PROVE  WireInv'
BY DEF WireInv, ClientSends, server_vars

LEMMA ServerWire ==
  ASSUME WireInv, ServerSends, s_reply' # NoReply => s_reply'.blk \in Blk,
         position' \in Nat, s_blknum' \in Blk,
         s_last_data' # NoData => s_last_data'.blk \in Blk
  PROVE  WireInv'
<1>1. toServer' = toServer
  BY DEF ServerSends
<1>2. ASSUME NEW m \in toClient'
      PROVE  m.block \in Nat /\ m.datagram.blk \in Blk
  <2>1. CASE m \in toClient
    BY <2>1 DEF WireInv
  <2>2. CASE m \notin toClient
    <3>1. m = [datagram |-> s_reply', block |-> position'] /\ s_reply' # NoReply
      BY <1>2, <2>2 DEF ServerSends
    <3> QED
      BY <3>1
  <2> QED
    BY <2>1, <2>2
<1> QED
  BY <1>1, <1>2 DEF WireInv

LEMMA ClientWires ==
  ASSUME WireInv, Get \/ \E m \in toClient : ClientRecv(m)
  PROVE  WireInv'
<1>1. CASE Get
  BY <1>1, ClientWire, BlkCounts DEF Get, TftpInit, TftpGet, Request, Send, Datagram
<1>2. ASSUME NEW m \in toClient, ClientRecv(m)
      PROVE  WireInv'
  <2>1. m.datagram.blk \in Blk
    BY DEF WireInv
  <2>2. reply' # NoReply => reply'.blk \in Blk
    BY <1>2, <2>1, BlkCounts
       DEF ClientRecv, GetData, GetError, DataNext, DataFailed, DataUnwanted, DataRepeat,
           DataWrong, RecvError, Rejected, Answered, SendError, Send, Datagram
  <2> QED
    BY <1>2, <2>2, ClientWire DEF ClientRecv
<1> QED
  BY <1>1, <1>2

\* The server answers a datagram and reads nothing.
LEMMA ServerPlain ==
  ASSUME WireInv, ServerSends, UNCHANGED position,
         s_reply' # NoReply => s_reply'.blk \in Blk,
         s_blknum' \in {s_blknum, 1}, s_last_data' \in {s_last_data, NoData}
  PROVE  WireInv'
<1>1. position' \in Nat /\ s_blknum' \in Blk
  BY BlkCounts DEF WireInv
<1>2. s_last_data' # NoData => s_last_data'.blk \in Blk
  BY DEF WireInv
<1> QED
  BY <1>1, <1>2, ServerWire

\* The server reads a block and sends it, or fails to.
LEMMA BlockWires ==
  ASSUME WireInv, ServerSends, NEW q, NEW b \in Blk, NEW t, NEW from \in Nat, Reads(from),
         Server!SendData(Other, q, b, t)
  PROVE  WireInv'
<1>1. position' \in Nat
  BY DEF Reads
<1>2. s_blknum' \in Blk
  BY DEF Server!SendData
<1>3. /\ s_reply' # NoReply => s_reply'.blk \in Blk
      /\ s_last_data' # NoData => s_last_data'.blk \in Blk
  BY BlkCounts DEF Server!SendData, Server!CloseHandle, Server!SendError, Server!Send,
                   Server!Datagram
<1> QED
  BY <1>1, <1>2, <1>3, ServerWire

LEMMA ServerWires ==
  ASSUME WireInv, Serve \/ \E m \in toServer : ServerRecv(m)
  PROVE  WireInv'
<1>1. CASE Serve
  <2>1. ServerSends /\ UNCHANGED position
    BY <1>1 DEF Serve
  <2>2. /\ s_reply' # NoReply => s_reply'.blk \in Blk
        /\ s_blknum' \in {s_blknum, 1} /\ s_last_data' \in {s_last_data, NoData}
    <3>1. CASE Server!TftpInit("server")
      BY <3>1 DEF Server!TftpInit
    <3>2. CASE Server!TickClosed \/ Server!TickQuiet
      BY <3>2 DEF Server!TickClosed, Server!TickQuiet, Server!Expired
    <3>3. CASE Server!TickResend
      BY <3>3 DEF Server!TickResend, Server!Expired, Server!Send, Server!Datagram, WireInv
    <3>4. CASE Server!TickTimeout
      BY <3>4 DEF Server!TickTimeout, Server!Expired, Server!CloseHandle
    <3> QED
      BY <1>1, <3>1, <3>2, <3>3, <3>4 DEF Serve, Server!Tick
  <2> QED
    BY <2>1, <2>2, ServerPlain
<1>2. ASSUME NEW m \in toServer, ServerRecv(m)
      PROVE  WireInv'
  <2>0. ServerSends
    BY <1>2 DEF ServerRecv
  <2>1. CASE Server!ReqRead(Other) /\ Reads(0)
    BY <2>0, <2>1, BlockWires, BlkCounts DEF Server!ReqRead
  <2>2. CASE (Server!ReqRefused(Other) \/ Server!ReqFailed(Other)) /\ UNCHANGED position
    BY <2>0, <2>2, ServerPlain, BlkCounts
       DEF Server!ReqRefused, Server!ReqFailed, Server!Rejected, Server!Answered,
           Server!SendError, Server!Send, Server!Datagram, Server!Connection
  <2>3. CASE Server!AckNext(Other, m.blk) /\ Reads(position)
    <3>1. NextBlk(s_blknum) \in Blk /\ position \in Nat
      BY BlkCounts DEF WireInv
    <3>2. Server!NextBlk(s_blknum) = NextBlk(s_blknum)
      BY DEF NextBlk, Server!NextBlk
    <3> QED
      BY <2>0, <2>3, <3>1, <3>2, BlockWires DEF Server!AckNext
  <2>4. CASE Server!AckLast(Other, m.blk) /\ UNCHANGED position
    BY <2>0, <2>4, ServerPlain DEF Server!AckLast, Server!CloseHandle
  <2>5. CASE (Server!AckUnwanted(Other) \/ Server!AckWrong(Other, m.blk)) /\ UNCHANGED position
    BY <2>0, <2>5, ServerPlain, BlkCounts
       DEF Server!AckUnwanted, Server!AckWrong, Server!Rejected, Server!Answered,
           Server!Send, Server!Datagram, Server!Connection
  <2>6. CASE Server!RecvError(Other) /\ UNCHANGED position
    BY <2>0, <2>6, ServerPlain DEF Server!RecvError, Server!CloseHandle
  <2> QED
    BY <1>2, <2>1, <2>2, <2>3, <2>4, <2>5, <2>6 DEF ServerRecv, ServeRequest, ServeAck
<1> QED
  BY <1>1, <1>2

LEMMA WireInvAlways == TransferSpec => []WireInv
<1>1. TransferStart => WireInv
  BY BlkCounts DEF TransferStart, Server!TftpStart, WireInv
<1>2. WireInv /\ [TransferNext]_transfer_vars => WireInv'
  <2> SUFFICES ASSUME WireInv, [TransferNext]_transfer_vars PROVE WireInv'
    OBVIOUS
  <2>1. CASE UNCHANGED transfer_vars
    BY <2>1 DEF transfer_vars, server_vars, WireInv
  <2> QED
    BY <2>1, ClientWires, ServerWires DEF TransferNext
<1> QED
  BY <1>1, <1>2, PTL DEF TransferSpec

\* Every step of the transfer is a step of one engine, and none of the other's.
LEMMA ClientEngineStep ==
  ASSUME "client" \in Modes, WireInv, [TransferNext]_transfer_vars
  PROVE  [TftpNext]_tftp_vars
<1>1. CASE Get
  BY <1>1, TransferAssumption DEF Get, TftpNext, User
<1>2. ASSUME NEW m \in toClient, ClientRecv(m)
      PROVE  TftpNext
  <2>1. CASE m.datagram.op = "DATA" /\ GetData(m.datagram.blk, m.block)
    <3>1. m.datagram.blk \in Blk /\ m.block \in Nat
      BY DEF WireInv
    <3>2. (m.block < Blocks) \in BOOLEAN
      BY <3>1, TransferAssumption
    <3>3. Recv(Other)
      BY <2>1, <3>1, <3>2 DEF GetData, Recv
    <3> QED
      BY <3>3, TransferAssumption DEF TftpNext
  <2>2. CASE GetError
    BY <2>2, TransferAssumption DEF GetError, Recv, TftpNext
  <2> QED
    BY <1>2, <2>1, <2>2 DEF ClientRecv
<1>3. ASSUME ServerSends PROVE UNCHANGED tftp_vars
  BY <1>3 DEF ServerSends, client_vars
<1>4. CASE UNCHANGED transfer_vars
  BY <1>4 DEF transfer_vars, client_vars
<1> QED
  BY <1>1, <1>2, <1>3, <1>4 DEF TransferNext, Serve, ServerRecv

LEMMA ServerEngineStep ==
  ASSUME "server" \in Modes, WireInv, [TransferNext]_transfer_vars
  PROVE  [Server!TftpNext]_(Server!tftp_vars)
<1>1. CASE Serve
  BY <1>1 DEF Serve, Server!TftpNext, Server!User
<1>2. ASSUME NEW m \in toServer, ServerRecv(m)
      PROVE  Server!TftpNext
  <2>1. CASE m.op = "RRQ" /\ ServeRequest
    BY <2>1, TransferAssumption DEF ServeRequest, Server!Recv, Server!TftpNext
  <2>2. CASE m.op = "ACK" /\ ServeAck(m.blk)
    <3>1. m.blk \in Blk
      BY DEF WireInv
    <3>2. Server!Recv(Other)
      BY <2>2, <3>1 DEF ServeAck, Server!Recv, Server!Blk
    <3> QED
      BY <3>2, TransferAssumption DEF Server!TftpNext
  <2>3. CASE Server!RecvError(Other)
    BY <2>3, TransferAssumption DEF Server!Recv, Server!TftpNext
  <2> QED
    BY <1>2, <2>1, <2>2, <2>3 DEF ServerRecv
<1>3. ASSUME ClientSends PROVE UNCHANGED Server!tftp_vars
  BY <1>3 DEF ClientSends, server_vars, Server!tftp_vars
<1>4. CASE UNCHANGED transfer_vars
  BY <1>4 DEF transfer_vars, server_vars, Server!tftp_vars
<1> QED
  BY <1>1, <1>2, <1>3, <1>4 DEF TransferNext, Get, ClientRecv

\* Each end of a transfer is the engine of Tftp, short of memory or not: what is
\* proved of that engine holds of both.
THEOREM EndsAreEngines ==
  {"client", "server"} \subseteq Modes /\ TransferSpec =>
    /\ TftpStart /\ [][TftpNext]_tftp_vars
    /\ Server!TftpStart /\ [][Server!TftpNext]_(Server!tftp_vars)
<1> SUFFICES ASSUME {"client", "server"} \subseteq Modes
             PROVE  TransferSpec => /\ TftpStart /\ [][TftpNext]_tftp_vars
                                    /\ Server!TftpStart
                                    /\ [][Server!TftpNext]_(Server!tftp_vars)
  OBVIOUS
<1>1. TransferStart => TftpStart /\ Server!TftpStart
  BY DEF TransferStart
<1>2. WireInv /\ [TransferNext]_transfer_vars => [TftpNext]_tftp_vars
  BY ClientEngineStep
<1>3. WireInv /\ [TransferNext]_transfer_vars => [Server!TftpNext]_(Server!tftp_vars)
  BY ServerEngineStep
<1> QED
  BY <1>1, <1>2, <1>3, WireInvAlways, PTL DEF TransferSpec
=============================================================================
