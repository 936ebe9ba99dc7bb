------------------------------ MODULE Transfer ------------------------------
(***************************************************************************)
(* One file on its way between two engines of src/tftp.c: the engine of    *)
(* Tftp, which gets it, and a second one, which serves it.  The network    *)
(* loses, repeats and reorders: a datagram once sent may arrive at any     *)
(* later time, any number of times, or never.                              *)
(***************************************************************************)
EXTENDS Tftp, Sequences

CONSTANTS
  Other,               \* to each end, the address of the other
  Blocks,              \* blocks of the file: all full but the last
  ServerPbufMayFail    \* PbufMayFail of the serving engine

ASSUME TransferAssumption ==
  /\ Other \in Peers
  /\ Blocks \in Nat \ {0} /\ Blocks < BlkMod
  /\ ServerPbufMayFail \in BOOLEAN
  /\ NoData \notin [blk : Blk, full : BOOLEAN]

VARIABLES
  s_handle, s_last_data, s_peer, s_idle, s_blknum, s_retries, s_mode_write,
  s_tftp_mode, s_timers, s_reply, s_taken, s_src,      \* the serving engine
  position,   \* of the file in the server: blocks ctx->read has given
  toServer,   \* datagrams sent to the server
  toClient,   \* and to the client, each with the block of the file in it
  copy,       \* what the client's ctx->write was given
  failed,     \* an error ended the client's transfer
  served      \* the last ACK ended the server's

Server == INSTANCE Tftp WITH
  PbufMayFail <- ServerPbufMayFail,
  handle <- s_handle, last_data <- s_last_data, peer <- s_peer, idle <- s_idle,
  blknum <- s_blknum, retries <- s_retries, mode_write <- s_mode_write,
  tftp_mode <- s_tftp_mode, timers <- s_timers, reply <- s_reply,
  taken <- s_taken, src <- s_src

client_vars == <<tftp_vars, copy, failed>>
server_vars == <<s_handle, s_last_data, s_peer, s_idle, s_blknum, s_retries,
                 s_mode_write, s_tftp_mode, s_timers, s_reply, s_taken, s_src,
                 position, served>>
transfer_vars == <<client_vars, server_vars, toServer, toClient>>

TransferStart ==
  /\ TftpStart /\ Server!TftpStart
  /\ position = 0 /\ toServer = {} /\ toClient = {}
  /\ copy = <<>> /\ failed = FALSE /\ served = FALSE

ClientSends ==
  /\ toServer' = toServer \cup ({reply'} \ {NoReply})
  /\ UNCHANGED <<server_vars, toClient>>

ServerSends ==
  /\ toClient' = toClient \cup
       {[datagram |-> r, block |-> position'] : r \in {s_reply'} \ {NoReply}}
  /\ UNCHANGED <<client_vars, toServer>>

-----------------------------------------------------------------------------
\* The client, which asks once.
Asked == blknum > 0

Get ==
  /\ TftpInit("client") \/ (~Asked /\ TftpGet(Other))
  /\ UNCHANGED <<copy, failed>>
  /\ ClientSends

GetData(b, block) ==
  \/ /\ DataNext(Other, b, block < Blocks)
     /\ copy' = Append(copy, block) /\ UNCHANGED failed
  \/ /\ DataFailed(Other, b, block < Blocks)
     /\ failed' = TRUE /\ UNCHANGED copy
  \/ /\ DataUnwanted(Other) \/ DataRepeat(Other, b) \/ DataWrong(Other, b)
     /\ UNCHANGED <<copy, failed>>

GetErrorSilent ==      \* mutant: ctx->error is not called
  RecvError(Other) /\ UNCHANGED <<copy, failed>>

GetError ==
  RecvError(Other) /\ failed' = (failed \/ handle) /\ UNCHANGED copy

ClientRecv(m) ==
  /\ \/ m.datagram.op = "DATA" /\ GetData(m.datagram.blk, m.block)
     \/ m.datagram.op = "ERROR" /\ GetError
  /\ ClientSends

-----------------------------------------------------------------------------
\* The server.  What send_data reads when from blocks have been read.
Reads(from) ==
  \/ s_last_data' = NoData /\ position' = from
  \/ /\ s_last_data' # NoData /\ position' = from + 1
     /\ s_last_data'.full = (position' < Blocks)

ServeRequest ==
  \/ Server!ReqRead(Other) /\ Reads(0)
  \/ (Server!ReqRefused(Other) \/ Server!ReqFailed(Other)) /\ UNCHANGED position

ServeAck(b) ==
  \/ Server!AckNext(Other, b) /\ Reads(position) /\ UNCHANGED served
  \/ Server!AckLast(Other, b) /\ served' = TRUE /\ UNCHANGED position
  \/ /\ Server!AckUnwanted(Other) \/ Server!AckWrong(Other, b)
     /\ UNCHANGED <<position, served>>

ServerRecv(m) ==
  /\ \/ m.op = "RRQ" /\ ServeRequest /\ UNCHANGED served
     \/ m.op = "ACK" /\ ServeAck(m.blk)
     \/ m.op = "ERROR" /\ Server!RecvError(Other) /\ UNCHANGED <<position, served>>
  /\ ServerSends

Serve ==
  /\ Server!TftpInit("server") \/ Server!Tick
  /\ UNCHANGED <<position, served>>
  /\ ServerSends

TransferNext ==
  \/ Get \/ Serve
  \/ \E m \in toClient : ClientRecv(m)
  \/ \E m \in toServer : ServerRecv(m)

TransferSpec == TransferStart /\ [][TransferNext]_transfer_vars

-----------------------------------------------------------------------------
\* What tftp_get has written is the beginning of the file, each block once and
\* in order, whatever the network did and however often the server began anew.
CopyInOrder == copy = [i \in 1 .. Len(copy) |-> i]

\* A transfer that the client closes without an error has brought the file.
ClosedIsWhole == Asked /\ ~handle /\ ~failed => Len(copy) = Blocks

\* So has one that the server closes on the last ACK: it is never satisfied by
\* an ACK of an earlier block or of an earlier attempt.
ServedIsWhole == served => Len(copy) = Blocks /\ ~handle /\ ~failed
=============================================================================
