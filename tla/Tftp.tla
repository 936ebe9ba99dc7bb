-------------------------------- MODULE Tftp --------------------------------
(***************************************************************************)
(* The TFTP engine of src/tftp.c: one static struct tftp_state driven by   *)
(* tftp_recv (a datagram arrived on the engine's UDP port), by tftp_tmr    *)
(* (an lwIP timeout expired) and by the calls of its user (tftp_init_*,    *)
(* tftp_cleanup, tftp_get, tftp_put).  lwIP runs a callback to completion, *)
(* so each one is an action; each action is one path through its handler.  *)
(*                                                                         *)
(* Abstractions: a peer is an address with its port (the code sets and     *)
(* clears the two together); the contents of a block are left out, only    *)
(* its number and whether it is full are kept.                             *)
(***************************************************************************)
EXTENDS Integers

CONSTANTS
  Peers,          \* the address/port pairs a datagram can come from
  NoPeer,         \* address ANY and port 0: no connection recorded
  BlkMod,         \* 2^16 in the code: width of blknum (u16_t)
  TimeoutTicks,   \* TFTP_TIMEOUT_MSECS / TFTP_TIMER_MSECS
  MaxRetries,     \* TFTP_MAX_RETRIES
  TimerPool,      \* how many sys_timeout records lwIP can give this engine
  Modes,          \* the modes the program initialises the engine in
  PbufMayFail,    \* whether pbuf_alloc may return NULL
  NoData,         \* last_data == NULL
  NoReply         \* the last step sent nothing

ASSUME PeersAssumption == NoPeer \notin Peers
ASSUME BlkModAssumption == BlkMod \in Nat /\ BlkMod > 2
ASSUME TimeoutAssumption ==
  /\ TimeoutTicks \in Nat
  /\ MaxRetries \in Nat
  /\ TimerPool \in Nat \ {0}
ASSUME ModesAssumption == Modes \subseteq {"client", "server", "clientserver"}
ASSUME PbufAssumption == PbufMayFail \in BOOLEAN

VARIABLES
  handle,      \* tftp_state.handle != NULL: a transfer is open
  last_data,   \* the DATA datagram kept for retransmission
  peer,        \* tftp_state.addr and .port
  idle,        \* timer - last_pkt: ticks since the last datagram was accepted
  blknum, retries, mode_write,
  tftp_mode,   \* "off" until tftp_init_common succeeds (upcb == NULL)
  timers,      \* pending sys_timeouts of tftp_tmr
  reply,       \* the datagram the last step gave to udp_sendto
  taken,       \* history: blocks given to ctx->write, counted like blknum
  src          \* history: peers whose DATA or ACK moved this transfer on

tftp_vars == <<handle, last_data, peer, idle, blknum, retries, mode_write,
               tftp_mode, timers, reply, taken, src>>

-----------------------------------------------------------------------------
Blk == 0 .. BlkMod - 1
NextBlkWide(b) == b + 1                               \* mutant: no wrap
NextBlk(b) == IF b = BlkMod - 1 THEN 0 ELSE b + 1     \* u16_t increment

Ops == {"RRQ", "WRQ", "DATA", "ACK", "ERROR"}
Datagrams == [to : Peers \cup {NoPeer}, op : Ops, blk : Blk]
Saved == [blk : Blk, full : BOOLEAN] \cup {NoData}
Datagram(p, op, b) == [to |-> p, op |-> op, blk |-> b]

\* init_packet or resend_data may fail for want of a pbuf; no caller looks.
Send(m) == reply' = m \/ (PbufMayFail /\ reply' = NoReply)
SendError(p) == Send(Datagram(p, "ERROR", 0))

ArmedNot(t) == t                                      \* mutant
Armed(t) == IF t < TimerPool THEN t + 1 ELSE t        \* sys_timeout
Untimed(t) == IF t > 0 THEN t - 1 ELSE 0              \* sys_untimeout: one record

CloseHandleKeep(t) ==      \* mutant: last_data is not freed
  peer' = NoPeer /\ timers' = Untimed(t) /\ handle' = FALSE /\ UNCHANGED last_data

\* close_handle, from a state in which t timeouts are pending.
CloseHandle(t) ==
  /\ peer' = NoPeer
  /\ last_data' = NoData
  /\ timers' = Untimed(t)
  /\ handle' = FALSE

Connection == <<handle, last_data, peer, timers, blknum, mode_write>>

TftpStart ==
  /\ handle = FALSE /\ last_data = NoData /\ peer = NoPeer
  /\ idle = 0 /\ blknum = 0 /\ retries = 0 /\ mode_write = FALSE
  /\ tftp_mode = "off" /\ timers = 0 /\ reply = NoReply
  /\ taken = 0 /\ src = {}

-----------------------------------------------------------------------------
\* tftp_init_common; a second call finds its port bound and changes nothing.
TftpInit(mode) ==
  /\ tftp_mode = "off"
  /\ tftp_mode' = mode
  /\ handle' = FALSE /\ peer' = NoPeer /\ last_data' = NoData /\ idle' = 0
  /\ reply' = NoReply
  /\ UNCHANGED <<blknum, retries, mode_write, timers, taken, src>>

\* tftp_cleanup: close_handle, then memset of the whole state.
Cleanup ==
  /\ tftp_mode # "off"
  /\ CloseHandle(timers)
  /\ tftp_mode' = "off"
  /\ idle' = 0 /\ blknum' = 0 /\ retries' = 0 /\ mode_write' = FALSE
  /\ reply' = NoReply /\ taken' = 0 /\ src' = {}

\* tftp_get and tftp_put after their argument checks, called under the lwIP
\* lock.  The guard ~handle is the discipline the engine asks of its callers.
Request(p, op, write) ==
  /\ tftp_mode \in {"client", "clientserver"}
  /\ ~handle
  /\ handle' = TRUE /\ blknum' = 1 /\ mode_write' = write
  /\ Send(Datagram(p, op, 0))
  /\ taken' = 0 /\ src' = {}
  /\ UNCHANGED <<last_data, peer, idle, retries, tftp_mode, timers>>

TftpGet(p) == Request(p, "RRQ", TRUE)
TftpPut(p) == Request(p, "WRQ", FALSE)

-----------------------------------------------------------------------------
\* tftp_recv.  A connection answers only the peer it recorded; anyone is
\* listened to while none is recorded.
StrangerNever(p) == FALSE      \* mutant: anyone is listened to
Stranger(p) == peer # NoPeer /\ p # peer

RecvRefused(p) ==
  /\ tftp_mode # "off" /\ Stranger(p)
  /\ SendError(p)
  /\ UNCHANGED <<Connection, idle, retries, tftp_mode, taken, src>>

Accepts(p) ==
  /\ tftp_mode # "off" /\ ~Stranger(p)
  /\ idle' = 0 /\ retries' = 0
  /\ UNCHANGED tftp_mode

\* A datagram that only draws an answer.
Answered(m) == Send(m) /\ UNCHANGED <<Connection, taken, src>>
Rejected(p) == Accepts(p) /\ Answered(Datagram(p, "ERROR", 0))

\* RRQ or WRQ during a transfer, or to an engine that is no server.
ReqRefused(p) == (handle \/ tftp_mode = "client") /\ Rejected(p)

ServerRequest(p) ==
  /\ ~handle /\ tftp_mode \in {"server", "clientserver"}
  /\ Accepts(p)

\* The timeout is armed before the names are looked at: a request with a bad
\* name, or for a file ctx->open does not find, leaves it behind.
ReqFailed(p) ==
  /\ ServerRequest(p)
  /\ SendError(p)
  /\ timers' = Armed(timers)
  /\ blknum' \in {blknum, 1}
  /\ UNCHANGED <<handle, last_data, peer, mode_write, taken, src>>

ReqWrite(p) ==
  /\ ServerRequest(p)
  /\ handle' = TRUE /\ peer' = p /\ blknum' = 1 /\ mode_write' = TRUE
  /\ timers' = Armed(timers)
  /\ Send(Datagram(p, "ACK", 0))
  /\ taken' = 0 /\ src' = {p}
  /\ UNCHANGED last_data

\* send_data for block b, with t timeouts pending and the peer recorded as q.
SendData(p, q, b, t) ==
  /\ blknum' = b
  /\ \/ /\ PbufMayFail
        /\ last_data' = NoData /\ reply' = NoReply
        /\ handle' = TRUE /\ peer' = q /\ timers' = t
     \/ \E full \in BOOLEAN :
          /\ last_data' = [blk |-> b, full |-> full]
          /\ Send(Datagram(p, "DATA", b))
          /\ handle' = TRUE /\ peer' = q /\ timers' = t
     \/ SendError(p) /\ CloseHandle(t)

ReqRead(p) ==
  /\ ServerRequest(p)
  /\ mode_write' = FALSE
  /\ SendData(p, p, 1, Armed(timers))
  /\ taken' = 0 /\ src' = {p}

-----------------------------------------------------------------------------
\* DATA with no transfer open, or when the transfer sends.
DataUnwanted(p) == (~handle \/ ~mode_write) /\ Rejected(p)

DataWanted(p) == handle /\ mode_write /\ Accepts(p)

DataNextAny(p, b, full) ==      \* mutant: the block number is not looked at
  /\ DataWanted(p)
  /\ Send(Datagram(p, "ACK", b))
  /\ taken' = NextBlk(taken) /\ src' = src \cup {p}
  /\ IF full THEN blknum' = NextBlk(blknum) /\ UNCHANGED <<handle, last_data, peer, timers>>
             ELSE CloseHandle(timers) /\ UNCHANGED blknum
  /\ UNCHANGED mode_write

\* The awaited block, written: acknowledged, then the transfer goes on to
\* the next block or, after a short one, is closed.
DataNext(p, b, full) ==
  /\ DataWanted(p) /\ b = blknum
  /\ Send(Datagram(p, "ACK", b))
  /\ taken' = NextBlk(taken) /\ src' = src \cup {p}
  /\ \/ /\ full
        /\ blknum' = NextBlk(blknum)
        /\ UNCHANGED <<handle, last_data, peer, timers>>
     \/ ~full /\ CloseHandle(timers) /\ UNCHANGED blknum
  /\ UNCHANGED mode_write

DataFailedOpen(p, b, full) ==      \* mutant: the transfer is not closed
  /\ DataWanted(p) /\ b = blknum /\ SendError(p)
  /\ blknum' = NextBlk(blknum)
  /\ UNCHANGED <<handle, last_data, peer, timers, mode_write, taken, src>>

\* ctx->write failed: closed, and closed once more if the block is short.
DataFailed(p, b, full) ==
  /\ DataWanted(p) /\ b = blknum
  /\ SendError(p)
  /\ CloseHandle(IF full THEN timers ELSE Untimed(timers))
  /\ blknum' = IF full THEN NextBlk(blknum) ELSE blknum
  /\ src' = src \cup {p}
  /\ UNCHANGED <<mode_write, taken>>

DataRepeat(p, b) ==
  /\ DataWanted(p) /\ b # blknum /\ NextBlk(b) = blknum
  /\ Answered(Datagram(p, "ACK", b))

DataWrong(p, b) ==
  /\ DataWanted(p) /\ b # blknum /\ NextBlk(b) # blknum
  /\ Answered(Datagram(p, "ERROR", 0))

-----------------------------------------------------------------------------
AckUnwanted(p) == (~handle \/ mode_write) /\ Rejected(p)

AckWanted(p) == handle /\ ~mode_write /\ Accepts(p)

AckWrong(p, b) ==
  /\ AckWanted(p) /\ b # blknum
  /\ Answered(Datagram(p, "ERROR", 0))

LastSentAny == last_data # NoData      \* mutant: its length is not looked at
LastSent == last_data # NoData /\ ~last_data.full

AckLast(p, b) ==
  /\ AckWanted(p) /\ b = blknum /\ LastSent
  /\ CloseHandle(timers)
  /\ reply' = NoReply
  /\ src' = src \cup {p}
  /\ UNCHANGED <<blknum, mode_write, taken>>

AckNext(p, b) ==
  /\ AckWanted(p) /\ b = blknum /\ ~LastSent
  /\ SendData(p, peer, NextBlk(blknum), timers)
  /\ src' = src \cup {p}
  /\ UNCHANGED <<mode_write, taken>>

\* ctx->error, then close_handle; without a transfer nothing happens.
RecvError(p) ==
  /\ Accepts(p)
  /\ reply' = NoReply
  /\ IF handle THEN CloseHandle(timers)
               ELSE UNCHANGED <<handle, last_data, peer, timers>>
  /\ UNCHANGED <<blknum, mode_write, taken, src>>

Unknown(p) == Rejected(p)

-----------------------------------------------------------------------------
\* tftp_tmr.  idle is only compared with TimeoutTicks, so it stops one above.
\* The expired timeout is armed again at once while a transfer is open.
TimedOut == idle >= TimeoutTicks

Expired ==
  /\ timers > 0
  /\ idle' = IF idle > TimeoutTicks THEN idle ELSE idle + 1
  /\ UNCHANGED <<blknum, mode_write, tftp_mode, taken, src>>

TickClosed ==
  /\ Expired /\ ~handle
  /\ timers' = timers - 1
  /\ reply' = NoReply
  /\ UNCHANGED <<handle, last_data, peer, retries>>

TickQuiet ==
  /\ Expired /\ handle /\ ~TimedOut
  /\ reply' = NoReply
  /\ UNCHANGED <<handle, last_data, peer, retries, timers>>

TickResendForever ==      \* mutant: retries are not counted
  /\ Expired /\ handle /\ TimedOut /\ last_data # NoData /\ retries < MaxRetries
  /\ Send(Datagram(peer, "DATA", last_data.blk))
  /\ UNCHANGED <<handle, last_data, peer, timers, retries>>

TickResend ==
  /\ Expired /\ handle /\ TimedOut /\ last_data # NoData /\ retries < MaxRetries
  /\ Send(Datagram(peer, "DATA", last_data.blk))
  /\ retries' = retries + 1
  /\ UNCHANGED <<handle, last_data, peer, timers>>

TickTimeout ==
  /\ Expired /\ handle /\ TimedOut /\ (last_data = NoData \/ retries >= MaxRetries)
  /\ CloseHandle(timers)
  /\ reply' = NoReply
  /\ UNCHANGED retries

Tick == TickClosed \/ TickQuiet \/ TickResend \/ TickTimeout

-----------------------------------------------------------------------------
Recv(p) ==
  \/ RecvRefused(p) \/ ReqRefused(p) \/ ReqFailed(p) \/ ReqWrite(p) \/ ReqRead(p)
  \/ DataUnwanted(p) \/ AckUnwanted(p) \/ RecvError(p) \/ Unknown(p)
  \/ \E b \in Blk :
       \/ \E full \in BOOLEAN : DataNext(p, b, full) \/ DataFailed(p, b, full)
       \/ DataRepeat(p, b) \/ DataWrong(p, b)
       \/ AckWrong(p, b) \/ AckLast(p, b) \/ AckNext(p, b)

User ==
  \/ \E mode \in Modes : TftpInit(mode)
  \/ Cleanup
  \/ \E p \in Peers : TftpGet(p) \/ TftpPut(p)

TftpNext == User \/ Tick \/ \E p \in Peers : Recv(p)

\* lwIP keeps expiring the timeouts that are armed; nothing else is promised.
TftpSpec == TftpStart /\ [][TftpNext]_tftp_vars /\ WF_tftp_vars(Tick)

-----------------------------------------------------------------------------
\* Type invariant of struct tftp_state and of the history.
TftpTypeOK ==
  /\ handle \in BOOLEAN
  /\ last_data \in Saved
  /\ peer \in Peers \cup {NoPeer}
  /\ idle \in 0 .. TimeoutTicks + 1
  /\ blknum \in Blk
  /\ retries \in 0 .. MaxRetries
  /\ mode_write \in BOOLEAN
  /\ tftp_mode \in Modes \cup {"off"}
  /\ timers \in 0 .. TimerPool
  /\ reply \in Datagrams \cup {NoReply}
  /\ taken \in Blk
  /\ src \subseteq Peers

\* A receiving transfer awaits the block after those it has written, across
\* the wrap of the 16-bit block number: repeats, wrong blocks, and failures
\* in between never make it write a block twice or skip one.
BlocksInOrder == handle /\ mode_write => blknum = NextBlk(taken)

\* The datagram tftp_tmr would retransmit is the block whose ACK tftp_recv is
\* waiting for, and it is kept only while a sending transfer is open.
RetransmitsCurrent ==
  last_data # NoData => handle /\ ~mode_write /\ last_data.blk = blknum

\* A server's open transfer always has a timeout pending, so that a peer that
\* falls silent cannot keep the engine busy for ever, whatever timeouts the
\* failed requests before it left behind and whichever one close_handle took.
TransferTimed == tftp_mode = "server" /\ handle => timers > 0

\* "Only one connection at a time is supported": one peer's datagrams alone
\* move a transfer on.
OneConnection == \A p, q \in src : p = q

\* A server keeps to that: from the request on, whoever else sends it DATA, an
\* ACK or a request in the meantime is refused and changes nothing.
ServerKeepsToPeer == tftp_mode = "server" => OneConnection

\* tftp_tmr closes a server's transfer whose peer has fallen silent.
SilentPeerDropped ==
  (tftp_mode = "server" /\ handle /\ idle > 0) ~> (~handle \/ idle = 0)
=============================================================================
