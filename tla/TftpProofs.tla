----------------------------- MODULE TftpProofs -----------------------------
(***************************************************************************)
(* Proofs about Tftp, for every set of peers, width of the block number,   *)
(* timeout, number of retries, size of the timer pool and choice of modes. *)
(***************************************************************************)
EXTENDS Tftp, TLAPS

USE DEF Blk

\* Block numbers and timer counts stay in their range.
LEMMA Ranges ==
  /\ 0 \in Blk /\ 1 \in Blk /\ NextBlk(0) = 1
  /\ \A b \in Blk : NextBlk(b) \in Blk
  /\ \A t \in 0 .. TimerPool : Armed(t) \in 1 .. TimerPool
  /\ \A t \in 0 .. TimerPool : Untimed(t) \in 0 .. TimerPool
BY BlkModAssumption, TimeoutAssumption DEF NextBlk, Armed, Untimed

LEMMA Zeroes ==
  /\ 0 \in 0 .. TimeoutTicks + 1 /\ 0 \in 0 .. MaxRetries
  /\ NoData \in Saved /\ NoReply \in Datagrams \cup {NoReply}
BY TimeoutAssumption DEF Saved

\* What the engine sends is a datagram.
LEMMA SentOK ==
  ASSUME NEW p \in Peers \cup {NoPeer}, NEW op \in Ops, NEW b \in Blk,
         Send(Datagram(p, op, b))
  PROVE  reply' \in Datagrams \cup {NoReply}
BY DEF Send, Datagram, Datagrams

LEMMA ErrorOK ==
  ASSUME NEW p \in Peers, SendError(p)
  PROVE  reply' \in Datagrams \cup {NoReply}
BY Ranges, SentOK DEF SendError, Ops

\* close_handle leaves nothing of the connection behind.
LEMMA ClosedOK ==
  ASSUME NEW t \in 0 .. TimerPool, CloseHandle(t)
  PROVE  /\ handle' = FALSE /\ last_data' = NoData /\ peer' = NoPeer
         /\ last_data' \in Saved /\ timers' \in 0 .. TimerPool
BY Ranges, Zeroes DEF CloseHandle

\* send_data leaves the connection open, its last block that of blknum, or closed.
LEMMA SendDataOK ==
  ASSUME NEW p \in Peers, NEW q \in Peers \cup {NoPeer}, NEW b \in Blk,
         NEW t \in 0 .. TimerPool, SendData(p, q, b, t)
  PROVE  /\ blknum' = b
         /\ reply' \in Datagrams \cup {NoReply}
         /\ timers' \in 0 .. TimerPool
         /\ \/ handle' = TRUE /\ peer' = q /\ timers' = t
            \/ handle' = FALSE /\ peer' = NoPeer
         /\ \/ last_data' = NoData
            \/ /\ handle' = TRUE
               /\ last_data'.blk = b
         /\ last_data' \in Saved
PROOF
<1>1. blknum' = b
  BY DEF SendData
<1>2. CASE /\ last_data' = NoData /\ reply' = NoReply
           /\ handle' = TRUE /\ peer' = q /\ timers' = t
  BY <1>1, <1>2, Zeroes
<1>3. ASSUME NEW full \in BOOLEAN,
             last_data' = [blk |-> b, full |-> full],
             Send(Datagram(p, "DATA", b)),
             handle' = TRUE, peer' = q, timers' = t
      PROVE  /\ reply' \in Datagrams \cup {NoReply}
             /\ last_data' \in Saved
             /\ last_data'.blk = b
  <2>1. "DATA" \in Ops
    BY DEF Ops
  <2> QED
    BY <1>3, <2>1, SentOK DEF Saved
<1>4. CASE SendError(p) /\ CloseHandle(t)
  BY <1>1, <1>4, ErrorOK, ClosedOK
<1> QED
  BY <1>1, <1>2, <1>3, <1>4 DEF SendData

-----------------------------------------------------------------------------
\* The steps of the engine, one case for each action.
LEMMA StepCases ==
  ASSUME [TftpNext]_tftp_vars, NEW ACTION G,
         ASSUME NEW mode \in Modes, TftpInit(mode) PROVE G,
         ASSUME Cleanup PROVE G,
         ASSUME NEW p \in Peers, NEW op \in Ops, NEW w \in BOOLEAN, Request(p, op, w)
         PROVE G,
         ASSUME Tick PROVE G,
         ASSUME NEW p \in Peers, RecvRefused(p) PROVE G,
         ASSUME NEW p \in Peers, ReqFailed(p) PROVE G,
         ASSUME NEW p \in Peers, ReqWrite(p) PROVE G,
         ASSUME NEW p \in Peers, ReqRead(p) PROVE G,
         ASSUME NEW p \in Peers, RecvError(p) PROVE G,
         ASSUME NEW p \in Peers, NEW op \in Ops, NEW b \in Blk,
                Accepts(p), Answered(Datagram(p, op, b))
         PROVE G,
         ASSUME NEW p \in Peers, NEW b \in Blk, NEW full \in BOOLEAN, DataNext(p, b, full)
         PROVE G,
         ASSUME NEW p \in Peers, NEW b \in Blk, NEW full \in BOOLEAN, DataFailed(p, b, full)
         PROVE G,
         ASSUME NEW p \in Peers, NEW b \in Blk, AckLast(p, b) PROVE G,
         ASSUME NEW p \in Peers, NEW b \in Blk, AckNext(p, b) PROVE G,
         ASSUME UNCHANGED tftp_vars PROVE G
  PROVE  G
PROOF
<1>1. "RRQ" \in Ops /\ "WRQ" \in Ops /\ "ACK" \in Ops /\ "ERROR" \in Ops
  BY DEF Ops
<1>2. CASE User
  BY <1>1, <1>2 DEF User, TftpGet, TftpPut
<1>3. ASSUME NEW p \in Peers, Recv(p) PROVE G
  <2>1. ASSUME Rejected(p) PROVE G
    BY <1>1, <2>1, Ranges DEF Rejected
  <2>2. ASSUME NEW b \in Blk, DataRepeat(p, b) \/ DataWrong(p, b) \/ AckWrong(p, b)
        PROVE  G
    BY <1>1, <2>2, Ranges DEF DataRepeat, DataWrong, AckWrong, DataWanted, AckWanted
  <2> QED
    BY <1>3, <2>1, <2>2 DEF Recv, ReqRefused, DataUnwanted, AckUnwanted, Unknown
<1> QED
  BY <1>2, <1>3 DEF TftpNext

LEMMA TypeStep == TftpTypeOK /\ [TftpNext]_tftp_vars => TftpTypeOK'
PROOF
<1> SUFFICES ASSUME TftpTypeOK, [TftpNext]_tftp_vars PROVE TftpTypeOK'
  OBVIOUS
<1>1. ASSUME NEW mode \in Modes, TftpInit(mode) PROVE TftpTypeOK'
  BY <1>1, Zeroes DEF TftpInit, TftpTypeOK
<1>2. ASSUME Cleanup PROVE TftpTypeOK'
  BY <1>2, ClosedOK, Ranges, Zeroes DEF Cleanup, TftpTypeOK
<1>3. ASSUME NEW p \in Peers, NEW op \in Ops, NEW w \in BOOLEAN, Request(p, op, w)
      PROVE  TftpTypeOK'
  BY <1>3, SentOK, Ranges DEF Request, TftpTypeOK
<1>4. ASSUME Tick PROVE TftpTypeOK'
  <2>1. idle' \in 0 .. TimeoutTicks + 1
    BY <1>4, TimeoutAssumption
    DEF Tick, TickClosed, TickQuiet, TickResend, TickTimeout, Expired, TftpTypeOK
  <2>2. CASE TickClosed
    BY <2>1, <2>2, TimeoutAssumption, Zeroes DEF TickClosed, Expired, TftpTypeOK
  <2>3. CASE TickQuiet
    BY <2>1, <2>3, Zeroes DEF TickQuiet, Expired, TftpTypeOK
  <2>4. CASE TickResend
    <3>1. "DATA" \in Ops /\ last_data.blk \in Blk
      BY <2>4 DEF Ops, TickResend, TftpTypeOK, Saved
    <3>2. reply' \in Datagrams \cup {NoReply}
      BY <2>4, <3>1, SentOK DEF TickResend, TftpTypeOK
    <3>3. retries' \in 0 .. MaxRetries
      BY <2>4, TimeoutAssumption DEF TickResend, TftpTypeOK
    <3> QED
      BY <2>1, <2>4, <3>2, <3>3 DEF TickResend, Expired, TftpTypeOK
  <2>5. CASE TickTimeout
    BY <2>1, <2>5, ClosedOK, Zeroes DEF TickTimeout, Expired, TftpTypeOK
  <2> QED
    BY <1>4, <2>2, <2>3, <2>4, <2>5 DEF Tick
<1>5. ASSUME NEW p \in Peers, RecvRefused(p) PROVE TftpTypeOK'
  BY <1>5, ErrorOK DEF RecvRefused, Connection, TftpTypeOK
<1>6. ASSUME NEW p \in Peers, ReqFailed(p) PROVE TftpTypeOK'
  BY <1>6, ErrorOK, Ranges, Zeroes
  DEF ReqFailed, ServerRequest, Accepts, TftpTypeOK
<1>7. ASSUME NEW p \in Peers, ReqWrite(p) PROVE TftpTypeOK'
  <2>1. "ACK" \in Ops
    BY DEF Ops
  <2>2. reply' \in Datagrams \cup {NoReply}
    BY <1>7, <2>1, SentOK, Ranges DEF ReqWrite
  <2> QED
    BY <1>7, <2>2, Ranges, Zeroes DEF ReqWrite, ServerRequest, Accepts, TftpTypeOK
<1>8. ASSUME NEW p \in Peers, ReqRead(p) PROVE TftpTypeOK'
  <2>1. Armed(timers) \in 0 .. TimerPool
    BY Ranges DEF TftpTypeOK
  <2>2. SendData(p, p, 1, Armed(timers))
    BY <1>8 DEF ReqRead
  <2>3. /\ blknum' \in Blk /\ reply' \in Datagrams \cup {NoReply}
        /\ timers' \in 0 .. TimerPool /\ last_data' \in Saved
        /\ handle' \in BOOLEAN /\ peer' \in Peers \cup {NoPeer}
    <3>1. 1 \in Blk /\ p \in Peers \cup {NoPeer}
      BY Ranges
    <3> HIDE DEF Blk
    <3> QED
      BY <2>1, <2>2, <3>1, SendDataOK
  <2> QED
    BY <1>8, <2>3, Ranges, Zeroes DEF ReqRead, ServerRequest, Accepts, TftpTypeOK
<1>9. ASSUME NEW p \in Peers, RecvError(p) PROVE TftpTypeOK'
  BY <1>9, ClosedOK, Zeroes DEF RecvError, Accepts, TftpTypeOK
<1>10. ASSUME NEW p \in Peers, NEW op \in Ops, NEW b \in Blk,
              Accepts(p), Answered(Datagram(p, op, b))
       PROVE  TftpTypeOK'
  BY <1>10, SentOK, Zeroes DEF Answered, Accepts, Connection, TftpTypeOK
<1>11. ASSUME NEW p \in Peers, NEW b \in Blk, NEW full \in BOOLEAN, DataNext(p, b, full)
       PROVE  TftpTypeOK'
  <2>1. "ACK" \in Ops
    BY DEF Ops
  <2>2. reply' \in Datagrams \cup {NoReply}
    BY <1>11, <2>1, SentOK DEF DataNext
  <2>3. /\ idle' = 0 /\ retries' = 0 /\ UNCHANGED <<tftp_mode, mode_write>>
        /\ taken' \in Blk /\ src' \subseteq Peers
    BY <1>11, Ranges DEF DataNext, DataWanted, Accepts, TftpTypeOK
  <2>4. CASE full
    BY <1>11, <2>2, <2>3, <2>4, Ranges, Zeroes DEF DataNext, TftpTypeOK, CloseHandle
  <2>5. CASE ~full
    BY <1>11, <2>2, <2>3, <2>5, ClosedOK, Zeroes DEF DataNext, TftpTypeOK
  <2> QED
    BY <2>4, <2>5
<1>12. ASSUME NEW p \in Peers, NEW b \in Blk, NEW full \in BOOLEAN, DataFailed(p, b, full)
       PROVE  TftpTypeOK'
  <2> DEFINE t == IF full THEN timers ELSE Untimed(timers)
  <2>1. t \in 0 .. TimerPool
    BY Ranges DEF TftpTypeOK
  <2>2. CloseHandle(t)
    BY <1>12 DEF DataFailed
  <2> HIDE DEF t
  <2>3. handle' = FALSE /\ last_data' = NoData /\ peer' = NoPeer /\ timers' \in 0 .. TimerPool
    BY <2>1, <2>2, ClosedOK
  <2> QED
    BY <1>12, <2>3, ErrorOK, Ranges, Zeroes
    DEF DataFailed, DataWanted, Accepts, TftpTypeOK
<1>13. ASSUME NEW p \in Peers, NEW b \in Blk, AckLast(p, b) PROVE TftpTypeOK'
  BY <1>13, ClosedOK, Zeroes DEF AckLast, AckWanted, Accepts, TftpTypeOK
<1>14. ASSUME NEW p \in Peers, NEW b \in Blk, AckNext(p, b) PROVE TftpTypeOK'
  <2>1. /\ NextBlk(blknum) \in Blk /\ peer \in Peers \cup {NoPeer}
        /\ timers \in 0 .. TimerPool /\ SendData(p, peer, NextBlk(blknum), timers)
    BY <1>14, Ranges DEF AckNext, TftpTypeOK
  <2> QED
    BY <1>14, <2>1, SendDataOK, Zeroes DEF AckNext, AckWanted, Accepts, TftpTypeOK
<1>15. ASSUME UNCHANGED tftp_vars PROVE TftpTypeOK'
  BY <1>15 DEF tftp_vars, TftpTypeOK
<1> QED
  BY <1>1, <1>2, <1>3, <1>4, <1>5, <1>6, <1>7, <1>8, <1>9, <1>10, <1>11, <1>12, <1>13,
     <1>14, <1>15, StepCases

\* The state of the engine is always of its type.
THEOREM TftpTypeCorrect == TftpSpec => []TftpTypeOK
PROOF
<1>1. TftpStart => TftpTypeOK
  <2> SUFFICES ASSUME TftpStart PROVE TftpTypeOK
    OBVIOUS
  <2>1. 0 \in 0 .. TimerPool
    BY TimeoutAssumption
  <2> QED
    BY <2>1, Ranges, Zeroes DEF TftpStart, TftpTypeOK
<1> QED
  BY <1>1, TypeStep, PTL DEF TftpSpec

-----------------------------------------------------------------------------
\* The inductive invariant.  A closed engine keeps no datagram, one that is off
\* is closed and has heard of nobody, and a server's open transfer knows its
\* peer, the only one it has listened to.
PeerKept ==
  /\ tftp_mode = "off" => ~handle /\ src = {}
  /\ tftp_mode = "server" /\ handle => peer # NoPeer /\ src \subseteq {peer}
  /\ ServerKeepsToPeer

EngineInv == BlocksInOrder /\ RetransmitsCurrent /\ TransferTimed /\ PeerKept

LEMMA EngineStep ==
  TftpTypeOK /\ EngineInv /\ [TftpNext]_tftp_vars => EngineInv'
PROOF
<1> SUFFICES ASSUME TftpTypeOK, EngineInv, [TftpNext]_tftp_vars PROVE EngineInv'
  OBVIOUS
<1> USE DEF EngineInv, BlocksInOrder, RetransmitsCurrent, TransferTimed, PeerKept,
            ServerKeepsToPeer, OneConnection
<1>a. timers \in 0 .. TimerPool /\ blknum \in Blk /\ taken \in Blk /\ handle \in BOOLEAN
  BY DEF TftpTypeOK
<1>1. ASSUME NEW mode \in Modes, TftpInit(mode) PROVE EngineInv'
  BY <1>1 DEF TftpInit
<1>2. ASSUME Cleanup PROVE EngineInv'
  BY <1>2, <1>a, ClosedOK DEF Cleanup
<1>3. ASSUME NEW p \in Peers, NEW op \in Ops, NEW w \in BOOLEAN, Request(p, op, w)
      PROVE  EngineInv'
  BY <1>3, Ranges DEF Request
<1>4. ASSUME Tick PROVE EngineInv'
  <2>1. CASE TickClosed
    BY <2>1 DEF TickClosed, Expired
  <2>2. CASE TickQuiet
    BY <2>2 DEF TickQuiet, Expired
  <2>3. CASE TickResend
    BY <2>3 DEF TickResend, Expired
  <2>4. CASE TickTimeout
    BY <2>4, <1>a, ClosedOK DEF TickTimeout, Expired
  <2> QED
    BY <1>4, <2>1, <2>2, <2>3, <2>4 DEF Tick
<1>5. ASSUME NEW p \in Peers, RecvRefused(p) PROVE EngineInv'
  BY <1>5 DEF RecvRefused, Connection
<1>6. ASSUME NEW p \in Peers, ReqFailed(p) PROVE EngineInv'
  BY <1>6 DEF ReqFailed, ServerRequest, Accepts
<1>7. ASSUME NEW p \in Peers, ReqWrite(p) PROVE EngineInv'
  BY <1>7, <1>a, Ranges, PeersAssumption DEF ReqWrite, ServerRequest, Accepts
<1>8. ASSUME NEW p \in Peers, ReqRead(p) PROVE EngineInv'
  <2>1. Armed(timers) \in 1 .. TimerPool /\ Armed(timers) \in 0 .. TimerPool
    BY <1>a, Ranges
  <2>2. SendData(p, p, 1, Armed(timers)) /\ src' = {p} /\ mode_write' = FALSE
        /\ tftp_mode' = tftp_mode /\ tftp_mode # "off"
    BY <1>8 DEF ReqRead, ServerRequest, Accepts
  <2>3. /\ blknum' = 1
        /\ \/ handle' = TRUE /\ peer' = p /\ timers' = Armed(timers)
           \/ handle' = FALSE /\ peer' = NoPeer
        /\ last_data' = NoData \/ (handle' = TRUE /\ last_data'.blk = 1)
    BY <2>1, <2>2, Ranges, SendDataOK
  <2> QED
    BY <2>1, <2>2, <2>3, PeersAssumption
<1>9. ASSUME NEW p \in Peers, RecvError(p) PROVE EngineInv'
  BY <1>9, <1>a, ClosedOK DEF RecvError, Accepts
<1>10. ASSUME NEW p \in Peers, NEW op \in Ops, NEW b \in Blk,
              Accepts(p), Answered(Datagram(p, op, b))
       PROVE  EngineInv'
  BY <1>10 DEF Answered, Accepts, Connection
<1>11. ASSUME NEW p \in Peers, NEW b \in Blk, NEW full \in BOOLEAN, DataNext(p, b, full)
       PROVE  EngineInv'
  <2>1. /\ handle /\ mode_write /\ UNCHANGED <<tftp_mode, mode_write>>
        /\ tftp_mode # "off" /\ (peer # NoPeer => p = peer)
        /\ taken' = NextBlk(taken) /\ src' = src \cup {p}
    BY <1>11 DEF DataNext, DataWanted, Accepts, Stranger
  <2>2. CASE full
    BY <1>11, <2>1, <2>2 DEF DataNext, CloseHandle
  <2>3. CASE ~full
    BY <1>11, <1>a, <2>1, <2>3, ClosedOK DEF DataNext
  <2> QED
    BY <2>2, <2>3
<1>12. ASSUME NEW p \in Peers, NEW b \in Blk, NEW full \in BOOLEAN, DataFailed(p, b, full)
       PROVE  EngineInv'
  <2>1. /\ handle /\ mode_write /\ UNCHANGED <<tftp_mode, mode_write>>
        /\ tftp_mode # "off" /\ (peer # NoPeer => p = peer) /\ src' = src \cup {p}
    BY <1>12 DEF DataFailed, DataWanted, Accepts, Stranger
  <2>2. handle' = FALSE /\ last_data' = NoData
    BY <1>12 DEF DataFailed, CloseHandle
  <2> QED
    BY <2>1, <2>2
<1>13. ASSUME NEW p \in Peers, NEW b \in Blk, AckLast(p, b) PROVE EngineInv'
  <2>1. /\ handle /\ UNCHANGED <<tftp_mode, mode_write>>
        /\ tftp_mode # "off" /\ (peer # NoPeer => p = peer) /\ src' = src \cup {p}
    BY <1>13 DEF AckLast, AckWanted, Accepts, Stranger
  <2>2. handle' = FALSE /\ last_data' = NoData
    BY <1>13 DEF AckLast, CloseHandle
  <2> QED
    BY <2>1, <2>2
<1>14. ASSUME NEW p \in Peers, NEW b \in Blk, AckNext(p, b) PROVE EngineInv'
  <2>1. /\ handle /\ ~mode_write /\ UNCHANGED <<tftp_mode, mode_write>>
        /\ tftp_mode # "off" /\ (peer # NoPeer => p = peer) /\ src' = src \cup {p}
        /\ SendData(p, peer, NextBlk(blknum), timers)
    BY <1>14 DEF AckNext, AckWanted, Accepts, Stranger
  <2>2. /\ blknum' = NextBlk(blknum)
        /\ \/ handle' = TRUE /\ peer' = peer /\ timers' = timers
           \/ handle' = FALSE /\ peer' = NoPeer
        /\ last_data' = NoData \/ (handle' = TRUE /\ last_data'.blk = NextBlk(blknum))
    <3>1. peer \in Peers \cup {NoPeer} /\ NextBlk(blknum) \in Blk
      BY <1>a, Ranges DEF TftpTypeOK
    <3> QED
      BY <2>1, <3>1, <1>a, SendDataOK
  <2> QED
    BY <2>1, <2>2
<1>15. ASSUME UNCHANGED tftp_vars PROVE EngineInv'
  BY <1>15 DEF tftp_vars
<1> QED
  BY <1>1, <1>2, <1>3, <1>4, <1>5, <1>6, <1>7, <1>8, <1>9, <1>10, <1>11, <1>12, <1>13,
     <1>14, <1>15, StepCases

LEMMA EngineInvariant == TftpSpec => []EngineInv
PROOF
<1>1. TftpStart => EngineInv
  BY DEF TftpStart, EngineInv, BlocksInOrder, RetransmitsCurrent, TransferTimed, PeerKept,
         ServerKeepsToPeer, OneConnection
<1> QED
  BY <1>1, EngineStep, TftpTypeCorrect, PTL DEF TftpSpec

\* A receiving transfer never writes a block twice and never skips one.
THEOREM BlocksAreInOrder == TftpSpec => []BlocksInOrder
BY EngineInvariant, PTL DEF EngineInv

\* What is kept for retransmission is the block that is waited for.
THEOREM RetransmissionIsCurrent == TftpSpec => []RetransmitsCurrent
BY EngineInvariant, PTL DEF EngineInv

\* A server's open transfer has a timeout pending.
THEOREM TransferIsTimed == TftpSpec => []TransferTimed
BY EngineInvariant, PTL DEF EngineInv

\* Only the peer that opened a server's transfer moves it on.
THEOREM ServerHasOneConnection == TftpSpec => []ServerKeepsToPeer
BY EngineInvariant, PTL DEF EngineInv, PeerKept
=============================================================================
