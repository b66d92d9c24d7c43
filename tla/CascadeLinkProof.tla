--------------------------- MODULE CascadeLinkProof ---------------------------
(***************************************************************************)
(* What is proved of CascadeLink, for every length of parts, frames,       *)
(* packages and queues: TypeOK, EdgesDoNotPileUp, PartFits and             *)
(* EdgeMeansReady are invariant, and the link is a PackageChannel in either*)
(* direction, as far as safety goes.  The proofs are for applications that *)
(* write in turns, callbacks that are not switched out of, and FIFOs of    *)
(* one part, which the protocol relies on (TakingTurns).                   *)
(*                                                                         *)
(* The invariant says where a package can be.  At most one is on its way,  *)
(* and the stages it goes through relate the session, the two managers at  *)
(* its ends, the FIFOs, S's buffer, the edge and the words that have       *)
(* arrived; every handler takes a package from one stage to the next.      *)
(* MTurn and STurn list the stages of a package from M and from S, CrcTasks*)
(* and Counts say what the checksum tasks may be at meanwhile.             *)
(***************************************************************************)
EXTENDS CascadeLink, TLAPS

\* The applications take turns, callbacks are not switched out of, and a part
\* fills the FIFO.
TakingTurns == ~ Preempt /\ InTurns /\ FifoDepth = PartLen

\* the four managers
TxM == tx_mng["M"]
RxM == rx_mng["M"]
TxS == tx_mng["S"]
RxS == rx_mng["S"]

-----------------------------------------------------------------------------
(* Where a package is.                                                     *)

\* A manager set up for a package, at one of its frames; its frame is that slice
\* of the package.
Package(x) ==
    /\ 0 < x.xfer_size /\ x.xfer_size <= BufferSize
    /\ x.nof_frame = FrameCount(x.xfer_size)
    /\ x.cur_frame_id < x.nof_frame
Slice(x) ==
    /\ Package(x)
    /\ x.frame.payload = x.cur_frame_id * FrameLen
    /\ x.frame.len = AtMost(x.xfer_size - x.cur_frame_id * FrameLen, FrameLen)

\* The two ends are at the same frame; or the sender is one ahead.
Together(x, y) ==
    /\ Slice(x) /\ Slice(y)
    /\ x.xfer_size = y.xfer_size /\ x.cur_frame_id = y.cur_frame_id
OneAhead(x, y) ==
    /\ Slice(x) /\ Package(y)
    /\ x.xfer_size = y.xfer_size /\ x.cur_frame_id = y.cur_frame_id + 1

\* How far a frame is: its header, its payload or its checksum comes next, or it
\* is over.
Fresh(f) == ~ f.header_done /\ ~ f.payload_done /\ ~ f.crc_done
Parts(f) == f.header_done /\ ~ f.payload_done /\ ~ f.crc_done
Full(f) == f.header_done /\ f.payload_done /\ ~ f.crc_done
Over(f) == f.header_done /\ f.payload_done /\ f.crc_done

\* The last package of s has not been read yet, or all have.
Open(s) == Len(sent[s]) = Len(got[Peer(s)]) + 1
Even(s) == Len(sent[s]) = Len(got[Peer(s)])
Size(s) == sent[s][Len(sent[s])]

\* Chip s has the first n words of the package in its buffer.
Arrived(s, n) == \A i \in 0 .. n - 1 : rx_data_buffer[s][i] = Datum(Len(sent[Peer(s)]), i)

\* words of the package of s as they are in a FIFO
Words(s, ofs, n) == [k \in 1 .. n |-> Data(Datum(Len(sent[s]), ofs + k - 1))]

IsChecksum(ws) == Len(ws) = 1 /\ ws[1].kind = "crc"

EdgeOut == sync_queue = 1 /\ sync_task = "wait"
NoEdgeOut == sync_queue = 0 /\ sync_task = "wait"

-----------------------------------------------------------------------------
(* A package from M to S.                                                  *)

\* S's controller waits for words, with no buffer to send from
Listening == spi.txf = <<>> /\ ~ spi.txint /\ ~ spi.txon

\* nor with one to receive into
AtRest ==
    /\ Listening /\ ~ spi.rxon /\ spi.rxint /\ spi.thres = 0 /\ spi.rxf = <<>>
    /\ NoEdgeOut

MSends ==
    /\ xfer_type["M"] = "TX" /\ TxM.xfer_size = Size("M") /\ TxM.state # "CRC"
    /\ crc_task["M"].pc # "tx_sent"
SBusy ==
    /\ xfer_type["S"] = "RX" /\ Listening /\ RxS.state # "DONE"
    /\ rx_queue["S"] = <<>> /\ crc_task["S"].pc # "rx_indicated"

\* filled, and the link claimed for it
MFilled ==
    /\ writer["M"] = "filled" /\ rx_queue["S"] = <<>>
    /\ xfer_type["M"] = "INVALID" /\ xfer_type["S"] = "INVALID" /\ AtRest
MClaimed ==
    /\ writer["M"] = "claimed" /\ rx_queue["S"] = <<>>
    /\ xfer_type["M"] = "TX" /\ TxM.state # "CRC" /\ xfer_type["S"] = "INVALID" /\ AtRest

\* the package's header is in S's FIFO
MHeader ==
    /\ writer["M"] \in {"request", "idle"} /\ MSends
    /\ xfer_type["S"] = "INVALID" /\ rx_queue["S"] = <<>>
    /\ Slice(TxM) /\ TxM.cur_frame_id = 0 /\ Parts(TxM.frame) /\ TxM.frame.handled = 0
    /\ Listening /\ ~ spi.rxon /\ spi.rxint /\ spi.thres = 0 /\ NoEdgeOut
    /\ spi.rxf = <<Header(TxM.xfer_size)>>

\* S is ready for a part, and an edge says so
MPart ==
    /\ writer["M"] \in {"request", "idle"} /\ MSends /\ SBusy
    /\ writer["M"] = "request" => TxM.frame.handled = 0
    /\ Together(TxM, RxS) /\ Parts(TxM.frame) /\ Parts(RxS.frame) /\ RxS.state # "CRC"
    /\ TxM.frame.handled < TxM.frame.len
    /\ spi.rxon /\ spi.rxint /\ EdgeOut /\ spi.rxf = <<>>
    /\ spi.rxdev.base = RxS.frame.payload /\ spi.rxdev.len = RxS.frame.len
    /\ spi.rxdev.ofs = TxM.frame.handled
    /\ spi.thres = Threshold(TxM.frame.len - TxM.frame.handled)
    /\ Arrived("S", TxM.frame.payload + TxM.frame.handled)

\* the words of a part S has room for
PartWords == AtMost(Remaining(spi.rxdev), PartLen)

\* a part is in S's FIFO
MWords ==
    /\ writer["M"] = "idle" /\ MSends /\ SBusy
    /\ Together(TxM, RxS) /\ Parts(RxS.frame) /\ RxS.state # "CRC"
    /\ TxM.frame.header_done /\ ~ TxM.frame.crc_done
    /\ TxM.frame.payload_done <=> TxM.frame.handled >= TxM.frame.len
    /\ spi.rxon /\ spi.rxint /\ NoEdgeOut
    /\ spi.rxdev.base = RxS.frame.payload /\ spi.rxdev.len = RxS.frame.len
    /\ spi.rxdev.ofs < spi.rxdev.len
    /\ TxM.frame.handled = spi.rxdev.ofs + PartWords
    /\ spi.rxf = Words("M", spi.rxdev.base + spi.rxdev.ofs, PartWords)
    /\ spi.thres = Threshold(Remaining(spi.rxdev))
    /\ Arrived("S", TxM.frame.payload + spi.rxdev.ofs)

\* S has the whole frame, and waits for its checksum
SFull ==
    /\ SBusy /\ Slice(RxS) /\ Full(RxS.frame)
    /\ spi.rxon /\ Remaining(spi.rxdev) = 0 /\ spi.thres = 0
    /\ Arrived("S", RxS.frame.payload + RxS.frame.len)

\* an edge asks for the checksum, or M waits until it has been computed
MFull ==
    /\ writer["M"] = "idle" /\ SFull /\ RxS.state # "CRC"
    /\ xfer_type["M"] = "TX" /\ TxM.xfer_size = Size("M") /\ crc_task["M"].pc # "tx_sent"
    /\ Together(TxM, RxS) /\ Full(TxM.frame)
    /\ spi.rxint /\ spi.rxf = <<>>
    /\ \/ EdgeOut /\ TxM.state # "CRC"
       \/ sync_queue = 0 /\ sync_task = "block_tx" /\ TxM.state # "CRC"
       \/ NoEdgeOut /\ TxM.state = "CRC"

\* M after a checksum: still in the checksum task, at the next frame, or done
MSent ==
    /\ xfer_type["M"] = "TX" /\ TxM.state # "CRC" /\ crc_task["M"].pc = "tx_sent"
    /\ Slice(TxM) /\ Full(TxM.frame)
    /\ TxM.xfer_size = RxS.xfer_size /\ TxM.cur_frame_id = RxS.cur_frame_id
MNext ==
    /\ MSends /\ ~ IsLastFrame(RxS) /\ OneAhead(TxM, RxS)
    /\ Fresh(TxM.frame) /\ TxM.frame.handled = 0 /\ TxM.frame.header = TxM.frame.len
MOver == IsLastFrame(RxS) /\ xfer_type["M"] = "INVALID"

\* the checksum is in S's FIFO, which may be held until the last one is compared
MCrc ==
    /\ writer["M"] = "idle" /\ SFull /\ RxS.xfer_size = Size("M")
    /\ MSent \/ MNext \/ MOver
    /\ NoEdgeOut /\ IsChecksum(spi.rxf)
    /\ RxS.state = "CRC" => ~ spi.rxint

\* S is ready for the next header
SNext ==
    /\ SBusy /\ Package(RxS) /\ Fresh(RxS.frame) /\ ~ IsLastFrame(RxS) /\ RxS.state # "CRC"
    /\ RxS.xfer_size = Size("M")
    /\ ~ spi.rxon /\ spi.rxint /\ spi.thres = 0
    /\ Arrived("S", (RxS.cur_frame_id + 1) * FrameLen)

\* an edge says so
MEdge ==
    /\ writer["M"] = "idle" /\ SNext
    /\ MSent \/ MNext
    /\ EdgeOut /\ spi.rxf = <<>>

\* a frame's header is in S's FIFO
MFrame ==
    /\ writer["M"] = "idle" /\ SNext /\ MSends
    /\ OneAhead(TxM, RxS) /\ Parts(TxM.frame) /\ TxM.frame.handled = 0
    /\ NoEdgeOut /\ spi.rxf = <<Header(TxM.frame.len)>>

\* M is through with the package
MThrough ==
    \/ /\ xfer_type["M"] = "TX" /\ crc_task["M"].pc = "tx_sent"
       /\ Package(TxM) /\ IsLastFrame(TxM) /\ Full(TxM.frame)
    \/ xfer_type["M"] = "INVALID"

\* S has read the last checksum, and compares it or has just indicated the package
MLast ==
    /\ writer["M"] = "idle" /\ MThrough
    /\ xfer_type["S"] = "RX" /\ Slice(RxS) /\ Over(RxS.frame) /\ IsLastFrame(RxS)
    /\ RxS.xfer_size = Size("M") /\ RxS.state # "CRC"
    /\ \/ /\ RxS.state # "DONE" /\ rx_queue["S"] = <<>>
          /\ crc_task["S"].pc # "rx_indicated"
       \/ crc_task["S"].pc = "rx_indicated" /\ rx_queue["S"] = <<Size("M")>>
    /\ AtRest /\ Arrived("S", Size("M"))

\* the package waits for the application
MDelivered ==
    /\ writer["M"] = "idle" /\ MThrough /\ xfer_type["S"] = "INVALID" /\ AtRest
    /\ rx_queue["S"] = <<Size("M")>> /\ Arrived("S", Size("M"))

\* nothing else goes on
MAlone ==
    /\ Open("M") /\ Even("S")
    /\ writer["S"] = "idle" /\ reader["M"] = "idle" /\ reader["S"] = "idle"
    /\ rx_queue["M"] = <<>>
MTurn ==
    /\ MAlone
    /\ \/ MFilled \/ MClaimed \/ MHeader \/ MPart \/ MWords \/ MFull \/ MCrc \/ MEdge
       \/ MFrame \/ MLast \/ MDelivered

-----------------------------------------------------------------------------
(* A package from S to M.                                                  *)

SSends ==
    /\ xfer_type["S"] = "TX" /\ TxS.xfer_size = Size("S") /\ TxS.state # "CRC"
    /\ ~ spi.rxon /\ spi.thres = 0
MBusy == xfer_type["M"] = "RX" /\ RxM.state # "DONE" /\ rx_queue["M"] = <<>>

\* filled, and the link claimed for it
SFilled ==
    /\ writer["S"] = "filled" /\ rx_queue["M"] = <<>>
    /\ xfer_type["M"] = "INVALID" /\ xfer_type["S"] = "INVALID" /\ AtRest
SClaimed ==
    /\ writer["S"] = "claimed" /\ rx_queue["M"] = <<>>
    /\ xfer_type["M"] = "INVALID" /\ xfer_type["S"] = "TX" /\ TxS.state # "CRC" /\ AtRest

\* S's buffer to send from is the frame, from its beginning
FromStart ==
    /\ spi.txon /\ spi.txdev.base = TxS.frame.payload /\ spi.txdev.len = TxS.frame.len
    /\ spi.txdev.ofs = 0

\* the package's header is in the TX FIFO, and an edge will say so or does
SHeader ==
    /\ xfer_type["M"] = "INVALID" /\ rx_queue["M"] = <<>> /\ SSends
    /\ Slice(TxS) /\ TxS.cur_frame_id = 0 /\ Parts(TxS.frame)
    /\ FromStart /\ spi.txf = <<Header(TxS.xfer_size)>>
    /\ \/ /\ writer["S"] = "request" /\ NoEdgeOut
          /\ spi.rxint /\ ~ spi.txint /\ spi.rxf = <<>>
       \/ writer["S"] = "idle" /\ EdgeOut /\ ~ spi.rxint

\* M is ready for a part
SPart ==
    /\ MBusy /\ RxM.state # "CRC" /\ writer["S"] = "idle" /\ SSends /\ ~ spi.rxint
    /\ Together(TxS, RxM) /\ Parts(TxS.frame) /\ Parts(RxM.frame)
    /\ RxM.frame.handled < RxM.frame.len
    /\ spi.txon /\ spi.txf = <<>> /\ NoEdgeOut
    /\ spi.txdev.base = TxS.frame.payload /\ spi.txdev.len = TxS.frame.len
    /\ spi.txdev.ofs = RxM.frame.handled
    /\ Arrived("M", RxM.frame.payload + RxM.frame.handled)

\* a part is in the TX FIFO, and an edge says so
SWords ==
    /\ MBusy /\ RxM.state # "CRC" /\ writer["S"] = "idle" /\ SSends /\ ~ spi.rxint
    /\ Together(TxS, RxM) /\ Parts(RxM.frame)
    /\ TxS.frame.header_done /\ ~ TxS.frame.crc_done
    /\ RxM.frame.handled < RxM.frame.len
    /\ spi.txon /\ EdgeOut
    /\ spi.txf = Words("S", FramePartBase(RxM.frame), FramePartSize(RxM.frame))
    /\ IF TxS.frame.payload_done
       THEN /\ RxM.frame.handled + FramePartSize(RxM.frame) = RxM.frame.len
            /\ Remaining(spi.txdev) = 0
       ELSE /\ RxM.frame.handled + FramePartSize(RxM.frame) < RxM.frame.len
            /\ spi.txdev.base = TxS.frame.payload /\ spi.txdev.len = TxS.frame.len
            /\ spi.txdev.ofs = RxM.frame.handled + FramePartSize(RxM.frame)
    /\ Arrived("M", RxM.frame.payload + RxM.frame.handled)

\* M has the whole frame: the checksum comes next, and S may wait for it
SDone ==
    /\ MBusy /\ RxM.state # "CRC" /\ writer["S"] = "idle" /\ ~ spi.rxint
    /\ xfer_type["S"] = "TX" /\ TxS.xfer_size = Size("S")
    /\ ~ spi.rxon /\ spi.thres = 0
    /\ Together(TxS, RxM) /\ Full(TxS.frame) /\ Full(RxM.frame)
    /\ spi.txf = <<>> /\ NoEdgeOut /\ Remaining(spi.txdev) = 0
    /\ TxS.state = "CRC" => ~ spi.txint
    /\ Arrived("M", RxM.frame.payload + RxM.frame.len)

\* S after a checksum: before the next header, or through but for M's last word
SNextFrame ==
    /\ SSends /\ ~ spi.rxint /\ ~ spi.txon
    /\ ~ IsLastFrame(RxM) /\ OneAhead(TxS, RxM)
    /\ Fresh(TxS.frame) /\ TxS.frame.header = TxS.frame.len
SEnds ==
    /\ TxS.state # "CRC" /\ ~ spi.rxon /\ ~ spi.txon /\ spi.rxint /\ ~ spi.txint
    /\ spi.thres = 0

\* a checksum is in the TX FIFO; M reads it, or is blocked until the last one has
\* been compared
SCrc ==
    /\ MBusy /\ writer["S"] = "idle"
    /\ Slice(RxM) /\ RxM.xfer_size = Size("S") /\ Full(RxM.frame)
    /\ \/ SNextFrame
       \/ SEnds /\ IsLastFrame(RxM) /\ xfer_type["S"] = "SLV_TX_DONE" /\ spi.rxf = <<>>
    /\ IsChecksum(spi.txf)
    /\ \/ EdgeOut /\ RxM.state # "CRC"
       \/ /\ sync_queue = 0 /\ sync_task = "block_rx"
          /\ RxM.state # "CRC" /\ RxM.frame.crc_valid
       \/ NoEdgeOut /\ RxM.state = "CRC" /\ RxM.frame.crc_valid
    /\ Arrived("M", RxM.frame.payload + RxM.frame.len)

\* S goes on to the next header, whenever it gets to it; the edge may be lost on M
SGoesOn ==
    \/ SNextFrame /\ spi.txf = <<>> /\ sync_queue = 0
    \/ /\ SSends /\ ~ spi.rxint /\ ~ IsLastFrame(RxM) /\ OneAhead(TxS, RxM)
       /\ Parts(TxS.frame) /\ FromStart
       /\ spi.txf = <<Header(TxS.frame.len)>> /\ sync_queue \in {0, 1}

\* S is through
SThrough ==
    /\ SEnds /\ spi.txf = <<>> /\ sync_queue = 0
    /\ \/ xfer_type["S"] = "SLV_TX_DONE" /\ Len(spi.rxf) = 1
       \/ xfer_type["S"] = "INVALID" /\ spi.rxf = <<>>

\* M has read the checksum, in its callback or, blocked, in the checksum task
SRead ==
    /\ MBusy /\ RxM.state # "CRC" /\ writer["S"] = "idle"
    /\ Slice(RxM) /\ RxM.xfer_size = Size("S") /\ Over(RxM.frame)
    /\ \/ SGoesOn /\ (spi.txf # <<>> => sync_queue = 1)
       \/ IsLastFrame(RxM) /\ SThrough
    /\ sync_task \in {"wait", "crc_read"} /\ (sync_task = "crc_read" => RxM.frame.crc_valid)
    /\ Arrived("M", RxM.frame.payload + RxM.frame.len)

\* M is ready for the next header
SFrame ==
    /\ MBusy /\ RxM.state # "CRC" /\ writer["S"] = "idle"
    /\ Package(RxM) /\ RxM.xfer_size = Size("S") /\ Fresh(RxM.frame)
    /\ SGoesOn /\ sync_task = "wait"
    /\ Arrived("M", (RxM.cur_frame_id + 1) * FrameLen)

\* the package waits for the application
SDelivered ==
    /\ writer["S"] = "idle" /\ SThrough
    /\ xfer_type["M"] = "INVALID" /\ sync_task = "wait"
    /\ rx_queue["M"] = <<Size("S")>> /\ Arrived("M", Size("S"))

SAlone ==
    /\ Open("S") /\ Even("M")
    /\ writer["M"] = "idle" /\ reader["M"] = "idle" /\ reader["S"] = "idle"
    /\ rx_queue["S"] = <<>>
STurn ==
    /\ SAlone
    /\ \/ SFilled \/ SClaimed \/ SHeader \/ SPart \/ SWords \/ SDone \/ SCrc \/ SRead
       \/ SFrame \/ SDelivered

-----------------------------------------------------------------------------

\* The package is read; the end that wrote it may still have to finish.
Pause ==
    /\ Even("M") /\ Even("S")
    /\ writer["M"] = "idle" /\ writer["S"] = "idle"
    /\ rx_queue["M"] = <<>> /\ rx_queue["S"] = <<>>
    /\ \/ MThrough /\ reader["M"] = "idle" /\ xfer_type["S"] = "INVALID" /\ AtRest
       \/ /\ SThrough /\ reader["S"] = "idle" /\ xfer_type["M"] = "INVALID"
          /\ sync_task = "wait"

Stage == MTurn \/ STurn \/ Pause

\* So many checksums of y's package have been read, and all but one that is marked
\* valid compared.
Reads(y) == y.cur_frame_id + (IF y.frame.crc_done \/ ~ y.frame.header_done THEN 1 ELSE 0)
Compared(y) == y.crc_done_cnt + (IF y.frame.crc_valid THEN 1 ELSE 0) = Reads(y)

\* Where the checksum tasks are; what they do depends on the session they saw.
CrcTasks ==
    /\ crc_task["M"].pc \in {"idle", "rx", "tx", "tx_sent", "tx_ready"}
    /\ crc_task["M"].pc # "idle" =>
          sync_task = "wait" /\ writer["M"] \in {"idle", "filled"}
    /\ crc_task["M"].pc = "rx" => xfer_type["M"] = "RX"
    /\ crc_task["M"].pc \in {"tx", "tx_sent", "tx_ready"} => xfer_type["M"] = "TX"
    /\ crc_task["S"].pc \in {"idle", "rx", "rx_compared", "rx_indicated", "tx", "tx_valid"}
    /\ crc_task["S"].pc # "idle" => writer["S"] \in {"idle", "filled"}
    /\ crc_task["S"].pc \in {"rx", "rx_compared", "rx_indicated"} => xfer_type["S"] = "RX"
    /\ TxS.state = "CRC" => xfer_type["S"] = "TX"
Counts ==
    /\ xfer_type["M"] = "RX" => Compared(RxM)
    /\ xfer_type["S"] = "RX" => Compared(RxS)

\* What a checksum is to be computed over lies within a buffer, or in a package.
Requests ==
    \A s \in Side :
        /\ cs_last_frame_info[s].mem = "none" => cs_last_frame_info[s].len = 0
        /\ cs_last_frame_info[s].mem = "rx" =>
              cs_last_frame_info[s].ofs + cs_last_frame_info[s].len <= BufferSize
        /\ cs_last_frame_info[s].mem = "tx" => sent[s] # <<>>

IInv == TypeOK /\ Stage /\ CrcTasks /\ Counts /\ Requests

-----------------------------------------------------------------------------
(* Frames of a package.                                                    *)

\* As many frames as a package needs hold it, and one less does not.
LEMMA FrameCountBounds ==
    ASSUME NEW len \in Nat, len > 0
    PROVE  /\ FrameCount(len) \in Nat /\ 1 <= FrameCount(len)
           /\ (FrameCount(len) - 1) * FrameLen < len
           /\ len <= FrameCount(len) * FrameLen
BY LenAssumption DEF FrameCount

\* A package has at least one frame.
LEMMA FirstFrame ==
    ASSUME NEW x \in ManagerType, 0 < x.xfer_size, x.xfer_size <= BufferSize,
           x.nof_frame = FrameCount(x.xfer_size), x.cur_frame_id = 0
    PROVE  Package(x) /\ 0 * FrameLen = 0
<1>1. x.xfer_size \in Nat
  BY DEF ManagerType
<1>2. FrameCount(x.xfer_size) \in Nat /\ 1 <= FrameCount(x.xfer_size)
  BY <1>1, FrameCountBounds
<1> QED
  BY <1>1, <1>2, LenAssumption DEF Package

\* Every frame starts within the package, and all but the last end before its end.
LEMMA FrameSpan ==
    ASSUME NEW x \in ManagerType, Package(x)
    PROVE  /\ x.cur_frame_id * FrameLen \in Nat
           /\ x.cur_frame_id * FrameLen < x.xfer_size
           /\ (x.cur_frame_id + 1) * FrameLen = x.cur_frame_id * FrameLen + FrameLen
           /\ IsLastFrame(x) => x.xfer_size - x.cur_frame_id * FrameLen <= FrameLen
           /\ ~ IsLastFrame(x) => (x.cur_frame_id + 1) * FrameLen < x.xfer_size
<1> DEFINE n == x.nof_frame
           c == x.cur_frame_id
           len == x.xfer_size
<1>1. len \in Nat /\ c \in Nat /\ n \in Nat /\ 0 < len /\ c < n
  BY DEF ManagerType, Package
<1>2. /\ (n - 1) * FrameLen < len
      /\ len <= n * FrameLen
  BY <1>1, FrameCountBounds DEF Package
<1>3. IsLastFrame(x) <=> c >= n - 1
  BY DEF IsLastFrame
<1> HIDE DEF n, c, len
<1>4. ASSUME NEW d \in Nat, d <= n - 1
      PROVE  d * FrameLen < len
  <2>1. d * FrameLen <= (n - 1) * FrameLen
    BY <1>1, <1>4, LenAssumption
  <2>2. d * FrameLen \in Int /\ (n - 1) * FrameLen \in Int
    BY <1>1, LenAssumption
  <2> QED
    BY <2>1, <2>2, <1>1, <1>2
<1>5. c * FrameLen \in Nat
  BY <1>1, LenAssumption
<1>6. (c + 1) * FrameLen = c * FrameLen + FrameLen
  BY <1>1, LenAssumption
<1>7. c * FrameLen < len
  BY <1>1, <1>4
<1>8. c >= n - 1 => len - c * FrameLen <= FrameLen
  <2> SUFFICES ASSUME c >= n - 1
               PROVE  len - c * FrameLen <= FrameLen
    OBVIOUS
  <2>1. n = c + 1
    BY <1>1
  <2>2. len <= (c + 1) * FrameLen
    BY <2>1, <1>2
  <2> QED
    BY <2>2, <1>1, <1>5, <1>6, LenAssumption
<1>9. ~ (c >= n - 1) => (c + 1) * FrameLen < len
  BY <1>1, <1>4
<1> QED
  BY <1>3, <1>5, <1>6, <1>7, <1>8, <1>9 DEF n, c, len

\* A slice has a word and ends within the package, the last one with it; after
\* another the next begins.
LEMMA SliceFits ==
    ASSUME NEW x \in ManagerType, Slice(x)
    PROVE  /\ x.frame.payload \in Nat /\ x.frame.len \in Nat /\ x.frame.handled \in Nat
           /\ x.cur_frame_id \in Nat /\ x.xfer_size \in Nat
           /\ 1 <= x.frame.len /\ x.frame.len <= FrameLen
           /\ x.frame.payload + x.frame.len <= x.xfer_size /\ x.xfer_size <= BufferSize
           /\ IsLastFrame(x) => x.frame.payload + x.frame.len = x.xfer_size
           /\ ~ IsLastFrame(x) => x.frame.payload + x.frame.len = (x.cur_frame_id + 1) * FrameLen
<1> DEFINE ofs == x.cur_frame_id * FrameLen
           next == (x.cur_frame_id + 1) * FrameLen
<1>1. /\ ofs \in Nat /\ ofs < x.xfer_size /\ next = ofs + FrameLen
      /\ IsLastFrame(x) => x.xfer_size - ofs <= FrameLen
      /\ ~ IsLastFrame(x) => next < x.xfer_size
  BY FrameSpan DEF Slice
<1>2. /\ x.frame.payload \in Nat /\ x.frame.len \in Nat /\ x.frame.handled \in Nat
      /\ x.cur_frame_id \in Nat /\ x.xfer_size \in Nat
  BY DEF ManagerType, FrameType
<1>3. x.frame.payload = ofs /\ x.frame.len = AtMost(x.xfer_size - ofs, FrameLen)
      /\ x.xfer_size <= BufferSize
  BY DEF Slice, Package
<1> HIDE DEF ofs, next
<1>4. /\ 1 <= x.frame.len /\ x.frame.len <= FrameLen
      /\ x.frame.payload + x.frame.len <= x.xfer_size
      /\ IsLastFrame(x) => x.frame.payload + x.frame.len = x.xfer_size
      /\ ~ IsLastFrame(x) => x.frame.payload + x.frame.len = next
  BY <1>1, <1>2, <1>3, LenAssumption DEF AtMost
<1> QED
  BY <1>2, <1>3, <1>4 DEF next

\* Managers at the same frame of packages of the same size agree on it.
LEMMA SameSlice ==
    ASSUME NEW x, NEW y, Together(x, y)
    PROVE  /\ y.frame.payload = x.frame.payload /\ y.frame.len = x.frame.len
           /\ y.nof_frame = x.nof_frame
           /\ IsLastFrame(y) <=> IsLastFrame(x)
BY DEF Together, Slice, Package, IsLastFrame

-----------------------------------------------------------------------------
(* What the updates of a manager keep.                                     *)

\* At the same frame of the same package.
SameWalk(x, y) ==
    /\ y.xfer_size = x.xfer_size /\ y.nof_frame = x.nof_frame
    /\ y.cur_frame_id = x.cur_frame_id
\* With the same slice of it.
SameSpan(x, y) ==
    /\ SameWalk(x, y)
    /\ y.frame.payload = x.frame.payload /\ y.frame.len = x.frame.len
\* Its header, payload and checksum as far.
SameFlags(x, y) ==
    /\ y.frame.header_done = x.frame.header_done
    /\ y.frame.payload_done = x.frame.payload_done
    /\ y.frame.crc_done = x.frame.crc_done
\* As far in every respect but the checksum itself.
SameFrame(x, y) ==
    /\ SameSpan(x, y) /\ SameFlags(x, y)
    /\ y.frame.handled = x.frame.handled /\ y.frame.header = x.frame.header

\* A new state leaves the rest of a manager as it is.
LEMMA StateSet ==
    ASSUME NEW x \in ManagerType, NEW st \in {"IDLE", "BUSY", "CRC", "DONE", "PENDING"},
           NEW y, y = [x EXCEPT !.state = st]
    PROVE  /\ y \in ManagerType /\ SameFrame(x, y) /\ y.state = st
           /\ y.frame.crc_valid = x.frame.crc_valid /\ y.crc_done_cnt = x.crc_done_cnt
BY DEF ManagerType, SameFrame, SameSpan, SameWalk, SameFlags

\* The header of a frame is done; what the frame is a slice of stays.
LEMMA HeaderDone ==
    ASSUME NEW x \in ManagerType, NEW y, y = [x EXCEPT !.frame.header_done = TRUE]
    PROVE  /\ y \in ManagerType /\ SameSpan(x, y) /\ y.state = x.state
           /\ y.frame.header_done /\ y.frame.payload_done = x.frame.payload_done
           /\ y.frame.crc_done = x.frame.crc_done
           /\ y.frame.handled = x.frame.handled /\ y.frame.header = x.frame.header
BY DEF ManagerType, FrameType, SameSpan, SameWalk

\* A part of n words.
PartStep(x, y, n) ==
    /\ SameSpan(x, y) /\ y.state = x.state
    /\ y.frame.handled = x.frame.handled + n
    /\ y.frame.payload_done <=> x.frame.payload_done \/ x.frame.handled + n >= x.frame.len
    /\ y.frame.header_done = x.frame.header_done
    /\ y.frame.crc_done = x.frame.crc_done /\ y.frame.crc_valid = x.frame.crc_valid
    /\ y.crc_done_cnt = x.crc_done_cnt

\* n more words of a frame have been handled.
LEMMA PartUpdate ==
    ASSUME NEW x \in ManagerType, NEW n \in Nat,
           NEW y, y = [x EXCEPT !.frame = cascade_frame_part_update(x.frame, n)]
    PROVE  y \in ManagerType /\ PartStep(x, y, n)
<1> DEFINE h == x.frame.handled + n
           d == x.frame.payload_done \/ h >= x.frame.len
           f == [x.frame EXCEPT !.handled = h, !.payload_done = d]
<1>1. x.frame \in FrameType /\ h \in Nat /\ d \in BOOLEAN
  BY DEF ManagerType, FrameType
<1>2. cascade_frame_part_update(x.frame, n) = f
  BY <1>1 DEF cascade_frame_part_update, FrameType
<1> HIDE DEF h, d
<1>3. /\ f \in FrameType /\ f.handled = h /\ f.payload_done = d
      /\ f.payload = x.frame.payload /\ f.len = x.frame.len
      /\ f.header_done = x.frame.header_done
      /\ f.crc_done = x.frame.crc_done /\ f.crc_valid = x.frame.crc_valid
  BY <1>1 DEF FrameType
<1> HIDE DEF f
<1>4. y \in ManagerType /\ y.frame = f /\ SameWalk(x, y) /\ y.state = x.state
      /\ y.crc_done_cnt = x.crc_done_cnt
  BY <1>2, <1>3 DEF ManagerType, SameWalk
<1> QED
  BY <1>3, <1>4 DEF PartStep, SameSpan, h, d

\* The flags of the checksum change; what the frame is a slice of stays.
LEMMA CrcSent ==
    ASSUME NEW x \in ManagerType, NEW d \in BOOLEAN, NEW v \in BOOLEAN,
           NEW y, y = [x EXCEPT !.frame.crc_done = d, !.frame.crc_valid = v]
    PROVE  /\ y \in ManagerType /\ SameSpan(x, y) /\ y.state = x.state
           /\ y.frame.crc_done = d
           /\ y.frame.header_done = x.frame.header_done
           /\ y.frame.payload_done = x.frame.payload_done
BY DEF ManagerType, FrameType, SameSpan, SameWalk

\* A frame that is reset is fresh, and the manager stays at its place of the package.
LEMMA FrameReset ==
    ASSUME NEW x \in ManagerType, NEW y, y = [x EXCEPT !.frame = cascade_frame_reset(x.frame)]
    PROVE  /\ y \in ManagerType /\ SameWalk(x, y) /\ y.state = x.state /\ Fresh(y.frame)
           /\ y.frame.crc_valid = x.frame.crc_valid /\ y.crc_done_cnt = x.crc_done_cnt
<1> DEFINE f == cascade_frame_reset(x.frame)
<1>1. x.frame \in FrameType
  BY DEF ManagerType
<1>2. f \in FrameType /\ Fresh(f) /\ f.crc_valid = x.frame.crc_valid
  BY <1>1 DEF cascade_frame_reset, FrameType, Fresh
<1> HIDE DEF f
<1>3. y = [x EXCEPT !.frame = f]
  BY DEF f
<1> QED
  BY <1>2, <1>3 DEF ManagerType, SameWalk

\* Cutting a length off at the frame size leaves a length.
LEMMA AtMostNat == \A len \in Nat : AtMost(len, FrameLen) \in Nat
BY LenAssumption DEF AtMost

\* The sender's manager is set up for a package of len words.
LEMMA TxFirst ==
    ASSUME NEW z \in ManagerType, NEW len \in Nat, 0 < len, len <= BufferSize,
           NEW y, y = cascade_tx_first_frame_init(cascade_package_init(z, len))
    PROVE  /\ y \in ManagerType /\ Slice(y) /\ Fresh(y.frame)
           /\ y.xfer_size = len /\ y.cur_frame_id = 0 /\ y.frame.header = len
           /\ y.frame.handled = 0 /\ y.state = z.state
<1> DEFINE x == cascade_package_init(z, len)
<1>1. FrameCount(len) \in Nat
  BY FrameCountBounds
<1>2. /\ x \in ManagerType /\ x.frame \in FrameType /\ x.state = z.state
      /\ x.xfer_size = len /\ x.nof_frame = FrameCount(len) /\ x.cur_frame_id = 0
  BY <1>1 DEF cascade_package_init, ManagerType
<1> HIDE DEF x
<1>3. PICK f : f = StartFrame(x.frame, 0, len, FALSE)
  OBVIOUS
<1>4. /\ f \in FrameType /\ f.payload = 0 /\ f.len = AtMost(len, FrameLen)
      /\ f.handled = 0 /\ ~ f.header_done /\ ~ f.payload_done /\ ~ f.crc_done
  BY <1>2, <1>3, AtMostNat DEF StartFrame, FrameType
<1> DEFINE g == [f EXCEPT !.header = len, !.crc_valid = FALSE]
<1>5. /\ g \in FrameType /\ g.payload = 0 /\ g.len = AtMost(len, FrameLen)
      /\ g.handled = 0 /\ ~ g.header_done /\ ~ g.payload_done /\ ~ g.crc_done
      /\ g.header = len
  BY <1>4 DEF FrameType
<1>6. y = [x EXCEPT !.frame = g]
  BY <1>2, <1>3 DEF cascade_tx_first_frame_init, x
<1> HIDE DEF g
<1>7. /\ y \in ManagerType /\ y.frame = g /\ y.xfer_size = len
      /\ y.nof_frame = FrameCount(len) /\ y.cur_frame_id = 0 /\ y.state = z.state
  BY <1>2, <1>5, <1>6 DEF ManagerType
<1>8. Package(y) /\ 0 * FrameLen = 0
  BY <1>7, FirstFrame
<1>9. len - 0 * FrameLen = len
  BY <1>8
<1> QED
  BY <1>5, <1>7, <1>8, <1>9 DEF Slice, Fresh

\* The receiver's manager is set up for a package of len words that fits.
LEMMA RxFirst ==
    ASSUME NEW z \in ManagerType, NEW len \in Nat, 0 < len, len <= BufferSize,
           NEW y, y = cascade_rx_first_frame_init(cascade_receiver_init(z, len))
    PROVE  /\ y \in ManagerType /\ Slice(y) /\ Parts(y.frame)
           /\ y.xfer_size = len /\ y.cur_frame_id = 0 /\ y.frame.handled = 0
           /\ y.state = "BUSY" /\ y.crc_done_cnt = 0 /\ ~ y.frame.crc_valid
<1> DEFINE w == cascade_package_init(z, len)
           x == cascade_receiver_init(z, len)
<1>1. FrameCount(len) \in Nat
  BY FrameCountBounds
<1>2. /\ w \in ManagerType
      /\ w.xfer_size = len /\ w.nof_frame = FrameCount(len) /\ w.cur_frame_id = 0
  BY <1>1 DEF cascade_package_init, ManagerType
<1>3. x = [w EXCEPT !.crc_done_cnt = 0, !.state = "BUSY"]
  BY DEF cascade_receiver_init
<1> HIDE DEF w
<1>4. /\ x \in ManagerType /\ x.frame \in FrameType /\ x.state = "BUSY" /\ x.crc_done_cnt = 0
      /\ x.xfer_size = len /\ x.nof_frame = FrameCount(len) /\ x.cur_frame_id = 0
  BY <1>2, <1>3 DEF ManagerType
<1> HIDE DEF x
<1>5. PICK f : f = StartFrame(x.frame, 0, len, TRUE)
  OBVIOUS
<1>6. /\ f \in FrameType /\ f.payload = 0 /\ f.len = AtMost(len, FrameLen)
      /\ f.handled = 0 /\ f.header_done /\ ~ f.payload_done /\ ~ f.crc_done
  BY <1>4, <1>5, AtMostNat DEF StartFrame, FrameType
<1> DEFINE g == [f EXCEPT !.crc_valid = FALSE]
<1>7. /\ g \in FrameType /\ g.payload = 0 /\ g.len = AtMost(len, FrameLen)
      /\ g.handled = 0 /\ g.header_done /\ ~ g.payload_done /\ ~ g.crc_done
      /\ ~ g.crc_valid
  BY <1>6 DEF FrameType
<1>8. y = [x EXCEPT !.frame = g]
  BY <1>4, <1>5 DEF cascade_rx_first_frame_init, x
<1> HIDE DEF g
<1>9. /\ y \in ManagerType /\ y.frame = g /\ y.xfer_size = len
      /\ y.nof_frame = FrameCount(len) /\ y.cur_frame_id = 0
      /\ y.state = "BUSY" /\ y.crc_done_cnt = 0
  BY <1>4, <1>7, <1>8 DEF ManagerType
<1>10. Package(y) /\ 0 * FrameLen = 0
  BY <1>9, FirstFrame
<1>11. len - 0 * FrameLen = len
  BY <1>10
<1> QED
  BY <1>7, <1>9, <1>10, <1>11 DEF Slice, Parts

\* There is a next frame unless this is the last.
LEMMA NextOffset ==
    ASSUME NEW x \in ManagerType, Package(x), ~ IsLastFrame(x)
    PROVE  /\ (x.cur_frame_id + 1) * FrameLen \in Nat
           /\ x.xfer_size - (x.cur_frame_id + 1) * FrameLen \in Nat
           /\ x.cur_frame_id + 1 \in Nat /\ x.cur_frame_id + 1 < x.nof_frame
<1> DEFINE next == (x.cur_frame_id + 1) * FrameLen
<1>1. x.xfer_size \in Nat /\ x.cur_frame_id \in Nat /\ x.nof_frame \in Nat
  BY DEF ManagerType
<1>2. next \in Nat /\ next < x.xfer_size
  BY <1>1, FrameSpan, LenAssumption
<1>3. x.cur_frame_id + 1 \in Nat /\ x.cur_frame_id + 1 < x.nof_frame
  BY <1>1 DEF Package, IsLastFrame
<1> HIDE DEF next
<1>4. x.xfer_size - next \in Nat
  BY <1>1, <1>2
<1> QED
  BY <1>2, <1>3, <1>4 DEF next

\* The sender's next frame is the next slice.
LEMMA TxNext ==
    ASSUME NEW x \in ManagerType, Package(x), ~ IsLastFrame(x),
           NEW y, y = cascade_tx_next_frame_init(x)
    PROVE  /\ y \in ManagerType /\ OneAhead(y, x) /\ Fresh(y.frame)
           /\ y.frame.handled = 0 /\ y.frame.header = y.frame.len /\ y.state = x.state
<1> DEFINE ofs == (x.cur_frame_id + 1) * FrameLen
           left == x.xfer_size - ofs
           len == AtMost(left, FrameLen)
           id == x.cur_frame_id + 1
<1>1. x.frame \in FrameType /\ x.cur_frame_id \in Nat /\ x.xfer_size \in Nat
  BY DEF ManagerType
<1>2. ofs \in Nat /\ left \in Nat /\ id \in Nat /\ id < x.nof_frame
  BY NextOffset
<1> HIDE DEF ofs, left
<1>3. len \in Nat /\ AtMost(len, FrameLen) = len
  BY <1>2, LenAssumption DEF AtMost
<1>4. PICK f : f = StartFrame(x.frame, ofs, len, FALSE)
  OBVIOUS
<1> DEFINE g == [f EXCEPT !.header = len]
<1>5. y = [x EXCEPT !.frame = g, !.cur_frame_id = id]
  BY <1>1, <1>4 DEF cascade_tx_next_frame_init, ManagerType, ofs, left
<1> HIDE DEF len, id
<1>6. /\ f \in FrameType /\ f.payload = ofs /\ f.len = len
      /\ f.handled = 0 /\ ~ f.header_done /\ ~ f.payload_done /\ ~ f.crc_done
  BY <1>1, <1>2, <1>3, <1>4, AtMostNat DEF StartFrame, FrameType
<1>7. /\ g \in FrameType /\ g.payload = ofs /\ g.len = len /\ g.header = len
      /\ g.handled = 0 /\ ~ g.header_done /\ ~ g.payload_done /\ ~ g.crc_done
  BY <1>3, <1>6 DEF FrameType
<1> HIDE DEF g
<1>8. /\ y \in ManagerType /\ y.frame = g /\ y.xfer_size = x.xfer_size
      /\ y.nof_frame = x.nof_frame /\ y.cur_frame_id = id /\ y.state = x.state
  BY <1>1, <1>2, <1>5, <1>7 DEF ManagerType
<1> QED
  BY <1>2, <1>7, <1>8 DEF OneAhead, Slice, Package, Fresh, len, left, ofs, id

\* The receiver's next frame is the next slice.
LEMMA RxNext ==
    ASSUME NEW x \in ManagerType, Package(x), ~ IsLastFrame(x),
           NEW y, y = cascade_rx_next_frame_init(x)
    PROVE  /\ y \in ManagerType /\ OneAhead(y, x) /\ Parts(y.frame)
           /\ y.frame.handled = 0 /\ y.state = x.state
           /\ y.frame.crc_valid = x.frame.crc_valid /\ y.crc_done_cnt = x.crc_done_cnt
<1> DEFINE ofs == (x.cur_frame_id + 1) * FrameLen
           left == x.xfer_size - ofs
           id == x.cur_frame_id + 1
<1>1. x.frame \in FrameType /\ x.cur_frame_id \in Nat /\ x.xfer_size \in Nat
  BY DEF ManagerType
<1>2. ofs \in Nat /\ left \in Nat /\ id \in Nat /\ id < x.nof_frame
  BY NextOffset
<1>3. PICK f : f = StartFrame(x.frame, ofs, left, TRUE)
  OBVIOUS
<1>4. y = [x EXCEPT !.frame = f, !.cur_frame_id = id]
  BY <1>1, <1>3 DEF cascade_rx_next_frame_init, ManagerType
<1> HIDE DEF ofs, left, id
<1>5. /\ f \in FrameType /\ f.payload = ofs /\ f.len = AtMost(left, FrameLen)
      /\ f.handled = 0 /\ f.header_done /\ ~ f.payload_done /\ ~ f.crc_done
      /\ f.crc_valid = x.frame.crc_valid
  BY <1>1, <1>2, <1>3, AtMostNat DEF StartFrame, FrameType
<1>6. /\ y \in ManagerType /\ y.frame = f /\ y.xfer_size = x.xfer_size
      /\ y.nof_frame = x.nof_frame /\ y.cur_frame_id = id /\ y.state = x.state
      /\ y.crc_done_cnt = x.crc_done_cnt
  BY <1>1, <1>2, <1>4, <1>5 DEF ManagerType
<1> QED
  BY <1>2, <1>5, <1>6 DEF OneAhead, Slice, Package, Parts, left, ofs, id

-----------------------------------------------------------------------------
(* What stays.                                                             *)

\* The histories settle which package is open, and what its words are.
LEMMA SameApps ==
    ASSUME sent' = sent, got' = got
    PROVE  /\ \A s \in Side : /\ Size(s)' = Size(s)
                              /\ Open(s)' <=> Open(s)
                              /\ Even(s)' <=> Even(s)
           /\ \A s \in Side : \A ofs, n : Words(s, ofs, n)' = Words(s, ofs, n)
BY DEF Size, Open, Even, Words, Peer, Side

\* As long as the buffer stays, what has arrived stays.
LEMMA SameBuffer ==
    ASSUME sent' = sent, NEW s \in Side, rx_data_buffer'[s] = rx_data_buffer[s]
    PROVE  \A n : Arrived(s, n)' <=> Arrived(s, n)
BY DEF Arrived, Peer, Side

\* While a package goes from M to S, nothing else begins of itself.
LEMMA MAloneStill ==
    ASSUME MAlone, sent' = sent, got' = got, writer'["S"] = writer["S"], reader' = reader,
           rx_queue'["M"] = rx_queue["M"]
    PROVE  MAlone'
BY SameApps DEF MAlone, Side

\* While a package goes from S to M, nothing else begins of itself.
LEMMA SAloneStill ==
    ASSUME SAlone, sent' = sent, got' = got, writer'["M"] = writer["M"], reader' = reader,
           rx_queue'["S"] = rx_queue["S"]
    PROVE  SAlone'
BY SameApps DEF SAlone, Side

-----------------------------------------------------------------------------
(* The wire.                                                               *)

\* the rest of the controller and driver stays
SameDriver(s, t) ==
    /\ t.rxint = s.rxint /\ t.txint = s.txint /\ t.thres = s.thres
    /\ t.rxon = s.rxon /\ t.txon = s.txon /\ t.rxdev = s.rxdev /\ t.txdev = s.txdev

\* What M clocks into an empty RX FIFO is all that is in it.
LEMMA ClockedOut ==
    ASSUME spi \in SpiType, NEW out \in Seq(WordType), Len(out) <= FifoDepth,
           spi.txf = <<>>, spi.rxf = <<>>, spi' = Clocked(out)
    PROVE  /\ spi' \in SpiType /\ spi'.rxf = out /\ spi'.txf = <<>>
           /\ SameDriver(spi, spi')
<1>1. spi.rxf \o out = out
  BY DEF SpiType
<1>2. (IF Len(out) >= Len(spi.txf) THEN <<>> ELSE SubSeq(spi.txf, Len(out) + 1, Len(spi.txf))) = <<>>
  OBVIOUS
<1>3. (IF Len(spi.rxf \o out) > FifoDepth THEN SubSeq(spi.rxf \o out, 1, FifoDepth) ELSE spi.rxf \o out) = out
  BY <1>1, CoreAssumption, LenAssumption DEF CoreAssumption, LenAssumption
<1>4. spi' = [spi EXCEPT !.txf = <<>>, !.rxf = out]
  BY <1>2, <1>3 DEF Clocked, SpiType
<1> QED
  BY <1>4 DEF SpiType, SameDriver

\* M clocks the n words in that the FIFO holds.
LEMMA ClockedThrough ==
    ASSUME spi \in SpiType, Len(spi.rxf) <= FifoDepth, FifoDepth \in Nat,
           NEW n \in Nat, n <= FifoDepth, Len(spi.txf) = n, spi' = Clocked(Dummy(n))
    PROVE  /\ spi' \in SpiType /\ spi'.txf = <<>> /\ Len(spi'.rxf) <= FifoDepth
           /\ spi.rxf = <<>> => Len(spi'.rxf) = n
           /\ SameDriver(spi, spi') /\ ClockedIn(n) = spi.txf
<1>1. /\ Junk \in WordType /\ Dummy(n) \in Seq(WordType) /\ Len(Dummy(n)) = n
      /\ spi.rxf \in Seq(WordType) /\ spi.txf \in Seq(WordType)
  <2>1. Junk \in WordType
    BY DEF Junk, WordType
  <2>2. Dummy(n) \in [1 .. n -> WordType]
    BY <2>1 DEF Dummy
  <2>3. Dummy(n) \in Seq(WordType) /\ Len(Dummy(n)) = n
    BY <2>2
  <2> QED
    BY <2>1, <2>3 DEF SpiType
<1>2. ClockedIn(n) = spi.txf
  <2>1. ClockedIn(n) = [k \in 1 .. n |-> spi.txf[k]]
    BY DEF ClockedIn
  <2> QED
    BY <1>1, <2>1
<1> DEFINE all == spi.rxf \o Dummy(n)
           rxf == IF Len(all) > FifoDepth THEN SubSeq(all, 1, FifoDepth) ELSE all
<1>3. all \in Seq(WordType) /\ Len(all) = Len(spi.rxf) + n /\ Len(spi.rxf) \in Nat
  BY <1>1
<1>4. rxf \in Seq(WordType) /\ Len(rxf) <= FifoDepth
  <2> HIDE DEF all
  <2>1. CASE Len(all) > FifoDepth
    <3>1. SubSeq(all, 1, FifoDepth) \in Seq(WordType) /\ Len(SubSeq(all, 1, FifoDepth)) = FifoDepth
      BY <1>3, <2>1
    <3> QED
      BY <2>1, <3>1
  <2>2. CASE ~ (Len(all) > FifoDepth)
    BY <1>3, <2>2
  <2> QED
    BY <2>1, <2>2
<1>5. spi.rxf = <<>> => Len(rxf) = n
  BY <1>3
<1>6. PICK r \in Seq(WordType) : r = rxf
  BY <1>4
<1>7. (IF Len(Dummy(n)) >= Len(spi.txf) THEN <<>>
       ELSE SubSeq(spi.txf, Len(Dummy(n)) + 1, Len(spi.txf))) = <<>>
  BY <1>1
<1>8. spi' = [spi EXCEPT !.txf = <<>>, !.rxf = r]
  BY <1>6, <1>7 DEF Clocked, SpiType
<1> HIDE DEF rxf
<1>9. /\ spi' \in SpiType /\ spi'.rxf = r /\ spi'.txf = <<>> /\ SameDriver(spi, spi')
  <2>1. r \in Seq(WordType) /\ <<>> \in Seq(WordType)
    BY <1>6
  <2>2. spi' \in SpiType
    BY <1>8, <2>1 DEF SpiType
  <2>3. spi'.rxf = r /\ spi'.txf = <<>>
    BY <1>8, <2>1 DEF SpiType
  <2>4. SameDriver(spi, spi')
    BY <1>8, <2>1 DEF SpiType, SameDriver
  <2> QED
    BY <2>2, <2>3, <2>4
<1> QED
  BY <1>2, <1>4, <1>5, <1>6, <1>9

\* A word fits a FIFO.
LEMMA OneWord == FifoDepth \in Nat /\ 1 <= FifoDepth
BY CoreAssumption, LenAssumption DEF CoreAssumption, LenAssumption

\* A header is one word of the wire.
LEMMA HeaderWord ==
    \A n \in Nat : <<Header(n)>> \in Seq(WordType) /\ Len(<<Header(n)>>) = 1
BY DEF Header, WordType

\* words of a package, as they go over the wire
LEMMA PieceWords ==
    ASSUME TypeOK, NEW s \in Side, sent[s] # <<>>, NEW ofs \in Nat, NEW n \in Nat
    PROVE  /\ Len(TxWords(s, ofs, n)) = n
           /\ [k \in DOMAIN TxWords(s, ofs, n) |-> Data(TxWords(s, ofs, n)[k])] = Words(s, ofs, n)
           /\ Words(s, ofs, n) \in Seq(WordType) /\ Len(Words(s, ofs, n)) = n
           /\ TxWords(s, ofs, n) \in Seq(Nat)
<1>1. Len(sent[s]) \in Nat /\ Len(sent[s]) >= 1
  BY DEF TypeOK
<1>2. ASSUME NEW k \in 1 .. n
      PROVE  Datum(Len(sent[s]), ofs + k - 1) \in Nat
  <2>1. (Len(sent[s]) - 1) * BufferSize \in Nat
    BY <1>1, LenAssumption DEF LenAssumption
  <2> QED
    BY <2>1, <1>1 DEF Datum
<1>3. TxWords(s, ofs, n) \in [1 .. n -> Nat]
  BY <1>2 DEF TxWords
<1>4. TxWords(s, ofs, n) \in Seq(Nat) /\ Len(TxWords(s, ofs, n)) = n /\ DOMAIN TxWords(s, ofs, n) = 1 .. n
  BY <1>3
<1>5. ASSUME NEW k \in 1 .. n
      PROVE  /\ Data(TxWords(s, ofs, n)[k]) = Data(Datum(Len(sent[s]), ofs + k - 1))
             /\ Data(Datum(Len(sent[s]), ofs + k - 1)) \in WordType
  <2>1. TxWords(s, ofs, n)[k] = Datum(Len(sent[s]), ofs + k - 1)
    BY DEF TxWords
  <2>2. \A d \in Nat : Data(d) \in WordType
    BY DEF Data, WordType
  <2> QED
    BY <1>2, <2>1, <2>2
<1>6. Words(s, ofs, n) \in [1 .. n -> WordType]
  BY <1>5 DEF Words
<1>7. Words(s, ofs, n) \in Seq(WordType) /\ Len(Words(s, ofs, n)) = n
  BY <1>6
<1>8. [k \in DOMAIN TxWords(s, ofs, n) |-> Data(TxWords(s, ofs, n)[k])] = Words(s, ofs, n)
  BY <1>4, <1>5 DEF Words
<1> QED
  BY <1>4, <1>7, <1>8

\* A checksum is one word of the wire.
LEMMA ChecksumWord ==
    \A c \in Seq(Nat) :
        <<Checksum(c)>> \in Seq(WordType) /\ Len(<<Checksum(c)>>) = 1 /\ IsChecksum(<<Checksum(c)>>)
BY DEF Checksum, WordType, IsChecksum

\* The next n words of the package join those that have arrived.
LEMMA StoredWords ==
    ASSUME TypeOK, NEW s \in Side, NEW base \in Nat, NEW n \in Nat,
           base + n <= BufferSize, Arrived(s, base), sent[Peer(s)] # <<>>, sent' = sent,
           rx_data_buffer' = [rx_data_buffer EXCEPT ![s] =
                                 Stored(@, base, Words(Peer(s), base, n))]
    PROVE  /\ rx_data_buffer' \in [Side -> [0 .. BufferSize - 1 -> Nat]]
           /\ Arrived(s, base + n)'
           /\ \A r \in Side : r # s => rx_data_buffer'[r] = rx_data_buffer[r]
<1> DEFINE ws == Words(Peer(s), base, n)
           buf == rx_data_buffer[s]
<1>1. Peer(s) \in Side
  BY DEF Peer, Side
<1>2. /\ buf \in [0 .. BufferSize - 1 -> Nat] /\ BufferSize \in Nat
      /\ rx_data_buffer \in [Side -> [0 .. BufferSize - 1 -> Nat]]
  BY LenAssumption DEF TypeOK
<1>3. Len(ws) = n
  BY <1>1, PieceWords
<1>4. ASSUME NEW k \in 1 .. n
      PROVE  /\ Payload(ws[k]) = Datum(Len(sent[Peer(s)]), base + k - 1)
             /\ Datum(Len(sent[Peer(s)]), base + k - 1) \in Nat
  <2>1. ws[k] = Data(Datum(Len(sent[Peer(s)]), base + k - 1))
    BY DEF Words
  <2>2. Payload(ws[k]) = Datum(Len(sent[Peer(s)]), base + k - 1)
    BY <2>1 DEF Payload, Data
  <2>3. TxWords(Peer(s), base, n) \in Seq(Nat) /\ Len(TxWords(Peer(s), base, n)) = n
    BY <1>1, PieceWords
  <2>4. TxWords(Peer(s), base, n)[k] = Datum(Len(sent[Peer(s)]), base + k - 1)
    BY DEF TxWords
  <2> QED
    BY <2>2, <2>3, <2>4
<1> HIDE DEF ws
<1>5. ASSUME NEW i \in 0 .. BufferSize - 1
      PROVE  Stored(buf, base, ws)[i] =
                IF base <= i /\ i < base + n
                THEN Datum(Len(sent[Peer(s)]), i) ELSE buf[i]
  <2>1. Stored(buf, base, ws)[i] =
           IF base <= i /\ i < base + n THEN Payload(ws[i - base + 1]) ELSE buf[i]
    BY <1>2, <1>3 DEF Stored
  <2>2. CASE base <= i /\ i < base + n
    <3>1. i - base + 1 \in 1 .. n /\ base + (i - base + 1) - 1 = i
      BY <2>2
    <3> QED
      BY <1>4, <2>1, <2>2, <3>1
  <2> QED
    BY <2>1, <2>2
<1>6. rx_data_buffer'[s] = Stored(buf, base, ws)
  BY <1>2 DEF ws
<1>7. ASSUME NEW i \in 0 .. BufferSize - 1
      PROVE  Stored(buf, base, ws)[i] \in Nat
  <2>1. CASE base <= i /\ i < base + n
    <3>1. i - base + 1 \in 1 .. n /\ base + (i - base + 1) - 1 = i
      BY <2>1
    <3>2. Datum(Len(sent[Peer(s)]), i) \in Nat
      BY <1>4, <3>1
    <3> QED
      BY <1>5, <2>1, <3>2
  <2> QED
    BY <1>2, <1>5, <2>1
<1>8. Stored(buf, base, ws) \in [0 .. BufferSize - 1 -> Nat]
  BY <1>2, <1>7 DEF Stored
<1>9. rx_data_buffer' \in [Side -> [0 .. BufferSize - 1 -> Nat]]
  BY <1>2, <1>6, <1>8
<1>10. Arrived(s, base + n)'
  <2> SUFFICES ASSUME NEW i \in 0 .. base + n - 1
               PROVE  rx_data_buffer'[s][i] = Datum(Len(sent[Peer(s)]), i)
    BY DEF Arrived, Peer
  <2>1. i \in 0 .. BufferSize - 1
    BY <1>2
  <2>2. CASE base <= i
    BY <1>5, <1>6, <2>1, <2>2
  <2>3. CASE ~ (base <= i)
    <3>1. i \in 0 .. base - 1
      BY <2>3
    <3> QED
      BY <1>5, <1>6, <2>1, <2>3, <3>1 DEF Arrived
  <2> QED
    BY <2>2, <2>3
<1> QED
  BY <1>2, <1>9, <1>10

-----------------------------------------------------------------------------
(* The four managers.                                                      *)

\* The four managers and their frames, and the SPI driver, have their types.
LEMMA Managers ==
    ASSUME TypeOK
    PROVE  /\ tx_mng \in [Side -> ManagerType] /\ rx_mng \in [Side -> ManagerType]
           /\ spi \in SpiType
           /\ TxM \in ManagerType /\ TxM.frame \in FrameType
           /\ RxM \in ManagerType /\ RxM.frame \in FrameType
           /\ TxS \in ManagerType /\ TxS.frame \in FrameType
           /\ RxS \in ManagerType /\ RxS.frame \in FrameType
<1>1. \A x \in ManagerType : x.frame \in FrameType
  BY DEF ManagerType
<1> QED
  BY <1>1 DEF TypeOK, Side, TxM, RxM, TxS, RxS

\* M's sending manager is replaced.
LEMMA TxMSet ==
    ASSUME TypeOK, NEW x, tx_mng' = [tx_mng EXCEPT !["M"] = x]
    PROVE  /\ TxM' = x /\ TxS' = TxS
           /\ x \in ManagerType => tx_mng' \in [Side -> ManagerType]
BY DEF TypeOK, Side, TxM, TxS

\* M's receiving manager is replaced.
LEMMA RxMSet ==
    ASSUME TypeOK, NEW x, rx_mng' = [rx_mng EXCEPT !["M"] = x]
    PROVE  /\ RxM' = x /\ RxS' = RxS
           /\ x \in ManagerType => rx_mng' \in [Side -> ManagerType]
BY DEF TypeOK, Side, RxM, RxS

\* S's sending manager is replaced.
LEMMA TxSSet ==
    ASSUME TypeOK, NEW x, tx_mng' = [tx_mng EXCEPT !["S"] = x]
    PROVE  /\ TxS' = x /\ TxM' = TxM
           /\ x \in ManagerType => tx_mng' \in [Side -> ManagerType]
BY DEF TypeOK, Side, TxM, TxS

\* S's receiving manager is replaced.
LEMMA RxSSet ==
    ASSUME TypeOK, NEW x, rx_mng' = [rx_mng EXCEPT !["S"] = x]
    PROVE  /\ RxS' = x /\ RxM' = RxM
           /\ x \in ManagerType => rx_mng' \in [Side -> ManagerType]
BY DEF TypeOK, Side, RxM, RxS

\* The sending managers stay.
LEMMA TxSame == ASSUME tx_mng' = tx_mng PROVE TxM' = TxM /\ TxS' = TxS
BY DEF TxM, TxS

\* The receiving managers stay.
LEMMA RxSame == ASSUME rx_mng' = rx_mng PROVE RxM' = RxM /\ RxS' = RxS
BY DEF RxM, RxS

\* After its checksum the sender is at the next frame, or through with the package.
AtNextFrame(x, y) ==
    /\ ~ IsLastFrame(x) /\ OneAhead(y, x) /\ Fresh(y.frame)
    /\ y.frame.handled = 0 /\ y.frame.header = y.frame.len /\ y.state = x.state

\* tx_frame_done: the next frame, or the package is confirmed.
LEMMA TxFrameDone ==
    ASSUME TypeOK, NEW s \in Side, NEW x \in ManagerType, Package(x),
           NEW idle \in {"INVALID", "SLV_TX_DONE"}, tx_frame_done(s, x, idle)
    PROVE  /\ tx_mng' \in [Side -> ManagerType]
           /\ \A r \in Side : r # s => tx_mng'[r] = tx_mng[r] /\ xfer_type'[r] = xfer_type[r]
           /\ xfer_type' \in [Side -> {"INVALID", "RX", "TX", "SLV_TX_DONE"}]
           /\ tx_queue' \in [Side -> 0 .. QueueLen]
           /\ \/ AtNextFrame(x, tx_mng'[s]) /\ xfer_type'[s] = xfer_type[s]
              \/ /\ IsLastFrame(x) /\ xfer_type'[s] = idle
                 /\ SameFrame(x, tx_mng'[s]) /\ tx_mng'[s].state = "IDLE"
<1>1. /\ xfer_type \in [Side -> {"INVALID", "RX", "TX", "SLV_TX_DONE"}]
      /\ tx_mng \in [Side -> ManagerType] /\ tx_queue \in [Side -> 0 .. QueueLen]
      /\ QueueLen \in Nat
  BY CoreAssumption DEF TypeOK
<1>2. CASE ~ IsLastFrame(x)
  <2>1. /\ tx_mng' = [tx_mng EXCEPT ![s] = cascade_tx_next_frame_init(x)]
        /\ xfer_type' = xfer_type /\ tx_queue' = tx_queue
    BY <1>2 DEF tx_frame_done
  <2>2. tx_mng'[s] = cascade_tx_next_frame_init(x)
    BY <1>1, <2>1
  <2>3. tx_mng'[s] \in ManagerType /\ AtNextFrame(x, tx_mng'[s])
    BY <1>2, <2>2, TxNext DEF AtNextFrame
  <2> QED
    BY <1>1, <2>1, <2>2, <2>3
<1>3. CASE IsLastFrame(x)
  <2>1. /\ tx_mng' = [tx_mng EXCEPT ![s] = [x EXCEPT !.state = "IDLE"]]
        /\ xfer_type' = [xfer_type EXCEPT ![s] = idle]
        /\ tx_queue' = [tx_queue EXCEPT ![s] = IF @ < QueueLen THEN @ + 1 ELSE @]
    BY <1>3 DEF tx_frame_done
  <2>2. tx_mng'[s] = [x EXCEPT !.state = "IDLE"]
    BY <1>1, <2>1
  <2>3. tx_mng'[s] \in ManagerType /\ SameFrame(x, tx_mng'[s]) /\ tx_mng'[s].state = "IDLE"
    BY <2>2, StateSet
  <2>4. tx_queue' \in [Side -> 0 .. QueueLen]
    BY <1>1, <2>1
  <2>5. /\ tx_mng' \in [Side -> ManagerType]
        /\ \A r \in Side : r # s => tx_mng'[r] = tx_mng[r] /\ xfer_type'[r] = xfer_type[r]
        /\ xfer_type'[s] = idle
        /\ xfer_type' \in [Side -> {"INVALID", "RX", "TX", "SLV_TX_DONE"}]
    BY <1>1, <2>1, <2>2, <2>3
  <2> QED
    BY <1>3, <2>3, <2>4, <2>5
<1> QED
  BY <1>2, <1>3

\* A manager that is not DONE does not become PENDING.
LEMMA PendedSame ==
    ASSUME NEW x \in ManagerType, x.state # "DONE"
    PROVE  Pended(x) = x
BY DEF Pended, ManagerType

\* What is asked to be computed over is part of a package, or of the buffer.
LEMMA Request ==
    ASSUME TypeOK, Requests, sent' = sent, NEW s \in Side, NEW mem \in {"rx", "tx"},
           NEW x \in ManagerType, cascade_crc_request(s, mem, x.frame),
           mem = "tx" => sent[s] # <<>>,
           mem = "rx" => x.frame.payload + x.frame.len <= BufferSize
    PROVE  /\ cs_last_frame_info' \in [Side -> [mem : {"none", "rx", "tx"}, ofs : Nat, len : Nat]]
           /\ Requests'
<1>1. x.frame.payload \in Nat /\ x.frame.len \in Nat
  BY DEF ManagerType, FrameType
<1>2. cs_last_frame_info' \in [Side -> [mem : {"none", "rx", "tx"}, ofs : Nat, len : Nat]]
  BY <1>1 DEF TypeOK, Side, cascade_crc_request
<1> QED
  BY <1>1, <1>2 DEF TypeOK, Requests, Side, cascade_crc_request

\* What is asked to be computed over stays.
LEMMA RequestsStay ==
    ASSUME Requests, sent' = sent, cs_last_frame_info' = cs_last_frame_info
    PROVE  Requests'
BY DEF Requests

-----------------------------------------------------------------------------
(* What an edge and an interrupt mean.                                     *)

\* s2m_sync_task takes an edge while M sends: S is ready for a part, the checksum or
\* the next header.
LEMMA MasterSendEdge ==
    ASSUME TakingTurns, IInv, InSession("TX")
    PROVE  /\ MTurn /\ sync_task = "wait" /\ sync_queue = 1 /\ sync_queue' = 0
           /\ crc_task["M"].pc = "idle" /\ writer["M"] = "idle"
           /\ MPart \/ MFull \/ (MEdge /\ MNext)
<1>1. /\ sync_task = "wait" /\ sync_queue > 0 /\ sync_queue' = sync_queue - 1
      /\ xfer_type["M"] = "TX"
  BY DEF InSession, TakeEdge
<1>2. crc_task["M"].pc = "idle" /\ writer["M"] \notin {"claimed", "request"}
  BY DEF InSession, TakeEdge, MayRun, TasksInside, TakingTurns
<1>3. MTurn /\ (MPart \/ MFull \/ (MEdge /\ MNext))
  BY <1>1, <1>2
     DEF IInv, Stage, MTurn, STurn, Pause, MFilled, MClaimed, MHeader, MPart, MWords, MFull, MCrc,
         MEdge, MFrame, MLast, MDelivered, SFilled, SClaimed, SHeader, SPart, SWords, SDone, SCrc,
         SRead, SFrame, SDelivered, EdgeOut, NoEdgeOut, AtRest, SThrough, MBusy, MSent
<1> QED
  BY <1>1, <1>2, <1>3 DEF MPart, MFull, MEdge, EdgeOut, NoEdgeOut

\* while M receives: a part, a checksum or a header is in S's FIFO
LEMMA MasterReceiveEdge ==
    ASSUME TakingTurns, IInv, InSession("RX")
    PROVE  /\ STurn /\ sync_task = "wait" /\ sync_queue = 1 /\ sync_queue' = 0
           /\ crc_task["M"].pc = "idle" /\ writer["M"] = "idle"
           /\ SWords \/ SCrc \/ SRead \/ SFrame
<1>1. /\ sync_task = "wait" /\ sync_queue > 0 /\ sync_queue' = sync_queue - 1
      /\ xfer_type["M"] = "RX"
  BY DEF InSession, TakeEdge
<1>2. crc_task["M"].pc = "idle" /\ writer["M"] \notin {"claimed", "request"}
  BY DEF InSession, TakeEdge, MayRun, TasksInside, TakingTurns
<1> QED
  BY <1>1, <1>2
     DEF IInv, Stage, MTurn, STurn, Pause, MFilled, MClaimed, MHeader, MPart, MWords, MFull, MCrc,
         MEdge, MFrame, MLast, MDelivered, SFilled, SClaimed, SHeader, SPart, SWords, SDone, SCrc,
         SRead, SFrame, SDelivered, EdgeOut, NoEdgeOut, AtRest, SThrough, SGoesOn, SNextFrame,
         MSends, MBusy, SBusy, SFull, SNext, MNext, MSent, SAlone, MThrough

\* and in no session: the header of a package is
LEMMA MasterNewEdge ==
    ASSUME TakingTurns, IInv, InSession("INVALID")
    PROVE  /\ STurn /\ sync_task = "wait" /\ sync_queue = 1 /\ sync_queue' = 0
           /\ crc_task["M"].pc = "idle" /\ writer["M"] = "idle"
           /\ SHeader
<1>1. /\ sync_task = "wait" /\ sync_queue > 0 /\ sync_queue' = sync_queue - 1
      /\ xfer_type["M"] = "INVALID"
  BY DEF InSession, TakeEdge
<1>2. crc_task["M"].pc = "idle" /\ writer["M"] \notin {"claimed", "request"}
  BY DEF InSession, TakeEdge, MayRun, TasksInside, TakingTurns
<1> QED
  BY <1>1, <1>2
     DEF IInv, Stage, MTurn, STurn, Pause, MFilled, MClaimed, MHeader, MPart, MWords, MFull, MCrc,
         MEdge, MFrame, MLast, MDelivered, SFilled, SClaimed, SHeader, SPart, SWords, SDone, SCrc,
         SRead, SFrame, SDelivered, EdgeOut, NoEdgeOut, AtRest, SThrough, SGoesOn, SNextFrame,
         MSends, MBusy, SBusy, SFull, SNext, MNext, MSent, SAlone, MThrough

-----------------------------------------------------------------------------
(* M's handlers while it sends.                                            *)

\* M clocks the header of its next frame into S's FIFO.
LEMMA MasterSendHeaderKeeps == ASSUME TakingTurns, IInv, MasterSendHeader PROVE IInv'
<1>1. /\ xfer_type' = xfer_type /\ rx_mng' = rx_mng /\ crc_unmatch' = crc_unmatch
      /\ sync_task' = sync_task /\ crc_task' = crc_task
      /\ rx_queue' = rx_queue /\ tx_queue' = tx_queue /\ rx_data_buffer' = rx_data_buffer
      /\ writer' = writer /\ reader' = reader /\ sent' = sent /\ got' = got
      /\ ~ TxM.frame.header_done
      /\ spi' = Clocked(<<Header(TxM.frame.header)>>)
      /\ tx_mng' = [tx_mng EXCEPT !["M"] = [TxM EXCEPT !.frame.header_done = TRUE]]
      /\ cascade_crc_request("M", "tx", TxM.frame)
  BY DEF MasterSendHeader, apps, queues, TxM
<1>2. InSession("TX")
  BY DEF MasterSendHeader
<1>3. /\ MTurn /\ MEdge /\ MNext /\ sync_task = "wait" /\ sync_queue' = 0
  BY <1>1, <1>2, MasterSendEdge DEF MPart, MFull, Parts, Full
<1>4. /\ TxM \in ManagerType /\ tx_mng \in [Side -> ManagerType] /\ spi \in SpiType
  BY DEF IInv, TypeOK, Side, TxM
<1>5. TxM' = [TxM EXCEPT !.frame.header_done = TRUE] /\ TxS' = TxS /\ RxS' = RxS /\ RxM' = RxM
  BY <1>1, <1>4 DEF Side, TxM, TxS, RxM, RxS
<1>6. /\ TxM' \in ManagerType /\ SameSpan(TxM, TxM') /\ TxM'.state = TxM.state
      /\ TxM'.frame.handled = TxM.frame.handled /\ TxM'.frame.header = TxM.frame.header
      /\ TxM'.frame.header_done /\ TxM'.frame.payload_done = TxM.frame.payload_done
      /\ TxM'.frame.crc_done = TxM.frame.crc_done
  BY <1>4, <1>5, HeaderDone
<1>7. TxM.frame.header \in Nat /\ TxM.frame.payload \in Nat /\ TxM.frame.len \in Nat
  BY <1>4 DEF ManagerType, FrameType
<1>8. /\ spi' \in SpiType /\ spi'.rxf = <<Header(TxM.frame.header)>> /\ spi'.txf = <<>>
      /\ SameDriver(spi, spi')
  <2>1. spi.txf = <<>> /\ spi.rxf = <<>>
    BY <1>3 DEF MEdge, SNext, SBusy, Listening
  <2> QED
    BY <1>1, <1>4, <1>7, <2>1, ClockedOut, HeaderWord, OneWord
<1>9. Stage'
  <2>1. Size("M")' = Size("M") /\ \A n : Arrived("S", n)' <=> Arrived("S", n)
    BY <1>1, SameApps, SameBuffer DEF Side
  <2>2. SNext'
    BY <1>1, <1>3, <1>5, <1>8, <2>1 DEF MEdge, SNext, SBusy, Listening, SameDriver
  <2>3. OneAhead(TxM', RxS') /\ TxM'.xfer_size = TxM.xfer_size
    BY <1>3, <1>5, <1>6 DEF MNext, SameSpan, SameWalk, OneAhead, Slice, Package
  <2>4. MFrame'
    BY <1>1, <1>3, <1>6, <1>8, <2>1, <2>2, <2>3
       DEF MEdge, MFrame, MNext, Fresh, Parts, MSends, NoEdgeOut, SameSpan
  <2>5. MAlone'
    BY <1>1, <1>3, MAloneStill DEF MTurn
  <2> QED
    BY <2>4, <2>5 DEF Stage, MTurn
<1>12. /\ cs_last_frame_info' \in [Side -> [mem : {"none", "rx", "tx"}, ofs : Nat, len : Nat]]
       /\ Requests'
  <2>1. sent["M"] # <<>>
    BY <1>3 DEF IInv, TypeOK, MTurn, MAlone, Open, Peer, Side
  <2> QED
    BY <1>1, <1>4, <2>1, Request DEF IInv, Side
<1>10. TypeOK'
  <2>1. tx_mng' \in [Side -> ManagerType]
    BY <1>1, <1>4, <1>5, <1>6 DEF Side
  <2>3. Len(spi'.txf) <= FifoDepth /\ Len(spi'.rxf) <= FifoDepth
    BY <1>8, <1>7, HeaderWord, OneWord
  <2>4. sync_queue' \in 0 .. QueueLen
    BY <1>3, CoreAssumption DEF CoreAssumption
  <2> QED
    BY <1>1, <1>8, <1>12, <2>1, <2>3, <2>4 DEF IInv, TypeOK
<1>11. CrcTasks' /\ Counts'
  BY <1>1, <1>5 DEF IInv, CrcTasks, Counts
<1> QED
  BY <1>9, <1>10, <1>11, <1>12 DEF IInv

\* M clocks a part of its frame into S's FIFO.
LEMMA MasterSendPartKeeps == ASSUME TakingTurns, IInv, MasterSendPart PROVE IInv'
<1> DEFINE f == TxM.frame
           n == FramePartSize(f)
           words == TxWords("M", FramePartBase(f), n)
<1>1. /\ xfer_type' = xfer_type /\ rx_mng' = rx_mng /\ crc_unmatch' = crc_unmatch
      /\ sync_task' = sync_task /\ crc_task' = crc_task /\ cs_last_frame_info' = cs_last_frame_info
      /\ rx_queue' = rx_queue /\ tx_queue' = tx_queue /\ rx_data_buffer' = rx_data_buffer
      /\ writer' = writer /\ reader' = reader /\ sent' = sent /\ got' = got
      /\ f.header_done /\ ~ f.payload_done
      /\ spi' = Clocked([k \in DOMAIN words |-> Data(words[k])])
      /\ tx_mng' = [tx_mng EXCEPT !["M"] =
                       [TxM EXCEPT !.frame = cascade_frame_part_update(f, Len(words))]]
  BY DEF MasterSendPart, apps, queues, memory, TxM
<1>2. InSession("TX")
  BY DEF MasterSendPart
<1>3. /\ MTurn /\ MPart /\ sync_task = "wait" /\ sync_queue' = 0
      /\ crc_task["M"].pc = "idle" /\ writer["M"] = "idle"
  BY <1>1, <1>2, MasterSendEdge DEF MFull, MEdge, MNext, Fresh, Full
<1>4. TypeOK
  BY DEF IInv
<1>5. /\ f.payload \in Nat /\ f.handled \in Nat /\ f.len \in Nat /\ f.handled < f.len
      /\ f.len <= FrameLen /\ RxS.frame.payload = f.payload /\ RxS.frame.len = f.len
      /\ Slice(TxM)
  BY <1>3, <1>4, Managers, SliceFits, SameSlice DEF MPart, Together
<1>6. /\ n \in Nat /\ 1 <= n /\ n <= FifoDepth /\ n = AtMost(f.len - f.handled, PartLen)
      /\ FramePartBase(f) = f.payload + f.handled /\ FramePartBase(f) \in Nat
  BY <1>5, LenAssumption DEF FramePartSize, FramePartBase, AtMost, TakingTurns
<1> HIDE DEF n
<1>7. sent["M"] # <<>>
  BY <1>3, <1>4 DEF MTurn, MAlone, Open, Peer, TypeOK, Side
<1>8. /\ spi' = Clocked(Words("M", FramePartBase(f), n))
      /\ tx_mng' = [tx_mng EXCEPT !["M"] =
                       [TxM EXCEPT !.frame = cascade_frame_part_update(f, n)]]
      /\ Words("M", FramePartBase(f), n) \in Seq(WordType)
      /\ Len(Words("M", FramePartBase(f), n)) = n
  BY <1>1, <1>4, <1>6, <1>7, PieceWords DEF Side
<1>9. /\ tx_mng' \in [Side -> ManagerType]
      /\ TxM' = [TxM EXCEPT !.frame = cascade_frame_part_update(f, n)] /\ TxS' = TxS
      /\ TxM' \in ManagerType /\ SameSpan(TxM, TxM') /\ TxM'.state = TxM.state
      /\ TxM'.frame.handled = f.handled + n
      /\ TxM'.frame.payload_done <=> f.handled + n >= f.len
      /\ TxM'.frame.header_done /\ TxM'.frame.crc_done = f.crc_done
  <2>1. TxM' = [TxM EXCEPT !.frame = cascade_frame_part_update(f, n)] /\ TxS' = TxS
    BY <1>4, <1>8, TxMSet
  <2>2. /\ TxM' \in ManagerType /\ SameSpan(TxM, TxM') /\ TxM'.state = TxM.state
        /\ TxM'.frame.handled = f.handled + n
        /\ TxM'.frame.payload_done <=> f.payload_done \/ f.handled + n >= f.len
        /\ TxM'.frame.header_done = f.header_done /\ TxM'.frame.crc_done = f.crc_done
    <3>1. TxM \in ManagerType /\ n \in Nat
      BY <1>4, <1>6, Managers
    <3>2. TxM' \in ManagerType /\ PartStep(TxM, TxM', n)
      BY <2>1, <3>1, PartUpdate
    <3> QED
      BY <3>2 DEF PartStep
  <2> QED
    BY <1>1, <1>4, <1>8, <2>1, <2>2, TxMSet
<1>10. /\ spi' \in SpiType /\ spi'.rxf = Words("M", FramePartBase(f), n) /\ spi'.txf = <<>>
       /\ SameDriver(spi, spi')
  <2>1. spi.txf = <<>> /\ spi.rxf = <<>>
    BY <1>3 DEF MPart, SBusy, Listening
  <2> QED
    BY <1>4, <1>6, <1>8, <2>1, ClockedOut, Managers
<1>11. RxS' = RxS /\ RxM' = RxM
  BY <1>1, RxSame
<1>12. Stage'
  <2>1. /\ Size("M")' = Size("M") /\ \A k : Arrived("S", k)' <=> Arrived("S", k)
        /\ \A ofs, k : Words("M", ofs, k)' = Words("M", ofs, k)
    BY <1>1, SameApps, SameBuffer DEF Side
  <2>2. Together(TxM', RxS') /\ TxM'.xfer_size = TxM.xfer_size
        /\ TxM'.frame.payload = f.payload /\ TxM'.frame.len = f.len
    BY <1>3, <1>9, <1>11 DEF MPart, SameSpan, SameWalk, Together, Slice, Package
  <2>3. SBusy' /\ MSends'
    BY <1>1, <1>3, <1>9, <1>10, <1>11, <2>1, <2>2 DEF MPart, SBusy, MSends, Listening, SameDriver
  <2>4. /\ spi'.rxdev.base = f.payload /\ spi'.rxdev.len = f.len /\ spi'.rxdev.ofs = f.handled
        /\ Remaining(spi'.rxdev) = f.len - f.handled
        /\ spi'.thres = Threshold(f.len - f.handled) /\ spi'.rxint /\ spi'.rxon
    BY <1>3, <1>5, <1>10 DEF MPart, SameDriver, Remaining
  <2>5. PartWords' = n
    BY <2>4, <1>6 DEF PartWords
  <2>6. Arrived("S", f.payload + f.handled)
    BY <1>3 DEF MPart
  <2>7. Arrived("S", TxM.frame.payload + spi.rxdev.ofs)'
    BY <2>1, <2>2, <2>4, <2>6
  <2>8. spi'.rxf = Words("M", spi.rxdev.base + spi.rxdev.ofs, PartWords)'
    <3>1. FramePartBase(f) = spi'.rxdev.base + spi'.rxdev.ofs
      BY <1>6, <2>4
    <3> QED
      BY <1>10, <2>1, <2>5, <3>1
  <2>10. RxS.state # "CRC" /\ Parts(RxS.frame) /\ ~ f.crc_done
    BY <1>3 DEF MPart, Parts
  <2>11. MWords'
    BY <1>1, <1>3, <1>5, <1>6, <1>9, <1>11, <2>2, <2>3, <2>4, <2>5, <2>7, <2>8, <2>10
       DEF MWords, NoEdgeOut
  <2>9. MAlone'
    BY <1>1, <1>3, MAloneStill DEF MTurn
  <2> QED
    BY <2>9, <2>11 DEF Stage, MTurn
<1>13. TypeOK'
  <2>1. Len(spi'.txf) <= FifoDepth /\ Len(spi'.rxf) <= FifoDepth
    BY <1>6, <1>8, <1>10, OneWord
  <2>2. sync_queue' \in 0 .. QueueLen
    BY <1>3, CoreAssumption DEF CoreAssumption
  <2> QED
    BY <1>1, <1>4, <1>9, <1>10, <2>1, <2>2 DEF TypeOK
<1>14. CrcTasks' /\ Counts' /\ Requests'
  BY <1>1, <1>9, <1>11, RequestsStay DEF IInv, CrcTasks, Counts
<1> QED
  BY <1>12, <1>13, <1>14 DEF IInv

\* M clocks the checksum, and is at its next frame or through.
LEMMA MasterSendCrcKeeps == ASSUME TakingTurns, IInv, MasterSendCrc PROVE IInv'
<1> DEFINE f == TxM.frame
           x == [TxM EXCEPT !.frame.crc_done = TRUE, !.frame.crc_valid = FALSE]
<1>1. InSession("TX") /\ f.header_done /\ f.payload_done
  BY DEF MasterSendCrc, TxM
<1>2. /\ MTurn /\ MFull /\ sync_task = "wait" /\ sync_queue = 1 /\ sync_queue' = 0
      /\ crc_task["M"].pc = "idle" /\ writer["M"] = "idle"
  BY <1>1, MasterSendEdge DEF MPart, MEdge, MNext, Fresh, Parts
<1>3. TxM.state # "CRC" /\ Slice(TxM) /\ Full(f) /\ SFull /\ Together(TxM, RxS)
      /\ spi.rxf = <<>> /\ xfer_type["M"] = "TX" /\ TxM.xfer_size = Size("M")
  BY <1>2 DEF MFull, NoEdgeOut, Together
<1>4. /\ rx_mng' = rx_mng /\ crc_unmatch' = crc_unmatch
      /\ sync_task' = sync_task /\ crc_task' = crc_task /\ cs_last_frame_info' = cs_last_frame_info
      /\ rx_queue' = rx_queue /\ rx_data_buffer' = rx_data_buffer
      /\ writer' = writer /\ reader' = reader /\ sent' = sent /\ got' = got
      /\ f.crc_valid /\ spi' = Clocked(<<Checksum(f.crc)>>)
      /\ tx_frame_done("M", x, "INVALID")
  BY <1>3 DEF MasterSendCrc, apps, memory, TxM, Full
<1>5. TypeOK
  BY DEF IInv
<1>6. /\ TxM \in ManagerType /\ f \in FrameType /\ f.crc \in Seq(Nat) /\ spi \in SpiType
  BY <1>5, Managers DEF FrameType
<1>7. /\ x \in ManagerType /\ SameSpan(TxM, x) /\ x.state = TxM.state
      /\ x.frame.crc_done
  BY <1>6, CrcSent
<1>8. RxS' = RxS /\ RxM' = RxM
  BY <1>4, RxSame
<1> HIDE DEF x
<1>9. Package(x) /\ (IsLastFrame(x) <=> IsLastFrame(RxS))
  BY <1>3, <1>7 DEF Together, Slice, Package, IsLastFrame, SameSpan, SameWalk
<1>10. /\ tx_mng' \in [Side -> ManagerType] /\ TxS' = TxS /\ xfer_type'["S"] = xfer_type["S"]
       /\ xfer_type' \in [Side -> {"INVALID", "RX", "TX", "SLV_TX_DONE"}]
       /\ tx_queue' \in [Side -> 0 .. QueueLen]
       /\ \/ AtNextFrame(x, TxM') /\ xfer_type'["M"] = xfer_type["M"]
          \/ IsLastFrame(x) /\ xfer_type'["M"] = "INVALID"
  BY <1>4, <1>5, <1>7, <1>9, TxFrameDone DEF Side, TxM, TxS
<1>11. /\ spi' \in SpiType /\ spi'.rxf = <<Checksum(f.crc)>> /\ spi'.txf = <<>>
       /\ SameDriver(spi, spi')
  <2>1. spi.txf = <<>>
    BY <1>3 DEF SFull, SBusy, Listening
  <2> QED
    BY <1>3, <1>4, <1>6, <2>1, ClockedOut, ChecksumWord, OneWord
<1>12. Stage'
  <2>1. Size("M")' = Size("M") /\ \A k : Arrived("S", k)' <=> Arrived("S", k)
    BY <1>4, SameApps, SameBuffer DEF Side
  <2>2. SFull'
    BY <1>3, <1>4, <1>8, <1>10, <1>11, <2>1 DEF SFull, SBusy, Listening, SameDriver
  <2>3. RxS'.xfer_size = Size("M")
    BY <1>3, <1>8 DEF Together
  <2>4. MNext' \/ MOver'
    <3>1. CASE AtNextFrame(x, TxM') /\ xfer_type'["M"] = xfer_type["M"]
      <4>1. /\ OneAhead(TxM', RxS) /\ Fresh(TxM'.frame) /\ TxM'.frame.handled = 0
            /\ TxM'.frame.header = TxM'.frame.len /\ TxM'.state # "CRC" /\ ~ IsLastFrame(RxS)
        BY <1>3, <1>7, <1>9, <3>1
           DEF AtNextFrame, OneAhead, SameSpan, SameWalk, Together, Slice, Package
      <4>2. TxM'.xfer_size = Size("M")
        BY <4>1, <1>8, <2>3 DEF OneAhead
      <4> QED
        BY <1>2, <1>3, <1>4, <1>8, <2>1, <3>1, <4>1, <4>2 DEF MNext, MSends
    <3>2. CASE IsLastFrame(x) /\ xfer_type'["M"] = "INVALID"
      BY <1>8, <1>9, <3>2 DEF MOver
    <3> QED
      BY <1>10, <3>1, <3>2
  <2>5. IsChecksum(spi'.rxf) /\ NoEdgeOut'
    BY <1>2, <1>4, <1>6, <1>11, ChecksumWord DEF NoEdgeOut
  <2>6. RxS'.state # "CRC"
    BY <1>2, <1>8 DEF MFull
  <2>8. MCrc'
    BY <1>2, <1>4, <2>1, <2>2, <2>3, <2>4, <2>5, <2>6 DEF MCrc
  <2>7. MAlone'
    BY <1>2, <1>4, MAloneStill DEF MTurn
  <2> QED
    BY <2>7, <2>8 DEF Stage, MTurn
<1>13. TypeOK'
  <2>1. Len(spi'.txf) <= FifoDepth /\ Len(spi'.rxf) <= FifoDepth
    BY <1>6, <1>11, OneWord, ChecksumWord
  <2>2. sync_queue' \in 0 .. QueueLen
    BY <1>2, CoreAssumption
  <2> QED
    BY <1>4, <1>5, <1>10, <1>11, <2>1, <2>2 DEF TypeOK
<1>14. Requests'
  BY <1>4, RequestsStay DEF IInv
<1>15. CrcTasks' /\ Counts'
  BY <1>2, <1>4, <1>8, <1>10, <1>3 DEF IInv, CrcTasks, Counts
<1> QED
  BY <1>12, <1>13, <1>14, <1>15 DEF IInv

\* M finds no checksum to send, and is about to block.
LEMMA MasterCrcNotReadyKeeps == ASSUME TakingTurns, IInv, MasterCrcNotReady PROVE IInv'
<1>1. /\ InSession("TX") /\ TxM.frame.header_done /\ TxM.frame.payload_done
      /\ xfer_type' = xfer_type /\ rx_mng' = rx_mng /\ tx_mng' = tx_mng /\ crc_unmatch' = crc_unmatch
      /\ sync_task' = "block_tx" /\ crc_task' = crc_task /\ cs_last_frame_info' = cs_last_frame_info
      /\ rx_queue' = rx_queue /\ tx_queue' = tx_queue /\ rx_data_buffer' = rx_data_buffer
      /\ writer' = writer /\ reader' = reader /\ sent' = sent /\ got' = got /\ spi' = spi
  BY DEF MasterCrcNotReady, apps, memory, queues, proto, TxM
<1>2. /\ MTurn /\ MFull /\ sync_task = "wait" /\ sync_queue = 1 /\ sync_queue' = 0
      /\ crc_task["M"].pc = "idle" /\ writer["M"] = "idle"
  BY <1>1, MasterSendEdge DEF MPart, MEdge, MNext, Fresh, Parts
<1>3. RxS' = RxS /\ RxM' = RxM /\ TxM' = TxM /\ TxS' = TxS
  BY <1>1, RxSame, TxSame
<1>4. Stage'
  <2>1. Size("M")' = Size("M") /\ \A k : Arrived("S", k)' <=> Arrived("S", k)
    BY <1>1, SameApps, SameBuffer DEF Side
  <2>2. SFull'
    BY <1>1, <1>2, <1>3, <2>1 DEF MFull, SFull, SBusy, Listening
  <2>3. MFull'
    BY <1>1, <1>2, <1>3, <2>1, <2>2 DEF MFull, NoEdgeOut
  <2>4. MAlone'
    BY <1>1, <1>2, MAloneStill DEF MTurn
  <2> QED
    BY <2>3, <2>4 DEF Stage, MTurn
<1>5. TypeOK'
  <2>1. sync_queue' \in 0 .. QueueLen
    BY <1>2, CoreAssumption
  <2> QED
    BY <1>1, <2>1 DEF IInv, TypeOK
<1>6. Requests'
  BY <1>1, RequestsStay DEF IInv
<1>7. CrcTasks' /\ Counts'
  BY <1>1, <1>2, <1>3 DEF IInv, CrcTasks, Counts
<1> QED
  BY <1>4, <1>5, <1>6, <1>7 DEF IInv

\* M is held up: the checksum it is to send is not there yet, or the one before has
\* not been compared.
LEMMA MasterHeldUp ==
    ASSUME IInv, sync_task \in {"block_tx", "block_rx"}
    PROVE  /\ sync_task = "block_tx" => MTurn /\ MFull /\ TxM.state # "CRC"
           /\ sync_task = "block_rx" => STurn /\ SCrc /\ RxM.state # "CRC"
           /\ sync_queue = 0
BY DEF IInv, Stage, MTurn, STurn, Pause, MFilled, MClaimed, MHeader, MPart, MWords, MFull, MCrc,
       MEdge, MFrame, MLast, MDelivered, SFilled, SClaimed, SHeader, SPart, SWords, SDone, SCrc,
       SRead, SFrame, SDelivered, EdgeOut, NoEdgeOut, AtRest

\* M blocks, sending or receiving.
LEMMA MasterBlockKeeps == ASSUME TakingTurns, IInv, MasterBlock PROVE IInv'
<1>1. /\ sync_task \in {"block_tx", "block_rx"} /\ sync_task' = "wait"
      /\ xfer_type' = xfer_type /\ crc_unmatch' = crc_unmatch /\ sync_queue' = sync_queue
      /\ crc_task' = crc_task /\ cs_last_frame_info' = cs_last_frame_info
      /\ rx_queue' = rx_queue /\ tx_queue' = tx_queue /\ rx_data_buffer' = rx_data_buffer
      /\ writer' = writer /\ reader' = reader /\ sent' = sent /\ got' = got /\ spi' = spi
  BY DEF MasterBlock, apps, memory, queues, wire
<1>2. crc_task["M"].pc = "idle"
  BY DEF MasterBlock, MayRun, TasksInside, TakingTurns
<1>3. TypeOK
  BY DEF IInv
<1>4. /\ Size("M")' = Size("M") /\ Size("S")' = Size("S")
      /\ \A k : Arrived("S", k)' <=> Arrived("S", k)
      /\ \A k : Arrived("M", k)' <=> Arrived("M", k)
  BY <1>1, SameApps, SameBuffer DEF Side
<1>5. CASE sync_task = "block_tx"
  <2>1. tx_mng' = [tx_mng EXCEPT !["M"] = [TxM EXCEPT !.state = "CRC"]] /\ rx_mng' = rx_mng
    BY <1>5 DEF MasterBlock, TxM
  <2>2. /\ TxM' = [TxM EXCEPT !.state = "CRC"] /\ TxS' = TxS /\ RxM' = RxM /\ RxS' = RxS
    BY <1>3, <2>1, TxMSet, RxSame
  <2>3. /\ TxM' \in ManagerType /\ SameFrame(TxM, TxM') /\ TxM'.state = "CRC"
    BY <1>3, <2>2, Managers, StateSet
  <2>4. MTurn /\ MFull
    BY <1>1, <1>5, MasterHeldUp
  <2>5. SFull'
    BY <1>1, <1>4, <2>2, <2>4 DEF MFull, SFull, SBusy, Listening
  <2>6. /\ Together(TxM', RxS') /\ Full(TxM'.frame) /\ TxM'.xfer_size = TxM.xfer_size
    BY <2>2, <2>3, <2>4
       DEF MFull, SameFrame, SameSpan, SameWalk, SameFlags, Together, Slice, Package, Full
  <2>7. MFull'
    BY <1>1, <1>4, <1>5, <2>2, <2>3, <2>4, <2>5, <2>6 DEF MFull, EdgeOut, NoEdgeOut
  <2>8. MAlone'
    BY <1>1, <2>4, MAloneStill DEF MTurn
  <2>9. Stage'
    BY <2>7, <2>8 DEF Stage, MTurn
  <2>10. tx_mng' \in [Side -> ManagerType]
    BY <1>3, <2>1, <2>2, <2>3, TxMSet
  <2>11. TypeOK'
    BY <1>1, <1>3, <2>1, <2>10 DEF TypeOK
  <2>12. CrcTasks' /\ Counts' /\ Requests'
    BY <1>1, <1>2, <2>2, RequestsStay DEF IInv, CrcTasks, Counts
  <2> QED
    BY <2>9, <2>11, <2>12 DEF IInv
<1>6. CASE sync_task = "block_rx"
  <2>1. rx_mng' = [rx_mng EXCEPT !["M"] = [RxM EXCEPT !.state = "CRC"]] /\ tx_mng' = tx_mng
    BY <1>6 DEF MasterBlock, RxM
  <2>2. /\ RxM' = [RxM EXCEPT !.state = "CRC"] /\ RxS' = RxS /\ TxM' = TxM /\ TxS' = TxS
    BY <1>3, <2>1, RxMSet, TxSame
  <2>3. /\ RxM' \in ManagerType /\ SameFrame(RxM, RxM') /\ RxM'.state = "CRC"
        /\ RxM'.frame.crc_valid = RxM.frame.crc_valid /\ RxM'.crc_done_cnt = RxM.crc_done_cnt
    BY <1>3, <2>2, Managers, StateSet
  <2>4. STurn /\ SCrc
    BY <1>1, <1>6, MasterHeldUp
  <2>5. SNextFrame => SNextFrame'
    BY <1>1, <1>4, <2>2, <2>3
       DEF SNextFrame, SSends, SameFrame, SameSpan, SameWalk, OneAhead, Slice, Package, IsLastFrame
  <2>6. SEnds' <=> SEnds
    BY <1>1, <2>2 DEF SEnds
  <2>7. /\ Slice(RxM') /\ Full(RxM'.frame) /\ RxM'.xfer_size = RxM.xfer_size
        /\ RxM'.frame.payload = RxM.frame.payload /\ RxM'.frame.len = RxM.frame.len
        /\ IsLastFrame(RxM') <=> IsLastFrame(RxM)
    BY <2>3, <2>4
       DEF SCrc, SameFrame, SameSpan, SameWalk, SameFlags, Slice, Package, Full, IsLastFrame
  <2>8. MBusy'
    BY <1>1, <2>3, <2>4 DEF SCrc, MBusy
  <2>9. NoEdgeOut' /\ RxM.frame.crc_valid
    BY <1>1, <1>6, <2>4 DEF NoEdgeOut, SCrc, EdgeOut
  <2>10. SCrc'
    BY <1>1, <1>4, <2>3, <2>4, <2>5, <2>6, <2>7, <2>8, <2>9 DEF SCrc
  <2>11. SAlone'
    BY <1>1, <2>4, SAloneStill DEF STurn
  <2>12. Stage'
    BY <2>10, <2>11 DEF Stage, STurn
  <2>13. rx_mng' \in [Side -> ManagerType]
    BY <1>3, <2>1, <2>2, <2>3, RxMSet
  <2>14. TypeOK'
    BY <1>1, <1>3, <2>1, <2>13 DEF TypeOK
  <2>15. CrcTasks' /\ Requests'
    BY <1>1, <1>2, <2>2, RequestsStay DEF IInv, CrcTasks
  <2>16. Counts'
    BY <1>1, <2>2, <2>3
       DEF IInv, Counts, Compared, Reads, SameFrame, SameSpan, SameWalk, SameFlags
  <2> QED
    BY <2>12, <2>14, <2>15, <2>16 DEF IInv
<1> QED
  BY <1>1, <1>5, <1>6

-----------------------------------------------------------------------------
(* M's handlers while it receives.                                         *)

\* M reads the header of S's package, and expects its first part.
LEMMA MasterPackageInitKeeps == ASSUME TakingTurns, IInv, MasterPackageInit PROVE IInv'
<1> DEFINE w == ClockedIn(1)[1]
           x == IF IsHeader(w)
                THEN cascade_rx_first_frame_init(cascade_receiver_init(RxM, HeaderLen(w)))
                ELSE RxM
<1>1. /\ InSession("INVALID") /\ spi' = Clocked(Dummy(1))
      /\ rx_mng' = [rx_mng EXCEPT !["M"] = x]
      /\ xfer_type' = [xfer_type EXCEPT !["M"] = IF x.xfer_size > 0 THEN "RX" ELSE @]
      /\ tx_mng' = tx_mng /\ crc_unmatch' = crc_unmatch
      /\ sync_task' = sync_task /\ crc_task' = crc_task /\ cs_last_frame_info' = cs_last_frame_info
      /\ rx_queue' = rx_queue /\ tx_queue' = tx_queue /\ rx_data_buffer' = rx_data_buffer
      /\ writer' = writer /\ reader' = reader /\ sent' = sent /\ got' = got
  BY DEF MasterPackageInit, apps, memory, queues, RxM
<1>2. /\ STurn /\ SHeader /\ sync_task = "wait" /\ sync_queue = 1 /\ sync_queue' = 0
      /\ crc_task["M"].pc = "idle" /\ writer["M"] = "idle"
  BY <1>1, MasterNewEdge
<1>3. TypeOK
  BY DEF IInv
<1>4. /\ spi.txf = <<Header(TxS.xfer_size)>> /\ Slice(TxS) /\ TxS.cur_frame_id = 0
      /\ Parts(TxS.frame) /\ FromStart /\ writer["S"] = "idle" /\ ~ spi.rxint /\ SSends
      /\ rx_queue["M"] = <<>> /\ Package(TxS)
  BY <1>2 DEF SHeader, NoEdgeOut, Slice
<1>5. /\ TxS \in ManagerType /\ TxS.xfer_size \in Nat
  BY <1>3, Managers DEF ManagerType
<1>6. /\ spi' \in SpiType /\ spi'.txf = <<>> /\ Len(spi'.rxf) <= FifoDepth
      /\ SameDriver(spi, spi') /\ w = Header(TxS.xfer_size)
  <2>1. /\ spi \in SpiType /\ Len(spi.rxf) <= FifoDepth /\ Len(spi.txf) = 1
    BY <1>3, <1>4 DEF TypeOK
  <2>2. /\ spi' \in SpiType /\ spi'.txf = <<>> /\ Len(spi'.rxf) <= FifoDepth
        /\ SameDriver(spi, spi') /\ ClockedIn(1) = spi.txf
    BY <1>1, <2>1, OneWord, ClockedThrough
  <2> QED
    BY <1>4, <2>2
<1>7. x = cascade_rx_first_frame_init(cascade_receiver_init(RxM, TxS.xfer_size))
  BY <1>6 DEF IsHeader, HeaderLen, Header
<1> HIDE DEF x, w
<1>8. /\ x \in ManagerType /\ Slice(x) /\ Parts(x.frame)
      /\ x.xfer_size = TxS.xfer_size /\ x.cur_frame_id = 0 /\ x.frame.handled = 0
      /\ x.state = "BUSY" /\ x.crc_done_cnt = 0 /\ ~ x.frame.crc_valid
  <2>1. 0 < TxS.xfer_size /\ TxS.xfer_size <= BufferSize
    BY <1>4 DEF Package
  <2> QED
    BY <1>3, <1>5, <1>7, <2>1, Managers, RxFirst
<1>9. /\ RxM' = x /\ RxS' = RxS /\ TxM' = TxM /\ TxS' = TxS
      /\ rx_mng' \in [Side -> ManagerType]
  BY <1>1, <1>3, <1>8, RxMSet, TxSame
<1>10. xfer_type' = [xfer_type EXCEPT !["M"] = "RX"]
  <2>1. x.xfer_size > 0
    BY <1>4, <1>8 DEF Package
  <2> QED
    BY <1>1, <2>1
<1>11. /\ xfer_type'["M"] = "RX" /\ xfer_type'["S"] = xfer_type["S"]
       /\ xfer_type' \in [Side -> {"INVALID", "RX", "TX", "SLV_TX_DONE"}]
  BY <1>3, <1>10 DEF TypeOK, Side
<1>12. Stage'
  <2>1. Size("S")' = Size("S") /\ \A k : Arrived("M", k)' <=> Arrived("M", k)
    BY <1>1, SameApps, SameBuffer DEF Side
  <2>2. Together(TxS', RxM') /\ x.frame.payload = TxS.frame.payload
    BY <1>4, <1>8, <1>9 DEF Together, Slice
  <2>3. SSends' /\ MBusy'
    BY <1>1, <1>4, <1>6, <1>8, <1>9, <1>11, <2>1 DEF SSends, MBusy, SameDriver
  <2>4. x.frame.payload = 0 /\ 0 < x.frame.len
    <3>1. x.frame.payload = x.cur_frame_id * FrameLen
      BY <1>8 DEF Slice
    <3>2. x.frame.len \in Nat /\ 1 <= x.frame.len
      BY <1>8, SliceFits
    <3> QED
      BY <1>8, <3>1, <3>2, LenAssumption
  <2>5. Arrived("M", x.frame.payload + x.frame.handled)
    BY <1>8, <2>4 DEF Arrived
  <2>6. Arrived("M", RxM.frame.payload + RxM.frame.handled)'
    BY <1>9, <2>1, <2>5
  <2>7. /\ spi'.txdev.base = TxS.frame.payload /\ spi'.txdev.len = TxS.frame.len
        /\ spi'.txdev.ofs = 0 /\ spi'.txon /\ ~ spi'.rxint /\ spi'.txf = <<>>
    BY <1>4, <1>6 DEF FromStart, SameDriver
  <2>8. SPart'
    BY <1>1, <1>2, <1>4, <1>8, <1>9, <2>2, <2>3, <2>4, <2>6, <2>7 DEF SPart, NoEdgeOut
  <2>9. SAlone'
    BY <1>1, <1>2, SAloneStill DEF STurn
  <2> QED
    BY <2>8, <2>9 DEF Stage, STurn
<1>13. TypeOK'
  <2>1. Len(spi'.txf) <= FifoDepth /\ Len(spi'.rxf) <= FifoDepth
    BY <1>6, OneWord
  <2>2. sync_queue' \in 0 .. QueueLen
    BY <1>2, CoreAssumption
  <2> QED
    BY <1>1, <1>3, <1>6, <1>9, <1>11, <2>1, <2>2 DEF TypeOK
<1>14. CrcTasks' /\ Requests'
  BY <1>1, <1>2, <1>9, <1>11, RequestsStay DEF IInv, CrcTasks
<1>15. Counts'
  <2>1. Compared(RxM')
    BY <1>8, <1>9 DEF Compared, Reads, Parts
  <2> QED
    BY <1>9, <1>11, <2>1 DEF IInv, Counts
<1> QED
  BY <1>12, <1>13, <1>14, <1>15 DEF IInv

\* M reads the header of S's next frame, and expects its first part.
LEMMA MasterReadHeaderKeeps == ASSUME TakingTurns, IInv, MasterReadHeader PROVE IInv'
<1> DEFINE w == ClockedIn(1)[1]
           x == Pended(RxM)
           z == cascade_rx_next_frame_init(RxM)
<1>1. /\ InSession("RX") /\ spi' = Clocked(Dummy(1)) /\ ~ RxM.frame.header_done
      /\ rx_mng' = [rx_mng EXCEPT !["M"] = IF IsHeader(w) THEN cascade_rx_next_frame_init(x)
                                                          ELSE x]
      /\ xfer_type' = xfer_type
      /\ tx_mng' = tx_mng /\ crc_unmatch' = crc_unmatch
      /\ sync_task' = sync_task /\ crc_task' = crc_task /\ cs_last_frame_info' = cs_last_frame_info
      /\ rx_queue' = rx_queue /\ tx_queue' = tx_queue /\ rx_data_buffer' = rx_data_buffer
      /\ writer' = writer /\ reader' = reader /\ sent' = sent /\ got' = got
  BY DEF MasterReadHeader, apps, memory, queues, RxM
<1>2. /\ STurn /\ SFrame /\ sync_task = "wait" /\ sync_queue = 1 /\ sync_queue' = 0
      /\ crc_task["M"].pc = "idle" /\ writer["M"] = "idle"
  BY <1>1, MasterReceiveEdge DEF SWords, SCrc, SRead, Parts, Full, Over
<1>3. TypeOK
  BY DEF IInv
<1>4. /\ SSends /\ ~ spi.rxint /\ ~ IsLastFrame(RxM) /\ OneAhead(TxS, RxM)
      /\ Parts(TxS.frame) /\ FromStart /\ spi.txf = <<Header(TxS.frame.len)>>
      /\ MBusy /\ RxM.state # "CRC" /\ RxM.state # "DONE"
      /\ Package(RxM) /\ RxM.xfer_size = Size("S") /\ Fresh(RxM.frame)
      /\ Arrived("M", (RxM.cur_frame_id + 1) * FrameLen) /\ writer["S"] = "idle"
  BY <1>2 DEF SFrame, SGoesOn, MBusy
<1>5. /\ spi' \in SpiType /\ spi'.txf = <<>> /\ Len(spi'.rxf) <= FifoDepth
      /\ SameDriver(spi, spi') /\ w = Header(TxS.frame.len)
  <2>1. /\ spi \in SpiType /\ Len(spi.rxf) <= FifoDepth /\ Len(spi.txf) = 1
    BY <1>3, <1>4 DEF TypeOK
  <2>2. /\ spi' \in SpiType /\ spi'.txf = <<>> /\ Len(spi'.rxf) <= FifoDepth
        /\ SameDriver(spi, spi') /\ ClockedIn(1) = spi.txf
    BY <1>1, <2>1, OneWord, ClockedThrough
  <2> QED
    BY <1>4, <2>2
<1>6. RxM \in ManagerType
  BY <1>3, Managers
<1>7. rx_mng' = [rx_mng EXCEPT !["M"] = z]
  <2>1. IsHeader(w) /\ x = RxM
    BY <1>4, <1>5, <1>6, PendedSame DEF IsHeader, Header
  <2> QED
    BY <1>1, <2>1
<1> HIDE DEF w, x
<1>8. /\ z \in ManagerType /\ OneAhead(z, RxM) /\ Parts(z.frame)
      /\ z.frame.handled = 0 /\ z.state = RxM.state
      /\ z.frame.crc_valid = RxM.frame.crc_valid /\ z.crc_done_cnt = RxM.crc_done_cnt
  BY <1>4, <1>6, RxNext
<1> HIDE DEF z
<1>9. /\ RxM' = z /\ RxS' = RxS /\ TxM' = TxM /\ TxS' = TxS
      /\ rx_mng' \in [Side -> ManagerType]
  BY <1>1, <1>3, <1>7, <1>8, RxMSet, TxSame
<1>10. Together(TxS, z) /\ z.frame.payload = TxS.frame.payload
  BY <1>4, <1>8 DEF Together, OneAhead, Slice
<1>11. 0 < z.frame.len /\ z.frame.payload = (RxM.cur_frame_id + 1) * FrameLen
       /\ z.frame.payload + z.frame.handled = z.frame.payload
  <2>1. z.frame.len \in Nat /\ 1 <= z.frame.len /\ z.frame.payload \in Nat
    BY <1>8, SliceFits DEF OneAhead
  <2>2. z.frame.payload = (RxM.cur_frame_id + 1) * FrameLen
    BY <1>8 DEF OneAhead, Slice
  <2> QED
    BY <1>8, <2>1, <2>2
<1>12. Stage'
  <2>1. Size("S")' = Size("S") /\ \A k : Arrived("M", k)' <=> Arrived("M", k)
    BY <1>1, SameApps, SameBuffer DEF Side
  <2>2. Together(TxS', RxM')
    BY <1>9, <1>10
  <2>3. SSends' /\ MBusy'
    BY <1>1, <1>4, <1>5, <1>8, <1>9, <2>1 DEF SSends, MBusy, SameDriver
  <2>4. Arrived("M", RxM.frame.payload + RxM.frame.handled)'
    BY <1>4, <1>9, <1>11, <2>1
  <2>5. /\ spi'.txdev.base = TxS.frame.payload /\ spi'.txdev.len = TxS.frame.len
        /\ spi'.txdev.ofs = 0 /\ spi'.txon /\ ~ spi'.rxint /\ spi'.txf = <<>>
    BY <1>4, <1>5 DEF FromStart, SameDriver
  <2>6. SPart'
    BY <1>1, <1>2, <1>4, <1>8, <1>9, <1>11, <2>2, <2>3, <2>4, <2>5 DEF SPart, NoEdgeOut
  <2>7. SAlone'
    BY <1>1, <1>2, SAloneStill DEF STurn
  <2> QED
    BY <2>6, <2>7 DEF Stage, STurn
<1>13. TypeOK'
  <2>1. Len(spi'.txf) <= FifoDepth /\ Len(spi'.rxf) <= FifoDepth
    BY <1>5, OneWord
  <2>2. sync_queue' \in 0 .. QueueLen
    BY <1>2, CoreAssumption
  <2> QED
    BY <1>1, <1>3, <1>5, <1>9, <2>1, <2>2 DEF TypeOK
<1>14. CrcTasks' /\ Requests'
  BY <1>1, <1>2, <1>9, RequestsStay DEF IInv, CrcTasks
<1>15. Counts'
  <2>1. Compared(RxM) => Compared(RxM')
    BY <1>4, <1>6, <1>8, <1>9 DEF Compared, Reads, Parts, Fresh, OneAhead, ManagerType
  <2> QED
    BY <1>1, <1>9, <2>1 DEF IInv, Counts
<1> QED
  BY <1>12, <1>13, <1>14, <1>15 DEF IInv

\* M reads a part of S's frame into its buffer.
LEMMA MasterReadPartKeeps == ASSUME TakingTurns, IInv, MasterReadPart PROVE IInv'
<1> DEFINE x == Pended(RxM)
           f == RxM.frame
           n == FramePartSize(f)
           base == FramePartBase(f)
<1>1. /\ InSession("RX") /\ x.frame.header_done /\ ~ x.frame.payload_done
      /\ spi' = Clocked(Dummy(FramePartSize(x.frame)))
      /\ rx_data_buffer' = [rx_data_buffer EXCEPT !["M"] =
             Stored(@, FramePartBase(x.frame), ClockedIn(FramePartSize(x.frame)))]
      /\ rx_mng' = [rx_mng EXCEPT !["M"] =
             [x EXCEPT !.frame = cascade_frame_part_update(@, FramePartSize(x.frame))]]
      /\ xfer_type' = xfer_type
      /\ tx_mng' = tx_mng /\ crc_unmatch' = crc_unmatch
      /\ sync_task' = sync_task /\ crc_task' = crc_task /\ cs_last_frame_info' = cs_last_frame_info
      /\ rx_queue' = rx_queue /\ tx_queue' = tx_queue
      /\ writer' = writer /\ reader' = reader /\ sent' = sent /\ got' = got
  BY DEF MasterReadPart, apps, queues, RxM
<1>2. TypeOK /\ RxM \in ManagerType
  BY Managers DEF IInv
<1>3. x.frame = f
  BY <1>2 DEF Pended, ManagerType
<1>4. /\ STurn /\ SWords /\ sync_task = "wait" /\ sync_queue = 1 /\ sync_queue' = 0
      /\ crc_task["M"].pc = "idle" /\ writer["M"] = "idle"
  BY <1>1, <1>3, MasterReceiveEdge DEF SFrame, SCrc, SRead, Parts, Full, Over, Fresh
<1>5. /\ MBusy /\ RxM.state # "CRC" /\ RxM.state # "DONE" /\ writer["S"] = "idle" /\ SSends
      /\ ~ spi.rxint /\ Together(TxS, RxM) /\ Parts(f) /\ f.handled < f.len
      /\ spi.txon /\ spi.txf = Words("S", base, n)
      /\ TxS.frame.header_done /\ ~ TxS.frame.crc_done
      /\ Arrived("M", f.payload + f.handled)
      /\ Slice(RxM) /\ TxS.frame.payload = f.payload /\ TxS.frame.len = f.len
  BY <1>4, SameSlice DEF SWords, MBusy, Together
<1>6. x = RxM
  BY <1>2, <1>5, PendedSame
<1> HIDE DEF x
<1>7. /\ f.payload \in Nat /\ f.handled \in Nat /\ f.len \in Nat
      /\ f.len <= FrameLen /\ f.payload + f.len <= BufferSize
  <2>1. /\ f.payload \in Nat /\ f.handled \in Nat /\ f.len \in Nat /\ f.len <= FrameLen
        /\ f.payload + f.len <= RxM.xfer_size /\ RxM.xfer_size <= BufferSize
        /\ RxM.xfer_size \in Nat
    BY <1>2, <1>5, SliceFits
  <2> QED
    BY <2>1, LenAssumption
<1>8. /\ n \in Nat /\ 1 <= n /\ n <= FifoDepth /\ n = AtMost(f.len - f.handled, PartLen)
      /\ base = f.payload + f.handled /\ base \in Nat /\ base + n <= BufferSize
      /\ base + n = f.payload + (f.handled + n)
  BY <1>5, <1>7, LenAssumption DEF FramePartSize, FramePartBase, AtMost, TakingTurns
<1> HIDE DEF n, base
<1>9. sent["S"] # <<>>
  BY <1>2, <1>4 DEF STurn, SAlone, Open, Peer, TypeOK, Side
<1>10. /\ spi' \in SpiType /\ spi'.txf = <<>> /\ Len(spi'.rxf) <= FifoDepth
       /\ SameDriver(spi, spi') /\ ClockedIn(n) = spi.txf
  <2>1. /\ spi \in SpiType /\ Len(spi.rxf) <= FifoDepth
    BY <1>2 DEF TypeOK
  <2>2. Len(spi.txf) = n
    BY <1>2, <1>5, <1>8, <1>9, PieceWords DEF Side
  <2>3. spi' = Clocked(Dummy(n))
    BY <1>1, <1>6 DEF n
  <2> QED
    BY <1>8, <2>1, <2>2, <2>3, OneWord, ClockedThrough
<1>11. rx_mng' = [rx_mng EXCEPT !["M"] = [RxM EXCEPT !.frame = cascade_frame_part_update(f, n)]]
  BY <1>1, <1>6 DEF n
<1>12. /\ RxM' \in ManagerType /\ PartStep(RxM, RxM', n)
       /\ rx_mng' \in [Side -> ManagerType]
  <2>1. RxM' = [RxM EXCEPT !.frame = cascade_frame_part_update(f, n)]
    BY <1>2, <1>11, RxMSet
  <2>2. RxM' \in ManagerType /\ PartStep(RxM, RxM', n)
    BY <1>2, <1>8, <2>1, PartUpdate
  <2> QED
    BY <1>2, <1>11, <2>1, <2>2, RxMSet
<1>13. /\ RxS' = RxS /\ TxM' = TxM /\ TxS' = TxS
  BY <1>2, <1>11, RxMSet, <1>1, TxSame
<1>14. /\ SameSpan(RxM, RxM') /\ RxM'.state = RxM.state
       /\ RxM'.frame.handled = f.handled + n
       /\ RxM'.frame.payload_done <=> f.handled + n >= f.len
       /\ RxM'.frame.header_done /\ ~ RxM'.frame.crc_done
       /\ RxM'.frame.crc_valid = f.crc_valid /\ RxM'.crc_done_cnt = RxM.crc_done_cnt
       /\ RxM'.frame.payload = f.payload /\ RxM'.frame.len = f.len
       /\ RxM'.xfer_size = RxM.xfer_size
  BY <1>5, <1>12 DEF PartStep, Parts, SameSpan, SameWalk
<1>15. PICK b \in Nat, m \in Nat : b = base /\ m = n
  BY <1>8
<1>20. /\ rx_data_buffer' \in [Side -> [0 .. BufferSize - 1 -> Nat]]
       /\ Arrived("M", b + m)'
  <2>1. /\ rx_data_buffer' = [rx_data_buffer EXCEPT !["M"] =
                                 Stored(@, b, Words(Peer("M"), b, m))]
        /\ Arrived("M", b) /\ Peer("M") = "S"
    BY <1>1, <1>5, <1>6, <1>8, <1>10, <1>15 DEF n, base, Peer
  <2>2. sent[Peer("M")] # <<>> /\ "M" \in Side /\ sent' = sent
    BY <1>1, <1>9, <2>1 DEF Side
  <2>3. b + m <= BufferSize
    BY <1>8, <1>15
  <2> QED
    BY <1>2, <1>15, <2>1, <2>2, <2>3, StoredWords
<1>16. Stage'
  <2>1. Size("S")' = Size("S")
    BY <1>1, SameApps DEF Side
  <2>2. Together(TxS', RxM')
    BY <1>5, <1>13, <1>14 DEF Together, Slice, Package, SameSpan, SameWalk
  <2>3. SSends' /\ MBusy'
    BY <1>1, <1>5, <1>10, <1>13, <1>14, <2>1 DEF SSends, MBusy, SameDriver
  <2>4. Arrived("M", RxM.frame.payload + RxM.frame.handled)'
    <3>1. RxM'.frame.payload + RxM'.frame.handled = b + m
      BY <1>8, <1>14, <1>15
    <3> QED
      BY <1>20, <3>1
  <2>5. NoEdgeOut'
    BY <1>1, <1>4 DEF NoEdgeOut
  <2>6. ASSUME ~ TxS.frame.payload_done PROVE SPart'
    <3>1. /\ f.handled + n < f.len
          /\ spi.txdev.base = TxS.frame.payload /\ spi.txdev.len = TxS.frame.len
          /\ spi.txdev.ofs = f.handled + n
      BY <1>4, <2>6 DEF SWords, n
    <3>2. Parts(RxM'.frame) /\ Parts(TxS'.frame)
      BY <1>5, <1>7, <1>8, <1>13, <1>14, <2>6, <3>1 DEF Parts
    <3>3. SPart'
      BY <1>1, <1>5, <1>10, <1>13, <1>14, <2>2, <2>3, <2>4, <2>5, <3>1, <3>2
         DEF SPart, SameDriver
    <3> QED
      BY <3>3
  <2>7. ASSUME TxS.frame.payload_done PROVE SDone'
    <3>1. /\ f.handled + n = f.len /\ Remaining(spi.txdev) = 0
      BY <1>4, <2>7 DEF SWords, n
    <3>2. Full(RxM'.frame) /\ Full(TxS'.frame)
      BY <1>5, <1>7, <1>8, <1>13, <1>14, <2>7, <3>1 DEF Full
    <3>3. Arrived("M", RxM.frame.payload + RxM.frame.len)'
      BY <1>14, <2>4, <3>1
    <3>4. SDone'
      BY <1>1, <1>5, <1>10, <1>13, <1>14, <2>1, <2>2, <2>3, <2>5, <3>1, <3>2, <3>3
         DEF SDone, SSends, SameDriver
    <3> QED
      BY <3>4
  <2>8. SAlone'
    BY <1>1, <1>4, SAloneStill DEF STurn
  <2> QED
    BY <2>6, <2>7, <2>8 DEF Stage, STurn
<1>17. TypeOK'
  <2>1. Len(spi'.txf) <= FifoDepth /\ Len(spi'.rxf) <= FifoDepth
    BY <1>10, OneWord
  <2>2. sync_queue' \in 0 .. QueueLen
    BY <1>4, CoreAssumption
  <2> QED
    BY <1>1, <1>2, <1>10, <1>12, <1>20, <2>1, <2>2 DEF TypeOK
<1>18. CrcTasks' /\ Requests'
  BY <1>1, <1>4, <1>13, RequestsStay DEF IInv, CrcTasks
<1>19. Counts'
  <2>1. Compared(RxM) => Compared(RxM')
    BY <1>5, <1>14 DEF Compared, Reads, Parts, SameSpan, SameWalk
  <2> QED
    BY <1>1, <1>13, <2>1 DEF IInv, Counts
<1> QED
  BY <1>16, <1>17, <1>18, <1>19 DEF IInv

\* M finds its last checksum not compared yet, and is about to block.
LEMMA MasterReceiveBlockedKeeps == ASSUME TakingTurns, IInv, MasterReceiveBlocked PROVE IInv'
<1> DEFINE x == Pended(RxM)
<1>1. /\ InSession("RX") /\ x.frame.header_done /\ x.frame.payload_done
      /\ ~ x.frame.crc_done /\ x.frame.crc_valid
      /\ rx_mng' = [rx_mng EXCEPT !["M"] = x]
      /\ xfer_type' = xfer_type /\ tx_mng' = tx_mng /\ crc_unmatch' = crc_unmatch
      /\ sync_task' = "block_rx" /\ crc_task' = crc_task /\ cs_last_frame_info' = cs_last_frame_info
      /\ rx_queue' = rx_queue /\ tx_queue' = tx_queue /\ rx_data_buffer' = rx_data_buffer
      /\ writer' = writer /\ reader' = reader /\ sent' = sent /\ got' = got /\ spi' = spi
  BY DEF MasterReceiveBlocked, apps, memory, queues, RxM
<1>2. TypeOK /\ RxM \in ManagerType
  BY Managers DEF IInv
<1>3. x.frame = RxM.frame
  BY <1>2 DEF Pended, ManagerType
<1>4. /\ STurn /\ SCrc /\ sync_task = "wait" /\ sync_queue = 1 /\ sync_queue' = 0
      /\ crc_task["M"].pc = "idle" /\ writer["M"] = "idle"
  BY <1>1, <1>3, MasterReceiveEdge DEF SFrame, SWords, SRead, Parts, Full, Over, Fresh
<1>5. RxM.state # "CRC" /\ RxM.state # "DONE"
  BY <1>4 DEF SCrc, NoEdgeOut, MBusy
<1>6. x = RxM
  BY <1>2, <1>5, PendedSame
<1> HIDE DEF x
<1>7. rx_mng' = rx_mng
  BY <1>1, <1>2, <1>6 DEF TypeOK, Side, RxM
<1>8. RxS' = RxS /\ RxM' = RxM /\ TxM' = TxM /\ TxS' = TxS
  BY <1>1, <1>7, RxSame, TxSame
<1>9. Stage'
  <2>1. Size("S")' = Size("S") /\ \A k : Arrived("M", k)' <=> Arrived("M", k)
    BY <1>1, SameApps, SameBuffer DEF Side
  <2>2. /\ SNextFrame' <=> SNextFrame
        /\ SEnds' <=> SEnds
        /\ MBusy' <=> MBusy
    BY <1>1, <1>8, <2>1 DEF SNextFrame, SSends, SEnds, MBusy
  <2>3. SCrc'
    BY <1>1, <1>3, <1>4, <1>5, <1>8, <2>1, <2>2 DEF SCrc
  <2>4. SAlone'
    BY <1>1, <1>4, SAloneStill DEF STurn
  <2> QED
    BY <2>3, <2>4 DEF Stage, STurn
<1>10. TypeOK'
  <2>1. sync_queue' \in 0 .. QueueLen
    BY <1>4, CoreAssumption
  <2> QED
    BY <1>1, <1>2, <1>7, <2>1 DEF TypeOK
<1>11. CrcTasks' /\ Requests'
  BY <1>1, <1>4, <1>8, RequestsStay DEF IInv, CrcTasks
<1>12. Counts'
  BY <1>1, <1>8 DEF IInv, Counts
<1> QED
  BY <1>9, <1>10, <1>11, <1>12 DEF IInv

\* S is past its checksum once M has clocked it.
LEMMA ChecksumClocked ==
    ASSUME SCrc, spi' \in SpiType, spi'.txf = <<>>, SameDriver(spi, spi'),
           spi.rxf = <<>> => Len(spi'.rxf) = 1, xfer_type'["S"] = xfer_type["S"],
           sync_queue' = 0, RxM' \in ManagerType, SameSpan(RxM, RxM'), TxS' = TxS, sent' = sent
    PROVE  SGoesOn' \/ (IsLastFrame(RxM') /\ SThrough')
<1>1. IsLastFrame(RxM') <=> IsLastFrame(RxM)
  BY DEF SameSpan, SameWalk, IsLastFrame
<1>2. CASE SNextFrame
  <2>1. OneAhead(TxS', RxM')
    BY <1>2 DEF SNextFrame, OneAhead, Slice, Package, SameSpan, SameWalk
  <2>2. Size("S")' = Size("S")
    BY DEF Size
  <2>3. SNextFrame'
    BY <1>1, <1>2, <2>1, <2>2 DEF SNextFrame, SSends, SameDriver
  <2> QED
    BY <2>3 DEF SGoesOn
<1>3. CASE SEnds /\ IsLastFrame(RxM) /\ xfer_type["S"] = "SLV_TX_DONE" /\ spi.rxf = <<>>
  BY <1>1, <1>3 DEF SEnds, SThrough, SameDriver
<1> QED
  BY <1>2, <1>3 DEF SCrc

\* M reads the checksum of S's frame.
LEMMA MasterReadCrcKeeps == ASSUME TakingTurns, IInv, MasterReadCrc PROVE IInv'
<1> DEFINE x == Pended(RxM)
           c == ClockedIn(1)[1].value
           y == [RxM EXCEPT !.frame.crc = c, !.frame.crc_done = TRUE, !.frame.crc_valid = TRUE]
<1>1. /\ InSession("RX") /\ x.frame.header_done /\ x.frame.payload_done
      /\ ~ x.frame.crc_done /\ ~ x.frame.crc_valid /\ spi' = Clocked(Dummy(1))
      /\ rx_mng' = [rx_mng EXCEPT !["M"] =
             [x EXCEPT !.frame.crc = c, !.frame.crc_done = TRUE, !.frame.crc_valid = TRUE]]
      /\ xfer_type' = xfer_type /\ tx_mng' = tx_mng /\ crc_unmatch' = crc_unmatch
      /\ sync_task' = "crc_read" /\ crc_task' = crc_task /\ cs_last_frame_info' = cs_last_frame_info
      /\ rx_queue' = rx_queue /\ tx_queue' = tx_queue /\ rx_data_buffer' = rx_data_buffer
      /\ writer' = writer /\ reader' = reader /\ sent' = sent /\ got' = got
  BY DEF MasterReadCrc, apps, memory, queues, RxM
<1>2. TypeOK /\ RxM \in ManagerType
  BY Managers DEF IInv
<1>3. x.frame = RxM.frame
  BY <1>2 DEF Pended, ManagerType
<1>4. /\ STurn /\ SCrc /\ sync_task = "wait" /\ sync_queue = 1 /\ sync_queue' = 0
      /\ crc_task["M"].pc = "idle" /\ writer["M"] = "idle"
  BY <1>1, <1>3, MasterReceiveEdge DEF SFrame, SWords, SRead, Parts, Full, Over, Fresh
<1>5. /\ RxM.state # "CRC" /\ RxM.state # "DONE" /\ MBusy /\ writer["S"] = "idle"
      /\ Slice(RxM) /\ RxM.xfer_size = Size("S") /\ Full(RxM.frame)
      /\ IsChecksum(spi.txf) /\ Arrived("M", RxM.frame.payload + RxM.frame.len)
  BY <1>4 DEF SCrc, NoEdgeOut, MBusy
<1>6. x = RxM
  BY <1>2, <1>5, PendedSame
<1>7. rx_mng' = [rx_mng EXCEPT !["M"] = y]
  BY <1>1, <1>6
<1>8. /\ spi' \in SpiType /\ spi'.txf = <<>> /\ Len(spi'.rxf) <= FifoDepth
      /\ spi.rxf = <<>> => Len(spi'.rxf) = 1
      /\ SameDriver(spi, spi') /\ c \in Seq(Nat)
  <2>1. /\ spi \in SpiType /\ Len(spi.rxf) <= FifoDepth /\ Len(spi.txf) = 1
        /\ spi.txf \in Seq(WordType)
    BY <1>2, <1>5 DEF TypeOK, IsChecksum, SpiType
  <2>2. /\ spi' \in SpiType /\ spi'.txf = <<>> /\ Len(spi'.rxf) <= FifoDepth
        /\ spi.rxf = <<>> => Len(spi'.rxf) = 1
        /\ SameDriver(spi, spi') /\ ClockedIn(1) = spi.txf
    BY <1>1, <2>1, OneWord, ClockedThrough
  <2>3. spi.txf[1] \in WordType
    BY <2>1
  <2> QED
    BY <2>2, <2>3 DEF WordType
<1> HIDE DEF x, c
<1>9. /\ y \in ManagerType /\ SameSpan(RxM, y) /\ y.state = RxM.state
      /\ y.frame.crc_done /\ y.frame.crc_valid
      /\ y.frame.header_done = RxM.frame.header_done
      /\ y.frame.payload_done = RxM.frame.payload_done
      /\ y.crc_done_cnt = RxM.crc_done_cnt
  <2>1. RxM \in ManagerType /\ c \in Seq(Nat)
    BY <1>2, <1>8
  <2> QED
    BY <2>1 DEF ManagerType, FrameType, SameSpan, SameWalk
<1> HIDE DEF y
<1>10. /\ RxM' = y /\ RxS' = RxS /\ TxM' = TxM /\ TxS' = TxS
       /\ rx_mng' \in [Side -> ManagerType]
  BY <1>1, <1>2, <1>7, <1>9, RxMSet, TxSame
<1>11. Stage'
  <2>1. Size("S")' = Size("S") /\ \A k : Arrived("M", k)' <=> Arrived("M", k)
    BY <1>1, SameApps, SameBuffer DEF Side
  <2>2. SGoesOn' \/ (IsLastFrame(RxM') /\ SThrough')
    BY <1>1, <1>4, <1>8, <1>9, <1>10, ChecksumClocked
  <2>3. /\ Slice(RxM') /\ RxM'.xfer_size = Size("S") /\ Over(RxM'.frame)
        /\ RxM'.frame.payload = RxM.frame.payload /\ RxM'.frame.len = RxM.frame.len
    BY <1>5, <1>9, <1>10 DEF Slice, Package, SameSpan, SameWalk, Full, Over
  <2>4. MBusy'
    BY <1>1, <1>5, <1>9, <1>10 DEF MBusy
  <2>5. SRead'
    BY <1>1, <1>5, <1>8, <1>9, <1>10, <2>1, <2>2, <2>3, <2>4 DEF SRead
  <2>6. SAlone'
    BY <1>1, <1>4, SAloneStill DEF STurn
  <2> QED
    BY <2>5, <2>6 DEF Stage, STurn
<1>12. TypeOK'
  <2>1. Len(spi'.txf) <= FifoDepth /\ Len(spi'.rxf) <= FifoDepth
    BY <1>8, OneWord
  <2>2. sync_queue' \in 0 .. QueueLen
    BY <1>4, CoreAssumption
  <2> QED
    BY <1>1, <1>2, <1>8, <1>10, <2>1, <2>2 DEF TypeOK
<1>13. CrcTasks' /\ Requests'
  BY <1>1, <1>4, <1>10, RequestsStay DEF IInv, CrcTasks
<1>14. Counts'
  <2>1. Compared(RxM) => Compared(RxM')
    BY <1>1, <1>2, <1>3, <1>5, <1>9, <1>10
       DEF Compared, Reads, Full, SameSpan, SameWalk, ManagerType
  <2> QED
    BY <1>1, <1>10, <2>1 DEF IInv, Counts
<1> QED
  BY <1>11, <1>12, <1>13, <1>14 DEF IInv

\* M has read a checksum and is about to end its callback.
LEMMA MasterAtCrcRead ==
    ASSUME IInv, sync_task = "crc_read"
    PROVE  STurn /\ SRead /\ RxM.frame.crc_valid
BY DEF IInv, Stage, MTurn, STurn, Pause, MFilled, MClaimed, MHeader, MPart, MWords, MFull, MCrc,
       MEdge, MFrame, MLast, MDelivered, SFilled, SClaimed, SHeader, SPart, SWords, SDone, SCrc,
       SRead, SFrame, SDelivered, EdgeOut, NoEdgeOut, AtRest

\* The end of the callback, on to the next frame.
LEMMA NextHeaderAwaited ==
    ASSUME TypeOK, STurn, SRead, ~ IsLastFrame(RxM), sync_task' = "wait",
           rx_mng' = [rx_mng EXCEPT !["M"] = [RxM EXCEPT !.frame = cascade_frame_reset(@)]],
           xfer_type' = xfer_type, tx_mng' = tx_mng,
           rx_queue' = rx_queue, rx_data_buffer' = rx_data_buffer,
           writer' = writer, reader' = reader, sent' = sent, got' = got, spi' = spi,
           sync_queue' \in {0, 1}, SNextFrame => sync_queue' = 0
    PROVE  /\ Stage' /\ rx_mng' \in [Side -> ManagerType] /\ RxS' = RxS /\ TxM' = TxM /\ TxS' = TxS
           /\ Compared(RxM) => Compared(RxM')
<1>1. /\ MBusy /\ RxM.state # "CRC" /\ writer["S"] = "idle" /\ Slice(RxM) /\ SGoesOn
      /\ RxM.xfer_size = Size("S") /\ Over(RxM.frame)
      /\ Arrived("M", RxM.frame.payload + RxM.frame.len)
  BY DEF SRead
<1>2. RxM \in ManagerType
  BY Managers
<1>3. rx_mng' = [rx_mng EXCEPT !["M"] = [RxM EXCEPT !.frame = cascade_frame_reset(RxM.frame)]]
  OBVIOUS
<1>4. RxM' = [RxM EXCEPT !.frame = cascade_frame_reset(RxM.frame)] /\ RxS' = RxS
  BY <1>3, RxMSet
<1>5. /\ RxM' \in ManagerType /\ SameWalk(RxM, RxM') /\ RxM'.state = RxM.state
      /\ Fresh(RxM'.frame) /\ RxM'.frame.crc_valid = RxM.frame.crc_valid
      /\ RxM'.crc_done_cnt = RxM.crc_done_cnt
  BY <1>2, <1>4, FrameReset
<1>6. rx_mng' \in [Side -> ManagerType] /\ TxM' = TxM /\ TxS' = TxS
  BY <1>3, <1>4, <1>5, RxMSet, TxSame
<1>7. Size("S")' = Size("S") /\ \A k : Arrived("M", k)' <=> Arrived("M", k)
  BY SameApps, SameBuffer DEF Side
<1>8. SGoesOn'
  <2>1. OneAhead(TxS, RxM) => OneAhead(TxS', RxM')
    BY <1>5, <1>6 DEF OneAhead, Package, SameWalk
  <2>2. IsLastFrame(RxM') <=> IsLastFrame(RxM)
    BY <1>5 DEF SameWalk, IsLastFrame
  <2>3. SSends' <=> SSends
    BY <1>6, <1>7 DEF SSends
  <2> QED
    BY <1>1, <1>6, <2>1, <2>2, <2>3 DEF SGoesOn, SNextFrame, FromStart
<1>9. /\ Package(RxM') /\ RxM'.xfer_size = Size("S")
      /\ RxM'.cur_frame_id = RxM.cur_frame_id
  BY <1>1, <1>5 DEF Slice, Package, SameWalk
<1>10. Arrived("M", (RxM.cur_frame_id + 1) * FrameLen)'
  <2>1. RxM.frame.payload + RxM.frame.len = (RxM.cur_frame_id + 1) * FrameLen
    BY <1>1, <1>2, SliceFits
  <2> QED
    BY <1>1, <1>7, <1>9, <2>1
<1>11. SFrame'
  BY <1>1, <1>5, <1>7, <1>8, <1>9, <1>10 DEF SFrame, MBusy
<1>12. SAlone'
  BY SAloneStill DEF STurn
<1>13. Compared(RxM) => Compared(RxM')
  BY <1>1, <1>5 DEF Compared, Reads, Over, Fresh, SameWalk
<1> QED
  BY <1>4, <1>6, <1>11, <1>12, <1>13 DEF Stage, STurn

\* M has S's frame and its checksum: the next frame, or the package is there.
LEMMA MasterFrameReadKeeps == ASSUME TakingTurns, IInv, MasterFrameRead PROVE IInv'
<1>1. /\ sync_task = "crc_read" /\ sync_task' = "wait" /\ FrameRead
      /\ cascade_crc_request("M", "rx", RxM.frame)
      /\ tx_mng' = tx_mng /\ crc_unmatch' = crc_unmatch /\ crc_task' = crc_task
      /\ tx_queue' = tx_queue /\ rx_data_buffer' = rx_data_buffer /\ sync_queue' = sync_queue
      /\ writer' = writer /\ reader' = reader /\ sent' = sent /\ got' = got /\ spi' = spi
  BY DEF MasterFrameRead, apps, wire, RxM
<1>2. crc_task["M"].pc = "idle"
  BY DEF MasterFrameRead, MayRun, TasksInside, TakingTurns
<1>3. STurn /\ SRead /\ RxM.frame.crc_valid
  BY <1>1, MasterAtCrcRead
<1>4. TypeOK
  BY DEF IInv
<1>5. /\ RxM \in ManagerType /\ Slice(RxM)
      /\ RxM.frame.payload + RxM.frame.len <= BufferSize
  <2>1. RxM \in ManagerType /\ Slice(RxM)
    BY <1>3, <1>4, Managers DEF SRead
  <2>2. /\ RxM.frame.payload \in Nat /\ RxM.frame.len \in Nat /\ RxM.xfer_size \in Nat
        /\ RxM.frame.payload + RxM.frame.len <= RxM.xfer_size /\ RxM.xfer_size <= BufferSize
    BY <2>1, SliceFits
  <2> QED
    BY <2>1, <2>2, LenAssumption
<1>6. /\ cs_last_frame_info' \in [Side -> [mem : {"none", "rx", "tx"}, ofs : Nat, len : Nat]]
      /\ Requests'
  BY <1>1, <1>4, <1>5, Request DEF IInv, Side
<1>7. /\ Stage' /\ rx_mng' \in [Side -> ManagerType] /\ RxS' = RxS /\ TxM' = TxM /\ TxS' = TxS
      /\ Compared(RxM) => Compared(RxM')
      /\ xfer_type' = xfer_type /\ rx_queue' = rx_queue
  <2>1. CASE ~ IsLastFrame(RxM)
    <3>1. /\ rx_mng' = [rx_mng EXCEPT !["M"] = [RxM EXCEPT !.frame = cascade_frame_reset(@)]]
          /\ xfer_type' = xfer_type /\ rx_queue' = rx_queue
      BY <1>1, <2>1 DEF FrameRead, RxM
    <3>2. sync_queue' \in {0, 1} /\ (SNextFrame => sync_queue' = 0)
      BY <1>1, <1>3, <2>1 DEF SRead, SGoesOn, SNextFrame, Fresh, Parts
    <3> QED
      BY <1>1, <1>3, <1>4, <2>1, <3>1, <3>2, NextHeaderAwaited
  <2>2. CASE IsLastFrame(RxM)
    <3>1. rx_mng' = rx_mng /\ xfer_type' = xfer_type /\ rx_queue' = rx_queue
      BY <1>1, <1>3, <2>2 DEF FrameRead, RxM
    <3>2. RxM' = RxM /\ RxS' = RxS /\ TxM' = TxM /\ TxS' = TxS
      BY <1>1, <3>1, RxSame, TxSame
    <3>3. Size("S")' = Size("S") /\ \A k : Arrived("M", k)' <=> Arrived("M", k)
      BY <1>1, SameApps, SameBuffer DEF Side
    <3>4. /\ SGoesOn' <=> SGoesOn
          /\ SThrough' <=> SThrough
          /\ MBusy' <=> MBusy
      BY <1>1, <3>1, <3>2, <3>3
         DEF SGoesOn, SNextFrame, SSends, FromStart, SThrough, SEnds, MBusy
    <3>5. SRead'
      BY <1>1, <1>3, <3>1, <3>2, <3>3, <3>4 DEF SRead
    <3>6. SAlone'
      BY <1>1, <1>3, <3>1, SAloneStill DEF STurn
    <3> QED
      BY <1>4, <3>1, <3>2, <3>5, <3>6 DEF Stage, STurn, TypeOK
  <2> QED
    BY <2>1, <2>2
<1>8. TypeOK'
  BY <1>1, <1>4, <1>6, <1>7 DEF TypeOK
<1>9. CrcTasks' /\ Counts'
  BY <1>1, <1>2, <1>7 DEF IInv, CrcTasks, Counts
<1> QED
  BY <1>6, <1>7, <1>8, <1>9 DEF IInv

\* An edge that finds the checksum read already: the next frame is expected.
LEMMA MasterCrcReadBeforeKeeps == ASSUME TakingTurns, IInv, MasterCrcReadBefore PROVE IInv'
<1>1. /\ InSession("RX") /\ RxM.frame.header_done /\ RxM.frame.payload_done
      /\ RxM.frame.crc_done /\ FrameRead
      /\ tx_mng' = tx_mng /\ crc_unmatch' = crc_unmatch /\ crc_task' = crc_task
      /\ tx_queue' = tx_queue /\ rx_data_buffer' = rx_data_buffer /\ sync_task' = sync_task
      /\ cs_last_frame_info' = cs_last_frame_info
      /\ writer' = writer /\ reader' = reader /\ sent' = sent /\ got' = got /\ spi' = spi
  BY DEF MasterCrcReadBefore, apps, memory, RxM
<1>2. /\ STurn /\ SRead /\ sync_task = "wait" /\ sync_queue = 1 /\ sync_queue' = 0
      /\ crc_task["M"].pc = "idle" /\ writer["M"] = "idle"
  BY <1>1, MasterReceiveEdge DEF SFrame, SWords, SCrc, Parts, Full, Over, Fresh
<1>3. ~ IsLastFrame(RxM)
  BY <1>2 DEF SRead, SGoesOn, SNextFrame, SThrough
<1>4. TypeOK
  BY DEF IInv
<1>5. /\ rx_mng' = [rx_mng EXCEPT !["M"] = [RxM EXCEPT !.frame = cascade_frame_reset(@)]]
      /\ xfer_type' = xfer_type /\ rx_queue' = rx_queue
  BY <1>1, <1>3 DEF FrameRead, RxM
<1>6. /\ Stage' /\ rx_mng' \in [Side -> ManagerType] /\ RxS' = RxS /\ TxM' = TxM /\ TxS' = TxS
      /\ Compared(RxM) => Compared(RxM')
  BY <1>1, <1>2, <1>3, <1>4, <1>5, NextHeaderAwaited
<1>7. TypeOK'
  <2>1. sync_queue' \in 0 .. QueueLen
    BY <1>2, CoreAssumption
  <2> QED
    BY <1>1, <1>4, <1>5, <1>6, <2>1 DEF TypeOK
<1>8. CrcTasks' /\ Counts' /\ Requests'
  BY <1>1, <1>2, <1>5, <1>6, RequestsStay DEF IInv, CrcTasks, Counts
<1> QED
  BY <1>6, <1>7, <1>8 DEF IInv

-----------------------------------------------------------------------------
(* Steps that move nothing.                                                *)

\* No manager gets anywhere.
Unmoved(x, y) == SameFrame(x, y) /\ y.state = x.state

\* A manager that gets nowhere is at the same place of the same package.
LEMMA UnmovedPlace ==
    ASSUME NEW x, NEW y, Unmoved(x, y)
    PROVE  /\ Package(y) <=> Package(x)
           /\ Slice(y) <=> Slice(x)
           /\ IsLastFrame(y) <=> IsLastFrame(x)
           /\ Fresh(y.frame) <=> Fresh(x.frame)
           /\ Parts(y.frame) <=> Parts(x.frame)
           /\ Full(y.frame) <=> Full(x.frame)
           /\ Over(y.frame) <=> Over(x.frame)
           /\ FramePartBase(y.frame) = FramePartBase(x.frame)
           /\ FramePartSize(y.frame) = FramePartSize(x.frame)
           /\ y.xfer_size = x.xfer_size /\ y.cur_frame_id = x.cur_frame_id
           /\ y.state = x.state /\ y.frame.header_done = x.frame.header_done
           /\ y.frame.payload_done = x.frame.payload_done /\ y.frame.crc_done = x.frame.crc_done
           /\ y.frame.payload = x.frame.payload /\ y.frame.len = x.frame.len
           /\ y.frame.handled = x.frame.handled /\ y.frame.header = x.frame.header
BY DEF Unmoved, SameFrame, SameSpan, SameWalk, SameFlags, Package, Slice, IsLastFrame, Fresh,
       Parts, Full, Over, FramePartBase, FramePartSize

\* Two managers that get nowhere are as far apart as before.
LEMMA UnmovedTogether ==
    ASSUME NEW x, NEW y, NEW v, NEW w, Unmoved(x, v), Unmoved(y, w)
    PROVE  /\ Together(v, w) <=> Together(x, y)
           /\ OneAhead(v, w) <=> OneAhead(x, y)
<1>1. /\ Slice(v) <=> Slice(x)
      /\ Slice(w) <=> Slice(y)
      /\ Package(w) <=> Package(y)
      /\ v.xfer_size = x.xfer_size /\ v.cur_frame_id = x.cur_frame_id
      /\ w.xfer_size = y.xfer_size /\ w.cur_frame_id = y.cur_frame_id
  BY UnmovedPlace
<1> QED
  BY <1>1 DEF Together, OneAhead

\* What such a step leaves alone, and where the checksum tasks do not go.
Unmoving ==
    /\ xfer_type' = xfer_type /\ rx_queue' = rx_queue /\ rx_data_buffer' = rx_data_buffer
    /\ spi' = spi /\ sync_queue' = sync_queue /\ sync_task' = sync_task
    /\ writer' = writer /\ reader' = reader /\ sent' = sent /\ got' = got
    /\ Unmoved(TxM, TxM') /\ Unmoved(RxM, RxM') /\ Unmoved(TxS, TxS') /\ Unmoved(RxS, RxS')
    /\ RxM'.frame.crc_valid = RxM.frame.crc_valid \/ (sync_task = "wait" /\ RxM.state # "CRC")
    /\ (crc_task'["M"].pc = "tx_sent") <=> (crc_task["M"].pc = "tx_sent")
    /\ (crc_task'["S"].pc = "rx_indicated") <=> (crc_task["S"].pc = "rx_indicated")

\* When nothing moves, a package from M stays where it is.
LEMMA MStageStays == ASSUME MTurn, Unmoving PROVE MTurn'
<1>1. /\ Size("M")' = Size("M") /\ \A k : Arrived("S", k)' <=> Arrived("S", k)
      /\ \A ofs, k : Words("M", ofs, k)' = Words("M", ofs, k)
  BY SameApps, SameBuffer DEF Side, Unmoving
<1>2. /\ Package(TxM') <=> Package(TxM)
      /\ Slice(TxM') <=> Slice(TxM)
      /\ IsLastFrame(TxM') <=> IsLastFrame(TxM)
      /\ Fresh(TxM'.frame) <=> Fresh(TxM.frame)
      /\ Parts(TxM'.frame) <=> Parts(TxM.frame)
      /\ Full(TxM'.frame) <=> Full(TxM.frame)
      /\ TxM'.xfer_size = TxM.xfer_size /\ TxM'.cur_frame_id = TxM.cur_frame_id
      /\ TxM'.state = TxM.state /\ TxM'.frame.header_done = TxM.frame.header_done
      /\ TxM'.frame.payload_done = TxM.frame.payload_done
      /\ TxM'.frame.crc_done = TxM.frame.crc_done
      /\ TxM'.frame.payload = TxM.frame.payload /\ TxM'.frame.len = TxM.frame.len
      /\ TxM'.frame.handled = TxM.frame.handled /\ TxM'.frame.header = TxM.frame.header
  BY UnmovedPlace DEF Unmoving
<1>3. /\ Package(RxS') <=> Package(RxS)
      /\ Slice(RxS') <=> Slice(RxS)
      /\ IsLastFrame(RxS') <=> IsLastFrame(RxS)
      /\ Fresh(RxS'.frame) <=> Fresh(RxS.frame)
      /\ Parts(RxS'.frame) <=> Parts(RxS.frame)
      /\ Full(RxS'.frame) <=> Full(RxS.frame)
      /\ Over(RxS'.frame) <=> Over(RxS.frame)
      /\ RxS'.xfer_size = RxS.xfer_size /\ RxS'.cur_frame_id = RxS.cur_frame_id
      /\ RxS'.state = RxS.state
      /\ RxS'.frame.payload = RxS.frame.payload /\ RxS'.frame.len = RxS.frame.len
  BY UnmovedPlace DEF Unmoving
<1>4. /\ Together(TxM', RxS') <=> Together(TxM, RxS)
      /\ OneAhead(TxM', RxS') <=> OneAhead(TxM, RxS)
  BY UnmovedTogether DEF Unmoving
<1>5. /\ Listening' <=> Listening
      /\ AtRest' <=> AtRest
      /\ EdgeOut' <=> EdgeOut
      /\ NoEdgeOut' <=> NoEdgeOut
      /\ PartWords' = PartWords
  BY DEF Unmoving, Listening, AtRest, EdgeOut, NoEdgeOut, PartWords
<1>6. /\ MSends' <=> MSends
      /\ SBusy' <=> SBusy
  BY <1>1, <1>2, <1>3, <1>5 DEF Unmoving, MSends, SBusy
<1>7. /\ MFilled => MFilled'
      /\ MClaimed => MClaimed'
      /\ MHeader => MHeader'
  BY <1>1, <1>2, <1>3, <1>5, <1>6 DEF Unmoving, MFilled, MClaimed, MHeader
<1>8. MPart => MPart'
  BY <1>1, <1>2, <1>3, <1>4, <1>5, <1>6 DEF Unmoving, MPart
<1>9. MWords => MWords'
  <2> SUFFICES ASSUME MWords PROVE MWords'
    OBVIOUS
  <2>1. spi'.rxf = Words("M", spi.rxdev.base + spi.rxdev.ofs, PartWords)'
    BY <1>1, <1>5 DEF Unmoving, MWords
  <2> QED
    BY <1>1, <1>2, <1>3, <1>4, <1>5, <1>6, <2>1 DEF Unmoving, MWords
<1>10. SFull => SFull'
  BY <1>1, <1>3, <1>6 DEF Unmoving, SFull
<1>11. SNext => SNext'
  BY <1>1, <1>3, <1>6 DEF Unmoving, SNext
<1>12. /\ MSent => MSent'
       /\ MNext => MNext'
       /\ MOver => MOver'
       /\ MThrough => MThrough'
  BY <1>2, <1>3, <1>4, <1>6 DEF Unmoving, MSent, MNext, MOver, MThrough
<1>13. MFull => MFull'
  BY <1>1, <1>2, <1>3, <1>4, <1>5, <1>10 DEF Unmoving, MFull
<1>14. /\ MCrc => MCrc'
       /\ MEdge => MEdge'
       /\ MFrame => MFrame'
  BY <1>1, <1>2, <1>3, <1>4, <1>5, <1>6, <1>10, <1>11, <1>12 DEF Unmoving, MCrc, MEdge, MFrame
<1>15. /\ MLast => MLast'
       /\ MDelivered => MDelivered'
  BY <1>1, <1>3, <1>5, <1>12 DEF Unmoving, MLast, MDelivered
<1>16. MAlone'
  BY MAloneStill DEF Unmoving, MTurn
<1> QED
  BY <1>7, <1>8, <1>9, <1>13, <1>14, <1>15, <1>16 DEF MTurn

\* When nothing moves, a package from S stays where it is.
LEMMA SStageStays == ASSUME STurn, Unmoving PROVE STurn'
<1>1. /\ Size("S")' = Size("S") /\ \A k : Arrived("M", k)' <=> Arrived("M", k)
      /\ \A ofs, k : Words("S", ofs, k)' = Words("S", ofs, k)
  BY SameApps, SameBuffer DEF Side, Unmoving
<1>2. /\ Slice(TxS') <=> Slice(TxS)
      /\ Fresh(TxS'.frame) <=> Fresh(TxS.frame)
      /\ Parts(TxS'.frame) <=> Parts(TxS.frame)
      /\ Full(TxS'.frame) <=> Full(TxS.frame)
      /\ TxS'.xfer_size = TxS.xfer_size /\ TxS'.cur_frame_id = TxS.cur_frame_id
      /\ TxS'.state = TxS.state /\ TxS'.frame.header_done = TxS.frame.header_done
      /\ TxS'.frame.payload_done = TxS.frame.payload_done
      /\ TxS'.frame.crc_done = TxS.frame.crc_done
      /\ TxS'.frame.payload = TxS.frame.payload /\ TxS'.frame.len = TxS.frame.len
      /\ TxS'.frame.header = TxS.frame.header
  BY UnmovedPlace DEF Unmoving
<1>3. /\ Package(RxM') <=> Package(RxM)
      /\ Slice(RxM') <=> Slice(RxM)
      /\ IsLastFrame(RxM') <=> IsLastFrame(RxM)
      /\ Fresh(RxM'.frame) <=> Fresh(RxM.frame)
      /\ Parts(RxM'.frame) <=> Parts(RxM.frame)
      /\ Full(RxM'.frame) <=> Full(RxM.frame)
      /\ Over(RxM'.frame) <=> Over(RxM.frame)
      /\ FramePartBase(RxM'.frame) = FramePartBase(RxM.frame)
      /\ FramePartSize(RxM'.frame) = FramePartSize(RxM.frame)
      /\ RxM'.xfer_size = RxM.xfer_size /\ RxM'.cur_frame_id = RxM.cur_frame_id
      /\ RxM'.state = RxM.state
      /\ RxM'.frame.payload = RxM.frame.payload /\ RxM'.frame.len = RxM.frame.len
      /\ RxM'.frame.handled = RxM.frame.handled
  BY UnmovedPlace DEF Unmoving
<1>4. /\ Together(TxS', RxM') <=> Together(TxS, RxM)
      /\ OneAhead(TxS', RxM') <=> OneAhead(TxS, RxM)
  BY UnmovedTogether DEF Unmoving
<1>5. /\ AtRest' <=> AtRest
      /\ EdgeOut' <=> EdgeOut
      /\ NoEdgeOut' <=> NoEdgeOut
  BY DEF Unmoving, Listening, AtRest, EdgeOut, NoEdgeOut
<1>6. /\ SSends' <=> SSends
      /\ MBusy' <=> MBusy
      /\ FromStart' <=> FromStart
      /\ SEnds' <=> SEnds
  BY <1>1, <1>2, <1>3 DEF Unmoving, SSends, MBusy, FromStart, SEnds
<1>7. /\ SNextFrame => SNextFrame'
      /\ SThrough => SThrough'
  BY <1>2, <1>3, <1>4, <1>6 DEF Unmoving, SNextFrame, SThrough
<1>8. SGoesOn => SGoesOn'
  BY <1>2, <1>3, <1>4, <1>6, <1>7 DEF Unmoving, SGoesOn
<1>9. /\ SFilled => SFilled'
      /\ SClaimed => SClaimed'
      /\ SHeader => SHeader'
  BY <1>1, <1>2, <1>5, <1>6 DEF Unmoving, SFilled, SClaimed, SHeader
<1>10. SPart => SPart'
  BY <1>1, <1>2, <1>3, <1>4, <1>5, <1>6 DEF Unmoving, SPart
<1>11. SWords => SWords'
  <2> SUFFICES ASSUME SWords PROVE SWords'
    OBVIOUS
  <2>1. spi'.txf = Words("S", FramePartBase(RxM.frame), FramePartSize(RxM.frame))'
    BY <1>1, <1>3 DEF Unmoving, SWords
  <2> QED
    BY <1>1, <1>2, <1>3, <1>4, <1>5, <1>6, <2>1 DEF Unmoving, SWords
<1>12. SDone => SDone'
  BY <1>1, <1>2, <1>3, <1>4, <1>5, <1>6 DEF Unmoving, SDone
<1>13. SCrc => SCrc'
  BY <1>1, <1>3, <1>5, <1>6, <1>7 DEF Unmoving, SCrc
<1>14. SRead => SRead'
  BY <1>1, <1>3, <1>6, <1>7, <1>8 DEF Unmoving, SRead
<1>15. /\ SFrame => SFrame'
       /\ SDelivered => SDelivered'
  BY <1>1, <1>3, <1>6, <1>7, <1>8 DEF Unmoving, SFrame, SDelivered
<1>16. SAlone'
  BY SAloneStill DEF Unmoving, STurn
<1> QED
  BY <1>9, <1>10, <1>11, <1>12, <1>13, <1>14, <1>15, <1>16 DEF STurn

\* When nothing moves, the stage stays.
LEMMA StageStays == ASSUME Stage, Unmoving PROVE Stage'
<1>1. CASE Pause
  <2>1. /\ Even("M")' <=> Even("M")
        /\ Even("S")' <=> Even("S")
    BY SameApps DEF Side, Unmoving
  <2>2. /\ AtRest' <=> AtRest
        /\ SThrough' <=> SThrough
    <3>1. TxS'.state = TxS.state
      BY UnmovedPlace DEF Unmoving
    <3> QED
      BY <3>1 DEF Unmoving, Listening, AtRest, NoEdgeOut, SThrough, SEnds
  <2>3. MThrough => MThrough'
    <3>1. /\ Package(TxM') <=> Package(TxM)
          /\ IsLastFrame(TxM') <=> IsLastFrame(TxM)
          /\ Full(TxM'.frame) <=> Full(TxM.frame)
      BY UnmovedPlace DEF Unmoving
    <3> QED
      BY <3>1 DEF Unmoving, MThrough
  <2> QED
    BY <1>1, <2>1, <2>2, <2>3 DEF Unmoving, Pause, Stage
<1> QED
  BY <1>1, MStageStays, SStageStays DEF Stage

-----------------------------------------------------------------------------
(* The checksum tasks.                                                     *)

\* Managers that stay get nowhere.
LEMMA UnmovedSame ==
    ASSUME tx_mng' = tx_mng, rx_mng' = rx_mng
    PROVE  /\ Unmoved(TxM, TxM') /\ Unmoved(RxM, RxM') /\ Unmoved(TxS, TxS')
           /\ Unmoved(RxS, RxS') /\ RxM' = RxM /\ RxS' = RxS /\ TxM' = TxM /\ TxS' = TxS
BY TxSame, RxSame DEF Unmoved, SameFrame, SameSpan, SameWalk, SameFlags

\* A manager that is the same gets nowhere.
LEMMA UnmovedSelf == ASSUME NEW x, NEW y, y = x PROVE Unmoved(x, y)
BY DEF Unmoved, SameFrame, SameSpan, SameWalk, SameFlags

\* What a checksum is computed over exists.
LEMMA CrcOfWords ==
    ASSUME TypeOK, Requests, NEW s \in Side, cs_last_frame_info[s].len > 0
    PROVE  CrcOf(s) \in Seq(Nat)
<1> DEFINE ofs == cs_last_frame_info[s].ofs
           len == cs_last_frame_info[s].len
<1>1. /\ cs_last_frame_info[s].mem \in {"rx", "tx"} /\ ofs \in Nat /\ len \in Nat
      /\ cs_last_frame_info[s].mem = "rx" => ofs + len <= BufferSize
      /\ cs_last_frame_info[s].mem = "tx" => sent[s] # <<>>
  BY DEF TypeOK, Requests
<1> HIDE DEF ofs, len
<1>2. CASE cs_last_frame_info[s].mem = "rx"
  <2>1. CrcOf(s) = RxWords(s, ofs, len)
    BY <1>2 DEF CrcOf, ofs, len
  <2>2. ASSUME NEW k \in 1 .. len PROVE rx_data_buffer[s][ofs + k - 1] \in Nat
    <3>1. ofs + k - 1 \in 0 .. BufferSize - 1
      BY <1>1, <1>2, LenAssumption
    <3>2. rx_data_buffer[s] \in [0 .. BufferSize - 1 -> Nat]
      BY DEF TypeOK
    <3> QED
      BY <3>1, <3>2
  <2>3. RxWords(s, ofs, len) \in [1 .. len -> Nat]
    BY <2>2 DEF RxWords
  <2> QED
    BY <1>1, <2>1, <2>3
<1>3. CASE cs_last_frame_info[s].mem = "tx"
  <2>1. CrcOf(s) = TxWords(s, ofs, len)
    BY <1>3 DEF CrcOf, ofs, len
  <2> QED
    BY <1>1, <1>3, <2>1, PieceWords
<1> QED
  BY <1>1, <1>2, <1>3

\* In the checksum task of M: no other task of M is inside a callback.
LEMMA MasterInCrc ==
    ASSUME TakingTurns, TypeOK, MayRun("M", "crc")
    PROVE  sync_task = "wait" /\ writer["M"] \in {"idle", "filled"}
<1>1. sync_task = "wait" /\ writer["M"] \notin {"claimed", "request"}
  BY DEF MayRun, TasksInside, TakingTurns
<1> QED
  BY <1>1 DEF TypeOK, Side

\* While S's checksum task runs, its writer is not inside cascade_write.
LEMMA SlaveInCrc ==
    ASSUME TakingTurns, TypeOK, MayRun("S", "crc")
    PROVE  writer["S"] \in {"idle", "filled"}
<1>1. writer["S"] \notin {"claimed", "request"}
  BY DEF MayRun, TasksInside, TakingTurns
<1> QED
  BY <1>1 DEF TypeOK, Side

\* The checksum tasks go where they go.
LEMMA CrcTaskMoves ==
    ASSUME TypeOK, NEW s \in Side,
           NEW q \in {"idle", "rx_compared", "rx_indicated", "tx_valid", "tx_sent", "tx_ready"},
           CrcTaskGoes(s, q)
    PROVE  /\ crc_task' \in [Side -> [pc : {"idle", "rx", "rx_compared", "rx_indicated", "tx",
                                            "tx_valid", "tx_sent", "tx_ready"},
                                      crc32 : Seq(Nat)]]
           /\ crc_task'[s].pc = q
           /\ \A r \in Side : r # s => crc_task'[r] = crc_task[r]
<1>1. crc_task[s].crc32 \in Seq(Nat) /\ <<>> \in Seq(Nat)
  BY DEF TypeOK
<1> QED
  BY <1>1 DEF TypeOK, CrcTaskGoes

\* A checksum is computed; nobody has seen it yet.
LEMMA CrcTaskKeeps ==
    ASSUME TakingTurns, IInv, NEW s \in Side, cascade_crc_task(s)
    PROVE  IInv'
<1>1. /\ MayRun(s, "crc") /\ crc_task[s].pc = "idle" /\ cs_last_frame_info[s].len > 0
      /\ \/ xfer_type[s] = "RX" /\ crc_task' = [crc_task EXCEPT ![s] = [pc |-> "rx", crc32 |-> CrcOf(s)]]
         \/ xfer_type[s] = "TX" /\ crc_task' = [crc_task EXCEPT ![s] = [pc |-> "tx", crc32 |-> CrcOf(s)]]
      /\ xfer_type' = xfer_type /\ rx_mng' = rx_mng /\ tx_mng' = tx_mng /\ crc_unmatch' = crc_unmatch
      /\ sync_task' = sync_task /\ sync_queue' = sync_queue /\ spi' = spi
      /\ cs_last_frame_info' = cs_last_frame_info
      /\ rx_queue' = rx_queue /\ tx_queue' = tx_queue /\ rx_data_buffer' = rx_data_buffer
      /\ writer' = writer /\ reader' = reader /\ sent' = sent /\ got' = got
  BY DEF cascade_crc_task, apps, queues, memory, wire, proto
<1>2. TypeOK
  BY DEF IInv
<1>3. CrcOf(s) \in Seq(Nat)
  BY <1>1, <1>2, CrcOfWords DEF IInv
<1>4. /\ \/ crc_task'[s].pc = "rx" /\ xfer_type[s] = "RX"
         \/ crc_task'[s].pc = "tx" /\ xfer_type[s] = "TX"
      /\ \A r \in Side : r # s => crc_task'[r] = crc_task[r]
      /\ crc_task' \in [Side -> [pc : {"idle", "rx", "rx_compared", "rx_indicated", "tx",
                                       "tx_valid", "tx_sent", "tx_ready"}, crc32 : Seq(Nat)]]
  <2>1. PICK p \in {"rx", "tx"}, c \in Seq(Nat) :
           /\ crc_task' = [crc_task EXCEPT ![s] = [pc |-> p, crc32 |-> c]]
           /\ (p = "rx" /\ xfer_type[s] = "RX") \/ (p = "tx" /\ xfer_type[s] = "TX")
    BY <1>1, <1>3
  <2>2. crc_task \in [Side -> [pc : {"idle", "rx", "rx_compared", "rx_indicated", "tx",
                                    "tx_valid", "tx_sent", "tx_ready"}, crc32 : Seq(Nat)]]
    BY <1>2 DEF TypeOK
  <2>3. crc_task'[s] = [pc |-> p, crc32 |-> c]
    BY <2>1, <2>2
  <2> QED
    BY <2>1, <2>2, <2>3
<1>5. Stage'
  <2>1. Unmoving
    BY <1>1, <1>4, UnmovedSame DEF Unmoving, Side
  <2> QED
    BY <2>1, StageStays DEF IInv
<1>6. TypeOK'
  BY <1>1, <1>2, <1>4 DEF TypeOK
<1>7. Counts' /\ Requests'
  BY <1>1, UnmovedSame, RequestsStay DEF IInv, Counts
<1>8. CrcTasks'
  <2>1. s = "M" => sync_task = "wait" /\ writer["M"] \in {"idle", "filled"}
    BY <1>1, <1>2, MasterInCrc
  <2>2. s = "S" => writer["S"] \in {"idle", "filled"}
    BY <1>1, <1>2, SlaveInCrc
  <2> QED
    BY <1>1, <1>4, <2>1, <2>2, UnmovedSame DEF IInv, CrcTasks, Side
<1> QED
  BY <1>5, <1>6, <1>7, <1>8 DEF IInv

-----------------------------------------------------------------------------
(* The checksum task of M.                                                 *)

\* M has sent a checksum from the checksum task.
LEMMA MasterTxCrcSentKeeps == ASSUME TakingTurns, IInv, MasterTxCrcSent PROVE IInv'
<1> DEFINE x == [TxM EXCEPT !.frame.crc_valid = FALSE, !.frame.crc_done = TRUE]
<1>1. /\ crc_task["M"].pc = "tx_sent" /\ CrcTaskGoes("M", "idle") /\ MayRun("M", "crc")
      /\ tx_frame_done("M", x, "INVALID")
      /\ rx_mng' = rx_mng /\ crc_unmatch' = crc_unmatch
      /\ sync_task' = sync_task /\ sync_queue' = sync_queue /\ spi' = spi
      /\ cs_last_frame_info' = cs_last_frame_info
      /\ rx_queue' = rx_queue /\ rx_data_buffer' = rx_data_buffer
      /\ writer' = writer /\ reader' = reader /\ sent' = sent /\ got' = got
  BY DEF MasterTxCrcSent, CrcTaskAt, apps, wire, memory, TxM
<1>2. TypeOK
  BY DEF IInv
<1>3. xfer_type["M"] = "TX" /\ sync_task = "wait" /\ writer["M"] \in {"idle", "filled"}
  BY <1>1 DEF IInv, CrcTasks
<1>4. \/ MTurn /\ MCrc /\ MSent
      \/ MTurn /\ MEdge /\ MSent
      \/ MTurn /\ MLast /\ MThrough
      \/ MTurn /\ MDelivered /\ MThrough
      \/ Pause /\ MThrough /\ reader["M"] = "idle" /\ xfer_type["S"] = "INVALID" /\ AtRest
  BY <1>1, <1>3
     DEF IInv, Stage, MTurn, STurn, Pause, MFilled, MClaimed, MHeader, MPart, MWords, MFull, MCrc,
         MEdge, MFrame, MLast, MDelivered, SFilled, SClaimed, SHeader, SPart, SWords, SDone, SCrc,
         SRead, SFrame, SDelivered, MNext, MOver, MSends, MBusy
<1>5. Package(TxM) /\ Full(TxM.frame) /\ TxM \in ManagerType
  BY <1>2, <1>3, <1>4, Managers DEF MSent, MThrough, Slice
<1>6. x \in ManagerType /\ SameSpan(TxM, x) /\ x.state = TxM.state
  BY <1>5 DEF ManagerType, FrameType, SameSpan, SameWalk
<1> HIDE DEF x
<1>7. Package(x) /\ (IsLastFrame(x) <=> IsLastFrame(TxM))
  BY <1>5, <1>6 DEF Package, IsLastFrame, SameSpan, SameWalk
<1>8. /\ tx_mng' \in [Side -> ManagerType] /\ TxS' = TxS /\ xfer_type'["S"] = xfer_type["S"]
      /\ xfer_type' \in [Side -> {"INVALID", "RX", "TX", "SLV_TX_DONE"}]
      /\ tx_queue' \in [Side -> 0 .. QueueLen]
      /\ \/ AtNextFrame(x, TxM') /\ xfer_type'["M"] = xfer_type["M"]
         \/ IsLastFrame(x) /\ xfer_type'["M"] = "INVALID"
  BY <1>1, <1>2, <1>6, <1>7, TxFrameDone DEF Side, TxM, TxS
<1>9. RxS' = RxS /\ RxM' = RxM
  BY <1>1, RxSame
<1>10. /\ crc_task' \in [Side -> [pc : {"idle", "rx", "rx_compared", "rx_indicated", "tx",
                                         "tx_valid", "tx_sent", "tx_ready"},
                                   crc32 : Seq(Nat)]]
       /\ crc_task'["M"].pc = "idle" /\ crc_task'["S"] = crc_task["S"]
  BY <1>1, <1>2, CrcTaskMoves DEF Side
<1>11. Stage'
  <2>1. /\ Size("M")' = Size("M") /\ \A k : Arrived("S", k)' <=> Arrived("S", k)
        /\ Even("M")' <=> Even("M")
        /\ Even("S")' <=> Even("S")
    BY <1>1, SameApps, SameBuffer DEF Side
  <2>2. /\ Listening' <=> Listening
        /\ AtRest' <=> AtRest
        /\ EdgeOut' <=> EdgeOut
        /\ NoEdgeOut' <=> NoEdgeOut
    BY <1>1 DEF Listening, AtRest, EdgeOut, NoEdgeOut
  <2>3. SBusy' <=> SBusy
    BY <1>1, <1>8, <1>9, <1>10, <2>2 DEF SBusy
  <2>4. /\ SFull => SFull'
        /\ SNext => SNext'
    BY <1>1, <1>9, <2>1, <2>3 DEF SFull, SNext
  <2>5. ASSUME MSent, RxS.xfer_size = Size("M"), Package(RxS), TxM.state # "CRC"
        PROVE  MNext' \/ MOver'
    <3>1. CASE AtNextFrame(x, TxM') /\ xfer_type'["M"] = xfer_type["M"]
      <4>1. /\ OneAhead(TxM', RxS) /\ Fresh(TxM'.frame) /\ TxM'.frame.handled = 0
            /\ TxM'.frame.header = TxM'.frame.len /\ TxM'.state # "CRC" /\ ~ IsLastFrame(RxS)
        BY <1>6, <1>7, <2>5, <3>1
           DEF AtNextFrame, MSent, OneAhead, Slice, Package, IsLastFrame, SameSpan, SameWalk
      <4>2. TxM'.xfer_size = Size("M")
        BY <2>5, <4>1 DEF OneAhead
      <4> QED
        BY <1>3, <1>9, <1>10, <2>1, <3>1, <4>1, <4>2 DEF MNext, MSends
    <3>2. CASE IsLastFrame(x) /\ xfer_type'["M"] = "INVALID"
      <4>1. IsLastFrame(RxS)
        BY <1>7, <2>5, <3>2 DEF MSent, Slice, Package, IsLastFrame
      <4> QED
        BY <1>9, <3>2, <4>1 DEF MOver
    <3> QED
      BY <1>8, <3>1, <3>2
  <2>6. MAlone => MAlone'
    BY <1>1, MAloneStill
  <2>7. ASSUME MTurn, MCrc, MSent PROVE MCrc'
    <3>1. RxS.xfer_size = Size("M") /\ Package(RxS) /\ TxM.state # "CRC"
      BY <2>7 DEF MCrc, SFull, Slice, MSent
    <3>2. MNext' \/ MOver'
      BY <2>5, <2>7, <3>1
    <3> QED
      BY <1>1, <1>9, <2>1, <2>2, <2>4, <2>7, <3>1, <3>2 DEF MCrc
  <2>8. ASSUME MTurn, MEdge, MSent PROVE MEdge'
    <3>1. /\ RxS.xfer_size = Size("M") /\ Package(RxS) /\ TxM.state # "CRC"
          /\ ~ IsLastFrame(RxS)
      BY <2>8 DEF MEdge, SNext, MSent
    <3>2. MNext' \/ MOver'
      BY <2>5, <2>8, <3>1
    <3>3. MNext'
      BY <1>9, <3>1, <3>2 DEF MOver
    <3> QED
      BY <1>1, <2>2, <2>4, <2>8, <3>3 DEF MEdge
  <2>9. ASSUME MThrough PROVE MThrough'
    <3>1. ~ AtNextFrame(x, TxM') /\ xfer_type'["M"] = "INVALID"
      BY <1>1, <1>3, <1>7, <1>8, <2>9 DEF MThrough, AtNextFrame
    <3> QED
      BY <3>1 DEF MThrough
  <2>10. ASSUME MTurn, MLast, MThrough PROVE MLast'
    BY <1>1, <1>8, <1>9, <1>10, <2>1, <2>2, <2>9, <2>10 DEF MLast
  <2>11. ASSUME MTurn, MDelivered, MThrough PROVE MDelivered'
    BY <1>1, <1>8, <2>1, <2>2, <2>9, <2>11 DEF MDelivered
  <2>12. ASSUME Pause, MThrough, reader["M"] = "idle", xfer_type["S"] = "INVALID", AtRest
         PROVE  Pause'
    BY <1>1, <1>8, <2>1, <2>2, <2>9, <2>12 DEF Pause
  <2> QED
    BY <1>4, <2>6, <2>7, <2>8, <2>10, <2>11, <2>12 DEF Stage, MTurn
<1>12. TypeOK'
  BY <1>1, <1>2, <1>8, <1>10 DEF TypeOK
<1>13. CrcTasks'
  BY <1>1, <1>3, <1>8, <1>10 DEF IInv, CrcTasks
<1>14. Counts' /\ Requests'
  BY <1>1, <1>8, <1>9, RequestsStay DEF IInv, Counts
<1> QED
  BY <1>11, <1>12, <1>13, <1>14 DEF IInv

\* While M receives, S sends.
LEMMA MasterReceives ==
    ASSUME IInv, xfer_type["M"] = "RX"
    PROVE  /\ STurn /\ MBusy /\ writer["S"] = "idle"
           /\ SPart \/ SWords \/ SDone \/ SCrc \/ SRead \/ SFrame
BY DEF IInv, Stage, MTurn, STurn, Pause, MFilled, MClaimed, MHeader, MPart, MWords, MFull, MCrc,
       MEdge, MFrame, MLast, MDelivered, SFilled, SClaimed, SHeader, SPart, SWords, SDone, SCrc,
       SRead, SFrame, SDelivered, MNext, MOver, MSent, MThrough, MSends

\* The last checksum compared is the last of the package.
LEMMA LastCompared ==
    ASSUME TypeOK, STurn, SPart \/ SWords \/ SDone \/ SCrc \/ SRead \/ SFrame,
           Compared(RxM), RxM.frame.crc_valid, RxM.crc_done_cnt + 1 >= RxM.nof_frame
    PROVE  SRead /\ IsLastFrame(RxM) /\ SThrough
<1>1. /\ RxM.cur_frame_id \in Nat /\ RxM.nof_frame \in Nat /\ RxM.crc_done_cnt \in Nat
      /\ Package(RxM)
  BY Managers DEF ManagerType, SPart, SWords, SDone, SCrc, SRead, SFrame, Together, Slice
<1>2. RxM.crc_done_cnt + 1 = Reads(RxM)
  BY DEF Compared
<1>3. Reads(RxM) = RxM.cur_frame_id \/ Reads(RxM) = RxM.cur_frame_id + 1
  BY <1>1 DEF Reads
<1>4. RxM.cur_frame_id < RxM.nof_frame
  BY <1>1 DEF Package
<1>5. Reads(RxM) # RxM.cur_frame_id /\ IsLastFrame(RxM)
  BY <1>1, <1>2, <1>3, <1>4 DEF IsLastFrame
<1>6. ~ (RxM.frame.header_done /\ ~ RxM.frame.crc_done)
  BY <1>1, <1>5 DEF Reads
<1> QED
  BY <1>5, <1>6
     DEF SPart, SWords, SDone, SCrc, SRead, SFrame, Parts, Full, SGoesOn, SNextFrame

\* M compares a checksum: a blocked session goes on, the last frame ends the package.
LEMMA MasterRxCrcDoneKeeps == ASSUME TakingTurns, IInv, MasterRxCrcDone PROVE IInv'
<1>1. /\ MayRun("M", "crc") /\ crc_task["M"].pc = "rx" /\ CrcTaskGoes("M", "idle")
      /\ sync_queue' = sync_queue /\ sync_task' = sync_task
      /\ writer' = writer /\ reader' = reader /\ sent' = sent /\ got' = got
  BY DEF MasterRxCrcDone, CrcTaskAt, apps
<1>2. TypeOK /\ RxM \in ManagerType /\ spi \in SpiType
  BY Managers DEF IInv
<1>3. /\ xfer_type["M"] = "RX" /\ sync_task = "wait" /\ writer["M"] \in {"idle", "filled"}
      /\ Compared(RxM)
  BY <1>1 DEF IInv, CrcTasks, Counts
<1>4. /\ STurn /\ MBusy /\ writer["S"] = "idle"
      /\ SPart \/ SWords \/ SDone \/ SCrc \/ SRead \/ SFrame
  BY <1>3, MasterReceives
<1>5. /\ crc_task' \in [Side -> [pc : {"idle", "rx", "rx_compared", "rx_indicated", "tx",
                                         "tx_valid", "tx_sent", "tx_ready"},
                                   crc32 : Seq(Nat)]]
       /\ crc_task'["M"].pc = "idle" /\ crc_task'["S"] = crc_task["S"]
  BY <1>1, <1>2, CrcTaskMoves DEF Side
<1>6. ASSUME ~ RxM.frame.crc_valid
      PROVE  IInv'
  <2>1. /\ xfer_type' = xfer_type /\ rx_mng' = rx_mng /\ tx_mng' = tx_mng
        /\ crc_unmatch' = crc_unmatch /\ spi' = spi
        /\ cs_last_frame_info' = cs_last_frame_info
        /\ rx_queue' = rx_queue /\ tx_queue' = tx_queue /\ rx_data_buffer' = rx_data_buffer
    BY <1>6 DEF MasterRxCrcDone, proto, memory, queues, RxM
  <2>2. Unmoving
    BY <1>1, <1>5, <2>1, UnmovedSame DEF Unmoving
  <2>3. Stage'
    BY <2>2, StageStays DEF IInv
  <2>4. TypeOK'
    BY <1>1, <1>2, <1>5, <2>1 DEF TypeOK
  <2>5. CrcTasks' /\ Counts' /\ Requests'
    BY <1>1, <1>3, <1>5, <2>1, UnmovedSame, RequestsStay DEF IInv, CrcTasks, Counts
  <2> QED
    BY <2>3, <2>4, <2>5 DEF IInv
<1>7. ASSUME RxM.frame.crc_valid
      PROVE  IInv'
  <2> DEFINE n == RxM.crc_done_cnt + 1
             z == [RxM EXCEPT !.crc_done_cnt = n, !.frame.crc_valid = FALSE]
  <2>1. [RxM EXCEPT !.crc_done_cnt = @ + 1, !.frame.crc_valid = FALSE] = z
    BY <1>2
  <2>2. n \in Nat /\ z \in ManagerType /\ Unmoved(RxM, z) /\ ~ z.frame.crc_valid
        /\ z.crc_done_cnt = n
    <3>1. n \in Nat
      BY <1>2 DEF ManagerType
    <3>2. PICK m \in Nat : m = n
      BY <3>1
    <3>3. PICK y : y = [RxM EXCEPT !.crc_done_cnt = m, !.frame.crc_valid = FALSE]
      OBVIOUS
    <3> HIDE DEF n
    <3>4. /\ y \in ManagerType /\ SameFrame(RxM, y) /\ y.state = RxM.state
          /\ ~ y.frame.crc_valid /\ y.crc_done_cnt = m
      BY <1>2, <3>3 DEF ManagerType, FrameType, SameFrame, SameSpan, SameWalk, SameFlags
    <3>5. y = z
      BY <3>2, <3>3
    <3> QED
      BY <3>1, <3>2, <3>4, <3>5 DEF Unmoved
  <2>3. /\ tx_mng' = tx_mng /\ rx_data_buffer' = rx_data_buffer /\ tx_queue' = tx_queue
        /\ crc_unmatch' \in [Side -> BOOLEAN]
    <3>1. /\ tx_mng' = tx_mng /\ rx_data_buffer' = rx_data_buffer /\ tx_queue' = tx_queue
          /\ crc_unmatch' = [crc_unmatch EXCEPT !["M"] = @ \/ crc_task["M"].crc32 # RxM.frame.crc]
      BY <1>7 DEF MasterRxCrcDone, RxM
    <3>2. PICK b \in BOOLEAN : b = (crc_unmatch["M"] \/ crc_task["M"].crc32 # RxM.frame.crc)
      OBVIOUS
    <3>3. crc_unmatch' = [crc_unmatch EXCEPT !["M"] = b]
      BY <3>1, <3>2
    <3> QED
      BY <1>2, <3>1, <3>3 DEF TypeOK
  <2>4. TxM' = TxM /\ TxS' = TxS
    BY <2>3, TxSame
  <2>5. Compared(RxM) /\ n = Reads(RxM)
    BY <1>3, <1>7 DEF Compared
  <2>6. ASSUME RxM.state = "CRC", spi' = Clocked(Dummy(1)),
               rx_mng' = [rx_mng EXCEPT !["M"] =
                             [z EXCEPT !.state = "BUSY", !.frame.crc = ClockedIn(1)[1].value,
                                       !.frame.crc_done = TRUE, !.frame.crc_valid = TRUE]],
               cascade_crc_request("M", "rx", RxM.frame),
               xfer_type' = xfer_type, rx_queue' = rx_queue
        PROVE  IInv'
    <3>1. /\ SCrc /\ NoEdgeOut /\ Slice(RxM) /\ RxM.xfer_size = Size("S") /\ Full(RxM.frame)
          /\ IsChecksum(spi.txf) /\ Arrived("M", RxM.frame.payload + RxM.frame.len)
      BY <1>4, <2>6 DEF SPart, SWords, SDone, SCrc, SRead, SFrame
    <3>2. /\ spi' \in SpiType /\ spi'.txf = <<>> /\ Len(spi'.rxf) <= FifoDepth
          /\ spi.rxf = <<>> => Len(spi'.rxf) = 1
          /\ SameDriver(spi, spi') /\ ClockedIn(1)[1].value \in Seq(Nat)
      <4>1. /\ Len(spi.rxf) <= FifoDepth /\ Len(spi.txf) = 1 /\ spi.txf \in Seq(WordType)
        BY <1>2, <3>1 DEF TypeOK, IsChecksum, SpiType
      <4>2. /\ spi' \in SpiType /\ spi'.txf = <<>> /\ Len(spi'.rxf) <= FifoDepth
            /\ spi.rxf = <<>> => Len(spi'.rxf) = 1
            /\ SameDriver(spi, spi') /\ ClockedIn(1) = spi.txf
        BY <1>2, <2>6, <4>1, OneWord, ClockedThrough
      <4>3. spi.txf[1] \in WordType
        BY <4>1
      <4> QED
        BY <4>2, <4>3 DEF WordType
    <3>3. PICK c \in Seq(Nat) : c = ClockedIn(1)[1].value
      BY <3>2
    <3>4. PICK y : y = [z EXCEPT !.state = "BUSY", !.frame.crc = c,
                                 !.frame.crc_done = TRUE, !.frame.crc_valid = TRUE]
      OBVIOUS
    <3>5. /\ y \in ManagerType /\ SameSpan(z, y) /\ y.state = "BUSY"
          /\ y.frame.crc_done /\ y.frame.crc_valid
          /\ y.frame.header_done = z.frame.header_done
          /\ y.frame.payload_done = z.frame.payload_done
          /\ y.crc_done_cnt = n
      <4> HIDE DEF z
      <4> QED
        BY <2>2, <3>4 DEF ManagerType, FrameType, SameSpan, SameWalk
    <3>6. /\ RxM' = y /\ RxS' = RxS /\ rx_mng' \in [Side -> ManagerType]
      BY <1>2, <2>6, <3>3, <3>4, <3>5, RxMSet
    <3>7. SameSpan(RxM, y) /\ y.frame.header_done = RxM.frame.header_done
          /\ y.frame.payload_done = RxM.frame.payload_done
      <4> HIDE DEF z
      <4> QED
        BY <2>2, <3>5 DEF Unmoved, SameFrame, SameFlags, SameSpan, SameWalk
    <3>8. Stage'
      <4>1. Size("S")' = Size("S") /\ \A k : Arrived("M", k)' <=> Arrived("M", k)
        BY <1>1, <2>3, SameApps, SameBuffer DEF Side
      <4>2. SGoesOn' \/ (IsLastFrame(RxM') /\ SThrough')
        BY <1>1, <2>4, <2>6, <3>1, <3>2, <3>5, <3>6, <3>7, ChecksumClocked DEF NoEdgeOut
      <4>3. /\ Slice(RxM') /\ RxM'.xfer_size = Size("S") /\ Over(RxM'.frame)
            /\ RxM'.frame.payload = RxM.frame.payload /\ RxM'.frame.len = RxM.frame.len
        BY <3>1, <3>5, <3>6, <3>7 DEF Slice, Package, SameSpan, SameWalk, Full, Over
      <4>4. MBusy'
        BY <1>4, <2>6, <3>5, <3>6 DEF MBusy
      <4>5. spi'.txf = <<>>
        BY <3>2
      <4>6. SRead'
        BY <1>1, <1>3, <1>4, <3>1, <3>5, <3>6, <4>1, <4>2, <4>3, <4>4, <4>5 DEF SRead
      <4>7. SAlone'
        BY <1>1, <1>4, <2>6, SAloneStill DEF STurn
      <4> QED
        BY <4>6, <4>7 DEF Stage, STurn
    <3>9. /\ cs_last_frame_info' \in [Side -> [mem : {"none", "rx", "tx"}, ofs : Nat, len : Nat]]
          /\ Requests'
      <4>1. /\ RxM.frame.payload \in Nat /\ RxM.frame.len \in Nat /\ RxM.xfer_size \in Nat
            /\ RxM.frame.payload + RxM.frame.len <= RxM.xfer_size
            /\ RxM.xfer_size <= BufferSize
        BY <1>2, <3>1, SliceFits
      <4>2. RxM.frame.payload + RxM.frame.len <= BufferSize
        BY <4>1, LenAssumption
      <4> QED
        BY <1>1, <1>2, <2>6, <4>2, Request DEF IInv, Side
    <3>10. TypeOK'
      <4>1. Len(spi'.txf) <= FifoDepth
        BY <3>2, OneWord
      <4> QED
        BY <1>1, <1>2, <1>5, <2>3, <2>6, <3>2, <3>6, <3>9, <4>1 DEF TypeOK
    <3>11. Compared(RxM')
      BY <1>2, <2>5, <3>1, <3>5, <3>6, <3>7
         DEF Compared, Reads, Full, SameSpan, SameWalk, ManagerType
    <3>12. CrcTasks' /\ Counts'
      BY <1>1, <1>3, <1>5, <2>4, <2>6, <3>6, <3>11 DEF IInv, CrcTasks, Counts
    <3> QED
      BY <3>8, <3>9, <3>10, <3>12 DEF IInv
  <2>7. ASSUME RxM.state # "CRC", rx_mng' = [rx_mng EXCEPT !["M"] = z],
               xfer_type' = xfer_type, rx_queue' = rx_queue, spi' = spi,
               cs_last_frame_info' = cs_last_frame_info
        PROVE  IInv'
    <3>1. RxM' = z /\ RxS' = RxS /\ rx_mng' \in [Side -> ManagerType]
      BY <1>2, <2>2, <2>7, RxMSet
    <3>2. Unmoving
      BY <1>1, <1>3, <1>5, <2>2, <2>3, <2>4, <2>7, <3>1, UnmovedSelf DEF Unmoving
    <3>3. Stage'
      BY <3>2, StageStays DEF IInv
    <3>4. TypeOK'
      BY <1>1, <1>2, <1>5, <2>3, <2>7, <3>1 DEF TypeOK
    <3>5. Compared(RxM')
      BY <2>2, <2>5, <3>1 DEF Compared, Reads, Unmoved, SameFrame, SameSpan, SameWalk, SameFlags
    <3>6. CrcTasks' /\ Counts' /\ Requests'
      BY <1>1, <1>3, <1>5, <2>4, <2>7, <3>1, <3>5, RequestsStay DEF IInv, CrcTasks, Counts
    <3> QED
      BY <3>3, <3>4, <3>6 DEF IInv
  <2>8. ASSUME RxM.state # "CRC", n >= RxM.nof_frame, rx_indication("M"),
               rx_mng' = [rx_mng EXCEPT !["M"] = [z EXCEPT !.state = "IDLE"]],
               xfer_type' = [xfer_type EXCEPT !["M"] = "INVALID"], spi' = spi,
               cs_last_frame_info' = cs_last_frame_info
        PROVE  IInv'
    <3>1. SRead /\ IsLastFrame(RxM) /\ SThrough
      BY <1>2, <1>4, <1>7, <2>5, <2>8, LastCompared
    <3>2. PICK y : y = [z EXCEPT !.state = "IDLE"]
      OBVIOUS
    <3>3. y \in ManagerType
      <4> HIDE DEF z
      <4> QED
        BY <2>2, <3>2, StateSet
    <3>4. RxM' = y /\ RxS' = RxS /\ rx_mng' \in [Side -> ManagerType]
      BY <1>2, <2>8, <3>2, <3>3, RxMSet
    <3>5. /\ xfer_type' \in [Side -> {"INVALID", "RX", "TX", "SLV_TX_DONE"}]
          /\ xfer_type'["M"] = "INVALID" /\ xfer_type'["S"] = xfer_type["S"]
      BY <1>2, <2>8 DEF TypeOK, Side
    <3>6. RxM.xfer_size = Size("S") /\ RxM.xfer_size \in Nat
          /\ Arrived("M", RxM.xfer_size)
      <4>1. Slice(RxM) /\ RxM.xfer_size = Size("S")
            /\ Arrived("M", RxM.frame.payload + RxM.frame.len)
        BY <3>1 DEF SRead
      <4>2. RxM.frame.payload + RxM.frame.len = RxM.xfer_size
        BY <1>2, <3>1, <4>1, SliceFits
      <4> QED
        BY <1>2, <4>1, <4>2 DEF ManagerType
    <3>7. /\ rx_queue' \in [Side -> Seq(Nat)] /\ rx_queue'["M"] = <<Size("S")>>
          /\ rx_queue'["S"] = rx_queue["S"]
      <4>1. rx_queue["M"] = <<>> /\ 0 < QueueLen
        BY <1>4, CoreAssumption DEF MBusy
      <4>2. rx_queue' = [rx_queue EXCEPT !["M"] = <<RxM.xfer_size>>]
        BY <1>2, <2>8, <4>1 DEF rx_indication, TypeOK, Side, RxM
      <4> QED
        BY <1>2, <3>6, <4>2 DEF TypeOK, Side
    <3>8. Stage'
      <4>1. Size("S")' = Size("S") /\ \A k : Arrived("M", k)' <=> Arrived("M", k)
        BY <1>1, <2>3, SameApps, SameBuffer DEF Side
      <4>2. SThrough'
        BY <1>1, <2>4, <2>8, <3>1, <3>5 DEF SThrough, SEnds
      <4>3. SDelivered'
        BY <1>1, <1>3, <1>4, <3>5, <3>6, <3>7, <4>1, <4>2 DEF SDelivered
      <4>4. SAlone'
        BY <1>1, <1>4, <3>7, SAloneStill DEF STurn
      <4> QED
        BY <4>3, <4>4 DEF Stage, STurn
    <3>9. TypeOK'
      BY <1>1, <1>2, <1>5, <2>3, <2>8, <3>4, <3>5, <3>7 DEF TypeOK
    <3>10. CrcTasks' /\ Counts' /\ Requests'
      BY <1>1, <1>3, <1>5, <2>4, <2>8, <3>4, <3>5, RequestsStay DEF IInv, CrcTasks, Counts
    <3> QED
      BY <3>8, <3>9, <3>10 DEF IInv
  <2>9. /\ z.crc_done_cnt = n
        /\ \/ /\ RxM.state = "CRC" /\ spi' = Clocked(Dummy(1))
              /\ rx_mng' = [rx_mng EXCEPT !["M"] =
                             [z EXCEPT !.state = "BUSY", !.frame.crc = ClockedIn(1)[1].value,
                                       !.frame.crc_done = TRUE, !.frame.crc_valid = TRUE]]
              /\ cascade_crc_request("M", "rx", RxM.frame)
              /\ xfer_type' = xfer_type /\ rx_queue' = rx_queue
           \/ /\ RxM.state # "CRC" /\ rx_mng' = [rx_mng EXCEPT !["M"] = z]
              /\ xfer_type' = xfer_type /\ rx_queue' = rx_queue /\ spi' = spi
              /\ cs_last_frame_info' = cs_last_frame_info
           \/ /\ RxM.state # "CRC" /\ n >= RxM.nof_frame /\ rx_indication("M")
              /\ rx_mng' = [rx_mng EXCEPT !["M"] = [z EXCEPT !.state = "IDLE"]]
              /\ xfer_type' = [xfer_type EXCEPT !["M"] = "INVALID"] /\ spi' = spi
              /\ cs_last_frame_info' = cs_last_frame_info
    BY <1>7, <2>1, <2>2 DEF MasterRxCrcDone, RxM
  <2> QED
    BY <2>6, <2>7, <2>8, <2>9
<1> QED
  BY <1>6, <1>7

\* M's checksum is marked valid.
LEMMA MasterTxCrcReadyKeeps == ASSUME TakingTurns, IInv, MasterTxCrcReady PROVE IInv'
<1>1. /\ MayRun("M", "crc") /\ crc_task["M"].pc = "tx_ready" /\ CrcTaskGoes("M", "idle")
      /\ tx_mng' = [tx_mng EXCEPT !["M"] = [TxM EXCEPT !.frame.crc_valid = TRUE]]
      /\ xfer_type' = xfer_type /\ rx_mng' = rx_mng /\ crc_unmatch' = crc_unmatch
      /\ sync_queue' = sync_queue /\ sync_task' = sync_task /\ spi' = spi
      /\ cs_last_frame_info' = cs_last_frame_info
      /\ rx_queue' = rx_queue /\ tx_queue' = tx_queue /\ rx_data_buffer' = rx_data_buffer
      /\ writer' = writer /\ reader' = reader /\ sent' = sent /\ got' = got
  BY DEF MasterTxCrcReady, CrcTaskAt, apps, wire, memory, queues, TxM
<1>2. TypeOK /\ TxM \in ManagerType
  BY Managers DEF IInv
<1>3. xfer_type["M"] = "TX" /\ sync_task = "wait" /\ writer["M"] \in {"idle", "filled"}
  BY <1>1 DEF IInv, CrcTasks
<1>4. /\ crc_task' \in [Side -> [pc : {"idle", "rx", "rx_compared", "rx_indicated", "tx",
                                        "tx_valid", "tx_sent", "tx_ready"},
                                  crc32 : Seq(Nat)]]
      /\ crc_task'["M"].pc = "idle" /\ crc_task'["S"] = crc_task["S"]
  BY <1>1, <1>2, CrcTaskMoves DEF Side
<1>5. PICK y : y = [TxM EXCEPT !.frame.crc_valid = TRUE]
  OBVIOUS
<1>6. y \in ManagerType /\ Unmoved(TxM, y)
  BY <1>2, <1>5
     DEF ManagerType, FrameType, Unmoved, SameFrame, SameFlags, SameSpan, SameWalk
<1>7. TxM' = y /\ TxS' = TxS /\ tx_mng' \in [Side -> ManagerType] /\ RxM' = RxM /\ RxS' = RxS
  BY <1>1, <1>2, <1>5, <1>6, TxMSet, RxSame
<1>8. Stage'
  <2>1. Unmoving
    BY <1>1, <1>4, <1>6, <1>7, UnmovedSelf DEF Unmoving
  <2> QED
    BY <2>1, StageStays DEF IInv
<1>9. TypeOK'
  BY <1>1, <1>2, <1>4, <1>7 DEF TypeOK
<1>10. CrcTasks' /\ Counts' /\ Requests'
  BY <1>1, <1>3, <1>4, <1>7, RequestsStay DEF IInv, CrcTasks, Counts
<1> QED
  BY <1>8, <1>9, <1>10 DEF IInv

\* M's checksum is stored, and sent at once if the session waits for it.
LEMMA MasterTxCrcDoneKeeps == ASSUME TakingTurns, IInv, MasterTxCrcDone PROVE IInv'
<1> DEFINE c == crc_task["M"].crc32
           x == [TxM EXCEPT !.frame.crc = c]
<1>1. /\ MayRun("M", "crc") /\ crc_task["M"].pc = "tx"
      /\ IF TxM.state = "CRC"
         THEN /\ tx_mng' = [tx_mng EXCEPT !["M"] = [x EXCEPT !.state = "BUSY"]]
              /\ spi' = Clocked(<<Checksum(x.frame.crc)>>)
              /\ CrcTaskGoes("M", "tx_sent")
         ELSE /\ tx_mng' = [tx_mng EXCEPT !["M"] = x] /\ CrcTaskGoes("M", "tx_ready")
              /\ spi' = spi
      /\ xfer_type' = xfer_type /\ rx_mng' = rx_mng /\ crc_unmatch' = crc_unmatch
      /\ sync_queue' = sync_queue /\ sync_task' = sync_task
      /\ cs_last_frame_info' = cs_last_frame_info
      /\ rx_queue' = rx_queue /\ tx_queue' = tx_queue /\ rx_data_buffer' = rx_data_buffer
      /\ writer' = writer /\ reader' = reader /\ sent' = sent /\ got' = got
  BY DEF MasterTxCrcDone, CrcTaskAt, apps, wire, memory, queues, TxM
<1>2. TypeOK /\ TxM \in ManagerType /\ spi \in SpiType
  BY Managers DEF IInv
<1>3. xfer_type["M"] = "TX" /\ sync_task = "wait" /\ writer["M"] \in {"idle", "filled"}
  BY <1>1 DEF IInv, CrcTasks
<1>4. c \in Seq(Nat)
  BY <1>2 DEF TypeOK, Side
<1> HIDE DEF c
<1>5. /\ x \in ManagerType /\ Unmoved(TxM, x) /\ x.frame.crc = c
  BY <1>2, <1>4
     DEF ManagerType, FrameType, Unmoved, SameFrame, SameFlags, SameSpan, SameWalk
<1> HIDE DEF x
<1>6. ASSUME NEW q \in {"tx_sent", "tx_ready"}, CrcTaskGoes("M", q)
      PROVE  /\ crc_task' \in [Side -> [pc : {"idle", "rx", "rx_compared", "rx_indicated", "tx",
                                               "tx_valid", "tx_sent", "tx_ready"},
                                         crc32 : Seq(Nat)]]
             /\ crc_task'["M"].pc = q /\ crc_task'["S"] = crc_task["S"]
  BY <1>2, <1>6, CrcTaskMoves DEF Side
<1>7. RxM' = RxM /\ RxS' = RxS
  BY <1>1, RxSame
<1>8. ASSUME TxM.state # "CRC"
      PROVE  IInv'
  <2>1. /\ tx_mng' = [tx_mng EXCEPT !["M"] = x] /\ CrcTaskGoes("M", "tx_ready") /\ spi' = spi
    BY <1>1, <1>8
  <2>2. TxM' = x /\ TxS' = TxS /\ tx_mng' \in [Side -> ManagerType]
    BY <1>2, <1>5, <2>1, TxMSet
  <2>3. /\ crc_task' \in [Side -> [pc : {"idle", "rx", "rx_compared", "rx_indicated", "tx",
                                          "tx_valid", "tx_sent", "tx_ready"},
                                    crc32 : Seq(Nat)]]
        /\ crc_task'["M"].pc = "tx_ready" /\ crc_task'["S"] = crc_task["S"]
    BY <1>6, <2>1
  <2>4. Stage'
    <3>1. Unmoving
      BY <1>1, <1>5, <1>7, <2>1, <2>2, <2>3, UnmovedSelf DEF Unmoving
    <3> QED
      BY <3>1, StageStays DEF IInv
  <2>5. TypeOK'
    BY <1>1, <1>2, <2>1, <2>2, <2>3 DEF TypeOK
  <2>6. CrcTasks' /\ Counts' /\ Requests'
    BY <1>1, <1>3, <1>7, <2>2, <2>3, RequestsStay DEF IInv, CrcTasks, Counts
  <2> QED
    BY <2>4, <2>5, <2>6 DEF IInv
<1>9. ASSUME TxM.state = "CRC"
      PROVE  IInv'
  <2>1. /\ tx_mng' = [tx_mng EXCEPT !["M"] = [x EXCEPT !.state = "BUSY"]]
        /\ spi' = Clocked(<<Checksum(c)>>) /\ CrcTaskGoes("M", "tx_sent")
    BY <1>1, <1>5, <1>9
  <2>2. PICK y : y = [x EXCEPT !.state = "BUSY"]
    OBVIOUS
  <2>3. y \in ManagerType /\ SameFrame(x, y) /\ y.state = "BUSY"
    BY <1>5, <2>2 DEF ManagerType, SameFrame, SameFlags, SameSpan, SameWalk
  <2>4. TxM' = y /\ TxS' = TxS /\ tx_mng' \in [Side -> ManagerType]
    BY <1>2, <2>1, <2>2, <2>3, TxMSet
  <2>5. /\ crc_task' \in [Side -> [pc : {"idle", "rx", "rx_compared", "rx_indicated", "tx",
                                          "tx_valid", "tx_sent", "tx_ready"},
                                    crc32 : Seq(Nat)]]
        /\ crc_task'["M"].pc = "tx_sent" /\ crc_task'["S"] = crc_task["S"]
    BY <1>6, <2>1
  <2>6. MTurn /\ MFull /\ NoEdgeOut
    BY <1>1, <1>3, <1>9
       DEF IInv, Stage, MTurn, STurn, Pause, MFilled, MClaimed, MHeader, MPart, MWords, MFull,
           MCrc, MEdge, MFrame, MLast, MDelivered, SFilled, SClaimed, SHeader, SPart, SWords,
           SDone, SCrc, SRead, SFrame, SDelivered, MNext, MOver, MSent, MSends, MBusy, MThrough,
           EdgeOut, NoEdgeOut
  <2>7. /\ spi' \in SpiType /\ spi'.rxf = <<Checksum(c)>> /\ spi'.txf = <<>>
        /\ SameDriver(spi, spi') /\ IsChecksum(<<Checksum(c)>>) /\ Len(<<Checksum(c)>>) = 1
    <3>1. spi.txf = <<>> /\ spi.rxf = <<>>
      BY <2>6 DEF MFull, SFull, SBusy, Listening
    <3> QED
      BY <1>2, <1>4, <2>1, <3>1, ChecksumWord, OneWord, ClockedOut
  <2>8. Stage'
    <3>1. Size("M")' = Size("M") /\ \A k : Arrived("S", k)' <=> Arrived("S", k)
      BY <1>1, SameApps, SameBuffer DEF Side
    <3>2. SFull'
      BY <1>1, <1>7, <2>5, <2>6, <2>7, <3>1 DEF MFull, SFull, SBusy, Listening, SameDriver
    <3>3. MSent'
      <4>1. SameFrame(TxM, y)
        BY <1>5, <2>3 DEF Unmoved, SameFrame, SameFlags, SameSpan, SameWalk
      <4>2. Slice(TxM) /\ Full(TxM.frame) /\ TxM.xfer_size = RxS.xfer_size
            /\ TxM.cur_frame_id = RxS.cur_frame_id
        BY <2>6 DEF MFull, Together
      <4> QED
        BY <1>1, <1>3, <1>7, <2>3, <2>4, <2>5, <4>1, <4>2
           DEF MSent, SameFrame, SameFlags, SameSpan, SameWalk, Slice, Package, Full
    <3>4. RxS.xfer_size = Size("M") /\ writer["M"] = "idle" /\ RxS.state # "CRC"
      BY <2>6 DEF MFull, Together
    <3>5. MCrc'
      BY <1>1, <1>7, <2>6, <2>7, <3>1, <3>2, <3>3, <3>4 DEF MCrc, NoEdgeOut
    <3>6. MAlone'
      BY <1>1, <2>6, MAloneStill DEF MTurn
    <3> QED
      BY <3>5, <3>6 DEF Stage, MTurn
  <2>9. TypeOK'
    <3>1. Len(spi'.txf) <= FifoDepth /\ Len(spi'.rxf) <= FifoDepth
      BY <2>7, OneWord
    <3> QED
      BY <1>1, <1>2, <2>4, <2>5, <2>7, <3>1 DEF TypeOK
  <2>10. CrcTasks' /\ Counts' /\ Requests'
    BY <1>1, <1>3, <1>7, <2>4, <2>5, RequestsStay DEF IInv, CrcTasks, Counts
  <2> QED
    BY <2>8, <2>9, <2>10 DEF IInv
<1> QED
  BY <1>8, <1>9

-----------------------------------------------------------------------------
(* The checksum task of S.                                                 *)

\* S compares a checksum, and counts it.
LEMMA SlaveRxCrcDoneKeeps == ASSUME TakingTurns, IInv, SlaveRxCrcDone PROVE IInv'
<1> DEFINE q == IF RxS.frame.crc_valid THEN "rx_compared" ELSE "idle"
<1>1. /\ MayRun("S", "crc") /\ crc_task["S"].pc = "rx" /\ CrcTaskGoes("S", q)
      /\ xfer_type' = xfer_type /\ tx_mng' = tx_mng
      /\ sync_queue' = sync_queue /\ sync_task' = sync_task /\ spi' = spi
      /\ cs_last_frame_info' = cs_last_frame_info
      /\ rx_queue' = rx_queue /\ tx_queue' = tx_queue /\ rx_data_buffer' = rx_data_buffer
      /\ writer' = writer /\ reader' = reader /\ sent' = sent /\ got' = got
  BY DEF SlaveRxCrcDone, CrcTaskAt, apps, wire, memory, queues, RxS
<1>2. TypeOK /\ RxS \in ManagerType
  BY Managers DEF IInv
<1>3. xfer_type["S"] = "RX" /\ writer["S"] \in {"idle", "filled"} /\ Compared(RxS)
  BY <1>1 DEF IInv, CrcTasks, Counts
<1>4. /\ crc_task' \in [Side -> [pc : {"idle", "rx", "rx_compared", "rx_indicated", "tx",
                                        "tx_valid", "tx_sent", "tx_ready"},
                                  crc32 : Seq(Nat)]]
      /\ crc_task'["S"].pc \in {"idle", "rx_compared"} /\ crc_task'["M"] = crc_task["M"]
  <2>1. PICK p \in {"idle", "rx_compared"} : p = q
    OBVIOUS
  <2>2. CrcTaskGoes("S", p)
    BY <1>1, <2>1
  <2> HIDE DEF q
  <2> QED
    BY <1>2, <2>2, CrcTaskMoves DEF Side
<1>5. /\ rx_mng' \in [Side -> ManagerType] /\ RxM' = RxM /\ Unmoved(RxS, RxS')
      /\ Compared(RxS') /\ crc_unmatch' \in [Side -> BOOLEAN]
  <2>1. CASE ~ RxS.frame.crc_valid
    <3>1. rx_mng' = rx_mng /\ crc_unmatch' = crc_unmatch
      BY <2>1 DEF SlaveRxCrcDone, RxS
    <3>2. RxS' = RxS /\ RxM' = RxM
      BY <3>1, RxSame
    <3> QED
      BY <1>2, <1>3, <3>1, <3>2, UnmovedSelf DEF TypeOK
  <2>2. CASE RxS.frame.crc_valid
    <3>1. PICK m \in Nat : m = RxS.crc_done_cnt + 1
      BY <1>2 DEF ManagerType
    <3>2. PICK y : y = [RxS EXCEPT !.crc_done_cnt = m, !.frame.crc_valid = FALSE]
      OBVIOUS
    <3>3. [RxS EXCEPT !.crc_done_cnt = @ + 1, !.frame.crc_valid = FALSE] = y
      BY <1>2, <3>1, <3>2
    <3>4. /\ rx_mng' = [rx_mng EXCEPT !["S"] = y]
          /\ crc_unmatch' = [crc_unmatch EXCEPT !["S"] = @ \/ crc_task["S"].crc32 # RxS.frame.crc]
      BY <2>2, <3>3 DEF SlaveRxCrcDone, RxS
    <3>5. /\ y \in ManagerType /\ Unmoved(RxS, y) /\ ~ y.frame.crc_valid /\ y.crc_done_cnt = m
      BY <1>2, <3>2
         DEF ManagerType, FrameType, Unmoved, SameFrame, SameFlags, SameSpan, SameWalk
    <3>6. RxS' = y /\ RxM' = RxM /\ rx_mng' \in [Side -> ManagerType]
      BY <1>2, <3>4, <3>5, RxSSet
    <3>7. Compared(RxS')
      BY <1>3, <2>2, <3>1, <3>5, <3>6
         DEF Compared, Reads, Unmoved, SameFrame, SameFlags, SameSpan, SameWalk
    <3>8. crc_unmatch' \in [Side -> BOOLEAN]
      <4>1. PICK b \in BOOLEAN : b = (crc_unmatch["S"] \/ crc_task["S"].crc32 # RxS.frame.crc)
        OBVIOUS
      <4>2. crc_unmatch' = [crc_unmatch EXCEPT !["S"] = b]
        BY <3>4, <4>1
      <4> QED
        BY <1>2, <4>2 DEF TypeOK
    <3> QED
      BY <3>5, <3>6, <3>7, <3>8
  <2> QED
    BY <2>1, <2>2
<1>6. TxM' = TxM /\ TxS' = TxS
  BY <1>1, TxSame
<1>7. Stage'
  <2>1. Unmoving
    BY <1>1, <1>4, <1>5, <1>6, UnmovedSelf DEF Unmoving
  <2> QED
    BY <2>1, StageStays DEF IInv
<1>8. TypeOK'
  BY <1>1, <1>2, <1>4, <1>5 DEF TypeOK
<1>9. CrcTasks' /\ Counts' /\ Requests'
  BY <1>1, <1>3, <1>4, <1>5, <1>6, RequestsStay DEF IInv, CrcTasks, Counts
<1> QED
  BY <1>7, <1>8, <1>9 DEF IInv

\* S's checksum is stored and marked valid.
LEMMA SlaveTxCrcDoneKeeps == ASSUME TakingTurns, IInv, SlaveTxCrcDone PROVE IInv'
<1> DEFINE c == crc_task["S"].crc32
<1>1. /\ MayRun("S", "crc") /\ crc_task["S"].pc = "tx" /\ CrcTaskGoes("S", "tx_valid")
      /\ tx_mng' = [tx_mng EXCEPT !["S"] = [TxS EXCEPT !.frame.crc = c, !.frame.crc_valid = TRUE]]
      /\ xfer_type' = xfer_type /\ rx_mng' = rx_mng /\ crc_unmatch' = crc_unmatch
      /\ sync_queue' = sync_queue /\ sync_task' = sync_task /\ spi' = spi
      /\ cs_last_frame_info' = cs_last_frame_info
      /\ rx_queue' = rx_queue /\ tx_queue' = tx_queue /\ rx_data_buffer' = rx_data_buffer
      /\ writer' = writer /\ reader' = reader /\ sent' = sent /\ got' = got
  BY DEF SlaveTxCrcDone, CrcTaskAt, apps, wire, memory, queues, TxS
<1>2. TypeOK /\ TxS \in ManagerType
  BY Managers DEF IInv
<1>3. writer["S"] \in {"idle", "filled"}
  BY <1>1 DEF IInv, CrcTasks
<1>4. /\ crc_task' \in [Side -> [pc : {"idle", "rx", "rx_compared", "rx_indicated", "tx",
                                        "tx_valid", "tx_sent", "tx_ready"},
                                  crc32 : Seq(Nat)]]
      /\ crc_task'["S"].pc = "tx_valid" /\ crc_task'["M"] = crc_task["M"]
  BY <1>1, <1>2, CrcTaskMoves DEF Side
<1>5. c \in Seq(Nat)
  BY <1>2 DEF TypeOK, Side
<1> HIDE DEF c
<1>6. PICK y : y = [TxS EXCEPT !.frame.crc = c, !.frame.crc_valid = TRUE]
  OBVIOUS
<1>7. y \in ManagerType /\ Unmoved(TxS, y)
  BY <1>2, <1>5, <1>6
     DEF ManagerType, FrameType, Unmoved, SameFrame, SameFlags, SameSpan, SameWalk
<1>8. TxS' = y /\ TxM' = TxM /\ tx_mng' \in [Side -> ManagerType] /\ RxM' = RxM /\ RxS' = RxS
  BY <1>1, <1>2, <1>6, <1>7, TxSSet, RxSame
<1>9. Stage'
  <2>1. Unmoving
    BY <1>1, <1>4, <1>7, <1>8, UnmovedSelf DEF Unmoving
  <2> QED
    BY <2>1, StageStays DEF IInv
<1>10. TypeOK'
  BY <1>1, <1>2, <1>4, <1>8 DEF TypeOK
<1>11. CrcTasks' /\ Counts' /\ Requests'
  <2>1. TxS'.state = TxS.state
    BY <1>7, <1>8 DEF Unmoved
  <2> QED
    BY <1>1, <1>3, <1>4, <1>8, <2>1, RequestsStay DEF IInv, CrcTasks, Counts
<1> QED
  BY <1>9, <1>10, <1>11 DEF IInv

\* S lets a session go on that waited for its checksum.
LEMMA SlaveTxCrcValidKeeps == ASSUME TakingTurns, IInv, SlaveTxCrcValid PROVE IInv'
<1>1. /\ MayRun("S", "crc") /\ crc_task["S"].pc = "tx_valid" /\ CrcTaskGoes("S", "idle")
      /\ IF TxS.state = "CRC"
         THEN /\ tx_mng' = [tx_mng EXCEPT !["S"] = [TxS EXCEPT !.state = "BUSY"]]
              /\ spi' = [spi EXCEPT !.txint = TRUE]
         ELSE tx_mng' = tx_mng /\ spi' = spi
      /\ sync_queue' = sync_queue
      /\ xfer_type' = xfer_type /\ rx_mng' = rx_mng /\ crc_unmatch' = crc_unmatch
      /\ sync_task' = sync_task
      /\ cs_last_frame_info' = cs_last_frame_info
      /\ rx_queue' = rx_queue /\ tx_queue' = tx_queue /\ rx_data_buffer' = rx_data_buffer
      /\ writer' = writer /\ reader' = reader /\ sent' = sent /\ got' = got
  BY DEF SlaveTxCrcValid, CrcTaskAt, NoEdge, apps, wire, memory, queues, TxS
<1>2. TypeOK /\ TxS \in ManagerType /\ spi \in SpiType
  BY Managers DEF IInv
<1>3. writer["S"] \in {"idle", "filled"}
  BY <1>1 DEF IInv, CrcTasks
<1>4. /\ crc_task' \in [Side -> [pc : {"idle", "rx", "rx_compared", "rx_indicated", "tx",
                                        "tx_valid", "tx_sent", "tx_ready"},
                                  crc32 : Seq(Nat)]]
      /\ crc_task'["S"].pc = "idle" /\ crc_task'["M"] = crc_task["M"]
  BY <1>1, <1>2, CrcTaskMoves DEF Side
<1>5. RxM' = RxM /\ RxS' = RxS
  BY <1>1, RxSame
<1>6. ASSUME TxS.state # "CRC"
      PROVE  IInv'
  <2>1. tx_mng' = tx_mng /\ spi' = spi /\ TxM' = TxM /\ TxS' = TxS
    BY <1>1, <1>6, TxSame
  <2>2. Unmoving
    BY <1>1, <1>4, <1>5, <2>1, UnmovedSelf DEF Unmoving
  <2>3. Stage'
    BY <2>2, StageStays DEF IInv
  <2>4. TypeOK'
    BY <1>1, <1>2, <1>4, <2>1 DEF TypeOK
  <2>5. CrcTasks' /\ Counts' /\ Requests'
    BY <1>1, <1>3, <1>4, <1>5, <2>1, RequestsStay DEF IInv, CrcTasks, Counts
  <2> QED
    BY <2>3, <2>4, <2>5 DEF IInv
<1>7. ASSUME TxS.state = "CRC"
      PROVE  IInv'
  <2>1. /\ tx_mng' = [tx_mng EXCEPT !["S"] = [TxS EXCEPT !.state = "BUSY"]]
        /\ spi' = [spi EXCEPT !.txint = TRUE]
    BY <1>1, <1>7
  <2>2. PICK y : y = [TxS EXCEPT !.state = "BUSY"]
    OBVIOUS
  <2>3. y \in ManagerType /\ SameFrame(TxS, y) /\ y.state = "BUSY"
    BY <1>2, <2>2 DEF ManagerType, SameFrame, SameFlags, SameSpan, SameWalk
  <2>4. TxS' = y /\ TxM' = TxM /\ tx_mng' \in [Side -> ManagerType]
    BY <1>2, <2>1, <2>2, <2>3, TxSSet
  <2>5. STurn /\ SDone
    <3>1. xfer_type["S"] = "TX"
      BY <1>7 DEF IInv, CrcTasks
    <3> QED
      BY <1>7, <3>1
         DEF IInv, Stage, MTurn, STurn, Pause, MFilled, MClaimed, MHeader, MPart, MWords, MFull,
             MCrc, MEdge, MFrame, MLast, MDelivered, SFilled, SClaimed, SHeader, SPart, SWords,
             SDone, SCrc, SRead, SFrame, SDelivered, SFull, SNext, SBusy, SSends, SEnds,
             SNextFrame, SGoesOn, SThrough
  <2>6. /\ spi' \in SpiType /\ spi'.txf = spi.txf /\ spi'.rxf = spi.rxf
        /\ spi'.rxint = spi.rxint /\ spi'.rxon = spi.rxon /\ spi'.thres = spi.thres
        /\ spi'.txdev = spi.txdev
    BY <1>2, <2>1 DEF SpiType
  <2>7. Stage'
    <3>1. Size("S")' = Size("S") /\ \A k : Arrived("M", k)' <=> Arrived("M", k)
      BY <1>1, SameApps, SameBuffer DEF Side
    <3>2. Together(TxS', RxM') /\ Full(TxS'.frame) /\ TxS'.xfer_size = Size("S")
      BY <1>5, <2>3, <2>4, <2>5
         DEF SDone, Together, Slice, Package, Full, SameFrame, SameFlags, SameSpan, SameWalk
    <3>3. SDone'
      BY <1>1, <1>5, <2>3, <2>4, <2>5, <2>6, <3>1, <3>2 DEF SDone, MBusy, NoEdgeOut
    <3>4. SAlone'
      BY <1>1, <2>5, SAloneStill DEF STurn
    <3> QED
      BY <3>3, <3>4 DEF Stage, STurn
  <2>8. TypeOK'
    BY <1>1, <1>2, <1>4, <2>4, <2>6 DEF TypeOK
  <2>9. CrcTasks' /\ Counts' /\ Requests'
    BY <1>1, <1>3, <1>4, <1>5, <2>3, <2>4, RequestsStay DEF IInv, CrcTasks, Counts
  <2> QED
    BY <2>7, <2>8, <2>9 DEF IInv
<1> QED
  BY <1>6, <1>7

\* While S receives, M sends or has sent.
LEMMA SlaveReceives ==
    ASSUME IInv, xfer_type["S"] = "RX"
    PROVE  MTurn /\ (MPart \/ MWords \/ MFull \/ MCrc \/ MEdge \/ MFrame \/ MLast)
BY DEF IInv, Stage, MTurn, STurn, Pause, MFilled, MClaimed, MHeader, MPart, MWords, MFull, MCrc,
       MEdge, MFrame, MLast, MDelivered, SFilled, SClaimed, SHeader, SPart, SWords, SDone, SCrc,
       SRead, SFrame, SDelivered, SNextFrame, SEnds, SGoesOn, SThrough, SSends

\* S lets a blocked session go on, or indicates a package that is complete.
LEMMA SlaveRxComparedKeeps == ASSUME TakingTurns, IInv, SlaveRxCompared PROVE IInv'
<1>1. /\ MayRun("S", "crc") /\ crc_task["S"].pc = "rx_compared"
      /\ xfer_type' = xfer_type /\ tx_mng' = tx_mng /\ crc_unmatch' = crc_unmatch
      /\ sync_task' = sync_task /\ cs_last_frame_info' = cs_last_frame_info
      /\ tx_queue' = tx_queue /\ rx_data_buffer' = rx_data_buffer
      /\ writer' = writer /\ reader' = reader /\ sent' = sent /\ got' = got
  BY DEF SlaveRxCompared, CrcTaskAt, apps, memory
<1>2. TypeOK /\ RxS \in ManagerType /\ spi \in SpiType
  BY Managers DEF IInv
<1>3. xfer_type["S"] = "RX" /\ writer["S"] \in {"idle", "filled"} /\ Compared(RxS)
  BY <1>1 DEF IInv, CrcTasks, Counts
<1>4. MTurn /\ (MPart \/ MWords \/ MFull \/ MCrc \/ MEdge \/ MFrame \/ MLast)
  BY <1>3, SlaveReceives
<1>5. ASSUME NEW q \in {"idle", "rx_indicated"}, CrcTaskGoes("S", q)
      PROVE  /\ crc_task' \in [Side -> [pc : {"idle", "rx", "rx_compared", "rx_indicated", "tx",
                                               "tx_valid", "tx_sent", "tx_ready"},
                                         crc32 : Seq(Nat)]]
             /\ crc_task'["S"].pc = q /\ crc_task'["M"] = crc_task["M"]
  BY <1>2, <1>5, CrcTaskMoves DEF Side
<1>6. TxM' = TxM /\ TxS' = TxS
  BY <1>1, TxSame
<1>7. ASSUME RxS.state = "CRC", rx_mng' = [rx_mng EXCEPT !["S"] = [RxS EXCEPT !.state = "BUSY"]],
             spi' = [spi EXCEPT !.rxint = TRUE], sync_queue' = sync_queue,
             CrcTaskGoes("S", "idle"), rx_queue' = rx_queue
      PROVE  IInv'
  <2>1. PICK y : y = [RxS EXCEPT !.state = "BUSY"]
    OBVIOUS
  <2>2. /\ y \in ManagerType /\ SameFrame(RxS, y) /\ y.state = "BUSY"
        /\ y.frame.crc_valid = RxS.frame.crc_valid /\ y.crc_done_cnt = RxS.crc_done_cnt
    BY <1>2, <2>1 DEF ManagerType, SameFrame, SameFlags, SameSpan, SameWalk
  <2>3. RxS' = y /\ RxM' = RxM /\ rx_mng' \in [Side -> ManagerType]
    BY <1>2, <1>7, <2>1, <2>2, RxSSet
  <2>4. /\ crc_task' \in [Side -> [pc : {"idle", "rx", "rx_compared", "rx_indicated", "tx",
                                          "tx_valid", "tx_sent", "tx_ready"},
                                    crc32 : Seq(Nat)]]
        /\ crc_task'["S"].pc = "idle" /\ crc_task'["M"] = crc_task["M"]
    BY <1>5, <1>7
  <2>5. MCrc
    BY <1>4, <1>7 DEF MPart, MWords, MFull, MCrc, MEdge, MFrame, MLast, SNext
  <2>6. /\ spi' \in SpiType /\ spi'.txf = spi.txf /\ spi'.rxf = spi.rxf
        /\ spi'.txint = spi.txint /\ spi'.rxon = spi.rxon /\ spi'.thres = spi.thres
        /\ spi'.rxdev = spi.rxdev /\ spi'.txon = spi.txon
    BY <1>2, <1>7 DEF SpiType
  <2>7. Stage'
    <3>1. Size("M")' = Size("M") /\ \A k : Arrived("S", k)' <=> Arrived("S", k)
      BY <1>1, SameApps, SameBuffer DEF Side
    <3>2. /\ Slice(RxS) => Slice(RxS')
          /\ Full(RxS'.frame) <=> Full(RxS.frame)
          /\ IsLastFrame(RxS') <=> IsLastFrame(RxS)
          /\ OneAhead(TxM, RxS) => OneAhead(TxM, RxS')
          /\ RxS'.xfer_size = RxS.xfer_size /\ RxS'.cur_frame_id = RxS.cur_frame_id
          /\ RxS'.frame.payload = RxS.frame.payload /\ RxS'.frame.len = RxS.frame.len
      BY <2>2, <2>3
         DEF SameFrame, SameFlags, SameSpan, SameWalk, Slice, Package, Full, IsLastFrame, OneAhead
    <3>3. SFull'
      BY <1>1, <1>7, <2>2, <2>3, <2>4, <2>5, <2>6, <3>1, <3>2 DEF MCrc, SFull, SBusy, Listening
    <3>4. /\ MSent => MSent'
          /\ MNext => MNext'
          /\ MOver => MOver'
      <4>1. /\ MSent => MSent'
            /\ MOver => MOver'
        BY <1>1, <1>6, <2>4, <3>2 DEF MSent, MOver
      <4>2. MNext => MNext'
        BY <1>1, <1>6, <2>4, <3>1, <3>2 DEF MNext, MSends
      <4> QED
        BY <4>1, <4>2
    <3>5. MCrc'
      BY <1>1, <1>7, <2>2, <2>3, <2>5, <2>6, <3>1, <3>2, <3>3, <3>4 DEF MCrc, NoEdgeOut
    <3>6. MAlone'
      BY <1>1, <1>4, <1>7, MAloneStill DEF MTurn
    <3> QED
      BY <3>5, <3>6 DEF Stage, MTurn
  <2>8. TypeOK'
    BY <1>1, <1>2, <1>7, <2>3, <2>4, <2>6 DEF TypeOK
  <2>9. CrcTasks' /\ Counts' /\ Requests'
    <3>1. Compared(RxS')
      BY <1>3, <2>2, <2>3 DEF Compared, Reads, SameFrame, SameFlags, SameSpan, SameWalk
    <3> QED
      BY <1>1, <1>3, <1>6, <2>3, <2>4, <3>1, RequestsStay DEF IInv, CrcTasks, Counts
  <2> QED
    BY <2>7, <2>8, <2>9 DEF IInv
<1>8. ASSUME rx_mng' = rx_mng, spi' = spi, sync_queue' = sync_queue,
             CrcTaskGoes("S", "idle"), rx_queue' = rx_queue
      PROVE  IInv'
  <2>1. /\ crc_task' \in [Side -> [pc : {"idle", "rx", "rx_compared", "rx_indicated", "tx",
                                          "tx_valid", "tx_sent", "tx_ready"},
                                    crc32 : Seq(Nat)]]
        /\ crc_task'["S"].pc = "idle" /\ crc_task'["M"] = crc_task["M"]
    BY <1>5, <1>8
  <2>2. Unmoving
    BY <1>1, <1>8, <2>1, UnmovedSame DEF Unmoving
  <2>3. Stage'
    BY <2>2, StageStays DEF IInv
  <2>4. TypeOK'
    BY <1>1, <1>2, <1>8, <2>1 DEF TypeOK
  <2>5. CrcTasks' /\ Counts' /\ Requests'
    BY <1>1, <1>3, <1>8, <2>1, UnmovedSame, RequestsStay DEF IInv, CrcTasks, Counts
  <2> QED
    BY <2>3, <2>4, <2>5 DEF IInv
<1>9. ASSUME RxS.state # "CRC", RxS.crc_done_cnt >= RxS.nof_frame, rx_indication("S"),
             rx_mng' = [rx_mng EXCEPT !["S"] =
                           [RxS EXCEPT !.state = IF Len(rx_queue["S"]) < QueueLen
                                                 THEN "DONE" ELSE RxS.state]],
             CrcTaskGoes("S", "rx_indicated"), spi' = spi, sync_queue' = sync_queue
      PROVE  IInv'
  <2>1. /\ RxS.cur_frame_id \in Nat /\ RxS.nof_frame \in Nat /\ RxS.crc_done_cnt \in Nat
        /\ Package(RxS)
    BY <1>2, <1>4
       DEF ManagerType, MPart, MWords, MFull, MCrc, MEdge, MFrame, MLast, SFull, SNext, Together,
           Slice
  <2>2. MLast
    <3>1. RxS.crc_done_cnt <= Reads(RxS)
      BY <1>3, <2>1 DEF Compared, Reads
    <3>2. RxS.cur_frame_id < RxS.nof_frame
      BY <2>1 DEF Package
    <3>3. Reads(RxS) # RxS.cur_frame_id /\ IsLastFrame(RxS)
      BY <1>9, <2>1, <3>1, <3>2 DEF Reads, IsLastFrame
    <3>4. ~ (RxS.frame.header_done /\ ~ RxS.frame.crc_done)
      BY <2>1, <3>3 DEF Reads
    <3> QED
      BY <1>4, <3>3, <3>4
         DEF MPart, MWords, MFull, MCrc, MEdge, MFrame, SFull, SNext, Parts, Full
  <2>3. rx_queue["S"] = <<>> /\ RxS.xfer_size = Size("M") /\ RxS.xfer_size \in Nat
        /\ Len(rx_queue["S"]) < QueueLen
    BY <1>1, <1>2, <2>2, CoreAssumption DEF MLast, ManagerType
  <2>4. PICK y : y = [RxS EXCEPT !.state = "DONE"]
    OBVIOUS
  <2>5. /\ y \in ManagerType /\ SameFrame(RxS, y) /\ y.state = "DONE"
        /\ y.frame.crc_valid = RxS.frame.crc_valid /\ y.crc_done_cnt = RxS.crc_done_cnt
    BY <1>2, <2>4 DEF ManagerType, SameFrame, SameFlags, SameSpan, SameWalk
  <2>6. RxS' = y /\ RxM' = RxM /\ rx_mng' \in [Side -> ManagerType]
    <3>1. rx_mng' = [rx_mng EXCEPT !["S"] = y]
      BY <1>9, <2>3, <2>4
    <3> QED
      BY <1>2, <2>5, <3>1, RxSSet
  <2>7. /\ rx_queue' \in [Side -> Seq(Nat)] /\ rx_queue'["S"] = <<Size("M")>>
        /\ rx_queue'["M"] = rx_queue["M"]
    <3>1. rx_queue' = [rx_queue EXCEPT !["S"] = <<RxS.xfer_size>>]
      BY <1>2, <1>9, <2>3 DEF rx_indication, TypeOK, Side, RxS
    <3> QED
      BY <1>2, <2>3, <3>1 DEF TypeOK, Side
  <2>8. /\ crc_task' \in [Side -> [pc : {"idle", "rx", "rx_compared", "rx_indicated", "tx",
                                          "tx_valid", "tx_sent", "tx_ready"},
                                    crc32 : Seq(Nat)]]
        /\ crc_task'["S"].pc = "rx_indicated" /\ crc_task'["M"] = crc_task["M"]
    BY <1>5, <1>9
  <2>9. Stage'
    <3>1. Size("M")' = Size("M") /\ \A k : Arrived("S", k)' <=> Arrived("S", k)
      BY <1>1, SameApps, SameBuffer DEF Side
    <3>2. /\ Slice(RxS) => Slice(RxS')
          /\ Over(RxS'.frame) <=> Over(RxS.frame)
          /\ IsLastFrame(RxS') <=> IsLastFrame(RxS)
          /\ RxS'.xfer_size = RxS.xfer_size
      BY <2>5, <2>6
         DEF SameFrame, SameFlags, SameSpan, SameWalk, Slice, Package, Over, IsLastFrame
    <3>3. /\ MThrough' <=> MThrough
          /\ AtRest' <=> AtRest
      BY <1>1, <1>6, <1>9, <2>8 DEF MThrough, AtRest, Listening, NoEdgeOut
    <3>4. MLast'
      BY <1>1, <2>2, <2>5, <2>6, <2>7, <2>8, <3>1, <3>2, <3>3 DEF MLast
    <3>5. MAlone'
      BY <1>1, <1>4, <2>7, MAloneStill DEF MTurn
    <3> QED
      BY <3>4, <3>5 DEF Stage, MTurn
  <2>10. TypeOK'
    BY <1>1, <1>2, <1>9, <2>6, <2>7, <2>8 DEF TypeOK
  <2>11. CrcTasks' /\ Counts' /\ Requests'
    <3>1. Compared(RxS')
      BY <1>3, <2>5, <2>6 DEF Compared, Reads, SameFrame, SameFlags, SameSpan, SameWalk
    <3> QED
      BY <1>1, <1>3, <1>6, <2>6, <2>8, <3>1, RequestsStay DEF IInv, CrcTasks, Counts
  <2> QED
    BY <2>9, <2>10, <2>11 DEF IInv
<1>10. [RxS EXCEPT !.state = IF Len(rx_queue["S"]) < QueueLen THEN "DONE" ELSE @] =
          [RxS EXCEPT !.state = IF Len(rx_queue["S"]) < QueueLen THEN "DONE" ELSE RxS.state]
  BY <1>2
<1> QED
  BY <1>7, <1>8, <1>9, <1>10 DEF SlaveRxCompared, NoEdge, wire, RxS

\* S closes the session of a package it has indicated.
LEMMA SlaveRxPackageDoneKeeps == ASSUME TakingTurns, IInv, SlaveRxPackageDone PROVE IInv'
<1>1. /\ MayRun("S", "crc") /\ crc_task["S"].pc = "rx_indicated" /\ CrcTaskGoes("S", "idle")
      /\ rx_mng' = [rx_mng EXCEPT !["S"] = [RxS EXCEPT !.state = "IDLE"]]
      /\ xfer_type' = [xfer_type EXCEPT !["S"] = "INVALID"]
      /\ spi' = [spi EXCEPT !.rxon = FALSE] /\ sync_queue' = sync_queue
      /\ tx_mng' = tx_mng /\ crc_unmatch' = crc_unmatch /\ sync_task' = sync_task
      /\ cs_last_frame_info' = cs_last_frame_info
      /\ rx_queue' = rx_queue /\ tx_queue' = tx_queue /\ rx_data_buffer' = rx_data_buffer
      /\ writer' = writer /\ reader' = reader /\ sent' = sent /\ got' = got
  BY DEF SlaveRxPackageDone, CrcTaskAt, NoEdge, apps, memory, queues, RxS
<1>2. TypeOK /\ RxS \in ManagerType /\ spi \in SpiType
  BY Managers DEF IInv
<1>3. xfer_type["S"] = "RX" /\ writer["S"] \in {"idle", "filled"}
  BY <1>1 DEF IInv, CrcTasks
<1>4. MTurn /\ MLast /\ rx_queue["S"] = <<Size("M")>>
  BY <1>1, <1>3, SlaveReceives
     DEF MPart, MWords, MFull, MCrc, MEdge, MFrame, MLast, SFull, SNext, SBusy
<1>5. /\ crc_task' \in [Side -> [pc : {"idle", "rx", "rx_compared", "rx_indicated", "tx",
                                        "tx_valid", "tx_sent", "tx_ready"},
                                  crc32 : Seq(Nat)]]
      /\ crc_task'["S"].pc = "idle" /\ crc_task'["M"] = crc_task["M"]
  BY <1>1, <1>2, CrcTaskMoves DEF Side
<1>6. /\ xfer_type' \in [Side -> {"INVALID", "RX", "TX", "SLV_TX_DONE"}]
      /\ xfer_type'["S"] = "INVALID" /\ xfer_type'["M"] = xfer_type["M"]
  BY <1>1, <1>2 DEF TypeOK, Side
<1>7. PICK y : y = [RxS EXCEPT !.state = "IDLE"]
  OBVIOUS
<1>8. y \in ManagerType
  BY <1>2, <1>7 DEF ManagerType
<1>9. /\ RxS' = y /\ RxM' = RxM /\ rx_mng' \in [Side -> ManagerType]
      /\ TxM' = TxM /\ TxS' = TxS
  BY <1>1, <1>2, <1>7, <1>8, RxSSet, TxSame
<1>10. spi' = spi
  <2>1. ~ spi.rxon
    BY <1>4 DEF MLast, AtRest
  <2> QED
    BY <1>1, <1>2, <2>1 DEF SpiType
<1>11. Stage'
  <2>1. Size("M")' = Size("M") /\ \A k : Arrived("S", k)' <=> Arrived("S", k)
    BY <1>1, SameApps, SameBuffer DEF Side
  <2>2. /\ MThrough' <=> MThrough
        /\ AtRest' <=> AtRest
    BY <1>1, <1>5, <1>6, <1>9, <1>10 DEF MThrough, AtRest, Listening, NoEdgeOut
  <2>3. MDelivered'
    BY <1>1, <1>4, <1>6, <2>1, <2>2 DEF MLast, MDelivered
  <2>4. MAlone'
    BY <1>1, <1>4, MAloneStill DEF MTurn
  <2> QED
    BY <2>3, <2>4 DEF Stage, MTurn
<1>12. TypeOK'
  BY <1>1, <1>2, <1>5, <1>6, <1>9, <1>10 DEF TypeOK
<1>13. CrcTasks'
  <2>1. TxS.state # "CRC"
    BY <1>3 DEF IInv, CrcTasks
  <2> QED
    BY <1>1, <1>3, <1>5, <1>6, <1>9, <2>1 DEF IInv, CrcTasks
<1>14. Counts' /\ Requests'
  BY <1>1, <1>6, <1>9, RequestsStay DEF IInv, Counts
<1> QED
  BY <1>11, <1>12, <1>13, <1>14 DEF IInv

-----------------------------------------------------------------------------
(* The applications.                                                       *)

\* The lengths of the packages fit the buffer.
LEMMA SizeFits ==
    ASSUME TypeOK, NEW s \in Side, sent[s] # <<>>
    PROVE  Size(s) \in Nat /\ 0 < Size(s) /\ Size(s) <= BufferSize /\ Last(sent[s]) = Size(s)
<1>1. sent[s] \in Seq(MasterLens \cup SlaveLens)
  BY DEF TypeOK
<1>2. Size(s) \in MasterLens \cup SlaveLens
  BY <1>1 DEF Size
<1>3. Size(s) \in 1 .. BufferSize
  BY <1>2, LinkAssumption
<1>4. Last(sent[s]) = Size(s)
  BY DEF Last, Size
<1> QED
  BY <1>3, <1>4, LenAssumption

\* An application that may write finds the link at rest.
LEMMA QuietAtRest ==
    ASSUME TypeOK, Stage, Quiet
    PROVE  Pause /\ AtRest
<1>1. \A s \in Side : Len(got[Peer(s)]) \in Nat
  BY DEF TypeOK, Peer, Side
<1>2. Pause
  <2>1. "M" \in Side /\ "S" \in Side
    BY DEF Side
  <2>2. Len(got[Peer("M")]) # Len(got[Peer("M")]) + 1 /\ Len(got[Peer("S")]) # Len(got[Peer("S")]) + 1
    BY <1>1, <2>1
  <2> QED
    BY <2>1, <2>2 DEF Quiet, Stage, MTurn, STurn, MAlone, SAlone, Open
<1>3. AtRest
  BY <1>2 DEF Quiet, Side, Pause, SThrough, SEnds, AtRest, Listening, NoEdgeOut
<1> QED
  BY <1>2, <1>3

\* An application fills a package, when everything before it has been read.
LEMMA WriteBufReqKeeps ==
    ASSUME TakingTurns, IInv, NEW s \in Side, cascade_write_buf_req(s)
    PROVE  IInv'
<1>1. /\ MayWrite(s) /\ writer[s] = "idle"
      /\ sent[s] # <<>> => tx_queue[s] > 0
      /\ tx_queue' = [tx_queue EXCEPT ![s] = IF sent[s] = <<>> THEN @ ELSE @ - 1]
      /\ writer' = [writer EXCEPT ![s] = "filled"]
      /\ xfer_type' = xfer_type /\ rx_mng' = rx_mng /\ tx_mng' = tx_mng
      /\ crc_unmatch' = crc_unmatch /\ cs_last_frame_info' = cs_last_frame_info
      /\ rx_data_buffer' = rx_data_buffer /\ rx_queue' = rx_queue /\ crc_task' = crc_task
      /\ spi' = spi /\ sync_queue' = sync_queue /\ sync_task' = sync_task
      /\ reader' = reader /\ got' = got
  BY DEF cascade_write_buf_req, proto, memory, wire
<1>2. PICK len \in Lens(s) : sent' = [sent EXCEPT ![s] = Append(@, len)]
  BY DEF cascade_write_buf_req
<1>3. TypeOK
  BY DEF IInv
<1>4. Quiet /\ Pause /\ AtRest
  BY <1>1, <1>3, QuietAtRest DEF MayWrite, TakingTurns, IInv
<1>5. len \in MasterLens \cup SlaveLens
  BY <1>2 DEF Lens
<1>6. /\ sent' \in [Side -> Seq(MasterLens \cup SlaveLens)]
      /\ Len(sent'[s]) = Len(sent[s]) + 1 /\ sent'[s] # <<>>
      /\ \A r \in Side : r # s => sent'[r] = sent[r]
  <2>1. sent[s] \in Seq(MasterLens \cup SlaveLens)
    BY <1>3 DEF TypeOK
  <2>2. PICK t : t = Append(sent[s], len)
    OBVIOUS
  <2>3. t \in Seq(MasterLens \cup SlaveLens) /\ Len(t) = Len(sent[s]) + 1 /\ t # <<>>
    BY <1>5, <2>1, <2>2
  <2>4. sent' = [sent EXCEPT ![s] = t]
    BY <1>2, <2>2
  <2> QED
    BY <1>3, <2>3, <2>4 DEF TypeOK
<1>7. Stage'
  <2>1. /\ AtRest' /\ xfer_type'["M"] = "INVALID" /\ xfer_type'["S"] = "INVALID"
        /\ rx_queue'["M"] = <<>> /\ rx_queue'["S"] = <<>>
        /\ reader'["M"] = "idle" /\ reader'["S"] = "idle"
    BY <1>1, <1>4 DEF AtRest, Listening, NoEdgeOut, Quiet, Side, Pause
  <2>2. CASE s = "M"
    <3>1. MFilled'
      BY <1>1, <1>3, <2>1, <2>2 DEF MFilled, TypeOK, Side
    <3>2. writer'["S"] = "idle"
      BY <1>1, <1>3, <1>4, <2>2 DEF TypeOK, Side, Pause
    <3>3. Open("M")' /\ Even("S")'
      BY <1>1, <1>4, <1>6, <2>2 DEF Open, Even, Pause, Peer, Side
    <3> QED
      BY <2>1, <3>1, <3>2, <3>3 DEF MAlone, MTurn, Stage
  <2>3. CASE s = "S"
    <3>1. SFilled'
      BY <1>1, <1>3, <2>1, <2>3 DEF SFilled, TypeOK, Side
    <3>2. writer'["M"] = "idle"
      BY <1>1, <1>3, <1>4, <2>3 DEF TypeOK, Side, Pause
    <3>3. Open("S")' /\ Even("M")'
      BY <1>1, <1>4, <1>6, <2>3 DEF Open, Even, Pause, Peer, Side
    <3> QED
      BY <2>1, <3>1, <3>2, <3>3 DEF SAlone, STurn, Stage
  <2> QED
    BY <2>2, <2>3 DEF Side
<1>8. TypeOK'
  <2>1. tx_queue' \in [Side -> 0 .. QueueLen]
    BY <1>1, <1>3, CoreAssumption DEF TypeOK
  <2>2. writer' \in [Side -> {"idle", "filled", "claimed", "request"}]
    BY <1>1, <1>3 DEF TypeOK
  <2> QED
    BY <1>1, <1>3, <1>6, <2>1, <2>2 DEF TypeOK
<1>9. CrcTasks'
  <2>1. \A r \in Side : writer[r] \in {"idle", "filled"} => writer'[r] \in {"idle", "filled"}
    BY <1>1, <1>3 DEF TypeOK
  <2> QED
    BY <1>1, <2>1, TxSame DEF IInv, CrcTasks, Side
<1>10. Counts'
  BY <1>1, RxSame DEF IInv, Counts
<1>11. Requests'
  BY <1>1, <1>6 DEF IInv, Requests
<1> QED
  BY <1>7, <1>8, <1>9, <1>10, <1>11 DEF IInv

\* An application claims the link.
LEMMA WriteKeeps ==
    ASSUME TakingTurns, IInv, NEW s \in Side, cascade_write(s)
    PROVE  IInv'
<1>1. /\ MayRun(s, "writer") /\ writer[s] = "filled"
      /\ xfer_type' = [xfer_type EXCEPT ![s] = "TX"]
      /\ tx_mng' = [tx_mng EXCEPT ![s].state = "BUSY"]
      /\ spi' = IF s = "S" THEN [spi EXCEPT !.rxdev = DevBuffer(0, 0)] ELSE spi
      /\ writer' = [writer EXCEPT ![s] = "claimed"]
      /\ rx_mng' = rx_mng
      /\ crc_unmatch' = crc_unmatch /\ cs_last_frame_info' = cs_last_frame_info
      /\ rx_data_buffer' = rx_data_buffer /\ rx_queue' = rx_queue /\ tx_queue' = tx_queue
      /\ crc_task' = crc_task /\ sync_queue' = sync_queue /\ sync_task' = sync_task
      /\ reader' = reader /\ sent' = sent /\ got' = got
  BY DEF cascade_write, memory, queues
<1>2. TypeOK /\ spi \in SpiType /\ tx_mng[s] \in ManagerType
  BY Managers DEF IInv, TypeOK
<1>3. crc_task[s].pc = "idle" /\ (s = "M" => sync_task = "wait")
  BY <1>1 DEF MayRun, TasksInside, TakingTurns
<1>4. PICK y : y = [tx_mng[s] EXCEPT !.state = "BUSY"]
  OBVIOUS
<1>5. y \in ManagerType /\ y.state = "BUSY"
  BY <1>2, <1>4 DEF ManagerType
<1>6. /\ tx_mng' \in [Side -> ManagerType] /\ tx_mng'[s] = y
      /\ \A r \in Side : r # s => tx_mng'[r] = tx_mng[r]
  <2>1. tx_mng' = [tx_mng EXCEPT ![s] = y]
    BY <1>1, <1>4
  <2> QED
    BY <1>2, <1>5, <2>1 DEF TypeOK
<1>7. /\ xfer_type' \in [Side -> {"INVALID", "RX", "TX", "SLV_TX_DONE"}] /\ xfer_type'[s] = "TX"
      /\ \A r \in Side : r # s => xfer_type'[r] = xfer_type[r]
  BY <1>1, <1>2 DEF TypeOK
<1>8. /\ writer' \in [Side -> {"idle", "filled", "claimed", "request"}]
      /\ writer'[s] = "claimed"
      /\ \A r \in Side : r # s => writer'[r] = writer[r]
  BY <1>1, <1>2 DEF TypeOK
<1>9. /\ spi' \in SpiType /\ spi'.txf = spi.txf /\ spi'.rxf = spi.rxf
      /\ spi'.rxint = spi.rxint /\ spi'.txint = spi.txint /\ spi'.rxon = spi.rxon
      /\ spi'.txon = spi.txon /\ spi'.thres = spi.thres
  BY <1>1, <1>2 DEF SpiType, DevBuffer, DevBufferType
<1>10. Stage'
  <2>1. AtRest' <=> AtRest
    BY <1>1, <1>9 DEF AtRest, Listening, NoEdgeOut
  <2>2. CASE s = "M"
    <3>1. MTurn /\ MFilled
      BY <1>1, <2>2
         DEF IInv, Stage, MTurn, STurn, Pause, SAlone, MFilled, MClaimed, MHeader, MPart, MWords,
             MFull, MCrc, MEdge, MFrame, MLast, MDelivered
    <3>2. MClaimed'
      BY <1>1, <1>5, <1>6, <1>7, <1>8, <2>1, <2>2, <3>1 DEF MFilled, MClaimed, TxM, Side
    <3>3. MAlone'
      BY <1>1, <1>8, <2>2, <3>1, MAloneStill DEF MTurn, Side
    <3> QED
      BY <3>2, <3>3 DEF Stage, MTurn
  <2>3. CASE s = "S"
    <3>1. STurn /\ SFilled
      BY <1>1, <2>3
         DEF IInv, Stage, MTurn, STurn, Pause, MAlone, SFilled, SClaimed, SHeader, SPart, SWords,
             SDone, SCrc, SRead, SFrame, SDelivered
    <3>2. SClaimed'
      BY <1>1, <1>5, <1>6, <1>7, <1>8, <2>1, <2>3, <3>1 DEF SFilled, SClaimed, TxS, Side
    <3>3. SAlone'
      BY <1>1, <1>8, <2>3, <3>1, SAloneStill DEF STurn, Side
    <3> QED
      BY <3>2, <3>3 DEF Stage, STurn
  <2> QED
    BY <2>2, <2>3 DEF Side
<1>11. TypeOK'
  BY <1>1, <1>2, <1>6, <1>7, <1>8, <1>9 DEF TypeOK
<1>12. CrcTasks'
  <2>1. CASE s = "M"
    <3>1. TxS' = TxS
      BY <1>6, <2>1 DEF TxS, Side
    <3> QED
      BY <1>1, <1>3, <1>7, <1>8, <2>1, <3>1 DEF IInv, CrcTasks, Side
  <2>2. CASE s = "S"
    BY <1>1, <1>3, <1>7, <1>8, <2>2 DEF IInv, CrcTasks, Side
  <2> QED
    BY <2>1, <2>2 DEF Side
<1>13. Counts' /\ Requests'
  <2>1. \A r \in Side : xfer_type'[r] = "RX" => xfer_type[r] = "RX"
    BY <1>7
  <2> QED
    BY <1>1, <2>1, RxSame, RequestsStay DEF IInv, Counts, Side
<1> QED
  BY <1>10, <1>11, <1>12, <1>13 DEF IInv

\* In the application's task: no other task of the chip is inside a callback.
LEMMA WriterAlone ==
    ASSUME TakingTurns, NEW s \in Side, MayRun(s, "writer")
    PROVE  crc_task[s].pc = "idle" /\ (s = "M" => sync_task = "wait")
BY DEF MayRun, TasksInside, TakingTurns

\* M clocks the header of a package into S's FIFO.
LEMMA MasterWriteKeeps == ASSUME TakingTurns, IInv, MasterWrite PROVE IInv'
<1> DEFINE x == cascade_tx_first_frame_init(cascade_package_init(TxM, Last(sent["M"])))
<1>1. /\ MayRun("M", "writer") /\ writer["M"] = "claimed"
      /\ tx_mng' = [tx_mng EXCEPT !["M"] = [x EXCEPT !.frame.header_done = TRUE]]
      /\ spi' = Clocked(<<Header(x.frame.header)>>)
      /\ writer' = [writer EXCEPT !["M"] = "request"]
      /\ xfer_type' = xfer_type /\ rx_mng' = rx_mng
      /\ crc_unmatch' = crc_unmatch /\ cs_last_frame_info' = cs_last_frame_info
      /\ rx_data_buffer' = rx_data_buffer /\ rx_queue' = rx_queue /\ tx_queue' = tx_queue
      /\ crc_task' = crc_task /\ sync_queue' = sync_queue /\ sync_task' = sync_task
      /\ reader' = reader /\ sent' = sent /\ got' = got
  BY DEF MasterWrite, memory, queues, TxM
<1>2. TypeOK /\ spi \in SpiType /\ TxM \in ManagerType
  BY Managers DEF IInv
<1>3. crc_task["M"].pc = "idle" /\ sync_task = "wait"
  BY <1>1, WriterAlone DEF Side
<1>4. MTurn /\ MClaimed
  BY <1>1
     DEF IInv, Stage, MTurn, STurn, Pause, SAlone, MFilled, MClaimed, MHeader, MPart, MWords,
         MFull, MCrc, MEdge, MFrame, MLast, MDelivered
<1>5. sent["M"] # <<>>
  BY <1>2, <1>4 DEF MTurn, MAlone, Open, Peer, TypeOK, Side
<1>6. /\ Size("M") \in Nat /\ 0 < Size("M") /\ Size("M") <= BufferSize
      /\ Last(sent["M"]) = Size("M")
  BY <1>2, <1>5, SizeFits DEF Side
<1>7. /\ x \in ManagerType /\ Slice(x) /\ Fresh(x.frame)
      /\ x.xfer_size = Size("M") /\ x.cur_frame_id = 0 /\ x.frame.header = Size("M")
      /\ x.frame.handled = 0 /\ x.state = TxM.state
  BY <1>2, <1>6, TxFirst
<1> HIDE DEF x
<1>8. PICK y : y = [x EXCEPT !.frame.header_done = TRUE]
  OBVIOUS
<1>9. /\ y \in ManagerType /\ SameSpan(x, y) /\ y.state = x.state
      /\ y.frame.header_done /\ y.frame.payload_done = x.frame.payload_done
      /\ y.frame.crc_done = x.frame.crc_done /\ y.frame.handled = x.frame.handled
  BY <1>7, <1>8 DEF ManagerType, FrameType, SameSpan, SameWalk
<1>10. TxM' = y /\ TxS' = TxS /\ tx_mng' \in [Side -> ManagerType] /\ RxM' = RxM /\ RxS' = RxS
  BY <1>1, <1>2, <1>8, <1>9, TxMSet, RxSame
<1>11. /\ spi' \in SpiType /\ spi'.rxf = <<Header(Size("M"))>> /\ spi'.txf = <<>>
       /\ SameDriver(spi, spi')
  <2>1. spi.txf = <<>> /\ spi.rxf = <<>>
    BY <1>4 DEF MClaimed, AtRest, Listening
  <2>2. spi' = Clocked(<<Header(Size("M"))>>)
    BY <1>1, <1>7
  <2> QED
    BY <1>2, <1>6, <2>1, <2>2, HeaderWord, OneWord, ClockedOut
<1>12. /\ writer' \in [Side -> {"idle", "filled", "claimed", "request"}]
       /\ writer'["M"] = "request" /\ writer'["S"] = writer["S"]
  BY <1>1, <1>2 DEF TypeOK, Side
<1>13. Stage'
  <2>1. Size("M")' = Size("M")
    BY <1>1, SameApps DEF Side
  <2>2. /\ Slice(TxM') /\ TxM'.cur_frame_id = 0 /\ Parts(TxM'.frame)
        /\ TxM'.frame.handled = 0 /\ TxM'.xfer_size = Size("M") /\ TxM'.state # "CRC"
    BY <1>4, <1>7, <1>9, <1>10
       DEF MClaimed, SameSpan, SameWalk, Slice, Package, Fresh, Parts
  <2>3. MSends'
    BY <1>1, <1>3, <1>4, <2>1, <2>2 DEF MClaimed, MSends
  <2>4. MHeader'
    BY <1>1, <1>4, <1>11, <1>12, <2>2, <2>3
       DEF MClaimed, MHeader, AtRest, Listening, NoEdgeOut, SameDriver
  <2>5. MAlone'
    BY <1>1, <1>4, <1>12, MAloneStill DEF MTurn
  <2> QED
    BY <2>4, <2>5 DEF Stage, MTurn
<1>14. TypeOK'
  <2>1. Len(spi'.txf) <= FifoDepth /\ Len(spi'.rxf) <= FifoDepth
    BY <1>11, OneWord
  <2> QED
    BY <1>1, <1>2, <1>10, <1>11, <1>12, <2>1 DEF TypeOK
<1>15. CrcTasks' /\ Counts' /\ Requests'
  BY <1>1, <1>3, <1>10, <1>12, RequestsStay DEF IInv, CrcTasks, Counts
<1> QED
  BY <1>13, <1>14, <1>15 DEF IInv

\* M asks for the first checksum.
LEMMA MasterWriteRequestKeeps == ASSUME TakingTurns, IInv, MasterWriteRequest PROVE IInv'
<1>1. /\ MayRun("M", "writer") /\ writer["M"] = "request"
      /\ writer' = [writer EXCEPT !["M"] = "idle"]
      /\ cascade_crc_request("M", "tx", TxM.frame)
      /\ xfer_type' = xfer_type /\ rx_mng' = rx_mng /\ tx_mng' = tx_mng
      /\ crc_unmatch' = crc_unmatch /\ spi' = spi
      /\ rx_data_buffer' = rx_data_buffer /\ rx_queue' = rx_queue /\ tx_queue' = tx_queue
      /\ crc_task' = crc_task /\ sync_queue' = sync_queue /\ sync_task' = sync_task
      /\ reader' = reader /\ sent' = sent /\ got' = got
  BY DEF MasterWriteRequest, proto, wire, queues, TxM
<1>2. TypeOK /\ TxM \in ManagerType
  BY Managers DEF IInv
<1>3. crc_task["M"].pc = "idle" /\ sync_task = "wait"
  BY <1>1, WriterAlone DEF Side
<1>4. MTurn /\ (MHeader \/ MPart)
  BY <1>1
     DEF IInv, Stage, MTurn, STurn, Pause, SAlone, MFilled, MClaimed, MHeader, MPart, MWords,
         MFull, MCrc, MEdge, MFrame, MLast, MDelivered
<1>5. sent["M"] # <<>>
  BY <1>2, <1>4 DEF MTurn, MAlone, Open, Peer, TypeOK, Side
<1>6. TxM' = TxM /\ TxS' = TxS /\ RxM' = RxM /\ RxS' = RxS
  BY <1>1, TxSame, RxSame
<1>7. /\ cs_last_frame_info' \in [Side -> [mem : {"none", "rx", "tx"}, ofs : Nat, len : Nat]]
      /\ Requests'
  BY <1>1, <1>2, <1>5, Request DEF IInv, Side
<1>8. /\ writer' \in [Side -> {"idle", "filled", "claimed", "request"}]
      /\ writer'["M"] = "idle" /\ writer'["S"] = writer["S"]
  BY <1>1, <1>2 DEF TypeOK, Side
<1>9. Stage'
  <2>1. Size("M")' = Size("M") /\ \A k : Arrived("S", k)' <=> Arrived("S", k)
    BY <1>1, SameApps, SameBuffer DEF Side
  <2>2. /\ MSends' <=> MSends
        /\ SBusy' <=> SBusy
        /\ Listening' <=> Listening
        /\ NoEdgeOut' <=> NoEdgeOut
        /\ EdgeOut' <=> EdgeOut
    BY <1>1, <1>6, <2>1 DEF MSends, SBusy, Listening, NoEdgeOut, EdgeOut
  <2>3. MHeader => MHeader'
    BY <1>1, <1>6, <1>8, <2>2 DEF MHeader
  <2>4. MPart => MPart'
    BY <1>1, <1>6, <1>8, <2>1, <2>2 DEF MPart
  <2>5. MAlone'
    BY <1>1, <1>4, <1>8, MAloneStill DEF MTurn
  <2> QED
    BY <1>4, <2>3, <2>4, <2>5 DEF Stage, MTurn
<1>10. TypeOK'
  BY <1>1, <1>2, <1>7, <1>8 DEF TypeOK
<1>11. CrcTasks' /\ Counts'
  BY <1>1, <1>3, <1>6, <1>8 DEF IInv, CrcTasks, Counts
<1> QED
  BY <1>7, <1>9, <1>10, <1>11 DEF IInv

\* S puts the header of a package into its FIFO.
LEMMA SlaveWriteKeeps == ASSUME TakingTurns, IInv, SlaveWrite PROVE IInv'
<1> DEFINE x == cascade_tx_first_frame_init(cascade_package_init(TxS, Last(sent["S"])))
<1>1. /\ MayRun("S", "writer") /\ writer["S"] = "claimed"
      /\ tx_mng' = [tx_mng EXCEPT !["S"] = [x EXCEPT !.frame.header_done = TRUE]]
      /\ spi' = InstallTx(spi_write(spi, Header(x.frame.header)), x.frame)
      /\ sync_queue' = sync_queue
      /\ writer' = [writer EXCEPT !["S"] = "request"]
      /\ xfer_type' = xfer_type /\ rx_mng' = rx_mng
      /\ crc_unmatch' = crc_unmatch /\ cs_last_frame_info' = cs_last_frame_info
      /\ rx_data_buffer' = rx_data_buffer /\ rx_queue' = rx_queue /\ tx_queue' = tx_queue
      /\ crc_task' = crc_task /\ sync_task' = sync_task
      /\ reader' = reader /\ sent' = sent /\ got' = got
  BY DEF SlaveWrite, NoEdge, memory, queues, TxS
<1>2. TypeOK /\ spi \in SpiType /\ TxS \in ManagerType
  BY Managers DEF IInv
<1>3. crc_task["S"].pc = "idle"
  BY <1>1, WriterAlone DEF Side
<1>4. STurn /\ SClaimed
  BY <1>1
     DEF IInv, Stage, MTurn, STurn, Pause, MAlone, SFilled, SClaimed, SHeader, SPart, SWords,
         SDone, SCrc, SRead, SFrame, SDelivered
<1>5. sent["S"] # <<>>
  BY <1>2, <1>4 DEF STurn, SAlone, Open, Peer, TypeOK, Side
<1>6. /\ Size("S") \in Nat /\ 0 < Size("S") /\ Size("S") <= BufferSize
      /\ Last(sent["S"]) = Size("S")
  BY <1>2, <1>5, SizeFits DEF Side
<1>7. /\ x \in ManagerType /\ Slice(x) /\ Fresh(x.frame)
      /\ x.xfer_size = Size("S") /\ x.cur_frame_id = 0 /\ x.frame.header = Size("S")
      /\ x.state = TxS.state
  BY <1>2, <1>6, TxFirst
<1>8. x.frame.payload \in Nat /\ x.frame.len \in Nat
  BY <1>7 DEF ManagerType, FrameType
<1> HIDE DEF x
<1>9. PICK y : y = [x EXCEPT !.frame.header_done = TRUE]
  OBVIOUS
<1>10. /\ y \in ManagerType /\ SameSpan(x, y) /\ y.state = x.state
       /\ y.frame.header_done /\ y.frame.payload_done = x.frame.payload_done
       /\ y.frame.crc_done = x.frame.crc_done
  BY <1>7, <1>9 DEF ManagerType, FrameType, SameSpan, SameWalk
<1>11. TxS' = y /\ TxM' = TxM /\ tx_mng' \in [Side -> ManagerType] /\ RxM' = RxM /\ RxS' = RxS
  BY <1>1, <1>2, <1>9, <1>10, TxSSet, RxSame
<1>12. /\ spi' \in SpiType /\ spi'.rxf = <<>> /\ spi'.txf = <<Header(Size("S"))>>
       /\ ~ spi'.rxon /\ spi'.txon /\ spi'.rxint = spi.rxint /\ spi'.txint = spi.txint
       /\ spi'.thres = spi.thres /\ spi'.txdev.base = x.frame.payload
       /\ spi'.txdev.len = x.frame.len /\ spi'.txdev.ofs = 0
  <2>1. PICK w \in WordType : w = Header(Size("S"))
    <3>1. Header(Size("S")) \in WordType
      BY <1>6 DEF Header, WordType
    <3> QED
      BY <3>1
  <2>2. spi' = [spi EXCEPT !.txf = <<w>>, !.rxf = <<>>, !.rxon = FALSE, !.txon = TRUE,
                           !.txdev = DevBuffer(x.frame.payload, x.frame.len)]
    BY <1>1, <1>2, <1>7, <2>1 DEF InstallTx, spi_write, SpiType
  <2>3. DevBuffer(x.frame.payload, x.frame.len) \in DevBufferType
    BY <1>8 DEF DevBuffer, DevBufferType
  <2>4. <<w>> \in Seq(WordType) /\ <<>> \in Seq(WordType)
    BY <2>1
  <2>5. spi' \in SpiType
    BY <1>2, <2>2, <2>3, <2>4 DEF SpiType
  <2> QED
    BY <1>2, <2>1, <2>2, <2>5 DEF SpiType, DevBuffer
<1>13. /\ writer' \in [Side -> {"idle", "filled", "claimed", "request"}]
       /\ writer'["S"] = "request" /\ writer'["M"] = writer["M"]
  BY <1>1, <1>2 DEF TypeOK, Side
<1>14. Stage'
  <2>1. Size("S")' = Size("S")
    BY <1>1, SameApps DEF Side
  <2>2. /\ Slice(TxS') /\ TxS'.cur_frame_id = 0 /\ Parts(TxS'.frame)
        /\ TxS'.xfer_size = Size("S") /\ TxS'.state # "CRC"
        /\ TxS'.frame.payload = x.frame.payload /\ TxS'.frame.len = x.frame.len
    BY <1>4, <1>7, <1>10, <1>11
       DEF SClaimed, SameSpan, SameWalk, Slice, Package, Fresh, Parts
  <2>3. SSends' /\ FromStart'
    BY <1>1, <1>4, <1>12, <2>1, <2>2 DEF SClaimed, SSends, FromStart, AtRest
  <2>4. SHeader'
    BY <1>1, <1>4, <1>12, <1>13, <2>2, <2>3
       DEF SClaimed, SHeader, AtRest, Listening, NoEdgeOut
  <2>5. SAlone'
    BY <1>1, <1>4, <1>13, SAloneStill DEF STurn
  <2> QED
    BY <2>4, <2>5 DEF Stage, STurn
<1>15. TypeOK'
  <2>1. Len(spi'.txf) <= FifoDepth /\ Len(spi'.rxf) <= FifoDepth
    BY <1>12, OneWord
  <2> QED
    BY <1>1, <1>2, <1>11, <1>12, <1>13, <2>1 DEF TypeOK
<1>16. CrcTasks' /\ Counts' /\ Requests'
  <2>1. TxS'.state # "CRC"
    BY <1>4, <1>7, <1>10, <1>11 DEF SClaimed
  <2> QED
    BY <1>1, <1>3, <1>11, <1>13, <2>1, RequestsStay DEF IInv, CrcTasks, Counts
<1> QED
  BY <1>14, <1>15, <1>16 DEF IInv

\* S asks for the first checksum, and tells M.
LEMMA SlaveWriteRequestKeeps == ASSUME TakingTurns, IInv, SlaveWriteRequest PROVE IInv'
<1>1. /\ MayRun("S", "writer") /\ writer["S"] = "request"
      /\ writer' = [writer EXCEPT !["S"] = "idle"]
      /\ cascade_crc_request("S", "tx", TxS.frame)
      /\ spi' = [spi EXCEPT !.rxint = FALSE, !.txint = TRUE] /\ sync_queue' = Edge(sync_queue)
      /\ xfer_type' = xfer_type /\ rx_mng' = rx_mng /\ tx_mng' = tx_mng
      /\ crc_unmatch' = crc_unmatch
      /\ rx_data_buffer' = rx_data_buffer /\ rx_queue' = rx_queue /\ tx_queue' = tx_queue
      /\ crc_task' = crc_task /\ sync_task' = sync_task
      /\ reader' = reader /\ sent' = sent /\ got' = got
  BY DEF SlaveWriteRequest, WithEdge, proto, queues, TxS
<1>2. TypeOK /\ TxS \in ManagerType /\ spi \in SpiType
  BY Managers DEF IInv
<1>3. crc_task["S"].pc = "idle"
  BY <1>1, WriterAlone DEF Side
<1>4. STurn /\ SHeader /\ NoEdgeOut
  BY <1>1
     DEF IInv, Stage, MTurn, STurn, Pause, MAlone, SFilled, SClaimed, SHeader, SPart, SWords,
         SDone, SCrc, SRead, SFrame, SDelivered
<1>5. sent["S"] # <<>>
  BY <1>2, <1>4 DEF STurn, SAlone, Open, Peer, TypeOK, Side
<1>6. TxM' = TxM /\ TxS' = TxS /\ RxM' = RxM /\ RxS' = RxS
  BY <1>1, TxSame, RxSame
<1>7. /\ cs_last_frame_info' \in [Side -> [mem : {"none", "rx", "tx"}, ofs : Nat, len : Nat]]
      /\ Requests'
  BY <1>1, <1>2, <1>5, Request DEF IInv, Side
<1>8. /\ writer' \in [Side -> {"idle", "filled", "claimed", "request"}]
      /\ writer'["S"] = "idle" /\ writer'["M"] = writer["M"]
  BY <1>1, <1>2 DEF TypeOK, Side
<1>9. /\ spi' \in SpiType /\ spi'.txf = spi.txf /\ spi'.rxf = spi.rxf /\ ~ spi'.rxint
      /\ spi'.rxon = spi.rxon /\ spi'.txon = spi.txon /\ spi'.thres = spi.thres
      /\ spi'.txdev = spi.txdev
  BY <1>1, <1>2 DEF SpiType
<1>10. sync_queue' = 1
  BY <1>1, <1>4, CoreAssumption DEF NoEdgeOut, Edge
<1>11. Stage'
  <2>1. Size("S")' = Size("S")
    BY <1>1, SameApps DEF Side
  <2>2. SSends' /\ FromStart'
    BY <1>1, <1>4, <1>6, <1>9, <2>1 DEF SHeader, SSends, FromStart
  <2>3. SHeader'
    BY <1>1, <1>4, <1>6, <1>8, <1>9, <1>10, <2>2 DEF SHeader, EdgeOut, NoEdgeOut
  <2>4. SAlone'
    BY <1>1, <1>4, <1>8, SAloneStill DEF STurn
  <2> QED
    BY <2>3, <2>4 DEF Stage, STurn
<1>12. TypeOK'
  <2>1. sync_queue' \in 0 .. QueueLen
    BY <1>10, CoreAssumption
  <2> QED
    BY <1>1, <1>2, <1>7, <1>8, <1>9, <2>1 DEF TypeOK
<1>13. CrcTasks' /\ Counts'
  BY <1>1, <1>3, <1>6, <1>8 DEF IInv, CrcTasks, Counts
<1> QED
  BY <1>7, <1>11, <1>12, <1>13 DEF IInv

\* What the application reads is the whole package.
LEMMA ReadWords ==
    ASSUME TypeOK, NEW s \in Side, NEW n \in Nat, n <= BufferSize
    PROVE  RxWords(s, 0, n) \in Seq(Nat)
<1>1. ASSUME NEW k \in 1 .. n PROVE rx_data_buffer[s][0 + k - 1] \in Nat
  <2>1. 0 + k - 1 \in 0 .. BufferSize - 1
    BY LenAssumption
  <2>2. rx_data_buffer[s] \in [0 .. BufferSize - 1 -> Nat]
    BY DEF TypeOK
  <2> QED
    BY <2>1, <2>2
<1>2. RxWords(s, 0, n) \in [1 .. n -> Nat]
  BY <1>1 DEF RxWords
<1> QED
  BY <1>2

\* A package waits for the application.
LEMMA PackageWaits ==
    ASSUME TakingTurns, IInv, NEW s \in Side, cascade_read(s)
    PROVE  /\ s = "S" => MTurn /\ MDelivered
           /\ s = "M" => STurn /\ SDelivered
           /\ rx_queue[s] = <<Size(Peer(s))>> /\ Arrived(s, Size(Peer(s)))
           /\ sent[Peer(s)] # <<>>
<1>1. rx_queue[s] # <<>>
  BY DEF cascade_read
<1>2. crc_task[s].pc = "idle"
  <2>1. MayRun(s, "reader")
    BY DEF cascade_read
  <2> QED
    BY <2>1 DEF MayRun, TasksInside, TakingTurns
<1>3. TypeOK
  BY DEF IInv
<1>4. CASE s = "S"
  <2>1. MTurn /\ MDelivered
    BY <1>1, <1>2, <1>4
       DEF IInv, Stage, MTurn, STurn, Pause, SAlone, MFilled, MClaimed, MHeader, MPart, MWords,
           MFull, MCrc, MEdge, MFrame, MLast, MDelivered, SFull, SBusy, SNext
  <2>2. sent["M"] # <<>>
    BY <1>3, <2>1 DEF MTurn, MAlone, Open, Peer, TypeOK, Side
  <2> QED
    BY <1>4, <2>1, <2>2 DEF MDelivered, Peer
<1>5. CASE s = "M"
  <2>1. STurn /\ SDelivered
    BY <1>1, <1>2, <1>5
       DEF IInv, Stage, MTurn, STurn, Pause, MAlone, SFilled, SClaimed, SHeader, SPart, SWords,
           SDone, SCrc, SRead, SFrame, SDelivered, MBusy
  <2>2. sent["S"] # <<>>
    BY <1>3, <2>1 DEF STurn, SAlone, Open, Peer, TypeOK, Side
  <2> QED
    BY <1>5, <2>1, <2>2 DEF SDelivered, Peer
<1> QED
  BY <1>4, <1>5 DEF Side

\* An application reads the package that has been indicated.
LEMMA ReadKeeps ==
    ASSUME TakingTurns, IInv, NEW s \in Side, cascade_read(s)
    PROVE  IInv'
<1>1. /\ rx_queue' = [rx_queue EXCEPT ![s] = Tail(@)]
      /\ got' = [got EXCEPT ![s] = Append(@, RxWords(s, 0, Head(rx_queue[s])))]
      /\ reader' = [reader EXCEPT ![s] = "reading"]
      /\ xfer_type' = xfer_type /\ rx_mng' = rx_mng /\ tx_mng' = tx_mng
      /\ crc_unmatch' = crc_unmatch /\ cs_last_frame_info' = cs_last_frame_info
      /\ rx_data_buffer' = rx_data_buffer /\ tx_queue' = tx_queue
      /\ crc_task' = crc_task /\ spi' = spi /\ sync_queue' = sync_queue /\ sync_task' = sync_task
      /\ writer' = writer /\ sent' = sent
  BY DEF cascade_read, proto, memory, wire
<1>2. TypeOK /\ Peer(s) \in Side
  BY DEF IInv, Peer, Side
<1>3. /\ s = "S" => MTurn /\ MDelivered
      /\ s = "M" => STurn /\ SDelivered
      /\ rx_queue[s] = <<Size(Peer(s))>> /\ sent[Peer(s)] # <<>>
  BY PackageWaits
<1>4. Size(Peer(s)) \in Nat /\ Size(Peer(s)) <= BufferSize
  BY <1>2, <1>3, SizeFits
<1>5. /\ got' \in [Side -> Seq(Seq(Nat))] /\ Len(got'[s]) = Len(got[s]) + 1
      /\ \A r \in Side : r # s => got'[r] = got[r]
  <2>1. got[s] \in Seq(Seq(Nat))
    BY <1>2 DEF TypeOK
  <2>2. PICK w \in Seq(Nat) : w = RxWords(s, 0, Head(rx_queue[s]))
    BY <1>2, <1>3, <1>4, ReadWords
  <2>3. PICK t : t = Append(got[s], w)
    OBVIOUS
  <2>4. t \in Seq(Seq(Nat)) /\ Len(t) = Len(got[s]) + 1
    BY <2>1, <2>3
  <2>5. got' = [got EXCEPT ![s] = t]
    BY <1>1, <2>2, <2>3
  <2> QED
    BY <1>2, <2>4, <2>5 DEF TypeOK
<1>6. /\ rx_queue' \in [Side -> Seq(Nat)] /\ rx_queue'[s] = <<>>
      /\ \A r \in Side : r # s => rx_queue'[r] = rx_queue[r]
  <2>1. rx_queue' = [rx_queue EXCEPT ![s] = <<>>]
    BY <1>1, <1>2, <1>3 DEF TypeOK
  <2> QED
    BY <1>2, <2>1 DEF TypeOK
<1>7. /\ reader' \in [Side -> {"idle", "reading"}] /\ reader'[s] = "reading"
      /\ \A r \in Side : r # s => reader'[r] = reader[r]
  BY <1>1, <1>2 DEF TypeOK
<1>8. TxM' = TxM /\ TxS' = TxS /\ RxM' = RxM /\ RxS' = RxS
  BY <1>1, TxSame, RxSame
<1>9. Stage'
  <2>1. /\ AtRest' <=> AtRest
        /\ MThrough' <=> MThrough
        /\ SThrough' <=> SThrough
    BY <1>1, <1>8 DEF AtRest, Listening, NoEdgeOut, MThrough, SThrough, SEnds
  <2>2. CASE s = "S"
    <3>1. MAlone /\ MDelivered
      BY <1>3, <2>2 DEF MTurn
    <3>2. Even("M")' /\ Even("S")'
      BY <1>1, <1>5, <2>2, <3>1 DEF MAlone, Open, Even, Peer, Side
    <3>3. Pause'
      BY <1>1, <1>6, <1>7, <2>1, <2>2, <3>1, <3>2 DEF MAlone, MDelivered, Pause, Side
    <3> QED
      BY <3>3 DEF Stage
  <2>3. CASE s = "M"
    <3>1. SAlone /\ SDelivered
      BY <1>3, <2>3 DEF STurn
    <3>2. Even("M")' /\ Even("S")'
      BY <1>1, <1>5, <2>3, <3>1 DEF SAlone, Open, Even, Peer, Side
    <3>3. Pause'
      BY <1>1, <1>6, <1>7, <2>1, <2>3, <3>1, <3>2 DEF SAlone, SDelivered, Pause, Side
    <3> QED
      BY <3>3 DEF Stage
  <2> QED
    BY <2>2, <2>3 DEF Side
<1>10. TypeOK'
  BY <1>1, <1>2, <1>5, <1>6, <1>7 DEF TypeOK
<1>11. CrcTasks' /\ Counts' /\ Requests'
  BY <1>1, <1>8, RequestsStay DEF IInv, CrcTasks, Counts
<1> QED
  BY <1>9, <1>10, <1>11 DEF IInv

\* An application has read: both sessions are, or are about to be, closed.
LEMMA ProcessDoneKeeps ==
    ASSUME TakingTurns, IInv, NEW s \in Side, cascade_process_done(s)
    PROVE  IInv'
<1>1. /\ reader[s] = "reading"
      /\ xfer_type' = [xfer_type EXCEPT ![s] = "INVALID"]
      /\ rx_mng' = [rx_mng EXCEPT ![s].state = "IDLE"]
      /\ reader' = [reader EXCEPT ![s] = "idle"]
      /\ tx_mng' = tx_mng
      /\ crc_unmatch' = crc_unmatch /\ cs_last_frame_info' = cs_last_frame_info
      /\ rx_data_buffer' = rx_data_buffer /\ rx_queue' = rx_queue /\ tx_queue' = tx_queue
      /\ crc_task' = crc_task /\ spi' = spi /\ sync_queue' = sync_queue /\ sync_task' = sync_task
      /\ writer' = writer /\ sent' = sent /\ got' = got
  BY DEF cascade_process_done, memory, queues, wire
<1>2. TypeOK /\ rx_mng[s] \in ManagerType
  BY DEF IInv, TypeOK
<1>3. Pause
  BY <1>1 DEF IInv, Stage, MTurn, STurn, MAlone, SAlone, Side
<1>4. /\ xfer_type[s] = "INVALID"
      /\ s = "S" => MThrough /\ reader["M"] = "idle" /\ AtRest
      /\ s = "M" => SThrough /\ reader["S"] = "idle" /\ sync_task = "wait"
  BY <1>1, <1>3 DEF Pause, Side
<1>5. xfer_type' = xfer_type
  BY <1>1, <1>2, <1>4 DEF TypeOK
<1>6. rx_mng' \in [Side -> ManagerType] /\ \A r \in Side : r # s => rx_mng'[r] = rx_mng[r]
  <2>1. PICK y : y = [rx_mng[s] EXCEPT !.state = "IDLE"]
    OBVIOUS
  <2>2. y \in ManagerType
    BY <1>2, <2>1 DEF ManagerType
  <2>3. rx_mng' = [rx_mng EXCEPT ![s] = y]
    BY <1>1, <2>1
  <2> QED
    BY <1>2, <2>2, <2>3 DEF TypeOK
<1>7. /\ reader' \in [Side -> {"idle", "reading"}] /\ reader'[s] = "idle"
      /\ \A r \in Side : r # s => reader'[r] = reader[r]
  BY <1>1, <1>2 DEF TypeOK
<1>8. TxM' = TxM /\ TxS' = TxS
  BY <1>1, TxSame
<1>9. Stage'
  <2>1. /\ AtRest' <=> AtRest
        /\ MThrough' <=> MThrough
        /\ SThrough' <=> SThrough
    BY <1>1, <1>5, <1>8 DEF AtRest, Listening, NoEdgeOut, MThrough, SThrough, SEnds
  <2>2. Even("M")' /\ Even("S")'
    BY <1>1, <1>3, SameApps DEF Pause, Side
  <2>3. Pause'
    BY <1>1, <1>3, <1>4, <1>5, <1>7, <2>1, <2>2 DEF Pause, Side
  <2> QED
    BY <2>3 DEF Stage
<1>10. TypeOK'
  BY <1>1, <1>2, <1>5, <1>6, <1>7 DEF TypeOK
<1>11. Counts'
  BY <1>4, <1>5, <1>6 DEF IInv, Counts, RxM, RxS, Side
<1>12. CrcTasks' /\ Requests'
  BY <1>1, <1>5, <1>8, RequestsStay DEF IInv, CrcTasks
<1> QED
  BY <1>9, <1>10, <1>11, <1>12 DEF IInv

-----------------------------------------------------------------------------
(* S's interrupt while it sends.                                           *)

\* The driver with nothing to move leaves FIFOs and buffer alone.
LEMMA NothingMoves ==
    ASSUME ~ Receives, ~ Transmits
    PROVE  RawXfer = spi /\ RawBuffer = rx_data_buffer["S"]
BY DEF RawXfer, RawBuffer

\* The buffer is as it was when the interrupt has not received.
LEMMA BufferStays ==
    ASSUME TypeOK, rx_data_buffer' = [rx_data_buffer EXCEPT !["S"] = rx_data_buffer["S"]]
    PROVE  rx_data_buffer' = rx_data_buffer
BY DEF TypeOK

\* S is interrupted while it sends: its TX FIFO has run empty, and a part, a
\* checksum or a header comes next.
LEMMA SlaveSendInterrupt ==
    ASSUME IInv, Interrupt("TX")
    PROVE  /\ STurn /\ spi.txint /\ spi.txf = <<>> /\ xfer_type["S"] = "TX" /\ ~ spi.rxon
           /\ SPart \/ SDone \/ ((SRead \/ SFrame) /\ SNextFrame /\ sync_queue = 0)
<1>1. xfer_type["S"] = "TX" /\ (RxPending \/ TxPending)
  BY DEF Interrupt, IrqPending
<1>2. STurn /\ (SPart \/ SWords \/ SDone \/ SCrc \/ SRead \/ SFrame \/ SHeader \/ SClaimed)
  BY <1>1
     DEF IInv, Stage, MTurn, STurn, Pause, MFilled, MClaimed, MHeader, MPart, MWords, MFull, MCrc,
         MEdge, MFrame, MLast, MDelivered, SFilled, SThrough, SDelivered, SFull, SNext, SBusy
<1>3. TypeOK
  BY DEF IInv
<1>4. ~ SClaimed
  BY <1>1 DEF SClaimed, AtRest, Listening, RxPending, TxPending
<1>5. ~ SHeader
  <2>1. SHeader => spi.txf # <<>>
    BY DEF SHeader
  <2> QED
    BY <1>1, <2>1 DEF SHeader, SSends, RxPending, TxPending
<1>6. ~ SWords
  <2> SUFFICES ASSUME SWords PROVE FALSE
    OBVIOUS
  <2>1. spi.txf = <<>>
    BY <1>1 DEF SWords, RxPending, TxPending
  <2>2. 0 < FramePartSize(RxM.frame) /\ FramePartSize(RxM.frame) \in Nat
    <3>1. RxM.frame.len \in Nat /\ RxM.frame.handled \in Nat /\ RxM.frame.handled < RxM.frame.len
      BY <1>3, Managers DEF SWords, FrameType
    <3>2. PartLen \in Nat /\ 0 < PartLen
      BY LenAssumption
    <3> QED
      BY <3>1, <3>2 DEF FramePartSize, AtMost
  <2>3. /\ Len(Words("S", FramePartBase(RxM.frame), FramePartSize(RxM.frame)))
              = FramePartSize(RxM.frame)
    BY <2>2 DEF Words
  <2> QED
    BY <2>1, <2>2, <2>3 DEF SWords
<1>7. ~ SCrc
  <2> SUFFICES ASSUME SCrc PROVE FALSE
    OBVIOUS
  <2>1. SNextFrame /\ spi.txf # <<>>
    BY <1>1 DEF SCrc, IsChecksum
  <2> QED
    BY <1>1, <2>1 DEF SNextFrame, RxPending, TxPending
<1>8. SPart \/ SDone => spi.txint /\ spi.txf = <<>> /\ ~ spi.rxon
  BY <1>1 DEF SPart, SDone, SSends, RxPending, TxPending
<1>9. SRead \/ SFrame => /\ SNextFrame /\ sync_queue = 0 /\ spi.txf = <<>> /\ ~ spi.rxon
                         /\ spi.txint
  <2> SUFFICES ASSUME SRead \/ SFrame
               PROVE  SNextFrame /\ sync_queue = 0 /\ spi.txf = <<>> /\ ~ spi.rxon /\ spi.txint
    OBVIOUS
  <2>1. SGoesOn
    BY <1>1 DEF SRead, SFrame, SThrough
  <2>2. ~ spi.rxint /\ ~ spi.rxon
    BY <2>1 DEF SGoesOn, SNextFrame, SSends
  <2>3. spi.txint /\ spi.txf = <<>>
    BY <1>1, <2>2 DEF RxPending, TxPending
  <2> QED
    BY <2>1, <2>2, <2>3 DEF SGoesOn
<1> QED
  BY <1>1, <1>2, <1>4, <1>5, <1>6, <1>7, <1>8, <1>9

\* S puts the header of its next frame into its FIFO, and tells M.
LEMMA SlaveSendHeaderKeeps == ASSUME TakingTurns, IInv, SlaveSendHeader PROVE IInv'
<1>1. /\ Interrupt("TX") /\ ~ TxS.frame.header_done
      /\ tx_mng' = [tx_mng EXCEPT !["S"] = [TxS EXCEPT !.frame.header_done = TRUE]]
      /\ spi' = InstallTx(spi_write(RawXfer, Header(TxS.frame.header)), TxS.frame)
      /\ sync_queue' = Edge(sync_queue)
      /\ cascade_crc_request("S", "tx", TxS.frame)
      /\ xfer_type' = xfer_type /\ rx_mng' = rx_mng /\ crc_unmatch' = crc_unmatch
      /\ rx_queue' = rx_queue /\ tx_queue' = tx_queue
      /\ crc_task' = crc_task /\ sync_task' = sync_task
      /\ writer' = writer /\ reader' = reader /\ sent' = sent /\ got' = got
      /\ rx_data_buffer' = [rx_data_buffer EXCEPT !["S"] = RawBuffer]
  BY DEF SlaveSendHeader, WithEdge, Interrupt, queues, apps, TxS
<1>2. TypeOK /\ TxS \in ManagerType /\ TxS.frame \in FrameType /\ spi \in SpiType
  BY Managers DEF IInv
<1>3. /\ STurn /\ (SRead \/ SFrame)
      /\ SNextFrame /\ sync_queue = 0 /\ ~ spi.rxon /\ xfer_type["S"] = "TX"
  BY <1>1, SlaveSendInterrupt DEF SPart, SDone, Parts, Full
<1>4. /\ ~ IsLastFrame(RxM) /\ OneAhead(TxS, RxM) /\ Fresh(TxS.frame)
      /\ TxS.frame.header = TxS.frame.len /\ ~ spi.txon /\ ~ spi.rxint
  BY <1>3 DEF SNextFrame
<1>5. RawXfer = spi /\ rx_data_buffer' = rx_data_buffer
  BY <1>1, <1>2, <1>3, <1>4, NothingMoves, BufferStays DEF Receives, Transmits
<1>6. sent["S"] # <<>>
  BY <1>2, <1>3 DEF STurn, SAlone, Open, Peer, TypeOK, Side
<1>7. PICK y : y = [TxS EXCEPT !.frame.header_done = TRUE]
  OBVIOUS
<1>8. /\ y \in ManagerType /\ SameSpan(TxS, y) /\ y.state = TxS.state
      /\ y.frame.header_done /\ y.frame.payload_done = TxS.frame.payload_done
      /\ y.frame.crc_done = TxS.frame.crc_done
  BY <1>2, <1>7 DEF ManagerType, FrameType, SameSpan, SameWalk
<1>9. TxS' = y /\ TxM' = TxM /\ tx_mng' \in [Side -> ManagerType] /\ RxM' = RxM /\ RxS' = RxS
  BY <1>1, <1>2, <1>7, <1>8, TxSSet, RxSame
<1>10. /\ spi' \in SpiType /\ spi'.rxf = <<>> /\ spi'.txf = <<Header(TxS.frame.len)>>
       /\ ~ spi'.rxon /\ spi'.txon /\ spi'.rxint = spi.rxint /\ spi'.txint = spi.txint
       /\ spi'.thres = spi.thres /\ spi'.txdev.base = TxS.frame.payload
       /\ spi'.txdev.len = TxS.frame.len /\ spi'.txdev.ofs = 0
  <2>1. PICK w \in WordType : w = Header(TxS.frame.len)
    <3>1. Header(TxS.frame.len) \in WordType
      BY <1>2 DEF Header, WordType, FrameType
    <3> QED
      BY <3>1
  <2>2. spi' = [spi EXCEPT !.txf = <<w>>, !.rxf = <<>>, !.rxon = FALSE, !.txon = TRUE,
                           !.txdev = DevBuffer(TxS.frame.payload, TxS.frame.len)]
    BY <1>1, <1>2, <1>4, <1>5, <2>1 DEF InstallTx, spi_write, SpiType
  <2>3. DevBuffer(TxS.frame.payload, TxS.frame.len) \in DevBufferType
    BY <1>2 DEF DevBuffer, DevBufferType, FrameType
  <2>4. <<w>> \in Seq(WordType) /\ <<>> \in Seq(WordType)
    BY <2>1
  <2>5. spi' \in SpiType
    BY <1>2, <2>2, <2>3, <2>4 DEF SpiType
  <2> QED
    BY <1>2, <2>1, <2>2, <2>5 DEF SpiType, DevBuffer
<1>11. sync_queue' = 1
  BY <1>1, <1>3, CoreAssumption DEF Edge
<1>12. /\ cs_last_frame_info' \in [Side -> [mem : {"none", "rx", "tx"}, ofs : Nat, len : Nat]]
       /\ Requests'
  BY <1>1, <1>2, <1>6, Request DEF IInv, Side
<1>13. Stage'
  <2>1. Size("S")' = Size("S") /\ \A k : Arrived("M", k)' <=> Arrived("M", k)
    BY <1>1, <1>5, SameApps, SameBuffer DEF Side
  <2>2. /\ OneAhead(TxS', RxM') /\ Parts(TxS'.frame) /\ TxS'.xfer_size = Size("S")
        /\ TxS'.state # "CRC"
        /\ TxS'.frame.payload = TxS.frame.payload /\ TxS'.frame.len = TxS.frame.len
    BY <1>3, <1>4, <1>8, <1>9
       DEF SNextFrame, SSends, OneAhead, Slice, Package, SameSpan, SameWalk, Fresh, Parts
  <2>3. SSends' /\ FromStart'
    BY <1>1, <1>3, <1>10, <2>1, <2>2 DEF SNextFrame, SSends, FromStart
  <2>4. SGoesOn'
    BY <1>4, <1>9, <1>10, <1>11, <2>2, <2>3 DEF SGoesOn
  <2>5. MBusy' <=> MBusy
    BY <1>1, <1>9 DEF MBusy
  <2>6. SRead => SRead'
    BY <1>1, <1>9, <1>11, <2>1, <2>4, <2>5 DEF SRead
  <2>7. SFrame => SFrame'
    BY <1>1, <1>9, <2>1, <2>4, <2>5 DEF SFrame
  <2>8. SAlone'
    BY <1>1, <1>3, SAloneStill DEF STurn
  <2> QED
    BY <1>3, <2>6, <2>7, <2>8 DEF Stage, STurn
<1>14. TypeOK'
  <2>1. Len(spi'.txf) <= FifoDepth /\ Len(spi'.rxf) <= FifoDepth
    BY <1>10, OneWord
  <2>2. sync_queue' \in 0 .. QueueLen
    BY <1>11, CoreAssumption
  <2> QED
    BY <1>1, <1>2, <1>5, <1>9, <1>10, <1>12, <2>1, <2>2 DEF TypeOK
<1>15. CrcTasks' /\ Counts'
  BY <1>1, <1>8, <1>9 DEF IInv, CrcTasks, Counts
<1> QED
  BY <1>12, <1>13, <1>14, <1>15 DEF IInv

\* S's part is in its FIFO, and M is told.
LEMMA SlaveSendPartKeeps == ASSUME TakingTurns, IInv, SlaveSendPart PROVE IInv'
<1> DEFINE f == RxM.frame
           n == FramePartSize(f)
           full == RawXfer.txdev.ofs >= RawXfer.txdev.len
<1>1. /\ Interrupt("TX") /\ TxS.frame.header_done /\ ~ TxS.frame.payload_done
      /\ tx_mng' = [tx_mng EXCEPT !["S"] = [TxS EXCEPT !.frame.payload_done = full]]
      /\ spi' = [RawXfer EXCEPT !.txdev = IF full THEN DevBuffer(0, 0) ELSE @]
      /\ sync_queue' = Edge(sync_queue)
      /\ xfer_type' = xfer_type /\ rx_mng' = rx_mng /\ crc_unmatch' = crc_unmatch
      /\ cs_last_frame_info' = cs_last_frame_info
      /\ rx_queue' = rx_queue /\ tx_queue' = tx_queue
      /\ crc_task' = crc_task /\ sync_task' = sync_task
      /\ writer' = writer /\ reader' = reader /\ sent' = sent /\ got' = got
      /\ rx_data_buffer' = [rx_data_buffer EXCEPT !["S"] = RawBuffer]
  BY DEF SlaveSendPart, WithEdge, Interrupt, queues, apps, TxS
<1>2. TypeOK /\ TxS \in ManagerType /\ spi \in SpiType
  BY Managers DEF IInv
<1>3. STurn /\ SPart
  BY <1>1, SlaveSendInterrupt DEF SDone, SNextFrame, Full, Fresh
<1>4. /\ f.payload \in Nat /\ f.handled \in Nat /\ f.len \in Nat /\ f.handled < f.len
      /\ TxS.frame.payload = f.payload /\ TxS.frame.len = f.len
  BY <1>2, <1>3, Managers, SliceFits, SameSlice DEF SPart, Together
<1>5. /\ n \in Nat /\ 1 <= n /\ n <= FifoDepth /\ n = AtMost(f.len - f.handled, FifoDepth)
      /\ n <= f.len - f.handled
      /\ FramePartBase(f) = f.payload + f.handled /\ FramePartBase(f) \in Nat
  BY <1>4, LenAssumption DEF FramePartSize, FramePartBase, AtMost, TakingTurns
<1> HIDE DEF n
<1>6. sent["S"] # <<>>
  BY <1>2, <1>3 DEF STurn, SAlone, Open, Peer, TypeOK, Side
<1>7. /\ spi.txdev.base = f.payload /\ spi.txdev.len = f.len /\ spi.txdev.ofs = f.handled
      /\ Remaining(spi.txdev) = f.len - f.handled /\ ~ spi.rxon /\ spi.txon
  BY <1>3, <1>4 DEF SPart, SSends, Remaining
<1>8. ~ Receives /\ Transmits
  BY <1>4, <1>7 DEF Receives, Transmits
<1>9. PICK ws \in Seq(WordType) : ws = Words("S", FramePartBase(f), n) /\ Len(ws) = n
  <2>1. /\ Words("S", FramePartBase(f), n) \in Seq(WordType)
        /\ Len(Words("S", FramePartBase(f), n)) = n
    BY <1>2, <1>5, <1>6, PieceWords DEF Side
  <2> QED
    BY <2>1
<1>10. RawXfer = [spi EXCEPT !.txf = ws, !.rxf = <<>>, !.txdev.ofs = f.handled + n]
  <2>1. AtMost(Remaining(spi.txdev), FifoDepth) = n
    BY <1>5, <1>7
  <2>2. spi.txdev.base + spi.txdev.ofs = FramePartBase(f)
    BY <1>5, <1>7
  <2>3. [k \in DOMAIN TxWords("S", FramePartBase(f), n) |->
            Data(TxWords("S", FramePartBase(f), n)[k])] = ws
    BY <1>2, <1>5, <1>6, <1>9, PieceWords DEF Side
  <2>4. RawXfer = [spi EXCEPT !.txf = ws, !.rxf = <<>>, !.txdev.ofs = @ + n]
    BY <1>8, <2>1, <2>2, <2>3 DEF RawXfer
  <2> QED
    BY <1>2, <1>7, <2>4 DEF SpiType, DevBufferType
<1>11. /\ RawXfer \in SpiType /\ RawXfer.txf = ws /\ RawXfer.rxf = <<>>
       /\ RawXfer.txdev.base = f.payload /\ RawXfer.txdev.len = f.len
       /\ RawXfer.txdev.ofs = f.handled + n
       /\ ~ RawXfer.rxon /\ RawXfer.txon /\ RawXfer.rxint = spi.rxint
       /\ RawXfer.thres = spi.thres
  <2>1. f.handled + n \in Nat /\ <<>> \in Seq(WordType)
    BY <1>4, <1>5
  <2>2. RawXfer.txdev = [spi.txdev EXCEPT !.ofs = f.handled + n]
    BY <1>2, <1>10 DEF SpiType
  <2>3. /\ RawXfer.txdev \in DevBufferType /\ RawXfer.txdev.base = f.payload
        /\ RawXfer.txdev.len = f.len /\ RawXfer.txdev.ofs = f.handled + n
    BY <1>2, <1>7, <2>1, <2>2 DEF SpiType, DevBufferType
  <2>4. RawXfer = [spi EXCEPT !.txf = ws, !.rxf = <<>>, !.txdev = RawXfer.txdev]
    BY <1>2, <1>10, <2>2 DEF SpiType
  <2> QED
    BY <1>2, <1>7, <1>9, <2>1, <2>3, <2>4 DEF SpiType
<1>12. full <=> f.handled + n = f.len
  BY <1>4, <1>5, <1>11
<1>13. /\ spi' \in SpiType /\ spi'.txf = ws /\ spi'.rxf = <<>>
       /\ ~ spi'.rxon /\ spi'.txon /\ spi'.rxint = spi.rxint /\ spi'.thres = spi.thres
       /\ full => Remaining(spi'.txdev) = 0
       /\ ~ full => /\ spi'.txdev.base = f.payload /\ spi'.txdev.len = f.len
                    /\ spi'.txdev.ofs = f.handled + n
  <2> HIDE DEF full
  <2>1. DevBuffer(0, 0) \in DevBufferType /\ Remaining(DevBuffer(0, 0)) = 0
    BY DEF DevBuffer, DevBufferType, Remaining
  <2>2. RawXfer.txdev \in DevBufferType
    BY <1>11 DEF SpiType
  <2>3. PICK d \in DevBufferType : d = IF full THEN DevBuffer(0, 0) ELSE RawXfer.txdev
    BY <2>1, <2>2
  <2>4. spi' = [RawXfer EXCEPT !.txdev = d]
    BY <1>1, <1>11, <2>3 DEF SpiType
  <2>5. /\ spi' \in SpiType /\ spi'.txdev = d /\ spi'.txf = ws /\ spi'.rxf = <<>>
        /\ ~ spi'.rxon /\ spi'.txon /\ spi'.rxint = spi.rxint /\ spi'.thres = spi.thres
    BY <1>11, <2>4 DEF SpiType
  <2> QED
    BY <1>11, <2>1, <2>3, <2>5
<1> HIDE DEF full
<1>14. PICK y : y = [TxS EXCEPT !.frame.payload_done = full]
  OBVIOUS
<1>15. full \in BOOLEAN
  BY DEF full
<1>16. /\ y \in ManagerType /\ SameSpan(TxS, y) /\ y.state = TxS.state
       /\ y.frame.payload_done = full /\ y.frame.header_done = TxS.frame.header_done
       /\ y.frame.crc_done = TxS.frame.crc_done
  BY <1>2, <1>14, <1>15 DEF ManagerType, FrameType, SameSpan, SameWalk
<1>17. TxS' = y /\ TxM' = TxM /\ tx_mng' \in [Side -> ManagerType] /\ RxM' = RxM /\ RxS' = RxS
  BY <1>1, <1>2, <1>14, <1>16, TxSSet, RxSame
<1>18. sync_queue' = 1
  BY <1>1, <1>3, CoreAssumption DEF SPart, NoEdgeOut, Edge
<1>19. rx_data_buffer' = rx_data_buffer
  BY <1>1, <1>2, <1>8, BufferStays DEF RawBuffer
<1>20. Stage'
  <2>1. /\ Size("S")' = Size("S") /\ \A k : Arrived("M", k)' <=> Arrived("M", k)
        /\ \A ofs, k : Words("S", ofs, k)' = Words("S", ofs, k)
    BY <1>1, <1>19, SameApps, SameBuffer DEF Side
  <2>2. Together(TxS', RxM') /\ TxS'.xfer_size = TxS.xfer_size
        /\ TxS'.frame.payload = f.payload /\ TxS'.frame.len = f.len
    BY <1>3, <1>4, <1>16, <1>17 DEF SPart, SameSpan, SameWalk, Together, Slice, Package
  <2>3. MBusy' /\ SSends'
    BY <1>1, <1>3, <1>13, <1>16, <1>17, <2>1, <2>2 DEF SPart, MBusy, SSends
  <2>4. TxS'.frame.header_done /\ ~ TxS'.frame.crc_done /\ TxS'.frame.payload_done = full
    BY <1>3, <1>16, <1>17 DEF SPart, Parts
  <2>5. spi'.txf = Words("S", FramePartBase(RxM.frame), FramePartSize(RxM.frame))'
    BY <1>9, <1>13, <1>17, <2>1 DEF n
  <2>6. IF TxS'.frame.payload_done
        THEN /\ f.handled + n = f.len /\ Remaining(spi'.txdev) = 0
        ELSE /\ f.handled + n < f.len
             /\ spi'.txdev.base = TxS'.frame.payload /\ spi'.txdev.len = TxS'.frame.len
             /\ spi'.txdev.ofs = f.handled + n
    <3>1. CASE full
      BY <1>12, <1>13, <2>4, <3>1
    <3>2. CASE ~ full
      <4>1. f.handled + n < f.len
        BY <1>4, <1>5, <1>12, <3>2
      <4> QED
        BY <1>13, <2>2, <2>4, <3>2, <4>1
    <3> QED
      BY <3>1, <3>2
  <2>7. EdgeOut' /\ ~ spi'.rxint
    BY <1>1, <1>3, <1>13, <1>18 DEF SPart, EdgeOut, NoEdgeOut
  <2>8. SWords'
    BY <1>1, <1>3, <1>4, <1>13, <1>17, <2>1, <2>2, <2>3, <2>4, <2>5, <2>6, <2>7 DEF SPart, SWords, n
  <2>9. SAlone'
    BY <1>1, <1>3, SAloneStill DEF STurn
  <2> QED
    BY <2>8, <2>9 DEF Stage, STurn
<1>21. TypeOK'
  <2>1. Len(spi'.txf) <= FifoDepth /\ Len(spi'.rxf) <= FifoDepth
    BY <1>5, <1>9, <1>13, OneWord
  <2>2. sync_queue' \in 0 .. QueueLen
    BY <1>18, CoreAssumption
  <2> QED
    BY <1>1, <1>2, <1>13, <1>17, <1>19, <2>1, <2>2 DEF TypeOK
<1>22. CrcTasks' /\ Counts' /\ Requests'
  BY <1>1, <1>16, <1>17, RequestsStay DEF IInv, CrcTasks, Counts
<1> QED
  BY <1>20, <1>21, <1>22 DEF IInv

\* The checksum of a frame S has sent is not ready: S waits for it.
LEMMA SlaveCrcNotReadyKeeps == ASSUME TakingTurns, IInv, SlaveCrcNotReady PROVE IInv'
<1>1. /\ Interrupt("TX") /\ TxS.frame.header_done /\ TxS.frame.payload_done
      /\ ~ TxS.frame.crc_done
      /\ tx_mng' = [tx_mng EXCEPT !["S"] = [TxS EXCEPT !.state = "CRC"]]
      /\ spi' = [RawXfer EXCEPT !.txint = FALSE] /\ sync_queue' = sync_queue
      /\ xfer_type' = xfer_type /\ rx_mng' = rx_mng /\ crc_unmatch' = crc_unmatch
      /\ cs_last_frame_info' = cs_last_frame_info
      /\ rx_queue' = rx_queue /\ tx_queue' = tx_queue
      /\ crc_task' = crc_task /\ sync_task' = sync_task
      /\ writer' = writer /\ reader' = reader /\ sent' = sent /\ got' = got
      /\ rx_data_buffer' = [rx_data_buffer EXCEPT !["S"] = RawBuffer]
  BY DEF SlaveCrcNotReady, NoEdge, Interrupt, queues, apps, TxS
<1>2. TypeOK /\ TxS \in ManagerType /\ spi \in SpiType
  BY Managers DEF IInv
<1>3. STurn /\ SDone /\ xfer_type["S"] = "TX"
  BY <1>1, SlaveSendInterrupt DEF SPart, SNextFrame, Parts, Fresh
<1>4. RawXfer = spi /\ rx_data_buffer' = rx_data_buffer
  BY <1>1, <1>2, <1>3, NothingMoves, BufferStays DEF SDone, Receives, Transmits
<1>5. PICK y : y = [TxS EXCEPT !.state = "CRC"]
  OBVIOUS
<1>6. y \in ManagerType /\ SameFrame(TxS, y) /\ y.state = "CRC"
  BY <1>2, <1>5 DEF ManagerType, SameFrame, SameFlags, SameSpan, SameWalk
<1>7. TxS' = y /\ TxM' = TxM /\ tx_mng' \in [Side -> ManagerType] /\ RxM' = RxM /\ RxS' = RxS
  BY <1>1, <1>2, <1>5, <1>6, TxSSet, RxSame
<1>8. /\ spi' \in SpiType /\ spi'.txf = spi.txf /\ spi'.rxf = spi.rxf /\ ~ spi'.txint
      /\ spi'.rxint = spi.rxint /\ spi'.rxon = spi.rxon /\ spi'.thres = spi.thres
      /\ spi'.txdev = spi.txdev
  BY <1>1, <1>2, <1>4 DEF SpiType
<1>9. Stage'
  <2>1. Size("S")' = Size("S") /\ \A k : Arrived("M", k)' <=> Arrived("M", k)
    BY <1>1, <1>4, SameApps, SameBuffer DEF Side
  <2>2. Together(TxS', RxM') /\ TxS'.xfer_size = TxS.xfer_size /\ Full(TxS'.frame)
    BY <1>3, <1>6, <1>7
       DEF SDone, SameFrame, SameFlags, SameSpan, SameWalk, Together, Slice, Package, Full
  <2>3. SDone'
    BY <1>1, <1>3, <1>7, <1>8, <2>1, <2>2 DEF SDone, MBusy, NoEdgeOut
  <2>4. SAlone'
    BY <1>1, <1>3, SAloneStill DEF STurn
  <2> QED
    BY <2>3, <2>4 DEF Stage, STurn
<1>10. TypeOK'
  BY <1>1, <1>2, <1>4, <1>7, <1>8 DEF TypeOK
<1>11. CrcTasks' /\ Counts' /\ Requests'
  BY <1>1, <1>3, <1>7, RequestsStay DEF IInv, CrcTasks, Counts
<1> QED
  BY <1>9, <1>10, <1>11 DEF IInv

\* S sends the checksum of a frame, and goes on to the next or is through.
LEMMA SlaveSendCrcKeeps == ASSUME TakingTurns, IInv, SlaveSendCrc PROVE IInv'
<1> DEFINE x == [TxS EXCEPT !.frame.crc_done = TRUE, !.frame.crc_valid = FALSE]
           s == spi_write(RawXfer, Checksum(TxS.frame.crc))
<1>1. /\ Interrupt("TX") /\ TxS.frame.header_done /\ TxS.frame.payload_done
      /\ ~ TxS.frame.crc_done
      /\ tx_frame_done("S", x, "SLV_TX_DONE")
      /\ spi' = (IF IsLastFrame(TxS) THEN [s EXCEPT !.rxint = TRUE, !.txint = FALSE] ELSE s)
      /\ sync_queue' = Edge(sync_queue)
      /\ rx_mng' = rx_mng /\ crc_unmatch' = crc_unmatch
      /\ cs_last_frame_info' = cs_last_frame_info /\ rx_queue' = rx_queue
      /\ crc_task' = crc_task /\ sync_task' = sync_task
      /\ writer' = writer /\ reader' = reader /\ sent' = sent /\ got' = got
      /\ rx_data_buffer' = [rx_data_buffer EXCEPT !["S"] = RawBuffer]
  BY DEF SlaveSendCrc, WithEdge, Interrupt, apps, TxS
<1>2. TypeOK /\ TxS \in ManagerType /\ TxS.frame \in FrameType /\ spi \in SpiType
  BY Managers DEF IInv
<1>3. STurn /\ SDone /\ xfer_type["S"] = "TX" /\ spi.txint
  BY <1>1, SlaveSendInterrupt DEF SPart, SNextFrame, Parts, Fresh
<1>4. RawXfer = spi /\ rx_data_buffer' = rx_data_buffer
  BY <1>1, <1>2, <1>3, NothingMoves, BufferStays DEF SDone, Receives, Transmits
<1>5. Package(TxS) /\ Together(TxS, RxM) /\ TxS.state # "CRC"
  BY <1>3 DEF SDone, Together, Slice
<1>6. x \in ManagerType /\ SameSpan(TxS, x) /\ x.state = TxS.state
  BY <1>2 DEF ManagerType, FrameType, SameSpan, SameWalk
<1> HIDE DEF x
<1>7. Package(x) /\ (IsLastFrame(x) <=> IsLastFrame(TxS))
      /\ (IsLastFrame(RxM) <=> IsLastFrame(TxS))
  BY <1>5, <1>6 DEF Together, Slice, Package, IsLastFrame, SameSpan, SameWalk
<1>8. /\ tx_mng' \in [Side -> ManagerType] /\ TxM' = TxM /\ xfer_type'["M"] = xfer_type["M"]
      /\ xfer_type' \in [Side -> {"INVALID", "RX", "TX", "SLV_TX_DONE"}]
      /\ tx_queue' \in [Side -> 0 .. QueueLen]
      /\ \/ AtNextFrame(x, TxS') /\ xfer_type'["S"] = xfer_type["S"]
         \/ IsLastFrame(x) /\ xfer_type'["S"] = "SLV_TX_DONE" /\ TxS'.state = "IDLE"
  BY <1>1, <1>2, <1>6, <1>7, TxFrameDone DEF Side, TxM, TxS
<1>9. RxM' = RxM /\ RxS' = RxS
  BY <1>1, RxSame
<1>10. PICK w \in WordType : w = Checksum(TxS.frame.crc) /\ IsChecksum(<<w>>)
  <2>1. Checksum(TxS.frame.crc) \in WordType /\ IsChecksum(<<Checksum(TxS.frame.crc)>>)
    BY <1>2 DEF Checksum, WordType, FrameType, IsChecksum
  <2> QED
    BY <2>1
<1>11. /\ spi' \in SpiType /\ spi'.txf = <<w>> /\ spi'.rxf = <<>> /\ ~ spi'.rxon
       /\ ~ spi'.txon /\ spi'.thres = spi.thres
       /\ spi'.rxint = (IF IsLastFrame(TxS) THEN TRUE ELSE spi.rxint)
       /\ spi'.txint = (IF IsLastFrame(TxS) THEN FALSE ELSE spi.txint)
  <2>1. s = [spi EXCEPT !.txf = <<w>>, !.rxf = <<>>, !.rxon = FALSE, !.txon = FALSE]
    BY <1>4, <1>10 DEF spi_write
  <2>2. <<w>> \in Seq(WordType) /\ <<>> \in Seq(WordType)
    BY <1>10
  <2>3. /\ s \in SpiType /\ s.txf = <<w>> /\ s.rxf = <<>> /\ ~ s.rxon /\ ~ s.txon
        /\ s.thres = spi.thres /\ s.rxint = spi.rxint /\ s.txint = spi.txint
    BY <1>2, <2>1, <2>2 DEF SpiType
  <2> HIDE DEF s
  <2>4. CASE IsLastFrame(TxS)
    BY <1>1, <2>3, <2>4 DEF SpiType
  <2>5. CASE ~ IsLastFrame(TxS)
    BY <1>1, <2>3, <2>5
  <2> QED
    BY <2>4, <2>5
<1>12. sync_queue' = 1
  BY <1>1, <1>3, CoreAssumption DEF SDone, NoEdgeOut, Edge
<1>13. Stage'
  <2>1. Size("S")' = Size("S") /\ \A k : Arrived("M", k)' <=> Arrived("M", k)
    BY <1>1, <1>4, SameApps, SameBuffer DEF Side
  <2>2. \/ SNextFrame'
        \/ /\ SEnds' /\ IsLastFrame(RxM') /\ xfer_type'["S"] = "SLV_TX_DONE"
           /\ spi'.rxf = <<>>
    <3>1. CASE AtNextFrame(x, TxS') /\ xfer_type'["S"] = xfer_type["S"]
      <4>1. /\ OneAhead(TxS', RxM) /\ Fresh(TxS'.frame) /\ TxS'.frame.header = TxS'.frame.len
            /\ TxS'.state # "CRC" /\ ~ IsLastFrame(RxM)
        BY <1>5, <1>6, <1>7, <3>1
           DEF AtNextFrame, Together, OneAhead, Slice, Package, SameSpan, SameWalk
      <4>2. TxS'.xfer_size = Size("S")
        BY <1>3, <1>5, <4>1 DEF SDone, OneAhead, Together
      <4> QED
        BY <1>3, <1>7, <1>9, <1>11, <2>1, <3>1, <4>1, <4>2 DEF SDone, SNextFrame, SSends
    <3>2. CASE IsLastFrame(x) /\ xfer_type'["S"] = "SLV_TX_DONE" /\ TxS'.state = "IDLE"
      BY <1>3, <1>7, <1>9, <1>11, <3>2 DEF SDone, SEnds
    <3> QED
      BY <1>8, <3>1, <3>2
  <2>3. Slice(RxM) /\ RxM.xfer_size = Size("S")
    BY <1>3 DEF SDone, Together
  <2>4. EdgeOut' /\ MBusy'
    BY <1>1, <1>3, <1>8, <1>9, <1>12 DEF SDone, NoEdgeOut, EdgeOut, MBusy
  <2>5. IsChecksum(spi'.txf)
    BY <1>10, <1>11
  <2>6. SCrc'
    BY <1>1, <1>3, <1>9, <2>1, <2>2, <2>3, <2>4, <2>5 DEF SDone, SCrc
  <2>7. SAlone'
    BY <1>1, <1>3, SAloneStill DEF STurn
  <2> QED
    BY <2>6, <2>7 DEF Stage, STurn
<1>14. TypeOK'
  <2>1. Len(spi'.txf) <= FifoDepth /\ Len(spi'.rxf) <= FifoDepth
    BY <1>11, OneWord
  <2>2. sync_queue' \in 0 .. QueueLen
    BY <1>12, CoreAssumption
  <2> QED
    BY <1>1, <1>2, <1>4, <1>8, <1>11, <2>1, <2>2 DEF TypeOK
<1>15. CrcTasks' /\ Counts' /\ Requests'
  BY <1>1, <1>3, <1>5, <1>6, <1>8, <1>9, RequestsStay DEF IInv, CrcTasks, Counts, AtNextFrame
<1> QED
  BY <1>13, <1>14, <1>15 DEF IInv

\* M has clocked the last checksum: S throws away what came in, and is through.
LEMMA SlaveTxDoneKeeps == ASSUME TakingTurns, IInv, SlaveTxDone PROVE IInv'
<1>1. /\ IrqPending /\ xfer_type["S"] = "SLV_TX_DONE"
      /\ xfer_type' = [xfer_type EXCEPT !["S"] = "INVALID"]
      /\ spi' = [RawXfer EXCEPT !.rxf = <<>>] /\ sync_queue' = sync_queue
      /\ tx_mng' = tx_mng /\ rx_mng' = rx_mng /\ crc_unmatch' = crc_unmatch
      /\ cs_last_frame_info' = cs_last_frame_info
      /\ rx_queue' = rx_queue /\ tx_queue' = tx_queue
      /\ crc_task' = crc_task /\ sync_task' = sync_task
      /\ writer' = writer /\ reader' = reader /\ sent' = sent /\ got' = got
      /\ rx_data_buffer' = [rx_data_buffer EXCEPT !["S"] = RawBuffer]
  BY DEF SlaveTxDone, NoEdge, Interrupt, queues, apps
<1>2. TypeOK /\ spi \in SpiType
  BY Managers DEF IInv
<1>3. \/ STurn /\ (SCrc \/ SRead \/ SDelivered) /\ SEnds
      \/ Pause /\ SThrough /\ reader["S"] = "idle" /\ xfer_type["M"] = "INVALID"
                /\ sync_task = "wait"
  BY <1>1
     DEF IInv, Stage, MTurn, STurn, Pause, MFilled, MClaimed, MHeader, MPart, MWords, MFull, MCrc,
         MEdge, MFrame, MLast, MDelivered, SFilled, SClaimed, SHeader, SPart, SWords, SDone, SCrc,
         SRead, SFrame, SDelivered, SFull, SNext, SBusy, SGoesOn, SNextFrame, SSends, SThrough
<1>4. SEnds
  BY <1>3 DEF SThrough
<1>5. spi.rxf # <<>>
  BY <1>1, <1>4 DEF SEnds, IrqPending, RxPending, TxPending
<1>6. \/ STurn /\ (SRead \/ SDelivered)
      \/ Pause /\ SThrough /\ reader["S"] = "idle" /\ xfer_type["M"] = "INVALID"
                /\ sync_task = "wait"
  BY <1>1, <1>3, <1>5 DEF SCrc, SNextFrame, SSends
<1>7. SThrough
  BY <1>1, <1>6 DEF SRead, SDelivered, SGoesOn, SNextFrame, SSends
<1>8. RawXfer = spi /\ rx_data_buffer' = rx_data_buffer
  BY <1>1, <1>2, <1>4, NothingMoves, BufferStays DEF SEnds, Receives, Transmits
<1>9. /\ spi' \in SpiType /\ spi'.txf = spi.txf /\ spi'.rxf = <<>> /\ spi'.txint = spi.txint
      /\ spi'.rxint = spi.rxint /\ spi'.rxon = spi.rxon /\ spi'.txon = spi.txon
      /\ spi'.thres = spi.thres
  <2>1. <<>> \in Seq(WordType)
    OBVIOUS
  <2> QED
    BY <1>1, <1>2, <1>8, <2>1 DEF SpiType
<1>10. /\ xfer_type'["S"] = "INVALID" /\ xfer_type'["M"] = xfer_type["M"]
       /\ xfer_type' \in [Side -> {"INVALID", "RX", "TX", "SLV_TX_DONE"}]
  BY <1>1, <1>2 DEF TypeOK, Side
<1>11. TxS' = TxS /\ TxM' = TxM /\ RxM' = RxM /\ RxS' = RxS
  BY <1>1, TxSame, RxSame
<1>12. SThrough'
  BY <1>1, <1>7, <1>9, <1>10, <1>11 DEF SThrough, SEnds
<1>13. Stage'
  <2>1. /\ Size("S")' = Size("S") /\ \A k : Arrived("M", k)' <=> Arrived("M", k)
        /\ Even("M")' <=> Even("M")
        /\ Even("S")' <=> Even("S")
    BY <1>1, <1>8, SameApps, SameBuffer DEF Side
  <2>2. ASSUME STurn PROVE SAlone'
    BY <1>1, <2>2, SAloneStill DEF STurn
  <2>3. ASSUME STurn, SRead PROVE SRead'
    <3>1. IsLastFrame(RxM)
      BY <1>1, <2>3 DEF SRead, SGoesOn, SNextFrame, SSends
    <3>2. MBusy' <=> MBusy
      BY <1>1, <1>10, <1>11 DEF MBusy
    <3> QED
      BY <1>1, <1>11, <1>12, <2>1, <2>3, <3>1, <3>2 DEF SRead
  <2>4. ASSUME STurn, SDelivered PROVE SDelivered'
    BY <1>1, <1>10, <1>12, <2>1, <2>4 DEF SDelivered
  <2>5. ASSUME Pause, reader["S"] = "idle", xfer_type["M"] = "INVALID", sync_task = "wait"
        PROVE  Pause'
    BY <1>1, <1>10, <1>12, <2>1, <2>5 DEF Pause
  <2> QED
    BY <1>6, <2>2, <2>3, <2>4, <2>5 DEF Stage, STurn
<1>14. TypeOK'
  <2>1. Len(spi'.txf) <= FifoDepth /\ Len(spi'.rxf) <= FifoDepth
    BY <1>2, <1>9, OneWord DEF TypeOK
  <2> QED
    BY <1>1, <1>2, <1>8, <1>9, <1>10, <2>1 DEF TypeOK
<1>15. CrcTasks' /\ Counts' /\ Requests'
  BY <1>1, <1>10, <1>11, RequestsStay DEF IInv, CrcTasks, Counts
<1> QED
  BY <1>13, <1>14, <1>15 DEF IInv

-----------------------------------------------------------------------------
(* S's interrupt while it receives.                                        *)

\* S installs a buffer to receive the frame f into.
LEMMA BufferInstalled ==
    ASSUME spi \in SpiType, NEW f \in FrameType, 1 <= f.len,
           spi' = [InstallRx(spi_read(spi), f) EXCEPT !.thres = Threshold(f.len)]
    PROVE  /\ spi' \in SpiType /\ spi'.rxf = <<>> /\ spi'.txf = spi.txf
           /\ spi'.rxint = spi.rxint /\ spi'.txint = spi.txint
           /\ spi'.rxon /\ ~ spi'.txon /\ spi'.thres = Threshold(f.len)
           /\ spi'.rxdev.base = f.payload /\ spi'.rxdev.len = f.len /\ spi'.rxdev.ofs = 0
<1>1. PICK d : d = DevBuffer(f.payload, f.len)
  OBVIOUS
<1>2. d \in DevBufferType /\ d.base = f.payload /\ d.len = f.len /\ d.ofs = 0
  BY <1>1 DEF DevBuffer, DevBufferType, FrameType
<1>3. PICK t \in Nat : t = Threshold(f.len)
  <2>1. f.len \in Nat
    BY DEF FrameType
  <2>2. Threshold(f.len) \in Nat
    BY <2>1, LenAssumption DEF Threshold
  <2> QED
    BY <2>2
<1>4. spi' = [spi EXCEPT !.rxf = <<>>, !.rxon = TRUE, !.txon = FALSE, !.rxdev = d, !.thres = t]
  BY <1>1, <1>3 DEF InstallRx, spi_read, SpiType
<1>5. <<>> \in Seq(WordType)
  OBVIOUS
<1> QED
  BY <1>2, <1>3, <1>4, <1>5 DEF SpiType

\* S is set up for a frame of M's package, whose first part comes next.
LEMMA PartExpected ==
    ASSUME IInv, MTurn, MSends, writer["M"] \in {"request", "idle"}, NEW y \in ManagerType,
           Together(TxM, y), Parts(TxM.frame), TxM.frame.handled = 0, Parts(y.frame),
           y.state \notin {"CRC", "DONE"}, Compared(y),
           Listening, spi.rxint, NoEdgeOut, rx_queue["S"] = <<>>,
           crc_task["S"].pc # "rx_indicated", Arrived("S", TxM.frame.payload),
           TxS.state # "CRC",
           rx_mng' = [rx_mng EXCEPT !["S"] = y],
           xfer_type' = [xfer_type EXCEPT !["S"] = "RX"],
           spi' = [InstallRx(spi_read(spi), y.frame) EXCEPT !.thres = Threshold(y.frame.len)],
           sync_queue' = Edge(sync_queue),
           tx_mng' = tx_mng, crc_unmatch' = crc_unmatch,
           cs_last_frame_info' = cs_last_frame_info, rx_queue' = rx_queue, tx_queue' = tx_queue,
           crc_task' = crc_task, sync_task' = sync_task, writer' = writer, reader' = reader,
           sent' = sent, got' = got, rx_data_buffer' = rx_data_buffer
    PROVE  IInv'
<1>1. TypeOK /\ spi \in SpiType /\ y.frame \in FrameType
  BY Managers DEF IInv, ManagerType
<1>2. RxS' = y /\ RxM' = RxM /\ rx_mng' \in [Side -> ManagerType] /\ TxM' = TxM /\ TxS' = TxS
  BY <1>1, RxSSet, TxSame
<1>3. /\ y.frame.payload = TxM.frame.payload /\ y.frame.len = TxM.frame.len
      /\ TxM.frame.len \in Nat /\ 1 <= TxM.frame.len /\ TxM.frame.payload \in Nat
  BY <1>1, Managers, SameSlice, SliceFits DEF Together
<1>4. /\ spi' \in SpiType /\ spi'.rxf = <<>> /\ spi'.txf = spi.txf
      /\ spi'.rxint = spi.rxint /\ spi'.txint = spi.txint
      /\ spi'.rxon /\ ~ spi'.txon /\ spi'.thres = Threshold(y.frame.len)
      /\ spi'.rxdev.base = y.frame.payload /\ spi'.rxdev.len = y.frame.len
      /\ spi'.rxdev.ofs = 0
  BY <1>1, <1>3, BufferInstalled
<1>5. /\ xfer_type'["S"] = "RX" /\ xfer_type'["M"] = xfer_type["M"]
      /\ xfer_type' \in [Side -> {"INVALID", "RX", "TX", "SLV_TX_DONE"}]
  BY <1>1 DEF TypeOK, Side
<1>6. sync_queue' = 1
  BY CoreAssumption DEF NoEdgeOut, Edge
<1>7. Stage'
  <2>1. Size("M")' = Size("M") /\ \A k : Arrived("S", k)' <=> Arrived("S", k)
    BY SameApps, SameBuffer DEF Side
  <2>2. MSends'
    BY <1>2, <1>5, <2>1 DEF MSends
  <2>3. SBusy'
    BY <1>2, <1>4, <1>5 DEF SBusy, Listening
  <2>4. TxM.frame.len - TxM.frame.handled = y.frame.len
        /\ TxM.frame.payload + TxM.frame.handled = TxM.frame.payload
        /\ TxM.frame.handled < TxM.frame.len
    BY <1>3
  <2>5. EdgeOut'
    BY <1>6 DEF NoEdgeOut, EdgeOut
  <2>6. MPart'
    BY <1>2, <1>3, <1>4, <2>1, <2>2, <2>3, <2>4, <2>5 DEF MPart
  <2>7. MAlone'
    BY MAloneStill DEF MTurn
  <2> QED
    BY <2>6, <2>7 DEF Stage, MTurn
<1>8. TypeOK'
  <2>1. Len(spi'.txf) <= FifoDepth /\ Len(spi'.rxf) <= FifoDepth
    BY <1>1, <1>4, OneWord DEF TypeOK
  <2>2. sync_queue' \in 0 .. QueueLen
    BY <1>6, CoreAssumption
  <2> QED
    BY <1>1, <1>2, <1>4, <1>5, <2>1, <2>2 DEF TypeOK
<1>9. CrcTasks' /\ Counts' /\ Requests'
  BY <1>2, <1>5, RequestsStay DEF IInv, CrcTasks, Counts
<1> QED
  BY <1>7, <1>8, <1>9 DEF IInv

\* S finds the header of a package in its FIFO and sets up for it.
LEMMA SlavePackageInitKeeps == ASSUME TakingTurns, IInv, SlavePackageInit PROVE IInv'
<1> DEFINE w == WordRead(RawXfer)
           x == cascade_rx_first_frame_init(cascade_receiver_init(RxS, HeaderLen(w)))
           s == [InstallRx(spi_read(RawXfer), x.frame) EXCEPT !.thres = Threshold(x.frame.len)]
<1>1. /\ IrqPending /\ xfer_type["S"] = "INVALID"
      /\ IF IsHeader(w)
         THEN rx_mng' = [rx_mng EXCEPT !["S"] = x] /\ spi' = s /\ sync_queue' = Edge(sync_queue)
         ELSE rx_mng' = rx_mng /\ spi' = spi_read(RawXfer) /\ sync_queue' = sync_queue
      /\ xfer_type' = [xfer_type EXCEPT !["S"] = IF rx_mng'["S"].xfer_size > 0 THEN "RX" ELSE @]
      /\ tx_mng' = tx_mng /\ crc_unmatch' = crc_unmatch
      /\ cs_last_frame_info' = cs_last_frame_info
      /\ rx_queue' = rx_queue /\ tx_queue' = tx_queue
      /\ crc_task' = crc_task /\ sync_task' = sync_task
      /\ writer' = writer /\ reader' = reader /\ sent' = sent /\ got' = got
      /\ rx_data_buffer' = [rx_data_buffer EXCEPT !["S"] = RawBuffer]
  BY DEF SlavePackageInit, WithEdge, NoEdge, Interrupt, queues, apps, RxS
<1> HIDE DEF w, x, s
<1>2. TypeOK /\ TxM \in ManagerType /\ RxS \in ManagerType /\ spi \in SpiType
  BY Managers DEF IInv
<1>3. \/ MTurn /\ MHeader
      \/ AtRest
      \/ SThrough
  BY <1>1
     DEF IInv, Stage, MTurn, STurn, Pause, MFilled, MClaimed, MHeader, MPart, MWords, MFull, MCrc,
         MEdge, MFrame, MLast, MDelivered, SFilled, SClaimed, SHeader, SPart, SWords, SDone, SCrc,
         SRead, SFrame, SDelivered, SFull, SNext, SBusy, SGoesOn, SNextFrame, SSends
<1>4. MTurn /\ MHeader
  <2>1. ~ AtRest
    BY <1>1 DEF AtRest, Listening, IrqPending, RxPending, TxPending
  <2>2. ~ SThrough
    BY <1>1 DEF SThrough, SEnds, IrqPending, RxPending, TxPending
  <2> QED
    BY <1>3, <2>1, <2>2
<1>5. RawXfer = spi /\ rx_data_buffer' = rx_data_buffer
  BY <1>1, <1>2, <1>4, NothingMoves, BufferStays DEF MHeader, Listening, Receives, Transmits
<1>6. /\ Slice(TxM) /\ TxM.cur_frame_id = 0 /\ TxM.xfer_size \in Nat
      /\ 0 < TxM.xfer_size /\ TxM.xfer_size <= BufferSize
  BY <1>2, <1>4 DEF MHeader, Slice, Package, ManagerType
<1>7. IsHeader(w) /\ HeaderLen(w) = TxM.xfer_size
  BY <1>4, <1>5 DEF w, MHeader, WordRead, Header, IsHeader, HeaderLen
<1>8. /\ x \in ManagerType /\ Slice(x) /\ Parts(x.frame)
      /\ x.xfer_size = TxM.xfer_size /\ x.cur_frame_id = 0 /\ x.frame.handled = 0
      /\ x.state = "BUSY" /\ x.crc_done_cnt = 0 /\ ~ x.frame.crc_valid
  BY <1>2, <1>6, <1>7, RxFirst DEF x
<1>9. Together(TxM, x) /\ Compared(x)
  BY <1>6, <1>8 DEF Together, Compared, Reads, Parts
<1>10. /\ rx_mng' = [rx_mng EXCEPT !["S"] = x] /\ sync_queue' = Edge(sync_queue)
       /\ spi' = [InstallRx(spi_read(spi), x.frame) EXCEPT !.thres = Threshold(x.frame.len)]
  BY <1>1, <1>5, <1>7 DEF s
<1>11. xfer_type' = [xfer_type EXCEPT !["S"] = "RX"]
  <2>1. rx_mng'["S"].xfer_size > 0
    BY <1>2, <1>6, <1>8, <1>10 DEF TypeOK, Side
  <2> QED
    BY <1>1, <2>1
<1>12. Arrived("S", TxM.frame.payload)
  <2>1. TxM.frame.payload = 0
    BY <1>2, <1>6, FirstFrame DEF Slice, Package
  <2> QED
    BY <2>1 DEF Arrived
<1>13. crc_task["S"].pc # "rx_indicated" /\ TxS.state # "CRC"
  BY <1>1 DEF IInv, CrcTasks
<1> QED
  BY <1>1, <1>4, <1>5, <1>8, <1>9, <1>10, <1>11, <1>12, <1>13, PartExpected DEF MHeader

\* S is interrupted while it receives: a part, a checksum or a header has come.
LEMMA SlaveReceiveInterrupt ==
    ASSUME IInv, Interrupt("RX")
    PROVE  /\ MTurn /\ (MWords \/ MCrc \/ MFrame) /\ xfer_type["S"] = "RX"
           /\ RxS.state # "DONE" /\ Received = RxS /\ AfterDone = RawXfer /\ ~ BadPendingHeader
<1>1. xfer_type["S"] = "RX" /\ (RxPending \/ TxPending)
  BY DEF Interrupt, IrqPending
<1>2. MTurn /\ (MPart \/ MWords \/ MFull \/ MCrc \/ MEdge \/ MFrame \/ MLast)
  BY <1>1, SlaveReceives
<1>3. ~ MPart /\ ~ MFull /\ ~ MEdge /\ ~ MLast
  BY <1>1 DEF MPart, MFull, MEdge, MLast, SFull, SNext, SBusy, AtRest, Listening, RxPending,
              TxPending, SpiType, IInv, TypeOK
<1>4. RxS.state # "DONE"
  BY <1>2, <1>3 DEF MWords, MCrc, MFrame, SFull, SNext, SBusy
<1> QED
  BY <1>1, <1>2, <1>3, <1>4 DEF Received, AfterDone, BadPendingHeader, Done, RxS

\* S reads the header of the next frame.
LEMMA SlaveReadHeaderKeeps == ASSUME TakingTurns, IInv, SlaveReadHeader PROVE IInv'
<1> DEFINE w == WordRead(AfterDone)
           x == cascade_rx_next_frame_init(Received)
           s == [InstallRx(spi_read(AfterDone), x.frame) EXCEPT !.thres = Threshold(x.frame.len)]
<1>1. /\ Interrupt("RX") /\ (BadPendingHeader \/ ~ RxS.frame.header_done)
      /\ IF ~ BadPendingHeader /\ IsHeader(w) /\ HeaderLen(w) < 4 * BufferSize
         THEN rx_mng' = [rx_mng EXCEPT !["S"] = x] /\ spi' = s /\ sync_queue' = Edge(sync_queue)
         ELSE /\ rx_mng' = [rx_mng EXCEPT !["S"] = Received] /\ spi' = spi_read(AfterDone)
              /\ sync_queue' = sync_queue
      /\ xfer_type' = xfer_type
      /\ tx_mng' = tx_mng /\ crc_unmatch' = crc_unmatch
      /\ cs_last_frame_info' = cs_last_frame_info
      /\ rx_queue' = rx_queue /\ tx_queue' = tx_queue
      /\ crc_task' = crc_task /\ sync_task' = sync_task
      /\ writer' = writer /\ reader' = reader /\ sent' = sent /\ got' = got
      /\ rx_data_buffer' = [rx_data_buffer EXCEPT !["S"] = RawBuffer]
  BY DEF SlaveReadHeader, WithEdge, NoEdge, Interrupt, queues, apps, RxS
<1> HIDE DEF w, x, s
<1>2. TypeOK /\ TxM \in ManagerType /\ RxS \in ManagerType /\ spi \in SpiType
  BY Managers DEF IInv
<1>3. /\ MTurn /\ MFrame /\ xfer_type["S"] = "RX" /\ Received = RxS /\ AfterDone = RawXfer
      /\ ~ BadPendingHeader
  BY <1>1, SlaveReceiveInterrupt DEF MWords, MCrc, SFull, Parts, Full
<1>4. RawXfer = spi /\ rx_data_buffer' = rx_data_buffer
  BY <1>1, <1>2, <1>3, NothingMoves, BufferStays
     DEF MFrame, SNext, SBusy, Listening, Receives, Transmits
<1>5. OneAhead(TxM, RxS) /\ Package(RxS) /\ ~ IsLastFrame(RxS)
  BY <1>3 DEF MFrame, SNext
<1>6. /\ TxM.frame.len \in Nat /\ TxM.frame.len < 4 * BufferSize
      /\ TxM.frame.payload = (RxS.cur_frame_id + 1) * FrameLen
  <2>1. /\ TxM.frame.len \in Nat /\ TxM.frame.payload \in Nat /\ TxM.xfer_size \in Nat
        /\ TxM.frame.payload + TxM.frame.len <= TxM.xfer_size /\ TxM.xfer_size <= BufferSize
    BY <1>2, <1>5, SliceFits DEF OneAhead
  <2>2. TxM.frame.payload = (RxS.cur_frame_id + 1) * FrameLen
    BY <1>5 DEF OneAhead, Slice
  <2>3. TxM.frame.len < 4 * BufferSize
    BY <2>1, LenAssumption
  <2> QED
    BY <2>1, <2>2, <2>3
<1>7. IsHeader(w) /\ HeaderLen(w) = TxM.frame.len
  BY <1>3, <1>4 DEF w, MFrame, WordRead, Header, IsHeader, HeaderLen
<1>8. /\ x \in ManagerType /\ OneAhead(x, RxS) /\ Parts(x.frame) /\ x.state = RxS.state
      /\ x.frame.crc_valid = RxS.frame.crc_valid /\ x.crc_done_cnt = RxS.crc_done_cnt
  BY <1>2, <1>3, <1>5, RxNext DEF x
<1>9. Together(TxM, x)
  BY <1>5, <1>8 DEF Together, OneAhead
<1>10. Compared(x)
  <2>1. Compared(RxS) /\ ~ RxS.frame.header_done
    BY <1>3 DEF IInv, Counts, MFrame, SNext, Fresh
  <2> QED
    BY <1>2, <1>8, <2>1 DEF Compared, Reads, OneAhead, Parts, ManagerType
<1>11. /\ rx_mng' = [rx_mng EXCEPT !["S"] = x] /\ sync_queue' = Edge(sync_queue)
       /\ spi' = [InstallRx(spi_read(spi), x.frame) EXCEPT !.thres = Threshold(x.frame.len)]
  BY <1>1, <1>3, <1>4, <1>6, <1>7 DEF s
<1>12. xfer_type' = [xfer_type EXCEPT !["S"] = "RX"]
  BY <1>1, <1>2, <1>3 DEF TypeOK
<1>13. TxS.state # "CRC"
  BY <1>3 DEF IInv, CrcTasks
<1> QED
  BY <1>1, <1>3, <1>4, <1>6, <1>8, <1>9, <1>10, <1>11, <1>12, <1>13, PartExpected
     DEF MFrame, SNext, SBusy

\* The driver moves the part that has come into S's buffer, behind what has come
\* before.
LEMMA PartTaken ==
    ASSUME IInv, MTurn, MWords, sent' = sent,
           rx_data_buffer' = [rx_data_buffer EXCEPT !["S"] = RawBuffer]
    PROVE  /\ RxS.frame.payload \in Nat /\ RxS.frame.len \in Nat
           /\ spi.rxdev.base = RxS.frame.payload /\ spi.rxdev.len = RxS.frame.len
           /\ spi.rxdev.ofs \in Nat /\ PartWords \in Nat /\ 1 <= PartWords
           /\ spi.rxdev.ofs + PartWords <= RxS.frame.len
           /\ spi.rxdev.ofs + PartWords < RxS.frame.len => PartWords = PartLen
           /\ RawXfer \in SpiType /\ RawXfer.rxf = <<>> /\ RawXfer.txf = spi.txf
           /\ RawXfer.rxon /\ ~ RawXfer.txon /\ RawXfer.rxint = spi.rxint
           /\ RawXfer.txint = spi.txint /\ RawXfer.thres = spi.thres
           /\ RawXfer.rxdev.base = RxS.frame.payload /\ RawXfer.rxdev.len = RxS.frame.len
           /\ RawXfer.rxdev.ofs = spi.rxdev.ofs + PartWords
           /\ rx_data_buffer' \in [Side -> [0 .. BufferSize - 1 -> Nat]]
           /\ rx_data_buffer'["M"] = rx_data_buffer["M"]
           /\ \A k : k = RxS.frame.payload + (spi.rxdev.ofs + PartWords) => Arrived("S", k)'
<1> DEFINE n == PartWords
           o == spi.rxdev.ofs
           at == RxS.frame.payload + o
<1>1. TypeOK /\ TxM \in ManagerType /\ RxS \in ManagerType /\ spi \in SpiType
  BY Managers DEF IInv
<1>2. /\ spi.rxdev.base = RxS.frame.payload /\ spi.rxdev.len = RxS.frame.len
      /\ o < RxS.frame.len /\ spi.rxon /\ ~ spi.txon
      /\ spi.rxf = Words("M", spi.rxdev.base + spi.rxdev.ofs, PartWords)
      /\ Together(TxM, RxS) /\ Arrived("S", TxM.frame.payload + o)
  BY DEF MWords, SBusy, Listening
<1>3. /\ RxS.frame.payload \in Nat /\ RxS.frame.len \in Nat /\ RxS.xfer_size \in Nat
      /\ RxS.frame.payload + RxS.frame.len <= RxS.xfer_size /\ RxS.xfer_size <= BufferSize
      /\ TxM.frame.payload = RxS.frame.payload
  BY <1>1, <1>2, SliceFits, SameSlice DEF Together
<1>4. o \in Nat
  BY <1>1 DEF SpiType, DevBufferType
<1>5. /\ n \in Nat /\ 1 <= n /\ o + n <= RxS.frame.len
      /\ o + n < RxS.frame.len => n = PartLen
  BY <1>2, <1>3, <1>4, LenAssumption DEF PartWords, Remaining, AtMost
<1>6. Remaining(spi.rxdev) # 0
  BY <1>2, <1>3, <1>4 DEF Remaining
<1> HIDE DEF n
<1>7. sent["M"] # <<>>
  BY <1>1 DEF MTurn, MAlone, Open, Peer, TypeOK, Side
<1>8. /\ at \in Nat /\ spi.rxf = Words("M", at, n) /\ Len(spi.rxf) = n
      /\ at + n <= BufferSize
  <2>1. at \in Nat /\ at + n <= BufferSize
    BY <1>3, <1>4, <1>5, LenAssumption
  <2>2. spi.rxf = Words("M", at, n)
    BY <1>2 DEF n
  <2>3. Len(Words("M", at, n)) = n
    BY <1>1, <1>5, <1>7, <2>1, PieceWords DEF Side
  <2> QED
    BY <2>1, <2>2, <2>3
<1>9. Receives
  BY <1>2, <1>6 DEF Receives
<1>10. RawXfer = [spi EXCEPT !.rxf = <<>>, !.rxdev.ofs = o + n]
  <2>1. RawXfer = [spi EXCEPT !.rxf = <<>>, !.rxdev.ofs = @ + n,
                              !.txdev.ofs = IF spi.txon THEN @ + n ELSE @]
    BY <1>8, <1>9 DEF RawXfer
  <2>2. [spi EXCEPT !.rxf = <<>>, !.rxdev.ofs = @ + n,
                    !.txdev.ofs = IF spi.txon THEN @ + n ELSE @]
          = [spi EXCEPT !.rxf = <<>>, !.rxdev.ofs = o + n]
    BY <1>1, <1>2 DEF SpiType, DevBufferType
  <2> QED
    BY <2>1, <2>2
<1>11. /\ RawXfer \in SpiType /\ RawXfer.rxf = <<>> /\ RawXfer.txf = spi.txf
       /\ RawXfer.rxon /\ ~ RawXfer.txon /\ RawXfer.rxint = spi.rxint
       /\ RawXfer.txint = spi.txint /\ RawXfer.thres = spi.thres
       /\ RawXfer.rxdev.base = RxS.frame.payload /\ RawXfer.rxdev.len = RxS.frame.len
       /\ RawXfer.rxdev.ofs = o + n
  <2>1. o + n \in Nat /\ <<>> \in Seq(WordType)
    BY <1>4, <1>5
  <2>2. RawXfer.rxdev = [spi.rxdev EXCEPT !.ofs = o + n]
    BY <1>1, <1>10 DEF SpiType
  <2>3. /\ RawXfer.rxdev \in DevBufferType /\ RawXfer.rxdev.base = RxS.frame.payload
        /\ RawXfer.rxdev.len = RxS.frame.len /\ RawXfer.rxdev.ofs = o + n
    BY <1>1, <1>2, <2>1, <2>2 DEF SpiType, DevBufferType
  <2>4. RawXfer = [spi EXCEPT !.rxf = <<>>, !.rxdev = RawXfer.rxdev]
    BY <1>1, <1>10, <2>2 DEF SpiType
  <2> QED
    BY <1>1, <1>2, <2>1, <2>3, <2>4 DEF SpiType
<1>12. /\ rx_data_buffer' \in [Side -> [0 .. BufferSize - 1 -> Nat]]
       /\ rx_data_buffer'["M"] = rx_data_buffer["M"]
       /\ \A k : k = at + n => Arrived("S", k)'
  <2>1. RawBuffer = Stored(rx_data_buffer["S"], at, Words("M", at, n))
    BY <1>2, <1>8, <1>9 DEF RawBuffer
  <2>2. rx_data_buffer' = [rx_data_buffer EXCEPT !["S"] = Stored(@, at, Words(Peer("S"), at, n))]
    BY <2>1 DEF Peer
  <2>3. Arrived("S", at)
    BY <1>2, <1>3
  <2>4. PICK a \in Nat, m \in Nat : a = at /\ m = n
    BY <1>5, <1>8
  <2> HIDE DEF at
  <2>5. /\ a + m <= BufferSize /\ Arrived("S", a)
        /\ rx_data_buffer' = [rx_data_buffer EXCEPT !["S"] =
                                  Stored(@, a, Words(Peer("S"), a, m))]
    BY <1>8, <2>2, <2>3, <2>4
  <2>6. /\ rx_data_buffer' \in [Side -> [0 .. BufferSize - 1 -> Nat]]
        /\ rx_data_buffer'["M"] = rx_data_buffer["M"]
        /\ Arrived("S", a + m)'
    BY <1>1, <1>7, <2>5, StoredWords DEF Side, Peer
  <2> QED
    BY <2>4, <2>6
<1>13. at + n = RxS.frame.payload + (o + n)
  BY <1>3, <1>4, <1>5
<1>14. \A k : k = RxS.frame.payload + (o + n) => Arrived("S", k)'
  BY <1>12, <1>13
<1> QED
  BY <1>2, <1>3, <1>4, <1>5, <1>11, <1>12, <1>14 DEF n

\* S takes a part, and the checksum or the next part comes next.
LEMMA SlaveReadPartKeeps == ASSUME TakingTurns, IInv, SlaveReadPart PROVE IInv'
<1> DEFINE n == PartWords
           o == spi.rxdev.ofs
           full == RawXfer.rxdev.ofs >= RawXfer.rxdev.len
           left == Remaining(RawXfer.rxdev)
           s == IF full THEN [RawXfer EXCEPT !.rxdev = DevBuffer(0, 0), !.thres = 0]
                ELSE IF PartLen - 1 > left THEN [RawXfer EXCEPT !.thres = left - 1]
                ELSE RawXfer
<1>1. /\ Interrupt("RX") /\ RxS.frame.header_done /\ ~ RxS.frame.payload_done
  BY DEF SlaveReadPart, RxS
<1>2. TypeOK /\ TxM \in ManagerType /\ RxS \in ManagerType /\ spi \in SpiType
  BY Managers DEF IInv
<1>3. /\ MTurn /\ MWords /\ xfer_type["S"] = "RX" /\ Received = RxS /\ AfterDone = RawXfer
  BY <1>1, SlaveReceiveInterrupt DEF MFrame, MCrc, SFull, SNext, Fresh, Full
<1>4. /\ rx_mng' = [rx_mng EXCEPT !["S"] = [RxS EXCEPT !.frame.payload_done = full]]
      /\ spi' = s /\ sync_queue' = Edge(sync_queue)
      /\ xfer_type' = xfer_type
      /\ tx_mng' = tx_mng /\ crc_unmatch' = crc_unmatch
      /\ cs_last_frame_info' = cs_last_frame_info
      /\ rx_queue' = rx_queue /\ tx_queue' = tx_queue
      /\ crc_task' = crc_task /\ sync_task' = sync_task
      /\ writer' = writer /\ reader' = reader /\ sent' = sent /\ got' = got
      /\ rx_data_buffer' = [rx_data_buffer EXCEPT !["S"] = RawBuffer]
  BY <1>3 DEF SlaveReadPart, WithEdge, Interrupt, queues, apps
<1>5. /\ RxS.frame.payload \in Nat /\ RxS.frame.len \in Nat
      /\ spi.rxdev.base = RxS.frame.payload /\ spi.rxdev.len = RxS.frame.len
      /\ o \in Nat /\ n \in Nat /\ 1 <= n /\ o + n <= RxS.frame.len
      /\ o + n < RxS.frame.len => n = PartLen
      /\ RawXfer \in SpiType /\ RawXfer.rxf = <<>> /\ RawXfer.txf = spi.txf
      /\ RawXfer.rxon /\ ~ RawXfer.txon /\ RawXfer.rxint = spi.rxint
      /\ RawXfer.txint = spi.txint /\ RawXfer.thres = spi.thres
      /\ RawXfer.rxdev.base = RxS.frame.payload /\ RawXfer.rxdev.len = RxS.frame.len
      /\ RawXfer.rxdev.ofs = o + n
      /\ rx_data_buffer' \in [Side -> [0 .. BufferSize - 1 -> Nat]]
      /\ rx_data_buffer'["M"] = rx_data_buffer["M"]
      /\ \A k : k = RxS.frame.payload + (o + n) => Arrived("S", k)'
  BY <1>3, <1>4, PartTaken
<1>5a. /\ RxS.frame.payload \in Nat /\ RxS.frame.len \in Nat /\ o \in Nat /\ n \in Nat
       /\ 1 <= n /\ o + n <= RxS.frame.len
       /\ o + n < RxS.frame.len => n = PartLen
       /\ RawXfer.rxdev.len = RxS.frame.len /\ RawXfer.rxdev.ofs = o + n
  BY <1>5
<1>6. /\ TxM.frame.payload = RxS.frame.payload /\ TxM.frame.len = RxS.frame.len
      /\ TxM.frame.handled = o + n
      /\ spi.thres = Threshold(RxS.frame.len - o)
  BY <1>3, <1>5, SameSlice DEF MWords, Remaining
<1> HIDE DEF n, s, left
<1>7. /\ full <=> o + n = RxS.frame.len
      /\ left = RxS.frame.len - (o + n)
  BY <1>5a DEF left, Remaining
<1> HIDE DEF full
<1>8. full \in BOOLEAN
  BY DEF full
<1>9. PICK y : y = [RxS EXCEPT !.frame.payload_done = full]
  OBVIOUS
<1>10. /\ y \in ManagerType /\ SameSpan(RxS, y) /\ y.state = RxS.state
       /\ y.frame.payload_done = full /\ y.frame.header_done = RxS.frame.header_done
       /\ y.frame.crc_done = RxS.frame.crc_done /\ y.frame.crc_valid = RxS.frame.crc_valid
       /\ y.crc_done_cnt = RxS.crc_done_cnt
  BY <1>2, <1>8, <1>9 DEF ManagerType, FrameType, SameSpan, SameWalk
<1>11. /\ RxS' = y /\ RxM' = RxM /\ rx_mng' \in [Side -> ManagerType] /\ TxM' = TxM
       /\ TxS' = TxS
  BY <1>2, <1>4, <1>9, <1>10, RxSSet, TxSame
<1>12. sync_queue' = 1
  BY <1>3, <1>4, CoreAssumption DEF MWords, NoEdgeOut, Edge
<1>13. /\ spi' \in SpiType /\ spi'.rxf = <<>> /\ spi'.txf = spi.txf /\ spi'.rxon
       /\ ~ spi'.txon /\ spi'.rxint = spi.rxint /\ spi'.txint = spi.txint
       /\ full => Remaining(spi'.rxdev) = 0 /\ spi'.thres = 0
       /\ ~ full => /\ spi'.rxdev.base = RxS.frame.payload
                    /\ spi'.rxdev.len = RxS.frame.len /\ spi'.rxdev.ofs = o + n
                    /\ spi'.thres = Threshold(RxS.frame.len - (o + n))
  <2>1. CASE full
    <3>1. DevBuffer(0, 0) \in DevBufferType /\ Remaining(DevBuffer(0, 0)) = 0
      BY DEF DevBuffer, DevBufferType, Remaining
    <3>2. PICK d \in DevBufferType : d = DevBuffer(0, 0)
      BY <3>1
    <3>3. spi' = [RawXfer EXCEPT !.rxdev = d, !.thres = 0]
      BY <1>4, <2>1, <3>2 DEF s
    <3>4. /\ spi' \in SpiType /\ spi'.rxf = <<>> /\ spi'.txf = spi.txf /\ spi'.rxon
          /\ ~ spi'.txon /\ spi'.rxint = spi.rxint /\ spi'.txint = spi.txint
          /\ spi'.rxdev = d /\ spi'.thres = 0
      BY <1>5, <3>3 DEF SpiType
    <3> QED
      BY <2>1, <3>1, <3>2, <3>4
  <2>2. CASE ~ full
    <3>1. /\ n = PartLen /\ o + n < RxS.frame.len /\ left \in Nat /\ 1 <= left
          /\ RxS.frame.len - o = left + PartLen
      BY <1>7, <1>5a, <2>2
    <3>2. spi.thres = PartLen - 1
      BY <1>6, <3>1, LenAssumption DEF Threshold
    <3>3. CASE PartLen - 1 > left
      <4>1. PICK t \in Nat : t = left - 1
        BY <3>1
      <4>2. spi' = [RawXfer EXCEPT !.thres = t]
        BY <1>4, <2>2, <3>3, <4>1 DEF s
      <4>3. t = Threshold(RxS.frame.len - (o + n))
        BY <1>7, <3>3, <4>1 DEF Threshold
      <4>4. /\ spi' \in SpiType /\ spi'.rxf = <<>> /\ spi'.txf = spi.txf /\ spi'.rxon
            /\ ~ spi'.txon /\ spi'.rxint = spi.rxint /\ spi'.txint = spi.txint
            /\ spi'.rxdev = RawXfer.rxdev /\ spi'.thres = t
        BY <1>5, <4>2 DEF SpiType
      <4> QED
        BY <1>5, <2>2, <4>3, <4>4
    <3>4. CASE ~ (PartLen - 1 > left)
      <4>1. spi' = RawXfer
        BY <1>4, <2>2, <3>4 DEF s
      <4>2. spi.thres = Threshold(RxS.frame.len - (o + n))
        BY <1>7, <3>2, <3>4 DEF Threshold
      <4> QED
        BY <1>5, <2>2, <4>1, <4>2
    <3> QED
      BY <3>3, <3>4
  <2> QED
    BY <2>1, <2>2
<1>14. Stage'
  <2>1. Size("M")' = Size("M")
    BY <1>4, SameApps DEF Side
  <2>2. MSends' /\ SBusy'
    BY <1>3, <1>4, <1>10, <1>11, <1>13, <2>1 DEF MWords, MSends, SBusy, Listening
  <2>3. Together(TxM', RxS') /\ y.frame.payload = RxS.frame.payload /\ y.frame.len = RxS.frame.len
    BY <1>3, <1>10, <1>11 DEF MWords, SameSpan, SameWalk, Together, Slice, Package
  <2>4. EdgeOut' /\ spi'.rxint /\ y.state # "CRC"
    BY <1>3, <1>4, <1>10, <1>12, <1>13 DEF MWords, EdgeOut, NoEdgeOut
  <2>5. MAlone'
    BY <1>3, <1>4, MAloneStill DEF MTurn
  <2>6. CASE full
    <3>1. Full(y.frame)
      BY <1>3, <1>10, <2>6 DEF MWords, Parts, Full
    <3>2. Full(TxM.frame)
      <4>1. TxM.frame.handled >= TxM.frame.len
        BY <1>6, <1>7, <1>5a, <2>6
      <4> QED
        BY <1>3, <4>1 DEF MWords, Full
    <3>3. \A k : k = y.frame.payload + y.frame.len => Arrived("S", k)'
      BY <1>5, <1>7, <2>3, <2>6
    <3>4. SFull'
      BY <1>11, <1>13, <2>2, <2>3, <2>6, <3>1, <3>3 DEF SFull, Together
    <3>5. MFull'
      BY <1>3, <1>4, <1>11, <1>13, <2>2, <2>3, <2>4, <3>2, <3>4 DEF MFull, MWords, MSends
    <3> QED
      BY <2>5, <3>5 DEF Stage, MTurn
  <2>7. CASE ~ full
    <3>1. Parts(y.frame)
      BY <1>3, <1>10, <2>7 DEF MWords, Parts
    <3>2. TxM.frame.handled < TxM.frame.len
      BY <1>6, <1>7, <1>5a, <2>7
    <3>3. Parts(TxM.frame)
      <4>1. ~ (TxM.frame.handled >= TxM.frame.len)
        BY <1>6, <1>5a, <3>2
      <4> QED
        BY <1>3, <4>1 DEF MWords, Parts
    <3>4. \A k : k = TxM.frame.payload + TxM.frame.handled => Arrived("S", k)'
      BY <1>5, <1>6
    <3>5. /\ spi'.rxdev.base = y.frame.payload /\ spi'.rxdev.len = y.frame.len
          /\ spi'.rxdev.ofs = TxM.frame.handled
          /\ spi'.thres = Threshold(TxM.frame.len - TxM.frame.handled)
      BY <1>6, <1>13, <2>3, <2>7
    <3>6. writer'["M"] = "idle"
      BY <1>3, <1>4 DEF MWords
    <3>7. MPart'
      BY <1>11, <1>13, <2>2, <2>3, <2>4, <3>1, <3>2, <3>3, <3>4, <3>5, <3>6 DEF MPart
    <3> QED
      BY <2>5, <3>7 DEF Stage, MTurn
  <2> QED
    BY <2>6, <2>7
<1>15. TypeOK'
  <2>1. Len(spi'.txf) <= FifoDepth /\ Len(spi'.rxf) <= FifoDepth
    BY <1>2, <1>13, OneWord DEF TypeOK
  <2>2. sync_queue' \in 0 .. QueueLen
    BY <1>12, CoreAssumption
  <2> QED
    BY <1>2, <1>4, <1>5, <1>11, <1>13, <2>1, <2>2 DEF TypeOK
<1>16. CrcTasks' /\ Counts' /\ Requests'
  <2>1. Compared(y)
    BY <1>3, <1>10 DEF IInv, Counts, Compared, Reads, SameSpan, SameWalk
  <2> QED
    BY <1>4, <1>11, <2>1, RequestsStay DEF IInv, CrcTasks, Counts
<1> QED
  BY <1>14, <1>15, <1>16 DEF IInv

\* A checksum has come.
LEMMA SlaveCrcInterrupt ==
    ASSUME IInv, InReadCrc
    PROVE  /\ MTurn /\ MCrc /\ xfer_type["S"] = "RX" /\ RxS.state \notin {"CRC", "DONE"}
           /\ RxS.frame.header_done /\ ~ RxS.frame.crc_done /\ spi.rxint
           /\ Received = RxS /\ AfterDone = spi /\ RawBuffer = rx_data_buffer["S"]
<1>1. Interrupt("RX") /\ RxS.frame.header_done /\ RxS.frame.payload_done
  BY DEF InReadCrc, RxS
<1>2. /\ MTurn /\ MCrc /\ xfer_type["S"] = "RX" /\ RxS.state # "DONE" /\ Received = RxS
      /\ AfterDone = RawXfer
  BY <1>1, SlaveReceiveInterrupt DEF MWords, MFrame, SNext, Parts, Fresh
<1>3. SBusy /\ Full(RxS.frame) /\ Remaining(spi.rxdev) = 0
  BY <1>2 DEF MCrc, SFull
<1>4. RawXfer = spi /\ RawBuffer = rx_data_buffer["S"]
  BY <1>3, NothingMoves DEF SBusy, Listening, Receives, Transmits
<1>5. spi.rxint
  BY <1>1, <1>3 DEF Interrupt, IrqPending, RxPending, TxPending, SBusy, Listening
<1> QED
  BY <1>1, <1>2, <1>3, <1>4, <1>5 DEF MCrc, Full

\* The checksum of the frame before is still being compared: S waits for that.
LEMMA SlaveReceiveBlockedKeeps == ASSUME TakingTurns, IInv, SlaveReceiveBlocked PROVE IInv'
<1>1. /\ InReadCrc
      /\ rx_mng' = [rx_mng EXCEPT !["S"] = [Received EXCEPT !.state = "CRC"]]
      /\ spi' = [AfterDone EXCEPT !.rxint = FALSE] /\ sync_queue' = sync_queue
      /\ xfer_type' = xfer_type
      /\ tx_mng' = tx_mng /\ crc_unmatch' = crc_unmatch
      /\ cs_last_frame_info' = cs_last_frame_info
      /\ rx_queue' = rx_queue /\ tx_queue' = tx_queue
      /\ crc_task' = crc_task /\ sync_task' = sync_task
      /\ writer' = writer /\ reader' = reader /\ sent' = sent /\ got' = got
      /\ rx_data_buffer' = [rx_data_buffer EXCEPT !["S"] = RawBuffer]
  BY DEF SlaveReceiveBlocked, NoEdge, InReadCrc, Interrupt, queues, apps
<1>2. TypeOK /\ RxS \in ManagerType /\ spi \in SpiType
  BY Managers DEF IInv
<1>3. /\ MTurn /\ MCrc /\ xfer_type["S"] = "RX" /\ Received = RxS /\ AfterDone = spi
      /\ rx_data_buffer' = rx_data_buffer
  BY <1>1, <1>2, SlaveCrcInterrupt, BufferStays
<1>4. PICK y : y = [RxS EXCEPT !.state = "CRC"]
  OBVIOUS
<1>5. /\ y \in ManagerType /\ SameFrame(RxS, y) /\ y.state = "CRC"
      /\ y.frame.crc_valid = RxS.frame.crc_valid /\ y.crc_done_cnt = RxS.crc_done_cnt
  BY <1>2, <1>4 DEF ManagerType, SameFrame, SameFlags, SameSpan, SameWalk
<1>6. RxS' = y /\ RxM' = RxM /\ rx_mng' \in [Side -> ManagerType] /\ TxM' = TxM /\ TxS' = TxS
  BY <1>1, <1>2, <1>3, <1>4, <1>5, RxSSet, TxSame
<1>7. /\ spi' \in SpiType /\ spi'.txf = spi.txf /\ spi'.rxf = spi.rxf
      /\ spi'.txint = spi.txint /\ spi'.rxon = spi.rxon /\ spi'.thres = spi.thres
      /\ spi'.rxdev = spi.rxdev /\ spi'.txon = spi.txon /\ ~ spi'.rxint
  BY <1>1, <1>2, <1>3 DEF SpiType
<1>8. Stage'
  <2>1. Size("M")' = Size("M") /\ \A k : Arrived("S", k)' <=> Arrived("S", k)
    BY <1>1, <1>3, SameApps, SameBuffer DEF Side
  <2>2. /\ Slice(RxS) => Slice(RxS')
        /\ Full(RxS'.frame) <=> Full(RxS.frame)
        /\ IsLastFrame(RxS') <=> IsLastFrame(RxS)
        /\ OneAhead(TxM, RxS) => OneAhead(TxM, RxS')
        /\ RxS'.xfer_size = RxS.xfer_size /\ RxS'.cur_frame_id = RxS.cur_frame_id
        /\ RxS'.frame.payload = RxS.frame.payload /\ RxS'.frame.len = RxS.frame.len
    BY <1>5, <1>6
       DEF SameFrame, SameFlags, SameSpan, SameWalk, Slice, Package, Full, IsLastFrame, OneAhead
  <2>3. SFull'
    BY <1>1, <1>3, <1>5, <1>6, <1>7, <2>1, <2>2 DEF MCrc, SFull, SBusy, Listening
  <2>4. /\ MSent => MSent'
        /\ MOver => MOver'
    BY <1>1, <1>6, <2>2 DEF MSent, MOver
  <2>5. MNext => MNext'
    BY <1>1, <1>6, <2>1, <2>2 DEF MNext, MSends
  <2>6. MCrc'
    BY <1>1, <1>3, <1>5, <1>6, <1>7, <2>1, <2>2, <2>3, <2>4, <2>5 DEF MCrc, NoEdgeOut
  <2>7. MAlone'
    BY <1>1, <1>3, MAloneStill DEF MTurn
  <2> QED
    BY <2>6, <2>7 DEF Stage, MTurn
<1>9. TypeOK'
  BY <1>1, <1>2, <1>3, <1>6, <1>7 DEF TypeOK
<1>10. CrcTasks' /\ Counts' /\ Requests'
  <2>1. Compared(RxS')
    BY <1>3, <1>5, <1>6
       DEF IInv, Counts, Compared, Reads, SameFrame, SameFlags, SameSpan, SameWalk
  <2> QED
    BY <1>1, <1>6, <2>1, RequestsStay DEF IInv, CrcTasks, Counts
<1> QED
  BY <1>8, <1>9, <1>10 DEF IInv

\* S reads the checksum of a frame, and goes on to the next or waits for the
\* comparison of the last.
LEMMA SlaveReadCrcKeeps == ASSUME TakingTurns, IInv, SlaveReadCrc PROVE IInv'
<1> DEFINE c == WordRead(spi).value
           x == [RxS EXCEPT !.frame.crc = c, !.frame.crc_done = TRUE, !.frame.crc_valid = TRUE]
           s == spi_read(spi)
<1>1. InReadCrc /\ ~ RxS.frame.crc_valid
  BY DEF SlaveReadCrc, RxS
<1>2. TypeOK /\ TxM \in ManagerType /\ RxS \in ManagerType /\ spi \in SpiType
  BY Managers DEF IInv
<1>3. /\ MTurn /\ MCrc /\ xfer_type["S"] = "RX" /\ RxS.state \notin {"CRC", "DONE"}
      /\ RxS.frame.header_done /\ ~ RxS.frame.crc_done /\ spi.rxint
      /\ Received = RxS /\ AfterDone = spi /\ RawBuffer = rx_data_buffer["S"]
  BY <1>1, SlaveCrcInterrupt
<1>4. /\ cascade_crc_request("S", "rx", x.frame) /\ SlaveFrameEnds(x, s)
      /\ tx_mng' = tx_mng /\ crc_unmatch' = crc_unmatch /\ tx_queue' = tx_queue
      /\ crc_task' = crc_task /\ sync_task' = sync_task
      /\ writer' = writer /\ reader' = reader /\ sent' = sent /\ got' = got
  BY <1>3 DEF SlaveReadCrc, apps
<1>5. rx_data_buffer' = rx_data_buffer
  BY <1>1, <1>2, <1>3, BufferStays DEF InReadCrc, Interrupt
<1>6. /\ SFull /\ SBusy /\ Slice(RxS) /\ Full(RxS.frame) /\ IsChecksum(spi.rxf)
      /\ RxS.xfer_size = Size("M") /\ NoEdgeOut /\ writer["M"] = "idle"
      /\ MSent \/ MNext \/ MOver
      /\ spi.thres = 0 /\ Listening
      /\ Arrived("S", RxS.frame.payload + RxS.frame.len)
  BY <1>3 DEF MCrc, SFull, SBusy
<1>7. c \in Seq(Nat)
  <2>1. spi.rxf \in Seq(WordType) /\ Len(spi.rxf) = 1
    BY <1>2, <1>6 DEF SpiType, IsChecksum
  <2>2. Head(spi.rxf) \in WordType /\ spi.rxf # <<>>
    BY <2>1
  <2> QED
    BY <2>2 DEF WordRead, WordType
<1>8. /\ x \in ManagerType /\ SameSpan(RxS, x) /\ x.state = RxS.state
      /\ x.frame.crc_done /\ x.frame.crc_valid /\ x.frame.header_done /\ x.frame.payload_done
      /\ x.crc_done_cnt = RxS.crc_done_cnt
  <2> HIDE DEF c
  <2> QED
    BY <1>2, <1>6, <1>7 DEF ManagerType, FrameType, SameSpan, SameWalk, Full
<1> HIDE DEF x
<1>9. /\ Slice(x) /\ (IsLastFrame(x) <=> IsLastFrame(RxS))
      /\ x.frame.payload = RxS.frame.payload /\ x.frame.len = RxS.frame.len
      /\ x.xfer_size = RxS.xfer_size /\ x.cur_frame_id = RxS.cur_frame_id
      /\ x.nof_frame = RxS.nof_frame
  BY <1>6, <1>8 DEF SameSpan, SameWalk, Slice, Package, IsLastFrame
<1>10. /\ x.frame.payload \in Nat /\ x.frame.len \in Nat /\ x.xfer_size \in Nat
       /\ x.frame.payload + x.frame.len <= x.xfer_size /\ x.xfer_size <= BufferSize
       /\ IsLastFrame(x) => x.frame.payload + x.frame.len = x.xfer_size
       /\ ~ IsLastFrame(x) => x.frame.payload + x.frame.len = (x.cur_frame_id + 1) * FrameLen
  BY <1>8, <1>9, SliceFits
<1>11. x.frame.payload + x.frame.len <= BufferSize
  BY <1>10, LenAssumption
<1>12. /\ cs_last_frame_info' \in [Side -> [mem : {"none", "rx", "tx"}, ofs : Nat, len : Nat]]
       /\ Requests'
  BY <1>2, <1>4, <1>8, <1>11, Request DEF IInv, Side
<1>13. /\ s \in SpiType /\ s.rxf = <<>> /\ ~ s.rxon /\ ~ s.txon /\ s.txf = spi.txf
       /\ s.rxint /\ s.txint = spi.txint /\ s.thres = 0
  <2>1. <<>> \in Seq(WordType)
    OBVIOUS
  <2> QED
    BY <1>2, <1>3, <1>6, <2>1 DEF spi_read, SpiType
<1> HIDE DEF s
<1>14. x.crc_done_cnt + 1 = x.cur_frame_id + 1
  <2>1. RxS.crc_done_cnt \in Nat /\ RxS.cur_frame_id \in Nat
    BY <1>2 DEF ManagerType
  <2>2. Compared(RxS)
    BY <1>3 DEF IInv, Counts
  <2> QED
    BY <1>1, <1>3, <1>8, <1>9, <2>1, <2>2 DEF Compared, Reads
<1>15. /\ Size("M")' = Size("M") /\ \A k : Arrived("S", k)' <=> Arrived("S", k)
       /\ TxM' = TxM /\ TxS' = TxS
  BY <1>4, <1>5, SameApps, SameBuffer, TxSame DEF Side
<1>16. /\ Stage' /\ rx_mng' \in [Side -> ManagerType] /\ RxM' = RxM /\ Compared(RxS')
       /\ spi' = s /\ sync_queue' \in {0, 1} /\ xfer_type' = xfer_type /\ rx_queue' = rx_queue
  <2>1. CASE ~ IsLastFrame(x)
    <3>1. /\ rx_mng' = [rx_mng EXCEPT !["S"] = [x EXCEPT !.frame = cascade_frame_reset(x.frame)]]
          /\ spi' = s /\ sync_queue' = Edge(sync_queue)
          /\ xfer_type' = xfer_type /\ rx_queue' = rx_queue
      BY <1>4, <2>1 DEF SlaveFrameEnds, WithEdge
    <3>2. PICK y : y = [x EXCEPT !.frame = cascade_frame_reset(x.frame)]
      OBVIOUS
    <3>3. /\ y \in ManagerType /\ SameWalk(x, y) /\ y.state = x.state /\ Fresh(y.frame)
          /\ y.frame.crc_valid = x.frame.crc_valid /\ y.crc_done_cnt = x.crc_done_cnt
      BY <1>8, <3>2, FrameReset
    <3>4. RxS' = y /\ RxM' = RxM /\ rx_mng' \in [Side -> ManagerType]
      BY <1>2, <3>1, <3>2, <3>3, RxSSet
    <3>5. sync_queue' = 1
      BY <1>6, <3>1, CoreAssumption DEF NoEdgeOut, Edge
    <3>6. /\ Package(y) /\ ~ IsLastFrame(y) /\ y.xfer_size = RxS.xfer_size
          /\ y.cur_frame_id = RxS.cur_frame_id /\ y.nof_frame = RxS.nof_frame
      BY <1>9, <2>1, <3>3 DEF SameWalk, Slice, Package, IsLastFrame
    <3>7. SBusy'
      BY <1>3, <1>4, <1>6, <1>8, <1>13, <3>1, <3>3, <3>4 DEF SBusy, Listening
    <3>8. Arrived("S", (RxS'.cur_frame_id + 1) * FrameLen)
      BY <1>6, <1>9, <1>10, <2>1, <3>4, <3>6
    <3>9. SNext'
      BY <1>3, <1>6, <1>8, <1>13, <1>15, <3>1, <3>3, <3>4, <3>6, <3>7, <3>8 DEF SNext
    <3>10. MSent => MSent'
      BY <1>4, <1>15, <3>1, <3>4, <3>6 DEF MSent
    <3>11. MNext => MNext'
      <4>1. OneAhead(TxM, RxS) => OneAhead(TxM, y)
        BY <3>6 DEF OneAhead, Package
      <4> QED
        BY <1>4, <1>15, <3>1, <3>4, <3>6, <4>1 DEF MNext, MSends
    <3>12. ~ MOver
      BY <1>9, <2>1 DEF MOver
    <3>13. MEdge'
      BY <1>4, <1>6, <1>13, <3>1, <3>5, <3>9, <3>10, <3>11, <3>12 DEF MEdge, NoEdgeOut, EdgeOut
    <3>14. MAlone'
      BY <1>3, <1>4, <3>1, MAloneStill DEF MTurn
    <3>15. Compared(RxS')
      BY <1>8, <1>9, <1>14, <3>3, <3>4, <3>6 DEF Compared, Reads, Fresh
    <3> QED
      BY <3>1, <3>4, <3>5, <3>13, <3>14, <3>15 DEF Stage, MTurn
  <2>2. CASE IsLastFrame(x)
    <3>1. /\ rx_mng' = [rx_mng EXCEPT !["S"] = x] /\ spi' = s /\ sync_queue' = sync_queue
          /\ xfer_type' = xfer_type /\ rx_queue' = rx_queue
      BY <1>4, <1>8, <2>2 DEF SlaveFrameEnds, NoEdge
    <3>2. RxS' = x /\ RxM' = RxM /\ rx_mng' \in [Side -> ManagerType]
      BY <1>2, <1>8, <3>1, RxSSet
    <3>3. MThrough
      <4>1. ~ MNext
        BY <1>9, <2>2 DEF MNext
      <4>2. MSent => Package(TxM) /\ IsLastFrame(TxM)
        BY <1>6, <1>9, <2>2 DEF MSent, Slice, Package, IsLastFrame
      <4> QED
        BY <1>6, <4>1, <4>2 DEF MSent, MOver, MThrough
    <3>4. MThrough'
      BY <1>4, <1>15, <3>1, <3>3 DEF MThrough
    <3>5. AtRest'
      BY <1>4, <1>6, <1>13, <3>1 DEF AtRest, Listening, NoEdgeOut
    <3>6. Arrived("S", Size("M"))
      BY <1>6, <1>9, <1>10, <2>2
    <3>7. MLast'
      BY <1>3, <1>4, <1>6, <1>8, <1>9, <1>15, <2>2, <3>1, <3>2, <3>4, <3>5, <3>6
         DEF MLast, SBusy, Over
    <3>8. MAlone'
      BY <1>3, <1>4, <3>1, MAloneStill DEF MTurn
    <3>9. Compared(RxS')
      BY <1>8, <1>9, <1>14, <3>2 DEF Compared, Reads
    <3>10. sync_queue' = 0
      BY <1>6, <3>1 DEF NoEdgeOut
    <3> QED
      BY <3>1, <3>2, <3>7, <3>8, <3>9, <3>10 DEF Stage, MTurn
  <2> QED
    BY <2>1, <2>2
<1>17. TypeOK'
  <2>1. Len(spi'.txf) <= FifoDepth /\ Len(spi'.rxf) <= FifoDepth
    BY <1>2, <1>13, <1>16, OneWord DEF TypeOK
  <2>2. sync_queue' \in 0 .. QueueLen
    BY <1>16, CoreAssumption
  <2> QED
    BY <1>2, <1>4, <1>5, <1>12, <1>13, <1>16, <2>1, <2>2 DEF TypeOK
<1>18. CrcTasks' /\ Counts'
  BY <1>4, <1>15, <1>16 DEF IInv, CrcTasks, Counts
<1> QED
  BY <1>12, <1>16, <1>17, <1>18 DEF IInv

\* No word comes after the last checksum.
LEMMA SlaveCrcReadBeforeKeeps == ASSUME TakingTurns, IInv, SlaveCrcReadBefore PROVE IInv'
BY SlaveCrcInterrupt DEF SlaveCrcReadBefore, RxS

-----------------------------------------------------------------------------
(* The invariant.                                                          *)

\* s2m_sync_task keeps the invariant.
LEMMA SyncTaskKeeps == ASSUME TakingTurns, IInv, SyncTask PROVE IInv'
BY MasterSendHeaderKeeps, MasterSendPartKeeps, MasterSendCrcKeeps, MasterCrcNotReadyKeeps,
   MasterPackageInitKeeps, MasterReadHeaderKeeps, MasterReadPartKeeps,
   MasterReceiveBlockedKeeps, MasterReadCrcKeeps, MasterFrameReadKeeps,
   MasterCrcReadBeforeKeeps, MasterBlockKeeps
   DEF SyncTask

\* The checksum tasks keep it.
LEMMA CrcTasksKeep ==
    ASSUME TakingTurns, IInv, MasterCrcTask \/ SlaveCrcTask
    PROVE  IInv'
BY CrcTaskKeeps, MasterRxCrcDoneKeeps, MasterTxCrcDoneKeeps, MasterTxCrcSentKeeps,
   MasterTxCrcReadyKeeps, SlaveRxCrcDoneKeeps, SlaveRxComparedKeeps, SlaveRxPackageDoneKeeps,
   SlaveTxCrcDoneKeeps, SlaveTxCrcValidKeeps
   DEF MasterCrcTask, SlaveCrcTask, Side

\* S's SPI interrupt keeps it.
LEMMA SpiIsrKeeps == ASSUME TakingTurns, IInv, spi_isr PROVE IInv'
BY SlaveSendHeaderKeeps, SlaveSendPartKeeps, SlaveCrcNotReadyKeeps, SlaveSendCrcKeeps,
   SlaveTxDoneKeeps, SlavePackageInitKeeps, SlaveReadHeaderKeeps, SlaveReadPartKeeps,
   SlaveReceiveBlockedKeeps, SlaveReadCrcKeeps, SlaveCrcReadBeforeKeeps
   DEF spi_isr

\* The applications keep it.
LEMMA ApplicationsKeep ==
    ASSUME TakingTurns, IInv, NEW s \in Side, Writer(s) \/ Reader(s)
    PROVE  IInv'
BY WriteBufReqKeeps, WriteKeeps, MasterWriteKeeps, MasterWriteRequestKeeps, SlaveWriteKeeps,
   SlaveWriteRequestKeeps, ReadKeeps, ProcessDoneKeeps
   DEF Writer, Reader

\* A step that changes nothing keeps it.
LEMMA StutterKeeps == ASSUME IInv, UNCHANGED vars PROVE IInv'
<1>1. /\ xfer_type' = xfer_type /\ rx_mng' = rx_mng /\ tx_mng' = tx_mng
      /\ crc_unmatch' = crc_unmatch /\ rx_data_buffer' = rx_data_buffer
      /\ cs_last_frame_info' = cs_last_frame_info /\ rx_queue' = rx_queue
      /\ tx_queue' = tx_queue /\ crc_task' = crc_task /\ spi' = spi
      /\ sync_queue' = sync_queue /\ sync_task' = sync_task
      /\ writer' = writer /\ reader' = reader /\ sent' = sent /\ got' = got
  BY DEF vars, proto, memory, queues, wire, apps
<1>2. Unmoving
  BY <1>1, UnmovedSame DEF Unmoving
<1>3. Stage'
  BY <1>2, StageStays DEF IInv
<1>4. TypeOK'
  BY <1>1 DEF IInv, TypeOK
<1>5. CrcTasks' /\ Counts' /\ Requests'
  BY <1>1, UnmovedSame, RequestsStay DEF IInv, CrcTasks, Counts
<1> QED
  BY <1>3, <1>4, <1>5 DEF IInv

\* The invariant holds at start.
LEMMA IInvAtStart == Init => IInv
<1> SUFFICES ASSUME Init PROVE IInv
  OBVIOUS
<1>1. BlankManager \in ManagerType
  <2>1. BlankFrame \in FrameType
    BY DEF BlankFrame, FrameType
  <2> QED
    BY <2>1 DEF BlankManager, ManagerType
<1>2. SpiAtStart \in SpiType /\ SpiAtStart.txf = <<>> /\ SpiAtStart.rxf = <<>>
  BY DEF SpiAtStart, SpiType, DevBuffer, DevBufferType
<1>3. TypeOK
  <2>1. [i \in 0 .. BufferSize - 1 |-> 0] \in [0 .. BufferSize - 1 -> Nat]
    OBVIOUS
  <2>2. Len(spi.txf) <= FifoDepth /\ Len(spi.rxf) <= FifoDepth
    BY <1>2, OneWord DEF Init
  <2>3. sync_queue \in 0 .. QueueLen /\ 0 \in 0 .. QueueLen
    BY CoreAssumption DEF Init
  <2> QED
    BY <1>1, <1>2, <2>1, <2>2, <2>3 DEF Init, Each, TypeOK
<1>4. Stage
  <2>1. AtRest
    BY DEF Init, AtRest, Listening, NoEdgeOut, SpiAtStart
  <2>2. Even("M") /\ Even("S")
    BY DEF Init, Each, Even, Peer, Side
  <2> QED
    BY <2>1, <2>2 DEF Init, Each, Stage, Pause, MThrough, Side
<1>5. CrcTasks /\ Counts /\ Requests
  BY DEF Init, Each, CrcTasks, Counts, Requests, Side, TxS, BlankManager
<1> QED
  BY <1>3, <1>4, <1>5 DEF IInv

\* Whenever the applications take turns, a package is at one of its stages.
THEOREM LinkStages == ASSUME TakingTurns PROVE Spec => []IInv
<1>1. Init => IInv
  BY IInvAtStart
<1>2. IInv /\ [Next]_vars => IInv'
  <2> SUFFICES ASSUME IInv, [Next]_vars PROVE IInv'
    OBVIOUS
  <2> QED
    BY SyncTaskKeeps, CrcTasksKeep, SpiIsrKeeps, ApplicationsKeep, StutterKeeps DEF Next
<1> QED
  BY <1>1, <1>2, PTL DEF Spec

\* All variables of the link keep their types, and no queue or FIFO overruns its capacity.
THEOREM LinkTypes == ASSUME TakingTurns PROVE Spec => []TypeOK
<1>1. IInv => TypeOK
  BY DEF IInv
<1> QED
  BY <1>1, LinkStages, PTL

\* Never does one edge of S wait behind another for M.
THEOREM EdgesOneByOne == ASSUME TakingTurns PROVE Spec => []EdgesDoNotPileUp
<1>1. IInv => EdgesDoNotPileUp
  <2> SUFFICES ASSUME IInv PROVE sync_queue <= 1
    BY DEF EdgesDoNotPileUp
  <2>1. sync_queue \in {0, 1}
    BY DEF IInv, Stage, MTurn, STurn, Pause, MFilled, MClaimed, MHeader, MPart, MWords, MFull,
           MCrc, MEdge, MFrame, MLast, MDelivered, SFilled, SClaimed, SHeader, SPart, SWords,
           SDone, SCrc, SRead, SFrame, SDelivered, SGoesOn, SThrough, AtRest, EdgeOut, NoEdgeOut
  <2> QED
    BY <2>1
<1> QED
  BY <1>1, LinkStages, PTL

\* What S's driver is about to drain from the RX FIFO fits the frame its buffer was
\* installed for.
THEOREM PartsFit == ASSUME TakingTurns PROVE Spec => []PartFits
<1>1. IInv => PartFits
  <2> SUFFICES ASSUME IInv, RxPending, Receives PROVE Len(spi.rxf) <= Remaining(spi.rxdev)
    BY DEF PartFits
  <2>1. TypeOK /\ spi \in SpiType
    BY Managers DEF IInv
  <2>2. MTurn /\ MWords
    <3>1. spi.rxon /\ Remaining(spi.rxdev) # 0
      BY DEF Receives
    <3>2. MTurn /\ (MPart \/ MWords \/ MFull \/ MCrc)
      BY <3>1
         DEF IInv, Stage, MTurn, STurn, Pause, MFilled, MClaimed, MHeader, MFull, MCrc, MEdge,
             MFrame, MLast, MDelivered, SFilled, SClaimed, SHeader, SPart, SWords, SDone, SCrc,
             SRead, SFrame, SDelivered, SGoesOn, SNextFrame, SSends, SEnds, SThrough, SNext, AtRest
    <3>3. ~ MFull /\ ~ MCrc
      BY <3>1 DEF MFull, MCrc, SFull
    <3>4. ~ MPart
      BY <2>1 DEF MPart, RxPending, SpiType
    <3> QED
      BY <3>2, <3>3, <3>4
  <2>3. /\ spi.rxdev.ofs \in Nat /\ spi.rxdev.len \in Nat /\ spi.rxdev.base \in Nat
        /\ spi.rxdev.ofs < spi.rxdev.len
        /\ spi.rxf = Words("M", spi.rxdev.base + spi.rxdev.ofs, PartWords)
    BY <2>1, <2>2 DEF SpiType, DevBufferType, MWords
  <2>4. PartWords \in Nat /\ PartWords <= Remaining(spi.rxdev)
    BY <2>3, LenAssumption DEF PartWords, Remaining, AtMost
  <2>5. Len(spi.rxf) = PartWords
    BY <2>3, <2>4 DEF Words
  <2> QED
    BY <2>4, <2>5
<1> QED
  BY <1>1, LinkStages, PTL

-----------------------------------------------------------------------------
(* PackageChannel.                                                         *)

\* Only the applications write packages and read them.
LEMMA ApplicationsOnly ==
    ASSUME [Next]_vars
    PROVE  \/ sent' = sent /\ got' = got
           \/ \E s \in Side : cascade_write_buf_req(s) \/ cascade_read(s)
<1>1. CASE SyncTask
  BY <1>1
     DEF SyncTask, MasterSendHeader, MasterSendPart, MasterSendCrc, MasterCrcNotReady,
         MasterPackageInit, MasterReadHeader, MasterReadPart, MasterReceiveBlocked,
         MasterReadCrc, MasterFrameRead, MasterCrcReadBefore, MasterBlock, apps
<1>2. CASE MasterCrcTask
  BY <1>2
     DEF MasterCrcTask, cascade_crc_task, MasterRxCrcDone, MasterTxCrcDone, MasterTxCrcSent,
         MasterTxCrcReady, apps
<1>3. CASE spi_isr
  BY <1>3
     DEF spi_isr, SlaveSendHeader, SlaveSendPart, SlaveCrcNotReady, SlaveSendCrc, SlaveTxDone,
         SlavePackageInit, SlaveReadHeader, SlaveReadPart, SlaveReceiveBlocked, SlaveReadCrc,
         SlaveCrcReadBefore, apps
<1>4. CASE SlaveCrcTask
  BY <1>4
     DEF SlaveCrcTask, cascade_crc_task, SlaveRxCrcDone, SlaveRxCompared, SlaveRxPackageDone,
         SlaveTxCrcDone, SlaveTxCrcValid, apps
<1>5. ASSUME NEW s \in Side, Writer(s) \/ Reader(s)
      PROVE  (sent' = sent /\ got' = got) \/ cascade_write_buf_req(s) \/ cascade_read(s)
  BY <1>5
     DEF Writer, Reader, cascade_write, MasterWrite, MasterWriteRequest, SlaveWrite,
         SlaveWriteRequest, cascade_process_done
<1>6. CASE UNCHANGED vars
  BY <1>6 DEF vars, apps
<1> QED
  BY <1>1, <1>2, <1>3, <1>4, <1>5, <1>6 DEF Next

\* A package that is written joins those written on its side, and on that only.
LEMMA WrittenGrows ==
    ASSUME TypeOK, NEW s \in Side, cascade_write_buf_req(s)
    PROVE  /\ got' = got
           /\ \E p \in Contents(s) : Written(s)' = Append(Written(s), p)
           /\ \A r \in Side : r # s => Written(r)' = Written(r)
<1>1. PICK len \in Lens(s) : sent' = [sent EXCEPT ![s] = Append(@, len)]
  BY DEF cascade_write_buf_req
<1>2. /\ sent \in [Side -> Seq(MasterLens \cup SlaveLens)] /\ Len(sent[s]) \in Nat
      /\ MaxPkg \in Nat /\ Len(sent[s]) < MaxPkg
  BY CoreAssumption DEF TypeOK, cascade_write_buf_req
<1>3. PICK n \in Nat : n = Len(sent[s])
  BY <1>2
<1> DEFINE p == [k \in 1 .. len |-> Datum(n + 1, k - 1)]
<1>4. p \in Contents(s)
  <2>1. n + 1 \in 1 .. MaxPkg
    BY <1>2, <1>3
  <2> QED
    BY <2>1 DEF Contents
<1>5. /\ sent'[s] = Append(sent[s], len)
      /\ \A r \in Side : r # s => sent'[r] = sent[r]
  BY <1>1, <1>2
<1>6. /\ Len(sent'[s]) = n + 1 /\ sent'[s][n + 1] = len
      /\ \A i \in 1 .. n : sent'[s][i] = sent[s][i]
  BY <1>2, <1>3, <1>5
<1>7. Written(s)' = Append(Written(s), p)
  <2> DEFINE a == Written(s)
             b == [i \in 1 .. n + 1 |-> [k \in 1 .. sent'[s][i] |-> Datum(i, k - 1)]]
  <2>1. Written(s)' = b
    BY <1>6 DEF Written
  <2>2. a = [i \in 1 .. n |-> [k \in 1 .. sent[s][i] |-> Datum(i, k - 1)]]
    BY <1>3 DEF Written
  <2>3. Len(a) = n /\ DOMAIN a = 1 .. n
    BY <2>2
  <2>4. b[n + 1] = p
    <3>1. n + 1 \in 1 .. n + 1
      OBVIOUS
    <3>2. b[n + 1] = [k \in 1 .. sent'[s][n + 1] |-> Datum(n + 1, k - 1)]
      BY <3>1
    <3> QED
      BY <1>6, <3>2
  <2>5. ASSUME NEW i \in 1 .. n PROVE b[i] = a[i]
    <3>1. i \in 1 .. n + 1 /\ sent'[s][i] = sent[s][i]
      BY <1>6
    <3> QED
      BY <2>2, <3>1
  <2>6. DOMAIN b = 1 .. n + 1
    OBVIOUS
  <2> HIDE DEF a, b, p
  <2> DEFINE T == {a[i] : i \in 1 .. n} \cup {p}
  <2>7. Append(a, p) = [i \in 1 .. n + 1 |-> IF i = n + 1 THEN p ELSE a[i]]
    <3>1. a = [i \in 1 .. n |-> a[i]]
      BY <2>2 DEF a
    <3>2. a \in [1 .. n -> T] /\ p \in T
      BY <3>1
    <3> HIDE DEF T
    <3>3. a \in Seq(T)
      BY <3>2
    <3>4. PICK t : t = Append(a, p)
      OBVIOUS
    <3>5. t \in Seq(T) /\ Len(t) = n + 1 /\ \A i \in 1 .. n : t[i] = a[i]
      BY <2>3, <3>2, <3>3, <3>4
    <3>6. t[n + 1] = p
      BY <2>3, <3>2, <3>3, <3>4
    <3>7. t \in [1 .. n + 1 -> T]
      BY <3>5
    <3>8. t = [i \in 1 .. n + 1 |-> t[i]]
      BY <3>7
    <3>9. ASSUME NEW i \in 1 .. n + 1 PROVE t[i] = IF i = n + 1 THEN p ELSE a[i]
      BY <3>5, <3>6
    <3> QED
      BY <3>4, <3>8, <3>9
  <2>8. b = [i \in 1 .. n + 1 |-> b[i]]
    BY <2>6 DEF b
  <2>9. ASSUME NEW i \in 1 .. n + 1 PROVE b[i] = IF i = n + 1 THEN p ELSE a[i]
    BY <2>4, <2>5
  <2> QED
    BY <2>1, <2>7, <2>8, <2>9 DEF a
<1>8. \A r \in Side : r # s => Written(r)' = Written(r)
  BY <1>5 DEF Written
<1> QED
  BY <1>4, <1>7, <1>8 DEF cascade_write_buf_req

\* The package that is read is the first that has not been, with the contents it was
\* written with.
LEMMA ReadNext ==
    ASSUME TakingTurns, IInv, NEW s \in Side, cascade_read(s)
    PROVE  /\ sent' = sent /\ Len(got[s]) < Len(Written(Peer(s)))
           /\ got'[s] = Append(got[s], Written(Peer(s))[Len(got[s]) + 1])
           /\ \A r \in Side : r # s => got'[r] = got[r]
<1>1. /\ s = "S" => MTurn
      /\ s = "M" => STurn
      /\ rx_queue[s] = <<Size(Peer(s))>> /\ Arrived(s, Size(Peer(s))) /\ sent[Peer(s)] # <<>>
  BY PackageWaits
<1>2. TypeOK /\ Peer(s) \in Side /\ Peer(Peer(s)) = s
  BY DEF IInv, Peer, Side
<1>3. /\ sent' = sent
      /\ got' = [got EXCEPT ![s] = Append(@, RxWords(s, 0, Head(rx_queue[s])))]
  BY DEF cascade_read
<1>4. Len(sent[Peer(s)]) = Len(got[s]) + 1 /\ Len(got[s]) \in Nat
  <2>1. Len(got[s]) \in Nat
    BY <1>2 DEF TypeOK
  <2>2. CASE s = "S"
    BY <1>1, <2>1, <2>2 DEF MTurn, MAlone, Open, Peer
  <2>3. CASE s = "M"
    BY <1>1, <2>1, <2>3 DEF STurn, SAlone, Open, Peer
  <2> QED
    BY <2>2, <2>3 DEF Side
<1>5. PICK n \in Nat, m \in Nat : n = Len(sent[Peer(s)]) /\ m = Size(Peer(s))
  BY <1>1, <1>2, <1>4, SizeFits
<1>6. sent[Peer(s)][n] = m /\ n = Len(got[s]) + 1
  BY <1>4, <1>5 DEF Size
<1>7. Written(Peer(s))[n] = [k \in 1 .. m |-> Datum(n, k - 1)] /\ Len(Written(Peer(s))) = n
  <2> DEFINE w == [p \in 1 .. n |-> [k \in 1 .. sent[Peer(s)][p] |-> Datum(p, k - 1)]]
  <2>1. Written(Peer(s)) = w
    BY <1>5 DEF Written
  <2>2. Len(w) = n /\ n \in 1 .. n
    BY <1>4, <1>5, <1>6
  <2>3. w[n] = [k \in 1 .. sent[Peer(s)][n] |-> Datum(n, k - 1)]
    BY <2>2
  <2> HIDE DEF w
  <2> QED
    BY <1>6, <2>1, <2>2, <2>3
<1>8. RxWords(s, 0, m) = [k \in 1 .. m |-> Datum(n, k - 1)]
  <2>1. ASSUME NEW k \in 1 .. m PROVE rx_data_buffer[s][0 + k - 1] = Datum(n, k - 1)
    <3>1. k - 1 \in 0 .. m - 1 /\ 0 + k - 1 = k - 1
      OBVIOUS
    <3> QED
      BY <1>1, <1>5, <3>1 DEF Arrived
  <2> QED
    BY <2>1 DEF RxWords
<1>9. got' = [got EXCEPT ![s] = Append(@, Written(Peer(s))[n])]
  <2>1. Head(rx_queue[s]) = m
    BY <1>1, <1>5
  <2>2. RxWords(s, 0, Head(rx_queue[s])) = Written(Peer(s))[n]
    BY <1>7, <1>8, <2>1
  <2> QED
    BY <1>3, <2>2
<1> QED
  BY <1>2, <1>3, <1>4, <1>6, <1>7, <1>9 DEF TypeOK

\* The link implements a channel for packages in either direction: every package that is
\* read is the next one written on the other chip, once, in order and intact.
THEOREM LinkIsChannel ==
    ASSUME TakingTurns
    PROVE  Spec => ToSlave!ChannelSafety /\ ToMaster!ChannelSafety
<1>1. Init => ToSlave!ChannelInit /\ ToMaster!ChannelInit
  BY DEF Init, Each, Side, ToSlave!ChannelInit, ToMaster!ChannelInit, Written
<1>2. IInv /\ [Next]_vars =>
          /\ [ToSlave!ChannelNext]_ToSlave!chan
          /\ [ToMaster!ChannelNext]_ToMaster!chan
  <2> SUFFICES ASSUME IInv, [Next]_vars
               PROVE  /\ [ToSlave!ChannelNext]_ToSlave!chan
                      /\ [ToMaster!ChannelNext]_ToMaster!chan
    OBVIOUS
  <2> USE DEF ToSlave!ChannelNext, ToMaster!ChannelNext, ToSlave!chan, ToMaster!chan
  <2>1. CASE sent' = sent /\ got' = got
    BY <2>1 DEF Written
  <2>2. CASE cascade_write_buf_req("M")
    <3>1. /\ got' = got /\ Written("S")' = Written("S")
          /\ \E p \in Contents("M") : Written("M")' = Append(Written("M"), p)
      BY <2>2, WrittenGrows DEF IInv, Side
    <3> QED
      BY <3>1 DEF ToSlave!Write
  <2>3. CASE cascade_write_buf_req("S")
    <3>1. /\ got' = got /\ Written("M")' = Written("M")
          /\ \E p \in Contents("S") : Written("S")' = Append(Written("S"), p)
      BY <2>3, WrittenGrows DEF IInv, Side
    <3> QED
      BY <3>1 DEF ToMaster!Write
  <2>4. CASE cascade_read("S")
    <3>1. /\ sent' = sent /\ Len(got["S"]) < Len(Written("M"))
          /\ got'["S"] = Append(got["S"], Written("M")[Len(got["S"]) + 1])
          /\ got'["M"] = got["M"]
      BY <2>4, ReadNext DEF Side, Peer
    <3>2. Written("M")' = Written("M") /\ Written("S")' = Written("S")
      BY <3>1 DEF Written
    <3> QED
      BY <3>1, <3>2 DEF ToSlave!Read
  <2>5. CASE cascade_read("M")
    <3>1. /\ sent' = sent /\ Len(got["M"]) < Len(Written("S"))
          /\ got'["M"] = Append(got["M"], Written("S")[Len(got["M"]) + 1])
          /\ got'["S"] = got["S"]
      BY <2>5, ReadNext DEF Side, Peer
    <3>2. Written("M")' = Written("M") /\ Written("S")' = Written("S")
      BY <3>1 DEF Written
    <3> QED
      BY <3>1, <3>2 DEF ToMaster!Read
  <2> QED
    BY <2>1, <2>2, <2>3, <2>4, <2>5, ApplicationsOnly DEF Side
<1> QED
  BY <1>1, <1>2, LinkStages, PTL DEF Spec, ToSlave!ChannelSafety, ToMaster!ChannelSafety

-----------------------------------------------------------------------------
(* What an edge means.                                                     *)

\* M's packages are cut so that never exactly PartLen - 1 words of a frame are left:
\* with so many left S's threshold is not lowered, and no interrupt takes them.
NoRestBelowPart ==
    \A len \in MasterLens, i \in Nat, j \in Nat :
        LET left == AtMost(len - i * FrameLen, FrameLen) - j * PartLen
        IN  left > 0 => left # PartLen - 1

\* M clocks whole parts until it clocks the end of a frame, and its package is one of
\* its lengths.
WholeParts == ~ TxM.frame.payload_done => \E j \in Nat : TxM.frame.handled = j * PartLen
MasterSize == sent["M"] # <<>> => Size("M") \in MasterLens

SameHandled(x, y) ==
    /\ y.frame.handled = x.frame.handled /\ y.frame.payload_done = x.frame.payload_done

\* The end of a frame leaves what has been handled of it, or begins the next.
LEMMA FrameDoneHandled ==
    ASSUME TypeOK, NEW x \in ManagerType, SameHandled(TxM, x), tx_frame_done("M", x, "INVALID")
    PROVE  SameHandled(TxM, TxM') \/ TxM'.frame.handled = 0
<1>1. CASE ~ IsLastFrame(x)
  <2>1. tx_mng' = [tx_mng EXCEPT !["M"] = cascade_tx_next_frame_init(x)]
    BY <1>1 DEF tx_frame_done
  <2>2. TxM' = cascade_tx_next_frame_init(x)
    BY <2>1, TxMSet
  <2>3. cascade_tx_next_frame_init(x).frame.handled = 0
    BY DEF cascade_tx_next_frame_init, StartFrame, ManagerType, FrameType
  <2> QED
    BY <2>2, <2>3
<1>2. CASE IsLastFrame(x)
  <2>1. tx_mng' = [tx_mng EXCEPT !["M"] = [x EXCEPT !.state = "IDLE"]]
    BY <1>2 DEF tx_frame_done
  <2>2. TxM' = [x EXCEPT !.state = "IDLE"]
    BY <2>1, TxMSet
  <2>3. TxM'.frame = x.frame
    BY <2>2 DEF ManagerType
  <2> QED
    BY <2>3 DEF SameHandled
<1> QED
  BY <1>1, <1>2

\* Only a part changes how much of a frame has been handled; a new frame begins at 0.
LEMMA HandledByParts ==
    ASSUME TypeOK, [Next]_vars
    PROVE  SameHandled(TxM, TxM') \/ TxM'.frame.handled = 0 \/ MasterSendPart
<1>1. TxM \in ManagerType /\ tx_mng \in [Side -> ManagerType]
  BY Managers
<1>2. ASSUME tx_mng'["M"] = tx_mng["M"] PROVE SameHandled(TxM, TxM')
  BY <1>2 DEF SameHandled, TxM
<1>3. ASSUME NEW x, tx_mng' = [tx_mng EXCEPT !["S"] = x] PROVE tx_mng'["M"] = tx_mng["M"]
  BY <1>1, <1>3 DEF Side
<1>4. CASE SyncTask
  <2>1. ASSUME MasterSendHeader PROVE SameHandled(TxM, TxM')
    <3>1. tx_mng' = [tx_mng EXCEPT !["M"] = [TxM EXCEPT !.frame.header_done = TRUE]]
      BY <2>1 DEF MasterSendHeader, TxM
    <3>2. TxM' = [TxM EXCEPT !.frame.header_done = TRUE]
      BY <3>1, TxMSet
    <3> QED
      BY <1>1, <3>2 DEF SameHandled, ManagerType, FrameType
  <2>2. ASSUME MasterSendCrc PROVE SameHandled(TxM, TxM') \/ TxM'.frame.handled = 0
    <3> DEFINE x == [TxM EXCEPT !.frame.crc_done = TRUE, !.frame.crc_valid = FALSE]
    <3>1. tx_frame_done("M", TxM, "INVALID") \/ tx_frame_done("M", x, "INVALID")
      BY <2>2 DEF MasterSendCrc, TxM
    <3>2. x \in ManagerType /\ SameHandled(TxM, x) /\ SameHandled(TxM, TxM)
      BY <1>1 DEF SameHandled, ManagerType, FrameType
    <3> HIDE DEF x
    <3> QED
      BY <1>1, <3>1, <3>2, FrameDoneHandled
  <2>3. ASSUME MasterBlock PROVE SameHandled(TxM, TxM')
    <3>1. CASE tx_mng' = tx_mng
      BY <1>2, <3>1
    <3>2. CASE tx_mng' = [tx_mng EXCEPT !["M"] = [TxM EXCEPT !.state = "CRC"]]
      <4>1. TxM' = [TxM EXCEPT !.state = "CRC"]
        BY <3>2, TxMSet
      <4> QED
        BY <1>1, <4>1 DEF SameHandled, ManagerType
    <3> QED
      BY <2>3, <3>1, <3>2 DEF MasterBlock, TxM
  <2>4. ASSUME MasterCrcNotReady \/ MasterPackageInit \/ MasterReadHeader \/ MasterReadPart
               \/ MasterReceiveBlocked \/ MasterReadCrc \/ MasterFrameRead
               \/ MasterCrcReadBefore
        PROVE  tx_mng' = tx_mng
    BY <2>4
       DEF MasterCrcNotReady, MasterPackageInit, MasterReadHeader, MasterReadPart,
           MasterReceiveBlocked, MasterReadCrc, MasterFrameRead, MasterCrcReadBefore, proto
  <2> QED
    BY <1>2, <1>4, <2>1, <2>2, <2>3, <2>4 DEF SyncTask
<1>5. CASE MasterCrcTask
  <2>1. ASSUME MasterTxCrcDone PROVE SameHandled(TxM, TxM')
    <3> DEFINE c == crc_task["M"].crc32
    <3> DEFINE x == [TxM EXCEPT !.frame.crc = c]
    <3>1. TxM' = x \/ TxM' = [x EXCEPT !.state = "BUSY"]
      BY <2>1, TxMSet DEF MasterTxCrcDone, TxM
    <3>2. /\ TxM' = x => TxM'.frame = [TxM.frame EXCEPT !.crc = c]
          /\ TxM' = [x EXCEPT !.state = "BUSY"] => TxM'.frame = [TxM.frame EXCEPT !.crc = c]
      BY <1>1 DEF ManagerType
    <3> HIDE DEF c, x
    <3>3. TxM'.frame = [TxM.frame EXCEPT !.crc = c] /\ TxM.frame \in FrameType
      BY <1>1, <3>1, <3>2 DEF ManagerType
    <3> QED
      BY <3>3 DEF SameHandled, FrameType
  <2>2. ASSUME MasterTxCrcSent PROVE SameHandled(TxM, TxM') \/ TxM'.frame.handled = 0
    <3> DEFINE x == [TxM EXCEPT !.frame.crc_valid = FALSE, !.frame.crc_done = TRUE]
    <3>1. tx_frame_done("M", x, "INVALID")
      BY <2>2 DEF MasterTxCrcSent, TxM
    <3>2. x \in ManagerType /\ SameHandled(TxM, x)
      BY <1>1 DEF SameHandled, ManagerType, FrameType
    <3> HIDE DEF x
    <3> QED
      BY <3>1, <3>2, FrameDoneHandled
  <2>3. ASSUME MasterTxCrcReady PROVE SameHandled(TxM, TxM')
    <3>1. TxM' = [TxM EXCEPT !.frame.crc_valid = TRUE]
      BY <2>3, TxMSet DEF MasterTxCrcReady, TxM
    <3> QED
      BY <1>1, <3>1 DEF SameHandled, ManagerType, FrameType
  <2>4. ASSUME cascade_crc_task("M") \/ MasterRxCrcDone PROVE tx_mng' = tx_mng
    BY <2>4 DEF cascade_crc_task, MasterRxCrcDone, proto
  <2> QED
    BY <1>2, <1>5, <2>1, <2>2, <2>3, <2>4 DEF MasterCrcTask
<1>6. CASE spi_isr \/ SlaveCrcTask
  <2>1. ASSUME SlaveSendCrc PROVE tx_mng'["M"] = tx_mng["M"]
    BY <1>3, <2>1 DEF SlaveSendCrc, tx_frame_done
  <2>2. ASSUME SlaveSendHeader \/ SlaveSendPart \/ SlaveCrcNotReady \/ SlaveTxCrcDone
        PROVE  tx_mng'["M"] = tx_mng["M"]
    BY <1>3, <2>2 DEF SlaveSendHeader, SlaveSendPart, SlaveCrcNotReady, SlaveTxCrcDone
  <2>3. ASSUME SlaveTxCrcValid PROVE tx_mng'["M"] = tx_mng["M"]
    BY <1>3, <2>3 DEF SlaveTxCrcValid
  <2>4. ASSUME SlaveTxDone \/ SlavePackageInit \/ SlaveReadHeader \/ SlaveReadPart
               \/ SlaveReceiveBlocked \/ SlaveReadCrc \/ SlaveCrcReadBefore
               \/ cascade_crc_task("S") \/ SlaveRxCrcDone \/ SlaveRxCompared
               \/ SlaveRxPackageDone
        PROVE  tx_mng' = tx_mng
    BY <2>4
       DEF SlaveTxDone, SlavePackageInit, SlaveReadHeader, SlaveReadPart, SlaveReceiveBlocked,
           SlaveReadCrc, SlaveCrcReadBefore, cascade_crc_task, SlaveRxCrcDone, SlaveRxCompared,
           SlaveRxPackageDone, proto
  <2> QED
    BY <1>2, <1>6, <2>1, <2>2, <2>3, <2>4 DEF spi_isr, SlaveCrcTask
<1>7. ASSUME NEW s \in Side, Writer(s) \/ Reader(s)
      PROVE  SameHandled(TxM, TxM') \/ TxM'.frame.handled = 0
  <2>1. ASSUME MasterWrite PROVE TxM'.frame.handled = 0
    <3> DEFINE z == cascade_package_init(TxM, Last(sent["M"]))
               x == cascade_tx_first_frame_init(z)
    <3>1. TxM' = [x EXCEPT !.frame.header_done = TRUE]
      BY <2>1, TxMSet DEF MasterWrite, TxM
    <3>2. z.frame = TxM.frame /\ x.frame.handled = 0
      BY <1>1
         DEF cascade_package_init, cascade_tx_first_frame_init, StartFrame, ManagerType, FrameType
    <3>3. [x EXCEPT !.frame.header_done = TRUE].frame.handled = x.frame.handled
      BY <1>1
         DEF cascade_package_init, cascade_tx_first_frame_init, StartFrame, ManagerType, FrameType
    <3> QED
      BY <3>1, <3>2, <3>3
  <2>2. ASSUME cascade_write(s) PROVE SameHandled(TxM, TxM')
    <3>1. tx_mng' = [tx_mng EXCEPT ![s] = [tx_mng[s] EXCEPT !.state = "BUSY"]]
      BY <2>2 DEF cascade_write
    <3>2. tx_mng'["M"].frame = tx_mng["M"].frame
      BY <1>1, <3>1 DEF ManagerType, Side
    <3> QED
      BY <3>2 DEF SameHandled, TxM
  <2>3. ASSUME SlaveWrite PROVE tx_mng'["M"] = tx_mng["M"]
    BY <1>3, <2>3 DEF SlaveWrite
  <2>4. ASSUME cascade_write_buf_req(s) \/ MasterWriteRequest \/ SlaveWriteRequest
               \/ cascade_read(s) \/ cascade_process_done(s)
        PROVE  tx_mng' = tx_mng
    BY <2>4
       DEF cascade_write_buf_req, MasterWriteRequest, SlaveWriteRequest, cascade_read,
           cascade_process_done, proto
  <2> QED
    BY <1>2, <1>7, <2>1, <2>2, <2>3, <2>4 DEF Writer, Reader
<1>8. CASE UNCHANGED vars
  BY <1>2, <1>8 DEF vars, proto
<1> QED
  BY <1>4, <1>5, <1>6, <1>7, <1>8 DEF Next

\* What M has handled of a frame it still sends is whole parts.
LEMMA WholePartsKept == ASSUME TypeOK, WholeParts, [Next]_vars PROVE WholeParts'
<1>1. CASE SameHandled(TxM, TxM')
  BY <1>1 DEF WholeParts, SameHandled
<1>2. CASE TxM'.frame.handled = 0
  <2>1. TxM'.frame.handled = 0 * PartLen
    BY <1>2, LenAssumption
  <2> QED
    BY <2>1 DEF WholeParts
<1>3. CASE MasterSendPart
  <2> DEFINE f == TxM.frame
             n == FramePartSize(f)
             words == TxWords("M", FramePartBase(f), n)
  <2>1. /\ ~ f.payload_done
        /\ tx_mng' = [tx_mng EXCEPT !["M"] =
                         [TxM EXCEPT !.frame = cascade_frame_part_update(f, Len(words))]]
    BY <1>3 DEF MasterSendPart, TxM
  <2>2. f.handled \in Nat /\ f.len \in Nat /\ f \in FrameType
    BY Managers DEF FrameType
  <2>3. PICK m : m = Len(words)
    OBVIOUS
  <2>4. TxM'.frame = cascade_frame_part_update(f, m)
    <3>1. TxM' = [TxM EXCEPT !.frame = cascade_frame_part_update(f, m)]
      BY <2>1, <2>3, TxMSet
    <3> QED
      BY <3>1, Managers DEF ManagerType
  <2>5. /\ TxM'.frame.handled = f.handled + m
        /\ ~ TxM'.frame.payload_done => ~ (f.handled + m >= f.len)
    BY <2>1, <2>2, <2>4 DEF cascade_frame_part_update, FrameType
  <2>6. PICK j \in Nat : f.handled = j * PartLen
    BY <2>1 DEF WholeParts
  <2>7. ASSUME ~ TxM'.frame.payload_done PROVE f.handled + m = (j + 1) * PartLen
    <3>1. n <= f.len - f.handled /\ n \in Int
      BY <2>2, LenAssumption DEF FramePartSize, AtMost
    <3>2. m = IF n > 0 THEN n ELSE 0
      <4>1. words = [k \in 1 .. n |-> Datum(Len(sent["M"]), FramePartBase(f) + k - 1)]
        BY DEF TxWords
      <4> HIDE DEF n
      <4> QED
        BY <2>3, <3>1, <4>1
    <3>3. n = PartLen
      BY <2>2, <2>5, <2>7, <3>1, <3>2, LenAssumption DEF FramePartSize, AtMost
    <3>4. (j + 1) * PartLen = j * PartLen + PartLen
      BY LenAssumption
    <3> QED
      BY <2>6, <3>2, <3>3, <3>4, LenAssumption
  <2> QED
    BY <2>5, <2>7 DEF WholeParts
<1> QED
  BY <1>1, <1>2, <1>3, HandledByParts

\* The length of M's last package is one of those its application writes.
LEMMA MasterSizeKept == ASSUME TypeOK, MasterSize, [Next]_vars PROVE MasterSize'
<1>1. CASE sent' = sent
  BY <1>1 DEF MasterSize, Size
<1>2. ASSUME NEW s \in Side, cascade_write_buf_req(s) PROVE MasterSize'
  <2>1. PICK len \in Lens(s) : sent' = [sent EXCEPT ![s] = Append(@, len)]
    BY <1>2 DEF cascade_write_buf_req
  <2>2. sent \in [Side -> Seq(MasterLens \cup SlaveLens)]
    BY DEF TypeOK
  <2>3. CASE s = "M"
    <3>1. sent'["M"] = Append(sent["M"], len) /\ sent["M"] \in Seq(MasterLens \cup SlaveLens)
      BY <2>1, <2>2, <2>3
    <3>2. len \in MasterLens
      BY <2>3 DEF Lens
    <3>3. /\ Len(sent'["M"]) = Len(sent["M"]) + 1
          /\ sent'["M"][Len(sent["M"]) + 1] = len
      BY <3>1, <3>2
    <3> QED
      BY <3>2, <3>3 DEF MasterSize, Size
  <2>4. CASE s = "S"
    <3>1. sent'["M"] = sent["M"]
      BY <2>1, <2>2, <2>4 DEF Side
    <3> QED
      BY <3>1 DEF MasterSize, Size
  <2> QED
    BY <2>3, <2>4 DEF Side
<1>3. ASSUME NEW s \in Side, cascade_read(s) PROVE sent' = sent
  BY <1>3 DEF cascade_read
<1> QED
  BY <1>1, <1>2, <1>3, ApplicationsOnly

\* The threshold that S sets for the words left of a frame fits the part M clocks next.
LEMMA ThresholdFits ==
    ASSUME NEW left \in Nat, left > 0, left # PartLen - 1
    PROVE  Threshold(left) + 1 = AtMost(left, PartLen)
BY LenAssumption DEF Threshold, AtMost

\* When S is ready for a part, its interrupt comes after exactly that part.
LEMMA PartMeansReady ==
    ASSUME TypeOK, NoRestBelowPart, WholeParts, MasterSize, Open("M"), MPart
    PROVE  spi.thres + 1 = NextPiece(TxM.frame)
<1>1. TxM \in ManagerType /\ TxM.frame \in FrameType
  BY Managers
<1>2. /\ Slice(TxM) /\ Parts(TxM.frame) /\ TxM.frame.handled < TxM.frame.len
      /\ TxM.xfer_size = Size("M")
      /\ spi.thres = Threshold(TxM.frame.len - TxM.frame.handled)
  BY DEF MPart, MSends, Together
<1>3. PICK len : len = TxM.xfer_size
  OBVIOUS
<1>4. PICK i : i = TxM.cur_frame_id
  OBVIOUS
<1>5. /\ len \in MasterLens /\ i \in Nat
      /\ TxM.frame.len \in Nat /\ TxM.frame.handled \in Nat
  <2>1. sent["M"] # <<>>
    <3>1. Len(sent["M"]) = Len(got["S"]) + 1 /\ got["S"] \in Seq(Seq(Nat))
      BY DEF Open, Peer, TypeOK, Side
    <3> QED
      BY <3>1
  <2> QED
    BY <1>1, <1>2, <1>3, <1>4, <2>1 DEF MasterSize, ManagerType, FrameType
<1>6. TxM.frame.len = AtMost(len - i * FrameLen, FrameLen)
  BY <1>2, <1>3, <1>4 DEF Slice
<1>7. PICK j \in Nat : TxM.frame.handled = j * PartLen
  BY <1>2 DEF WholeParts, Parts
<1>8. PICK left : left = TxM.frame.len - TxM.frame.handled
  OBVIOUS
<1>9. left \in Nat /\ left > 0 /\ left # PartLen - 1
  <2>1. left \in Nat /\ left > 0
    BY <1>2, <1>5, <1>8
  <2>2. left = AtMost(len - i * FrameLen, FrameLen) - j * PartLen
    BY <1>6, <1>7, <1>8
  <2> QED
    BY <1>5, <2>1, <2>2 DEF NoRestBelowPart
<1>10. Threshold(left) + 1 = AtMost(left, PartLen)
  BY <1>9, ThresholdFits
<1>11. NextPiece(TxM.frame) = AtMost(left, PartLen)
  BY <1>2, <1>8 DEF NextPiece, Parts, FramePartSize
<1> QED
  BY <1>2, <1>8, <1>10, <1>11

\* The words S holds for M are those M clocks next.
LEMMA WordsMeanReady ==
    ASSUME TypeOK, SWords PROVE Len(spi.txf) = NextPiece(RxM.frame)
<1>1. RxM.frame \in FrameType
  BY Managers
<1>2. PICK n : n = FramePartSize(RxM.frame)
  OBVIOUS
<1>3. n \in Nat
  BY <1>1, <1>2, LenAssumption DEF SWords, FramePartSize, AtMost, FrameType
<1>4. PICK ofs : ofs = FramePartBase(RxM.frame)
  OBVIOUS
<1>5. spi.txf = Words("S", ofs, n)
  BY <1>2, <1>4 DEF SWords
<1>6. Len(spi.txf) = n
  BY <1>3, <1>5 DEF Words
<1> QED
  BY <1>2, <1>6 DEF SWords, Parts, NextPiece

\* An edge that waits for M finds S prepared for the words M will clock.
LEMMA StageMeansReady ==
    ASSUME IInv, NoRestBelowPart, WholeParts, MasterSize PROVE EdgeMeansReady
<1> SUFFICES ASSUME sync_queue > 0, sync_task = "wait"
             PROVE  \/ /\ xfer_type["M"] = "TX" /\ spi.rxf = <<>> /\ spi.rxint
                       /\ spi.thres + 1 = NextPiece(TxM.frame)
                    \/ xfer_type["M"] = "RX" /\ Len(spi.txf) = NextPiece(RxM.frame)
                    \/ xfer_type["M"] = "INVALID" /\ Len(spi.txf) = 1
  BY DEF EdgeMeansReady, TxM, RxM
<1>1. TypeOK /\ sync_queue # 0
  BY DEF IInv
<1>2. ~ NoEdgeOut /\ ~ AtRest
  BY <1>1 DEF NoEdgeOut, AtRest
<1>3. CASE MTurn
  <2>1. Open("M") /\ (MPart \/ MFull \/ MEdge)
    BY <1>2, <1>3
       DEF MTurn, MAlone, MFilled, MClaimed, MHeader, MWords, MCrc, MFrame, MLast, MDelivered
  <2>2. CASE MPart
    <3>1. spi.thres + 1 = NextPiece(TxM.frame)
      BY <1>1, <2>1, <2>2, PartMeansReady
    <3> QED
      BY <2>2, <3>1 DEF MPart, MSends
  <2>3. CASE MFull
    <3>1. spi.thres = 0 /\ TxM.frame.payload_done
      BY <2>3 DEF MFull, SFull, Full
    <3>2. spi.thres + 1 = NextPiece(TxM.frame)
      BY <3>1 DEF NextPiece
    <3> QED
      BY <2>3, <3>2 DEF MFull
  <2>4. CASE MEdge
    <3>1. spi.thres = 0 /\ (TxM.frame.payload_done \/ ~ TxM.frame.header_done)
      BY <2>4 DEF MEdge, SNext, MSent, MNext, Full, Fresh
    <3>2. spi.thres + 1 = NextPiece(TxM.frame)
      BY <3>1 DEF NextPiece
    <3>3. xfer_type["M"] = "TX" /\ spi.rxf = <<>> /\ spi.rxint
      BY <2>4 DEF MEdge, SNext, MSent, MNext, MSends
    <3> QED
      BY <3>2, <3>3
  <2> QED
    BY <2>1, <2>2, <2>3, <2>4
<1>4. CASE STurn
  <2>1. ~ SThrough
    BY <1>1 DEF SThrough
  <2>2. SHeader \/ SWords \/ SCrc \/ SRead \/ SFrame
    BY <1>2, <1>4, <2>1 DEF STurn, SFilled, SClaimed, SPart, SDone, SDelivered
  <2>3. SGoesOn => Len(spi.txf) = 1
    <3>1. \A n : Len(<<Header(n)>>) = 1
      OBVIOUS
    <3> QED
      BY <1>1, <3>1 DEF SGoesOn
  <2>4. CASE SHeader
    <3>1. \A n : Len(<<Header(n)>>) = 1
      OBVIOUS
    <3> QED
      BY <2>4, <3>1 DEF SHeader
  <2>5. CASE SWords
    <3>1. Len(spi.txf) = NextPiece(RxM.frame)
      BY <1>1, <2>5, WordsMeanReady
    <3> QED
      BY <2>5, <3>1 DEF SWords, MBusy
  <2>6. CASE SCrc
    BY <2>6 DEF SCrc, IsChecksum, Full, NextPiece, MBusy
  <2>7. CASE SRead
    BY <2>1, <2>3, <2>7 DEF SRead, Over, NextPiece, MBusy
  <2>8. CASE SFrame
    BY <2>3, <2>8 DEF SFrame, Fresh, NextPiece, MBusy
  <2> QED
    BY <2>2, <2>4, <2>5, <2>6, <2>7, <2>8
<1>5. CASE Pause
  BY <1>1, <1>2, <1>5 DEF Pause, SThrough
<1> QED
  BY <1>3, <1>4, <1>5 DEF IInv, Stage

\* An edge that waits for M says that S is prepared for the very words M will clock when it
\* handles it, so that no burst overruns a FIFO, reads junk or leaves S without an interrupt.
THEOREM EdgesMeanReady ==
    ASSUME TakingTurns, NoRestBelowPart PROVE Spec => []EdgeMeansReady
<1> DEFINE Ready == IInv /\ WholeParts /\ MasterSize
<1>1. Init => Ready
  <2> SUFFICES ASSUME Init PROVE Ready
    OBVIOUS
  <2>1. IInv
    BY IInvAtStart
  <2>2. TxM.frame.handled = 0
    BY DEF Init, Each, TxM, BlankManager, BlankFrame, Side
  <2>3. 0 = 0 * PartLen
    BY LenAssumption
  <2>4. sent["M"] = <<>>
    BY DEF Init, Each, Side
  <2> QED
    BY <2>1, <2>2, <2>3, <2>4 DEF WholeParts, MasterSize
<1>2. Ready /\ [Next]_vars => Ready'
  <2> SUFFICES ASSUME Ready, [Next]_vars PROVE Ready'
    OBVIOUS
  <2>1. TypeOK
    BY DEF IInv
  <2>2. IInv'
    BY SyncTaskKeeps, CrcTasksKeep, SpiIsrKeeps, ApplicationsKeep, StutterKeeps DEF Next
  <2> QED
    BY <2>1, <2>2, WholePartsKept, MasterSizeKept
<1>3. Ready => EdgeMeansReady
  BY StageMeansReady
<1> QED
  <2> HIDE DEF Ready
  <2> QED
    BY <1>1, <1>2, <1>3, PTL DEF Spec
===============================================================================
