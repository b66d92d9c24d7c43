---------------------------- MODULE CascadeSlave ----------------------------
(***************************************************************************)
(* The slave's side of the cascade link (cascade_if_slave.c) on top of its *)
(* SPI driver (spi_hal.c, dw_ssi.c).  The SPI interrupt first moves words  *)
(* between the FIFOs and the installed device buffer (spi_raw_xfer), then  *)
(* calls cascade_if_callback, which depends on the session.  An interrupt  *)
(* is one step: nothing on the slave preempts it.                          *)
(***************************************************************************)
EXTENDS CascadeCore

LOCAL Tx == tx_mng["S"]
LOCAL Rx == rx_mng["S"]
LOCAL SetTx(x) == tx_mng' = [tx_mng EXCEPT !["S"] = x]
LOCAL SetRx(x) == rx_mng' = [rx_mng EXCEPT !["S"] = x]

-----------------------------------------------------------------------------
(* The driver.  rxon and txon say whether a device buffer is installed;    *)
(* the buffer itself lives in the manager and outlasts its installation.   *)

DevBuffer(base, len) == [base |-> base, len |-> len, ofs |-> 0]
Remaining(b) == b.len - b.ofs

SpiAtStart ==
    [txf |-> <<>>, rxf |-> <<>>, rxint |-> TRUE, txint |-> FALSE, thres |-> 0,
     rxon |-> FALSE, txon |-> FALSE, rxdev |-> DevBuffer(0, 0), txdev |-> DevBuffer(0, 0)]

\* spi_read and spi_write of one word: the driver's buffers are replaced and
\* then cleared, the RX FIFO is drained in either case
spi_write(s, w) == [s EXCEPT !.txf = <<w>>, !.rxf = <<>>, !.rxon = FALSE, !.txon = FALSE]
spi_read(s) == [s EXCEPT !.rxf = <<>>, !.rxon = FALSE, !.txon = FALSE]
WordRead(s) == IF s.rxf = <<>> THEN Junk ELSE Head(s.rxf)

InstallRx(s, f) == [s EXCEPT !.rxdev = DevBuffer(f.payload, f.len), !.rxon = TRUE]
InstallTx(s, f) == [s EXCEPT !.txdev = DevBuffer(f.payload, f.len), !.txon = TRUE]

\* mutants: always a whole part; one word too few
Threshold_WholePart(left) == PartLen - 1
Threshold_OffByOne(left) == IF PartLen - 1 > left THEN left - 2 ELSE PartLen - 1

\* the RX threshold for the next part; the interrupt needs one word more
Threshold(left) == IF PartLen - 1 > left THEN left - 1 ELSE PartLen - 1

\* mutant: the interrupt status is not looked at
TxPending_Masked == spi.txint

RxPending == spi.rxint /\ Len(spi.rxf) > spi.thres
TxPending == spi.txint /\ spi.txf = <<>>
IrqPending == RxPending \/ TxPending

\* a receive buffer takes all that the FIFO holds, whatever room is left in it
Receives == spi.rxon /\ Remaining(spi.rxdev) # 0
             /\ (spi.txon => Remaining(spi.txdev) # 0)
Transmits == ~ spi.rxon /\ spi.txon /\ Remaining(spi.txdev) # 0

\* the driver after spi_raw_xfer, and the chip's receive buffer after it
RawXfer ==
    LET in == Len(spi.rxf)
        out == AtMost(Remaining(spi.txdev), FifoDepth)
        words == TxWords("S", spi.txdev.base + spi.txdev.ofs, out)
    IN  IF Receives
        THEN [spi EXCEPT !.rxf = <<>>, !.rxdev.ofs = @ + in,
                         !.txdev.ofs = IF spi.txon THEN @ + in ELSE @]
        ELSE IF Transmits
        THEN [spi EXCEPT !.txf = [k \in DOMAIN words |-> Data(words[k])], !.rxf = <<>>,
                         !.txdev.ofs = @ + out]
        ELSE spi

RawBuffer ==
    IF Receives
    THEN Stored(rx_data_buffer["S"], spi.rxdev.base + spi.rxdev.ofs, spi.rxf)
    ELSE rx_data_buffer["S"]

\* spi_isr up to the callback; a transmission waits for the TX FIFO to run empty
Interrupt(type) ==
    /\ IrqPending
    /\ Transmits => spi.txf = <<>>
    /\ xfer_type["S"] = type
    /\ rx_data_buffer' = [rx_data_buffer EXCEPT !["S"] = RawBuffer]

WithEdge(s) == spi' = s /\ sync_queue' = Edge(sync_queue)
NoEdge(s) == spi' = s /\ UNCHANGED sync_queue

-----------------------------------------------------------------------------
(* cascade_if_slave_send_callback                                          *)

SlaveSendHeader ==
    /\ Interrupt("TX")
    /\ ~ Tx.frame.header_done
    /\ SetTx([Tx EXCEPT !.frame.header_done = TRUE])
    /\ WithEdge(InstallTx(spi_write(RawXfer, Header(Tx.frame.header)), Tx.frame))
    /\ cascade_crc_request("S", "tx", Tx.frame)
    /\ UNCHANGED <<xfer_type, rx_mng, crc_unmatch, queues, crc_task, sync_task, apps>>

SlaveSendPart ==
    LET full == RawXfer.txdev.ofs >= RawXfer.txdev.len
    IN  /\ Interrupt("TX")
        /\ Tx.frame.header_done /\ ~ Tx.frame.payload_done
        /\ SetTx([Tx EXCEPT !.frame.payload_done = full])
        /\ WithEdge([RawXfer EXCEPT !.txdev = IF full THEN DevBuffer(0, 0) ELSE @])
        /\ UNCHANGED <<xfer_type, rx_mng, crc_unmatch, cs_last_frame_info, queues,
                       crc_task, sync_task, apps>>

SlaveCrcNotReady ==
    LET f == Tx.frame
    IN  /\ Interrupt("TX")
        /\ f.header_done /\ f.payload_done /\ ~ f.crc_done /\ ~ f.crc_valid
        /\ SetTx([Tx EXCEPT !.state = "CRC"])
        /\ NoEdge([RawXfer EXCEPT !.txint = FALSE])
        /\ UNCHANGED <<xfer_type, rx_mng, crc_unmatch, cs_last_frame_info, queues,
                       crc_task, sync_task, apps>>

SlaveSendCrc ==
    LET f == Tx.frame
        s == spi_write(RawXfer, Checksum(f.crc))
    IN  /\ Interrupt("TX")
        /\ f.header_done /\ f.payload_done /\ ~ f.crc_done /\ f.crc_valid
        /\ tx_frame_done("S", [Tx EXCEPT !.frame.crc_done = TRUE, !.frame.crc_valid = FALSE],
                         "SLV_TX_DONE")
        /\ WithEdge(IF IsLastFrame(Tx) THEN [s EXCEPT !.rxint = TRUE, !.txint = FALSE] ELSE s)
        /\ UNCHANGED <<rx_mng, crc_unmatch, cs_last_frame_info, rx_queue, crc_task,
                       sync_task, apps>>

\* the master has read the last checksum: what it clocked in is thrown away
SlaveTxDone ==
    /\ Interrupt("SLV_TX_DONE")
    /\ xfer_type' = [xfer_type EXCEPT !["S"] = "INVALID"]
    /\ NoEdge([RawXfer EXCEPT !.rxf = <<>>])
    /\ UNCHANGED <<rx_mng, tx_mng, crc_unmatch, cs_last_frame_info, queues, crc_task,
                   sync_task, apps>>

-----------------------------------------------------------------------------
(* cascade_if_slave_package_init and cascade_if_slave_receive_callback     *)

SlavePackageInit ==
    LET w == WordRead(RawXfer)
        x == cascade_rx_first_frame_init(cascade_receiver_init(Rx, HeaderLen(w)))
        s == [InstallRx(spi_read(RawXfer), x.frame) EXCEPT !.thres = Threshold(x.frame.len)]
    IN  /\ Interrupt("INVALID")
        /\ IF IsHeader(w)
           THEN SetRx(x) /\ WithEdge(s)
           ELSE UNCHANGED rx_mng /\ NoEdge(spi_read(RawXfer))
        /\ xfer_type' = [xfer_type EXCEPT !["S"] = IF rx_mng'["S"].xfer_size > 0
                                                   THEN "RX" ELSE @]
        /\ UNCHANGED <<tx_mng, crc_unmatch, cs_last_frame_info, queues, crc_task,
                       sync_task, apps>>

\* a word found in state DONE is taken for the next package's header
Done == Rx.state = "DONE"
BadPendingHeader == Done /\ ~ IsHeader(WordRead(RawXfer))
Received == IF Done /\ ~ BadPendingHeader
            THEN [Rx EXCEPT !.state = "PENDING",
                            !.frame.header = HeaderLen(WordRead(RawXfer))]
            ELSE Rx
AfterDone == IF Done THEN spi_read(RawXfer) ELSE RawXfer

SlaveReadHeader ==
    LET w == WordRead(AfterDone)
        x == cascade_rx_next_frame_init(Received)
        s == [InstallRx(spi_read(AfterDone), x.frame) EXCEPT !.thres = Threshold(x.frame.len)]
    IN  /\ Interrupt("RX")
        /\ BadPendingHeader \/ ~ Rx.frame.header_done
        /\ IF ~ BadPendingHeader /\ IsHeader(w) /\ HeaderLen(w) < 4 * BufferSize
           THEN SetRx(x) /\ WithEdge(s)
           ELSE SetRx(Received) /\ NoEdge(spi_read(AfterDone))
        /\ UNCHANGED <<xfer_type, tx_mng, crc_unmatch, cs_last_frame_info, queues,
                       crc_task, sync_task, apps>>

SlaveReadPart ==
    LET s == AfterDone
        full == s.rxdev.ofs >= s.rxdev.len
        left == Remaining(s.rxdev)
    IN  /\ Interrupt("RX")
        /\ ~ BadPendingHeader
        /\ Rx.frame.header_done /\ ~ Rx.frame.payload_done
        /\ SetRx([Received EXCEPT !.frame.payload_done = full])
        /\ WithEdge(IF full THEN [s EXCEPT !.rxdev = DevBuffer(0, 0), !.thres = 0]
                    ELSE IF PartLen - 1 > left THEN [s EXCEPT !.thres = left - 1]
                    ELSE s)
        /\ UNCHANGED <<xfer_type, tx_mng, crc_unmatch, cs_last_frame_info, queues,
                       crc_task, sync_task, apps>>

InReadCrc ==
    /\ Interrupt("RX")
    /\ ~ BadPendingHeader
    /\ Rx.frame.header_done /\ Rx.frame.payload_done

\* the checksum of the previous frame is still being compared
SlaveReceiveBlocked ==
    /\ InReadCrc
    /\ ~ Rx.frame.crc_done /\ Rx.frame.crc_valid
    /\ SetRx([Received EXCEPT !.state = "CRC"])
    /\ NoEdge([AfterDone EXCEPT !.rxint = FALSE])
    /\ UNCHANGED <<xfer_type, tx_mng, crc_unmatch, cs_last_frame_info, queues, crc_task,
                   sync_task, apps>>

\* the end of the callback: on to the next frame, or wait for the comparison of
\* the last checksum, or, when that is over already, indicate the package
SlaveFrameEnds(x, s) ==
    \/ /\ ~ IsLastFrame(x)
       /\ SetRx([x EXCEPT !.frame = cascade_frame_reset(@)])
       /\ WithEdge(s)
       /\ UNCHANGED <<xfer_type, rx_queue>>
    \/ /\ IsLastFrame(x) /\ x.frame.crc_valid
       /\ SetRx(x)
       /\ NoEdge(s)
       /\ UNCHANGED <<xfer_type, rx_queue>>
    \/ /\ IsLastFrame(x) /\ ~ x.frame.crc_valid
       /\ rx_indication("S")
       /\ SetRx([x EXCEPT !.state = "IDLE"])
       /\ xfer_type' = [xfer_type EXCEPT !["S"] = "INVALID"]
       /\ NoEdge([s EXCEPT !.rxon = FALSE])

SlaveReadCrc ==
    LET x == [Received EXCEPT !.frame.crc = WordRead(AfterDone).value,
                              !.frame.crc_done = TRUE, !.frame.crc_valid = TRUE]
    IN  /\ InReadCrc
        /\ ~ Rx.frame.crc_done /\ ~ Rx.frame.crc_valid
        /\ cascade_crc_request("S", "rx", x.frame)
        /\ SlaveFrameEnds(x, spi_read(AfterDone))
        /\ UNCHANGED <<tx_mng, crc_unmatch, tx_queue, crc_task, sync_task, apps>>

\* a word that arrives after the last checksum: only the end of the callback
SlaveCrcReadBefore ==
    /\ InReadCrc
    /\ Rx.frame.crc_done
    /\ SlaveFrameEnds(Received, AfterDone)
    /\ UNCHANGED <<tx_mng, crc_unmatch, cs_last_frame_info, tx_queue, crc_task,
                   sync_task, apps>>

spi_isr ==
    \/ SlaveSendHeader \/ SlaveSendPart \/ SlaveCrcNotReady \/ SlaveSendCrc \/ SlaveTxDone
    \/ SlavePackageInit \/ SlaveReadHeader \/ SlaveReadPart
    \/ SlaveReceiveBlocked \/ SlaveReadCrc \/ SlaveCrcReadBefore

-----------------------------------------------------------------------------
(* cs_crc_task, second half; the interrupt may come between its steps      *)

\* cascade_if_slave_rx_crc_done up to crc_valid = 0
SlaveRxCrcDone ==
    /\ CrcTaskAt("S", "rx")
    /\ CrcTaskGoes("S", IF Rx.frame.crc_valid THEN "rx_compared" ELSE "idle")
    /\ IF Rx.frame.crc_valid
       THEN /\ SetRx([Rx EXCEPT !.crc_done_cnt = @ + 1, !.frame.crc_valid = FALSE])
            /\ crc_unmatch' = [crc_unmatch EXCEPT !["S"] =
                                  @ \/ crc_task["S"].crc32 # Rx.frame.crc]
       ELSE UNCHANGED <<rx_mng, crc_unmatch>>
    /\ UNCHANGED <<xfer_type, tx_mng, memory, queues, wire, sync_task, apps>>

\* a blocked session is let go on; after the last frame the package is indicated
SlaveRxCompared ==
    /\ CrcTaskAt("S", "rx_compared")
    /\ \/ /\ Rx.state = "CRC"
          /\ SetRx([Rx EXCEPT !.state = "BUSY"])
          /\ NoEdge([spi EXCEPT !.rxint = TRUE])
          /\ CrcTaskGoes("S", "idle")
          /\ UNCHANGED rx_queue
       \/ /\ Rx.state # "CRC" /\ Rx.crc_done_cnt < Rx.nof_frame
          /\ CrcTaskGoes("S", "idle")
          /\ UNCHANGED <<rx_mng, wire, rx_queue>>
       \/ /\ Rx.state # "CRC" /\ Rx.crc_done_cnt >= Rx.nof_frame
          /\ rx_indication("S")
          /\ SetRx([Rx EXCEPT !.state = IF Len(rx_queue["S"]) < QueueLen THEN "DONE" ELSE @])
          /\ CrcTaskGoes("S", "rx_indicated")
          /\ UNCHANGED wire
    /\ UNCHANGED <<xfer_type, tx_mng, crc_unmatch, memory, tx_queue, sync_task, apps>>

\* cascade_package_done, then the receive buffer is uninstalled
SlaveRxPackageDone ==
    /\ CrcTaskAt("S", "rx_indicated")
    /\ CrcTaskGoes("S", "idle")
    /\ SetRx([Rx EXCEPT !.state = "IDLE"])
    /\ xfer_type' = [xfer_type EXCEPT !["S"] = "INVALID"]
    /\ NoEdge([spi EXCEPT !.rxon = FALSE])
    /\ UNCHANGED <<tx_mng, crc_unmatch, memory, queues, sync_task, apps>>

\* cascade_if_slave_tx_crc_done up to crc_valid = 1
SlaveTxCrcDone ==
    /\ CrcTaskAt("S", "tx")
    /\ CrcTaskGoes("S", "tx_valid")
    /\ SetTx([Tx EXCEPT !.frame.crc = crc_task["S"].crc32, !.frame.crc_valid = TRUE])
    /\ UNCHANGED <<xfer_type, rx_mng, crc_unmatch, memory, queues, wire, sync_task, apps>>

\* a blocked session is let go on
SlaveTxCrcValid ==
    /\ CrcTaskAt("S", "tx_valid")
    /\ CrcTaskGoes("S", "idle")
    /\ IF Tx.state = "CRC"
       THEN SetTx([Tx EXCEPT !.state = "BUSY"]) /\ NoEdge([spi EXCEPT !.txint = TRUE])
       ELSE UNCHANGED <<tx_mng, wire>>
    /\ UNCHANGED <<xfer_type, rx_mng, crc_unmatch, memory, queues, sync_task, apps>>

SlaveCrcTask ==
    \/ cascade_crc_task("S")
    \/ SlaveRxCrcDone \/ SlaveRxCompared \/ SlaveRxPackageDone
    \/ SlaveTxCrcDone \/ SlaveTxCrcValid

-----------------------------------------------------------------------------
(* cascade_if_slave_write, in the application's task                       *)

\* package and first frame set up, header in the FIFO
SlaveWrite ==
    LET x == cascade_tx_first_frame_init(cascade_package_init(Tx, Last(sent["S"])))
    IN  /\ MayRun("S", "writer")
        /\ writer["S"] = "claimed"
        /\ spi.txf = <<>>
        /\ SetTx([x EXCEPT !.frame.header_done = TRUE])
        /\ NoEdge(InstallTx(spi_write(spi, Header(x.frame.header)), x.frame))
        /\ writer' = [writer EXCEPT !["S"] = "request"]
        /\ UNCHANGED <<xfer_type, rx_mng, crc_unmatch, memory, queues, sync_task, crc_task,
                       reader, sent, got>>

\* the checksum requested, the interrupts turned round and the master told
SlaveWriteRequest ==
    /\ MayRun("S", "writer")
    /\ writer["S"] = "request"
    /\ writer' = [writer EXCEPT !["S"] = "idle"]
    /\ cascade_crc_request("S", "tx", Tx.frame)
    /\ WithEdge([spi EXCEPT !.rxint = FALSE, !.txint = TRUE])
    /\ UNCHANGED <<proto, rx_data_buffer, queues, sync_task, crc_task, reader, sent, got>>

=============================================================================
