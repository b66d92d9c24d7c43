--------------------------- MODULE CascadeMaster ---------------------------
(***************************************************************************)
(* The master's side of the cascade link (cascade_if_master.c): a package  *)
(* is started by the application, or by an edge that finds no session; from *)
(* then on every edge makes s2m_sync_task clock one piece: a header, a     *)
(* part of the payload, or the checksum.  Where cs_crc_task can get in     *)
(* between a test and the assignment it leads to, the handler is two steps.*)
(***************************************************************************)
EXTENDS CascadeCore

LOCAL Tx == tx_mng["M"]
LOCAL Rx == rx_mng["M"]

\* s2m_sync_task has the processor and takes an edge
TakeEdge ==
    /\ MayRun("M", "sync")
    /\ sync_task = "wait"
    /\ sync_queue > 0
    /\ sync_queue' = sync_queue - 1

InSession(type) == TakeEdge /\ xfer_type["M"] = type

LOCAL SetTx(x) == tx_mng' = [tx_mng EXCEPT !["M"] = x]
LOCAL SetRx(x) == rx_mng' = [rx_mng EXCEPT !["M"] = x]

-----------------------------------------------------------------------------
(* cascade_if_master_send_callback                                         *)

MasterSendHeader ==
    /\ InSession("TX")
    /\ ~ Tx.frame.header_done
    /\ spi' = Clocked(<<Header(Tx.frame.header)>>)
    /\ SetTx([Tx EXCEPT !.frame.header_done = TRUE])
    /\ cascade_crc_request("M", "tx", Tx.frame)
    /\ UNCHANGED <<xfer_type, rx_mng, crc_unmatch, rx_data_buffer, queues,
                   crc_task, sync_task, apps>>

MasterSendPart ==
    LET f == Tx.frame
        words == TxWords("M", FramePartBase(f), FramePartSize(f))
    IN  /\ InSession("TX")
        /\ f.header_done /\ ~ f.payload_done
        /\ spi' = Clocked([k \in DOMAIN words |-> Data(words[k])])
        /\ SetTx([Tx EXCEPT !.frame = cascade_frame_part_update(f, Len(words))])
        /\ UNCHANGED <<xfer_type, rx_mng, crc_unmatch, memory, queues, crc_task,
                       sync_task, apps>>

MasterSendCrc ==
    LET f == Tx.frame
    IN  /\ InSession("TX")
        /\ f.header_done /\ f.payload_done
        /\ \/ f.crc_done /\ UNCHANGED spi /\ tx_frame_done("M", Tx, "INVALID")
           \/ /\ ~ f.crc_done /\ f.crc_valid
              /\ spi' = Clocked(<<Checksum(f.crc)>>)
              /\ tx_frame_done("M", [Tx EXCEPT !.frame.crc_done = TRUE,
                                               !.frame.crc_valid = FALSE], "INVALID")
        /\ UNCHANGED <<rx_mng, crc_unmatch, memory, rx_queue, crc_task, sync_task, apps>>

\* the checksum is not there yet: seen here, acted upon in MasterBlock
MasterCrcNotReady ==
    LET f == Tx.frame
    IN  /\ InSession("TX")
        /\ f.header_done /\ f.payload_done /\ ~ f.crc_done /\ ~ f.crc_valid
        /\ sync_task' = "block_tx"
        /\ UNCHANGED <<proto, memory, queues, spi, crc_task, apps>>

\* xfer->state = CS_XFER_CRC, in either direction
MasterBlock ==
    /\ MayRun("M", "sync")
    /\ sync_task \in {"block_tx", "block_rx"}
    /\ sync_task' = "wait"
    /\ IF sync_task = "block_tx"
       THEN SetTx([Tx EXCEPT !.state = "CRC"]) /\ UNCHANGED rx_mng
       ELSE SetRx([Rx EXCEPT !.state = "CRC"]) /\ UNCHANGED tx_mng
    /\ UNCHANGED <<xfer_type, crc_unmatch, memory, queues, wire, crc_task, apps>>

-----------------------------------------------------------------------------
(* cascade_if_master_package_init and cascade_if_master_receive_callback   *)

\* an edge outside a session: a new package.  A bad header still opens a
\* session when an earlier package has left its length behind.
MasterPackageInit ==
    LET w == ClockedIn(1)[1]
        x == IF IsHeader(w)
             THEN cascade_rx_first_frame_init(cascade_receiver_init(Rx, HeaderLen(w)))
             ELSE Rx
    IN  /\ InSession("INVALID")
        /\ spi' = Clocked(Dummy(1))
        /\ SetRx(x)
        /\ xfer_type' = [xfer_type EXCEPT !["M"] = IF x.xfer_size > 0 THEN "RX" ELSE @]
        /\ UNCHANGED <<tx_mng, crc_unmatch, memory, queues, crc_task, sync_task, apps>>

\* every receive callback first turns DONE into PENDING
Pended(x) == [x EXCEPT !.state = IF @ = "DONE" THEN "PENDING" ELSE @]

MasterReadHeader ==
    LET w == ClockedIn(1)[1]
        x == Pended(Rx)
    IN  /\ InSession("RX")
        /\ ~ Rx.frame.header_done
        /\ spi' = Clocked(Dummy(1))
        /\ SetRx(IF IsHeader(w) THEN cascade_rx_next_frame_init(x) ELSE x)
        /\ UNCHANGED <<xfer_type, tx_mng, crc_unmatch, memory, queues, crc_task,
                       sync_task, apps>>

MasterReadPart ==
    LET x == Pended(Rx)
        n == FramePartSize(x.frame)
    IN  /\ InSession("RX")
        /\ x.frame.header_done /\ ~ x.frame.payload_done
        /\ spi' = Clocked(Dummy(n))
        /\ rx_data_buffer' = [rx_data_buffer EXCEPT !["M"] =
                                 Stored(@, FramePartBase(x.frame), ClockedIn(n))]
        /\ SetRx([x EXCEPT !.frame = cascade_frame_part_update(@, n)])
        /\ UNCHANGED <<xfer_type, tx_mng, crc_unmatch, cs_last_frame_info, queues,
                       crc_task, sync_task, apps>>

\* the checksum of the previous frame is still being compared
MasterReceiveBlocked ==
    LET x == Pended(Rx)
    IN  /\ InSession("RX")
        /\ x.frame.header_done /\ x.frame.payload_done
        /\ ~ x.frame.crc_done /\ x.frame.crc_valid
        /\ sync_task' = "block_rx"
        /\ SetRx(x)
        /\ UNCHANGED <<xfer_type, tx_mng, crc_unmatch, memory, queues, spi, crc_task, apps>>

\* the checksum is read and marked valid; the request follows in MasterFrameRead
MasterReadCrc ==
    LET x == Pended(Rx)
    IN  /\ InSession("RX")
        /\ x.frame.header_done /\ x.frame.payload_done
        /\ ~ x.frame.crc_done /\ ~ x.frame.crc_valid
        /\ spi' = Clocked(Dummy(1))
        /\ SetRx([x EXCEPT !.frame.crc = ClockedIn(1)[1].value,
                           !.frame.crc_done = TRUE, !.frame.crc_valid = TRUE])
        /\ sync_task' = "crc_read"
        /\ UNCHANGED <<xfer_type, tx_mng, crc_unmatch, memory, queues, crc_task, apps>>

\* the end of the callback: on to the next frame, or, when the last checksum
\* has been compared already, the package is indicated
FrameRead ==
    \/ /\ ~ IsLastFrame(Rx)
       /\ SetRx([Rx EXCEPT !.frame = cascade_frame_reset(@)])
       /\ UNCHANGED <<xfer_type, rx_queue>>
    \/ /\ IsLastFrame(Rx) /\ Rx.frame.crc_valid
       /\ UNCHANGED <<rx_mng, xfer_type, rx_queue>>
    \/ /\ IsLastFrame(Rx) /\ ~ Rx.frame.crc_valid
       /\ rx_indication("M")
       /\ rx_package_done("M")

MasterFrameRead ==
    /\ MayRun("M", "sync")
    /\ sync_task = "crc_read"
    /\ sync_task' = "wait"
    /\ cascade_crc_request("M", "rx", Rx.frame)
    /\ FrameRead
    /\ UNCHANGED <<tx_mng, crc_unmatch, rx_data_buffer, tx_queue, wire, crc_task, apps>>

\* an edge after the checksum was read elsewhere: only the end of the callback
MasterCrcReadBefore ==
    /\ InSession("RX")
    /\ Rx.frame.header_done /\ Rx.frame.payload_done /\ Rx.frame.crc_done
    /\ FrameRead
    /\ UNCHANGED <<tx_mng, crc_unmatch, memory, tx_queue, spi, crc_task, sync_task, apps>>

-----------------------------------------------------------------------------
(* cs_crc_task, second half                                                *)

\* cascade_if_master_rx_crc_done.  A blocked session reads the next checksum
\* here, but leaves the frame as it is.
MasterRxCrcDone ==
    LET compared == [Rx EXCEPT !.crc_done_cnt = @ + 1, !.frame.crc_valid = FALSE]
    IN  /\ CrcTaskAt("M", "rx")
        /\ CrcTaskGoes("M", "idle")
        /\ \/ /\ ~ Rx.frame.crc_valid
              /\ UNCHANGED <<proto, memory, queues, spi>>
           \/ /\ Rx.frame.crc_valid
              /\ crc_unmatch' = [crc_unmatch EXCEPT !["M"] =
                                    @ \/ crc_task["M"].crc32 # Rx.frame.crc]
              /\ \/ /\ Rx.state = "CRC"
                    /\ spi' = Clocked(Dummy(1))
                    /\ SetRx([compared EXCEPT !.state = "BUSY",
                                              !.frame.crc = ClockedIn(1)[1].value,
                                              !.frame.crc_done = TRUE,
                                              !.frame.crc_valid = TRUE])
                    /\ cascade_crc_request("M", "rx", Rx.frame)
                    /\ UNCHANGED <<xfer_type, rx_queue>>
                 \/ /\ Rx.state # "CRC"
                    /\ compared.crc_done_cnt < Rx.nof_frame
                    /\ SetRx(compared)
                    /\ UNCHANGED <<xfer_type, rx_queue, spi, cs_last_frame_info>>
                 \/ /\ Rx.state # "CRC"
                    /\ compared.crc_done_cnt >= Rx.nof_frame
                    /\ rx_indication("M")
                    /\ SetRx([compared EXCEPT !.state = "IDLE"])
                    /\ xfer_type' = [xfer_type EXCEPT !["M"] = "INVALID"]
                    /\ UNCHANGED <<spi, cs_last_frame_info>>
              /\ UNCHANGED <<tx_mng, rx_data_buffer, tx_queue>>
        /\ UNCHANGED <<sync_queue, sync_task, apps>>

\* cascade_if_master_tx_crc_done: a blocked session gets its checksum sent
\* from here (MasterTxCrcSent ends that case), else the checksum is to be
\* marked valid (MasterTxCrcReady)
MasterTxCrcDone ==
    LET x == [Tx EXCEPT !.frame.crc = crc_task["M"].crc32]
    IN  /\ CrcTaskAt("M", "tx")
        /\ IF Tx.state = "CRC"
           THEN /\ SetTx([x EXCEPT !.state = "BUSY"])
                /\ spi' = Clocked(<<Checksum(x.frame.crc)>>)
                /\ CrcTaskGoes("M", "tx_sent")
           ELSE /\ SetTx(x)
                /\ CrcTaskGoes("M", "tx_ready")
                /\ UNCHANGED spi
        /\ UNCHANGED <<xfer_type, rx_mng, crc_unmatch, memory, queues, sync_queue,
                       sync_task, apps>>

MasterTxCrcSent ==
    /\ CrcTaskAt("M", "tx_sent")
    /\ CrcTaskGoes("M", "idle")
    /\ tx_frame_done("M", [Tx EXCEPT !.frame.crc_valid = FALSE, !.frame.crc_done = TRUE],
                     "INVALID")
    /\ UNCHANGED <<rx_mng, crc_unmatch, memory, rx_queue, wire, sync_task, apps>>

MasterTxCrcReady ==
    /\ CrcTaskAt("M", "tx_ready")
    /\ CrcTaskGoes("M", "idle")
    /\ SetTx([Tx EXCEPT !.frame.crc_valid = TRUE])
    /\ UNCHANGED <<xfer_type, rx_mng, crc_unmatch, memory, queues, wire, sync_task, apps>>

-----------------------------------------------------------------------------
(* cascade_if_master_write, in the application's task                      *)

\* package and first frame set up, header sent; the checksum is requested in
\* MasterWriteRequest
MasterWrite ==
    LET x == cascade_tx_first_frame_init(cascade_package_init(Tx, Last(sent["M"])))
    IN  /\ MayRun("M", "writer")
        /\ writer["M"] = "claimed"
        /\ SetTx([x EXCEPT !.frame.header_done = TRUE])
        /\ spi' = Clocked(<<Header(x.frame.header)>>)
        /\ writer' = [writer EXCEPT !["M"] = "request"]
        /\ UNCHANGED <<xfer_type, rx_mng, crc_unmatch, memory, queues, sync_queue,
                       sync_task, crc_task, reader, sent, got>>

MasterWriteRequest ==
    /\ MayRun("M", "writer")
    /\ writer["M"] = "request"
    /\ writer' = [writer EXCEPT !["M"] = "idle"]
    /\ cascade_crc_request("M", "tx", Tx.frame)
    /\ UNCHANGED <<proto, rx_data_buffer, queues, wire, sync_task, crc_task, reader,
                   sent, got>>

SyncTask ==
    \/ MasterSendHeader \/ MasterSendPart \/ MasterSendCrc \/ MasterCrcNotReady
    \/ MasterPackageInit \/ MasterReadHeader \/ MasterReadPart
    \/ MasterReceiveBlocked \/ MasterReadCrc \/ MasterFrameRead \/ MasterCrcReadBefore
    \/ MasterBlock

MasterCrcTask ==
    \/ cascade_crc_task("M")
    \/ MasterRxCrcDone \/ MasterTxCrcDone \/ MasterTxCrcSent \/ MasterTxCrcReady

=============================================================================
