---------------------------- MODULE CascadeLink ----------------------------
(***************************************************************************)
(* The cascade link as a whole: both ends, and on each chip the            *)
(* application that writes packages (cascade_write_buf_req .. _done) and   *)
(* the one that reads them (cascade_read_buf_req .. _done).                *)
(***************************************************************************)
EXTENDS CascadeMaster, CascadeSlave

CONSTANTS MasterLens,   \* lengths of the packages the master's application writes
          SlaveLens,    \* and the slave's
          InTurns       \* do the applications write in turns?

ASSUME LinkAssumption ==
    /\ MasterLens \subseteq 1 .. BufferSize
    /\ SlaveLens \subseteq 1 .. BufferSize
    /\ InTurns \in BOOLEAN

Peer(s) == IF s = "M" THEN "S" ELSE "M"
Lens(s) == IF s = "M" THEN MasterLens ELSE SlaveLens

-----------------------------------------------------------------------------
(* cascade.c, and the entry and exit of core.c                             *)

\* nothing is under way: no session is open on either chip, and every package
\* has been read
Quiet ==
    \A s \in Side :
        /\ xfer_type[s] = "INVALID"
        /\ writer[s] = "idle" /\ reader[s] = "idle"
        /\ Len(got[Peer(s)]) = Len(sent[s])

\* that the applications write in turns is LinkInTurns of SensorScan; otherwise one
\* of them writes whenever it likes while the other one never does
MayWrite(s) == IF InTurns THEN Quiet ELSE sent[Peer(s)] = <<>>

\* cascade_write_buf_req waits for the confirmation of the package before, then
\* the package is put into cas_tx_buf
cascade_write_buf_req(s) ==
    /\ MayWrite(s)
    /\ writer[s] = "idle"
    /\ Len(sent[s]) < MaxPkg
    /\ sent[s] # <<>> => tx_queue[s] > 0
    /\ tx_queue' = [tx_queue EXCEPT ![s] = IF sent[s] = <<>> THEN @ ELSE @ - 1]
    /\ \E len \in Lens(s) : sent' = [sent EXCEPT ![s] = Append(@, len)]
    /\ writer' = [writer EXCEPT ![s] = "filled"]
    /\ UNCHANGED <<proto, memory, rx_queue, crc_task, wire, sync_task, reader, got>>

\* cascade_write claims the link; it is called again for as long as it is busy
cascade_write(s) ==
    /\ MayRun(s, "writer")
    /\ writer[s] = "filled"
    /\ xfer_type[s] = "INVALID"
    /\ tx_mng[s].state = "IDLE"
    /\ xfer_type' = [xfer_type EXCEPT ![s] = "TX"]
    /\ tx_mng' = [tx_mng EXCEPT ![s].state = "BUSY"]
    /\ spi' = IF s = "S" THEN [spi EXCEPT !.rxdev = DevBuffer(0, 0)] ELSE spi
    /\ writer' = [writer EXCEPT ![s] = "claimed"]
    /\ UNCHANGED <<rx_mng, crc_unmatch, memory, queues, crc_task, sync_queue, sync_task,
                   reader, sent, got>>

\* cascade_read, then the words are read from the receive buffer
cascade_read(s) ==
    /\ MayRun(s, "reader")
    /\ reader[s] = "idle"
    /\ rx_queue[s] # <<>>
    /\ rx_queue' = [rx_queue EXCEPT ![s] = Tail(@)]
    /\ got' = [got EXCEPT ![s] = Append(@, RxWords(s, 0, Head(rx_queue[s])))]
    /\ reader' = [reader EXCEPT ![s] = "reading"]
    /\ UNCHANGED <<proto, memory, tx_queue, crc_task, wire, sync_task, writer, sent>>

\* the state is IDLE by the time it is compared with PENDING
cascade_process_done(s) ==
    /\ MayRun(s, "reader")
    /\ reader[s] = "reading"
    /\ xfer_type' = [xfer_type EXCEPT ![s] = "INVALID"]
    /\ rx_mng' = [rx_mng EXCEPT ![s].state = "IDLE"]
    /\ reader' = [reader EXCEPT ![s] = "idle"]
    /\ UNCHANGED <<tx_mng, crc_unmatch, memory, queues, crc_task, wire, sync_task, writer,
                   sent, got>>

Writer(s) ==
    \/ cascade_write_buf_req(s) \/ cascade_write(s)
    \/ s = "M" /\ (MasterWrite \/ MasterWriteRequest)
    \/ s = "S" /\ (SlaveWrite \/ SlaveWriteRequest)
Reader(s) == cascade_read(s) \/ cascade_process_done(s)

-----------------------------------------------------------------------------

Each(v) == [s \in Side |-> v]

Init ==
    /\ xfer_type = Each("INVALID")
    /\ rx_mng = Each(BlankManager) /\ tx_mng = Each(BlankManager)
    /\ crc_unmatch = Each(FALSE)
    /\ rx_data_buffer = Each([i \in 0 .. BufferSize - 1 |-> 0])
    /\ rx_queue = Each(<<>>) /\ tx_queue = Each(0)
    /\ cs_last_frame_info = Each([mem |-> "none", ofs |-> 0, len |-> 0])
    /\ crc_task = Each([pc |-> "idle", crc32 |-> <<>>])
    /\ spi = SpiAtStart
    /\ sync_queue = 0 /\ sync_task = "wait"
    /\ writer = Each("idle") /\ reader = Each("idle")
    /\ sent = Each(<<>>) /\ got = Each(<<>>)

Next ==
    \/ SyncTask \/ MasterCrcTask \/ spi_isr \/ SlaveCrcTask
    \/ \E s \in Side : Writer(s) \/ Reader(s)

Spec == Init /\ [][Next]_vars

\* interrupts are served, and the scheduler slices time between equal tasks
Fairness ==
    /\ WF_vars(SyncTask) /\ WF_vars(MasterCrcTask)
    /\ WF_vars(spi_isr) /\ WF_vars(SlaveCrcTask)
    /\ \A s \in Side : WF_vars(Writer(s)) /\ WF_vars(Reader(s))

FairSpec == Spec /\ Fairness

-----------------------------------------------------------------------------

WordType == [kind : {"header", "data", "crc", "junk"}, value : Seq(Nat)]
FrameType ==
    [header : Nat, payload : Nat, len : Nat, handled : Nat, crc : Seq(Nat),
     crc_valid : BOOLEAN, crc_done : BOOLEAN, header_done : BOOLEAN, payload_done : BOOLEAN]
ManagerType ==
    [state : {"IDLE", "BUSY", "CRC", "DONE", "PENDING"}, xfer_size : Nat, nof_frame : Nat,
     cur_frame_id : Nat, crc_done_cnt : Nat, frame : FrameType]
DevBufferType == [base : Nat, len : Nat, ofs : Nat]
SpiType ==
    [txf : Seq(WordType), rxf : Seq(WordType), rxint : BOOLEAN, txint : BOOLEAN,
     thres : Nat, rxon : BOOLEAN, txon : BOOLEAN, rxdev : DevBufferType,
     txdev : DevBufferType]

\* The types of all variables, with the capacities of queues and FIFOs.
TypeOK ==
    /\ xfer_type \in [Side -> {"INVALID", "RX", "TX", "SLV_TX_DONE"}]
    /\ rx_mng \in [Side -> ManagerType] /\ tx_mng \in [Side -> ManagerType]
    /\ crc_unmatch \in [Side -> BOOLEAN]
    /\ rx_data_buffer \in [Side -> [0 .. BufferSize - 1 -> Nat]]
    /\ rx_queue \in [Side -> Seq(Nat)] /\ tx_queue \in [Side -> 0 .. QueueLen]
    /\ cs_last_frame_info \in [Side -> [mem : {"none", "rx", "tx"}, ofs : Nat, len : Nat]]
    /\ crc_task \in [Side -> [pc : {"idle", "rx", "rx_compared", "rx_indicated", "tx",
                                    "tx_valid", "tx_sent", "tx_ready"},
                              crc32 : Seq(Nat)]]
    /\ spi \in SpiType
    /\ Len(spi.txf) <= FifoDepth /\ Len(spi.rxf) <= FifoDepth
    /\ sync_queue \in 0 .. QueueLen
    /\ sync_task \in {"wait", "block_tx", "block_rx", "crc_read"}
    /\ writer \in [Side -> {"idle", "filled", "claimed", "request"}]
    /\ reader \in [Side -> {"idle", "reading"}]
    /\ sent \in [Side -> Seq(MasterLens \cup SlaveLens)] /\ got \in [Side -> Seq(Seq(Nat))]

-----------------------------------------------------------------------------
(* What the link is for: PackageChannel, in either direction.              *)

Written(s) == [p \in 1 .. Len(sent[s]) |-> [k \in 1 .. sent[s][p] |-> Datum(p, k - 1)]]
Contents(s) == {[k \in 1 .. len |-> Datum(p, k - 1)] : len \in Lens(s), p \in 1 .. MaxPkg}

ToSlave == INSTANCE PackageChannel WITH
               Package <- Contents("M"), written <- Written("M"), read <- got["S"]
ToMaster == INSTANCE PackageChannel WITH
               Package <- Contents("S"), written <- Written("S"), read <- got["M"]

\* A package either chip writes is read on the other, once, in order, intact, and
\* in the end.
ChannelsLive == ToSlave!ChannelSpec /\ ToMaster!ChannelSpec

-----------------------------------------------------------------------------
(* How the two ends keep step.                                             *)

\* words M clocks next for the frame f: its header, a part, or its checksum
NextPiece(f) == IF ~ f.header_done \/ f.payload_done THEN 1 ELSE FramePartSize(f)

\* An edge that waits for M says that S is prepared for the very words M will
\* clock when it handles it: S's RX FIFO is empty and interrupts after exactly
\* that many, or its TX FIFO holds exactly that many.  No burst overruns a
\* FIFO, reads junk, or leaves S without an interrupt.
EdgeMeansReady ==
    sync_queue > 0 /\ sync_task = "wait" =>
       \/ /\ xfer_type["M"] = "TX"
          /\ spi.rxf = <<>> /\ spi.rxint
          /\ spi.thres + 1 = NextPiece(tx_mng["M"].frame)
       \/ /\ xfer_type["M"] = "RX"
          /\ Len(spi.txf) = NextPiece(rx_mng["M"].frame)
       \/ /\ xfer_type["M"] = "INVALID"
          /\ Len(spi.txf) = 1

\* cascade_s2m_sync_isr drops an edge when M's queue of QueueLen is full, and
\* the session would stop for good: never does one edge wait behind another.
EdgesDoNotPileUp == sync_queue <= 1

\* The driver drains the RX FIFO into S's buffer without looking at the room
\* left: what is about to be drained fits the frame the buffer was installed for.
PartFits == RxPending /\ Receives => Len(spi.rxf) <= Remaining(spi.rxdev)

-----------------------------------------------------------------------------
(* What the source says of the link, and the link does not keep.           *)

\* "if the crc32 computing has not finished, then change xfer manager state,
\* and waiting task to update the states" (cascade_if_master.c)
MasterTxBlockEnds == (tx_mng["M"].state = "CRC") ~> (tx_mng["M"].state # "CRC")

=============================================================================
