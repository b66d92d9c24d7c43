---------------------------- MODULE CascadeCore ----------------------------
(***************************************************************************)
(* The state of the cascade link and what both of its ends share.  Two     *)
(* radar chips, the master M and the slave S, exchange packages over SPI:  *)
(* M owns the clock, S answers from its FIFOs and toggles a GPIO (s2m_sync)*)
(* whenever M may clock the next piece.  M's edges are queued by an        *)
(* interrupt and handled by s2m_sync_task; S does everything in its SPI    *)
(* interrupt; on each chip cs_crc_task computes the checksums.             *)
(***************************************************************************)
EXTENDS CascadeFrame, Sequences, SequencesExt

CONSTANTS FifoDepth,    \* words in each FIFO of the slave's SPI controller
          QueueLen,     \* CASCADE_QUEUE_LEN
          MaxPkg,       \* bound: how many packages a behaviour sends
          Preempt       \* may the tick switch a chip's tasks inside a callback?

ASSUME CoreAssumption ==
    /\ FifoDepth \in Nat /\ FifoDepth >= PartLen
    /\ QueueLen \in Nat \ {0}
    /\ MaxPkg \in Nat
    /\ Preempt \in BOOLEAN

Side == {"M", "S"}

VARIABLES
    xfer_type,            \* cs_proc.xfer_type of each chip
    rx_mng, tx_mng,       \* cs_proc.rx_mng and tx_mng
    crc_unmatch,          \* has a received checksum ever differed (crc_unmatch_cnt > 0)?
    rx_data_buffer,       \* the one receive buffer of each chip
    rx_queue, tx_queue,   \* package lengths indicated; number of confirmations
    cs_last_frame_info,   \* what cs_crc_task is to compute over
    crc_task,             \* where cs_crc_task is, and the checksum it computed
    spi,                  \* the slave's SPI driver and controller
    sync_queue,           \* edges waiting for s2m_sync_task
    sync_task,            \* where s2m_sync_task is
    writer, reader,       \* the application on each chip
    sent, got             \* history: lengths of the packages written, contents read

proto == <<xfer_type, rx_mng, tx_mng, crc_unmatch>>
memory == <<rx_data_buffer, cs_last_frame_info>>
queues == <<rx_queue, tx_queue>>
wire == <<spi, sync_queue>>
apps == <<writer, reader, sent, got>>
vars == <<proto, memory, queues, crc_task, wire, sync_task, apps>>

-----------------------------------------------------------------------------
(* Words.  Payload words are numbered so that no two packages share one;   *)
(* a checksum is the sequence it was computed over, so equal checksums     *)
(* mean equal data.                                                        *)

Datum(p, i) == (p - 1) * BufferSize + i + 1

Header(n) == [kind |-> "header", value |-> <<n>>]
Data(d) == [kind |-> "data", value |-> <<d>>]
Checksum(c) == [kind |-> "crc", value |-> c]
Junk == [kind |-> "junk", value |-> <<>>]

IsHeader(w) == w.kind = "header"
HeaderLen(w) == w.value[1]
Payload(w) == IF w.kind = "data" THEN w.value[1] ELSE 0

\* words ofs .. ofs+len-1 of chip s's transmit or receive buffer; cas_tx_buf
\* holds the last package written
TxWords(s, ofs, len) == [k \in 1 .. len |-> Datum(Len(sent[s]), ofs + k - 1)]
RxWords(s, ofs, len) == [k \in 1 .. len |-> rx_data_buffer[s][ofs + k - 1]]

\* buf with the words ws stored from index ofs on
Stored(buf, ofs, ws) ==
    [i \in DOMAIN buf |->
        IF ofs <= i /\ i < ofs + Len(ws) THEN Payload(ws[i - ofs + 1]) ELSE buf[i]]

-----------------------------------------------------------------------------
(* The wire.  M clocks n words out and n words in: it takes what the       *)
(* slave's TX FIFO holds (junk once it runs dry) and what it sends lands   *)
(* in the slave's RX FIFO (lost once that is full).  A burst is one step:  *)
(* M waits in it for the controller, and S's interrupt can only see its    *)
(* end, since it fires when a whole part has arrived or left.              *)

Clocked(out) ==
    [spi EXCEPT !.txf = IF Len(out) >= Len(@) THEN <<>> ELSE SubSeq(@, Len(out) + 1, Len(@)),
                !.rxf = IF Len(@ \o out) > FifoDepth THEN SubSeq(@ \o out, 1, FifoDepth)
                                                    ELSE @ \o out]

ClockedIn(n) == [k \in 1 .. n |-> IF k <= Len(spi.txf) THEN spi.txf[k] ELSE Junk]

Dummy(n) == [k \in 1 .. n |-> Junk]

\* cascade_spi_s2m_sync and cascade_s2m_sync_isr: an edge joins M's queue, or
\* is lost when the queue is full
Edge(n) == IF n < QueueLen THEN n + 1 ELSE n

-----------------------------------------------------------------------------
(* cs_proc, as both ends use it.                                           *)

\* cascade_rx_indication: a message for the application, unless its queue is full
rx_indication(s) ==
    rx_queue' = [rx_queue EXCEPT ![s] =
                    IF Len(@) < QueueLen THEN Append(@, rx_mng[s].xfer_size) ELSE @]

\* cascade_package_done after cascade_rx_indication: DONE is overwritten at once
rx_package_done(s) ==
    /\ rx_mng' = [rx_mng EXCEPT ![s].state = "IDLE"]
    /\ xfer_type' = [xfer_type EXCEPT ![s] = "INVALID"]

\* after the checksum of a frame: the next frame, or confirmation and
\* cascade_package_done; idleType is what xfer_type becomes
tx_frame_done(s, x, idleType) ==
    \/ /\ ~ IsLastFrame(x)
       /\ tx_mng' = [tx_mng EXCEPT ![s] = cascade_tx_next_frame_init(x)]
       /\ UNCHANGED <<xfer_type, tx_queue>>
    \/ /\ IsLastFrame(x)
       /\ tx_mng' = [tx_mng EXCEPT ![s] = [x EXCEPT !.state = "IDLE"]]
       /\ xfer_type' = [xfer_type EXCEPT ![s] = idleType]
       /\ tx_queue' = [tx_queue EXCEPT ![s] = IF @ < QueueLen THEN @ + 1 ELSE @]

cascade_crc_request(s, mem, f) ==
    cs_last_frame_info' = [cs_last_frame_info EXCEPT ![s] =
                              [mem |-> mem, ofs |-> f.payload, len |-> f.len]]

-----------------------------------------------------------------------------
(* The tasks of a chip share one processor and one priority.  Without      *)
(* Preempt a task that is inside a callback is not switched out of it.     *)

TasksInside(s) ==
    {t \in {"sync", "crc", "writer"} :
        \/ t = "sync" /\ s = "M" /\ sync_task # "wait"
        \/ t = "crc" /\ crc_task[s].pc # "idle"
        \/ t = "writer" /\ writer[s] \in {"claimed", "request"}}

MayRun(s, task) == Preempt \/ TasksInside(s) \subseteq {task}

(* cs_crc_task, first half: it polls the session, and whenever a received  *)
(* checksum waits to be compared, or none is ready to be sent, computes    *)
(* over the frame that was last requested, whichever that was.             *)

CrcOf(s) ==
    LET i == cs_last_frame_info[s]
    IN  IF i.mem = "rx" THEN RxWords(s, i.ofs, i.len) ELSE TxWords(s, i.ofs, i.len)

cascade_crc_task(s) ==
    /\ MayRun(s, "crc")
    /\ crc_task[s].pc = "idle"
    /\ cs_last_frame_info[s].len > 0
    /\ \/ /\ xfer_type[s] = "RX"
          /\ rx_mng[s].frame.crc_valid
          /\ crc_task' = [crc_task EXCEPT ![s] = [pc |-> "rx", crc32 |-> CrcOf(s)]]
       \/ /\ xfer_type[s] = "TX"
          /\ ~ tx_mng[s].frame.crc_valid
          /\ crc_task' = [crc_task EXCEPT ![s] = [pc |-> "tx", crc32 |-> CrcOf(s)]]
    /\ UNCHANGED <<proto, memory, queues, wire, sync_task, apps>>

CrcTaskAt(s, pc) == MayRun(s, "crc") /\ crc_task[s].pc = pc
CrcTaskGoes(s, pc) ==
    crc_task' = [crc_task EXCEPT ![s] =
                    [pc |-> pc, crc32 |-> IF pc = "idle" THEN <<>> ELSE @.crc32]]

=============================================================================
