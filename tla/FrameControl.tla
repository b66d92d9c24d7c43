---------------------------- MODULE FrameControl ----------------------------
(***************************************************************************)
(* The frames of a scan, on a board with one radar chip or on a cascade of *)
(* two: baseband_task on each chip, the hardware and timer it waits for,   *)
(* and on a cascade the edge by which the slave says that it is ready, the *)
(* stop the master sends and the report the slave writes after each frame. *)
(***************************************************************************)
EXTENDS FrameInterleave, SensorLink

CONSTANTS Boards,       \* which boards: "standalone", "cascade"
          Strategies,   \* frame interleaving strategies, records as frame_intrlv_t
          Counts,       \* frame numbers that are typed; negative is endless
          Orderly,      \* is a scan started only after the last one has ended?
          IsrLen        \* BB_ISR_QUEUE_LENGTH

Chirps == 0 .. 2        \* radio frames, counted modulo 3
Endless == -1
MostFrames == 3         \* ran is not counted further

ASSUME SensorAssumption ==
    /\ Boards \subseteq {"standalone", "cascade"}
    /\ Strategies \subseteq Strategy
    /\ Counts \subseteq Endless .. MostFrames - 1
    /\ Orderly \in BOOLEAN
    /\ IsrLen \in Nat \ {0}

Shake == [kind |-> "shake"]
Stop == [kind |-> "stop"]
Cmd(n) == [kind |-> "cmd", count |-> n]
Report(k) == [kind |-> "report", chirp |-> k]
Package == {Shake, Stop} \cup {Cmd(n) : n \in Counts} \cup {Report(k) : k \in Chirps}

VARIABLES
    board, fi,                         \* the board and its strategy: never change
    frame_count, initial_flag,         \* as in the code, on each chip
    scan_stop_flag,                    \* of the master
    bb_task,                           \* where baseband_task is
    track_ready, track_timer,          \* the tracker's gate, and is its timer running?
    interleave,                        \* frame type, fi_cnt, fi_en of each chip
    hw,                                \* baseband hardware: off, armed, sampling
    queue_bb_isr, queue_cas_sync, cas_sync_flag,
    cli, cli_count,                    \* the command handler and the count it parsed
    queue_spi_cmd, cas_rx_buf_cmd,     \* commands forwarded to the slave
    can, can_count,                    \* the CAN callback and the count it parsed
    chirp, sampled,                    \* history: last radio frame; last one sampled
    want, ran                          \* history: frames asked for, and begun on each chip

flags == <<frame_count, initial_flag, scan_stop_flag>>
track == <<track_ready, track_timer>>
engine == <<hw, queue_bb_isr, chirp, sampled>>
sync == <<queue_cas_sync, cas_sync_flag>>
command == <<cli, cli_count, queue_spi_cmd, cas_rx_buf_cmd>>
canbus == <<can, can_count>>
history == <<want, ran>>
fixed == <<board, fi>>
commands == <<fixed, command, canbus>>     \* what baseband_task seldom touches
vars == <<commands, flags, bb_task, track, interleave, engine, sync, history, link>>

Each(v) == [c \in Chip |-> v]

IsMaster(c) == board = "cascade" /\ c = "M"
IsSlave(c) == c = "S"
Chips == IF board = "cascade" THEN Chip ELSE {"M"}

Post(n) == IF n < IsrLen THEN n + 1 ELSE n

At(c, pc) == c \in Chips /\ bb_task[c] = pc
Goto(c, pc) == bb_task' = [bb_task EXCEPT ![c] = pc]

SetCount(c, n) ==
    /\ frame_count' = [frame_count EXCEPT ![c] = n]
    /\ want' = IF IsSlave(c) THEN want ELSE n
    /\ ran' = [ran EXCEPT ![c] = 0]

\* a call of cascade.c between two places of baseband_task
LinkCall(c, from, to) ==
    /\ At(c, from) /\ Goto(c, to)
    /\ UNCHANGED <<commands, flags, track, interleave, engine, sync, history>>

baseband_scan_stop(c) == frame_count' = [frame_count EXCEPT ![c] = 0]

\* after the hardware is started, the first frame of a scan initialises the
\* tracker and the others run it
TrackFrame(c) == initial_flag' = [initial_flag EXCEPT ![c] = FALSE]

-----------------------------------------------------------------------------
(* baseband_cascade_handshake                                              *)

ShakeRead == LinkCall("M", "shake", "shake_read") /\ cascade_read_buf_req("M")

ShakeReadDone ==
    /\ At("M", "shake_read")
    /\ cascade_read_buf_done("M")
    /\ cas_sync_flag' = TRUE
    /\ Goto("M", "top")
    /\ UNCHANGED <<commands, flags, track, interleave, engine, queue_cas_sync, history>>

ShakeReq == LinkCall("S", "shake", "shake_write") /\ cascade_write_buf_req("S", Shake)

ShakeWrite == LinkCall("S", "shake_write", "top") /\ cascade_write_buf_done("S")

-----------------------------------------------------------------------------
(* One frame: baseband_data_proc_run and what follows it.                  *)

BeginFrame(c) ==
    /\ At(c, "top")
    /\ frame_count[c] # 0
    /\ track_ready[c]
    /\ track_ready' = [track_ready EXCEPT ![c] = FALSE]
    /\ track_timer' = [track_timer EXCEPT ![c] = TRUE]
    /\ interleave' = [interleave EXCEPT ![c] = baseband_frame_interleave_recfg(fi, @)]
    /\ hw' = [hw EXCEPT ![c] = "armed"]
    /\ ran' = [ran EXCEPT ![c] = IF @ < MostFrames THEN @ + 1 ELSE @]
    /\ Goto(c, IF IsSlave(c) THEN "ready" ELSE IF IsMaster(c) THEN "sync" ELSE "radio")
    /\ UNCHANGED <<commands, flags, queue_bb_isr, chirp, sampled, sync, want, link>>

\* cascade_s2m_sync_bb, and baseband_cascade_sync_handler on the master
SlaveReady ==
    /\ At("S", "ready")
    /\ queue_cas_sync' = IF cas_sync_flag THEN Post(queue_cas_sync) ELSE queue_cas_sync
    /\ TrackFrame("S")
    /\ Goto("S", "wait")
    /\ UNCHANGED <<commands, frame_count, scan_stop_flag, track, interleave, engine,
                   cas_sync_flag, history, link>>

\* mutant: the master does not wait for the slave's edge
baseband_cascade_sync_wait_NotAwaited ==
    /\ At("M", "sync")
    /\ queue_cas_sync' = 0
    /\ scan_stop_flag' = FALSE
    /\ Goto("M", IF scan_stop_flag THEN "stop_req" ELSE "radio")
    /\ UNCHANGED <<commands, frame_count, initial_flag, track, interleave, engine,
                   cas_sync_flag, history, link>>

\* with the slave ready, a stop that was asked for is taken
baseband_cascade_sync_wait ==
    /\ At("M", "sync")
    /\ queue_cas_sync > 0
    /\ queue_cas_sync' = queue_cas_sync - 1
    /\ scan_stop_flag' = FALSE
    /\ Goto("M", IF scan_stop_flag THEN "stop_req" ELSE "radio")
    /\ UNCHANGED <<commands, frame_count, initial_flag, track, interleave, engine,
                   cas_sync_flag, history, link>>

\* baseband_scan_stop_tx
StopReq == LinkCall("M", "stop_req", "stop_write") /\ cascade_write_buf_req("M", Stop)

StopWrite ==
    /\ At("M", "stop_write")
    /\ cascade_write_buf_done("M")
    /\ baseband_scan_stop("M")
    /\ Goto("M", "radio")
    /\ UNCHANGED <<commands, initial_flag, scan_stop_flag, track, interleave, engine,
                   sync, history>>

\* fmcw_radio_start: every chip whose hardware is started samples these chirps
RadioStart(c) ==
    /\ At(c, "radio")
    /\ chirp' = (chirp + 1) % 3
    /\ hw' = [d \in Chip |-> IF hw[d] = "armed" THEN "sampling" ELSE hw[d]]
    /\ sampled' = [d \in Chip |-> IF hw[d] = "armed" THEN chirp' ELSE sampled[d]]
    /\ \/ IsMaster(c) /\ Goto(c, "cfar") /\ UNCHANGED initial_flag
       \/ ~ IsMaster(c) /\ Goto(c, "wait") /\ TrackFrame(c)
    /\ UNCHANGED <<commands, frame_count, scan_stop_flag, track, interleave,
                   queue_bb_isr, sync, history, link>>

\* the hardware is done: baseband_int_handler
BbDone(c) ==
    /\ hw[c] = "sampling"
    /\ hw' = [hw EXCEPT ![c] = "off"]
    /\ queue_bb_isr' = [queue_bb_isr EXCEPT ![c] = Post(@)]
    /\ UNCHANGED <<commands, flags, bb_task, track, interleave, chirp, sampled, sync,
                   history, link>>

TakeBbIsr(c) ==
    /\ queue_bb_isr[c] > 0
    /\ queue_bb_isr' = [queue_bb_isr EXCEPT ![c] = @ - 1]
    /\ UNCHANGED <<commands, flags, track, interleave, hw, chirp, sampled, sync,
                   history, link>>

MasterCfarDone == At("M", "cfar") /\ TakeBbIsr("M") /\ Goto("M", "merge")

\* the slave has sampled a frame and its report is still to come
ReportComes ==
    \/ hw["S"] = "sampling" \/ queue_bb_isr["S"] > 0 \/ Coming("M")
    \/ bb_task["S"] \in {"stop_rx", "stop_read", "report", "report_write"}

\* baseband_merge_cascade: a report, or the time limit if none is on its way
MergeRead ==
    \/ LinkCall("M", "merge", "merging") /\ cascade_read_buf_req("M")
    \/ /\ LinkCall("M", "merge", "doa") /\ UNCHANGED link
       /\ ~ HasPackage("M") /\ ~ ReportComes

MergeDone == LinkCall("M", "merging", "doa") /\ cascade_read_buf_done("M")

\* the second pass of the master, on what was sampled before: no radio, no edge
MasterDoa ==
    /\ At("M", "doa")
    /\ hw' = [hw EXCEPT !["M"] = "sampling"]
    /\ TrackFrame("M")
    /\ Goto("M", "wait")
    /\ UNCHANGED <<commands, frame_count, scan_stop_flag, track, interleave,
                   queue_bb_isr, chirp, sampled, sync, history, link>>

FrameDone(c) ==
    /\ At(c, "wait")
    /\ TakeBbIsr(c)
    /\ Goto(c, IF IsSlave(c) THEN "stop_rx" ELSE "ctrl")

\* mutant: the report goes first
baseband_scan_stop_rx_Skipped == LinkCall("S", "stop_rx", "report") /\ UNCHANGED link

\* whatever package is there is read, and dropped if it is not a stop; the time
\* limit of a tick passes if none is on its way
baseband_scan_stop_rx ==
    /\ At("S", "stop_rx")
    /\ \/ /\ cascade_read_buf_req("S")
          /\ Goto("S", "stop_read")
          /\ \/ rx_data_buffer["S"] = Stop /\ baseband_scan_stop("S")
             \/ rx_data_buffer["S"] # Stop /\ UNCHANGED frame_count
       \/ /\ ~ HasPackage("S") /\ ~ Coming("S")
          /\ Goto("S", "report")
          /\ UNCHANGED <<frame_count, link>>
    /\ UNCHANGED <<commands, initial_flag, scan_stop_flag, track, interleave, engine,
                   sync, history>>

StopReadDone == LinkCall("S", "stop_read", "report") /\ cascade_read_buf_done("S")

\* baseband_write_cascade_ctrl: the objects always fit one package
ReportReq == LinkCall("S", "report", "report_write") /\ cascade_write_buf_req("S", Report(sampled["S"]))

ReportWrite == LinkCall("S", "report_write", "ctrl") /\ cascade_write_buf_done("S")

\* mutant: an endless scan is counted down too
frame_count_ctrl_Unguarded(c) ==
    /\ At(c, "ctrl")
    /\ frame_count' = [frame_count EXCEPT ![c] = IF @ # 0 THEN @ - 1 ELSE @]
    /\ Goto(c, "check")
    /\ UNCHANGED <<commands, initial_flag, scan_stop_flag, track, interleave, engine,
                   sync, history, link>>

frame_count_ctrl(c) ==
    /\ At(c, "ctrl")
    /\ frame_count' = [frame_count EXCEPT ![c] = IF @ > 0 THEN @ - 1 ELSE @]
    /\ Goto(c, "check")
    /\ UNCHANGED <<commands, initial_flag, scan_stop_flag, track, interleave, engine,
                   sync, history, link>>

\* mutant: the stop leaves the tracker's gate closed
baseband_stop_GateKept(c) ==
    /\ initial_flag' = [initial_flag EXCEPT ![c] = TRUE]
    /\ track_timer' = [track_timer EXCEPT ![c] = FALSE]
    /\ hw' = [hw EXCEPT ![c] = "off"]
    /\ UNCHANGED track_ready

baseband_stop(c) ==
    /\ initial_flag' = [initial_flag EXCEPT ![c] = TRUE]
    /\ track_ready' = [track_ready EXCEPT ![c] = TRUE]
    /\ track_timer' = [track_timer EXCEPT ![c] = FALSE]
    /\ hw' = [hw EXCEPT ![c] = "off"]

EndFrame(c) ==
    /\ At(c, "check")
    /\ Goto(c, "top")
    /\ \/ frame_count[c] = 0 /\ baseband_stop(c)
       \/ frame_count[c] # 0 /\ UNCHANGED <<initial_flag, track, hw>>
    /\ UNCHANGED <<commands, frame_count, scan_stop_flag, interleave, queue_bb_isr,
                   chirp, sampled, sync, history, link>>

\* mutant: a stop that came between two frames is not noticed
RecallStop_Never(c) == FALSE /\ UNCHANGED vars

\* no frame is wanted, but the scan was not stopped at the end of one
RecallStop(c) ==
    /\ At(c, "top")
    /\ frame_count[c] = 0
    /\ ~ initial_flag[c]
    /\ baseband_stop(c)
    /\ UNCHANGED <<commands, frame_count, scan_stop_flag, bb_task, interleave,
                   queue_bb_isr, chirp, sampled, sync, history, link>>

\* baseband_read_cascade_cmd: a command is moved out of the receive buffer
baseband_read_cascade_cmd ==
    /\ At("S", "top")
    /\ frame_count["S"] = 0
    /\ initial_flag["S"]
    /\ cascade_read_buf_req("S")
    /\ \/ /\ rx_data_buffer["S"].kind = "cmd"
          /\ cas_rx_buf_cmd' = rx_data_buffer["S"]
          /\ queue_spi_cmd' = Post(queue_spi_cmd)
       \/ /\ rx_data_buffer["S"].kind # "cmd"
          /\ UNCHANGED <<cas_rx_buf_cmd, queue_spi_cmd>>
    /\ Goto("S", "cmd_read")
    /\ UNCHANGED <<fixed, flags, track, interleave, engine, sync, cli, cli_count,
                   canbus, history>>

CmdReadDone == LinkCall("S", "cmd_read", "top") /\ cascade_read_buf_done("S")

baseband_task(c) ==
    \/ c = "M" /\ (ShakeRead \/ ShakeReadDone \/ baseband_cascade_sync_wait \/ StopReq
                   \/ StopWrite \/ MasterCfarDone \/ MergeRead \/ MergeDone \/ MasterDoa)
    \/ c = "S" /\ (ShakeReq \/ ShakeWrite \/ SlaveReady \/ baseband_scan_stop_rx
                   \/ StopReadDone \/ ReportReq \/ ReportWrite
                   \/ baseband_read_cascade_cmd \/ CmdReadDone)
    \/ BeginFrame(c) \/ RadioStart(c) \/ FrameDone(c) \/ frame_count_ctrl(c)
    \/ EndFrame(c) \/ RecallStop(c)

\* vTimerTrackCallback
vTimerTrackCallback(c) ==
    /\ track_timer[c] /\ ~ track_ready[c]
    /\ track_ready' = [track_ready EXCEPT ![c] = TRUE]
    /\ UNCHANGED <<commands, flags, bb_task, track_timer, interleave, engine, sync,
                   history, link>>

=============================================================================
