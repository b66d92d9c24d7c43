----------------------------- MODULE SensorScan -----------------------------
(***************************************************************************)
(* A sensor: the frames of FrameControl, the commands that start and stop  *)
(* a scan (from the command line, forwarded by the master to the slave, or *)
(* from the CAN bus), and the properties of the whole.                     *)
(***************************************************************************)
EXTENDS FrameControl

-----------------------------------------------------------------------------
(* The commands.                                                           *)

\* an orderly user waits for the end of the last scan, and types slowly enough
\* for the slave to have carried out the last command
MayStart ==
    Orderly =>
        /\ bb_task["M"] = "top" /\ frame_count["M"] = 0 /\ initial_flag["M"]
        /\ cli = Each("idle") /\ can = "idle" /\ queue_spi_cmd = 0
        /\ ~ Coming("S") /\ ~ HasPackage("S") /\ bb_task["S"] # "cmd_read"

CliRuns(c, pc) == cli' = [cli EXCEPT ![c] = pc]

\* mutant: a stop that was not taken any more stays for the next scan
ScanStart_FlagKept(c, n) ==
    /\ cli[c] = "idle"
    /\ interleave' = [interleave EXCEPT ![c] = baesband_frame_interleave_cnt_clr(@)]
    /\ UNCHANGED scan_stop_flag
    /\ cli_count' = [cli_count EXCEPT ![c] = n]
    /\ CliRuns(c, IF IsMaster(c) THEN "req" ELSE "count")

\* scan_command_handler, "scan start n", up to where the master forwards it
ScanStart(c, n) ==
    /\ cli[c] = "idle"
    /\ interleave' = [interleave EXCEPT ![c] = baesband_frame_interleave_cnt_clr(@)]
    /\ scan_stop_flag' = IF IsSlave(c) THEN scan_stop_flag ELSE FALSE
    /\ cli_count' = [cli_count EXCEPT ![c] = n]
    /\ CliRuns(c, IF IsMaster(c) THEN "req" ELSE "count")

TypeStart ==
    /\ MayStart
    /\ \E n \in Counts : ScanStart("M", n)
    /\ UNCHANGED <<fixed, frame_count, initial_flag, bb_task, track, engine, sync,
                   queue_spi_cmd, cas_rx_buf_cmd, canbus, history, link>>

\* the slave's command task takes what was forwarded
SlaveStart ==
    /\ queue_spi_cmd > 0
    /\ queue_spi_cmd' = queue_spi_cmd - 1
    /\ ScanStart("S", cas_rx_buf_cmd.count)
    /\ UNCHANGED <<fixed, frame_count, initial_flag, bb_task, track, engine, sync,
                   cas_rx_buf_cmd, canbus, history, link>>

\* baseband_write_cascade_cmd
CliReq ==
    /\ cli["M"] = "req"
    /\ cascade_write_buf_req("M", Cmd(cli_count["M"]))
    /\ CliRuns("M", "write")
    /\ UNCHANGED <<fixed, flags, bb_task, track, interleave, engine, sync, cli_count,
                   queue_spi_cmd, cas_rx_buf_cmd, canbus, history>>

CliWrite ==
    /\ cli["M"] = "write"
    /\ cascade_write_buf_done("M")
    /\ CliRuns("M", "count")
    /\ UNCHANGED <<fixed, flags, bb_task, track, interleave, engine, sync, cli_count,
                   queue_spi_cmd, cas_rx_buf_cmd, canbus, history>>

CliCount(c) ==
    /\ cli[c] = "count"
    /\ SetCount(c, cli_count[c])
    /\ CliRuns(c, "idle")
    /\ UNCHANGED <<fixed, initial_flag, scan_stop_flag, bb_task, track, interleave,
                   engine, sync, cli_count, queue_spi_cmd, cas_rx_buf_cmd, canbus,
                   link>>

\* "scan stop": a cascade only notes it
TypeStop ==
    /\ cli["M"] = "idle"
    /\ \/ board = "cascade" /\ scan_stop_flag' = TRUE /\ UNCHANGED frame_count
       \/ board = "standalone" /\ baseband_scan_stop("M") /\ UNCHANGED scan_stop_flag
    /\ want' = Endless
    /\ UNCHANGED <<commands, initial_flag, bb_task, track, interleave, engine, sync,
                   ran, link>>

\* can_scan_signal; the CAN bus starts and stops a single chip
CanStart ==
    /\ board = "standalone" /\ MayStart
    /\ can = "idle"
    /\ initial_flag' = [initial_flag EXCEPT !["M"] = TRUE]
    /\ can' = "count"
    /\ can_count' \in Counts \ {0}
    /\ UNCHANGED <<fixed, frame_count, scan_stop_flag, bb_task, track, interleave,
                   engine, sync, command, history, link>>

CanCount ==
    /\ can = "count"
    /\ SetCount("M", can_count)
    /\ can' = "idle"
    /\ UNCHANGED <<fixed, initial_flag, scan_stop_flag, bb_task, track, interleave,
                   engine, sync, command, can_count, link>>

CanStop ==
    /\ board = "standalone"
    /\ can = "idle"
    /\ baseband_scan_stop("M")
    /\ want' = Endless
    /\ UNCHANGED <<commands, initial_flag, scan_stop_flag, bb_task, track, interleave,
                   engine, sync, ran, link>>

Handlers == SlaveStart \/ CliReq \/ CliWrite \/ CanCount \/ \E c \in Chip : CliCount(c)
User == TypeStart \/ TypeStop \/ CanStart \/ CanStop

-----------------------------------------------------------------------------

LinkMoves ==
    /\ \E c \in Chip : Transfer(c)
    /\ UNCHANGED <<commands, flags, bb_task, track, interleave, engine, sync, history>>

Init ==
    /\ board \in Boards /\ fi \in Strategies
    /\ frame_count = Each(0) /\ initial_flag = Each(TRUE) /\ scan_stop_flag = FALSE
    /\ bb_task = Each(IF board = "cascade" THEN "shake" ELSE "top")
    /\ track_ready = Each(TRUE) /\ track_timer = Each(FALSE)
    /\ interleave = Each(InterleavingAtStart)
    /\ hw = Each("off") /\ queue_bb_isr = Each(0)
    /\ queue_cas_sync = 0 /\ cas_sync_flag = FALSE
    /\ cli = Each("idle") /\ cli_count = Each(0)
    /\ queue_spi_cmd = 0 /\ cas_rx_buf_cmd = NoPackage
    /\ can = "idle" /\ can_count = 0
    /\ chirp = 0 /\ sampled = Each(0)
    /\ want = Endless /\ ran = Each(0)
    /\ LinkInit

Next ==
    \/ \E c \in Chip : baseband_task(c) \/ BbDone(c) \/ vTimerTrackCallback(c)
    \/ Handlers \/ User \/ LinkMoves

Spec == Init /\ [][Next]_vars

\* tasks of equal priority share the processor, hardware and timer answer; the
\* user need not type anything
Fairness ==
    /\ \A c \in Chip : /\ WF_vars(baseband_task(c)) /\ WF_vars(BbDone(c))
                       /\ WF_vars(vTimerTrackCallback(c))
    /\ WF_vars(Handlers) /\ WF_vars(LinkMoves)

FairSpec == Spec /\ Fairness

-----------------------------------------------------------------------------

TypeOK ==
    /\ board \in Boards /\ fi \in Strategies
    /\ frame_count \in [Chip -> Endless .. MostFrames] /\ initial_flag \in [Chip -> BOOLEAN]
    /\ scan_stop_flag \in BOOLEAN
    /\ bb_task \in [Chip -> {"shake", "shake_read", "shake_write", "top", "ready", "sync",
                             "stop_req", "stop_write", "radio", "cfar", "merge", "merging",
                             "doa", "wait", "stop_rx", "stop_read", "report",
                             "report_write", "ctrl", "check", "cmd_read"}]
    /\ track_ready \in [Chip -> BOOLEAN] /\ track_timer \in [Chip -> BOOLEAN]
    /\ interleave \in [Chip -> Interleaving]
    /\ hw \in [Chip -> {"off", "armed", "sampling"}]
    /\ queue_bb_isr \in [Chip -> 0 .. IsrLen] /\ queue_cas_sync \in 0 .. IsrLen
    /\ cas_sync_flag \in BOOLEAN
    /\ cli \in [Chip -> {"idle", "req", "write", "count"}] /\ cli_count \in [Chip -> Counts \cup {0}]
    /\ queue_spi_cmd \in 0 .. IsrLen /\ cas_rx_buf_cmd \in Package \cup {NoPackage}
    /\ can \in {"idle", "count"} /\ can_count \in Counts \cup {0}
    /\ chirp \in Chirps /\ sampled \in [Chip -> Chirps]
    /\ want \in Endless .. MostFrames /\ ran \in [Chip -> 0 .. MostFrames]
    /\ LinkTypeOK(Package)

-----------------------------------------------------------------------------
(* Two chips, one scan.                                                    *)

\* The radio is the master's: when it is about to send chirps, the slave's
\* hardware is started for the same frame and set to the same frame type.  An
\* edge left over from another scan, or a counter that one chip did not clear,
\* would break it.
ChirpsAreShared ==
    IsMaster("M") /\ bb_task["M"] = "radio" =>
        /\ hw["S"] = "armed"
        /\ interleave["S"].type = interleave["M"].type

\* Every frame the master merges the slave's report of this very frame, which
\* stays in the receive buffer for as long as it is being read.
MergesThisFrame ==
    /\ bb_task["M"] = "merge" => HasPackage("M") \/ ReportComes
    /\ bb_task["M"] = "merging" => rx_data_buffer["M"] = Report(sampled["M"])

Writing(c) == bb_task[c] \in {"shake_write", "stop_write", "report_write"} \/ cli[c] = "write"
Reading(c) == bb_task[c] \in {"shake_read", "stop_read", "merging", "cmd_read"}

\* Commands, stops and reports take turns on the link: whoever is about to write
\* finds both ends closed, every package read and every buffer released.  The
\* cascade link relies on it (Quiet of CascadeLink).
LinkInTurns ==
    \A c \in Chip : Writing(c) => Quiet /\ \A d \in Chip : ~ Reading(d)

\* no frame is wanted of the chip, and its last scan has been stopped
Rests(c) == bb_task[c] = "top" /\ frame_count[c] = 0 /\ initial_flag[c]

\* a command is being carried out, or on its way to the slave
CommandUnderWay ==
    \/ cli # Each("idle") \/ can # "idle" \/ queue_spi_cmd > 0
    \/ bb_task["S"] = "cmd_read"
    \/ cas_tx_buf["M"] # Stop /\ (Coming("S") \/ HasPackage("S"))

\* Between two frames both chips agree on how many are left.  With the edge for
\* each frame, this is what makes the promise true that "both master and slave
\* will stop at the same frame" (baseband_cas.c).
StopSameFrame ==
    board = "cascade" /\ bb_task = Each("top") /\ ~ CommandUnderWay =>
        frame_count["M"] = frame_count["S"] /\ sampled["M"] = sampled["S"]

\* A scan of n frames that nobody stopped has run n frames on every chip.
ScanRunsItsFrames ==
    (\A c \in Chips : Rests(c)) /\ ~ CommandUnderWay /\ want # Endless =>
        \A c \in Chips : ran[c] = want

\* A chip whose task rests has its hardware off, no interrupt left over, its
\* track timer stopped and its gate open: the stop has reached everything.
RestIsOff ==
    \A c \in Chips :
        Rests(c) /\ can = "idle" =>
            hw[c] = "off" /\ queue_bb_isr[c] = 0 /\ ~ track_timer[c] /\ track_ready[c]

\* No frame waits for ever: not for an edge, the hardware, the link or the other
\* chip.
FramesEnd == \A c \in Chip : bb_task[c] # "top" ~> bb_task[c] = "top"

Stopping ==
    \/ frame_count["M"] >= 0 \/ scan_stop_flag
    \/ bb_task["M"] \in {"stop_req", "stop_write"}

\* A scan that is stopped, or whose frames are counted, comes to rest, unless an
\* endless one is started; and a stop the master sends brings the slave to rest.
ScansEnd ==
    /\ Stopping ~> Rests("M") \/ ~ Stopping
    /\ bb_task["M"] = "stop_write" ~> Rests("S")

=============================================================================
