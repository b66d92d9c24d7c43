--------------------------- MODULE SensorScanProof ---------------------------
(***************************************************************************)
(* Proofs about SensorScan, for every choice of boards, strategies and     *)
(* frame numbers and for every length of the queues.                       *)
(*                                                                         *)
(* On a cascade none of the properties is inductive.  What they rest on is *)
(* how far each chip has got in a frame (InStep), which one package may be *)
(* on the link meanwhile (Carried), and what the two chips' frame counters *)
(* and frame types have in common at each of these moments (Agreed,        *)
(* Interleaved, Runs).  A board with one chip has an invariant of its own. *)
(***************************************************************************)
EXTENDS SensorScan, TLAPS

\* where the two tasks are
Master == bb_task["M"]
Slave == bb_task["S"]

\* the packages that are commands
Cmds == {Cmd(n) : n \in Counts}

-----------------------------------------------------------------------------
(* Types.                                                                  *)

\* A package that is written, sent or indicated has been filled in.
Writes(c) == \/ bb_task[c] \in {"shake_write", "stop_write", "report_write"}
             \/ cli[c] = "write"
             \/ xfer_type[c] = "TX"
Filled(c) ==
    /\ Writes(c) => cas_tx_buf[c] \in Package
    /\ xfer_type[c] = "LAST" \/ rx_queue[c] > 0 => rx_data_buffer[c] \in Package

FlagTypes ==
    /\ initial_flag \in [Chip -> BOOLEAN] /\ scan_stop_flag \in BOOLEAN
    /\ track_ready \in [Chip -> BOOLEAN] /\ track_timer \in [Chip -> BOOLEAN]
    /\ cas_sync_flag \in BOOLEAN

PlaceTypes ==
    /\ board \in Boards
    /\ bb_task \in [Chip -> {"shake", "shake_read", "shake_write", "top", "ready", "sync",
                             "stop_req", "stop_write", "radio", "cfar", "merge", "merging",
                             "doa", "wait", "stop_rx", "stop_read", "report",
                             "report_write", "ctrl", "check", "cmd_read"}]
    /\ hw \in [Chip -> {"off", "armed", "sampling"}]
    /\ cli \in [Chip -> {"idle", "req", "write", "count"}] /\ can \in {"idle", "count"}
    /\ xfer_type \in [Chip -> {"INVALID", "TX", "RX", "LAST"}]

CountTypes ==
    /\ fi \in Strategies
    /\ frame_count \in [Chip -> Endless .. MostFrames]
    /\ interleave \in [Chip -> Interleaving]
    /\ queue_bb_isr \in [Chip -> 0 .. IsrLen] /\ queue_cas_sync \in 0 .. IsrLen
    /\ cli_count \in [Chip -> Counts \cup {0}] /\ can_count \in Counts \cup {0}
    /\ queue_spi_cmd \in 0 .. IsrLen
    /\ chirp \in Chirps /\ sampled \in [Chip -> Chirps]
    /\ want \in Endless .. MostFrames /\ ran \in [Chip -> 0 .. MostFrames]
    /\ rx_queue \in [Chip -> 0 .. QueueLen] /\ tx_queue \in [Chip -> 0 .. QueueLen]

PackageTypes ==
    /\ cas_tx_buf \in [Chip -> Package \cup {NoPackage}]
    /\ rx_data_buffer \in [Chip -> Package \cup {NoPackage}]
    /\ cas_rx_buf_cmd \in Package \cup {NoPackage}
    /\ Filled("M") /\ Filled("S")
    /\ cli["M"] \in {"req", "write"} => cli_count["M"] \in Counts
    /\ queue_spi_cmd > 0 => cas_rx_buf_cmd \in Cmds

Types == FlagTypes /\ PlaceTypes /\ CountTypes /\ PackageTypes

-----------------------------------------------------------------------------
(* A cascade: where the package is, and where the two chips are in a frame. *)

Empty == rx_queue["M"] = 0 /\ rx_queue["S"] = 0
Idle == xfer_type["M"] = "INVALID" /\ xfer_type["S"] = "INVALID"
Still == Idle /\ Empty

\* a package of chip c is on its way: sent, about to be indicated, or indicated
OnWay(c) ==
    \/ xfer_type[c] = "TX" /\ xfer_type[Peer(c)] \in {"INVALID", "RX"} /\ Empty
    \/ /\ rx_data_buffer[Peer(c)] = cas_tx_buf[c]
       /\ \/ xfer_type[c] = "INVALID" /\ xfer_type[Peer(c)] = "LAST" /\ Empty
          \/ Idle /\ rx_queue[c] = 0 /\ rx_queue[Peer(c)] = 1

\* the slave has begun the frame and waits for the radio
Ahead == \/ Slave = "ready"
         \/ Slave = "wait" /\ hw["S"] = "armed"

\* the radio has sent its chirps and the slave works on them
After == \/ Slave = "wait" /\ hw["S"] # "armed"
         \/ Slave \in {"stop_rx", "stop_read", "report", "report_write"}

\* the slave has written its report, and not begun the next frame
Between == Slave \in {"ctrl", "check", "top"}

\* the slave's edge is taken, and the radio not started yet
Released == Master \in {"stop_req", "stop_write", "radio"}

\* the master has yet to read the slave's report
Merges == Master \in {"cfar", "merge"}

CmdSent == OnWay("M") /\ Master \in {"top", "sync"}
StopSent == OnWay("M") /\ (Master = "radio" \/ Merges)

\* One package at a time, and which it can be: the slave's report of this frame,
\* its handshake, the master's stop or a command.
Carried ==
    /\ Still \/ OnWay("M") \/ OnWay("S")
    /\ OnWay("S") =>
          \/ Master = "shake" /\ Slave = "top"
          \/ Merges /\ (Between \/ Ahead) /\ cas_tx_buf["S"] = Report(sampled["S"])
    /\ OnWay("M") =>
          \/ /\ Master = "radio" \/ Merges
             /\ Slave \in {"wait", "stop_rx"}
             /\ cas_tx_buf["M"] = Stop /\ frame_count["M"] = 0
          \/ /\ Master \in {"top", "sync"} /\ cli["M"] \in {"idle", "count"}
             /\ Between /\ cli["S"] = "idle" /\ queue_spi_cmd = 0
             /\ cas_tx_buf["M"] \in Cmds
    /\ Master = "merging" => rx_data_buffer["M"] = Report(sampled["M"])
    /\ Master = "stop_write" => cas_tx_buf["M"] = Stop
    /\ cli["M"] = "write" => cas_tx_buf["M"] = Cmd(cli_count["M"])
    /\ Slave = "report_write" => cas_tx_buf["S"] = Report(sampled["S"])

\* The last package is confirmed, unless one is being filled or sent.
Confirmed ==
    /\ tx_queue["M"] = IF Master = "stop_write" \/ cli["M"] = "write" \/ xfer_type["M"] = "TX"
                       THEN 0 ELSE 1
    /\ tx_queue["S"] = IF Slave \in {"shake_write", "report_write"} \/ xfer_type["S"] = "TX"
                       THEN 0 ELSE 1

\* From the start of the radio until the master has its report, either the slave
\* works on the frame or its report is on the way; at no other time.
InStep ==
    /\ Master \in {"shake", "shake_read"} =>
          /\ Slave \in {"shake", "shake_write", "top"}
          /\ frame_count["M"] = 0 /\ initial_flag["M"]
          /\ frame_count["S"] = 0 /\ initial_flag["S"]
    /\ Master = "shake" /\ Slave = "top" => OnWay("S")
    /\ Slave \in {"shake", "shake_write"} => Master = "shake"
    /\ Released => Slave = "wait" /\ hw["S"] = "armed"
    /\ Merges => After \/ OnWay("S")
    /\ After => Merges /\ ~ OnWay("S")
    /\ Ahead => frame_count["S"] # 0
    /\ Slave = "cmd_read" => Master \in {"top", "sync"} /\ initial_flag["S"]
    /\ sampled["M"] = sampled["S"]
    /\ can = "idle"
    /\ Master \in {"shake", "shake_read", "top", "sync", "stop_req", "stop_write", "radio",
                   "cfar", "merge", "merging", "doa", "wait", "ctrl", "check"}
    /\ Slave \in {"shake", "shake_write", "top", "ready", "wait", "stop_rx", "stop_read",
                  "report", "report_write", "ctrl", "check", "cmd_read"}

\* A command is forwarded while both chips rest, and the master waits for the
\* slave's edge until the slave has carried it out.
Forwarded ==
    /\ cli["M"] # "idle" =>
          Master = "top" /\ frame_count["M"] = 0 /\ initial_flag["M"] /\ ~ scan_stop_flag
    /\ cli["M"] \in {"req", "write"} =>
          Still /\ Between /\ cli["S"] = "idle" /\ queue_spi_cmd = 0
    /\ queue_spi_cmd \in {0, 1} /\ cli["S"] \in {"idle", "count"}
    /\ queue_spi_cmd = 1 \/ cli["S"] = "count" =>
          /\ Master \in {"top", "sync"} /\ cli["M"] \in {"idle", "count"}
          /\ Slave \in {"top", "cmd_read"} /\ frame_count["S"] = 0 /\ initial_flag["S"]
    /\ queue_spi_cmd = 1 => cli["S"] = "idle"
    /\ Slave = "cmd_read" => Still /\ cli["M"] \in {"idle", "count"}

-----------------------------------------------------------------------------
(* A cascade: what the two chips agree on.                                 *)

\* frame_count as it will be once the frame at work is counted
Counted1(n) == IF n > 0 THEN n - 1 ELSE n
LeftM == IF Master \in {"cfar", "merge", "merging", "doa", "wait", "ctrl"}
         THEN Counted1(frame_count["M"]) ELSE frame_count["M"]
LeftS == IF After \/ Slave = "ctrl" THEN Counted1(frame_count["S"]) ELSE frame_count["S"]

\* a command has still to reach the slave's frame_count
Pending == cli["M"] \in {"req", "write"} \/ CmdSent \/ queue_spi_cmd = 1 \/ cli["S"] = "count"

\* frames left on each chip, after the command or stop that is under way
FinalM == IF cli["M"] # "idle" THEN cli_count["M"] ELSE LeftM
FinalS == CASE StopSent -> 0
            [] ~ StopSent /\ cli["M"] \in {"req", "write"} -> cli_count["M"]
            [] CmdSent -> cas_tx_buf["M"].count
            [] queue_spi_cmd = 1 -> cas_rx_buf_cmd.count
            [] cli["S"] = "count" -> cli_count["S"]
            [] OTHER -> LeftS

Agreed ==
    /\ Pending => LeftS = 0
    /\ FinalM = FinalS

\* The hardware runs, or has left its interrupt, only where the task expects it.
Hardware ==
    /\ \/ Master = "sync" /\ hw["M"] = "armed" /\ queue_bb_isr["M"] = 0
       \/ Released /\ hw["M"] = "armed" /\ queue_bb_isr["M"] = 0
       \/ Master \in {"cfar", "wait"} /\ hw["M"] = "sampling" /\ queue_bb_isr["M"] = 0
       \/ Master \in {"cfar", "wait"} /\ hw["M"] = "off" /\ queue_bb_isr["M"] = 1
       \/ /\ ~ Released /\ Master \notin {"sync", "cfar", "wait"}
          /\ hw["M"] = "off" /\ queue_bb_isr["M"] = 0
    /\ \/ Slave = "ready" /\ hw["S"] = "armed" /\ queue_bb_isr["S"] = 0
       \/ Slave = "wait" /\ hw["S"] # "off" /\ queue_bb_isr["S"] = 0
       \/ Slave = "wait" /\ hw["S"] = "off" /\ queue_bb_isr["S"] = 1
       \/ Slave \notin {"ready", "wait"} /\ hw["S"] = "off" /\ queue_bb_isr["S"] = 0

\* One edge for each frame, from when the slave is ready until the master takes it.
Edge ==
    /\ cas_sync_flag <=> Master \notin {"shake", "shake_read"}
    /\ queue_cas_sync = IF Slave = "wait" /\ hw["S"] = "armed" /\ ~ Released THEN 1 ELSE 0

\* Between two scans the tracker's timer is stopped and its gate open.
Gate ==
    /\ Master \in {"shake", "shake_read", "top"} /\ initial_flag["M"] =>
          ~ track_timer["M"] /\ track_ready["M"]
    /\ Slave \in {"shake", "shake_write", "top", "cmd_read"} /\ initial_flag["S"] =>
          ~ track_timer["S"] /\ track_ready["S"]
    /\ Master \in {"wait", "ctrl", "check"} => ~ initial_flag["M"]
    /\ Slave \in {"wait", "stop_rx", "stop_read", "report", "report_write", "ctrl", "check"}
          => ~ initial_flag["S"]

\* Both chips are set to the same frame type: a chip that has begun the next frame
\* before the other is one selection ahead.
Selects(i) == baseband_frame_interleave_recfg(fi, i)
SlaveSet == IF cli["M"] \in {"req", "write"} \/ CmdSent \/ queue_spi_cmd = 1
            THEN baesband_frame_interleave_cnt_clr(interleave["S"]) ELSE interleave["S"]
MasterFirst == Master = "sync" /\ ~ Ahead
SlaveFirst == Ahead /\ Master # "sync" /\ ~ Released

Interleaved ==
    /\ MasterFirst => interleave["M"] = Selects(SlaveSet)
    /\ SlaveFirst => interleave["S"] = Selects(interleave["M"])
    /\ ~ MasterFirst /\ ~ SlaveFirst => interleave["M"] = SlaveSet

\* Frames begun and frames left add up to the frames that were asked for.
InFrameM == Master \in {"sync", "stop_req", "stop_write", "radio", "cfar", "merge", "merging",
                        "doa", "wait", "ctrl"}
InFrameS == Ahead \/ After \/ Slave = "ctrl"
AddUp(c, n, inFrame) ==
    /\ frame_count[c] >= 0
    /\ inFrame => frame_count[c] > 0 /\ ran[c] + frame_count[c] = n + 1
    /\ ~ inFrame => ran[c] + frame_count[c] = n
Wanted == IF cli["M"] # "idle" THEN cli_count["M"] ELSE want

Runs ==
    /\ want # Endless =>
          ~ scan_stop_flag /\ Master \notin {"stop_req", "stop_write"} /\ ~ StopSent
    /\ cli["M"] = "idle" /\ want # Endless => AddUp("M", want, InFrameM)
    /\ Wanted # Endless /\ ~ Pending => AddUp("S", Wanted, InFrameS)
    /\ Wanted # Endless /\ Pending => FinalS = Wanted

Together ==
    /\ Carried /\ Confirmed /\ InStep /\ Forwarded /\ Agreed /\ Hardware /\ Edge /\ Gate
    /\ Interleaved /\ Runs

-----------------------------------------------------------------------------
(* A board with one chip.                                                  *)

Alone ==
    /\ Slave = "top" /\ hw["S"] = "off" /\ queue_bb_isr["S"] = 0 /\ ~ track_timer["S"]
    /\ cli["S"] = "idle" /\ queue_spi_cmd = 0
    /\ Still
    /\ Master \in {"top", "radio", "wait", "ctrl", "check"}
    /\ cli["M"] \in {"idle", "count"} /\ (cli["M"] = "idle" \/ can = "idle")
    /\ cli["M"] # "idle" \/ can # "idle" =>
          Master = "top" /\ frame_count["M"] = 0 /\ initial_flag["M"]
    /\ \/ Master = "radio" /\ hw["M"] = "armed" /\ queue_bb_isr["M"] = 0
       \/ Master = "wait" /\ hw["M"] = "sampling" /\ queue_bb_isr["M"] = 0
       \/ Master = "wait" /\ hw["M"] = "off" /\ queue_bb_isr["M"] = 1
       \/ Master \notin {"radio", "wait"} /\ hw["M"] = "off" /\ queue_bb_isr["M"] = 0
    /\ Master = "top" /\ initial_flag["M"] => ~ track_timer["M"] /\ track_ready["M"]
    /\ Master \in {"wait", "ctrl", "check"} => ~ initial_flag["M"]
    /\ cli["M"] = "idle" /\ can = "idle" /\ want # Endless =>
          AddUp("M", want, Master \in {"radio", "wait", "ctrl"})

IInv ==
    /\ Types
    /\ board = "cascade" => Together
    /\ board = "standalone" => Alone

-----------------------------------------------------------------------------
(* Lemmas on the operators. *)

\* What the functions of baseband.c that set the frame type return.
LEMMA ClrType ==
    ASSUME NEW f \in Interleaving
    PROVE  baesband_frame_interleave_cnt_clr(f) \in Interleaving
BY DEF baesband_frame_interleave_cnt_clr, Interleaving

\* There are two kinds of board.
LEMMA BoardTypes == Types => board \in {"standalone", "cascade"}
BY SensorAssumption DEF Types, PlaceTypes, SensorAssumption

\* A number that was typed, or none yet, is a number of frames.
LEMMA TypedCounts == \A n \in Counts \cup {0} : n \in Endless .. MostFrames
BY SensorAssumption DEF Endless, MostFrames

\* The types that are inductive say more than the ones of SensorScan.
LEMMA TypesSuffice == Types => TypeOK
BY DEF Types, TypeOK, LinkTypeOK, FlagTypes, PlaceTypes, CountTypes, PackageTypes

\* The kinds of packages, and that a command is never mistaken for another.
LEMMA InPackage ==
    /\ Shake \in Package /\ Stop \in Package
    /\ \A k \in Chirps : Report(k) \in Package
    /\ \A n \in Counts : Cmd(n) \in Cmds
    /\ \A p \in Cmds : p \in Package /\ p.kind = "cmd" /\ p.count \in Counts
    /\ \A p \in Package : p.kind = "cmd" => p \in Cmds
<1>1. \A n \in Counts : Cmd(n) \in Cmds /\ Cmd(n) \in Package
  BY DEF Package, Cmds, Cmd
<1>2. \A k \in Chirps : Report(k) \in Package
  BY DEF Package
<1>3. \A p \in Cmds : p \in Package /\ p.kind = "cmd" /\ p.count \in Counts
  BY <1>1 DEF Cmds, Cmd
<1>4. \A k \in Chirps : Report(k).kind # "cmd"
  BY DEF Report
<1>5. Shake.kind # "cmd" /\ Stop.kind # "cmd"
  BY DEF Shake, Stop
<1>6. \A p \in Package : p.kind = "cmd" => p \in Cmds
  BY <1>4, <1>5 DEF Package, Cmds
<1> QED BY <1>1, <1>2, <1>3, <1>6 DEF Package

\* The next frame type is a bank there is: the reason for the assertion that the
\* strategies that turn have no more turns than there are banks (main.c).
LEMMA RecfgType ==
    ASSUME NEW s \in Strategy, NEW f \in Interleaving
    PROVE  baseband_frame_interleave_recfg(s, f) \in Interleaving
<1>1. f.type \in 0 .. 3 /\ f.cnt \in Nat /\ f.en \in BOOLEAN
  BY DEF Interleaving, FrameTypes, MAX_FRAME_TYPE
<1>2. s.sw_num \in Nat \ {0} /\ s.sel_0 \in 0 .. 3 /\ s.sel_1 \in 0 .. 3
  BY DEF Strategy, FrameTypes, MAX_FRAME_TYPE
<1>3. f.cnt % s.sw_num \in 0 .. s.sw_num - 1
  BY <1>1, <1>2
<1>4. s.strategy \in {"ROTATE", "VELAMB"} => f.cnt % s.sw_num \in 0 .. 3
  <2>1. s.strategy \in {"ROTATE", "VELAMB"} => s.sw_num <= 4
    BY DEF Strategy, MAX_FRAME_TYPE
  <2> QED BY <1>2, <1>3, <2>1
<1>5. Selected(s, f) \in 0 .. 3
  <2>1. CASE s.strategy = "ROTATE"
    BY <2>1, <1>4 DEF Selected
  <2>2. CASE s.strategy = "VELAMB"
    BY <2>2, <1>2, <1>4 DEF Selected
  <2>3. CASE s.strategy \notin {"ROTATE", "VELAMB"}
    BY <2>3, <1>1, <1>2 DEF Selected
  <2> QED BY <2>1, <2>2, <2>3
<1>6. (f.en /\ ~ Settles(s, f)) \in BOOLEAN
  OBVIOUS
<1> DEFINE c == IF ~ (f.en /\ ~ Settles(s, f)) THEN f.cnt
                ELSE IF f.cnt < s.sw_num - 1 THEN f.cnt + 1 ELSE 0
<1>7. c \in Nat
  BY <1>1, <1>2
<1> HIDE DEF c
<1> QED BY <1>5, <1>6, <1>7 DEF baseband_frame_interleave_recfg, Interleaving, FrameTypes,
     MAX_FRAME_TYPE, c

\* The types are kept: the handshake and the frames.
LEMMA FrameKeepsTypes ==
    ASSUME Types, NEW c \in Chip,
           ShakeRead \/ ShakeReadDone \/ ShakeReq \/ ShakeWrite \/ BeginFrame(c) \/
           SlaveReady \/ baseband_cascade_sync_wait \/ StopReq \/ StopWrite \/
           RadioStart(c) \/ MasterCfarDone \/ MergeRead \/ MergeDone \/ MasterDoa \/
           FrameDone(c) \/ baseband_scan_stop_rx \/ StopReadDone \/ ReportReq \/
           ReportWrite \/ frame_count_ctrl(c) \/ EndFrame(c) \/ RecallStop(c) \/
           baseband_read_cascade_cmd \/ CmdReadDone
    PROVE  Types'
<1> USE DEF Types, Chip, Peer, Chirps, Endless, MostFrames, Stop, Writes, Filled, link,
    cascade_write_buf_req, cascade_write_buf_done, HasPackage, cascade_read_buf_req,
    cascade_read_buf_done, Coming, flags, track, engine, sync, command, canbus, history,
    fixed, commands, IsMaster, IsSlave, Chips, Post, At, Goto, LinkCall, baseband_scan_stop,
    TrackFrame, TakeBbIsr, baseband_stop
<1>1. CASE ShakeRead
  <2> USE <1>1 DEF ShakeRead
  <2>1. FlagTypes' /\ PlaceTypes'
    BY DEF FlagTypes, PlaceTypes
  <2>2. CountTypes' /\ PackageTypes'
    BY LinkAssumption DEF PlaceTypes, CountTypes, PackageTypes
  <2> QED BY <2>1, <2>2
<1>2. CASE ShakeReadDone
  <2> USE <1>2 DEF ShakeReadDone
  <2>1. FlagTypes' /\ PlaceTypes'
    BY DEF FlagTypes, PlaceTypes
  <2>2. CountTypes' /\ PackageTypes'
    BY DEF PlaceTypes, CountTypes, PackageTypes
  <2> QED BY <2>1, <2>2
<1>3. CASE ShakeReq
  <2> USE <1>3 DEF Shake, ShakeReq
  <2>1. FlagTypes' /\ PlaceTypes'
    BY DEF FlagTypes, PlaceTypes
  <2>2. CountTypes' /\ PackageTypes'
    BY LinkAssumption, InPackage DEF PlaceTypes, CountTypes, PackageTypes
  <2> QED BY <2>1, <2>2
<1>4. CASE ShakeWrite
  <2> USE <1>4 DEF ShakeWrite
  <2>1. FlagTypes' /\ PlaceTypes'
    BY DEF FlagTypes, PlaceTypes
  <2>2. CountTypes' /\ PackageTypes'
    BY DEF PlaceTypes, CountTypes, PackageTypes
  <2> QED BY <2>1, <2>2
<1>5. CASE BeginFrame(c)
  <2> USE <1>5 DEF BeginFrame
  <2>1. FlagTypes' /\ PlaceTypes'
    BY DEF FlagTypes, PlaceTypes
  <2>2. CountTypes' /\ PackageTypes'
    BY SensorAssumption, RecfgType DEF PlaceTypes, CountTypes, PackageTypes
  <2> QED BY <2>1, <2>2
<1>6. CASE SlaveReady
  <2> USE <1>6 DEF SlaveReady
  <2>1. FlagTypes' /\ PlaceTypes'
    BY DEF FlagTypes, PlaceTypes
  <2>2. CountTypes' /\ PackageTypes'
    BY SensorAssumption DEF PlaceTypes, CountTypes, PackageTypes
  <2> QED BY <2>1, <2>2
<1>7. CASE baseband_cascade_sync_wait
  <2> USE <1>7 DEF baseband_cascade_sync_wait
  <2>1. FlagTypes' /\ PlaceTypes'
    BY DEF FlagTypes, PlaceTypes
  <2>2. CountTypes' /\ PackageTypes'
    BY SensorAssumption DEF PlaceTypes, CountTypes, PackageTypes
  <2> QED BY <2>1, <2>2
<1>8. CASE StopReq
  <2> USE <1>8 DEF StopReq
  <2>1. FlagTypes' /\ PlaceTypes'
    BY DEF FlagTypes, PlaceTypes
  <2>2. CountTypes' /\ PackageTypes'
    BY LinkAssumption, InPackage DEF PlaceTypes, CountTypes, PackageTypes
  <2> QED BY <2>1, <2>2
<1>9. CASE StopWrite
  <2> USE <1>9 DEF StopWrite
  <2>1. FlagTypes' /\ PlaceTypes'
    BY DEF FlagTypes, PlaceTypes
  <2>2. CountTypes' /\ PackageTypes'
    BY DEF PlaceTypes, CountTypes, PackageTypes
  <2> QED BY <2>1, <2>2
<1>10. CASE RadioStart(c)
  <2> USE <1>10 DEF RadioStart
  <2>1. FlagTypes'
    BY DEF FlagTypes
  <2>2. PlaceTypes'
    BY DEF FlagTypes, PlaceTypes
  <2>3. CountTypes'
    BY DEF PlaceTypes, CountTypes, PackageTypes
  <2>4. PackageTypes'
    BY DEF PlaceTypes, CountTypes, PackageTypes
  <2> QED BY <2>1, <2>2, <2>3, <2>4
<1>11. CASE MasterCfarDone
  <2> USE <1>11 DEF MasterCfarDone
  <2>1. FlagTypes' /\ PlaceTypes'
    BY DEF FlagTypes, PlaceTypes
  <2>2. CountTypes' /\ PackageTypes'
    BY SensorAssumption DEF PlaceTypes, CountTypes, PackageTypes
  <2> QED BY <2>1, <2>2
<1>12. CASE MergeRead
  <2> USE <1>12 DEF ReportComes, MergeRead
  <2>1. FlagTypes' /\ PlaceTypes'
    BY DEF FlagTypes, PlaceTypes
  <2>2. CountTypes' /\ PackageTypes'
    BY LinkAssumption DEF PlaceTypes, CountTypes, PackageTypes
  <2> QED BY <2>1, <2>2
<1>13. CASE MergeDone
  <2> USE <1>13 DEF MergeDone
  <2>1. FlagTypes' /\ PlaceTypes'
    BY DEF FlagTypes, PlaceTypes
  <2>2. CountTypes' /\ PackageTypes'
    BY DEF PlaceTypes, CountTypes, PackageTypes
  <2> QED BY <2>1, <2>2
<1>14. CASE MasterDoa
  <2> USE <1>14 DEF MasterDoa
  <2>1. FlagTypes' /\ PlaceTypes'
    BY DEF FlagTypes, PlaceTypes
  <2>2. CountTypes' /\ PackageTypes'
    BY DEF PlaceTypes, CountTypes, PackageTypes
  <2> QED BY <2>1, <2>2
<1>15. CASE FrameDone(c)
  <2> USE <1>15 DEF FrameDone
  <2>1. FlagTypes' /\ PlaceTypes'
    BY DEF FlagTypes, PlaceTypes
  <2>2. CountTypes' /\ PackageTypes'
    BY SensorAssumption DEF PlaceTypes, CountTypes, PackageTypes
  <2> QED BY <2>1, <2>2
<1>16. CASE baseband_scan_stop_rx
  <2> USE <1>16 DEF baseband_scan_stop_rx
  <2>1. FlagTypes' /\ PlaceTypes'
    BY DEF FlagTypes, PlaceTypes
  <2>2. CountTypes' /\ PackageTypes'
    BY LinkAssumption DEF PlaceTypes, CountTypes, PackageTypes
  <2> QED BY <2>1, <2>2
<1>17. CASE StopReadDone
  <2> USE <1>17 DEF StopReadDone
  <2>1. FlagTypes' /\ PlaceTypes'
    BY DEF FlagTypes, PlaceTypes
  <2>2. CountTypes' /\ PackageTypes'
    BY DEF PlaceTypes, CountTypes, PackageTypes
  <2> QED BY <2>1, <2>2
<1>18. CASE ReportReq
  <2> USE <1>18 DEF Report, ReportReq
  <2>1. FlagTypes' /\ PlaceTypes'
    BY DEF FlagTypes, PlaceTypes
  <2>2. CountTypes' /\ PackageTypes'
    BY LinkAssumption, InPackage DEF PlaceTypes, CountTypes, PackageTypes
  <2> QED BY <2>1, <2>2
<1>19. CASE ReportWrite
  <2> USE <1>19 DEF ReportWrite
  <2>1. FlagTypes' /\ PlaceTypes'
    BY DEF FlagTypes, PlaceTypes
  <2>2. CountTypes' /\ PackageTypes'
    BY DEF PlaceTypes, CountTypes, PackageTypes
  <2> QED BY <2>1, <2>2
<1>20. CASE frame_count_ctrl(c)
  <2> USE <1>20 DEF frame_count_ctrl
  <2>1. FlagTypes' /\ PlaceTypes'
    BY DEF FlagTypes, PlaceTypes
  <2>2. CountTypes' /\ PackageTypes'
    BY DEF PlaceTypes, CountTypes, PackageTypes
  <2> QED BY <2>1, <2>2
<1>21. CASE EndFrame(c)
  <2> USE <1>21 DEF EndFrame
  <2>1. FlagTypes'
    BY DEF FlagTypes
  <2>2. PlaceTypes'
    BY DEF FlagTypes, PlaceTypes
  <2>3. CountTypes'
    BY DEF PlaceTypes, CountTypes, PackageTypes
  <2>4. PackageTypes'
    BY DEF PlaceTypes, CountTypes, PackageTypes
  <2> QED BY <2>1, <2>2, <2>3, <2>4
<1>22. CASE RecallStop(c)
  <2> USE <1>22 DEF RecallStop
  <2>1. FlagTypes' /\ PlaceTypes'
    BY DEF FlagTypes, PlaceTypes
  <2>2. CountTypes' /\ PackageTypes'
    BY DEF PlaceTypes, CountTypes, PackageTypes
  <2> QED BY <2>1, <2>2
<1>23. CASE baseband_read_cascade_cmd
  <2> USE <1>23 DEF baseband_read_cascade_cmd
  <2>1. FlagTypes' /\ PlaceTypes'
    BY DEF FlagTypes, PlaceTypes
  <2>2. CountTypes' /\ PackageTypes'
    BY SensorAssumption, LinkAssumption, InPackage DEF PlaceTypes, CountTypes, PackageTypes
  <2> QED BY <2>1, <2>2
<1>24. CASE CmdReadDone
  <2> USE <1>24 DEF CmdReadDone
  <2>1. FlagTypes' /\ PlaceTypes'
    BY DEF FlagTypes, PlaceTypes
  <2>2. CountTypes' /\ PackageTypes'
    BY DEF PlaceTypes, CountTypes, PackageTypes
  <2> QED BY <2>1, <2>2
<1> QED BY <1>1, <1>2, <1>3, <1>4, <1>5, <1>6, <1>7, <1>8, <1>9, <1>10, <1>11, <1>12, <1>13,
     <1>14, <1>15, <1>16, <1>17, <1>18, <1>19, <1>20, <1>21, <1>22, <1>23, <1>24

\* ... the hardware, the timer, the link and the commands.
LEMMA OthersKeepTypes ==
    ASSUME Types, NEW c \in Chip,
           BbDone(c) \/ vTimerTrackCallback(c) \/ LinkMoves \/ TypeStart \/ TypeStop \/
           CanStart \/ CanCount \/ CanStop \/ SlaveStart \/ CliReq \/ CliWrite \/
           CliCount(c)
    PROVE  Types'
<1> USE DEF Types, Chip, Peer, Chirps, Endless, MostFrames, Writes, Filled, link,
    HasPackage, Coming, flags, track, engine, sync, command, canbus, history, fixed,
    commands, Each, IsMaster, IsSlave, SetCount, baseband_scan_stop, MayStart, CliRuns,
    ScanStart
<1>1. CASE BbDone(c)
  <2> USE <1>1 DEF Post, BbDone
  <2>1. FlagTypes' /\ PlaceTypes'
    BY DEF FlagTypes, PlaceTypes
  <2>2. CountTypes' /\ PackageTypes'
    BY SensorAssumption DEF PlaceTypes, CountTypes, PackageTypes
  <2> QED BY <2>1, <2>2
<1>2. CASE vTimerTrackCallback(c)
  <2> USE <1>2 DEF vTimerTrackCallback
  <2>1. FlagTypes' /\ PlaceTypes'
    BY DEF FlagTypes, PlaceTypes
  <2>2. CountTypes' /\ PackageTypes'
    BY DEF PlaceTypes, CountTypes, PackageTypes
  <2> QED BY <2>1, <2>2
<1>3. CASE LinkMoves
  <2> USE <1>3 DEF Counted, HeaderArrives, SenderDone, ReceiverDone, Transfer, LinkMoves
  <2>1. FlagTypes' /\ PlaceTypes'
    BY DEF FlagTypes, PlaceTypes
  <2>2. CountTypes' /\ PackageTypes'
    BY LinkAssumption DEF PlaceTypes, CountTypes, PackageTypes
  <2> QED BY <2>1, <2>2
<1>4. CASE TypeStart
  <2> USE <1>4 DEF TypeStart
  <2>1. FlagTypes' /\ PlaceTypes'
    BY DEF FlagTypes, PlaceTypes
  <2>2. CountTypes' /\ PackageTypes'
    BY ClrType DEF PlaceTypes, CountTypes, PackageTypes
  <2> QED BY <2>1, <2>2
<1>5. CASE TypeStop
  <2> USE <1>5 DEF TypeStop
  <2>1. FlagTypes' /\ PlaceTypes'
    BY DEF FlagTypes, PlaceTypes
  <2>2. CountTypes' /\ PackageTypes'
    BY DEF PlaceTypes, CountTypes, PackageTypes
  <2> QED BY <2>1, <2>2
<1>6. CASE CanStart
  <2> USE <1>6 DEF CanStart
  <2>1. FlagTypes' /\ PlaceTypes'
    BY DEF FlagTypes, PlaceTypes
  <2>2. CountTypes' /\ PackageTypes'
    BY DEF PlaceTypes, CountTypes, PackageTypes
  <2> QED BY <2>1, <2>2
<1>7. CASE CanCount
  <2> USE <1>7 DEF CanCount
  <2>1. FlagTypes' /\ PlaceTypes'
    BY DEF FlagTypes, PlaceTypes
  <2>2. CountTypes' /\ PackageTypes'
    BY SensorAssumption DEF PlaceTypes, CountTypes, PackageTypes
  <2> QED BY <2>1, <2>2
<1>8. CASE CanStop
  <2> USE <1>8 DEF CanStop
  <2>1. FlagTypes' /\ PlaceTypes'
    BY DEF FlagTypes, PlaceTypes
  <2>2. CountTypes' /\ PackageTypes'
    BY DEF PlaceTypes, CountTypes, PackageTypes
  <2> QED BY <2>1, <2>2
<1>9. CASE SlaveStart
  <2> USE <1>9 DEF SlaveStart
  <2>1. FlagTypes' /\ PlaceTypes'
    BY DEF FlagTypes, PlaceTypes
  <2>2. CountTypes' /\ PackageTypes'
    BY SensorAssumption, InPackage, ClrType DEF PlaceTypes, CountTypes, PackageTypes
  <2> QED BY <2>1, <2>2
<1>10. CASE CliReq
  <2> USE <1>10 DEF Cmd, cascade_write_buf_req, CliReq
  <2>1. FlagTypes'
    BY DEF FlagTypes
  <2>2. PlaceTypes'
    BY DEF FlagTypes, PlaceTypes
  <2>3. CountTypes'
    BY LinkAssumption DEF PlaceTypes, CountTypes, PackageTypes
  <2>4. PackageTypes'
    BY InPackage DEF PlaceTypes, CountTypes, PackageTypes
  <2> QED BY <2>1, <2>2, <2>3, <2>4
<1>11. CASE CliWrite
  <2> USE <1>11 DEF cascade_write_buf_done, CliWrite
  <2>1. FlagTypes' /\ PlaceTypes'
    BY DEF FlagTypes, PlaceTypes
  <2>2. CountTypes' /\ PackageTypes'
    BY DEF PlaceTypes, CountTypes, PackageTypes
  <2> QED BY <2>1, <2>2
<1>12. CASE CliCount(c)
  <2> USE <1>12 DEF CliCount
  <2>1. FlagTypes'
    BY DEF FlagTypes
  <2>2. PlaceTypes'
    BY DEF FlagTypes, PlaceTypes
  <2>3. CountTypes'
    <3>1. cli_count[c] \in Endless .. MostFrames
      BY TypedCounts DEF CountTypes
    <3>2. frame_count' \in [Chip -> Endless .. MostFrames] /\ want' \in Endless .. MostFrames
      BY <3>1 DEF CountTypes
    <3>3. ran' \in [Chip -> 0 .. MostFrames]
      BY DEF CountTypes
    <3> QED BY <3>2, <3>3 DEF CountTypes
  <2>4. PackageTypes'
    BY DEF PlaceTypes, CountTypes, PackageTypes
  <2> QED BY <2>1, <2>2, <2>3, <2>4
<1> QED BY <1>1, <1>2, <1>3, <1>4, <1>5, <1>6, <1>7, <1>8, <1>9, <1>10, <1>11, <1>12

\* The handshake.
LEMMA HandshakeStep ==
    ASSUME board = "cascade", Types, Together,
           ShakeRead \/ ShakeReadDone \/ ShakeReq \/ ShakeWrite
    PROVE  Together'
<1> USE DEF Together, Chip, Peer, Chirps, Endless, MostFrames, Stop, Cmd, Report, Master,
    Slave, Writes, Filled, FlagTypes, PlaceTypes, CountTypes, PackageTypes, Empty, Idle,
    Still, OnWay, Ahead, After, Between, Released, Merges, CmdSent, StopSent, Counted1,
    LeftM, LeftS, Pending, FinalM, FinalS, Selects, SlaveSet, MasterFirst, SlaveFirst,
    InFrameM, InFrameS, AddUp, Wanted, flags, track, engine, sync, command, canbus, history,
    fixed, commands, Chips, At, Goto, LinkCall
<1>1. CASE ShakeRead
  <2> USE <1>1 DEF HasPackage, cascade_read_buf_req, ShakeRead
  <2>1. Carried' /\ Confirmed' /\ Forwarded' /\ Hardware' /\ Edge' /\ Gate' /\ Interleaved'
       /\ Runs'
    BY DEF Types, Carried, Confirmed, Forwarded, Hardware, Edge, Gate, Interleaved, Runs
  <2>2. InStep'
    BY DEF Types, Carried, InStep
  <2>3. Agreed'
    BY DEF InStep, Forwarded, Agreed
  <2> QED BY <2>1, <2>2, <2>3
<1>2. CASE ShakeReadDone
  <2> USE <1>2 DEF cascade_read_buf_done, ShakeReadDone
  <2>1. Carried' /\ InStep' /\ Forwarded' /\ Hardware' /\ Edge' /\ Gate'
    BY DEF Types, Carried, InStep, Forwarded, Hardware, Edge, Gate
  <2>2. Confirmed'
    BY DEF Carried, Confirmed
  <2>3. Agreed'
    BY DEF Carried, InStep, Forwarded, Agreed
  <2>4. Interleaved'
    BY DEF Carried, Interleaved
  <2>5. Runs'
    BY DEF Carried, Runs
  <2> QED BY <2>1, <2>2, <2>3, <2>4, <2>5
<1>3. CASE ShakeReq
  <2> USE <1>3 DEF Shake, cascade_write_buf_req, ShakeReq
  <2>1. Carried' /\ Confirmed' /\ InStep' /\ Forwarded' /\ Hardware' /\ Edge' /\ Gate' /\
       Interleaved' /\ Runs'
    BY DEF Types, Carried, Confirmed, InStep, Forwarded, Hardware, Edge, Gate, Interleaved,
        Runs
  <2>2. Agreed'
    BY DEF InStep, Forwarded, Agreed
  <2> QED BY <2>1, <2>2
<1>4. CASE ShakeWrite
  <2> USE <1>4 DEF cascade_write_buf_done, ShakeWrite
  <2>1. Confirmed' /\ Forwarded' /\ Hardware' /\ Edge' /\ Gate'
    BY DEF Types, Confirmed, Forwarded, Hardware, Edge, Gate
  <2>2. Carried'
    BY DEF Types, Carried, InStep
  <2>3. InStep'
    BY DEF Types, Carried, InStep
  <2>4. Agreed'
    BY DEF InStep, Forwarded, Agreed
  <2>5. Interleaved'
    BY DEF Carried, Interleaved
  <2>6. Runs'
    BY DEF Carried, Runs
  <2> QED BY <2>1, <2>2, <2>3, <2>4, <2>5, <2>6
<1> QED BY <1>1, <1>2, <1>3, <1>4

\* A frame of the master.
LEMMA MasterStep ==
    ASSUME board = "cascade", Types, Together,
           BeginFrame("M") \/ baseband_cascade_sync_wait \/ StopReq \/ StopWrite \/
           RadioStart("M") \/ MasterCfarDone \/ MergeRead \/ MergeDone \/ MasterDoa \/
           FrameDone("M") \/ frame_count_ctrl("M") \/ EndFrame("M") \/ RecallStop("M")
    PROVE  Together'
<1> USE DEF Together, Chip, Peer, Chirps, Endless, MostFrames, Stop, Cmd, Report, Master,
    Slave, Writes, Filled, FlagTypes, PlaceTypes, CountTypes, PackageTypes, Empty, Idle,
    Still, OnWay, Ahead, After, Between, Released, Merges, CmdSent, StopSent, Counted1,
    LeftM, LeftS, Pending, FinalM, FinalS, Selects, SlaveSet, MasterFirst, SlaveFirst,
    InFrameM, InFrameS, AddUp, Wanted, link, flags, track, engine, sync, command, canbus,
    history, fixed, commands, IsMaster, IsSlave, Chips, At, Goto, LinkCall, TrackFrame,
    TakeBbIsr, baseband_stop
<1>1. CASE BeginFrame("M")
  <2> USE <1>1 DEF BeginFrame
  <2>1. Carried' /\ Confirmed' /\ InStep' /\ Forwarded' /\ Agreed' /\ Hardware' /\ Edge' /\
       Gate' /\ Runs'
    BY DEF Types, Carried, Confirmed, InStep, Forwarded, Agreed, Hardware, Edge, Gate, Runs
  <2>2. Interleaved'
    BY DEF Types, Carried, Forwarded, Interleaved
  <2> QED BY <2>1, <2>2
<1>2. CASE baseband_cascade_sync_wait
  <2> USE <1>2 DEF baseband_cascade_sync_wait
  <2>1. Confirmed' /\ Hardware' /\ Edge' /\ Gate'
    BY DEF Types, Confirmed, Hardware, Edge, Gate
  <2>2. Carried'
    BY DEF Carried, Edge
  <2>3. InStep'
    BY DEF InStep, Edge
  <2>4. Forwarded'
    BY DEF Forwarded, Edge
  <2>5. Agreed'
    BY DEF Carried, Agreed, Edge
  <2>6. Interleaved'
    BY DEF Carried, Edge, Interleaved
  <2>7. Runs'
    BY DEF Carried, Edge, Runs
  <2> QED BY <2>1, <2>2, <2>3, <2>4, <2>5, <2>6, <2>7
<1>3. CASE StopReq
  <2> USE <1>3 DEF cascade_write_buf_req, StopReq
  <2>1. Confirmed' /\ InStep' /\ Forwarded' /\ Agreed' /\ Hardware' /\ Edge' /\ Gate' /\
       Interleaved' /\ Runs'
    BY DEF Types, Confirmed, InStep, Forwarded, Agreed, Hardware, Edge, Gate, Interleaved,
        Runs
  <2>2. Carried'
    BY DEF Types, Carried, Forwarded
  <2> QED BY <2>1, <2>2
<1>4. CASE StopWrite
  <2> USE <1>4 DEF cascade_write_buf_done, baseband_scan_stop, StopWrite
  <2>1. Confirmed' /\ InStep' /\ Hardware' /\ Edge' /\ Gate' /\ Interleaved'
    BY DEF Types, Confirmed, InStep, Hardware, Edge, Gate, Interleaved
  <2>2. Carried'
    BY DEF Types, Carried, InStep
  <2>3. Forwarded'
    BY DEF InStep, Forwarded
  <2>4. Agreed'
    BY DEF Types, Carried, Forwarded, Agreed
  <2>5. Runs'
    BY DEF Forwarded, Runs
  <2> QED BY <2>1, <2>2, <2>3, <2>4, <2>5
<1>5. CASE RadioStart("M")
  <2> USE <1>5 DEF RadioStart
  <2>1. Confirmed' /\ Forwarded' /\ Edge' /\ Gate' /\ Runs'
    BY DEF Types, Confirmed, Forwarded, Edge, Gate, Runs
  <2>2. Carried'
    BY DEF Types, Carried, InStep
  <2>3. InStep'
    BY DEF Types, Carried, InStep, Hardware
  <2>4. Agreed'
    BY DEF Types, InStep, Forwarded, Agreed
  <2>5. Hardware'
    BY DEF Types, InStep, Hardware
  <2>6. Interleaved'
    BY DEF Types, InStep, Interleaved
  <2> QED BY <2>1, <2>2, <2>3, <2>4, <2>5, <2>6
<1>6. CASE MasterCfarDone
  <2> USE <1>6 DEF MasterCfarDone
  <2>1. Carried' /\ Confirmed' /\ InStep' /\ Forwarded' /\ Agreed' /\ Hardware' /\ Edge' /\
       Gate' /\ Interleaved' /\ Runs'
    BY DEF Types, Carried, Confirmed, InStep, Forwarded, Agreed, Hardware, Edge, Gate,
        Interleaved, Runs
  <2> QED BY <2>1
<1>7. CASE MergeRead
  <2> USE <1>7 DEF HasPackage, cascade_read_buf_req, Coming, ReportComes, MergeRead
  <2>1. Confirmed' /\ Forwarded' /\ Hardware' /\ Edge' /\ Gate' /\ Interleaved' /\ Runs'
    BY DEF Types, Confirmed, Forwarded, Hardware, Edge, Gate, Interleaved, Runs
  <2>2. Carried'
    BY DEF Types, Carried, InStep, Hardware
  <2>3. InStep'
    BY DEF Types, Carried, InStep, Hardware
  <2>4. Agreed'
    BY DEF Types, InStep, Agreed, Hardware
  <2> QED BY <2>1, <2>2, <2>3, <2>4
<1>8. CASE MergeDone
  <2> USE <1>8 DEF cascade_read_buf_done, MergeDone
  <2>1. Carried' /\ InStep' /\ Forwarded' /\ Agreed' /\ Hardware' /\ Edge' /\ Gate' /\
       Interleaved' /\ Runs'
    BY DEF Carried, InStep, Forwarded, Agreed, Hardware, Edge, Gate, Interleaved, Runs
  <2>2. Confirmed'
    BY DEF Carried, Confirmed
  <2> QED BY <2>1, <2>2
<1>9. CASE MasterDoa
  <2> USE <1>9 DEF MasterDoa
  <2>1. Carried' /\ Confirmed' /\ InStep' /\ Forwarded' /\ Agreed' /\ Hardware' /\ Edge' /\
       Gate' /\ Interleaved' /\ Runs'
    BY DEF Types, Carried, Confirmed, InStep, Forwarded, Agreed, Hardware, Edge, Gate,
        Interleaved, Runs
  <2> QED BY <2>1
<1>10. CASE FrameDone("M")
  <2> USE <1>10 DEF FrameDone
  <2>1. Carried' /\ Confirmed' /\ InStep' /\ Forwarded' /\ Agreed' /\ Hardware' /\ Edge' /\
       Gate' /\ Interleaved' /\ Runs'
    BY DEF Types, Carried, Confirmed, InStep, Forwarded, Agreed, Hardware, Edge, Gate,
        Interleaved, Runs
  <2> QED BY <2>1
<1>11. CASE frame_count_ctrl("M")
  <2> USE <1>11 DEF frame_count_ctrl
  <2>1. Carried' /\ Confirmed' /\ InStep' /\ Forwarded' /\ Agreed' /\ Hardware' /\ Edge' /\
       Gate' /\ Interleaved' /\ Runs'
    BY DEF Types, Carried, Confirmed, InStep, Forwarded, Agreed, Hardware, Edge, Gate,
        Interleaved, Runs
  <2> QED BY <2>1
<1>12. CASE EndFrame("M")
  <2> USE <1>12 DEF EndFrame
  <2>1. Carried' /\ Confirmed' /\ InStep' /\ Forwarded' /\ Hardware' /\ Edge' /\ Gate'
    BY DEF Types, Carried, Confirmed, InStep, Forwarded, Hardware, Edge, Gate
  <2>2. Agreed'
    BY DEF Types, Carried, Agreed
  <2>3. Interleaved'
    BY DEF Types, Carried, Interleaved
  <2>4. Runs'
    BY DEF Carried, Runs
  <2> QED BY <2>1, <2>2, <2>3, <2>4
<1>13. CASE RecallStop("M")
  <2> USE <1>13 DEF RecallStop
  <2>1. Carried' /\ Confirmed' /\ InStep' /\ Forwarded' /\ Agreed' /\ Hardware' /\ Edge' /\
       Gate' /\ Interleaved' /\ Runs'
    BY DEF Types, Carried, Confirmed, InStep, Forwarded, Agreed, Hardware, Edge, Gate,
        Interleaved, Runs
  <2> QED BY <2>1
<1> QED BY <1>1, <1>2, <1>3, <1>4, <1>5, <1>6, <1>7, <1>8, <1>9, <1>10, <1>11, <1>12, <1>13

\* A frame of the slave, and the command it reads between two frames.
LEMMA SlaveStep ==
    ASSUME board = "cascade", Types, Together,
           BeginFrame("S") \/ SlaveReady \/ FrameDone("S") \/ baseband_scan_stop_rx \/
           StopReadDone \/ ReportReq \/ ReportWrite \/ frame_count_ctrl("S") \/
           EndFrame("S") \/ RecallStop("S") \/ baseband_read_cascade_cmd \/ CmdReadDone
    PROVE  Together'
<1> USE DEF Together, Chip, Peer, Chirps, Endless, MostFrames, Stop, Cmd, Report, Master,
    Slave, Writes, Filled, FlagTypes, PlaceTypes, CountTypes, PackageTypes, Empty, Idle,
    Still, OnWay, Ahead, After, Between, Released, Merges, CmdSent, StopSent, Counted1,
    LeftM, LeftS, Pending, FinalM, FinalS, Selects, SlaveSet, MasterFirst, SlaveFirst,
    InFrameM, InFrameS, AddUp, Wanted, link, HasPackage, cascade_read_buf_req,
    cascade_read_buf_done, flags, track, engine, sync, command, canbus, history, fixed,
    commands, IsSlave, Chips, Post, At, Goto, LinkCall, baseband_stop
<1>1. CASE BeginFrame("S")
  <2> USE <1>1 DEF IsMaster, BeginFrame
  <2>1. Confirmed' /\ InStep' /\ Agreed' /\ Edge' /\ Gate' /\ Runs'
    BY DEF Types, Confirmed, InStep, Agreed, Edge, Gate, Runs
  <2>2. Carried'
    BY DEF Carried, InStep, Agreed
  <2>3. Forwarded'
    BY DEF Forwarded, Agreed
  <2>4. Hardware'
    BY DEF Types, Carried, Hardware
  <2>5. Interleaved'
    BY DEF Types, InStep, Agreed, Interleaved
  <2> QED BY <2>1, <2>2, <2>3, <2>4, <2>5
<1>2. CASE SlaveReady
  <2> USE <1>2 DEF TrackFrame, SlaveReady
  <2>1. Confirmed' /\ Forwarded' /\ Hardware' /\ Gate' /\ Runs'
    BY DEF Types, Confirmed, Forwarded, Hardware, Gate, Runs
  <2>2. Carried'
    BY DEF Carried, Hardware
  <2>3. InStep'
    BY DEF InStep, Hardware
  <2>4. Agreed'
    BY DEF Agreed, Hardware
  <2>5. Edge'
    BY SensorAssumption DEF Types, InStep, Hardware, Edge
  <2>6. Interleaved'
    BY DEF Hardware, Interleaved
  <2> QED BY <2>1, <2>2, <2>3, <2>4, <2>5, <2>6
<1>3. CASE FrameDone("S")
  <2> USE <1>3 DEF TakeBbIsr, FrameDone
  <2>1. Confirmed' /\ Forwarded' /\ Hardware' /\ Gate' /\ Runs'
    BY DEF Types, Confirmed, Forwarded, Hardware, Gate, Runs
  <2>2. Carried'
    BY DEF Carried, Hardware
  <2>3. InStep'
    BY DEF InStep, Hardware
  <2>4. Agreed'
    BY DEF Agreed, Hardware
  <2>5. Edge'
    BY DEF Hardware, Edge
  <2>6. Interleaved'
    BY DEF Hardware, Interleaved
  <2> QED BY <2>1, <2>2, <2>3, <2>4, <2>5, <2>6
<1>4. CASE baseband_scan_stop_rx
  <2> USE <1>4 DEF Coming, baseband_scan_stop, baseband_scan_stop_rx
  <2>1. Carried' /\ Confirmed' /\ Forwarded' /\ Hardware' /\ Edge' /\ Gate'
    BY DEF Types, Carried, Confirmed, Forwarded, Hardware, Edge, Gate
  <2>2. InStep'
    BY DEF Types, Carried, InStep
  <2>3. Agreed'
    BY DEF Types, Carried, Agreed
  <2>4. Interleaved'
    BY DEF Types, Carried, Interleaved
  <2>5. Runs'
    BY DEF Types, Carried, Forwarded, Runs
  <2> QED BY <2>1, <2>2, <2>3, <2>4, <2>5
<1>5. CASE StopReadDone
  <2> USE <1>5 DEF StopReadDone
  <2>1. Carried' /\ Forwarded' /\ Hardware' /\ Edge' /\ Gate'
    BY DEF Carried, Forwarded, Hardware, Edge, Gate
  <2>2. Confirmed'
    BY DEF Carried, Confirmed
  <2>3. InStep'
    BY DEF Carried, InStep
  <2>4. Agreed'
    BY DEF Carried, Agreed
  <2>5. Interleaved'
    BY DEF Carried, Interleaved
  <2>6. Runs'
    BY DEF Carried, Runs
  <2> QED BY <2>1, <2>2, <2>3, <2>4, <2>5, <2>6
<1>6. CASE ReportReq
  <2> USE <1>6 DEF cascade_write_buf_req, ReportReq
  <2>1. Carried' /\ Confirmed' /\ Forwarded' /\ Agreed' /\ Hardware' /\ Edge' /\ Gate' /\
       Interleaved' /\ Runs'
    BY DEF Types, Carried, Confirmed, Forwarded, Agreed, Hardware, Edge, Gate, Interleaved,
        Runs
  <2>2. InStep'
    BY DEF Carried, InStep
  <2> QED BY <2>1, <2>2
<1>7. CASE ReportWrite
  <2> USE <1>7 DEF cascade_write_buf_done, ReportWrite
  <2>1. Confirmed' /\ Forwarded' /\ Hardware' /\ Edge' /\ Gate'
    BY DEF Types, Confirmed, Forwarded, Hardware, Edge, Gate
  <2>2. Carried'
    BY DEF Types, Carried, InStep
  <2>3. InStep'
    BY DEF Types, Carried, InStep
  <2>4. Agreed'
    BY DEF Carried, Agreed
  <2>5. Interleaved'
    BY DEF Carried, Interleaved
  <2>6. Runs'
    BY DEF Carried, Runs
  <2> QED BY <2>1, <2>2, <2>3, <2>4, <2>5, <2>6
<1>8. CASE frame_count_ctrl("S")
  <2> USE <1>8 DEF frame_count_ctrl
  <2>1. Carried' /\ Confirmed' /\ InStep' /\ Forwarded' /\ Agreed' /\ Hardware' /\ Edge' /\
       Gate' /\ Interleaved' /\ Runs'
    BY DEF Types, Carried, Confirmed, InStep, Forwarded, Agreed, Hardware, Edge, Gate,
        Interleaved, Runs
  <2> QED BY <2>1
<1>9. CASE EndFrame("S")
  <2> USE <1>9 DEF EndFrame
  <2>1. Carried' /\ Confirmed' /\ InStep' /\ Forwarded' /\ Agreed' /\ Hardware' /\ Edge' /\
       Gate' /\ Interleaved' /\ Runs'
    BY DEF Types, Carried, Confirmed, InStep, Forwarded, Agreed, Hardware, Edge, Gate,
        Interleaved, Runs
  <2> QED BY <2>1
<1>10. CASE RecallStop("S")
  <2> USE <1>10 DEF RecallStop
  <2>1. Carried' /\ Confirmed' /\ InStep' /\ Forwarded' /\ Agreed' /\ Hardware' /\ Edge' /\
       Gate' /\ Interleaved' /\ Runs'
    BY DEF Types, Carried, Confirmed, InStep, Forwarded, Agreed, Hardware, Edge, Gate,
        Interleaved, Runs
  <2> QED BY <2>1
<1>11. CASE baseband_read_cascade_cmd
  <2> USE <1>11 DEF baseband_read_cascade_cmd
  <2>1. Carried' /\ Confirmed' /\ Hardware' /\ Edge' /\ Gate'
    BY DEF Types, Carried, Confirmed, Hardware, Edge, Gate
  <2>2. InStep'
    BY DEF Carried, InStep
  <2>3. Forwarded'
    BY DEF Types, Carried, Forwarded
  <2>4. Agreed'
    BY SensorAssumption, InPackage DEF Carried, Agreed
  <2>5. Interleaved'
    BY SensorAssumption, InPackage DEF Carried, Interleaved
  <2>6. Runs'
    BY SensorAssumption, InPackage DEF Carried, Runs
  <2> QED BY <2>1, <2>2, <2>3, <2>4, <2>5, <2>6
<1>12. CASE CmdReadDone
  <2> USE <1>12 DEF CmdReadDone
  <2>1. Carried' /\ InStep' /\ Forwarded' /\ Hardware' /\ Edge' /\ Gate'
    BY DEF Carried, InStep, Forwarded, Hardware, Edge, Gate
  <2>2. Confirmed'
    BY DEF Carried, Confirmed
  <2>3. Agreed'
    BY DEF Carried, Agreed
  <2>4. Interleaved'
    BY DEF Carried, Interleaved
  <2>5. Runs'
    BY DEF Carried, Runs
  <2> QED BY <2>1, <2>2, <2>3, <2>4, <2>5
<1> QED BY <1>1, <1>2, <1>3, <1>4, <1>5, <1>6, <1>7, <1>8, <1>9, <1>10, <1>11, <1>12

\* The hardware, the timer and the link.
LEMMA EngineStep ==
    ASSUME board = "cascade", Types, Together,
           BbDone("M") \/ BbDone("S") \/ vTimerTrackCallback("M") \/
           vTimerTrackCallback("S") \/ LinkMoves
    PROVE  Together'
<1> USE DEF Together, Chip, Peer, Chirps, Endless, MostFrames, Stop, Cmd, Report, Master,
    Slave, Writes, Filled, FlagTypes, PlaceTypes, CountTypes, PackageTypes, Empty, Idle,
    Still, OnWay, Ahead, After, Between, Released, Merges, CmdSent, StopSent, Counted1,
    LeftM, LeftS, Pending, FinalM, FinalS, Selects, SlaveSet, MasterFirst, SlaveFirst,
    InFrameM, InFrameS, AddUp, Wanted, link, flags, track, engine, sync, command, canbus,
    history, fixed, commands, Post
<1>1. CASE BbDone("M")
  <2> USE <1>1 DEF BbDone
  <2>1. Carried' /\ Confirmed' /\ InStep' /\ Forwarded' /\ Agreed' /\ Hardware' /\ Edge' /\
       Gate' /\ Interleaved' /\ Runs'
    BY SensorAssumption DEF Types, Carried, Confirmed, InStep, Forwarded, Agreed, Hardware,
        Edge, Gate, Interleaved, Runs
  <2> QED BY <2>1
<1>2. CASE BbDone("S")
  <2> USE <1>2 DEF BbDone
  <2>1. Carried' /\ Confirmed' /\ InStep' /\ Forwarded' /\ Agreed' /\ Hardware' /\ Edge' /\
       Gate' /\ Interleaved' /\ Runs'
    BY SensorAssumption DEF Types, Carried, Confirmed, InStep, Forwarded, Agreed, Hardware,
        Edge, Gate, Interleaved, Runs
  <2> QED BY <2>1
<1>3. CASE vTimerTrackCallback("M")
  <2> USE <1>3 DEF vTimerTrackCallback
  <2>1. Carried' /\ Confirmed' /\ InStep' /\ Forwarded' /\ Agreed' /\ Hardware' /\ Edge' /\
       Gate' /\ Interleaved' /\ Runs'
    BY DEF Carried, Confirmed, InStep, Forwarded, Agreed, Hardware, Edge, Gate, Interleaved,
        Runs
  <2> QED BY <2>1
<1>4. CASE vTimerTrackCallback("S")
  <2> USE <1>4 DEF vTimerTrackCallback
  <2>1. Carried' /\ Confirmed' /\ InStep' /\ Forwarded' /\ Agreed' /\ Hardware' /\ Edge' /\
       Gate' /\ Interleaved' /\ Runs'
    BY DEF Carried, Confirmed, InStep, Forwarded, Agreed, Hardware, Edge, Gate, Interleaved,
        Runs
  <2> QED BY <2>1
<1>5. CASE LinkMoves
  <2> USE <1>5 DEF Counted, HeaderArrives, SenderDone, ReceiverDone, Transfer, LinkMoves
  <2>1. Carried' /\ Forwarded' /\ Hardware' /\ Edge' /\ Gate'
    BY DEF Types, Carried, Forwarded, Hardware, Edge, Gate
  <2>2. Confirmed'
    BY LinkAssumption DEF Types, Carried, Confirmed
  <2>3. InStep'
    BY LinkAssumption DEF Types, Carried, InStep
  <2>4. Agreed'
    BY LinkAssumption DEF Types, Carried, Agreed
  <2>5. Interleaved'
    BY LinkAssumption DEF Types, Carried, Interleaved
  <2>6. Runs'
    BY LinkAssumption DEF Types, Carried, Runs
  <2> QED BY <2>1, <2>2, <2>3, <2>4, <2>5, <2>6
<1> QED BY <1>1, <1>2, <1>3, <1>4, <1>5

\* The commands; an orderly user types them.
LEMMA CommandStep ==
    ASSUME Orderly, board = "cascade", Types, Together,
           TypeStart \/ TypeStop \/ SlaveStart \/ CliReq \/ CliWrite \/ CliCount("M") \/
           CliCount("S")
    PROVE  Together'
<1> USE DEF Together, Chip, Peer, Chirps, Endless, MostFrames, Stop, Cmd, Report, Master,
    Slave, Writes, Filled, FlagTypes, PlaceTypes, CountTypes, PackageTypes, Empty, Idle,
    Still, OnWay, Ahead, After, Between, Released, Merges, CmdSent, StopSent, Counted1,
    LeftM, LeftS, Pending, FinalM, FinalS, Selects, SlaveSet, MasterFirst, SlaveFirst,
    InFrameM, InFrameS, AddUp, Wanted, link, flags, track, engine, sync, canbus, history,
    fixed, IsMaster, IsSlave, SetCount, CliRuns, ScanStart
<1>1. CASE TypeStart
  <2> USE <1>1 DEF HasPackage, Coming, Each, MayStart, TypeStart
  <2>1. Carried' /\ Confirmed' /\ InStep' /\ Agreed' /\ Hardware' /\ Edge' /\ Gate' /\ Runs'
    BY DEF Types, Carried, Confirmed, InStep, Agreed, Hardware, Edge, Gate, Runs
  <2>2. Forwarded'
    BY DEF Carried, InStep, Forwarded, Agreed
  <2>3. Interleaved'
    BY DEF Types, InStep, Agreed, Interleaved
  <2> QED BY <2>1, <2>2, <2>3
<1>2. CASE TypeStop
  <2> USE <1>2 DEF command, commands, baseband_scan_stop, TypeStop
  <2>1. Carried' /\ Confirmed' /\ InStep' /\ Forwarded' /\ Agreed' /\ Hardware' /\ Edge' /\
       Gate' /\ Interleaved' /\ Runs'
    BY DEF Carried, Confirmed, InStep, Forwarded, Agreed, Hardware, Edge, Gate, Interleaved,
        Runs
  <2> QED BY <2>1
<1>3. CASE SlaveStart
  <2> USE <1>3 DEF SlaveStart
  <2>1. Carried' /\ Confirmed' /\ InStep' /\ Forwarded' /\ Hardware' /\ Edge' /\ Gate'
    BY DEF Carried, Confirmed, InStep, Forwarded, Hardware, Edge, Gate
  <2>2. Agreed'
    BY DEF Types, Forwarded, Agreed
  <2>3. Interleaved'
    BY DEF Types, Carried, Forwarded, Interleaved
  <2>4. Runs'
    BY DEF Types, Forwarded, Runs
  <2> QED BY <2>1, <2>2, <2>3, <2>4
<1>4. CASE CliReq
  <2> USE <1>4 DEF cascade_write_buf_req, CliReq
  <2>1. Confirmed' /\ InStep' /\ Forwarded' /\ Hardware' /\ Edge' /\ Gate' /\ Interleaved'
    BY DEF Types, Confirmed, InStep, Forwarded, Hardware, Edge, Gate, Interleaved
  <2>2. Carried'
    BY DEF Types, Carried, Forwarded
  <2>3. Agreed'
    BY DEF Carried, Agreed
  <2>4. Runs'
    BY DEF Forwarded, Runs
  <2> QED BY <2>1, <2>2, <2>3, <2>4
<1>5. CASE CliWrite
  <2> USE <1>5 DEF cascade_write_buf_done, CliWrite
  <2>1. Confirmed' /\ Forwarded' /\ Hardware' /\ Edge' /\ Gate'
    BY DEF Types, Confirmed, Forwarded, Hardware, Edge, Gate
  <2>2. Carried'
    BY InPackage DEF Types, Carried, Forwarded
  <2>3. InStep'
    BY DEF InStep, Forwarded
  <2>4. Agreed'
    BY DEF Types, Carried, Forwarded, Agreed
  <2>5. Interleaved'
    BY DEF Types, Forwarded, Interleaved
  <2>6. Runs'
    BY DEF Types, Carried, Forwarded, Runs
  <2> QED BY <2>1, <2>2, <2>3, <2>4, <2>5, <2>6
<1>6. CASE CliCount("M")
  <2> USE <1>6 DEF CliCount
  <2>1. Confirmed' /\ Forwarded' /\ Hardware' /\ Edge' /\ Gate' /\ Interleaved'
    BY DEF Types, Confirmed, Forwarded, Hardware, Edge, Gate, Interleaved
  <2>2. Carried'
    BY DEF Carried, Forwarded
  <2>3. InStep'
    BY DEF InStep, Forwarded
  <2>4. Agreed'
    BY DEF Types, Forwarded, Agreed
  <2>5. Runs'
    BY SensorAssumption DEF Types, Forwarded, Runs
  <2> QED BY <2>1, <2>2, <2>3, <2>4, <2>5
<1>7. CASE CliCount("S")
  <2> USE <1>7 DEF CliCount
  <2>1. Carried' /\ Confirmed' /\ Forwarded' /\ Hardware' /\ Edge' /\ Gate' /\ Interleaved'
    BY DEF Types, Carried, Confirmed, Forwarded, Hardware, Edge, Gate, Interleaved
  <2>2. InStep'
    BY DEF InStep, Forwarded
  <2>3. Agreed'
    BY DEF Types, Carried, Forwarded, Agreed
  <2>4. Runs'
    BY SensorAssumption DEF Types, Carried, Forwarded, Runs
  <2> QED BY <2>1, <2>2, <2>3, <2>4
<1> QED BY <1>1, <1>2, <1>3, <1>4, <1>5, <1>6, <1>7

\* Every step of a board with one chip; the first three groups cannot be taken.
LEMMA AloneStep ==
    ASSUME Orderly, board = "standalone", Types, Alone, NEW c \in Chip,
           ShakeRead \/ ShakeReadDone \/ baseband_cascade_sync_wait \/ StopReq \/
           StopWrite \/ MasterCfarDone \/ MergeRead \/ MergeDone \/ MasterDoa \/
           ShakeReq \/ ShakeWrite \/ SlaveReady \/ baseband_scan_stop_rx \/ StopReadDone
           \/ ReportReq \/ ReportWrite \/ baseband_read_cascade_cmd \/ CmdReadDone \/
           SlaveStart \/ CliReq \/ CliWrite \/ LinkMoves \/ BeginFrame(c) \/
           RadioStart(c) \/ FrameDone(c) \/ frame_count_ctrl(c) \/ EndFrame(c) \/
           RecallStop(c) \/ BbDone(c) \/ vTimerTrackCallback(c) \/ TypeStart \/
           CliCount(c) \/ TypeStop \/ CanStart \/ CanCount \/ CanStop
    PROVE  Alone'
<1> USE DEF Chip, Peer, Chirps, Endless, MostFrames, Stop, Master, Slave, Writes, Filled,
    FlagTypes, PlaceTypes, CountTypes, PackageTypes, Empty, Idle, Still, AddUp, link,
    cascade_write_buf_req, cascade_write_buf_done, HasPackage, cascade_read_buf_req,
    cascade_read_buf_done, Coming, flags, track, engine, sync, command, canbus, history,
    fixed, commands, Each, IsMaster, IsSlave, Chips, Post, At, Goto, SetCount, LinkCall,
    baseband_scan_stop, TrackFrame, TakeBbIsr, baseband_stop, MayStart, CliRuns, ScanStart,
    Alone
\* steps of a cascade's master
<1>1. CASE ShakeRead \/ ShakeReadDone \/ baseband_cascade_sync_wait \/ StopReq \/ StopWrite
            \/ MasterCfarDone \/ MergeRead \/ MergeDone \/ MasterDoa
  BY <1>1 DEF Types, ShakeRead, ShakeReadDone, baseband_cascade_sync_wait, StopReq,
      StopWrite, MasterCfarDone, ReportComes, MergeRead, MergeDone, MasterDoa
\* steps of a slave
<1>2. CASE ShakeReq \/ ShakeWrite \/ SlaveReady \/ baseband_scan_stop_rx \/ StopReadDone \/
            ReportReq \/ ReportWrite \/ baseband_read_cascade_cmd \/ CmdReadDone
  BY <1>2 DEF Types, Shake, Report, ShakeReq, ShakeWrite, SlaveReady, baseband_scan_stop_rx,
      StopReadDone, ReportReq, ReportWrite, baseband_read_cascade_cmd, CmdReadDone
<1>3. CASE SlaveStart \/ CliReq \/ CliWrite \/ LinkMoves
  BY <1>3 DEF Types, Cmd, Counted, HeaderArrives, SenderDone, ReceiverDone, Transfer,
      SlaveStart, CliReq, CliWrite, LinkMoves
<1>4. CASE BeginFrame(c)
  BY <1>4 DEF Types, BeginFrame
<1>5. CASE RadioStart(c)
  BY <1>5 DEF Types, RadioStart
<1>6. CASE FrameDone(c)
  BY <1>6 DEF Types, FrameDone
<1>7. CASE frame_count_ctrl(c)
  BY <1>7 DEF Types, frame_count_ctrl
<1>8. CASE EndFrame(c)
  BY <1>8 DEF Types, EndFrame
<1>9. CASE RecallStop(c)
  BY <1>9 DEF Types, RecallStop
<1>10. CASE BbDone(c)
  BY <1>10, SensorAssumption DEF Types, BbDone
<1>11. CASE vTimerTrackCallback(c)
  BY <1>11 DEF Types, vTimerTrackCallback
<1>12. CASE TypeStart
  BY <1>12 DEF Types, TypeStart
<1>13. CASE CliCount(c)
  BY <1>13, SensorAssumption DEF Types, CliCount
<1>14. CASE TypeStop
  BY <1>14 DEF Types, TypeStop
<1>15. CASE CanStart
  BY <1>15 DEF Types, CanStart
<1>16. CASE CanCount
  BY <1>16, SensorAssumption DEF Types, CanCount
<1>17. CASE CanStop
  BY <1>17 DEF Types, CanStop
<1> QED BY <1>1, <1>2, <1>3, <1>4, <1>5, <1>6, <1>7, <1>8, <1>9, <1>10, <1>11, <1>12, <1>13,
     <1>14, <1>15, <1>16, <1>17

-----------------------------------------------------------------------------
(* The invariant is inductive.                                             *)

\* Every step is taken by the task, the hardware or the timer of a chip, by the
\* commands or by the link.
LEMMA WhatHappens ==
    ASSUME Next
    PROVE  \/ \E c \in Chip : \/ baseband_task(c) \/ BbDone(c)
                              \/ vTimerTrackCallback(c) \/ CliCount(c)
           \/ SlaveStart \/ CliReq \/ CliWrite \/ CanCount
           \/ TypeStart \/ TypeStop \/ CanStart \/ CanStop \/ LinkMoves
BY DEF Next, Handlers, User

\* The types are kept by every step, whatever the user does.
LEMMA StepKeepsTypes == Types /\ [Next]_vars => Types'
<1> SUFFICES ASSUME Types, [Next]_vars PROVE Types'
  OBVIOUS
<1>1. CASE UNCHANGED vars
  BY <1>1 DEF Types, FlagTypes, PlaceTypes, CountTypes, PackageTypes, Filled, Writes, vars,
              commands, fixed, command, canbus, flags, track, engine, sync, history, link
<1>2. CASE Next
  <2>1. ASSUME NEW c \in Chip, baseband_task(c) PROVE Types'
    <3> USE <2>1 DEF Chip
    <3>1. CASE \/ ShakeRead \/ ShakeReadDone \/ baseband_cascade_sync_wait \/ StopReq
               \/ StopWrite \/ MasterCfarDone \/ MergeRead \/ MergeDone \/ MasterDoa
      BY <3>1, FrameKeepsTypes
    <3>2. CASE \/ ShakeReq \/ ShakeWrite \/ SlaveReady \/ baseband_scan_stop_rx
               \/ StopReadDone \/ ReportReq \/ ReportWrite
               \/ baseband_read_cascade_cmd \/ CmdReadDone
      BY <3>2, FrameKeepsTypes
    <3>3. CASE \/ BeginFrame(c) \/ RadioStart(c) \/ FrameDone(c) \/ frame_count_ctrl(c)
               \/ EndFrame(c) \/ RecallStop(c)
      BY <3>3, FrameKeepsTypes
    <3> QED BY <3>1, <3>2, <3>3 DEF baseband_task
  <2>2. ASSUME NEW c \in Chip, BbDone(c) \/ vTimerTrackCallback(c) \/ CliCount(c) PROVE Types'
    BY <2>2, OthersKeepTypes
  <2>3. CASE \/ SlaveStart \/ CliReq \/ CliWrite \/ CanCount
             \/ TypeStart \/ TypeStop \/ CanStart \/ CanStop \/ LinkMoves
    <3>1. "M" \in Chip
      BY DEF Chip
    <3> QED BY <2>3, <3>1, OthersKeepTypes
  <2> QED BY <1>2, <2>1, <2>2, <2>3, WhatHappens
<1> QED BY <1>1, <1>2

\* On a cascade every step keeps the two chips together: what only a board with
\* one chip does cannot happen.
LEMMA CascadeStep ==
    ASSUME Orderly, board = "cascade", Types, Together, [Next]_vars
    PROVE  Together'
<1>1. CASE UNCHANGED vars
  BY <1>1 DEF Together, Carried, Confirmed, InStep, Forwarded, Agreed, Hardware, Edge, Gate,
              Interleaved, Runs, Master, Slave, Empty, Idle, Still, OnWay, Ahead, After,
              Between, Released, Merges, CmdSent, StopSent, LeftM, LeftS, Pending, FinalM,
              FinalS, SlaveSet, Selects, MasterFirst, SlaveFirst, InFrameM, InFrameS, AddUp,
              Wanted, vars, commands, fixed, command, canbus, flags, track, engine, sync,
              history, link
<1>2. CASE Next
  <2>1. ASSUME NEW c \in Chip, baseband_task(c) PROVE Together'
    <3>1. c = "M" \/ c = "S"
      BY DEF Chip
    <3>2. CASE \/ ShakeRead \/ ShakeReadDone \/ ShakeReq \/ ShakeWrite
      BY <3>2, HandshakeStep
    <3>3. CASE \/ baseband_cascade_sync_wait \/ StopReq \/ StopWrite \/ MasterCfarDone
               \/ MergeRead \/ MergeDone \/ MasterDoa
      BY <3>3, MasterStep
    <3>4. CASE \/ SlaveReady \/ baseband_scan_stop_rx \/ StopReadDone \/ ReportReq
               \/ ReportWrite \/ baseband_read_cascade_cmd \/ CmdReadDone
      BY <3>4, SlaveStep
    <3>5. CASE c = "M" /\ (\/ BeginFrame("M") \/ RadioStart("M") \/ FrameDone("M")
                           \/ frame_count_ctrl("M") \/ EndFrame("M") \/ RecallStop("M"))
      BY <3>5, MasterStep
    <3>6. CASE c = "S" /\ (\/ BeginFrame("S") \/ FrameDone("S") \/ frame_count_ctrl("S")
                           \/ EndFrame("S") \/ RecallStop("S"))
      BY <3>6, SlaveStep
    <3>7. ~ RadioStart("S")
      BY DEF RadioStart, At, Together, InStep, Slave
    <3> QED BY <2>1, <3>1, <3>2, <3>3, <3>4, <3>5, <3>6, <3>7 DEF baseband_task
  <2>2. ASSUME NEW c \in Chip, BbDone(c) \/ vTimerTrackCallback(c) PROVE Together'
    BY <2>2, EngineStep DEF Chip
  <2>3. ASSUME NEW c \in Chip, CliCount(c) PROVE Together'
    BY <2>3, CommandStep DEF Chip
  <2>4. CASE SlaveStart \/ CliReq \/ CliWrite \/ TypeStart \/ TypeStop
    BY <2>4, CommandStep
  <2>5. CASE LinkMoves
    BY <2>5, EngineStep
  <2>6. ~ CanCount /\ ~ CanStart /\ ~ CanStop
    BY DEF CanCount, CanStart, CanStop, Together, InStep
  <2> QED BY <1>2, <2>1, <2>2, <2>3, <2>4, <2>5, <2>6, WhatHappens
<1> QED BY <1>1, <1>2

\* The same on a board with one chip.
LEMMA StandaloneStep ==
    ASSUME Orderly, board = "standalone", Types, Alone, [Next]_vars
    PROVE  Alone'
<1>1. CASE UNCHANGED vars
  BY <1>1 DEF Alone, Master, Slave, Still, Idle, Empty, AddUp, vars, commands, fixed, command,
              canbus, flags, track, engine, sync, history, link
<1>2. CASE Next
  <2>1. ASSUME NEW c \in Chip, baseband_task(c) PROVE Alone'
    <3>1. CASE \/ ShakeRead \/ ShakeReadDone \/ baseband_cascade_sync_wait \/ StopReq
               \/ StopWrite \/ MasterCfarDone \/ MergeRead \/ MergeDone \/ MasterDoa
      BY <2>1, <3>1, AloneStep
    <3>2. CASE \/ ShakeReq \/ ShakeWrite \/ SlaveReady \/ baseband_scan_stop_rx
               \/ StopReadDone \/ ReportReq \/ ReportWrite
               \/ baseband_read_cascade_cmd \/ CmdReadDone
      BY <2>1, <3>2, AloneStep
    <3>3. CASE \/ BeginFrame(c) \/ RadioStart(c) \/ FrameDone(c) \/ frame_count_ctrl(c)
               \/ EndFrame(c) \/ RecallStop(c)
      BY <2>1, <3>3, AloneStep
    <3> QED BY <2>1, <3>1, <3>2, <3>3 DEF baseband_task
  <2>2. ASSUME NEW c \in Chip, BbDone(c) \/ vTimerTrackCallback(c) \/ CliCount(c) PROVE Alone'
    BY <2>2, AloneStep
  <2>3. CASE \/ SlaveStart \/ CliReq \/ CliWrite \/ CanCount
             \/ TypeStart \/ TypeStop \/ CanStart \/ CanStop \/ LinkMoves
    <3>1. "M" \in Chip
      BY DEF Chip
    <3> QED BY <2>3, <3>1, AloneStep
  <2> QED BY <1>2, <2>1, <2>2, <2>3, WhatHappens
<1> QED BY <1>1, <1>2

\* The board does not change.
LEMMA BoardKept == [Next]_vars => board' = board
<1> SUFFICES ASSUME [Next]_vars PROVE board' = board
  OBVIOUS
<1> USE DEF vars, commands, fixed
<1>1. ASSUME NEW c \in Chip, baseband_task(c) PROVE board' = board
  <2>1. CASE ShakeRead \/ ShakeReadDone \/ ShakeReq \/ ShakeWrite
    BY <2>1 DEF ShakeRead, ShakeReadDone, ShakeReq, ShakeWrite, LinkCall
  <2>2. CASE \/ baseband_cascade_sync_wait \/ StopReq \/ StopWrite \/ MasterCfarDone
             \/ MergeRead \/ MergeDone \/ MasterDoa
    BY <2>2 DEF baseband_cascade_sync_wait, StopReq, StopWrite, MasterCfarDone, MergeRead,
                MergeDone, MasterDoa, LinkCall, TakeBbIsr
  <2>3. CASE \/ SlaveReady \/ baseband_scan_stop_rx \/ StopReadDone \/ ReportReq
             \/ ReportWrite \/ baseband_read_cascade_cmd \/ CmdReadDone
    BY <2>3 DEF SlaveReady, baseband_scan_stop_rx, StopReadDone, ReportReq, ReportWrite,
                baseband_read_cascade_cmd, CmdReadDone, LinkCall
  <2>4. CASE \/ BeginFrame(c) \/ RadioStart(c) \/ FrameDone(c) \/ frame_count_ctrl(c)
             \/ EndFrame(c) \/ RecallStop(c)
    BY <2>4 DEF BeginFrame, RadioStart, FrameDone, TakeBbIsr, frame_count_ctrl, EndFrame,
                RecallStop
  <2> QED BY <1>1, <2>1, <2>2, <2>3, <2>4 DEF baseband_task
<1>2. ASSUME NEW c \in Chip, BbDone(c) \/ vTimerTrackCallback(c) \/ CliCount(c)
      PROVE  board' = board
  BY <1>2 DEF BbDone, vTimerTrackCallback, CliCount
<1>3. CASE SlaveStart \/ CliReq \/ CliWrite \/ CanCount \/ LinkMoves
  BY <1>3 DEF SlaveStart, CliReq, CliWrite, CanCount, LinkMoves
<1>4. CASE TypeStart \/ TypeStop \/ CanStart \/ CanStop
  BY <1>4 DEF TypeStart, TypeStop, CanStart, CanStop
<1>5. CASE UNCHANGED vars
  BY <1>5
<1> QED BY <1>1, <1>2, <1>3, <1>4, <1>5, WhatHappens

\* A sensor begins with every chip at rest, the cascade before its handshake.
LEMMA InitTypes == Init => Types
<1> SUFFICES ASSUME Init PROVE Types
  OBVIOUS
<1> USE DEF Init, LinkInit, Each, Chip
<1>1. FlagTypes
  BY DEF FlagTypes
<1>2. PlaceTypes
  BY DEF PlaceTypes
<1>3. InterleavingAtStart \in Interleaving
  BY DEF InterleavingAtStart, Interleaving, FrameTypes, MAX_FRAME_TYPE
<1>4. CountTypes
  BY <1>3, SensorAssumption, LinkAssumption DEF CountTypes, Chirps, Endless, MostFrames
<1>5. PackageTypes
  BY DEF PackageTypes, Filled, Writes
<1> QED BY <1>1, <1>2, <1>4, <1>5 DEF Types

\* ... and the whole invariant holds.
LEMMA InitInv == Init => IInv
<1> SUFFICES ASSUME Init PROVE IInv
  OBVIOUS
<1>1. Types
  BY InitTypes
<1>2. CASE board = "standalone"
  BY <1>1, <1>2 DEF Init, LinkInit, Each, Chip, IInv, Alone, Master, Slave, Still, Idle,
       Empty, AddUp, Endless
<1>3. CASE board = "cascade"
  <2> USE <1>3 DEF Init, LinkInit, Each, Chip, Master, Slave
  <2>1. Still /\ ~ OnWay("M") /\ ~ OnWay("S")
    BY DEF Still, Idle, Empty, OnWay, Peer
  <2>2. Carried
    BY <2>1 DEF Carried
  <2>3. Confirmed /\ Hardware /\ Edge /\ Gate
    BY DEF Confirmed, Hardware, Edge, Gate, Released
  <2>4. InStep /\ Forwarded
    BY <2>1 DEF InStep, Forwarded, Released, Merges, After, Ahead
  <2>5. Agreed
    BY <2>1 DEF Agreed, Pending, FinalM, FinalS, LeftM, LeftS, After, CmdSent, StopSent
  <2>6. Interleaved
    BY <2>1 DEF Interleaved, MasterFirst, SlaveFirst, SlaveSet, Ahead, CmdSent
  <2>7. Runs
    BY DEF Runs, Wanted
  <2> QED BY <1>1, <2>2, <2>3, <2>4, <2>5, <2>6, <2>7 DEF IInv, Together
<1> QED BY <1>1, <1>2, <1>3, BoardTypes

\* The invariant is inductive, with an orderly user.
LEMMA StepKeepsInv == Orderly /\ IInv /\ [Next]_vars => IInv'
<1> SUFFICES ASSUME Orderly, IInv, [Next]_vars PROVE IInv'
  OBVIOUS
<1>1. Types'
  BY StepKeepsTypes DEF IInv
<1>2. board' = board
  BY BoardKept
<1>3. CASE board = "standalone"
  BY <1>1, <1>2, <1>3, StandaloneStep DEF IInv
<1>4. CASE board = "cascade"
  BY <1>1, <1>2, <1>4, CascadeStep DEF IInv
<1> QED BY <1>3, <1>4, BoardTypes DEF IInv

-----------------------------------------------------------------------------
(* The properties follow.                                                  *)

\* A released slave is armed, and neither chip is a frame ahead.
LEMMA ChirpsFollow == IInv => ChirpsAreShared
BY DEF IInv, Together, InStep, Interleaved, Forwarded, ChirpsAreShared, IsMaster, Released,
       MasterFirst, SlaveFirst, SlaveSet, CmdSent, Master, Slave

\* While the master merges, the slave works on the frame or has sent its report.
LEMMA MergesFollow == IInv => MergesThisFrame
<1> SUFFICES ASSUME IInv PROVE MergesThisFrame
  OBVIOUS
<1>1. CASE board = "standalone"
  BY <1>1 DEF IInv, Alone, Master, MergesThisFrame
<1>2. CASE board = "cascade"
  <2>1. Master = "merge" => After \/ OnWay("S")
    BY <1>2 DEF IInv, Together, InStep, Merges
  <2>2. Slave = "wait" /\ hw["S"] # "armed" => hw["S"] = "sampling" \/ queue_bb_isr["S"] = 1
    BY <1>2 DEF IInv, Types, PlaceTypes, Chip, Together, Hardware
  <2>3. After => ReportComes
    BY <2>2 DEF After, ReportComes, Slave
  <2>4. OnWay("S") => HasPackage("M") \/ Coming("M")
    BY DEF OnWay, HasPackage, Coming, Peer
  <2>5. Master = "merging" => rx_data_buffer["M"] = Report(sampled["M"])
    BY <1>2 DEF IInv, Together, Carried
  <2> QED BY <2>1, <2>3, <2>4, <2>5 DEF MergesThisFrame, ReportComes, Master
<1> QED BY <1>1, <1>2, BoardTypes DEF IInv

\* Whoever writes, the other chip is where it neither writes nor reads.
LEMMA TurnsFollow == IInv => LinkInTurns
<1> SUFFICES ASSUME IInv PROVE LinkInTurns
  OBVIOUS
<1>1. CASE board = "standalone"
  BY <1>1 DEF IInv, Alone, Master, Slave, Still, Idle, Empty, LinkInTurns, Writing, Reading,
       Quiet,
              Chip
<1>2. CASE board = "cascade"
  <2> USE <1>2 DEF IInv, Together, Master, Slave
  <2>1. Writing("M") => Still
    BY DEF Writing, Carried, InStep, Forwarded, Released, Merges, Between, Ahead, StopSent
  <2>2. Writing("S") => Still
    BY DEF Writing, Carried, InStep, Forwarded, Released, Merges, Between, Ahead, After
  <2>3. Writing("M") => ~ Reading("M") /\ ~ Reading("S")
    BY DEF Writing, Reading, InStep, Forwarded, Released, Between
  <2>4. Writing("S") => ~ Reading("M") /\ ~ Reading("S")
    BY DEF Writing, Reading, InStep, Forwarded, After, Merges
  <2>5. Still => Quiet
    BY DEF Still, Idle, Empty, Quiet, Chip
  <2> QED BY <2>1, <2>2, <2>3, <2>4, <2>5 DEF LinkInTurns, Chip
<1> QED BY <1>1, <1>2, BoardTypes DEF IInv

\* When no command is under way, no counter is to be set.
LEMMA NothingPending ==
    ASSUME IInv, board = "cascade", Master = "top", ~ CommandUnderWay
    PROVE  cli["M"] = "idle" /\ ~ Pending /\ ~ StopSent
<1> USE DEF IInv, Together, Master
<1>1. cli["M"] = "idle" /\ cli["S"] = "idle" /\ queue_spi_cmd = 0
  BY DEF CommandUnderWay, Each, Chip, Forwarded, Types, PlaceTypes
<1>2. ~ OnWay("M")
  <2>1. OnWay("M") => Coming("S") \/ HasPackage("S")
    BY DEF OnWay, Coming, HasPackage, Peer
  <2>2. OnWay("M") => cas_tx_buf["M"] \in Cmds
    BY DEF Carried, Merges
  <2>3. \A p \in Cmds : p # Stop
    BY InPackage DEF Stop
  <2> QED BY <2>1, <2>2, <2>3 DEF CommandUnderWay
<1> QED BY <1>1, <1>2 DEF Pending, CmdSent, StopSent

\* With nothing pending, the counters that agree are the final ones.
LEMMA StopFollows == IInv => StopSameFrame
<1> SUFFICES ASSUME IInv, board = "cascade", bb_task = Each("top"), ~ CommandUnderWay
             PROVE  frame_count["M"] = frame_count["S"] /\ sampled["M"] = sampled["S"]
  BY DEF StopSameFrame
<1>1. Master = "top" /\ Slave = "top"
  BY DEF Master, Slave, Each, Chip
<1>2. cli["M"] = "idle" /\ ~ Pending /\ ~ StopSent
  BY <1>1, NothingPending
<1>3. FinalM = frame_count["M"] /\ FinalS = frame_count["S"]
  BY <1>1, <1>2 DEF FinalM, FinalS, LeftM, LeftS, Pending, After
<1> QED BY <1>3 DEF IInv, Together, Agreed, InStep

\* At rest no frame is left, so all that were asked for have begun.
LEMMA RunsFollow == IInv => ScanRunsItsFrames
<1> SUFFICES ASSUME IInv, \A c \in Chips : Rests(c), ~ CommandUnderWay, want # Endless
             PROVE  \A c \in Chips : ran[c] = want
  BY DEF ScanRunsItsFrames
<1>1. CASE board = "standalone"
  <2>1. Master = "top" /\ frame_count["M"] = 0
    BY <1>1 DEF Chips, Rests, Master
  <2>2. cli["M"] = "idle" /\ can = "idle"
    BY DEF CommandUnderWay, Each, Chip, IInv, Types, PlaceTypes
  <2>3. ran["M"] \in Nat /\ want \in Int
    BY DEF IInv, Types, CountTypes, Chip, Endless, MostFrames
  <2> QED BY <1>1, <2>1, <2>2, <2>3 DEF IInv, Alone, AddUp, Chips
<1>2. CASE board = "cascade"
  <2>1. Master = "top" /\ frame_count["M"] = 0 /\ Slave = "top" /\ frame_count["S"] = 0
    BY <1>2 DEF Chips, Chip, Rests, Master, Slave
  <2>2. cli["M"] = "idle" /\ ~ Pending
    BY <1>2, <2>1, NothingPending
  <2>3. ~ InFrameM /\ ~ InFrameS
    BY <2>1 DEF InFrameM, InFrameS, Ahead, After
  <2>4. ran["M"] \in Nat /\ ran["S"] \in Nat /\ want \in Int
    BY DEF IInv, Types, CountTypes, Chip, Endless, MostFrames
  <2>5. ran["M"] = want
    BY <1>2, <2>1, <2>2, <2>3, <2>4 DEF IInv, Together, Runs, AddUp
  <2>6. ran["S"] = want
    BY <1>2, <2>1, <2>2, <2>3, <2>4 DEF IInv, Together, Runs, Wanted, AddUp
  <2> QED BY <1>2, <2>5, <2>6 DEF Chips, Chip
<1> QED BY <1>1, <1>2, BoardTypes DEF IInv

\* At rest the hardware and the gate are as the last stop left them.
LEMMA OffFollows == IInv => RestIsOff
<1> SUFFICES ASSUME IInv PROVE RestIsOff
  OBVIOUS
<1>1. CASE board = "standalone"
  BY <1>1 DEF IInv, Alone, Master, RestIsOff, Rests, Chips
<1>2. CASE board = "cascade"
  BY <1>2 DEF IInv, Together, Hardware, Gate, Released, Master, Slave, RestIsOff, Rests,
       Chips, Chip
<1> QED BY <1>1, <1>2, BoardTypes DEF IInv

-----------------------------------------------------------------------------
(* The theorems.                                                           *)

\* Whatever the boards, strategies and frame numbers, and however the user
\* types, the sensor's state is the state its types say: no queue overruns, and a
\* package that is sent has been filled in (frame_count_ctrl, cascade.c,
\* baseband_task.c).
THEOREM SensorTypes == Spec => []TypeOK
<1>1. Spec => []Types
  BY InitTypes, StepKeepsTypes, PTL DEF Spec
<1> QED BY <1>1, TypesSuffice, PTL

\* With an orderly user the invariant holds.
THEOREM SensorInvariant == ASSUME Orderly PROVE Spec => []IInv
<1>1. IInv /\ [Next]_vars => IInv'
  BY StepKeepsInv
<1> QED BY <1>1, InitInv, PTL DEF Spec

\* When the master's radio is about to send its chirps, the slave's hardware is
\* started and set to the same frame type (baseband_cascade_sync_wait and
\* baseband_frame_interleave_recfg on both chips).
THEOREM SharedChirps == ASSUME Orderly PROVE Spec => []ChirpsAreShared
BY SensorInvariant, ChirpsFollow, PTL

\* The master merges the slave's report of this frame and no other
\* (baseband_merge_cascade against baseband_write_cascade_ctrl).
THEOREM FreshReports == ASSUME Orderly PROVE Spec => []MergesThisFrame
BY SensorInvariant, MergesFollow, PTL

\* Commands, stops, reports and the handshake never meet on the link.
THEOREM TurnsOnTheLink == ASSUME Orderly PROVE Spec => []LinkInTurns
BY SensorInvariant, TurnsFollow, PTL

\* Both chips stop at the same frame, as baseband_cas.c promises.
THEOREM SameFrame == ASSUME Orderly PROVE Spec => []StopSameFrame
BY SensorInvariant, StopFollows, PTL

\* A scan of n frames runs n frames on every chip (frame_count_ctrl).
THEOREM FramesAddUp == ASSUME Orderly PROVE Spec => []ScanRunsItsFrames
BY SensorInvariant, RunsFollow, PTL

\* After a stop nothing of the scan runs on (baseband_stop).
THEOREM NothingRunsOn == ASSUME Orderly PROVE Spec => []RestIsOff
BY SensorInvariant, OffFollows, PTL

=============================================================================
