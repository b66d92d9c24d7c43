# Verification of the radar sensor firmware

The firmware runs on one or on two radar chips. This directory holds TLA+
models of its concurrent parts, TLC configurations that check them on small
instances, and proofs checked by TLAPS of what holds for every size. Paths are
relative to the repository; `cascade/` is short for
`src/calterah/common/cascade/`, `baseband/` for `src/calterah/common/baseband/`,
`ip_hal/` for `src/embarc_osp/device/ip/ip_hal/`.

## 1. Inventory

### 1.1 The parts and how they meet

| part | state it keeps | operations | talks to |
|---|---|---|---|
| cascade link (`cascade/core.c`, `frame.c`, `cascade_if_master.c`, `cascade_if_slave.c`, `cascade_crc.c`, `sync.c`, `cascade.c`) | `cs_proc`: session type and a transfer manager per direction; `cs_last_frame_info`; queues of received packages, of confirmations and of edges | write a package, read a package, handle an edge (master), handle an SPI interrupt (slave), compute and compare checksums | the other chip by SPI and one GPIO; `baseband_task`; the SPI driver |
| SPI driver (`ip_hal/spi_hal.c`, `device/ip/designware/ssi/dw_ssi.c`) | device buffers, thresholds, interrupt masks, transfer state | read, write, interrupt, buffer installation | cascade link, SPI slave server |
| CAN command layer (`can_cli/can_cli.c`) | ring of received frames with a lock per slot, table of callbacks | store a frame (interrupt), serve a frame (task) | CAN driver, callbacks that set `frame_count` |
| CAN driver (`ip_hal/can_hal.c`, `device/ip/can_r2p0/can.c`) | RX position, TX buffer and offset, token queue | receive interrupt, transmit, transmit interrupt | CAN command layer |
| baseband task and frame control (`baseband/baseband_task.c`, `baseband.c`) | `frame_count`, `initial_flag`, interleaving counters, `queue_bb_isr` | run a frame, start and stop a scan, frame synchronisation of two chips | everything above; tracker |
| merge protocol (`baseband/baseband_cas.c`) | counts of objects sent, received, merged | slave reports its objects in blocks, master merges them, scan commands | cascade link |
| SPI slave server (`spi_slave_server/`) | frame under transmission, checksum state | framed transmission to an external host | SPI driver |
| console and command line (`console/`, `freertos/common/cli/`, `ip_hal/uart_hal.c`) | output buffers with tickets, transmitter; receive ring, its window and its reports; line and history | print, dump, interrupt, read a line, run a command | every task that prints; UART |
| tracker (`track/track.c`, `track/public/ekf_track.c`) | trackers with their hits, misses and candidates; a gate and a timer per frame | pair, promote, start, drop, filter | baseband task |
| clustering, velocity de-ambiguity, mathematics | numeric state | numeric | baseband task, tracker |
| sensor configuration, radio control, baseband hardware layer | tables, registers | set-up | baseband task |
| boot loader and update (`baremetal/boot/`, flash driver `device/peripheral/nor_flash/flash.c`) | image in RAM and how much of it, base in flash, reboot cause | choose, check and start an image; take, program and verify a new one | host by UART; the application, which reboots into it |
| real-time kernel, processor support, C library pieces | - | third-party | - |

The application of the two-chip build uses the cascade link like this. The
master sends scan commands (`baseband_write_cascade_cmd`); after every frame
the slave sends a report of its detections, which the master merges with its
own. The link is used in turns, which is a property of the application
(`LinkInTurns`, section 3.1) and what the runs of the link itself assume.

### 1.2 How the cascade link works

SPI has one clock and the master owns it, so the slave can only ask. It does so
with a GPIO: `cascade_spi_s2m_sync` toggles it, an interrupt on the master
queues the edge (`cascade_s2m_sync_isr`), and `s2m_sync_task` answers each edge
by clocking one piece of the package: a header, a part of at most 32 words, or
a checksum. What an edge asks for is nowhere said. Each end derives it from its
own transfer manager, so both must make the same steps in the same order. A
package is cut into frames (1024 words) and a frame into parts (32 words). The
checksum of each frame is computed by a polling task
(`cs_crc_task`) on each chip, in parallel to the transfer; who needs a checksum
that is not ready sets `CS_XFER_CRC` and leaves the next step to that task. On
the slave the whole protocol runs inside the SPI interrupt, and the RX FIFO
threshold decides when that interrupt comes.

What is hard here: four contexts per direction (two interrupts, two tasks, plus
the applications) share the managers without locks; each edge counts; the
threshold is computed on one chip and the burst on the other; the checksum
task's request is a single pair of globals; the driver does not check the room
in the buffers it fills.

What makes it correct: packages arrive once, in order, intact, and in the end;
no edge is lost; no burst finds the slave unprepared; nothing is stored outside
its frame; the two ends agree where they are; a checksum differs only if data
was damaged.

### 1.3 How the CAN command layer works

The receive interrupt stores each frame in a ring of slots and posts a token.
The task takes a token, pops the next locked slot, runs the callback and frees
the slot. Tokens and frames can part company: a full queue drops tokens, a full
ring drops frames but still posts tokens. Correct means that every frame stored
is served once, in order, eventually.

### 1.4 How a scan works

`baseband_task` runs one frame after the other for as long as `frame_count` is
not zero: it waits for the tracker's gate, selects the frame type, starts the
hardware and the radio, waits for the hardware's interrupt, counts the frame
down, and stops everything after the last one. `frame_count` is set by the
command line (`scan start n`, `scan stop`) and by CAN frames, in other tasks, at
any moment. On a cascade the master forwards the command over the link; then
each frame is a conversation: the slave starts its hardware and gives an edge
(`cascade_s2m_sync_bb`), the master sends the chirps for both, the slave writes
its report, the master merges it and runs the second half of its processing. A
stop typed at the master waits for the edge of the next frame and then goes over
the same link as a package, which the slave looks for between its sampling and
its report.

What is hard: three writers of `frame_count` and no lock held from the test to
the action; two waits without a time limit, for the edge and for the hardware;
edges that say nothing of which frame they belong to; four kinds of package
whose meaning depends on when they are read. Correct means that both chips run
the same frames with the same settings, that what is merged belongs together,
that a stop stops both after the same frame and leaves nothing on, and that
nobody waits for ever.

### 1.5 How the update works

`board_main` reads the reboot cause and goes into the update or to
`normal_boot`, which checks the image in flash part by part and starts it. The
update answers frames from a host: chunks of an image, in order, into RAM;
`program`, which compares versions, erases, writes and on request reads back;
`reset`. There is one place for an image and no copy, so every step from the
first erase to the last page leaves flash without a whole image. The header is
the weak spot: `normal_boot` compares neither its magic number nor its checksum,
and the verification begins behind it (`uart_ota.c:130`), so nobody ever notices
that its page came out wrong. Correct means that only what one host sent is
programmed, in its place, that an acknowledgement tells the truth about the
parts, that no image is programmed that is older than what the header in flash
reads, and that behind a header whose sizes and addresses are those of an image
nothing but that whole image is started.

### 1.6 How the console works

A task that prints gets a buffer and a ticket, fills the buffer, marks it ready,
gives it its length and, if the transmitter is idle, installs the buffer whose
ticket is next; otherwise the interrupt installs it at the end of the one before.
The interrupt may come between mark and length (`console.c:518`, `519`), and the
line then leaves with the length of an earlier one, or with none; a task that
dumps writes the two in the other order. The receive
interrupt writes into a window of a ring and reports positions through a queue;
when a window is full it opens the next one, as far as the reader has got.
Correct means that buffers leave in the order of their tickets, each once and
all of them, that what is dumped leaves whole, and that characters are read as
they were typed. That a printed line leaves whole the code does not ensure.

### 1.7 How the tracker works

Each frame `ekf_run_pair` finds for every tracker its nearest and its next
nearest candidate and settles who gets which: a nearer tracker takes a candidate
away from another, which falls back on its second choice. `ekf_run_update` then
promotes trackers on trial after enough hits, starts new ones on candidates
nobody follows, and drops those that were missed too often. Correct means that
the two sides of the pairing agree, that a candidate is not taken for a new
object while a tracker stands next to it, that promotion and dropping follow the
configured numbers of frames, and that the filter never reads a candidate that
is not there.

`PROJECT.json` lists every component with its status and every hazard with its
line.

## 2. Modules

| module | stands for | extends |
|---|---|---|
| `CanMailbox` | abstract: a bounded FIFO mailbox with one handler | |
| `CanCli` | ring, token queue, task (`can_cli.c`, receive path of `can_hal.c`) | |
| `CanCliProof` | proofs about `CanCli`, and that it implements `CanMailbox` | `CanCli` |
| `PackageChannel` | abstract: a reliable FIFO channel of packages | |
| `CascadeFrame` | pure arithmetic of packages, frames, parts (`frame.c`, parts of `core.c`) | |
| `CascadeWalk` | both ends' arithmetic side by side, without a wire | `CascadeFrame` |
| `CascadeWalkProof` | proofs about `CascadeWalk` | `CascadeWalk` |
| `CascadeCore` | state of both chips, words, wire, queues, first half of the checksum task | `CascadeFrame` |
| `CascadeMaster` | `cascade_if_master.c`, `s2m_sync_task` | `CascadeCore` |
| `CascadeSlave` | `cascade_if_slave.c` over the SPI driver's interrupt path | `CascadeCore` |
| `CascadeLink` | the composition, the applications of `cascade.c`, and the properties | both |
| `CascadeLinkProof` | proofs about `CascadeLink`, and that it is a `PackageChannel` each way | `CascadeLink` |
| `FrameInterleave` | which frame type comes next (`baseband_frame_interleave_*`) | |
| `SensorLink` | the link as its callers see it: `cascade.c` over an abstract transfer | |
| `FrameControl` | `baseband_task` on one chip or two, hardware, tracker gate and timer, edge, stop, report, merge | both |
| `SensorScan` | the commands of command line and CAN, the composition, and the properties | `FrameControl` |
| `SensorScanProof` | proofs about `SensorScan` | `SensorScan` |
| `FirmwareUpdate` | start-up, `normal_boot`, the UART update, erase and write, the host, loss of power | |
| `FirmwareUpdateProof` | proofs about `FirmwareUpdate` | `FirmwareUpdate` |
| `ConsoleTx`, `ConsoleRx` | transmitter and receiver of the console | |
| `Console` | both, and the command line's task between them | both |
| `ConsoleRxProof` | proofs about the receiver | `Console` |
| `ConsoleTxProof` | proofs about the transmitter, and the types of both | `ConsoleRxProof` |
| `Tracker` | `ekf_run_pair`, `ekf_run_update` and what the filter reads | |
| `TrackerProof` | proofs about `Tracker` | `Tracker` |
| `MCSensorScan`, `MCFirmwareUpdate`, `MCConsole` | instances for TLC | |

The mutants named `<definition>_<Change>` beside a definition are the plausible
bugs the properties are tested against; nothing else uses them.

### 2.1 State and actions of the cascade modules

Variables have the names of the code: `xfer_type`, `rx_mng`, `tx_mng` (records
of `cs_xfer_mng_t` with the current `cs_frame_t` inside), `rx_data_buffer`,
`cs_last_frame_info`, each a function of the chip `"M"` or `"S"`. `spi` is the
slave's controller and driver: FIFOs, masks, threshold, installed buffers.
`sync_queue` counts edges waiting. `sync_task`, `crc_task`, `writer`, `reader`
say where each thread is when it stands inside a function. `sent` and `got` are
history.

One action is one run of a handler, split in two at each point where another
context may come between a test and what follows from it and the outcome
differs:

- `cascade_if_master_send_callback`: `MasterSendHeader`, `MasterSendPart`,
  `MasterSendCrc` are its branches; `MasterCrcNotReady` and `MasterBlock` are
  the test at line 106 and the assignment at 116.
- `cascade_if_master_receive_callback`: `MasterReadHeader`, `MasterReadPart`,
  `MasterReadCrc` then `MasterFrameRead`, `MasterReceiveBlocked` then
  `MasterBlock`, `MasterCrcReadBefore`.
- `cascade_sync_callback` outside a session: `MasterPackageInit`.
- `cs_crc_task`: `cascade_crc_task` (poll, compute), then one of
  `MasterRxCrcDone`, `MasterTxCrcDone`/`MasterTxCrcSent`/`MasterTxCrcReady`,
  `SlaveRxCrcDone`/`SlaveRxCompared`/`SlaveRxPackageDone`,
  `SlaveTxCrcDone`/`SlaveTxCrcValid`.
- `cascade_if_callback` on the slave: one action per branch of the send and the
  receive callback, each with the driver's data movement (`RawXfer`) before it.
  An interrupt is one step, since nothing on the slave preempts it.
- `cascade.c`: `cascade_write_buf_req`, `cascade_write`, then the two halves of
  the end's write; `cascade_read`, `cascade_process_done`.

### 2.2 State and actions of the other modules

`SensorScan` and its parts. `bb_task[c]` is where chip `c`'s `baseband_task`
stands; each blocking call, each access to a count that a command may change and
each point where the other chip or a command can come between is a place of its
own. Names that are functions in the code are actions here
(`baseband_cascade_sync_wait`, `baseband_scan_stop_rx`, `frame_count_ctrl`,
`baseband_read_cascade_cmd`); the rest of the loop of `baseband_task` and
`baseband_data_proc_run` is `BeginFrame`, `RadioStart`, `FrameDone`, `EndFrame`
and `RecallStop`, which is the check between two frames for a stop that the last
frame did not see. `hw` stands for the registers of the baseband engine, `BbDone`
for its interrupt. `cli` and `can` are the handlers in their own tasks, which set
the frame number (`CliCount`, `CanCount`) after everything else. `SensorLink`
keeps of the cascade link who has a session open (`xfer_type`), what the one
receive buffer holds, and the two queues; a transfer is three steps because its
two ends let go of it at different times. `chirp`, `sampled`, `want` and `ran`
are history: which radio frame each chip last sampled, how many frames were asked
for and how many each chip began.

`FirmwareUpdate`. `flash` and `ram` are functions from pages to what they hold,
a page being the image it is of, its place there and, for a header, the version
it reads. `Wrong(c)` is what a page can be that should have become `c`: nothing
that can be recognised, or, for a header, one with other boot fields, with
another version (`Misread`) or without its magic number. `said` is history: the
version that the last header in flash read. `boot` is the
place in the boot loader, `part` the progress of erase, write and verification,
each sector, page and part one step; `skew` says how far the loader is out of
step with the host's frames after one it did not take off the line. `PowerLoss`
is enabled in every state. Actions: `board_main`, `normal_boot`,
`uart_ota_comm_handshake`, `uart_ota_image_handle`, `StartProgram` to
`uart_ota_program_verify` for `uart_ota_program_handle`, `EcuReset`,
`AppReboots`. `HostSends`, `HostHears` and `HostRestarts` are the host, which is
not in the repository.

`Console`. `txbuf_hooker` is the array of that name. A task's `pc` moves through
`pre_printf` (`Alloc`, `XbufInstall`), the output and `post_printf`
(`XbufRelease`, `MarkReady`, `SetSize`, `TestState`, then `cs_txbuf_install` in
four steps, since it runs without a lock there) or through `bprintf` (`UserRead`,
`UserAlloc`, `UserFill`, `UserPost`, in which it runs with one). `used_size` of a
hooker and `buf_len` of the transmitter say whether that length is the one of the
message in the buffer. `UartTxDone` is the interrupt at the end of a buffer,
`UartRx(k)` the interrupt with `k` new characters, `console_wait_newline` the
reader, joined to the printing task by `Console.Reads`; a report longer than its
line (`Fits`) it drops and stays where it is (`count = -1`).

`Tracker`. One step pairs one tracker (`Pair`, with the costs of its candidates
chosen anew, so that the numeric filter is covered whatever it computes);
`Promote`, `Start` and `Settle` are the three loops of `ekf_run_update`, in their
order; `PreStart` is a new scan.

### 2.3 Abstractions

- A burst on the wire is one step. The master waits in it, and the slave's
  interrupt fires only when the last word of a part has arrived or left.
- Words are records: a header with a length, a datum with a number, a checksum
  with the very sequence it was computed over (equal checksums mean equal
  data), or junk for what an empty FIFO yields. Nothing is ever damaged.
- SPI and GPIO calls succeed; queues drop when full as in the code.
- `crc_unmatch_cnt` is reduced to whether it is above zero.
- The build without `CASCADE_DMA`, the default of the board
  (`src/embarc_osp/board/ref_cascade/ref_cascade.mk:31`).
- Left out because unreachable: resuming a pending session (`core.c:275` tests
  for `PENDING` after `cascade_package_done` has set `IDLE`), and the slave's
  send callback with `crc_done` already set.
- In `CanCli` a frame is what its identifier stands for, and a callback returns.
- `SensorLink` has three steps per transfer and never loses a package;
  `CascadeLink` with `PackageChannel` is what justifies that for callers in
  turns, and `LinkInTurns` that they are. Both write `Quiet` for "nothing is under
  way", and it is the same condition.
- A frame's report fits one package: `TRACK_NUM_CDI` objects do
  (`baseband_cas.h`), so the loops of `baseband_write_cascade_ctrl` and
  `baseband_merge_cascade` run once.
- A time limit (`WAIT_TICK_NUM`, `CMD_RX_WAIT`) passes only if what is waited for
  is not on its way: the limits are long against a transfer, and a report that
  is later than its limit is not modelled.
- An image's parts are pages; checksums tell images apart; a page written over
  one that was not erased holds neither. Encrypted images and execution in place
  are left out.
- A header's words are read in two groups, each by itself: the boot fields
  (sizes, offsets, addresses), which `normal_boot` takes as they are, and magic
  number and version, which a program command compares. Behind boot fields that
  came out wrong `normal_boot` may start anything, hang, or fall back to the
  update; the sizes of an erased header, all ones, fail the check or fault.
- The console's data are message names and character numbers, its lengths
  whether they are right. The compiler is taken to keep the order in which
  `bprintf` writes length and state; nothing but habit makes it do so, since
  `txbuf_hooker` is not volatile. Printing from interrupts and the overflow of the
  ticket counters are left out.
- The tracker's arithmetic is replaced by every combination of costs, leaving the
  field of view by a free choice.

## 3. Runs

Passing runs:

| run | question | instance | states |
|---|---|---|---|
| `can_cli` | Does the ring with its lossy token queue implement the mailbox (`ServesMailbox`, liveness included)? Can a frame be stranded? Does the invariant the proof uses hold? | 3 slots, 3 tokens, 2 messages; frames without bound | 805, all |
| `walk` | Do both ends cut every package alike? | the real sizes 1024/32/5000, every length | 407888, all |
| `link_turns` | Both chips write, in any order of turns: is each direction a reliable channel that delivers in the end, and does each edge find the slave prepared? | two packages each way: 1, 7, 19 words (four frames) to the slave, 3, 12 (two frames) to the master | 168858 |
| `link_eager` | A chip writes its second package at once: do edges pile up, does a part overrun its frame? | 1, 3, 7 words, two packages | 42435 |
| `sensor` | Do one chip and two chips run the frames that were asked for, in step, and stop for good? | both boards; strategies `ROTATE` and `AIR_CONDITIONER`; scans of 0, 1, 2 and endless frames, as many scans as one likes | 114499, all |
| `update` | What may be in flash, and what is started, after any sequence of chunks, faults and losses of power? | three images of two and three pages, four pages of flash, two faults, three starts; a header that came out wrong reads version 0 or 3 | 1649629 |
| `console` | Do buffers and characters keep their order, does every buffer leave, and each dump with its own length? | two tasks that print and one that dumps, three buffers; a ring of three characters, four typed | 1284522 |
| `track` | Do pairs, hits and misses stay consistent while trackers compete? | three trackers, two candidates, costs 0 to 2, thresholds of two frames | 861896, all |

"All" means that nothing but the constants bounds the run. Where
`CHECK_DEADLOCK FALSE` is given, the instance stops when its packages, messages
or starts are used up (the sensor when nobody types anything any more).

Runs that refute what the source says (each is a finding in `PROJECT.json`):

| run | what happens |
|---|---|
| `link_tx_block` | `s2m_sync_task` sees no checksum, `cs_crc_task` provides it, and only then the state becomes `CRC`: nobody looks again |
| `sensor_restart` | A scan is started over CAN while one runs, which sets `initial_flag`; a stop before the next frame then finds the flag set, `baseband_stop` is not called, and the track timer goes on |
| `update_ragged` | The verification subtracts a whole part from what is left of a shorter one, wraps, and fails on an image that is in flash without fault |
| `console_reenter` | A tick between the test and the install of `post_printf`: two tasks install a buffer each, and one message is neither sent nor its buffer given back |

Link instances use `PartLen = 3`, `FrameLen = 6` (`3` in `link_tx_block`), FIFOs
of one part, `QueueLen = 3` (`CASCADE_QUEUE_LEN`). `MasterLens` and `SlaveLens`
are the lengths each chip may write; a chip without lengths never writes. They
give packages of less than a part, exactly a part, a frame and a bit, two frames
and several, which are the cases the arithmetic tells apart; how it behaves at
the real sizes is what `walk` and the proofs are for. With `InTurns` a package
is written only when the one before has been read and both ends are at rest;
without it a chip waits only for its own confirmation. `Preempt = FALSE`, in the
link and in the console, means that the tick does not take a task out of the
middle of a callback, or of an install without a lock. The scheduler may do so,
and `link_tx_block` and `console_reenter` show what happens then.

### 3.1 Properties

- CAN: `RingInv` and `NoStrandedFrame` say that tokens and frames never come
  apart in a way that matters; `ServesMailbox` that the whole is `CanMailbox`.
- Walk: `EndsAgree` (both ends at the same frame, length and progress),
  `PartsInPlace` (a part is stored at the offset it was taken from),
  `WholePackage`, `WalkEnds`.
- Link: `EdgeMeansReady` says that an edge that waits finds the slave prepared
  for exactly the words the master will clock. It ties the slave's threshold and
  FIFO to the master's frame, and is what the whole handshake rests on.
  `ChannelsLive` is both directions as a `PackageChannel` with its fairness:
  `written` is the contents of the packages written, `read` those read out of
  the receive buffer. `EdgesDoNotPileUp`: never two edges wait, so none is lost
  in a queue of three. `PartFits`: the driver's unchecked draining of the FIFO
  never meets more than there is room for.
- Sensor: `ChirpsAreShared`, `MergesThisFrame` and `StopSameFrame` relate the
  two chips; `ScanRunsItsFrames` counts frames against what was asked for;
  `RestIsOff` says that a stop reached hardware, timer and gate; `LinkInTurns`
  is the assumption of `link_turns`, shown of the application; `FramesEnd` and
  `ScansEnd` are its liveness.
- Update: `ImageInOrder` (what is programmed is one image, in order),
  `PagesInPlace` (in its place although the base moves), `NoDowngrade` (no older
  than what the last header in flash read, over power losses and commands given
  up between comparison and write), `AckTellsTruth` (a verified success means the
  parts are in flash; of the header it says nothing), `BootedIsWhole` (what starts
  behind boot fields that did not come out wrong is that image, whole).
- Console: `SentInOrder` for the tickets, and that the UART has a dump's own
  length when it sends one; `InstalledIsSent`; `AllSent` for the hand-over between
  the task that posts and the interrupt that stops, also between the two writes
  of a post. None of them says that a printed line leaves whole;
  `InputInOrder` and `NeverDeaf` for the ring whose window follows the reader.
- Tracker: `PairsAgree` and `NearestKept` for the pairing, `FilterHasInput` for
  the index the filter reads, `LivesOnItsHits` and `OnlyProven` for dropping and
  promotion.

### 3.2 Fairness

- Link: `WF` for the SPI interrupt, since pending interrupts are served; `WF`
  for `s2m_sync_task`, both `cs_crc_task`s and the applications' readers and
  writers: they have the same priority (`configMAX_PRIORITIES - 1`), the kernel
  slices time between them, and the polling one yields.
- CAN: `WF(can_cli_handle)`, a task of that priority. Walk: `WF(Next)`.
- Sensor: `WF` for `baseband_task` of each chip, for the hardware's interrupt
  (`BbDone`), for the track timer, for the handlers of commands already given
  and for the transfers of the link.
- Console: `WF` for the transmit interrupt and for a task that dumps, which
  polls; `SF` for a task that prints: it competes for a buffer and for the
  output pointer, each of which is free again and again, and the kernel gives
  them to waiting tasks in turn.

None is assumed of a choice of the environment: frames on the bus, packages to
write, commands, characters and messages need never come. The update has no
liveness property: its host may be gone.

## 4. Proofs

Eight modules hold theorems. They hold for every value of the constants under
the assumptions of the modules, and these are what the code fixes: sizes are
positive; the token queue of the CAN layer is at least as long as its ring
(`QueueLenAssumption`; the code has one number for both); the tracker's
thresholds and numbers are such that its 8-bit counters do not wrap
(`TrackerAssumption`); every image fits the flash (`UpdateAssumption`); a
strategy that takes turns has no more of them than there are banks
(`SensorAssumption`; `main.c:155` asserts it). None of them bounds how long the
system runs.

`CanCliProof`. `NoStrandedFrame` speaks of tokens and locks only when the task
waits; it says nothing of how they came apart. The inductive invariant is
`RingInv`: the locked slots are the frame in service plus one contiguous window
of `n` slots from the pop index to the fill index, each index read through its
lazy wrap; while a frame is in service `n` is less than the ring; and there are
at least `n` tokens, not counting the one the task holds. There is a lemma for
each outcome of each step. A full queue loses a token only when it holds
`QueueLen` of them, at least as many as there are slots, and that is why a lost
token strands nothing.

In the same module, `CanCli` implements `CanMailbox`: the window of `RingInv`,
read from the pop index, is the box, and the frame in service is the one being
served. `Stored` is needed besides: a locked slot holds a frame. Storing a frame
makes the window one longer (`Append`), popping one makes it one shorter
(`Tail`); a token that comes or goes does not show. `ImplementsMailbox` is the
safety half of `ServesMailbox`; its fairness half is left to TLC.

`CascadeWalkProof`. The inductive invariant says of each manager that it is
`Walking`: its frame is the slice `cur_frame_id` of the package, the last one
cut off at the end; the walk has handled a whole number of words not beyond it,
and `payload_done` says exactly that it has handled all. It adds that both
managers hold the same package, frame and progress, and that
`moved = payload + handled`. Neither `EndsAgree` nor `PartsInPlace` is inductive
alone: where the next frame starts and how long it is follows only from its
number and the package's size. The lemmas about `FrameCount` (its ceiling
division spans the package and no more) are stated apart.

`CascadeLinkProof`. All its theorems assume `TakingTurns`: the applications take
turns on the link, which is `LinkInTurns` of `SensorScan` and proved there; the
tick takes no task out of a callback (`link_tx_block` shows what happens
otherwise); and a FIFO holds one part. The depth is the controller's and not in
the source, but the protocol relies on it: the slave's driver fills the TX FIFO
where the master clocks a part (`CASCADE_FRAME_PART_LEN_MAX`). Lengths of parts,
frames, packages and queues and the number of packages are free. None of the
properties is inductive, for what a handler may find depends on the other chip.
The inductive invariant `IInv` says where a package can be. At most one is on
its way, and it is in one of the stages of `MTurn` (filled, claimed, its header
in the slave's FIFO, ready for a part, a part in the FIFO, all parts there, a
checksum in the FIFO, ready for the next header, that header in the FIFO, last
checksum read, indicated) or of the corresponding ones of `STurn`, or everything
has been read (`Pause`). A stage relates both sessions, the two managers at the
ends, FIFOs and threshold, the slave's buffer, the edge, and the words that have
arrived (`Arrived`). Where the master's checksum task gets between, or the slave
goes on before the master has finished with a frame, the two chips are in
different frames, and the stage says by how much (`Together`, `OneAhead`).
`CrcTasks`, `Counts` and `Requests` add what the checksum tasks can be at
meanwhile, how many checksums have been compared, and that what they compute
over exists. There is a lemma for each handler, which takes a package from one
stage to the next, and one for steps that move nothing (`StageStays`). TLC
checked `IInv` before it was proved, on the lengths of `link_turns` among
others.

From `IInv` follow `LinkTypes`, `EdgesOneByOne` and `PartsFit`, and that each
step appends a package to what is written, appends to what is read the very
words that come next, or does neither: `LinkIsChannel`, the safety half of
`ChannelsLive`. `EdgesMeanReady` needs one more assumption, `NoRestBelowPart`:
no package of the master leaves one word less than a part at the end of a frame.
With such a rest the threshold is a word too high (`cascade_if_slave.c:212`) and
the package stops; the other theorems hold all the same. Nothing in the code
rules it out: of what the application sends, the packages of fixed length have
no such rest, and a forwarded command line of some 115 characters does. The
proof adds to `IInv` only that the master has clocked whole parts of a frame it
still sends (`WholeParts`), and that its package has one of its lengths
(`MasterSize`).

`SensorScanProof`. `SensorTypes` holds however the user types. It says more than
the word type suggests: no more than `QueueLen` packages are ever indicated,
the frame type the hardware is set to is a bank there is (the reason for the
assertion in `main.c`), and a package that is sent has been filled in. The six
other theorems assume `Orderly`: a command is typed when the last scan has ended
and the slave has carried out the last command; `sensor_restart` shows what
happens otherwise. The inductive invariant `IInv` has a part for two chips and
one for a chip alone (`Alone`). On two chips one package at most is on the link,
and `Carried` says which it can be from where the two tasks are; `InStep` ties
the slave's place to the master's; `Forwarded` follows a command from the one to
the other. None of these is inductive alone, for the only order there is between
two chips is that of the packages and the edge (`Edge`). What the safety
properties add is counted: `Agreed` says that the frames left on both chips,
after the command or stop that is under way and the frame at work, are the same;
`Runs` that frames begun and frames left add up to those asked for;
`Interleaved` that a chip that has begun the next frame before the other is one
selection of the frame type ahead of it.

`FirmwareUpdateProof`. That only whole images boot follows backwards along the
update. What stands behind boot fields in flash is of their image or of none
(`OneImage`); that follows from what a program command writes over what it
erased (`Programming`, with a part for erasing, writing and verifying each), and
that from what is in RAM when the host has sent its last chunk (`Received`,
`Counted`). `Counted` carries the weight: host and loader count chunks
apart, a lost answer puts the loader one ahead, and only where both count alike
does RAM hold the beginning of the host's image. A
verification leaves the base in flash moved; a program command begins only where
a header is, pages are in place (`PagesInPlace`), and so it begins at page 0
(`BaseOfProgram`). That needs `HeadersFirst`: only page 0 ever begins with the
magic number. `NeverOlder` rests on `SaidByFlash`, the version the header in flash
reads, which `Erasing` keeps for the time when there is none. `OnlyWholeImagesBoot`
says nothing of a header whose boot fields came out wrong, and `NeverOlder`
nothing of what was sent to flash, only of what can be read there: the code
checks neither.

`TrackerProof`. `PairsAgree` is not inductive while a displaced tracker is
between two candidates, so the lemmas about `FallBack` speak of pairs that agree
but for one tracker `lost`. `IInv` adds that indices are in reach and costs are
those of this frame (`InReach`, `Priced`), that trackers whose turn has not come
hold nothing (`NotYet`), and that idle trackers are clean (`FreeIdle`), from
which the numbers of hits and misses follow (`Lives`).

`ConsoleRxProof`. `RxInv` numbers the cells of the ring from the reader's
position: `Cell` says where a character not yet read is. The interrupt writes at
the cell of the next one (`AtWriter`), each character not read is in its cell
(`Stored`), and the reports in the queue cover those characters one after
another (`Covers`). The input is paced (section 5), and then the cells written
next hold nothing unread and the next window is free: `InputAlwaysInOrder` and
`AlwaysRoom`. A report then never exceeds a line, so none is dropped.

`ConsoleTxProof`. `TxInv` says that no two buffers in use have the same ticket
and each holds its ticket's message (`OneTicket`, `Ticketed`), that the buffer
on its way has the last ticket taken off and is either about to be installed by
one task or being sent (`Picked`, `Sending`), that all others wait for theirs
(`Waiting`), that nothing is sent while a task installs (`Quiet`), and that the
tickets taken off count what was sent (`Counted`). `WholeInv` adds the lengths: a
dump is never ready without its own (`UserWhole`), so none is sent with another
(`SendingWhole`), and a printing task that sets a length late sets that of a
buffer for lines (`LinesLocal`), whoever has it by then. `AlwaysSentInOrder` and
`InstalledIsAlwaysSent` assume `~ Preempt`. Without it `Quiet` is lost, and `console_reenter` shows what
happens. `ConsoleTypes` assumes nothing: also when the tick comes in the middle of
an install, a task in an install has a buffer of its own (`HasBuffer`) and no
buffer has a ticket that has not been given out (`NoTicketAhead`).

Only model-checked: all liveness (the fairness half of `ServesMailbox` and of
`ChannelsLive`, `WalkEnds`, `FramesEnd`, `ScansEnd`, `AllSent`), and the link
without turns (`link_eager`). Liveness under fairness, `ENABLED` and induction
over data are out of the prover's reach.

## 5. Bounds and limits of what is shown

- Two packages each way in turns are enough for everything a first package
  leaves behind to meet the next one: stale buffers, stale lengths,
  `cs_last_frame_info`, `crc_done_cnt`.
- Without turns only what `link_eager` lists is claimed. A package that lies
  unread is overwritten by the next. Under `Preempt` a session can be closed
  late, by the `cascade_process_done` of the package before (`core.c:274`).
- Known of the link and outside the passing runs, as hazards in `PROJECT.json`:
  a checksum may be computed over the frame before (`cascade_crc.c:50`; a
  mismatch is only counted, so no data is lost); a reception at the master that
  blocks on a checksum, which takes three frames, is relieved without
  `cascade_frame_reset` and never ends (`cascade_if_master.c:311`); under
  `Preempt` a package can be indicated twice (`cascade_if_master.c:272`); a frame
  with a remainder of one word less than a part leaves the RX threshold a word
  too high (`cascade_if_slave.c:212`). The lengths of the runs avoid the second
  and the fourth.
- `sensor` starts a scan only after the last one has ended, and types slowly
  enough for the slave to have carried out the last command (`Orderly`); stops
  come at any moment. `sensor_restart` drops this.
- A time limit in `sensor` expires only if what it waits for is not on its way.
- `update` has four pages of flash and sectors of two, so that an image ends
  within a sector and at its end; two faults let a page come out wrong and an
  answer be lost in one history, and three starts a power loss during an update
  and one after it.
- A header that came out wrong may start anything and may admit an older image.
  Both are in the model, no property excludes them, and the code has nothing that
  would.
- A printed line may leave cut, empty or with the rest of an earlier one
  (`console.c:518`). The model has this too, and `SentInOrder` does not deny it.
- The input of the console never fills the ring or the queue of reports, and one
  interrupt brings no more than a line (`Paced`): the code says nothing is lost
  only as long as the reader keeps up; the depth of the UART's FIFO is not in the
  source, a line is 512 characters (`cmdMAX_INPUT_SIZE`).
- `track` leaves every cost free, so it covers whatever the filter computes, and
  three trackers are enough for a chain of displacements: one takes a candidate,
  the next falls back on one that a third one has.
- Errors of SPI, GPIO, CAN and of queues at start-up are not modelled.

## 6. Not modelled, and what could follow

| what | why |
|---|---|
| DMA variant of the checksum (`cascade_dma.c`) | not compiled by default |
| test commands of the link, SPI master test | bring-up, no state of their own |
| CAN data link (`can_bus/can_dll.c`) | not linked into the sensor application |
| CAN transmit path (`can_hal.c:701`) | one buffer behind one sender at a time; its race with a second sender is a hazard without a property |
| SPI slave server | only with `SPIS_SERVER_ON`; same driver and hazards as the slave's end of the link |
| baseband hardware layer, radio control, sensor configuration | register sequences and tables; no order but their own |
| clustering, de-ambiguity, mathematics | floating-point algorithms without protocol state |
| start-up and tasks | order of creation; its races with early interrupts are hazards |
| safety monitor, trace, emulation, other drivers | polling of registers, tables of callbacks |
| kernel, processor support, C library | third-party; modelled by what the application relies on |

By lines, most of the repository is in this table: the kernel with its headers,
register maps and register sequences, tables, command parsers and floating-point
code. What has state that two actors share, or that a sequence of calls can
bring into disorder, is in the modules but for the rows that say otherwise.

What could follow: proofs about the link without turns, the CAN transmit path,
the SPI slave server over the slave's interrupt path, the link with failing SPI
calls and damaged words, dumps and hardware in the loop in `FrameControl`.
