--------------------------- MODULE FirmwareUpdate ---------------------------
(***************************************************************************)
(* The boot loader: it checks the firmware in external flash and starts    *)
(* it, or takes a new one over the UART into RAM, chunk by chunk, and      *)
(* programs it.  Power may fail at every step, frames are garbled, answers *)
(* are lost, and a page of flash may come out wrong, a header too: nothing *)
(* checks the words of a header.                                           *)
(***************************************************************************)
EXTENDS Naturals

CONSTANTS Images,       \* firmware images, see Image
          NoImage, NoVersion,
          Misread,      \* versions that a header may read that came out wrong
          Pages,        \* size of the flash, in pages
          SectorPages,  \* pages that one erase instruction clears
          ChunkWords,   \* words of a chunk with its checksum
          MaxFaults, MaxBoots       \* bounds: faults and starts of a behaviour

\* an image has a page with its header and one page for each part that has a
\* checksum, the last of which may be short; its last page ends with the checksums
Image == [name : STRING, version : Nat, parts : Nat \ {0}, short : BOOLEAN]

ASSUME UpdateAssumption ==
    /\ \A i \in Images :
            /\ i \in [name : {i.name}, version : Nat, parts : 1 .. Pages - 1, short : BOOLEAN]
            /\ i # NoImage
    /\ NoVersion \notin Nat /\ Misread \subseteq Nat
    /\ {Pages, SectorPages, ChunkWords} \subseteq Nat \ {0}
    /\ {MaxFaults, MaxBoots} \subseteq Nat

Size(i) == i.parts + 1
HeaderWords == 3            \* UART_OTA_HEADER_LEN / 4

\* what a page of flash, or a chunk in RAM, holds.  The words of a header are read
\* apart from each other: its version, if the magic number is right, and its boot
\* fields (sizes, offsets, addresses), which are those of image
Page(i, k, v) == [image |-> i, page |-> k, version |-> v]
PageOf(i, k) == Page(i, k, IF k = 0 THEN i.version ELSE NoVersion)
Header(i, v) == Page(i, 0, v)
Bad == Header(NoImage, NoVersion)       \* nothing of it can be recognised
Blank == Page(NoImage, 1, NoVersion)
Erased == [k \in 0 .. Pages - 1 |-> Blank]
Content == [image : Images \cup {NoImage}, page : 0 .. Pages - 1,
            version : Nat \cup {NoVersion}] \cup {Blank}
IsHeader(c) == c.version # NoVersion    \* is the magic number there?

\* what a page may hold that should hold c
Wrong(c) ==
    {Bad} \cup IF ~ IsHeader(c) THEN {}
             ELSE {Header(i, v) : i \in {c.image, NoImage},
                                  v \in Misread \cup {c.version, NoVersion}} \ {c}

VARIABLES
    flash, ram,             \* pages; RAM keeps its content over a reset
    reboot_cause,           \* a register that only a loss of power clears
    flash_up,               \* did flash_init succeed?
    boot, running,          \* where the boot loader is; the image it started
    image_size, last_sn,    \* in chunks
    ext_flash_mem_base,
    part,                   \* progress of erase, write and verification
    skew,                   \* words left of what was not understood, modulo a header
    frame, answer,          \* on the line
    image, sent,            \* the host: what it sends, chunks it knows were taken
    faults, boots,
    said                    \* history: the version that the last header in flash read

memory == <<flash, ram, said>>
statics == <<image_size, last_sn, ext_flash_mem_base, part>>
chip == <<reboot_cause, flash_up, boot, running>>
line == <<skew, frame, answer>>
host == <<image, sent>>
budget == <<faults, boots>>
vars == <<memory, statics, chip, line, host, budget>>

NoFrame == [cmd |-> "none"]
ImageFrame(sn, ok) == [cmd |-> "image", sn |-> sn, ok |-> ok]
ProgramFrame(v) == [cmd |-> "program", verify |-> v]
ResetFrame == [cmd |-> "reset"]
Frames == {NoFrame, ResetFrame} \cup {ProgramFrame(v) : v \in BOOLEAN}
            \cup {ImageFrame(sn, ok) : sn \in 0 .. Pages - 1, ok \in BOOLEAN}

Answer(a) == answer' = a /\ boot' = "ready"

-----------------------------------------------------------------------------
(* Start-up: board_main                                                    *)

\* the variables of the boot loader are initialised, the line is quiet
ChipReset ==
    /\ boot' = "boot"
    /\ running' = NoImage
    /\ image_size' = 0 /\ last_sn' = 0 /\ ext_flash_mem_base' = 0 /\ part' = 0
    /\ skew' = 0 /\ frame' = NoFrame /\ answer' = "none"
    /\ boots < MaxBoots /\ boots' = boots + 1

board_main ==
    /\ boot = "boot"
    /\ \/ flash_up' = TRUE /\ UNCHANGED faults
       \/ flash_up' = FALSE /\ faults < MaxFaults /\ faults' = faults + 1
    /\ boot' = IF reboot_cause = "uart_ota" \/ ~ flash_up' THEN "handshake"
               ELSE IF reboot_cause = "can_ota" THEN "stuck"
               ELSE "normal_boot"
    /\ UNCHANGED <<memory, statics, reboot_cause, running, line, host, boots>>

\* mutant: the remainder of the last part is not checked
ChecksumsMatch_WholePartsOnly(m, i) ==
    \A p \in 1 .. i.parts - 1 : m[p] = PageOf(m[i.parts].image, p) /\ m[p].image # NoImage

\* every part of the image i in pages m has the checksum its last page lists
ChecksumsMatch(m, i) == \A p \in 1 .. i.parts : m[p] = PageOf(m[i.parts].image, p) /\ m[p].image # NoImage

\* neither the magic number nor the header's checksum is looked at.  Boot fields
\* that came out wrong lead anywhere: a size that reads nought is started with no
\* check at all.  The sizes of erased flash, all ones, fail the check or fault
normal_boot ==
    /\ boot = "normal_boot"
    /\ LET i == flash[0].image
       IN  \/ /\ i # NoImage /\ ChecksumsMatch(flash, i)
              /\ boot' = "app" /\ running' = i
           \/ /\ i # NoImage /\ ~ ChecksumsMatch(flash, i)
              /\ boot' = "handshake" /\ UNCHANGED running
           \/ /\ i = NoImage
              /\ boot' \in {"handshake", "stuck"} /\ UNCHANGED running
           \/ /\ i = NoImage /\ flash[0] # Blank
              /\ boot' = "app" /\ UNCHANGED running
    /\ UNCHANGED <<memory, statics, reboot_cause, flash_up, line, host, budget>>

\* the firmware's command uart_ota, and its CAN command can_ota
AppReboots ==
    /\ boot = "app" /\ running # NoImage
    /\ reboot_cause' \in {"uart_ota", "can_ota"}
    /\ ChipReset
    /\ UNCHANGED <<memory, flash_up, host, faults>>

uart_ota_comm_handshake ==
    /\ boot = "handshake"
    /\ boot' = "ready"
    /\ UNCHANGED <<memory, statics, reboot_cause, flash_up, running, line, host, budget>>

PowerLoss ==
    /\ ChipReset
    /\ ram' = Erased
    /\ reboot_cause' = "normal"
    /\ UNCHANGED <<flash, said, flash_up, host, faults>>

-----------------------------------------------------------------------------
(* A frame from the host: uart_ota_main                                    *)

Arrived(cmd) == boot = "ready" /\ frame.cmd = cmd /\ answer = "none" /\ skew = 0

\* what follows a header that was not understood is taken for the next header
LeaveChunk(f) == skew' = (skew + IF f.cmd = "image" THEN ChunkWords ELSE 0) % HeaderWords

\* the header is garbled, or is not where the boot loader expects it
RefuseFrame ==
    /\ boot = "ready" /\ frame # NoFrame /\ answer = "none"
    /\ \/ skew # 0 /\ UNCHANGED faults
       \/ skew = 0 /\ faults < MaxFaults /\ faults' = faults + 1
    /\ LeaveChunk(frame)
    /\ Answer("failed")
    /\ UNCHANGED <<memory, statics, reboot_cause, flash_up, running, frame, host, boots>>

\* mutant: a chunk is counted although its checksum differs
uart_ota_image_handle_CountedFirst ==
    /\ Arrived("image")
    /\ \/ frame.sn # last_sn /\ LeaveChunk(frame) /\ Answer("failed")
          /\ UNCHANGED <<ram, last_sn, image_size>>
       \/ /\ frame.sn = last_sn
          /\ ram' = [ram EXCEPT ![image_size] = IF frame.ok THEN PageOf(image, frame.sn) ELSE Bad]
          /\ last_sn' = last_sn + 1 /\ image_size' = image_size + 1
          /\ Answer(IF frame.ok THEN "done" ELSE "failed")
          /\ UNCHANGED skew
    /\ UNCHANGED <<flash, said, ext_flash_mem_base, part, reboot_cause, flash_up, running,
                   frame, host, budget>>

\* mutant: chunks are taken in any order
uart_ota_image_handle_AnyOrder ==
    /\ Arrived("image")
    /\ ram' = [ram EXCEPT ![image_size] = IF frame.ok THEN PageOf(image, frame.sn) ELSE Bad]
    /\ \/ frame.ok /\ last_sn' = last_sn + 1 /\ image_size' = image_size + 1 /\ Answer("done")
       \/ ~ frame.ok /\ Answer("failed") /\ UNCHANGED <<last_sn, image_size>>
    /\ UNCHANGED <<flash, said, ext_flash_mem_base, part, reboot_cause, flash_up, running,
                   skew, frame, host, budget>>

\* the next chunk in order is read to where the last one ended
uart_ota_image_handle ==
    /\ Arrived("image")
    /\ \/ frame.sn # last_sn /\ LeaveChunk(frame) /\ Answer("failed")
          /\ UNCHANGED <<ram, last_sn, image_size>>
       \/ /\ frame.sn = last_sn
          /\ ram' = [ram EXCEPT ![image_size] = IF frame.ok THEN PageOf(image, frame.sn) ELSE Bad]
          /\ \/ frame.ok /\ last_sn' = last_sn + 1 /\ image_size' = image_size + 1 /\ Answer("done")
             \/ ~ frame.ok /\ Answer("failed") /\ UNCHANGED <<last_sn, image_size>>
          /\ UNCHANGED skew
    /\ UNCHANGED <<flash, said, ext_flash_mem_base, part, reboot_cause, flash_up, running,
                   frame, host, budget>>

\* UART_OTA_CMD_ECU_RESET; there is no answer
EcuReset ==
    /\ Arrived("reset")
    /\ reboot_cause' = "normal"
    /\ ChipReset
    /\ UNCHANGED <<memory, flash_up, host, faults>>

-----------------------------------------------------------------------------
(* uart_ota_program_handle, and the loops of flash.c under it              *)

\* mutants: the version, or the magic number, is not compared
MayReplace_AnyVersion(old, new) == IsHeader(old) /\ IsHeader(new)
MayReplace_AnyHeader(old, new) == IsHeader(new)

\* the magic numbers agree and the version is not lower, as both headers read
MayReplace(old, new) == IsHeader(old) /\ IsHeader(new) /\ old.version <= new.version

InFlash(k) == IF k < Pages THEN flash[k] ELSE Bad

StartProgram ==
    /\ Arrived("program")
    /\ LET may == flash_up /\ MayReplace(InFlash(ext_flash_mem_base), ram[0])
       IN  \/ may /\ boot' = "erase" /\ part' = 0 /\ UNCHANGED answer
           \/ ~ may /\ Answer("failed") /\ UNCHANGED part
    /\ UNCHANGED <<memory, image_size, last_sn, ext_flash_mem_base, reboot_cause, flash_up,
                   running, skew, frame, host, budget>>

\* sector after sector, rounded up
EraseSector ==
    /\ boot = "erase"
    /\ part < image_size
    /\ flash' = [k \in DOMAIN flash |->
                    IF k \in ext_flash_mem_base + part .. ext_flash_mem_base + part + SectorPages - 1
                    THEN Blank ELSE flash[k]]
    /\ part' = part + SectorPages
    /\ UNCHANGED <<ram, said, image_size, last_sn, ext_flash_mem_base, chip, line, host, budget>>

EraseDone ==
    /\ boot = "erase"
    /\ part >= image_size
    /\ \/ image_size > 0 /\ boot' = "write" /\ part' = 0 /\ UNCHANGED answer
       \/ image_size = 0 /\ Answer("failed") /\ UNCHANGED part
    /\ UNCHANGED <<memory, image_size, last_sn, ext_flash_mem_base, reboot_cause, flash_up,
                   running, skew, frame, host, budget>>

Written(k, c) ==
    /\ flash' = [flash EXCEPT ![k] = c]
    /\ said' = IF IsHeader(c) THEN c.version ELSE said

\* a page that comes out wrong is not noticed; bits are only set by an erase
WritePage ==
    /\ boot = "write"
    /\ part < image_size
    /\ LET k == ext_flash_mem_base + part
       IN  \/ \E c \in IF InFlash(k) = Blank THEN {ram[part]} ELSE Wrong(ram[part]) :
                Written(k, c) /\ UNCHANGED faults
           \/ \E c \in Wrong(ram[part]) :
                Written(k, c) /\ faults < MaxFaults /\ faults' = faults + 1
    /\ part' = part + 1
    /\ UNCHANGED <<ram, image_size, last_sn, ext_flash_mem_base, chip, line, host, boots>>

WriteDone ==
    /\ boot = "write"
    /\ part = image_size
    /\ \/ /\ frame.verify
          /\ boot' = "verify" /\ part' = 1
          /\ ext_flash_mem_base' = ext_flash_mem_base + 1
          /\ UNCHANGED answer
       \/ ~ frame.verify /\ Answer("done") /\ UNCHANGED <<part, ext_flash_mem_base>>
    /\ UNCHANGED <<memory, image_size, last_sn, reboot_cause, flash_up, running, skew, frame,
                   host, budget>>

Listed(p) == ram[p].image # NoImage
NewParts == ram[0].image.parts

\* the part in flash has the checksum that the image in RAM lists for it
PartMatches(p) ==
    p <= NewParts /\ Listed(NewParts) /\ InFlash(ext_flash_mem_base) = PageOf(ram[NewParts].image, p)

\* does the count of what is left reach zero after this part?  A whole part is
\* subtracted also from a shorter remainder
CountEnds(p) == p = NewParts /\ ~ ram[0].image.short

\* mutant: the last part is left out
uart_ota_program_verify_OneFewer ==
    /\ boot = "verify"
    /\ \/ PartMatches(part) /\ part < NewParts - 1
          /\ ext_flash_mem_base' = ext_flash_mem_base + 1
          /\ part' = part + 1
          /\ UNCHANGED <<boot, answer>>
       \/ ~ PartMatches(part) /\ Answer("failed") /\ UNCHANGED <<ext_flash_mem_base, part>>
       \/ PartMatches(part) /\ part >= NewParts - 1 /\ Answer("done")
          /\ UNCHANGED <<ext_flash_mem_base, part>>
    /\ UNCHANGED <<memory, image_size, last_sn, reboot_cause, flash_up, running, skew, frame,
                   host, budget>>

\* one part; the base stays behind the last one that matched
uart_ota_program_verify ==
    /\ boot = "verify"
    /\ \/ PartMatches(part)
          /\ ext_flash_mem_base' = ext_flash_mem_base + 1
          /\ \/ CountEnds(part) /\ Answer("done") /\ UNCHANGED part
             \/ ~ CountEnds(part) /\ part' = part + 1 /\ UNCHANGED <<boot, answer>>
       \/ ~ PartMatches(part) /\ Answer("failed") /\ UNCHANGED <<ext_flash_mem_base, part>>
    /\ UNCHANGED <<memory, image_size, last_sn, reboot_cause, flash_up, running, skew, frame,
                   host, budget>>

-----------------------------------------------------------------------------
(* The host, which is not part of the repository: it sends the chunks of   *)
(* an image in order, each until it is acknowledged, then the command to   *)
(* program; it may give up and begin again with any image.                 *)

Send(f) ==
    /\ boot = "ready" /\ frame = NoFrame
    /\ frame' = f
    /\ UNCHANGED <<memory, statics, chip, skew, answer, host>>

HostSends ==
    \/ sent < Size(image) /\ Send(ImageFrame(sent, TRUE)) /\ UNCHANGED budget
    \/ /\ sent < Size(image) /\ Send(ImageFrame(sent, FALSE))
       /\ faults < MaxFaults /\ faults' = faults + 1 /\ UNCHANGED boots
    \/ sent = Size(image) /\ (\E v \in BOOLEAN : Send(ProgramFrame(v))) /\ UNCHANGED budget
    \/ Send(ResetFrame) /\ UNCHANGED budget

\* the answer is read, or lost and the host's patience ends
HostHears ==
    /\ answer # "none"
    /\ answer' = "none" /\ frame' = NoFrame
    /\ \/ UNCHANGED faults
          /\ sent' = IF frame.cmd = "image" /\ answer = "done" THEN sent + 1 ELSE sent
       \/ faults < MaxFaults /\ faults' = faults + 1 /\ UNCHANGED sent
    /\ UNCHANGED <<memory, statics, chip, skew, image, boots>>

HostRestarts ==
    /\ frame = NoFrame
    /\ image' \in Images /\ sent' = 0
    /\ UNCHANGED <<memory, statics, chip, line, budget>>

-----------------------------------------------------------------------------

Init ==
    /\ \E i \in Images :
         /\ flash = [k \in 0 .. Pages - 1 |-> IF k < Size(i) THEN PageOf(i, k) ELSE Blank]
         /\ said = i.version
    /\ ram = Erased
    /\ reboot_cause = "normal" /\ flash_up = FALSE /\ boot = "boot" /\ running = NoImage
    /\ image_size = 0 /\ last_sn = 0 /\ ext_flash_mem_base = 0 /\ part = 0
    /\ skew = 0 /\ frame = NoFrame /\ answer = "none"
    /\ image \in Images /\ sent = 0
    /\ faults = 0 /\ boots = 0

Next ==
    \/ board_main \/ normal_boot \/ AppReboots \/ uart_ota_comm_handshake \/ PowerLoss
    \/ RefuseFrame \/ uart_ota_image_handle \/ EcuReset \/ StartProgram
    \/ EraseSector \/ EraseDone \/ WritePage \/ WriteDone \/ uart_ota_program_verify
    \/ HostSends \/ HostHears \/ HostRestarts

Spec == Init /\ [][Next]_vars

-----------------------------------------------------------------------------

TypeOK ==
    /\ flash \in [0 .. Pages - 1 -> Content] /\ ram \in [0 .. Pages - 1 -> Content]
    /\ reboot_cause \in {"normal", "uart_ota", "can_ota"} /\ flash_up \in BOOLEAN
    /\ boot \in {"boot", "normal_boot", "app", "stuck", "handshake", "ready", "erase",
                 "write", "verify"}
    /\ running \in Images \cup {NoImage}
    /\ image_size \in 0 .. Pages /\ last_sn \in 0 .. Pages
    /\ ext_flash_mem_base \in 0 .. Pages /\ part \in 0 .. Pages + SectorPages
    /\ skew \in 0 .. HeaderWords - 1 /\ frame \in Frames
    /\ answer \in {"none", "done", "failed"}
    /\ image \in Images /\ sent \in 0 .. Pages
    /\ faults \in 0 .. MaxFaults /\ boots \in 0 .. MaxBoots /\ said \in Nat

\* What has been taken is the beginning of one image, chunk by chunk, however
\* often chunks were garbled, repeated or begun again: what is programmed is what
\* some host sent.
ImageInOrder ==
    \E i \in Images : \A k \in 0 .. image_size - 1 : ram[k] = PageOf(i, k)

\* An image is only ever programmed at the start of the firmware's flash, though
\* a verification moves the base and nothing moves it back.
PagesInPlace == \A k \in DOMAIN flash : flash[k].image # NoImage => flash[k].page = k

\* No firmware older than what flash last said it held is programmed, also not
\* when power was lost, or a command given up, between the comparison and the
\* write.  What flash says is the version its header reads: a header that came out
\* wrong may read a lower one, and then an older image is taken.
NoDowngrade ==
    [][flash'[0] \notin {flash[0], Blank} => ram[0].version >= said]_vars

\* A program command that asked for verification and succeeded has left every
\* part of the image in flash.
AckTellsTruth ==
    frame = ProgramFrame(TRUE) /\ answer = "done" =>
        \A p \in 1 .. NewParts : flash[p] = PageOf(ram[0].image, p)

\* What is started is one whole image, wherever power was lost in an update and
\* whichever part came out wrong, as long as the boot fields of the header did not:
\* with those of a header that came out wrong anything may be started.
BootedIsWhole ==
    boot = "app" /\ flash[0].image # NoImage =>
        /\ running = flash[0].image
        /\ \A p \in 1 .. running.parts : flash[p] = PageOf(running, p)

\* A verified program command fails only if flash does not hold the image: it is
\* there to "check the program operation" (uart_ota.c).
GoodImageIsAccepted ==
    frame = ProgramFrame(TRUE) /\ answer = "failed" =>
        \E p \in 0 .. NewParts : flash[p] # PageOf(ram[0].image, p)

=============================================================================
