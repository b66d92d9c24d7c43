------------------------ MODULE FirmwareUpdateProof ------------------------
(***************************************************************************)
(* Proofs about FirmwareUpdate, for every set of images, every size of     *)
(* flash and sector, and every number of faults and starts.                *)
(*                                                                         *)
(* That only whole images boot is not inductive.  It follows from what is  *)
(* in flash behind boot fields (OneImage), which follows from what a       *)
(* program command writes (Programming), which follows from what RAM holds *)
(* when the host has sent its last chunk (Counted, Received).              *)
(***************************************************************************)
EXTENDS FirmwareUpdate, TLAPS

\* the first n chunks in RAM are those of the image i
Prefix(i, n) == \A k \in 0 .. n - 1 : ram[k] = PageOf(i, k)

\* The host and the boot loader count chunks apart.  After a reset the loader is
\* at nought; after a lost answer it is one ahead, with a chunk to come.
Counted ==
    /\ image_size = last_sn
    /\ frame.cmd = "image" => frame.sn = sent /\ sent < Size(image)
    /\ frame.cmd = "program" => sent = Size(image)
    /\ sent > 0 => last_sn \in {0, sent} \/ (last_sn = sent + 1 /\ sent < Size(image))

\* Where both count alike, RAM holds the beginning of the host's image.
Received ==
    /\ last_sn = sent => Prefix(image, last_sn)
    /\ frame = NoFrame => answer = "none"
    /\ frame.cmd = "image" /\ answer = "done" => last_sn = sent + 1 /\ Prefix(image, last_sn)

\* Only page 0 ever begins with the magic number.
HeadersFirst == \A k \in DOMAIN flash : IsHeader(flash[k]) => k = 0

\* The boot fields of an image are followed by its own pages, and by none of another.
OneImage ==
    flash[0].image # NoImage =>
        \A k \in 1 .. flash[0].image.parts : flash[k].image \in {NoImage, flash[0].image}

\* What was said last is what the header in flash reads.
SaidByFlash == IsHeader(flash[0]) => flash[0].version = said

\* What is erased stays so until it is written; the new header is no older.
Erasing ==
    boot = "erase" =>
        /\ ext_flash_mem_base = 0
        /\ IsHeader(ram[0]) /\ ram[0].version >= said
        /\ \A k \in DOMAIN flash : k < part => flash[k] = Blank

\* Pages already written hold the image in RAM or came out wrong.
Writing ==
    boot = "write" =>
        /\ ext_flash_mem_base = 0
        /\ part <= image_size
        /\ part = 0 => ram[0].version >= said
        /\ \A k \in DOMAIN flash :
             /\ k < part => flash[k] \in {ram[k]} \cup Wrong(ram[k])
             /\ k \in part .. image_size - 1 => flash[k] = Blank

\* The base, like the part, stands behind the last part that matched.
Verifying ==
    boot = "verify" =>
        /\ ext_flash_mem_base = part
        /\ part \in 1 .. NewParts + 1
        /\ \A p \in 1 .. part - 1 : flash[p] = PageOf(ram[0].image, p)

\* A program command runs to its answer: meanwhile the host sends nothing.
Programming ==
    /\ boot \in {"erase", "write", "verify"} => frame.cmd = "program" /\ answer = "none"
    /\ boot \in {"write", "verify"} => image_size > 0
    /\ Erasing /\ Writing /\ Verifying

IInv ==
    /\ TypeOK /\ Counted /\ Received /\ ImageInOrder
    /\ PagesInPlace /\ HeadersFirst /\ OneImage /\ SaidByFlash
    /\ Programming /\ AckTellsTruth /\ BootedIsWhole

-----------------------------------------------------------------------------

(* Constants, pages and frames.                                            *)

\* Every image fits the flash.
LEMMA ImageFacts ==
    ASSUME NEW i \in Images
    PROVE  /\ i.version \in Nat /\ i.parts \in 1 .. Pages - 1 /\ i # NoImage
           /\ Size(i) = i.parts + 1 /\ Size(i) \in 2 .. Pages
BY UpdateAssumption DEF UpdateAssumption, Size

\* The fields of a page; the page of a header, and no other, begins with the magic
\* number.
LEMMA PageFields ==
    /\ \A i, k, v : LET c == Page(i, k, v) IN c.image = i /\ c.page = k /\ c.version = v
    /\ \A i, k : PageOf(i, k).image = i /\ PageOf(i, k).page = k
    /\ \A i : \A k \in Nat : k # 0 => PageOf(i, k).version = NoVersion
    /\ \A i : PageOf(i, 0).version = i.version
    /\ Blank.image = NoImage /\ Bad.image = NoImage
    /\ ~ IsHeader(Blank) /\ ~ IsHeader(Bad)
BY DEF Page, PageOf, Header, Blank, Bad, IsHeader

\* What is in flash or RAM is a page of some image, or of none.
LEMMA PageFacts ==
    /\ Blank \in Content
    /\ \A i \in Images : \A k \in 0 .. Pages - 1 : PageOf(i, k) \in Content
    /\ \A i \in Images \cup {NoImage} : \A v \in Nat \cup {NoVersion} : Header(i, v) \in Content
    /\ Bad \in Content
<1>1. Blank \in Content BY DEF Content
<1>2. \A i \in Images : \A k \in 0 .. Pages - 1 : PageOf(i, k) \in Content
  BY ImageFacts DEF Content, PageOf, Page
<1>3. \A i \in Images \cup {NoImage} : \A v \in Nat \cup {NoVersion} : Header(i, v) \in Content
  <2>1. 0 \in 0 .. Pages - 1 BY UpdateAssumption DEF UpdateAssumption
  <2>. QED BY <2>1 DEF Content, Header, Page
<1>4. Bad \in Content BY <1>3 DEF Bad
<1>. QED BY <1>1, <1>2, <1>3, <1>4

\* The fields of what is in flash or RAM.
LEMMA ContentFacts ==
    ASSUME NEW c \in Content
    PROVE  c.image \in Images \cup {NoImage} /\ (IsHeader(c) => c.version \in Nat)
BY PageFields DEF Content, IsHeader

\* What a page may hold that should hold a page of the image i: its own boot fields
\* or none, and the magic number only where a header belongs.
LEMMA WrittenFacts ==
    ASSUME NEW i \in Images, NEW k \in 0 .. Pages - 1,
           NEW c \in {PageOf(i, k)} \cup Wrong(PageOf(i, k))
    PROVE  /\ c \in Content /\ c.image \in {NoImage, i}
           /\ c.image # NoImage => c.page = k
           /\ IsHeader(c) => k = 0
<1>1. PageOf(i, k) \in Content /\ PageOf(i, k).image = i /\ PageOf(i, k).page = k
  BY PageFacts, PageFields
<1>2. k # 0 => ~ IsHeader(PageOf(i, k)) BY PageFields DEF IsHeader
<1>3. CASE c = PageOf(i, k) BY <1>1, <1>2, <1>3
<1>4. CASE c = Bad BY <1>4, PageFacts, PageFields
<1>5. CASE c # PageOf(i, k) /\ c # Bad
  <2>1. IsHeader(PageOf(i, k)) /\ k = 0 BY <1>2, <1>5 DEF Wrong
  <2>2. PICK j \in {i, NoImage}, v \in Misread \cup {PageOf(i, k).version, NoVersion} :
           c = Header(j, v)
    BY <1>1, <1>5, <2>1 DEF Wrong
  <2>3. v \in Nat \cup {NoVersion}
    BY <1>1, <2>1, ContentFacts, UpdateAssumption DEF UpdateAssumption
  <2>. QED BY <2>1, <2>2, <2>3, PageFacts, PageFields DEF Header
<1>. QED BY <1>3, <1>4, <1>5

\* The three commands of the host tell their fields apart.
LEMMA FrameFields ==
    /\ NoFrame.cmd = "none" /\ ResetFrame.cmd = "reset"
    /\ \A v \in BOOLEAN : ProgramFrame(v).cmd = "program" /\ ProgramFrame(v).verify = v
    /\ \A sn \in 0 .. Pages - 1, ok \in BOOLEAN :
          LET f == ImageFrame(sn, ok) IN f.cmd = "image" /\ f.sn = sn /\ f.ok = ok
BY DEF NoFrame, ResetFrame, ProgramFrame, ImageFrame

\* There are no other frames.
LEMMA FrameKinds ==
    /\ {NoFrame, ResetFrame} \subseteq Frames
    /\ \A v \in BOOLEAN : ProgramFrame(v) \in Frames
    /\ \A sn \in 0 .. Pages - 1, ok \in BOOLEAN : ImageFrame(sn, ok) \in Frames
    /\ \A f \in Frames :
          \/ f \in {NoFrame, ResetFrame}
          \/ \E v \in BOOLEAN : f = ProgramFrame(v)
          \/ \E sn \in 0 .. Pages - 1, ok \in BOOLEAN : f = ImageFrame(sn, ok)
BY DEF Frames

\* What a frame carries.
LEMMA FrameFacts ==
    ASSUME NEW f \in Frames
    PROVE  /\ f.cmd = "image" => f.sn \in 0 .. Pages - 1 /\ f.ok \in BOOLEAN
           /\ f.cmd = "program" => f.verify \in BOOLEAN /\ f = ProgramFrame(f.verify)
BY FrameFields, FrameKinds

\* A chunk, or what is left of one, moves the loader by less than a header.
LEMMA SkewFacts ==
    ASSUME skew \in 0 .. HeaderWords - 1, NEW f, LeaveChunk(f)
    PROVE  skew' \in 0 .. HeaderWords - 1
<1>1. ChunkWords \in Nat BY UpdateAssumption DEF UpdateAssumption
<1>2. \A n \in Nat : n % 3 \in 0 .. 2 OBVIOUS
<1>3. (skew + IF f.cmd = "image" THEN ChunkWords ELSE 0) \in Nat
  BY <1>1 DEF HeaderWords
<1>. QED BY <1>2, <1>3 DEF LeaveChunk, HeaderWords

-----------------------------------------------------------------------------

\* The firmware is delivered with one image in flash and nothing in RAM.
THEOREM InitIInv == Init => IInv
<1>. SUFFICES ASSUME Init PROVE IInv OBVIOUS
<1>1. PICK i \in Images :
         /\ flash = [k \in 0 .. Pages - 1 |-> IF k < Size(i) THEN PageOf(i, k) ELSE Blank]
         /\ said = i.version
  BY DEF Init
<1>2. /\ Pages \in Nat \ {0} /\ i.parts \in 1 .. Pages - 1 /\ i.version \in Nat
      /\ Size(i) = i.parts + 1 /\ Size(i) \in 2 .. Pages
  BY ImageFacts, UpdateAssumption DEF UpdateAssumption
<1>3. ASSUME NEW k \in 0 .. Pages - 1
      PROVE  flash[k] = IF k < Size(i) THEN PageOf(i, k) ELSE Blank
  BY <1>1
<1>4. TypeOK
  <2>1. flash \in [0 .. Pages - 1 -> Content] /\ ram \in [0 .. Pages - 1 -> Content]
    BY <1>1, PageFacts DEF Init, Erased
  <2>2. 0 \in 0 .. MaxFaults /\ 0 \in 0 .. MaxBoots /\ 0 \in 0 .. Pages + SectorPages
    BY UpdateAssumption DEF UpdateAssumption
  <2>3. NoFrame \in Frames BY FrameKinds
  <2>4. 0 \in 0 .. HeaderWords - 1 BY DEF HeaderWords
  <2>5. /\ image_size \in 0 .. Pages /\ last_sn \in 0 .. Pages /\ sent \in 0 .. Pages
        /\ ext_flash_mem_base \in 0 .. Pages /\ said \in Nat
    BY <1>1, <1>2 DEF Init
  <2>. QED BY <2>1, <2>2, <2>3, <2>4, <2>5 DEF Init, TypeOK
<1>5. Counted /\ Received /\ ImageInOrder
  BY <1>1, FrameFields DEF Init, Counted, Received, Prefix, ImageInOrder
<1>6. PagesInPlace /\ HeadersFirst /\ OneImage /\ SaidByFlash
  <2>1. flash[0] = PageOf(i, 0) BY <1>2, <1>3
  <2>2. \A k \in 0 .. Pages - 1 :
           /\ flash[k].image \in {NoImage, i} /\ (flash[k].image # NoImage => flash[k].page = k)
           /\ IsHeader(flash[k]) => k = 0
    BY <1>3, PageFields DEF IsHeader
  <2>3. DOMAIN flash = 0 .. Pages - 1 BY <1>1
  <2>. QED BY <1>1, <1>2, <2>1, <2>2, <2>3, PageFields DEF PagesInPlace, HeadersFirst, OneImage, SaidByFlash
<1>7. Programming /\ AckTellsTruth /\ BootedIsWhole
  BY DEF Init, Programming, Erasing, Writing, Verifying, AckTellsTruth, BootedIsWhole
<1>. QED BY <1>4, <1>5, <1>6, <1>7 DEF IInv

-----------------------------------------------------------------------------
(* What an update has in hand.                                             *)

\* A program command comes after the last chunk, so RAM holds the whole image,
\* unless the loader has been reset since.
LEMMA WholeImage ==
    ASSUME IInv, frame.cmd = "program", image_size > 0
    PROVE  /\ image_size = Size(image)
           /\ \A k \in 0 .. image.parts : ram[k] = PageOf(image, k)
           /\ ram[0].image = image /\ NewParts = image.parts
<1>1. image \in Images BY DEF IInv, TypeOK
<1>2. image.parts \in Nat /\ Size(image) = image.parts + 1 BY <1>1, ImageFacts
<1>3. image_size = Size(image) /\ last_sn = sent BY <1>2 DEF IInv, Counted
<1>4. \A k \in 0 .. image.parts : ram[k] = PageOf(image, k)
  BY <1>2, <1>3 DEF IInv, Counted, Received, Prefix
<1>. QED BY <1>2, <1>3, <1>4, PageFields DEF NewParts

\* An image is programmed where the header of an image is, which is page 0.
LEMMA BaseOfProgram ==
    ASSUME IInv, MayReplace(InFlash(ext_flash_mem_base), ram[0])
    PROVE  /\ ext_flash_mem_base = 0
           /\ IsHeader(ram[0]) /\ ram[0].version >= said
<1>1. ext_flash_mem_base \in Nat /\ DOMAIN flash = 0 .. Pages - 1 /\ Pages \in Nat
  BY UpdateAssumption DEF IInv, TypeOK, UpdateAssumption
<1>2. ext_flash_mem_base < Pages /\ IsHeader(flash[ext_flash_mem_base])
  BY PageFields DEF MayReplace, InFlash
<1>3. ext_flash_mem_base = 0 BY <1>1, <1>2 DEF IInv, HeadersFirst
<1>4. IsHeader(ram[0]) /\ ram[0].version >= flash[0].version
  <2>1. ram[0].version \in Nat /\ flash[0].version \in Nat
    <3>1. ram[0] \in Content /\ flash[0] \in Content
      <4>1. 0 \in 0 .. Pages - 1 BY UpdateAssumption DEF UpdateAssumption
      <4>. QED BY <4>1 DEF IInv, TypeOK
    <3>2. IsHeader(ram[0]) /\ IsHeader(flash[0]) BY <1>2, <1>3 DEF MayReplace
    <3>. QED BY <3>1, <3>2, ContentFacts
  <2>. QED BY <1>2, <1>3, <2>1 DEF MayReplace, InFlash
<1>. QED BY <1>2, <1>3, <1>4 DEF IInv, SaidByFlash

\* A page is written once, at the place it has in the image.
LEMMA PageWritten ==
    ASSUME IInv, WritePage
    PROVE  /\ ext_flash_mem_base = 0 /\ part \in 0 .. Pages - 1
           /\ part <= image.parts /\ ram[part] = PageOf(image, part)
           /\ \E c \in {ram[part]} \cup Wrong(ram[part]) : Written(part, c)
<1>1. /\ ext_flash_mem_base = 0 /\ image_size > 0 /\ frame.cmd = "program"
      /\ part \in Nat /\ part < image_size /\ image_size \in 0 .. Pages /\ image \in Images
  BY DEF IInv, TypeOK, Programming, Writing, WritePage
<1>2. image.parts \in Nat /\ Size(image) = image.parts + 1 BY <1>1, ImageFacts
<1>3. part <= image.parts /\ ram[part] = PageOf(image, part) BY <1>1, <1>2, WholeImage
<1>4. \E c \in {ram[part]} \cup Wrong(ram[part]) : Written(part, c)
  <2>1. ext_flash_mem_base + part = part BY <1>1
  <2>2. \E c \in {ram[part]} \cup Wrong(ram[part]) : Written(ext_flash_mem_base + part, c)
    BY Zenon DEF WritePage
  <2>. QED BY <2>1, <2>2
<1>5. part \in 0 .. Pages - 1
  <2>1. Pages \in Nat BY UpdateAssumption DEF UpdateAssumption
  <2>. QED BY <1>1, <2>1
<1>. QED BY <1>1, <1>3, <1>4, <1>5

\* A part that matches in a verification is the part of the image in RAM.
LEMMA PartVerified ==
    ASSUME IInv, boot = "verify", PartMatches(part)
    PROVE  /\ part <= NewParts /\ NewParts = image.parts /\ image.parts \in 1 .. Pages - 1
           /\ \A p \in 1 .. part : flash[p] = PageOf(ram[0].image, p)
<1>1. /\ ext_flash_mem_base = part /\ part \in 1 .. NewParts + 1
      /\ \A p \in 1 .. part - 1 : flash[p] = PageOf(ram[0].image, p)
      /\ image_size > 0 /\ frame.cmd = "program" /\ image \in Images
  BY DEF IInv, TypeOK, Programming, Verifying
<1>2. /\ NewParts = image.parts /\ image.parts \in 1 .. Pages - 1
      /\ ram[NewParts].image = image /\ ram[0].image = image
  BY <1>1, WholeImage, ImageFacts, PageFields
<1>3. Pages \in Nat BY UpdateAssumption DEF UpdateAssumption
<1>4. part <= NewParts /\ flash[part] = PageOf(ram[0].image, part)
  BY <1>1, <1>2, <1>3 DEF PartMatches, InFlash
<1>. QED BY <1>1, <1>2, <1>3, <1>4

-----------------------------------------------------------------------------
(* The flash                                                               *)

\* Only erase and write change the flash (flash.c).
LEMMA FlashChanges ==
    Next => EraseSector \/ WritePage \/ UNCHANGED <<flash, said>>
BY DEF Next, board_main, normal_boot, AppReboots, uart_ota_comm_handshake, PowerLoss,
       RefuseFrame, uart_ota_image_handle, EcuReset, StartProgram, EraseDone, WriteDone,
       uart_ota_program_verify, HostSends, Send, HostHears, HostRestarts, memory

\* A header in flash is followed by its own pages, whichever step is taken.
LEMMA FlashSteps ==
    ASSUME IInv, Next
    PROVE  (PagesInPlace /\ HeadersFirst /\ OneImage /\ SaidByFlash)'
<1>1. /\ DOMAIN flash = 0 .. Pages - 1 /\ 0 \in DOMAIN flash /\ part \in Nat
      /\ SectorPages \in Nat \ {0} /\ Pages \in Nat
  BY UpdateAssumption DEF IInv, TypeOK, UpdateAssumption
<1>2. CASE EraseSector
  <2>1. /\ DOMAIN flash' = DOMAIN flash
        /\ \A k \in DOMAIN flash : flash'[k] \in {flash[k], Blank}
    BY <1>2 DEF EraseSector
  <2>2. flash'[0] = Blank
    <3>1. ext_flash_mem_base = 0 /\ (0 < part => flash[0] = Blank)
      BY <1>1, <1>2 DEF EraseSector, IInv, Programming, Erasing
    <3>2. flash'[0] = IF 0 \in part .. part + SectorPages - 1 THEN Blank ELSE flash[0]
      BY <1>1, <1>2, <3>1 DEF EraseSector
    <3>. QED BY <1>1, <3>1, <3>2
  <2>. QED BY <1>1, <2>1, <2>2, PageFields DEF IInv, PagesInPlace, HeadersFirst, OneImage, SaidByFlash
<1>3. CASE WritePage
  <2>1. /\ ext_flash_mem_base = 0 /\ part \in 0 .. Pages - 1
        /\ part <= image.parts /\ ram[part] = PageOf(image, part)
    BY <1>3, PageWritten
  <2>2. PICK c \in {ram[part]} \cup Wrong(ram[part]) : Written(part, c)
    BY <1>3, PageWritten
  <2>3. /\ DOMAIN flash' = DOMAIN flash /\ flash'[part] = c
        /\ \A k \in DOMAIN flash : k # part => flash'[k] = flash[k]
    BY <1>1, <2>1, <2>2 DEF Written
  <2>4. (PagesInPlace /\ HeadersFirst)'
    <3>1. (c.image # NoImage => c.page = part) /\ (IsHeader(c) => part = 0)
      BY <2>1, WrittenFacts DEF IInv, TypeOK
    <3>. QED BY <2>3, <3>1 DEF IInv, PagesInPlace, HeadersFirst
  <2>5. /\ image \in Images /\ image.parts \in 1 .. Pages - 1 /\ image.version \in Nat
        /\ image_size = image.parts + 1 /\ said \in Nat
        /\ \A k \in 0 .. image.parts : ram[k] = PageOf(image, k)
    BY <1>3, WholeImage, ImageFacts DEF IInv, TypeOK, Programming, WritePage
  <2>6. ASSUME flash'[0].image # NoImage
        PROVE  /\ flash'[0].image = image
               /\ \A k \in 1 .. image.parts : flash'[k].image \in {NoImage, image}
    <3>1. ASSUME NEW k \in 0 .. image.parts
          PROVE  flash'[k] \in {PageOf(image, k), Blank} \cup Wrong(PageOf(image, k))
      <4>1. k \in DOMAIN flash /\ k \in Nat BY <1>1, <2>5
      <4>2. flash[k] \in {ram[k], Blank} \cup Wrong(ram[k])
        BY <1>1, <1>3, <2>5, <4>1 DEF IInv, Programming, Writing, WritePage
      <4>. QED BY <2>2, <2>3, <2>5, <4>1, <4>2
    <3>2. ASSUME NEW k \in 0 .. image.parts
          PROVE  flash'[k].image \in {NoImage, image}
      <4>1. k \in 0 .. Pages - 1 BY <1>1, <2>5
      <4>. QED BY <2>5, <3>1, <4>1, WrittenFacts, PageFields
    <3>. QED BY <2>5, <2>6, <3>2
  <2>7. OneImage' BY <2>6 DEF OneImage
  <2>8. SaidByFlash'
    <3>1. CASE part = 0 BY <2>2, <2>3, <3>1 DEF SaidByFlash, Written
    <3>2. CASE part # 0
      <4>1. flash'[0] = flash[0] /\ ~ IsHeader(c)
        BY <1>1, <2>1, <2>3, <2>5, <3>2, WrittenFacts
      <4>. QED BY <2>2, <4>1 DEF IInv, SaidByFlash, Written
    <3>. QED BY <3>1, <3>2
  <2>. QED BY <2>4, <2>7, <2>8
<1>4. CASE UNCHANGED <<flash, said>>
  BY <1>4 DEF IInv, PagesInPlace, HeadersFirst, OneImage, SaidByFlash
<1>. QED BY <1>2, <1>3, <1>4, FlashChanges

-----------------------------------------------------------------------------
(* Progress of a program command                                           *)

\* Erase, write and verification are left only by their own steps or a reset.
LEMMA ProgramChanges ==
    ASSUME Programming, Next
    PROVE  \/ StartProgram \/ EraseSector \/ EraseDone \/ WritePage \/ WriteDone
           \/ uart_ota_program_verify \/ HostRestarts
           \/ boot' \notin {"erase", "write", "verify"}
BY DEF Programming, Next, board_main, normal_boot, AppReboots, uart_ota_comm_handshake, PowerLoss,
       RefuseFrame, uart_ota_image_handle, EcuReset, ChipReset, Answer,
       HostSends, Send, HostHears, chip

\* Every step of a program command keeps what is known of its progress.
LEMMA ProgrammingSteps ==
    ASSUME IInv, Next
    PROVE  Programming'
<1>1. /\ flash \in [0 .. Pages - 1 -> Content] /\ DOMAIN flash = 0 .. Pages - 1
      /\ Pages \in Nat \ {0} /\ SectorPages \in Nat \ {0}
      /\ part \in Nat /\ image_size \in 0 .. Pages
      /\ ext_flash_mem_base \in 0 .. Pages
  BY UpdateAssumption DEF IInv, TypeOK, UpdateAssumption
<1>2. CASE StartProgram
  <2>1. CASE boot' = "erase"
    <3>1. /\ MayReplace(InFlash(ext_flash_mem_base), ram[0])
          /\ part' = 0 /\ answer' = "none" /\ frame'.cmd = "program"
          /\ UNCHANGED <<flash, ram, said, ext_flash_mem_base>>
      BY <1>2, <2>1 DEF StartProgram, Arrived, Answer, memory
    <3>2. Erasing'
      BY <1>1, <3>1, BaseOfProgram DEF Erasing
    <3>. QED BY <2>1, <3>1, <3>2 DEF Programming, Writing, Verifying
  <2>2. CASE boot' = "ready"
    BY <2>2 DEF Programming, Erasing, Writing, Verifying
  <2>. QED BY <1>2, <2>1, <2>2 DEF StartProgram, Answer
<1>3. CASE EraseSector
  <2>1. /\ boot = "erase" /\ ext_flash_mem_base = 0
        /\ boot' = boot /\ part' = part + SectorPages
        /\ UNCHANGED <<ram, said, image_size, ext_flash_mem_base, frame, answer>>
    BY <1>3 DEF EraseSector, IInv, Programming, Erasing, chip, line
  <2>2. ASSUME NEW k \in DOMAIN flash', k < part'
        PROVE  flash'[k] = Blank
    <3>1. k \in 0 .. Pages - 1 /\ (k < part => flash[k] = Blank)
      BY <1>1, <1>3, <2>1, <2>2 DEF EraseSector, IInv, Programming, Erasing
    <3>2. flash'[k] = IF k \in part .. part + SectorPages - 1 THEN Blank ELSE flash[k]
      BY <1>1, <1>3, <2>1, <3>1 DEF EraseSector
    <3>. QED BY <1>1, <2>1, <2>2, <3>1, <3>2
  <2>3. Erasing'
    BY <2>1, <2>2 DEF IInv, Programming, Erasing
  <2>. QED BY <2>1, <2>3 DEF IInv, Programming, Writing, Verifying
<1>4. CASE EraseDone
  <2>1. CASE boot' = "write"
    <3>1. /\ boot = "erase" /\ part >= image_size /\ image_size > 0 /\ part' = 0
          /\ UNCHANGED <<flash, ram, said, image_size, ext_flash_mem_base, frame, answer>>
      BY <1>4, <2>1 DEF EraseDone, Answer, memory
    <3>2. Writing'
      BY <1>1, <3>1 DEF IInv, Programming, Erasing, Writing
    <3>. QED BY <2>1, <3>1, <3>2 DEF IInv, Programming, Erasing, Verifying
  <2>2. CASE boot' = "ready"
    BY <2>2 DEF Programming, Erasing, Writing, Verifying
  <2>. QED BY <1>4, <2>1, <2>2 DEF EraseDone, Answer
<1>5. CASE WritePage
  <2>1. /\ boot = "write" /\ part < image_size
        /\ boot' = boot /\ part' = part + 1
        /\ UNCHANGED <<ram, image_size, ext_flash_mem_base, frame, answer>>
    BY <1>5 DEF WritePage, chip, line
  <2>2. ext_flash_mem_base = 0 /\ part \in DOMAIN flash BY <1>1, <1>5, PageWritten
  <2>3. PICK c \in {ram[part]} \cup Wrong(ram[part]) : flash' = [flash EXCEPT ![part] = c]
    BY <1>5, PageWritten DEF Written
  <2>4. /\ DOMAIN flash' = DOMAIN flash /\ flash'[part] = c
        /\ \A k \in DOMAIN flash : k # part => flash'[k] = flash[k]
    BY <1>1, <2>2, <2>3
  <2>5. ASSUME NEW k \in DOMAIN flash'
        PROVE  /\ k < part' => flash'[k] \in {ram[k]} \cup Wrong(ram[k])
               /\ k \in part' .. image_size' - 1 => flash'[k] = Blank
    <3>1. k \in 0 .. Pages - 1 BY <1>1, <2>4
    <3>2. /\ k < part => flash[k] \in {ram[k]} \cup Wrong(ram[k])
          /\ k \in part .. image_size - 1 => flash[k] = Blank
      BY <1>1, <2>1, <3>1 DEF IInv, Programming, Writing
    <3>3. CASE k = part BY <1>1, <2>1, <2>3, <2>4, <3>3
    <3>4. CASE k # part BY <1>1, <2>1, <2>4, <3>1, <3>2, <3>4
    <3>. QED BY <3>3, <3>4
  <2>6. Writing'
    BY <1>1, <2>1, <2>2, <2>5 DEF Writing
  <2>. QED BY <2>1, <2>6 DEF IInv, Programming, Erasing, Verifying
<1>6. CASE WriteDone
  <2>1. CASE boot' = "verify"
    <3>1. /\ boot = "write" /\ part' = 1 /\ ext_flash_mem_base' = ext_flash_mem_base + 1
          /\ UNCHANGED <<flash, ram, said, image_size, frame, answer>>
      BY <1>6, <2>1 DEF WriteDone, Answer, memory
    <3>2. ext_flash_mem_base = 0 /\ NewParts \in Nat /\ NewParts' = NewParts
      <4>1. ext_flash_mem_base = 0 /\ NewParts = image.parts /\ image \in Images
        BY <3>1, WholeImage DEF IInv, TypeOK, Programming, Writing
      <4>. QED BY <3>1, <4>1, ImageFacts DEF NewParts
    <3>3. Verifying' BY <3>1, <3>2 DEF Verifying
    <3>. QED BY <2>1, <3>1, <3>3 DEF IInv, Programming, Erasing, Writing
  <2>2. CASE boot' = "ready"
    BY <2>2 DEF Programming, Erasing, Writing, Verifying
  <2>. QED BY <1>6, <2>1, <2>2 DEF WriteDone, Answer
<1>7. CASE uart_ota_program_verify
  <2>1. CASE boot' = "verify"
    <3>1. /\ boot = "verify" /\ PartMatches(part)
          /\ part' = part + 1 /\ ext_flash_mem_base' = ext_flash_mem_base + 1
          /\ UNCHANGED <<flash, ram, said, image_size, frame, answer>>
      BY <1>7, <2>1 DEF uart_ota_program_verify, Answer, memory
    <3>2. Verifying' 
      <4>1. /\ ext_flash_mem_base = part /\ part <= NewParts /\ NewParts \in Nat
            /\ \A p \in 1 .. part : flash[p] = PageOf(ram[0].image, p)
        BY <3>1, PartVerified DEF IInv, Programming, Verifying
      <4>2. NewParts' = NewParts BY <3>1 DEF NewParts
      <4>3. part \in Nat \ {0} BY <3>1, <4>1 DEF IInv, Programming, Verifying
      <4>. QED BY <3>1, <4>1, <4>2, <4>3 DEF Verifying
    <3>. QED BY <2>1, <3>1, <3>2 DEF IInv, Programming, Erasing, Writing
  <2>2. CASE boot' = "ready"
    BY <2>2 DEF Programming, Erasing, Writing, Verifying
  <2>. QED BY <1>7, <2>1, <2>2 DEF uart_ota_program_verify, Answer
<1>8. CASE HostRestarts
  <2>1. /\ UNCHANGED <<flash, ram, said, image_size, ext_flash_mem_base, part, boot,
                       frame, answer>>
    BY <1>8 DEF HostRestarts, memory, statics, chip, line
  <2>. QED BY <2>1 DEF IInv, Programming, Erasing, Writing, Verifying, NewParts
<1>9. CASE boot' \notin {"erase", "write", "verify"}
  BY <1>9 DEF Programming, Erasing, Writing, Verifying
<1>. QED BY <1>2, <1>3, <1>4, <1>5, <1>6, <1>7, <1>8, <1>9, ProgramChanges DEF IInv

-----------------------------------------------------------------------------
(* The host                                                                *)

\* Who changes the counts, the frame on the line, and its answer.
LEMMA CountChanges ==
    ASSUME Programming, Next
    PROVE  \/ ChipReset /\ UNCHANGED host
           \/ uart_ota_image_handle \/ HostSends \/ HostHears \/ HostRestarts
           \/ /\ UNCHANGED <<image_size, last_sn, frame, image, sent, ram>>
              /\ \/ answer' = answer
                 \/ frame # NoFrame /\ (answer' # "done" \/ frame.cmd = "program")
<1>. USE DEF memory, statics, line, host, Arrived, Answer
<1>1. CASE AppReboots \/ PowerLoss \/ EcuReset
  BY <1>1 DEF AppReboots, PowerLoss, EcuReset
<1>2. CASE board_main \/ normal_boot \/ uart_ota_comm_handshake \/ EraseSector \/ WritePage
  BY <1>2 DEF board_main, normal_boot, uart_ota_comm_handshake, EraseSector, WritePage
<1>3. CASE RefuseFrame
  BY <1>3 DEF RefuseFrame
<1>4. CASE StartProgram \/ EraseDone \/ WriteDone \/ uart_ota_program_verify
  <2>1. frame.cmd = "program" /\ frame # NoFrame
    BY <1>4, FrameFields
    DEF Programming, StartProgram, EraseDone, WriteDone, uart_ota_program_verify
  <2>. QED BY <1>4, <2>1 DEF StartProgram, EraseDone, WriteDone, uart_ota_program_verify
<1>. QED BY <1>1, <1>2, <1>3, <1>4 DEF Next

\* Host and boot loader keep counting chunks of the same image.
LEMMA HostSteps ==
    ASSUME IInv, Next
    PROVE  (Counted /\ Received /\ ImageInOrder)'
<1>1. /\ image \in Images /\ sent \in Nat /\ last_sn \in Nat /\ image_size = last_sn
      /\ Size(image) \in Nat \ {0} /\ frame \in Frames /\ Size(image) <= Pages /\ Pages \in Nat
      /\ ram \in [0 .. Pages - 1 -> Content]
  <2>1. Pages \in Nat /\ image \in Images
    BY UpdateAssumption DEF IInv, TypeOK, UpdateAssumption
  <2>2. Size(image) \in 2 .. Pages BY <2>1, ImageFacts
  <2>. QED BY <2>1, <2>2 DEF IInv, TypeOK, Counted
<1>2. CASE ChipReset /\ UNCHANGED host
  BY <1>1, <1>2, FrameFields
  DEF ChipReset, host, Counted, Received, Prefix, ImageInOrder
<1>3. CASE uart_ota_image_handle
  <2>1. /\ frame.cmd = "image" /\ answer = "none" /\ frame.sn = sent /\ sent < Size(image)
        /\ frame # NoFrame
        /\ UNCHANGED <<frame, image, sent>>
    BY <1>3, FrameFields DEF uart_ota_image_handle, Arrived, host, IInv, Counted
  <2>2. CASE answer' = "failed"
    <3>1. /\ UNCHANGED <<last_sn, image_size>>
          /\ \A k \in 0 .. last_sn - 1 : ram'[k] = ram[k]
      BY <1>1, <1>3, <2>1, <2>2 DEF uart_ota_image_handle, Answer
    <3>. QED BY <1>1, <2>1, <2>2, <3>1 DEF IInv, Counted, Received, Prefix, ImageInOrder
  <2>3. CASE answer' = "done"
    <3>1. /\ last_sn = sent /\ last_sn' = sent + 1 /\ image_size' = sent + 1
          /\ ram' = [ram EXCEPT ![sent] = PageOf(image, sent)]
      BY <1>1, <1>3, <2>1, <2>3 DEF uart_ota_image_handle, Answer
    <3>2. \A k \in 0 .. sent : ram'[k] = PageOf(image, k)
      BY <1>1, <2>1, <3>1 DEF IInv, Received, Prefix
    <3>. QED BY <1>1, <2>1, <2>3, <3>1, <3>2 DEF Counted, Received, Prefix, ImageInOrder
  <2>. QED BY <1>3, <2>2, <2>3 DEF uart_ota_image_handle, Answer
<1>4. CASE HostSends
  <2>1. /\ frame = NoFrame /\ answer' = "none" /\ frame' # NoFrame
        /\ UNCHANGED <<ram, last_sn, image_size, image, sent>>
    BY <1>4, FrameFields
    DEF HostSends, Send, memory, statics, host, IInv, Received, ImageFrame, ProgramFrame,
        ResetFrame, NoFrame
  <2>2. \/ frame'.cmd = "image" /\ frame'.sn = sent /\ sent < Size(image)
        \/ frame'.cmd = "program" /\ sent = Size(image)
        \/ frame'.cmd = "reset"
    BY <1>4 DEF HostSends, Send, ImageFrame, ProgramFrame, ResetFrame
  <2>. QED BY <1>1, <2>1, <2>2 DEF IInv, Counted, Received, Prefix, ImageInOrder
<1>5. CASE HostHears
  <2>1. /\ answer' = "none" /\ frame' = NoFrame
        /\ UNCHANGED <<ram, last_sn, image_size, image>>
        /\ \/ UNCHANGED sent
           \/ frame.cmd = "image" /\ answer = "done" /\ sent' = sent + 1
    BY <1>5 DEF HostHears, memory, statics
  <2>2. CASE UNCHANGED sent
    BY <1>1, <2>1, <2>2, FrameFields DEF IInv, Counted, Received, Prefix, ImageInOrder
  <2>3. CASE frame.cmd = "image" /\ answer = "done" /\ sent' = sent + 1
    BY <1>1, <2>1, <2>3, FrameFields DEF IInv, Counted, Received, Prefix, ImageInOrder
  <2>. QED BY <2>1, <2>2, <2>3
<1>6. CASE HostRestarts
  <2>1. /\ frame = NoFrame /\ sent' = 0
        /\ UNCHANGED <<ram, last_sn, image_size, frame, answer>>
    BY <1>6 DEF HostRestarts, memory, statics, line
  <2>. QED BY <1>1, <2>1, FrameFields DEF IInv, Counted, Received, Prefix, ImageInOrder
<1>7. CASE /\ UNCHANGED <<image_size, last_sn, frame, image, sent, ram>>
           /\ \/ answer' = answer
              \/ frame # NoFrame /\ (answer' # "done" \/ frame.cmd = "program")
  BY <1>7 DEF IInv, Counted, Received, Prefix, ImageInOrder
<1>. QED BY <1>2, <1>3, <1>4, <1>5, <1>6, <1>7, CountChanges DEF IInv

-----------------------------------------------------------------------------
(* What is acknowledged and what is started                                *)

\* A success is answered after the last part has matched.
LEMMA AnswerSteps ==
    ASSUME IInv, Next
    PROVE  AckTellsTruth'
<1>. SUFFICES ASSUME frame' = ProgramFrame(TRUE), answer' = "done"
              PROVE  \A p \in 1 .. NewParts' : flash'[p] = PageOf(ram'[0].image, p)
  BY DEF AckTellsTruth
<1>1. /\ frame'.cmd = "program" /\ frame'.cmd # "image" /\ frame'.verify
      /\ frame' # NoFrame
  BY FrameFields
<1>2. CASE uart_ota_program_verify
  <2>1. /\ boot = "verify" /\ PartMatches(part) /\ CountEnds(part)
        /\ UNCHANGED <<flash, ram>>
    BY <1>2 DEF uart_ota_program_verify, Answer, memory, IInv, Programming
  <2>2. \A p \in 1 .. part : flash[p] = PageOf(ram[0].image, p) BY <2>1, PartVerified
  <2>. QED BY <2>1, <2>2 DEF CountEnds, NewParts
<1>3. CASE ~ uart_ota_program_verify
  <2>1. UNCHANGED <<frame, answer, flash, ram>>
    BY <1>1, <1>3
    DEF Next, board_main, normal_boot, AppReboots, uart_ota_comm_handshake, PowerLoss,
        RefuseFrame, uart_ota_image_handle, EcuReset, ChipReset, StartProgram, EraseSector,
        EraseDone, WritePage, WriteDone, HostSends, Send, HostHears, HostRestarts, Arrived,
        Answer, memory, statics, line, IInv, Programming, Received
  <2>. QED BY <2>1 DEF IInv, AckTellsTruth, NewParts
<1>. QED BY <1>2, <1>3

\* The image started is whole, and flash does not change while it runs.
LEMMA BootSteps ==
    ASSUME IInv, Next
    PROVE  BootedIsWhole'
<1>. SUFFICES ASSUME boot' = "app", flash'[0].image # NoImage
              PROVE  /\ running' = flash'[0].image
                     /\ \A p \in 1 .. running'.parts : flash'[p] = PageOf(running', p)
  BY DEF BootedIsWhole
<1>1. CASE boot = "app"
  <2>1. UNCHANGED <<running, flash>>
    BY <1>1
    DEF Next, board_main, normal_boot, AppReboots, uart_ota_comm_handshake, PowerLoss,
        RefuseFrame, uart_ota_image_handle, EcuReset, ChipReset, StartProgram, EraseSector,
        EraseDone, WritePage, WriteDone, uart_ota_program_verify, HostSends, Send, HostHears,
        HostRestarts, Arrived, memory, chip
  <2>. QED BY <1>1, <2>1 DEF IInv, BootedIsWhole
<1>2. CASE boot # "app"
  <2>1. normal_boot
    BY <1>2
    DEF Next, board_main, AppReboots, uart_ota_comm_handshake, PowerLoss, RefuseFrame,
        uart_ota_image_handle, EcuReset, ChipReset, StartProgram, EraseSector, EraseDone,
        WritePage, WriteDone, uart_ota_program_verify, HostSends, Send, HostHears,
        HostRestarts, Answer, chip
  <2>2. /\ running' = flash[0].image /\ UNCHANGED flash
        /\ flash[0].image # NoImage /\ ChecksumsMatch(flash, flash[0].image)
    BY <2>1 DEF normal_boot, memory
  <2>3. flash[0].image \in Images
    <3>1. 0 \in 0 .. Pages - 1 BY UpdateAssumption DEF UpdateAssumption
    <3>2. flash[0] \in Content BY <3>1 DEF IInv, TypeOK
    <3>. QED BY <2>2, <3>2, ContentFacts
  <2>4. flash[0].image.parts \in Nat \ {0} BY <2>3, ImageFacts
  <2>5. flash[flash[0].image.parts].image = flash[0].image
    BY <2>2, <2>4 DEF IInv, OneImage, ChecksumsMatch
  <2>6. \A p \in 1 .. flash[0].image.parts : flash[p] = PageOf(flash[0].image, p)
    BY <2>2, <2>5 DEF ChecksumsMatch
  <2>. QED BY <2>2, <2>6
<1>. QED BY <1>1, <1>2

-----------------------------------------------------------------------------
(* Types                                                                   *)

\* Every step keeps the types.
LEMMA TypeSteps ==
    ASSUME IInv, Next
    PROVE  TypeOK'
<1>1. /\ Pages \in Nat \ {0} /\ SectorPages \in Nat \ {0}
      /\ MaxFaults \in Nat /\ MaxBoots \in Nat
  BY UpdateAssumption DEF UpdateAssumption
<1>2. TypeOK BY DEF IInv
<1>3. NoFrame \in Frames /\ 0 \in 0 .. Pages - 1 /\ 0 \in 0 .. HeaderWords - 1
  BY <1>1, FrameKinds DEF HeaderWords
<1>4. flash[0] \in Content /\ flash[0].image \in Images \cup {NoImage}
  BY <1>2, <1>3, ContentFacts DEF TypeOK
<1>5. image \in Images /\ Size(image) \in 2 .. Pages
  BY <1>2, ImageFacts DEF TypeOK
<1>6. CASE board_main
  <2>1. flash_up' \in BOOLEAN /\ boot' \in {"handshake", "stuck", "normal_boot"}
    BY <1>6 DEF board_main
  <2>2. faults' = faults \/ (faults < MaxFaults /\ faults' = faults + 1)
    BY <1>6 DEF board_main
  <2>3. faults' \in 0 .. MaxFaults BY <1>1, <1>2, <2>2 DEF TypeOK
  <2>4. UNCHANGED <<memory, statics, reboot_cause, running, line, host, boots>>
    BY <1>6 DEF board_main
  <2>. QED BY <1>2, <2>1, <2>3, <2>4 DEF TypeOK, memory, statics, line, host
<1>7. CASE normal_boot
  BY <1>2, <1>4, <1>7 DEF TypeOK, normal_boot, memory, statics, line, host, budget
<1>8. CASE uart_ota_comm_handshake
  BY <1>2, <1>8 DEF TypeOK, uart_ota_comm_handshake, memory, statics, line, host, budget
<1>9. CASE AppReboots \/ PowerLoss \/ EcuReset
  <2>1. /\ UNCHANGED <<flash, said, flash_up, image, sent, faults>>
        /\ ram' \in {ram, Erased} /\ reboot_cause' \in {"normal", "uart_ota", "can_ota"}
        /\ ChipReset
    BY <1>9 DEF AppReboots, PowerLoss, EcuReset, memory, host
  <2>2. Erased \in [0 .. Pages - 1 -> Content] BY PageFacts DEF Erased
  <2>3. boots' \in 0 .. MaxBoots BY <1>1, <1>2, <2>1 DEF TypeOK, ChipReset
  <2>. QED BY <1>1, <1>2, <1>3, <2>1, <2>2, <2>3 DEF TypeOK, ChipReset
<1>10. CASE RefuseFrame
  <2>1. skew' \in 0 .. HeaderWords - 1
    BY <1>2, <1>10, SkewFacts DEF TypeOK, RefuseFrame
  <2>. QED BY <1>1, <1>2, <1>10, <2>1 DEF TypeOK, RefuseFrame, Answer, memory, statics, host
<1>11. CASE uart_ota_image_handle
  <2>1. /\ UNCHANGED <<flash, said, ext_flash_mem_base, part, reboot_cause, flash_up, running,
                       frame, image, sent, faults, boots>>
        /\ boot' = "ready" /\ answer' \in {"done", "failed"}
    BY <1>11 DEF uart_ota_image_handle, Answer, host, budget
  <2>2. skew' \in 0 .. HeaderWords - 1
    BY <1>2, <1>11, SkewFacts DEF TypeOK, uart_ota_image_handle
  <2>3. frame.sn \in 0 .. Pages - 1 /\ image_size = last_sn
    BY <1>2, <1>11, FrameFacts DEF TypeOK, uart_ota_image_handle, Arrived, IInv, Counted
  <2>4. image_size' \in 0 .. Pages /\ last_sn' \in 0 .. Pages
    BY <1>1, <1>2, <1>11, <2>3 DEF TypeOK, uart_ota_image_handle
  <2>5. ram' \in [0 .. Pages - 1 -> Content]
    <3>1. PageOf(image, frame.sn) \in Content /\ Bad \in Content
      BY <1>5, <2>3, PageFacts
    <3>. QED BY <1>2, <1>11, <3>1 DEF TypeOK, uart_ota_image_handle
  <2>. QED BY <1>2, <2>1, <2>2, <2>4, <2>5 DEF TypeOK
<1>12. CASE StartProgram \/ EraseDone
  <2>1. /\ boot' \in {"erase", "write", "ready"} /\ answer' \in {answer, "failed"}
        /\ part' \in {part, 0}
        /\ UNCHANGED <<memory, image_size, last_sn, ext_flash_mem_base, reboot_cause, flash_up,
                       running, skew, frame, host, budget>>
    BY <1>12 DEF StartProgram, EraseDone, Answer
  <2>. QED BY <1>1, <1>2, <2>1 DEF TypeOK, memory, host, budget
<1>13. CASE EraseSector
  <2>1. flash' \in [0 .. Pages - 1 -> Content]
    BY <1>2, <1>13, PageFacts DEF TypeOK, EraseSector
  <2>2. part' \in 0 .. Pages + SectorPages
    BY <1>1, <1>2, <1>13 DEF TypeOK, EraseSector
  <2>. QED BY <1>2, <1>13, <2>1, <2>2 DEF TypeOK, EraseSector, chip, line, host, budget
<1>14. CASE WritePage
  <2>1. PICK c \in {ram[part]} \cup Wrong(ram[part]) : Written(part, c)
    BY <1>14, PageWritten
  <2>2. part \in 0 .. Pages - 1 /\ ram[part] = PageOf(image, part)
    BY <1>14, PageWritten
  <2>3. c \in Content BY <1>5, <2>1, <2>2, WrittenFacts
  <2>4. flash' \in [0 .. Pages - 1 -> Content] /\ said' \in Nat
    BY <1>2, <2>1, <2>2, <2>3, ContentFacts DEF TypeOK, Written
  <2>5. part' \in 0 .. Pages + SectorPages /\ faults' \in 0 .. MaxFaults
    BY <1>1, <1>2, <1>14, <2>2 DEF TypeOK, WritePage
  <2>. QED BY <1>2, <1>14, <2>3, <2>4, <2>5 DEF TypeOK, WritePage, chip, line, host
<1>15. CASE WriteDone
  <2>1. ext_flash_mem_base = 0 BY <1>15 DEF WriteDone, IInv, Programming, Writing
  <2>. QED BY <1>1, <1>2, <1>15, <2>1 DEF TypeOK, WriteDone, Answer, memory, host, budget
<1>16. CASE uart_ota_program_verify
  <2>1. ext_flash_mem_base' \in 0 .. Pages /\ part' \in 0 .. Pages + SectorPages
    <3>1. CASE PartMatches(part)
      <4>1. ext_flash_mem_base = part /\ part \in 1 .. Pages - 1
        BY <1>1, <1>16, <3>1, PartVerified DEF uart_ota_program_verify, IInv, Programming, Verifying
      <4>. QED BY <1>1, <1>2, <1>16, <3>1, <4>1 DEF TypeOK, uart_ota_program_verify
    <3>2. CASE ~ PartMatches(part)
      BY <1>2, <1>16, <3>2 DEF TypeOK, uart_ota_program_verify
    <3>. QED BY <3>1, <3>2
  <2>. QED BY <1>2, <1>16, <2>1 DEF TypeOK, uart_ota_program_verify, Answer, memory, host, budget
<1>17. CASE HostSends
  <2>1. frame' \in Frames
    <3>1. sent \in Nat /\ (sent < Size(image) => sent \in 0 .. Pages - 1)
      BY <1>1, <1>2, <1>5 DEF TypeOK
    <3>. QED BY <1>17, <3>1, FrameKinds DEF HostSends, Send
  <2>2. faults' \in 0 .. MaxFaults
    <3>1. faults' = faults \/ (faults < MaxFaults /\ faults' = faults + 1)
      BY <1>17 DEF HostSends, budget
    <3>. QED BY <1>1, <1>2, <3>1 DEF TypeOK
  <2>3. UNCHANGED <<memory, statics, chip, skew, answer, host, boots>>
    BY <1>17 DEF HostSends, Send, budget
  <2>. QED BY <1>2, <2>1, <2>2, <2>3 DEF TypeOK, memory, statics, chip, host
<1>18. CASE HostHears
  <2>1. sent' \in 0 .. Pages
    BY <1>1, <1>2, <1>5, <1>18 DEF TypeOK, HostHears, IInv, Counted
  <2>2. faults' \in 0 .. MaxFaults
    BY <1>1, <1>2, <1>18 DEF TypeOK, HostHears
  <2>. QED BY <1>2, <1>3, <1>18, <2>1, <2>2 DEF TypeOK, HostHears, memory, statics, chip
<1>19. CASE HostRestarts
  BY <1>1, <1>2, <1>19 DEF TypeOK, HostRestarts, memory, statics, chip, line, budget
<1>. QED
  BY <1>6, <1>7, <1>8, <1>9, <1>10, <1>11, <1>12, <1>13, <1>14, <1>15, <1>16, <1>17, <1>18,
     <1>19 DEF Next

-----------------------------------------------------------------------------
(* The theorems                                                            *)

\* The invariant holds at every moment, for every set of images, every size of
\* flash and sector, and every number of faults and starts.
THEOREM Inductive == Spec => []IInv
<1>1. IInv /\ [Next]_vars => IInv'
  <2>. SUFFICES ASSUME IInv, [Next]_vars PROVE IInv' OBVIOUS
  <2>1. CASE Next
    <3>1. (PagesInPlace /\ HeadersFirst /\ OneImage /\ SaidByFlash)' BY <2>1, FlashSteps
    <3>2. Programming' BY <2>1, ProgrammingSteps
    <3>3. (Counted /\ Received /\ ImageInOrder)' BY <2>1, HostSteps
    <3>4. AckTellsTruth' /\ BootedIsWhole' BY <2>1, AnswerSteps, BootSteps
    <3>5. TypeOK' BY <2>1, TypeSteps
    <3>. QED BY <3>1, <3>2, <3>3, <3>4, <3>5 DEF IInv
  <2>2. CASE UNCHANGED vars
    <3>. USE <2>2 DEF IInv, vars, memory, statics, chip, line, host, budget
    <3>1. TypeOK' BY DEF TypeOK
    <3>2. (Counted /\ Received /\ ImageInOrder)'
      BY DEF Counted, Received, Prefix, ImageInOrder
    <3>3. (PagesInPlace /\ HeadersFirst /\ OneImage /\ SaidByFlash)'
      BY DEF PagesInPlace, HeadersFirst, OneImage, SaidByFlash
    <3>4. (Programming /\ AckTellsTruth /\ BootedIsWhole)'
      BY DEF Programming, Erasing, Writing, Verifying, NewParts, AckTellsTruth, BootedIsWhole
    <3>. QED BY <3>1, <3>2, <3>3, <3>4
  <2>. QED BY <2>1, <2>2
<1>. QED BY InitIInv, <1>1, PTL DEF Spec

\* Whatever an update went through, every variable has its type: counts and bases
\* stay within the flash.
THEOREM UpdateTypes == Spec => []TypeOK
<1>1. IInv => TypeOK BY DEF IInv
<1>. QED BY <1>1, Inductive, PTL

\* What is programmed is one image, as some host sent it (uart_ota_image_handle).
THEOREM ImageAlwaysInOrder == Spec => []ImageInOrder
<1>1. IInv => ImageInOrder BY DEF IInv
<1>. QED BY <1>1, Inductive, PTL

\* Every page is written at its place, though the base moves with a verification
\* and is never moved back (uart_ota_program_handle).
THEOREM PagesAlwaysInPlace == Spec => []PagesInPlace
<1>1. IInv => PagesInPlace BY DEF IInv
<1>. QED BY <1>1, Inductive, PTL

\* A verified success means that every part is in flash.
THEOREM AckIsTrue == Spec => []AckTellsTruth
<1>1. IInv => AckTellsTruth BY DEF IInv
<1>. QED BY <1>1, Inductive, PTL

\* The image that normal_boot starts is whole, although the checksums it compares
\* come from the same flash as the parts: no two images' pages ever mix behind the
\* boot fields of one, wherever power failed and whichever page came out wrong.
\* Boot fields that came out wrong themselves are not checked, and not covered.
THEOREM OnlyWholeImagesBoot == Spec => []BootedIsWhole
<1>1. IInv => BootedIsWhole BY DEF IInv
<1>. QED BY <1>1, Inductive, PTL

\* No step programs an image whose version is lower than what the header that was
\* last in flash read (uart_ota_program_handle), which is all that the loader knows.
THEOREM NeverOlder == Spec => NoDowngrade
<1>1. ASSUME IInv, Next, flash'[0] \notin {flash[0], Blank}
      PROVE  ram[0].version >= said
  <2>1. 0 \in 0 .. Pages - 1 /\ DOMAIN flash = 0 .. Pages - 1
    <3>1. 0 \in 0 .. Pages - 1 BY UpdateAssumption DEF UpdateAssumption
    <3>. QED BY <1>1, <3>1 DEF IInv, TypeOK
  <2>2. CASE EraseSector
    <3>1. flash'[0] \in {flash[0], Blank} BY <2>1, <2>2 DEF EraseSector
    <3>. QED BY <1>1, <3>1
  <2>3. CASE WritePage
    <3>1. part = 0 BY <1>1, <2>1, <2>3, PageWritten DEF Written
    <3>. QED BY <1>1, <2>3, <3>1 DEF IInv, Programming, Writing, WritePage
  <2>. QED BY <1>1, <2>2, <2>3, FlashChanges
<1>2. IInv /\ [Next]_vars => [flash'[0] \notin {flash[0], Blank} => ram[0].version >= said]_vars
  BY <1>1
<1>. QED BY <1>2, Inductive, PTL DEF Spec, NoDowngrade

===========================================================================
