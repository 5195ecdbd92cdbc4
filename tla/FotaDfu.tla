------------------------------- MODULE FotaDfu ------------------------------
(***************************************************************************)
(* The firmware update state machine of the bootloader, the flash it       *)
(* writes, and the resets in between (fota/src/fota_dfu.c,                 *)
(* arm/fota_flash.c, arm/fota_encryption.c, fota_jump_handler.c, main.c).  *)
(*                                                                         *)
(* Datagrams of fota_dfu_process's three types come in any order, any      *)
(* number of times.  Addresses and sizes are in bytes from the start of    *)
(* the flash.  A cell is what the flash programs at once, a double word of *)
(* 8 bytes: c is the cell at address 8 * c.  The flash behind the          *)
(* bootloader's program holds the rest of the bootloader's region, the     *)
(* application's and, from within that on (72 KB into its 80 KB in the     *)
(* boards' memory maps), the staging region.  The context is lost in a     *)
(* reset, the flash is not.  Time is not modelled: the 15 s of the         *)
(* bootloader may be over between any two datagrams.                       *)
(***************************************************************************)
EXTENDS Integers

CONSTANTS
  Images,      \* firmware images in use
  Size,        \* bytes of each
  ChunkSize,   \* ... and of the chunks it is sent in, all but the last
  ZeroCrc,     \* the images announced with a CRC of 0
  PageCells,   \* cells of a page (256)
  BootCells,   \* first cell behind the bootloader's program
  AppCell,     \* first cell of the application's region
  StagingCell, \* ... of the staging region
  FlashCells,  \* cells of the flash
  EraseWrap,   \* 2^8: num_pages of fota_flash_erase is a uint8_t
  MaxResets    \* bound: resets

VARIABLES
  flash,       \* the cells behind the bootloader's program
  state,       \* fota_dfu_context.state
  expected,    \* ... the image that was announced (a set: one, or none yet)
  next_id,     \* ... expected_datagram_id
  written,     \* ... bytes_written; current_write_addr is as far into staging
  pc,          \* "loop", or in "write": fota_flash_write of a chunk,
               \* "copy": fota_dfu_copy_staging_to_app
  chunk,       \* the chunk being written
  done,        \* cells of it, or of the copy, programmed so far
  mode,        \* "boot"; what it has jumped to: "app"; or "fault"
  resets,      \* resets so far (history)
  cut,         \* one of them during a copy (history)
  spoiled      \* an erase has taken some of an application, or an image was
               \* copied whose CRC is never computed (history)

received == <<next_id, written>>
vars == <<flash, state, expected, received, pc, chunk, done, mode, resets, cut, spoiled>>

PageBytes   == 8 * PageCells
Address     == 8 * StagingCell + written    \* current_write_addr
Room        == 8 * (FlashCells - StagingCell)
Memory      == BootCells .. FlashCells - 1
Low         == AppCell .. StagingCell - 1   \* the application's, and not staging as well

\* FOTA_ADDR_TO_PAGE counts from the application's region.
PageOf(cell) == (cell - AppCell) \div PageCells

\* The bootloader's program ends before what the erase of a session takes: were
\* it larger, every announcement would erase some of the running program.  The
\* regions are a page apart or more, so that a page read into the copy's buffer
\* is the page as its cells are when they are written.
ASSUME DfuAssumption ==
  /\ Images # {} /\ 0 \notin Images
  /\ Size \in [Images -> Nat \ {0}] /\ ChunkSize \in [Images -> 1 .. PageBytes]
  /\ ZeroCrc \subseteq Images
  /\ PageCells \in Nat \ {0} /\ EraseWrap \in Nat \ {0} /\ MaxResets \in Nat
  /\ BootCells \in Nat /\ AppCell \in Nat /\ StagingCell \in Nat /\ FlashCells \in Nat
  /\ BootCells <= AppCell /\ AppCell < StagingCell /\ StagingCell < FlashCells
  /\ BootCells <= PageOf(StagingCell) * PageCells
  /\ AppCell + PageCells <= StagingCell
  /\ \A i \in Images : Size[i] % 4 # 0 => Size[i] <= Room

Lesser(a, b) == IF a < b THEN a ELSE b

Blank == [image |-> 0, from |-> 0, count |-> 0]    \* erased
Torn  == [image |-> 0, from |-> 0, count |-> 1]    \* half programmed

\* Bytes of an image in a cell; a cell is filled up with zeros.
Content == [image : Images, from : Nat, count : 1 .. 8]

Right(i, k)  == [image |-> i, from |-> 8 * k, count |-> Lesser(8, Size[i] - 8 * k)]
Cells(i)     == {k \in 0 .. Size[i] : 8 * k < Size[i]}
Installed(i) == [c \in Memory |-> IF c - AppCell \in Cells(i) THEN Right(i, c - AppCell) ELSE Blank]
Erased       == [c \in Memory |-> Blank]

NoChunk == [image |-> 0, from |-> 0, length |-> 0]

Idle ==
  /\ state' = "IDLE" /\ expected' = {} /\ next_id' = 0 /\ written' = 0
  /\ pc' = "loop" /\ chunk' = NoChunk /\ done' = 0 /\ mode' = "boot"

\* An application that fits may have been installed with a programmer.
Init ==
  /\ flash \in {Erased} \union {Installed(i) : i \in {i \in Images : Size[i] <= Room}}
  /\ state = "IDLE" /\ expected = {} /\ next_id = 0 /\ written = 0
  /\ pc = "loop" /\ chunk = NoChunk /\ done = 0 /\ mode = "boot"
  /\ resets = 0 /\ cut = FALSE /\ spoiled = FALSE

Waiting == mode = "boot" /\ pc = "loop"
-----------------------------------------------------------------------------
(* Datagrams. *)

\* fota_flash_erase: pages of the bank, counted from the start of the flash.
CanErase(start, n) == n # 0 /\ (start + n) * PageCells <= FlashCells
Bank(start, n)     == {c \in Memory : start * PageCells <= c /\ c < (start + n) * PageCells}

PagesOf(i) == (Size[i] + PageBytes - 1) \div PageBytes

\* A new image is announced, and as many pages as it needs are erased: from the
\* page of the bank that has the number of staging's first page in the
\* application's region.  It is not the staging region that is erased.
Metadata(i) ==
  /\ Waiting
  /\ state = "IDLE"
  /\ expected' = {i} /\ next_id' = 0 /\ written' = 0
  /\ LET start == PageOf(StagingCell)
         n     == PagesOf(i) % EraseWrap
     IN \/ /\ CanErase(start, n)
           /\ flash' = [c \in Memory |-> IF c \in Bank(start, n) THEN Blank ELSE flash[c]]
           /\ state' = "RECEIVING"
           /\ spoiled' = (spoiled \/ \E c \in Low : flash'[c] # flash[c])
        \/ ~CanErase(start, n) /\ UNCHANGED <<flash, state, spoiled>>
  /\ UNCHANGED <<pc, chunk, done, mode, resets, cut>>

\* The CRC over the staging region is the one announced; it is 0 for a size that is
\* not a multiple of 4.
Verified(i) ==
  IF Size[i] % 4 # 0
  THEN i \in ZeroCrc
  ELSE i \notin ZeroCrc /\ \A k \in Cells(i) : flash[StagingCell + k] = Right(i, k)

\* Mutant: the CRC is left for the application to check.
Finish_Unverified(i) ==
  /\ pc' = "copy" /\ done' = 0
  /\ spoiled' = (spoiled \/ Size[i] % 4 # 0)
  /\ UNCHANGED mode

\* In COMPLETE: copy what has been received, if it is the image announced.  The
\* CRC is computed over what lies behind the flash as well: a fault.
Finish(i) ==
  LET outside == Size[i] % 4 = 0 /\ Size[i] > Room IN
  \/ /\ outside
     /\ mode' = "fault" /\ pc' = "loop"
     /\ UNCHANGED <<done, spoiled>>
  \/ /\ ~outside /\ Verified(i)
     /\ pc' = "copy" /\ done' = 0
     /\ spoiled' = (spoiled \/ Size[i] % 4 # 0)
     /\ UNCHANGED mode
  \/ /\ ~outside /\ ~Verified(i)
     /\ pc' = "loop"
     /\ UNCHANGED <<done, mode, spoiled>>

\* A chunk has been taken; the last one completes the image.
Received(length) ==
  /\ next_id' = next_id + 1 /\ written' = written + length
  /\ chunk' = NoChunk
  /\ \E i \in expected :
       IF written' >= Size[i]
       THEN state' = "COMPLETE" /\ Finish(i)
       ELSE pc' = "loop" /\ UNCHANGED <<state, done, mode, spoiled>>

Pieces(j)   == {p \in 0 .. Size[j] : p * ChunkSize[j] < Size[j]}
Piece(j, p) == [image  |-> j, from |-> p * ChunkSize[j],
                length |-> Lesser(ChunkSize[j], Size[j] - p * ChunkSize[j])]

\* s_validate_address: words, in the flash.
Accepts(address, length) ==
  address % 4 = 0 /\ length % 4 = 0 /\ address + length <= 8 * FlashCells

\* A chunk whose id is the next one and that is not too long.  One that the flash
\* layer refuses is not written, and reported as written.
Chunk(j, p) ==
  /\ Waiting
  /\ state = "RECEIVING" /\ p = next_id
  /\ \E i \in expected : written + Piece(j, p).length <= Size[i]
  /\ \/ /\ Accepts(Address, Piece(j, p).length)
        /\ pc' = "write" /\ chunk' = Piece(j, p) /\ done' = 0
        /\ UNCHANGED <<state, received, mode, spoiled>>
     \/ /\ ~Accepts(Address, Piece(j, p).length)
        /\ Received(Piece(j, p).length)
  /\ UNCHANGED <<flash, expected, resets, cut>>

\* A jump to a blank region ends in a fault: there is no vector to jump to.
Leave == mode' = IF flash[AppCell] = Blank THEN "fault" ELSE "app"

\* fota_verify_flash_memory asks for no more than one programmed word.
NotBlank(i) == Size[i] % 4 = 0 /\ \E k \in Cells(i) : flash[AppCell + k] # Blank

\* In JUMP: to the application, if there is any; else the bootloader stays.
Jump == \E i \in expected : IF NotBlank(i) THEN Leave ELSE UNCHANGED mode

\* A request to jump is heard only in COMPLETE: after a failed check or copy.
JumpRequest ==
  /\ Waiting
  /\ state = "COMPLETE"
  /\ state' = "JUMP" /\ Jump
  /\ UNCHANGED <<flash, expected, received, pc, chunk, done, resets, cut, spoiled>>
-----------------------------------------------------------------------------
(* The flash is programmed cell by cell, and only where it is erased: over    *)
(* anything else, and off a cell's beginning, programming fails.              *)

Target == (Address \div 8) + done

\* A failure leaves the chunk to be sent again, to the same address.
WriteCell ==
  /\ pc = "write"
  /\ 8 * done < chunk.length
  /\ \/ /\ Address % 8 = 0 /\ flash[Target] = Blank
        /\ flash' = [flash EXCEPT ![Target] =
                       [image |-> chunk.image, from |-> chunk.from + 8 * done,
                        count |-> Lesser(8, chunk.length - 8 * done)]]
        /\ done' = done + 1
        /\ UNCHANGED <<pc, chunk>>
     \/ /\ Address % 8 # 0 \/ flash[Target] # Blank
        /\ pc' = "loop" /\ chunk' = NoChunk
        /\ UNCHANGED <<flash, done>>
  /\ UNCHANGED <<state, expected, received, mode, resets, cut, spoiled>>

WriteDone ==
  /\ pc = "write"
  /\ 8 * done >= chunk.length
  /\ Received(chunk.length)
  /\ UNCHANGED <<flash, expected, resets, cut>>

\* What the copy takes: of a size that is not a multiple of 4 the full pages, as
\* the flash layer skips the rest.
Copied(i) == {k \in Cells(i) : Size[i] % 4 = 0 \/ PageBytes * ((k \div PageCells) + 1) <= Size[i]}

\* Mutant: what a failed write leaves is taken for the page.
CopyCell_Over ==
  /\ pc = "copy"
  /\ \E i \in expected : done \in Copied(i)
  /\ flash' = [flash EXCEPT ![AppCell + done] = IF @ = Blank THEN flash[StagingCell + done] ELSE @]
  /\ done' = done + 1
  /\ UNCHANGED <<state, expected, received, pc, chunk, mode, resets, cut, spoiled>>

\* Over an application the copy fails, and so it does where the staging region
\* begins.  The state stays COMPLETE.
CopyCell ==
  /\ pc = "copy"
  /\ \E i \in expected : done \in Copied(i)
  /\ \/ /\ flash[AppCell + done] = Blank
        /\ flash' = [flash EXCEPT ![AppCell + done] = flash[StagingCell + done]]
        /\ done' = done + 1
        /\ UNCHANGED pc
     \/ /\ flash[AppCell + done] # Blank
        /\ pc' = "loop"
        /\ UNCHANGED <<flash, done>>
  /\ UNCHANGED <<state, expected, received, chunk, mode, resets, cut, spoiled>>

\* Mutant: the rest of an image that is not a full page is left out.
CopyDone_Early ==
  /\ pc = "copy"
  /\ \E i \in expected : done + 1 \notin Copied(i) /\ done > 0
  /\ state' = "JUMP" /\ pc' = "loop" /\ Jump
  /\ UNCHANGED <<flash, expected, received, chunk, done, resets, cut, spoiled>>

CopyDone ==
  /\ pc = "copy"
  /\ \E i \in expected : done \notin Copied(i)
  /\ state' = "JUMP" /\ pc' = "loop" /\ Jump
  /\ UNCHANGED <<flash, expected, received, chunk, done, resets, cut, spoiled>>

Work == WriteCell \/ WriteDone \/ CopyCell \/ CopyDone
-----------------------------------------------------------------------------
\* Mutant: the time is looked at in the tick interrupt.
TimeOut_Anywhere ==
  /\ mode = "boot"
  /\ Leave
  /\ UNCHANGED <<flash, state, expected, received, pc, chunk, done, resets, cut, spoiled>>

\* Mutant: the time is up only if no request has been received.
TimeOut_Idle ==
  /\ Waiting
  /\ state = "IDLE"
  /\ Leave
  /\ UNCHANGED <<flash, state, expected, received, pc, chunk, done, resets, cut, spoiled>>

\* The time of the bootloader is up, whatever it is doing between two datagrams.
TimeOut ==
  /\ Waiting
  /\ Leave
  /\ UNCHANGED <<flash, state, expected, received, pc, chunk, done, resets, cut, spoiled>>

\* The cell being programmed: of a chunk, or of a copy.
UnderWay ==
  {c \in Memory :
     /\ flash[c] = Blank
     /\ \/ pc = "write" /\ 8 * done < chunk.length /\ 8 * c = Address + 8 * done
        \/ pc = "copy" /\ c = AppCell + done /\ \E i \in expected : done \in Copied(i)}

\* A reset, at any moment; a cell being programmed may be half programmed.
Reset ==
  /\ resets < MaxResets
  /\ resets' = resets + 1
  /\ Idle
  /\ \/ flash' = flash
     \/ \E c \in UnderWay : flash' = [flash EXCEPT ![c] = Torn]
  /\ cut' = (cut \/ pc = "copy")
  /\ UNCHANGED spoiled
-----------------------------------------------------------------------------
Next ==
  \/ \E i \in Images : Metadata(i)
  \/ \E j \in Images : \E p \in Pieces(j) : Chunk(j, p)
  \/ JumpRequest
  \/ Work
  \/ TimeOut
  \/ Reset

Safety == Init /\ [][Next]_vars

\* A write or a copy once begun goes on.  The main loop looks at the time again
\* and again, whoever keeps sending: strong fairness, as in between it may be in a
\* write.  Nobody has to send or to reset.
Spec == Safety /\ WF_vars(Work) /\ SF_vars(TimeOut)
-----------------------------------------------------------------------------
\* Type invariant, with the control states that go together.
TypeOK ==
  /\ flash \in [Memory -> Content \union {Blank, Torn}]
  /\ state \in {"IDLE", "RECEIVING", "COMPLETE", "JUMP"}
  /\ expected \subseteq Images
  /\ next_id \in Nat /\ written \in Nat /\ done \in Nat
  /\ pc \in {"loop", "write", "copy"} /\ mode \in {"boot", "app", "fault"}
  /\ chunk \in [image : Images, from : Nat, length : Nat \ {0}] \union {NoChunk}
  /\ pc # "loop" => mode = "boot"
  /\ pc = "write" => state = "RECEIVING" /\ chunk # NoChunk
  /\ pc = "copy" => state = "COMPLETE"
  /\ resets \in 0 .. MaxResets /\ cut \in BOOLEAN /\ spoiled \in BOOLEAN

\* Until an announcement erases some of an installed application, or an image
\* passes whose CRC is never computed, the application's own cells never hold two
\* images, or one in a wrong place, whatever is sent, in whatever order, over
\* however many sessions and resets.  (After such an erase they do: the copy goes
\* as far as the erase went.)
OneImage ==
  ~spoiled => \E i \in Images : \A c \in Low : flash[c] \in {Right(i, c - AppCell), Blank, Torn}

\* Then the bootloader hands over to an application that is not whole, as far as
\* these cells go, only after a reset has cut a copy short: nothing is checked
\* when the time is up.
WholeUnlessCut ==
  mode = "app" /\ ~cut /\ ~spoiled =>
    \E i \in Images : \A c \in Low : flash[c] = Installed(i)[c]

\* A copy that goes on into the application enters the image that was announced,
\* all of it, whatever earlier sessions, resets and erases have left in either
\* region, and although the copy may run into its own source.  (A copy that fails
\* may be followed by a request to jump, or by the timeout: see WholeUnlessCut.)
UpdateEntersWhole ==
  [][pc = "copy" /\ mode' = "app" =>
       \A i \in expected : \A k \in Cells(i) : flash'[AppCell + k] = Right(i, k)]_vars

\* The bootloader does not keep the board: it ends in a jump, also when an update
\* was broken off or refused.
SessionEnds == mode = "boot" ~> mode # "boot"
=============================================================================
