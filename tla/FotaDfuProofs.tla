---------------------------- MODULE FotaDfuProofs ---------------------------
(***************************************************************************)
(* What FotaDfu.cfg checks for six images, for any images, chunks and      *)
(* layout of the flash, and any number of resets.                          *)
(*                                                                         *)
(* Nothing here depends on which pages an announcement erases: if they     *)
(* hold some of an application, spoiled says so.  Otherwise the            *)
(* application's own cells hold one image or nothing, except while a copy  *)
(* is under way or after one was cut short.  To know that a copy ends at   *)
(* its first cell, at the staging region or not at all, one needs that     *)
(* cells after a blank one are blank (Prefix), and what a copy has done so *)
(* far (CopyInv).                                                          *)
(***************************************************************************)
EXTENDS FotaDfu, TLAPS

OneExpected == state # "IDLE" => \E i \in Images : expected = {i}

WriteInv == pc = "write" => Address + chunk.length <= 8 * FlashCells

Checked(i) == Size[i] % 4 = 0

\* What a copy of a checked image reads, and what it has written.
CopyInv ==
  pc = "copy" =>
    \A i \in expected :
      /\ Size[i] <= Room
      /\ ~Checked(i) => spoiled
      /\ done > 0 => done - 1 \in Cells(i)
      /\ Checked(i) =>
           \A k \in Cells(i) : /\ flash[StagingCell + k] = Right(i, k)
                               /\ k < done => flash[AppCell + k] = Right(i, k)
      /\ done > 0 /\ ~spoiled =>
           \A c \in Low : flash[c] = IF c - AppCell < done THEN Right(i, c - AppCell) ELSE Blank

Prefix == \A c, d \in Low : d < c /\ flash[c] # Blank => flash[d] # Blank

Holds(i) == \A c \in Low : flash[c] = Installed(i)[c]

Whole ==
  \/ pc = "copy" /\ done > 0
  \/ \A c \in Low : flash[c] = Blank
  \/ \E i \in Images : Holds(i)

OneOnly == \E i \in Images : \A c \in Low : flash[c] \in {Right(i, c - AppCell), Blank, Torn}

IInv ==
  /\ TypeOK
  /\ OneExpected
  /\ WriteInv
  /\ CopyInv
  /\ ~spoiled => Prefix /\ OneOnly
  /\ ~spoiled /\ ~cut => Whole
  /\ mode = "app" => flash[AppCell] # Blank
-----------------------------------------------------------------------------
(* Cells. *)

\* The constants are numbers, in this order.
LEMMA Layout ==
  /\ BootCells \in Nat /\ AppCell \in Nat /\ StagingCell \in Nat /\ FlashCells \in Nat
  /\ BootCells <= AppCell /\ AppCell < StagingCell /\ StagingCell < FlashCells
  /\ Room \in Nat /\ Room = 8 * FlashCells - 8 * StagingCell
  /\ \A i \in Images : Size[i] \in Nat /\ Size[i] > 0
  /\ \A i \in Images : Size[i] % 4 # 0 => Size[i] <= Room
BY DfuAssumption DEF Room

\* An erased, a half programmed and a written cell are told apart.
LEMMA CellsDiffer ==
  /\ Blank # Torn
  /\ \A i \in Images : \A k \in Nat : Right(i, k) # Blank /\ Right(i, k) # Torn
BY DfuAssumption DEF Blank, Torn, Right

\* The cells of an image begin with the first, without a gap.
LEMMA CellsOf ==
  ASSUME NEW i \in Images
  PROVE  /\ 0 \in Cells(i)
         /\ \A k \in Nat : k \in Cells(i) <=> 8 * k < Size[i]
         /\ Copied(i) \subseteq Cells(i)
         /\ Checked(i) => Copied(i) = Cells(i)
<1>1. Size[i] \in Nat /\ Size[i] > 0
  BY Layout
<1>2. \A k \in Nat : k \in Cells(i) <=> 8 * k < Size[i]
  BY <1>1 DEF Cells
<1> QED
  BY <1>1, <1>2 DEF Copied, Checked

\* The cells of an image that fits are in the flash, in either region; the staging
\* region is none of the application's own.
LEMMA Places ==
  /\ AppCell \in Low /\ Low \subseteq Memory
  /\ \A i \in Images : Size[i] <= Room =>
       \A k \in Cells(i) : /\ k \in Nat
                           /\ AppCell + k \in Memory
                           /\ StagingCell + k \in Memory
                           /\ StagingCell + k \notin Low
<1>1. AppCell \in Low /\ Low \subseteq Memory
  BY Layout DEF Low, Memory
<1>2. ASSUME NEW i \in Images, Size[i] <= Room, NEW k \in Cells(i)
      PROVE  /\ k \in Nat /\ AppCell + k \in Memory
             /\ StagingCell + k \in Memory /\ StagingCell + k \notin Low
  <2>1. k \in Nat /\ 8 * k < Size[i] /\ Size[i] \in Nat
    BY <1>2, Layout DEF Cells
  <2>2. 8 * k < 8 * FlashCells - 8 * StagingCell
    BY <1>2, <2>1, Layout
  <2>3. StagingCell + k < FlashCells
    BY <2>1, <2>2, Layout
  <2> QED
    BY <2>1, <2>3, Layout DEF Memory, Low
<1> QED
  BY <1>1, <1>2

\* What a cell of an image holds.
LEMMA RightType == \A i \in Images : \A k \in Cells(i) : Right(i, k) \in Content
<1> SUFFICES ASSUME NEW i \in Images, NEW k \in Cells(i) PROVE Right(i, k) \in Content
  OBVIOUS
<1>1. k \in Nat /\ 8 * k < Size[i] /\ Size[i] \in Nat
  BY Layout DEF Cells
<1>2. Lesser(8, Size[i] - 8 * k) \in 1 .. 8
  BY <1>1 DEF Lesser
<1> QED
  BY <1>1, <1>2 DEF Right, Content

\* What a memory holds.
LEMMA MemoryType ==
  /\ Erased \in [Memory -> Content \union {Blank, Torn}]
  /\ \A i \in Images : Installed(i) \in [Memory -> Content \union {Blank, Torn}]
BY RightType DEF Erased, Installed

\* Low cells by their distance from the first.
LEMMA LowCells ==
  /\ \A c \in Low : c - AppCell \in Nat /\ AppCell + (c - AppCell) = c
  /\ \A k \in Nat : AppCell + k \in Low \/ AppCell + k >= StagingCell
BY Layout DEF Low

\* A chunk is a piece of an image.
LEMMA PieceType ==
  ASSUME NEW j \in Images, NEW p \in Pieces(j)
  PROVE  Piece(j, p) \in [image : Images, from : Nat, length : Nat \ {0}]
<1>1. Size[j] \in Nat /\ ChunkSize[j] \in Nat /\ ChunkSize[j] > 0 /\ p \in Nat
  BY DfuAssumption DEF Pieces, PageBytes
<1>2. p * ChunkSize[j] \in Nat /\ p * ChunkSize[j] < Size[j]
  BY <1>1 DEF Pieces
<1>3. Lesser(ChunkSize[j], Size[j] - p * ChunkSize[j]) \in Nat \ {0}
  BY <1>1, <1>2 DEF Lesser
<1> QED
  BY <1>2, <1>3 DEF Piece

\* A real chunk is not the absence of one.
LEMMA PieceIsChunk ==
  \A q \in [image : Images, from : Nat, length : Nat \ {0}] : q # NoChunk
BY DfuAssumption DEF NoChunk
-----------------------------------------------------------------------------
(* The invariant, step by step. *)

LEMMA InitInv == Init => IInv
<1> SUFFICES ASSUME Init PROVE IInv
  OBVIOUS
<1> USE DEF Init
<1>1. flash = Erased \/ \E i \in Images : flash = Installed(i)
  OBVIOUS
<1>2. TypeOK
  <2>1. 0 \in 0 .. MaxResets
    BY DfuAssumption
  <2>2. flash \in [Memory -> Content \union {Blank, Torn}]
    BY <1>1, MemoryType
  <2> QED
    BY <2>1, <2>2 DEF TypeOK
<1>3. CASE flash = Erased
  <2>1. \A c \in Low : flash[c] = Blank
    BY <1>3, Places DEF Erased
  <2> QED
    BY <1>2, <2>1, DfuAssumption
    DEF IInv, OneExpected, WriteInv, CopyInv, Prefix, OneOnly, Whole
<1>4. CASE \E i \in Images : flash = Installed(i)
  <2>1. PICK i \in Images : flash = Installed(i)
    BY <1>4
  <2>2. \A c \in Low : flash[c] = IF c - AppCell \in Cells(i) THEN Right(i, c - AppCell) ELSE Blank
    BY <2>1, Places DEF Installed
  <2>3. Prefix
    <3> SUFFICES ASSUME NEW c \in Low, NEW d \in Low, d < c, flash[c] # Blank
                 PROVE flash[d] # Blank
      BY DEF Prefix
    <3>1. c - AppCell \in Cells(i)
      BY <2>2
    <3>2. /\ c \in Nat /\ d \in Nat /\ AppCell \in Nat /\ Size[i] \in Nat
          /\ c - AppCell \in Nat /\ d - AppCell \in Nat
      BY LowCells, Layout DEF Low
    <3>3. 8 * (c - AppCell) < Size[i]
      BY <3>1, <3>2, CellsOf
    <3>4. 8 * (d - AppCell) < Size[i]
      BY <3>2, <3>3
    <3>5. d - AppCell \in Cells(i)
      BY <3>2, <3>4, CellsOf
    <3> QED
      BY <2>2, <3>2, <3>5, CellsDiffer
  <2>4. OneOnly
    BY <2>2 DEF OneOnly
  <2>5. Whole
    BY <2>1 DEF Whole, Holds
  <2> QED
    BY <1>2, <2>3, <2>4, <2>5 DEF IInv, OneExpected, WriteInv, CopyInv
<1> QED
  BY <1>1, <1>3, <1>4

\* A step that leaves the application's own cells alone, or is recorded as one that
\* does not, keeps what is known of them.
LEMMA LowUntouched ==
  ASSUME IInv, pc # "copy", cut' = cut,
         ~spoiled' => ~spoiled /\ \A c \in Low : flash'[c] = flash[c]
  PROVE  (~spoiled => Prefix /\ OneOnly)' /\ (~spoiled /\ ~cut => Whole)'
<1>1. CASE spoiled'
  BY <1>1
<1>2. CASE ~spoiled'
  BY <1>2 DEF IInv, Prefix, OneOnly, Whole, Holds
<1> QED
  BY <1>1, <1>2

\* An announcement erases something somewhere.
LEMMA MetadataInv == ASSUME IInv, NEW i \in Images, Metadata(i) PROVE IInv'
<1> USE DEF IInv, Waiting
<1>1. /\ pc = "loop" /\ mode = "boot" /\ state = "IDLE"
      /\ expected' = {i} /\ next_id' = 0 /\ written' = 0
      /\ state' \in {"IDLE", "RECEIVING"}
      /\ UNCHANGED <<pc, chunk, done, mode, resets, cut>>
  BY DEF Metadata
<1>2. \/ /\ \E n : flash' = [c \in Memory |-> IF c \in Bank(PageOf(StagingCell), n) THEN Blank ELSE flash[c]]
         /\ spoiled' = (spoiled \/ \E c \in Low : flash'[c] # flash[c])
      \/ flash' = flash /\ spoiled' = spoiled
  BY DEF Metadata
<1>3. TypeOK'
  <2>1. flash' \in [Memory -> Content \union {Blank, Torn}]
    <3>1. CASE flash' = flash
      BY <3>1 DEF TypeOK
    <3>2. CASE \E n : flash' = [c \in Memory |-> IF c \in Bank(PageOf(StagingCell), n) THEN Blank ELSE flash[c]]
      BY <3>2 DEF TypeOK
    <3> QED
      BY <1>2, <3>1, <3>2
  <2>2. spoiled' \in BOOLEAN
    BY <1>2 DEF TypeOK
  <2> QED
    BY <1>1, <2>1, <2>2 DEF TypeOK
<1>4. OneExpected' /\ WriteInv' /\ CopyInv' /\ (mode = "app" => flash[AppCell] # Blank)'
  BY <1>1 DEF OneExpected, WriteInv, CopyInv
<1>5. ~spoiled' => ~spoiled /\ \A c \in Low : flash'[c] = flash[c]
  BY <1>2 DEF TypeOK
<1>6. (~spoiled => Prefix /\ OneOnly)' /\ (~spoiled /\ ~cut => Whole)'
  BY <1>1, <1>5, LowUntouched
<1> QED
  BY <1>3, <1>4, <1>6

\* A chunk that is taken changes no cell; the last one starts the copy of what the
\* CRC covers, if it covers anything, and only then.
LEMMA ReceivedInv ==
  ASSUME IInv, state = "RECEIVING", mode = "boot", pc # "copy",
         NEW length \in Nat, Received(length), UNCHANGED <<flash, expected, resets, cut>>
  PROVE  IInv'
<1> USE DEF IInv
<1>1. PICK i \in Images : expected = {i}
  BY DEF OneExpected
<1>2. /\ next_id' = next_id + 1 /\ written' = written + length /\ chunk' = NoChunk
      /\ IF written' >= Size[i]
         THEN state' = "COMPLETE" /\ Finish(i)
         ELSE pc' = "loop" /\ UNCHANGED <<state, done, mode, spoiled>>
  BY <1>1 DEF Received
<1>3. \/ pc' = "loop" /\ mode' \in {"boot", "fault"} /\ done' = done /\ spoiled' = spoiled
      \/ /\ state' = "COMPLETE" /\ pc' = "copy" /\ mode' = "boot" /\ done' = 0
         /\ spoiled' = (spoiled \/ Size[i] % 4 # 0)
         /\ ~(Size[i] % 4 = 0 /\ Size[i] > Room)
         /\ Verified(i)
  BY <1>2 DEF Finish
<1>4. TypeOK'
  <2>1. next_id' \in Nat /\ written' \in Nat /\ done' \in Nat
    BY <1>2, <1>3 DEF TypeOK
  <2>2. state' \in {"RECEIVING", "COMPLETE"} /\ pc' \in {"loop", "copy"}
    BY <1>2, <1>3
  <2>3. spoiled' \in BOOLEAN
    BY <1>3 DEF TypeOK
  <2> QED
    BY <1>2, <1>3, <2>1, <2>2, <2>3 DEF TypeOK
<1>5. OneExpected' /\ WriteInv' /\ (mode = "app" => flash[AppCell] # Blank)'
  BY <1>1, <1>3 DEF OneExpected, WriteInv
<1>6. CopyInv'
  <2> SUFFICES ASSUME pc' = "copy" PROVE CopyInv'
    BY DEF CopyInv
  <2>1. /\ done' = 0 /\ ~(Size[i] % 4 = 0 /\ Size[i] > Room) /\ Verified(i)
        /\ spoiled' = (spoiled \/ Size[i] % 4 # 0)
    BY <1>3
  <2>2. Size[i] \in Nat /\ Room \in Nat /\ (Size[i] % 4 # 0 => Size[i] <= Room)
    BY Layout
  <2>3. Size[i] <= Room
    BY <2>1, <2>2
  <2>4. ~Checked(i) => spoiled'
    BY <2>1 DEF Checked
  <2>5. Checked(i) => \A k \in Cells(i) : flash'[StagingCell + k] = Right(i, k)
    BY <2>1 DEF Verified, Checked
  <2>6. \A k \in Cells(i) : ~(k < done')
    BY <2>1 DEF Cells
  <2> QED
    BY <1>1, <2>1, <2>3, <2>4, <2>5, <2>6 DEF CopyInv
<1>7. (~spoiled => Prefix /\ OneOnly)' /\ (~spoiled /\ ~cut => Whole)'
  BY <1>3, LowUntouched DEF TypeOK
<1> QED
  BY <1>4, <1>5, <1>6, <1>7

\* A chunk is about to be written within the flash, or passes unwritten.
LEMMA ChunkInv ==
  ASSUME IInv, NEW j \in Images, NEW p \in Pieces(j), Chunk(j, p)
  PROVE  IInv'
<1> USE DEF IInv
<1>1. /\ pc = "loop" /\ mode = "boot" /\ state = "RECEIVING"
      /\ UNCHANGED <<flash, expected, resets, cut>>
  BY DEF Chunk, Waiting
<1>2. Piece(j, p) \in [image : Images, from : Nat, length : Nat \ {0}]
  BY PieceType
<1>3. CASE Accepts(Address, Piece(j, p).length)
  <2>1. /\ pc' = "write" /\ chunk' = Piece(j, p) /\ done' = 0
        /\ UNCHANGED <<state, next_id, written, mode, spoiled>>
    BY <1>3 DEF Chunk, received
  <2>2. TypeOK'
    BY <1>1, <1>2, <2>1, PieceIsChunk DEF TypeOK
  <2>3. WriteInv'
    BY <1>3, <2>1 DEF WriteInv, Accepts, Address
  <2>4. OneExpected' /\ CopyInv' /\ (mode = "app" => flash[AppCell] # Blank)'
    BY <1>1, <2>1 DEF OneExpected, CopyInv
  <2>5. (~spoiled => Prefix /\ OneOnly)' /\ (~spoiled /\ ~cut => Whole)'
    BY <1>1, <2>1, LowUntouched
  <2> QED
    BY <2>2, <2>3, <2>4, <2>5
<1>4. CASE ~Accepts(Address, Piece(j, p).length)
  <2>1. Received(Piece(j, p).length)
    BY <1>4 DEF Chunk
  <2> QED
    BY <1>1, <1>2, <2>1, ReceivedInv
<1> QED
  BY <1>3, <1>4

LEMMA WriteDoneInv == ASSUME IInv, WriteDone PROVE IInv'
<1>1. /\ pc = "write" /\ state = "RECEIVING" /\ mode = "boot"
      /\ chunk.length \in Nat
      /\ Received(chunk.length)
      /\ UNCHANGED <<flash, expected, resets, cut>>
  BY DEF WriteDone, IInv, TypeOK
<1> QED
  BY <1>1, ReceivedInv

\* A cell of a chunk is one of the staging region.
LEMMA WriteTarget ==
  ASSUME IInv, pc = "write", 8 * done < chunk.length, Address % 8 = 0
  PROVE  Target \in Memory /\ Target >= StagingCell /\ Target \notin Low
<1>1. /\ Address \in Nat /\ Address >= 8 * StagingCell
      /\ done \in Nat /\ chunk.length \in Nat
      /\ Address + chunk.length <= 8 * FlashCells
  BY Layout DEF IInv, TypeOK, WriteInv, Address
<1>2. PICK q \in Nat : Address = 8 * q
  BY <1>1
<1>3. Target = q + done
  BY <1>1, <1>2 DEF Target
<1>4. Target >= StagingCell /\ Target < FlashCells
  BY <1>1, <1>2, <1>3, Layout
<1> QED
  BY <1>1, <1>3, <1>4, Layout DEF Memory, Low

LEMMA WriteCellInv == ASSUME IInv, WriteCell PROVE IInv'
<1> USE DEF IInv
<1>1. /\ pc = "write" /\ 8 * done < chunk.length
      /\ UNCHANGED <<state, expected, next_id, written, mode, resets, cut, spoiled>>
  BY DEF WriteCell, received
<1>2. /\ mode = "boot" /\ state = "RECEIVING" /\ done \in Nat
      /\ chunk \in [image : Images, from : Nat, length : Nat \ {0}]
  BY <1>1 DEF TypeOK
<1>3. CASE Address % 8 = 0 /\ flash[Target] = Blank
  <2>1. /\ flash' = [flash EXCEPT ![Target] =
                       [image |-> chunk.image, from |-> chunk.from + 8 * done,
                        count |-> Lesser(8, chunk.length - 8 * done)]]
        /\ done' = done + 1
        /\ UNCHANGED <<pc, chunk>>
    BY <1>3 DEF WriteCell
  <2>2. Target \in Memory /\ Target \notin Low
    BY <1>1, <1>3, WriteTarget
  <2>3. TypeOK'
    <3>1. Lesser(8, chunk.length - 8 * done) \in 1 .. 8
      BY <1>1, <1>2 DEF Lesser
    <3>2. [image |-> chunk.image, from |-> chunk.from + 8 * done,
           count |-> Lesser(8, chunk.length - 8 * done)] \in Content
      BY <1>2, <3>1 DEF Content
    <3>3. flash' \in [Memory -> Content \union {Blank, Torn}]
      BY <2>1, <3>2 DEF TypeOK
    <3> QED
      BY <1>1, <1>2, <2>1, <3>3 DEF TypeOK
  <2>4. WriteInv'
    BY <1>1, <2>1 DEF WriteInv, Address
  <2>5. OneExpected' /\ CopyInv' /\ (mode = "app" => flash[AppCell] # Blank)'
    BY <1>1, <1>2, <2>1 DEF OneExpected, CopyInv
  <2>6. \A c \in Low : flash'[c] = flash[c]
    BY <2>1, <2>2, Places DEF TypeOK
  <2>7. (~spoiled => Prefix /\ OneOnly)' /\ (~spoiled /\ ~cut => Whole)'
    BY <1>1, <2>6, LowUntouched
  <2> QED
    BY <2>3, <2>4, <2>5, <2>7
<1>4. CASE ~(Address % 8 = 0 /\ flash[Target] = Blank)
  <2>1. pc' = "loop" /\ chunk' = NoChunk /\ UNCHANGED <<flash, done>>
    BY <1>4 DEF WriteCell
  <2>2. TypeOK' /\ WriteInv' /\ OneExpected' /\ CopyInv'
    BY <1>1, <1>2, <2>1 DEF TypeOK, WriteInv, OneExpected, CopyInv
  <2>3. (mode = "app" => flash[AppCell] # Blank)'
    BY <1>1, <2>1
  <2>4. (~spoiled => Prefix /\ OneOnly)' /\ (~spoiled /\ ~cut => Whole)'
    BY <1>1, <2>1, LowUntouched
  <2> QED
    BY <2>2, <2>3, <2>4
<1> QED
  BY <1>3, <1>4

\* The bootloader leaves for an application only if there is a first cell of it.
LEMMA LeaveMode ==
  Leave => mode' \in {"app", "fault"} /\ (mode' = "app" => flash[AppCell] # Blank)
BY DEF Leave

LEMMA JumpRequestInv == ASSUME IInv, JumpRequest PROVE IInv'
<1> USE DEF IInv, JumpRequest, Waiting, received
<1>1. mode' = mode \/ Leave
  BY DEF Jump
<1>2. TypeOK'
  BY <1>1, LeaveMode DEF TypeOK
<1>3. OneExpected' /\ WriteInv' /\ CopyInv'
  BY DEF OneExpected, WriteInv, CopyInv
<1>4. (~spoiled => Prefix /\ OneOnly)' /\ (~spoiled /\ ~cut => Whole)'
  BY LowUntouched
<1>5. (mode = "app" => flash[AppCell] # Blank)'
  BY <1>1, LeaveMode
<1> QED
  BY <1>2, <1>3, <1>4, <1>5

LEMMA TimeOutInv == ASSUME IInv, TimeOut PROVE IInv'
<1> USE DEF IInv, TimeOut, Waiting, received
<1>1. Leave
  OBVIOUS
<1>2. TypeOK'
  BY <1>1, LeaveMode DEF TypeOK
<1>3. OneExpected' /\ WriteInv' /\ CopyInv'
  BY DEF OneExpected, WriteInv, CopyInv
<1>4. (~spoiled => Prefix /\ OneOnly)' /\ (~spoiled /\ ~cut => Whole)'
  BY LowUntouched
<1>5. (mode = "app" => flash[AppCell] # Blank)'
  BY <1>1, LeaveMode
<1> QED
  BY <1>2, <1>3, <1>4, <1>5

\* A checked image meets its own copy in staging, which is not blank: a cell that
\* can be programmed is one of the application's own, and the memory holds the
\* cells before it, and no more.
LEMMA AboutToCopy ==
  ASSUME IInv, pc = "copy", NEW i \in Images, expected = {i}, Checked(i),
         done \in Cells(i), flash[AppCell + done] = Blank
  PROVE  /\ AppCell + done \in Low
         /\ ~spoiled =>
              \A c \in Low : flash[c] = IF c - AppCell < done THEN Right(i, c - AppCell) ELSE Blank
<1> USE DEF IInv
<1>1. /\ done \in Nat /\ AppCell \in Nat /\ StagingCell \in Nat /\ AppCell < StagingCell
      /\ Size[i] \in Nat /\ 8 * done < Size[i]
  BY Layout, CellsOf DEF TypeOK
<1>2. AppCell + done \in Low
  <2> SUFFICES ASSUME AppCell + done >= StagingCell PROVE FALSE
    BY <1>1, LowCells
  <2> DEFINE k == AppCell + done - StagingCell
  <2>1. k \in Nat /\ StagingCell + k = AppCell + done /\ 8 * k < Size[i]
    BY <1>1
  <2>2. k \in Cells(i)
    BY <2>1, CellsOf
  <2>3. flash[StagingCell + k] = Right(i, k)
    BY <2>2 DEF CopyInv
  <2>4. Right(i, k) # Blank
    BY <2>1, CellsDiffer
  <2> HIDE DEF k
  <2> QED
    BY <2>1, <2>3, <2>4
<1>3. ASSUME ~spoiled, done = 0, NEW c \in Low PROVE flash[c] = Blank
  <2>1. AppCell \in Low /\ flash[AppCell] = Blank
    BY <1>1, <1>3, Places
  <2>2. c = AppCell \/ AppCell < c
    BY <1>1 DEF Low
  <2> QED
    BY <1>3, <2>1, <2>2 DEF Prefix
<1>4. CASE done > 0
  BY <1>2, <1>4 DEF CopyInv
<1>5. CASE done = 0
  BY <1>2, <1>3, <1>5, LowCells
<1> QED
  BY <1>1, <1>2, <1>4, <1>5

\* A cell of a checked image is copied.
LEMMA CopyChecked ==
  ASSUME IInv, CopyCell, NEW i \in Images, expected = {i}, Checked(i),
         flash[AppCell + done] = Blank
  PROVE  CopyInv' /\ (~spoiled => Prefix /\ OneOnly)'
<1> USE DEF IInv
<1>1. /\ pc = "copy" /\ done \in Cells(i) /\ done \in Nat
      /\ flash' = [flash EXCEPT ![AppCell + done] = flash[StagingCell + done]]
      /\ done' = done + 1
      /\ UNCHANGED <<expected, pc, spoiled>>
  BY CellsOf DEF CopyCell, TypeOK
<1>2. /\ AppCell + done \in Low
      /\ ~spoiled =>
           \A c \in Low : flash[c] = IF c - AppCell < done THEN Right(i, c - AppCell) ELSE Blank
  BY <1>1, AboutToCopy
<1>3. Size[i] <= Room /\ AppCell \in Nat /\ flash[StagingCell + done] = Right(i, done)
  BY <1>1, Layout DEF CopyInv
<1>4. flash'[AppCell + done] = Right(i, done)
  BY <1>1, <1>2, <1>3, Places DEF TypeOK
<1>5. \A c \in Memory : c # AppCell + done => flash'[c] = flash[c]
  BY <1>1 DEF TypeOK
<1>6. ASSUME NEW k \in Cells(i)
      PROVE  /\ flash'[StagingCell + k] = Right(i, k)
             /\ k < done' => flash'[AppCell + k] = Right(i, k)
  <2>1. k \in Nat /\ AppCell + k \in Memory /\ StagingCell + k \in Memory /\ StagingCell + k \notin Low
    BY <1>3, <1>6, Places
  <2>2. /\ flash[StagingCell + k] = Right(i, k)
        /\ k < done => flash[AppCell + k] = Right(i, k)
    BY <1>1, <1>6 DEF CopyInv
  <2>3. flash'[StagingCell + k] = Right(i, k)
    BY <1>2, <1>5, <2>1, <2>2
  <2>4. CASE k = done
    BY <1>4, <2>3, <2>4
  <2>5. CASE k # done
    <3>1. flash'[AppCell + k] = flash[AppCell + k]
      BY <1>1, <1>3, <1>5, <2>1, <2>5
    <3>2. k < done' => k < done
      BY <1>1, <2>1, <2>5
    <3> QED
      BY <2>2, <2>3, <3>1, <3>2
  <2> QED
    BY <2>4, <2>5
<1>7. ASSUME ~spoiled, NEW c \in Low
      PROVE  flash'[c] = IF c - AppCell < done' THEN Right(i, c - AppCell) ELSE Blank
  <2>1. c \in Memory /\ c \in Nat /\ c - AppCell \in Nat
    BY <1>7, Layout, LowCells, Places DEF Low
  <2>2. CASE c = AppCell + done
    <3>1. c - AppCell = done /\ done < done'
      BY <1>1, <1>3, <2>2
    <3> QED
      BY <1>4, <2>2, <3>1
  <2>3. CASE c # AppCell + done
    <3>1. flash'[c] = flash[c]
      BY <1>5, <2>1, <2>3
    <3>2. c - AppCell < done' <=> c - AppCell < done
      BY <1>1, <1>3, <2>1, <2>3
    <3> QED
      BY <1>2, <1>7, <3>1, <3>2
  <2> QED
    BY <2>2, <2>3
<1>8. CopyInv'
  <2>1. done' - 1 = done
    BY <1>1
  <2> QED
    BY <1>1, <1>3, <1>6, <1>7, <2>1 DEF CopyInv
<1>9. ASSUME ~spoiled PROVE Prefix' /\ OneOnly'
  <2>1. ASSUME NEW c \in Low, NEW d \in Low, d < c, flash'[c] # Blank PROVE flash'[d] # Blank
    <3>1. c - AppCell < done'
      BY <1>7, <1>9, <2>1
    <3>2. /\ c \in Nat /\ d \in Nat /\ d - AppCell \in Nat /\ done' \in Nat
          /\ d - AppCell < done'
      BY <1>1, <2>1, <3>1, Layout, LowCells DEF Low
    <3> QED
      BY <1>7, <1>9, <2>1, <3>2, CellsDiffer
  <2>2. Prefix'
    BY <2>1 DEF Prefix
  <2>3. OneOnly'
    BY <1>7, <1>9 DEF OneOnly
  <2> QED
    BY <2>2, <2>3
<1> QED
  BY <1>1, <1>8, <1>9

\* The copy goes on, or ends: where it began, or where staging begins.
LEMMA CopyCellInv == ASSUME IInv, CopyCell PROVE IInv'
<1> USE DEF IInv
<1>1. /\ pc = "copy" /\ mode = "boot" /\ state = "COMPLETE" /\ done \in Nat
      /\ UNCHANGED <<state, expected, next_id, written, chunk, mode, resets, cut, spoiled>>
  BY DEF CopyCell, TypeOK, received
<1>2. PICK i \in Images : expected = {i}
  BY <1>1 DEF OneExpected
<1>3. done \in Copied(i) /\ done \in Cells(i)
  BY <1>2, CellsOf DEF CopyCell
<1>4. Size[i] <= Room /\ (~Checked(i) => spoiled)
  BY <1>1, <1>2 DEF CopyInv
<1>5. OneExpected' /\ (mode = "app" => flash[AppCell] # Blank)'
  BY <1>1, <1>2 DEF OneExpected
<1>6. CASE flash[AppCell + done] = Blank
  <2>1. /\ flash' = [flash EXCEPT ![AppCell + done] = flash[StagingCell + done]]
        /\ done' = done + 1 /\ pc' = pc
    BY <1>6 DEF CopyCell
  <2>2. TypeOK'
    <3>1. flash[StagingCell + done] \in Content \union {Blank, Torn}
      BY <1>3, <1>4, Places DEF TypeOK
    <3>2. flash' \in [Memory -> Content \union {Blank, Torn}]
      BY <2>1, <3>1 DEF TypeOK
    <3> QED
      BY <1>1, <2>1, <3>2 DEF TypeOK
  <2>3. CopyInv' /\ (~spoiled => Prefix /\ OneOnly)'
    <3>1. CASE Checked(i)
      BY <1>2, <1>6, <3>1, CopyChecked
    <3>2. CASE ~Checked(i)
      <4>1. spoiled' /\ done' - 1 = done
        BY <1>1, <1>4, <2>1, <3>2
      <4> QED
        BY <1>1, <1>2, <1>3, <1>4, <3>2, <4>1 DEF CopyInv
    <3> QED
      BY <3>1, <3>2
  <2>4. WriteInv' /\ Whole'
    BY <1>1, <2>1 DEF WriteInv, Whole
  <2> QED
    BY <1>5, <2>2, <2>3, <2>4
<1>7. CASE flash[AppCell + done] # Blank
  <2>1. pc' = "loop" /\ flash' = flash /\ done' = done
    BY <1>7 DEF CopyCell
  <2>2. TypeOK'
    BY <1>1, <2>1 DEF TypeOK
  <2>3. WriteInv' /\ CopyInv' /\ (~spoiled => Prefix /\ OneOnly)'
    BY <1>1, <2>1 DEF WriteInv, CopyInv, Prefix, OneOnly
  <2>4. ASSUME ~spoiled, ~cut PROVE Whole'
    <3>1. CASE done = 0
      BY <1>1, <2>1, <2>4, <3>1 DEF Whole, Holds
    <3>2. CASE done > 0
      <4>1. /\ Checked(i)
            /\ \A k \in Cells(i) : k < done => flash[AppCell + k] = Right(i, k)
            /\ \A c \in Low : flash[c] = IF c - AppCell < done THEN Right(i, c - AppCell) ELSE Blank
        BY <1>1, <1>2, <1>4, <2>4, <3>2 DEF CopyInv
      <4>2. AppCell + done \notin Low
        <5> SUFFICES ASSUME NEW c \in Low, c = AppCell + done PROVE FALSE
          OBVIOUS
        <5>1. ~(c - AppCell < done)
          BY <1>1, Layout
        <5>2. flash[c] = Blank
          BY <4>1, <5>1
        <5> QED
          BY <1>7, <5>2
      <4>3. AppCell + done >= StagingCell
        BY <1>1, <4>2, LowCells
      <4>4. ASSUME NEW c \in Low PROVE flash'[c] = Installed(i)[c]
        <5>1. c - AppCell \in Nat /\ c - AppCell < done /\ c \in Memory
          BY <1>1, <4>3, Layout, LowCells, Places DEF Low
        <5>2. 8 * (c - AppCell) < Size[i]
          BY <1>1, <1>3, <5>1, Layout, CellsOf
        <5>3. c - AppCell \in Cells(i)
          BY <5>1, <5>2, CellsOf
        <5> QED
          BY <2>1, <4>1, <5>1, <5>3 DEF Installed
      <4> QED
        BY <4>4 DEF Whole, Holds
    <3> QED
      BY <1>1, <3>1, <3>2
  <2> QED
    BY <1>1, <1>5, <2>2, <2>3, <2>4
<1> QED
  BY <1>6, <1>7

\* A copy that is done has left the whole image.
LEMMA CopyDoneInv == ASSUME IInv, CopyDone PROVE IInv'
<1> USE DEF IInv
<1>1. /\ pc = "copy" /\ mode = "boot" /\ done \in Nat
      /\ state' = "JUMP" /\ pc' = "loop" /\ Jump
      /\ UNCHANGED <<flash, expected, next_id, written, chunk, done, resets, cut, spoiled>>
  BY DEF CopyDone, TypeOK, received
<1>2. PICK i \in Images : expected = {i} /\ done \notin Copied(i)
  BY <1>1 DEF OneExpected, TypeOK, CopyDone
<1>3. mode' = mode \/ Leave
  BY <1>1 DEF Jump
<1>4. TypeOK'
  BY <1>1, <1>3, LeaveMode DEF TypeOK
<1>5. OneExpected' /\ WriteInv' /\ CopyInv' /\ (~spoiled => Prefix /\ OneOnly)'
  BY <1>1, <1>2 DEF OneExpected, WriteInv, CopyInv, Prefix, OneOnly
<1>6. ASSUME ~spoiled PROVE Whole'
  <2>1. Checked(i) /\ done \notin Cells(i)
    BY <1>1, <1>2, <1>6, CellsOf DEF CopyInv
  <2>2. /\ done > 0 /\ done - 1 \in Nat /\ done - 1 \in Cells(i)
        /\ \A c \in Low : flash[c] = IF c - AppCell < done THEN Right(i, c - AppCell) ELSE Blank
    BY <1>1, <1>2, <1>6, <2>1, CellsOf DEF CopyInv
  <2>3. 8 * (done - 1) < Size[i] /\ ~(8 * done < Size[i]) /\ Size[i] \in Nat
    BY <1>1, <2>1, <2>2, CellsOf, Layout
  <2>4. ASSUME NEW c \in Low PROVE flash'[c] = Installed(i)[c]
    <3>1. c - AppCell \in Nat /\ c \in Memory
      BY LowCells, Places
    <3>2. c - AppCell < done <=> 8 * (c - AppCell) < Size[i]
      BY <1>1, <2>3, <3>1
    <3> QED
      BY <1>1, <2>2, <3>1, <3>2, CellsOf DEF Installed
  <2> QED
    BY <2>4 DEF Whole, Holds
<1>7. (mode = "app" => flash[AppCell] # Blank)'
  BY <1>1, <1>3, LeaveMode
<1> QED
  BY <1>1, <1>4, <1>5, <1>6, <1>7

\* A reset loses the context and may tear the cell being programmed.
LEMMA ResetInv == ASSUME IInv, Reset PROVE IInv'
<1> USE DEF IInv
<1>1. /\ state' = "IDLE" /\ expected' = {} /\ next_id' = 0 /\ written' = 0 /\ done' = 0
      /\ pc' = "loop" /\ chunk' = NoChunk /\ mode' = "boot" /\ cut' = (cut \/ pc = "copy")
      /\ resets < MaxResets /\ resets' = resets + 1 /\ spoiled' = spoiled
  BY DEF Reset, Idle
<1>2. OneExpected' /\ WriteInv' /\ CopyInv' /\ (mode = "app" => flash[AppCell] # Blank)'
  BY <1>1 DEF OneExpected, WriteInv, CopyInv
<1>3. TypeOK'
  <2>1. resets' \in 0 .. MaxResets /\ cut' \in BOOLEAN
    BY <1>1, DfuAssumption DEF TypeOK
  <2>2. flash' \in [Memory -> Content \union {Blank, Torn}]
    BY DEF Reset, TypeOK
  <2> QED
    BY <1>1, <2>1, <2>2 DEF TypeOK
<1>4. CASE flash' = flash
  BY <1>1, <1>2, <1>3, <1>4 DEF Prefix, OneOnly, Whole, Holds
<1>5. CASE \E c \in UnderWay : flash' = [flash EXCEPT ![c] = Torn]
  <2>1. PICK t \in UnderWay : flash' = [flash EXCEPT ![t] = Torn]
    BY <1>5
  <2>2. t \in Memory /\ flash[t] = Blank
    BY DEF UnderWay
  <2>3. /\ flash'[t] = Torn
        /\ \A c \in Low : c # t => flash'[c] = flash[c]
    BY <2>1, <2>2, Places DEF TypeOK
  <2>4. CASE pc = "write"
    <3>1. Address \in Nat /\ done \in Nat /\ Address >= 8 * StagingCell /\ 8 * t = Address + 8 * done
      BY <2>4, Layout DEF UnderWay, TypeOK, Address
    <3>2. t \notin Low
      BY <2>2, <3>1, Layout DEF Low, Memory
    <3>3. (~spoiled => Prefix /\ OneOnly)' /\ (~spoiled /\ ~cut => Whole)'
      <4>1. \A c \in Low : flash'[c] = flash[c]
        BY <2>3, <3>2
      <4>2. cut' = cut
        BY <1>1, <2>4 DEF TypeOK
      <4> QED
        BY <1>1, <2>4, <4>1, <4>2, LowUntouched
    <3> QED
      BY <1>2, <1>3, <3>3
  <2>5. CASE pc = "copy"
    <3>1. PICK i \in Images : expected = {i} /\ done \in Cells(i) /\ t = AppCell + done
      BY <2>5, CellsOf DEF OneExpected, TypeOK, UnderWay
    <3>2. ASSUME ~spoiled PROVE Prefix' /\ OneOnly'
      <4>1. Checked(i)
        BY <2>5, <3>1, <3>2 DEF CopyInv
      <4>2. /\ t \in Low
            /\ \A c \in Low : flash[c] = IF c - AppCell < done THEN Right(i, c - AppCell) ELSE Blank
        BY <2>2, <2>5, <3>1, <3>2, <4>1, AboutToCopy
      <4>3. ASSUME NEW c \in Low, NEW d \in Low, d < c, flash'[c] # Blank
            PROVE  flash'[d] # Blank
        <5>1. /\ c \in Nat /\ d \in Nat /\ d - AppCell \in Nat
              /\ AppCell \in Nat /\ done \in Nat
          BY Layout, LowCells DEF Low, TypeOK
        <5>2. c = t \/ c - AppCell < done
          BY <2>3, <4>2, <4>3
        <5>3. d # t /\ d - AppCell < done
          BY <3>1, <4>3, <5>1, <5>2
        <5> QED
          BY <2>3, <4>2, <5>1, <5>3, CellsDiffer
      <4>4. \A c \in Low : flash'[c] \in {Right(i, c - AppCell), Blank, Torn}
        BY <2>3, <4>2
      <4> QED
        BY <4>3, <4>4 DEF Prefix, OneOnly
    <3> QED
      BY <1>1, <1>2, <1>3, <2>5, <3>2
  <2> QED
    BY <2>4, <2>5 DEF UnderWay
<1> QED
  BY <1>4, <1>5 DEF Reset

LEMMA StutterInv == ASSUME IInv, UNCHANGED vars PROVE IInv'
BY DEF IInv, vars, received, TypeOK, OneExpected, WriteInv, Address, CopyInv, Prefix,
       OneOnly, Whole, Holds

\* The inductive invariant.
THEOREM DfuInvariant == Spec => []IInv
<1>1. IInv /\ [Next]_vars => IInv'
  BY MetadataInv, ChunkInv, JumpRequestInv, WriteCellInv, WriteDoneInv, CopyCellInv,
     CopyDoneInv, TimeOutInv, ResetInv, StutterInv DEF Next, Work
<1> QED
  BY InitInv, <1>1, PTL DEF Spec, Safety
-----------------------------------------------------------------------------
\* Every variable keeps its type: a write runs only in RECEIVING, a copy only in
\* COMPLETE, and neither once the bootloader has left.
THEOREM DfuTypes == Spec => []TypeOK
<1>1. IInv => TypeOK
  BY DEF IInv
<1> QED
  BY DfuInvariant, <1>1, PTL

\* While no erase has taken some of an application, and no image has passed
\* unchecked, the application's own cells never mix two images, whatever is sent
\* and whenever the board is reset.
THEOREM DfuOneImage == Spec => []OneImage
<1>1. IInv => OneImage
  BY DEF IInv, OneImage, OneOnly
<1> QED
  BY DfuInvariant, <1>1, PTL

\* Then, unless a reset has cut a copy short, what the bootloader hands over to is
\* one image, as far as the application's own cells go.
THEOREM DfuWhole == Spec => []WholeUnlessCut
<1>1. IInv => WholeUnlessCut
  <2> SUFFICES ASSUME IInv, mode = "app", ~cut, ~spoiled PROVE \E i \in Images : Holds(i)
    BY DEF WholeUnlessCut, Holds
  <2>1. pc # "copy"
    BY DEF IInv, TypeOK
  <2>2. flash[AppCell] # Blank
    BY DEF IInv
  <2> QED
    BY <2>1, <2>2, Places DEF IInv, Whole
<1> QED
  BY DfuInvariant, <1>1, PTL

\* A copy that goes on into the application has left all of the image announced there,
\* without any condition on what was erased before.
THEOREM DfuEnters == Spec => UpdateEntersWhole
<1> DEFINE Enters == pc = "copy" /\ mode' = "app" =>
                       \A i \in expected : \A k \in Cells(i) : flash'[AppCell + k] = Right(i, k)
<1>1. IInv /\ [Next]_vars => Enters
  <2> SUFFICES ASSUME IInv, [Next]_vars, pc = "copy", mode' = "app",
                      NEW i \in expected, NEW k \in Cells(i)
               PROVE flash'[AppCell + k] = Right(i, k)
    OBVIOUS
  <2>1. mode = "boot" /\ done \in Nat /\ i \in Images /\ expected = {i}
    BY DEF IInv, TypeOK, OneExpected
  <2>2. CASE CopyDone
    <3>1. flash' = flash /\ Jump /\ done \notin Copied(i)
      BY <2>1, <2>2 DEF CopyDone
    <3>2. Checked(i)
      BY <2>1, <3>1 DEF Jump, NotBlank, Checked
    <3>3. done \notin Cells(i) /\ Size[i] \in Nat
      BY <2>1, <3>1, <3>2, CellsOf, Layout
    <3>4. k \in Nat /\ 8 * k < Size[i] /\ ~(8 * done < Size[i])
      BY <2>1, <3>3, CellsOf DEF Cells
    <3>5. k < done
      BY <2>1, <3>3, <3>4
    <3> QED
      BY <2>1, <3>1, <3>2, <3>5 DEF IInv, CopyInv
  <2>3. CASE ~CopyDone
    BY <2>1, <2>3 DEF Next, Metadata, Chunk, JumpRequest, Work, WriteCell, WriteDone, CopyCell,
                      TimeOut, Reset, Idle, Waiting, vars
  <2> QED
    BY <2>2, <2>3
<1> QED
  BY DfuInvariant, <1>1, PTL DEF Spec, Safety, UpdateEntersWhole

\* As long as every image is of whole words, and of so few pages that the erase
\* ends below the application's region (of at most 12 on the boards), the condition
\* of OneImage and WholeUnlessCut is met.
THEOREM DfuSmallImages ==
  ASSUME \A i \in Images : Checked(i) /\ (PageOf(StagingCell) + PagesOf(i)) * PageCells <= AppCell
  PROVE  Spec => []~spoiled
<1>1. Init => ~spoiled
  BY DEF Init
<1>2. ~spoiled /\ IInv /\ [Next]_vars => ~spoiled'
  <2> SUFFICES ASSUME ~spoiled, IInv, [Next]_vars PROVE ~spoiled'
    OBVIOUS
  <2>1. ASSUME NEW i \in Images, Metadata(i) PROVE ~spoiled'
    <3>1. CASE spoiled' = spoiled
      BY <3>1
    <3>2. ASSUME NEW c \in Low,
                 flash' = [d \in Memory |-> IF d \in Bank(PageOf(StagingCell), PagesOf(i) % EraseWrap)
                                            THEN Blank ELSE flash[d]]
          PROVE flash'[c] = flash[c]
      <4> DEFINE n == PagesOf(i) % EraseWrap
                 s == PageOf(StagingCell)
      <4>1. s \in Int /\ PagesOf(i) \in Nat /\ n \in Nat /\ n <= PagesOf(i) /\ PageCells \in Nat
        <5>1. PagesOf(i) \in Nat
          BY DfuAssumption DEF PagesOf, PageBytes
        <5> QED
          BY <5>1, DfuAssumption DEF PageOf
      <4>2. (s + n) * PageCells <= (s + PagesOf(i)) * PageCells
        <5> HIDE DEF n, s
        <5> QED
          BY <4>1
      <4>3. (s + PagesOf(i)) * PageCells <= AppCell
        OBVIOUS
      <4>4. c \notin Bank(s, n)
        <5>1. c \in Memory /\ c >= AppCell /\ c \in Nat /\ AppCell \in Nat
          BY Places, Layout DEF Low
        <5>2. (s + n) * PageCells \in Int /\ (s + PagesOf(i)) * PageCells \in Int
          BY <4>1
        <5> HIDE DEF n, s
        <5> QED
          BY <4>2, <4>3, <5>1, <5>2 DEF Bank
      <4> QED
        BY <3>2, <4>4, Places
    <3> QED
      BY <2>1, <3>1, <3>2 DEF Metadata
  <2>2. ASSUME NEW i \in Images, Finish(i) PROVE ~spoiled'
    BY <2>2 DEF Finish, Checked
  <2>3. ASSUME NEW length, Received(length) PROVE ~spoiled'
    BY <2>2, <2>3 DEF Received, IInv, TypeOK
  <2>4. ASSUME NEW j \in Images, NEW p \in Pieces(j), Chunk(j, p) PROVE ~spoiled'
    BY <2>3, <2>4 DEF Chunk
  <2>5. CASE JumpRequest \/ WriteCell \/ CopyCell \/ CopyDone \/ TimeOut \/ Reset \/ UNCHANGED vars
    BY <2>5 DEF JumpRequest, WriteCell, CopyCell, CopyDone, TimeOut, Reset, vars
  <2>6. CASE WriteDone
    BY <2>3, <2>6 DEF WriteDone
  <2> QED
    BY <2>1, <2>4, <2>5, <2>6 DEF Next, Work
<1> QED
  BY <1>1, <1>2, DfuInvariant, PTL DEF Spec, Safety
=============================================================================
