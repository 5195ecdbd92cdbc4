------------------------------- MODULE Persist -------------------------------
(***************************************************************************)
(* The flash log of libraries/ms-common/src/persist.c and its clients: one *)
(* page of flash holding sections [marker, size, blob], a scan for the     *)
(* valid one at start-up, and commits that invalidate the previous section *)
(* and append a new one.  Every double word programmed and every erase is  *)
(* a step, and the board may be reset between any two of them.             *)
(*                                                                         *)
(* Addresses are in bytes from the base of the page, the last of the       *)
(* flash: what lies behind it cannot be read or written.  flash is an      *)
(* array of 32-bit words.  A word of a blob that the scan takes for a size *)
(* is small enough not to wrap the 32-bit address (the calibrator's are    *)
(* pairs of 12-bit readings).                                              *)
(***************************************************************************)
EXTENDS Integers, Sequences

CONSTANTS
  PageWords,   \* words of the page (FLASH_PAGE_SIZE / 4)
  BlobWords,   \* words of the client's blob (3 for the pedal calibration)
  Blobs,       \* what the client may commit: sequences of BlobWords words
  Erased,      \* an erased word, all ones; also the valid marker
  Programs     \* the programs that may be flashed on the board, of AllPrograms

AllPrograms == {"calibrator", "reader", "library"}
PageBytes == 4 * PageWords
BlobBytes == 4 * BlobWords

ASSUME PersistAssumption ==
  /\ PageWords \in Nat /\ PageWords % 2 = 0
  /\ BlobWords \in Nat \ {0}
  /\ 16 + BlobBytes < PageBytes
  /\ Erased \in Nat /\ Erased > PageBytes
  /\ Blobs \subseteq [1..BlobWords -> 0..(Erased - 1)]
  /\ Programs \subseteq AllPrograms

VARIABLES
  flash,            \* the page
  program,          \* the program running, or "none" while the board is off
  pc,               \* what it is about to do
  caller,           \* who called persist_commit: "init" or "client"
  blob,             \* the client's blob in RAM
  header,           \* the header last read by persist_init
  flash_addr,       \* PersistStorage: where the next section goes
  prev_flash_addr,  \* PersistStorage: the section that is valid, or NoAddr
  written,          \* double words of the blob already programmed
  author,           \* the client that erased the page or committed last, or "none"
  latest,           \* the blob it last asked to commit, or NoBlob
  durable           \* that commit has returned OK

storage == <<flash_addr, prev_flash_addr>>
history == <<author, latest, durable>>
vars == <<flash, program, pc, caller, blob, header, storage, written, history>>

NoAddr == -1
NoBlob == <<>>
Zero   == [i \in 1..BlobWords |-> 0]
Blank  == [w \in 0..(PageWords - 1) |-> Erased]

-----------------------------------------------------------------------------
\* Flash.  A double word can be programmed if it is erased, or to all zeros.
CanProgram(addr, low, high) ==
  /\ addr % 8 = 0
  /\ {flash[addr \div 4], flash[(addr \div 4) + 1]} = {Erased} \/ (low = 0 /\ high = 0)

\* Programs one double word; an address flash_write refuses is skipped and
\* reported as written.
Program(addr, low, high) ==
  flash' = IF addr % 4 = 0 /\ CanProgram(addr, low, high)
           THEN [flash EXCEPT ![addr \div 4] = low, ![(addr \div 4) + 1] = high]
           ELSE flash

Programmed(addr, low, high) == addr % 4 # 0 \/ CanProgram(addr, low, high)

Readable(addr, bytes) == addr % 4 = 0 /\ addr + bytes <= PageBytes

\* The words from addr on; a read that flash_read refuses leaves old as it is.
ReadWords(addr, count, old) ==
  IF Readable(addr, 4 * count)
  THEN [i \in 1..count |-> flash[(addr \div 4) + i - 1]] ELSE old

-----------------------------------------------------------------------------
\* The board starts: the pedal calibrator erases the page first.
Boot(p) ==
  /\ pc = "off"
  /\ program' = p
  /\ pc' = IF p = "calibrator" THEN "erase" ELSE "scan"
  /\ UNCHANGED <<flash, caller, blob, header, storage, written, history>>

ErasePage ==
  /\ pc = "erase"
  /\ flash' = Blank
  /\ pc' = "scan"
  /\ author' = program /\ latest' = NoBlob /\ durable' = FALSE
  /\ UNCHANGED <<program, caller, blob, header, storage, written>>

ReadHeader == ReadWords(flash_addr, 2, header)
Marker(h) == h[1]
Size(h) == h[2]

\* Mutant: the header is not skipped.
Skip_SizeOnly(addr, h) == addr + (IF Size(h) = Erased THEN -1 ELSE Size(h))

\* Past a section, in 32-bit arithmetic: an erased size word is -1.
Skip(addr, h) == addr + 8 + (IF Size(h) = Erased THEN -1 ELSE Size(h))

\* Mutant: the scan never finds the end of the page.
PastEnd_Never(addr) == FALSE

PastEnd(addr) == addr >= PageBytes

\* One round of the scan that finds no marker: past the section, and back to
\* the base of an erased page once no section is left.
ScanOn ==
  /\ pc = "scan"
  /\ Marker(ReadHeader) # Erased
  /\ header' = ReadHeader
  /\ LET past == Skip(flash_addr, ReadHeader) IN
       IF PastEnd(past) THEN flash' = Blank /\ flash_addr' = 0
                       ELSE flash_addr' = past /\ UNCHANGED flash
  /\ UNCHANGED <<program, pc, caller, blob, prev_flash_addr, written, history>>

Found == pc = "scan" /\ Marker(ReadHeader) = Erased

InitUnchanged == UNCHANGED <<flash, program, written, history>>

\* No section: the blob is committed as it is.
FoundNone ==
  /\ Found
  /\ Size(ReadHeader) = Erased
  /\ header' = ReadHeader
  /\ pc' = "invalidate" /\ caller' = "init"
  /\ UNCHANGED <<blob, storage>>
  /\ InitUnchanged

\* A section of another size: replaced if the client allows it.
FoundOther ==
  /\ Found
  /\ Size(ReadHeader) \notin {Erased, BlobBytes}
  /\ header' = ReadHeader
  /\ IF program = "reader"
     THEN pc' = "loaded" /\ UNCHANGED <<caller, storage>>
     ELSE /\ pc' = "invalidate" /\ caller' = "init"
          /\ prev_flash_addr' = flash_addr
          /\ flash_addr' = Skip(flash_addr, ReadHeader)
  /\ UNCHANGED blob
  /\ InitUnchanged

\* The blob follows the header of its section.
BlobAt(section) == section + 8

\* A section of the blob's size: loaded.
FoundBlob ==
  /\ Found
  /\ Size(ReadHeader) = BlobBytes
  /\ header' = ReadHeader
  /\ blob' = ReadWords(BlobAt(flash_addr), BlobWords, blob)
  /\ prev_flash_addr' = flash_addr
  /\ flash_addr' = Skip(flash_addr, ReadHeader)
  /\ pc' = "loaded"
  /\ UNCHANGED caller
  /\ InitUnchanged

-----------------------------------------------------------------------------
\* A client fills its blob and commits it: the calibrator once after its
\* initialisation, a client of the library again and again.
Commit ==
  /\ pc = "loaded"
  /\ program # "reader"
  /\ \E b \in Blobs : blob' = b /\ latest' = b
  /\ author' = program /\ durable' = FALSE
  /\ pc' = "invalidate" /\ caller' = "client"
  /\ UNCHANGED <<flash, program, header, storage, written>>

CommitUnchanged == UNCHANGED <<program, caller, blob, header>>

\* Mutant: the previous section keeps its marker.
Invalidate_Never ==
  /\ pc = "invalidate"
  /\ pc' = "room"
  /\ UNCHANGED <<flash, storage, written, history>>
  /\ CommitUnchanged

\* The previous section's marker is overwritten with a double word of zeros:
\* its size goes with it.
Invalidate ==
  /\ pc = "invalidate"
  /\ IF prev_flash_addr = NoAddr THEN UNCHANGED flash ELSE Program(prev_flash_addr, 0, 0)
  /\ pc' = "room"
  /\ UNCHANGED <<storage, written, history>>
  /\ CommitUnchanged

NoRoom == flash_addr + 8 + BlobBytes >= PageBytes

MakeRoom ==
  /\ pc = "room"
  /\ IF NoRoom THEN flash' = Blank /\ flash_addr' = 0 ELSE UNCHANGED <<flash, flash_addr>>
  /\ pc' = "header"
  /\ UNCHANGED <<prev_flash_addr, written, history>>
  /\ CommitUnchanged

AfterCommit == IF caller = "client" /\ program = "calibrator" THEN "halt" ELSE "loaded"

WriteHeader ==
  /\ pc = "header"
  /\ Program(flash_addr, Erased, BlobBytes)
  /\ pc' = IF Programmed(flash_addr, Erased, BlobBytes) THEN "blob" ELSE AfterCommit
  /\ written' = 0
  /\ UNCHANGED <<storage, history>>
  /\ CommitUnchanged

WordOf(i) == IF i <= BlobWords THEN blob[i] ELSE 0
Target == BlobAt(flash_addr) + 8 * written
Low    == WordOf(2 * written + 1)
High   == WordOf(2 * written + 2)

\* All of the blob but its last double word.
WriteBlob ==
  /\ pc = "blob"
  /\ 2 * (written + 1) < BlobWords
  /\ Program(Target, Low, High)
  /\ IF Programmed(Target, Low, High) THEN written' = written + 1 /\ UNCHANGED pc
                                      ELSE pc' = AfterCommit /\ UNCHANGED written
  /\ UNCHANGED <<storage, history>>
  /\ CommitUnchanged

\* Mutant: rounded down.
Aligned_Down(addr) == addr - (addr % 8)

\* The end of a section, rounded up to a double word.
Aligned(addr) == IF addr % 8 = 0 THEN addr ELSE addr + 8 - (addr % 8)

\* The last double word: the section is complete.
WriteLast ==
  /\ pc = "blob"
  /\ 2 * (written + 1) >= BlobWords
  /\ Program(Target, Low, High)
  /\ pc' = AfterCommit
  /\ IF Programmed(Target, Low, High)
     THEN /\ prev_flash_addr' = flash_addr
          /\ flash_addr' = Aligned(flash_addr + 8 + BlobBytes)
          /\ durable' = (durable \/ caller = "client")
          /\ UNCHANGED <<author, latest>>
     ELSE UNCHANGED <<storage, history>>
  /\ UNCHANGED written
  /\ CommitUnchanged

\* A reset, a loss of power, or another program being flashed: RAM is lost.
Reset ==
  /\ pc # "off"
  /\ pc' = "off" /\ program' = "none"
  /\ blob' = Zero /\ header' = <<Erased, 0>> /\ caller' = "init"
  /\ flash_addr' = 0 /\ prev_flash_addr' = NoAddr /\ written' = 0
  /\ UNCHANGED <<flash, history>>

-----------------------------------------------------------------------------
\* What the front controller takes over from the blob.  A word of zeros or of all
\* ones has equal limits, for which there are defaults.  For the first word, the
\* raw accelerator's that gives the opamp offset, the default is set and then
\* overwritten by the word itself.
OpampWord == 1
Default   == -1
Used(i) == IF blob[i] \in {0, Erased} /\ i # OpampWord THEN Default ELSE blob[i]

-----------------------------------------------------------------------------
\* A page with one section of n words, as an earlier layout of the blob left it.
Earlier(n) ==
  [w \in 0..(PageWords - 1) |->
     IF w = 1 THEN 4 * n ELSE IF w \in 2..(n + 1) THEN 1 ELSE Erased]

Init ==
  /\ flash \in {Blank} \union {Earlier(n) : n \in 1..(BlobWords - 1)}
  /\ program = "none" /\ pc = "off"
  /\ blob = Zero /\ header = <<Erased, 0>> /\ caller = "init"
  /\ flash_addr = 0 /\ prev_flash_addr = NoAddr /\ written = 0
  /\ author = "none" /\ latest = NoBlob /\ durable = FALSE

Scan == ScanOn \/ FoundNone \/ FoundOther \/ FoundBlob

Step == ErasePage \/ Scan \/ Invalidate \/ MakeRoom \/ WriteHeader \/ WriteBlob \/ WriteLast

Next == (\E p \in Programs : Boot(p)) \/ Step \/ Commit \/ Reset

Safety == Init /\ [][Next]_vars

\* A program goes on while the board is powered; nothing makes it reset.
Spec == Safety /\ WF_vars(Step)

-----------------------------------------------------------------------------
Words == 0..Erased

\* Every variable has its type.
TypeOK ==
  /\ flash \in [0..(PageWords - 1) -> Words]
  /\ program \in AllPrograms \union {"none"}
  /\ pc \in {"off", "erase", "scan", "loaded", "invalidate", "room", "header", "blob", "halt"}
  /\ caller \in {"init", "client"}
  /\ blob \in [1..BlobWords -> Words]
  /\ header \in [1..2 -> Words]
  /\ flash_addr \in 0..(PageBytes + Erased)
  /\ prev_flash_addr \in 0..(PageBytes - 8) \union {NoAddr}
  /\ written \in 0..BlobWords
  /\ author \in Programs \union {"none"}
  /\ latest \in Blobs \union {NoBlob}
  /\ durable \in BOOLEAN

\* The front controller with the page as the calibrator left it.
ReaderHasLoaded == program = "reader" /\ pc = "loaded" /\ author = "calibrator"

\* What the front controller loads after a calibration has been committed is
\* that calibration, whatever was in the page before and whichever resets and
\* start-ups there have been since.
CalibrationIsLoaded == ReaderHasLoaded /\ durable => blob = latest

\* After a calibration cut short the front controller uses for a pedal's limits
\* the new word or the default, never an old value, never another pedal's.  The
\* opamp offset has no such default: what an unwritten word holds is taken for it.
PedalsAreWhole ==
  ReaderHasLoaded =>
    \A i \in 1..BlobWords :
      \/ Used(i) = Default
      \/ latest # NoBlob /\ Used(i) = latest[i]
      \/ i = OpampWord /\ Used(i) \in {0, Erased}

\* A reset at whatever point of a calibration never leaves the pedals with limits
\* that are neither committed nor defaults; only the opamp offset may be neither.
PedalsAreLoaded == CalibrationIsLoaded /\ PedalsAreWhole

\* The calibrator and the front controller never write a section over
\* another: the flash programs only erased double words, and refuses all others.
SectionsGoToErasedFlash ==
  author = "calibrator" /\ program # "library" =>
    /\ pc = "header" => CanProgram(flash_addr, Erased, BlobBytes)
    /\ pc = "blob" => CanProgram(Target, Low, High)

\* The scan of persist_init ends, wherever a reset has cut a commit short: it
\* advances through garbage, and a page without a section is erased.
InitEnds == pc = "scan" ~> pc # "scan"

\* persist.h says persist_init loads "stored data into the provided blob": the
\* blob whose commit returned OK last is what a client has after start-up.
CommitIsLoaded ==
  program = "library" /\ pc = "loaded" /\ durable => blob = latest
=============================================================================
