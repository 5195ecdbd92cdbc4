---------------------------- MODULE PersistProofs ---------------------------
(***************************************************************************)
(* Proofs about Persist, for a page and a blob of any size: types; and     *)
(* that a reset in the middle of a calibration never leaves the pedals     *)
(* with limits nobody has committed.                                       *)
(*                                                                         *)
(* The second needs to know what is on the page since the calibrator has   *)
(* erased it: zeros, then the words of one section written so far, then    *)
(* erased flash.  The scan steps over the zeros and stops at that section, *)
(* and whoever writes goes on where the erased words begin.                *)
(***************************************************************************)
EXTENDS Persist, TLAPS

-----------------------------------------------------------------------------
(* Types. *)

\* A scan that is under way stands at the base of the page, or behind a header
\* that is no marker; an address it cannot read leaves it with that one.
ScanInPage ==
  /\ pc = "scan" => flash_addr < PageBytes
  /\ pc = "scan" => flash_addr = 0 \/ Marker(header) # Erased
  /\ pc \in {"off", "erase"} => flash_addr = 0

\* A section is written only where there is room.
RoomToWrite == pc \in {"header", "blob"} => ~NoRoom

TypeInv ==
  /\ TypeOK
  /\ ScanInPage
  /\ RoomToWrite
  /\ pc # "off" => program \in Programs

LEMMA Sizes ==
  /\ PageWords \in Nat /\ BlobWords \in Nat /\ BlobWords >= 1
  /\ PageBytes = 4 * PageWords /\ BlobBytes = 4 * BlobWords
  /\ PageBytes \in Nat /\ BlobBytes \in Nat /\ BlobBytes >= 4 /\ 16 + BlobBytes < PageBytes
  /\ Erased \in Nat /\ Erased > PageBytes
BY PersistAssumption DEF PageBytes, BlobBytes

LEMMA ProgramTypes ==
  ASSUME flash \in [0..(PageWords - 1) -> Words], NEW addr, NEW low \in Words, NEW high \in Words,
         Program(addr, low, high)
  PROVE  flash' \in [0..(PageWords - 1) -> Words]
BY DEF Program

LEMMA BlankTypes == Blank \in [0..(PageWords - 1) -> Words]
BY Sizes DEF Blank, Words

\* The words of a page.
LEMMA ReadTypes ==
  ASSUME flash \in [0..(PageWords - 1) -> Words], NEW addr \in Nat, NEW count \in Nat,
         NEW old \in [1..count -> Words]
  PROVE  ReadWords(addr, count, old) \in [1..count -> Words]
<1>1. CASE ~Readable(addr, 4 * count)
  BY <1>1 DEF ReadWords
<1>2. CASE Readable(addr, 4 * count)
  <2>1. addr % 4 = 0 /\ addr + 4 * count <= 4 * PageWords /\ PageWords \in Nat
    BY <1>2, Sizes DEF Readable
  <2>2. PICK q \in Nat : addr = 4 * q
    <3>1. addr = 4 * (addr \div 4) + (addr % 4) /\ addr \div 4 \in Nat
      OBVIOUS
    <3> QED
      BY <2>1, <3>1
  <2>3. addr \div 4 = q
    BY <2>2
  <2>4. \A i \in 1..count : q + i - 1 \in 0..(PageWords - 1)
    BY <2>1, <2>2
  <2> QED
    BY <1>2, <2>3, <2>4 DEF ReadWords
<1> QED
  BY <1>1, <1>2

LEMMA HeaderTypes ==
  ASSUME TypeInv
  PROVE  ReadHeader \in [1..2 -> Words]
<1>1. flash_addr \in Nat /\ header \in [1..2 -> Words] /\ flash \in [0..(PageWords - 1) -> Words]
  BY Sizes DEF TypeInv, TypeOK
<1> QED
  BY <1>1, ReadTypes DEF ReadHeader

\* A marker is read only in the page, as a word of the page.
LEMMA FoundInPage ==
  ASSUME TypeInv, Found
  PROVE  flash_addr + 8 <= PageBytes /\ flash_addr \in Nat
<1>1. flash_addr \in Nat
  BY Sizes DEF TypeInv, TypeOK
<1>2. Readable(flash_addr, 8) => flash_addr + 8 <= PageBytes
  BY DEF Readable
<1>3. CASE ~Readable(flash_addr, 8)
  <2>1. ReadHeader = header
    BY <1>3 DEF ReadHeader, ReadWords
  <2>2. flash_addr = 0
    BY <2>1 DEF Found, TypeInv, ScanInPage
  <2> QED
    BY <1>1, <2>2, Sizes
<1> QED
  BY <1>1, <1>2, <1>3

\* Where a scan or a commit goes on.
LEMMA SkipTypes ==
  ASSUME NEW addr \in Nat, NEW h \in [1..2 -> Words]
  PROVE  Skip(addr, h) \in Nat /\ Skip(addr, h) <= addr + 7 + Erased
<1>1. h[2] \in Nat /\ h[2] <= Erased
  BY Sizes DEF Words
<1> QED
  BY <1>1, Sizes DEF Skip, Size

LEMMA AlignedTypes ==
  ASSUME NEW addr \in Nat
  PROVE  Aligned(addr) \in Nat /\ Aligned(addr) <= addr + 8
<1>1. addr % 8 \in 0..7
  OBVIOUS
<1> QED
  BY <1>1 DEF Aligned

LEMMA InitTypes == Init => TypeInv
<1> SUFFICES ASSUME Init PROVE TypeInv
  OBVIOUS
<1>1. flash \in [0..(PageWords - 1) -> Words]
  <2>1. \A n \in 1..(BlobWords - 1) : Earlier(n) \in [0..(PageWords - 1) -> Words]
    BY Sizes DEF Earlier, Words
  <2> QED
    BY <2>1, BlankTypes DEF Init
<1>2. /\ blob \in [1..BlobWords -> Words] /\ header \in [1..2 -> Words]
      /\ 0 \in Words /\ Erased \in Words
  BY Sizes DEF Init, Zero, Words
<1>3. flash_addr \in 0..(PageBytes + Erased) /\ written \in 0..BlobWords
  BY Sizes DEF Init
<1>4. TypeOK
  BY <1>1, <1>2, <1>3 DEF Init, TypeOK
<1> QED
  BY <1>4, Sizes DEF Init, TypeInv, ScanInPage, RoomToWrite

LEMMA StartTypes ==
  ASSUME TypeInv, (\E p \in Programs : Boot(p)) \/ ErasePage
  PROVE  TypeInv'
<1>1. CASE \E p \in Programs : Boot(p)
  BY <1>1, Sizes, PersistAssumption
  DEF Boot, TypeInv, TypeOK, ScanInPage, RoomToWrite, storage, history, NoRoom
<1>2. CASE ErasePage
  <2>1. /\ program \in Programs /\ author' = program
        /\ flash' \in [0..(PageWords - 1) -> Words]
        /\ flash_addr = 0 /\ pc' = "scan" /\ latest' = NoBlob /\ durable' = FALSE
        /\ UNCHANGED <<program, caller, blob, header, storage, written>>
    BY <1>2, BlankTypes DEF ErasePage, TypeInv, ScanInPage
  <2>2. TypeOK'
    BY <2>1 DEF TypeInv, TypeOK, storage
  <2>3. ScanInPage' /\ RoomToWrite'
    BY <2>1, Sizes DEF ScanInPage, RoomToWrite, storage
  <2> QED
    BY <2>1, <2>2, <2>3 DEF TypeInv
<1> QED
  BY <1>1, <1>2

LEMMA ScanTypes ==
  ASSUME TypeInv, Scan
  PROVE  TypeInv'
<1>1. /\ header' = ReadHeader /\ header' \in [1..2 -> Words]
      /\ pc = "scan" /\ flash_addr \in Nat /\ flash_addr < PageBytes
  BY HeaderTypes, Sizes DEF Scan, ScanOn, FoundNone, FoundOther, FoundBlob, Found,
                            TypeInv, TypeOK, ScanInPage
<1>2. Skip(flash_addr, ReadHeader) \in Nat /\ Skip(flash_addr, ReadHeader) <= flash_addr + 7 + Erased
  BY <1>1, SkipTypes
<1>3. CASE ScanOn
  <2>1. /\ Marker(header') # Erased
        /\ flash' \in {flash, Blank}
        /\ flash_addr' \in Nat /\ flash_addr' < PageBytes
    BY <1>1, <1>2, <1>3, Sizes DEF ScanOn, PastEnd
  <2>2. UNCHANGED <<program, pc, caller, blob, prev_flash_addr, written, history>>
    BY <1>3 DEF ScanOn
  <2> QED
    BY <1>1, <2>1, <2>2, BlankTypes, Sizes
    DEF TypeInv, TypeOK, ScanInPage, RoomToWrite, history
<1>4. CASE FoundNone
  BY <1>1, <1>4 DEF FoundNone, InitUnchanged, TypeInv, TypeOK, ScanInPage, RoomToWrite, storage, history
<1>5. CASE FoundOther \/ FoundBlob
  <2>1. flash_addr + 8 <= PageBytes
    BY <1>5, FoundInPage DEF FoundOther, FoundBlob
  <2>2. /\ prev_flash_addr' \in {prev_flash_addr, flash_addr}
        /\ flash_addr' \in {flash_addr, Skip(flash_addr, ReadHeader)}
        /\ pc' \in {"invalidate", "loaded"}
        /\ caller' \in {caller, "init"}
        /\ UNCHANGED <<flash, program, written, history>>
    BY <1>5 DEF FoundOther, FoundBlob, InitUnchanged, storage
  <2>3. flash_addr' \in 0..(PageBytes + Erased)
    BY <1>1, <1>2, <2>1, <2>2, Sizes DEF TypeInv, TypeOK
  <2>4. prev_flash_addr' \in 0..(PageBytes - 8) \union {NoAddr}
    BY <1>1, <2>1, <2>2, Sizes DEF TypeInv, TypeOK
  <2>5. blob' \in [1..BlobWords -> Words]
    <3>1. BlobAt(flash_addr) \in Nat
      BY <1>1 DEF BlobAt
    <3>2. ReadWords(BlobAt(flash_addr), BlobWords, blob) \in [1..BlobWords -> Words]
      BY <3>1, ReadTypes, Sizes DEF TypeInv, TypeOK
    <3> QED
      BY <1>5, <3>2 DEF FoundOther, FoundBlob, TypeInv, TypeOK
  <2> QED
    BY <1>1, <2>2, <2>3, <2>4, <2>5 DEF TypeInv, TypeOK, ScanInPage, RoomToWrite, history
<1> QED
  BY <1>3, <1>4, <1>5 DEF Scan

\* What the commit programs are words.
LEMMA WordTypes ==
  ASSUME TypeInv
  PROVE  /\ Low \in Words /\ High \in Words
         /\ Erased \in Words /\ BlobBytes \in Words /\ 0 \in Words
<1>1. \A i \in Nat : i >= 1 => WordOf(i) \in Words
  BY Sizes DEF WordOf, TypeInv, TypeOK, Words
<1>2. 2 * written + 1 \in Nat /\ 2 * written + 2 \in Nat
  BY Sizes DEF TypeInv, TypeOK
<1> QED
  BY <1>1, <1>2, Sizes DEF Low, High, Words, TypeInv, TypeOK

LEMMA CommitTypes ==
  ASSUME TypeInv, Commit \/ Invalidate \/ MakeRoom
  PROVE  TypeInv'
<1>1. CASE Commit
  <2>1. blob' \in [1..BlobWords -> Words] /\ latest' \in Blobs
    BY <1>1, PersistAssumption, Sizes DEF Commit, Words
  <2> QED
    BY <1>1, <2>1 DEF Commit, TypeInv, TypeOK, ScanInPage, RoomToWrite, storage
<1>2. CASE Invalidate
  <2>1. flash' \in [0..(PageWords - 1) -> Words]
    BY <1>2, WordTypes, ProgramTypes DEF Invalidate, TypeInv, TypeOK
  <2> QED
    BY <1>2, <2>1 DEF Invalidate, CommitUnchanged, TypeInv, TypeOK, ScanInPage, RoomToWrite,
                      storage, history
<1>3. CASE MakeRoom
  <2>1. flash' \in [0..(PageWords - 1) -> Words]
    BY <1>3, BlankTypes DEF MakeRoom, TypeInv, TypeOK
  <2>2. flash_addr' \in 0..(PageBytes + Erased) /\ ~NoRoom'
    BY <1>3, Sizes DEF MakeRoom, NoRoom, TypeInv, TypeOK
  <2> QED
    BY <1>3, <2>1, <2>2 DEF MakeRoom, CommitUnchanged, TypeInv, TypeOK, ScanInPage, RoomToWrite,
                            history
<1> QED
  BY <1>1, <1>2, <1>3

LEMMA WriteTypes ==
  ASSUME TypeInv, WriteHeader \/ WriteBlob \/ WriteLast
  PROVE  TypeInv'
<1>1. flash' \in [0..(PageWords - 1) -> Words]
  BY WordTypes, ProgramTypes DEF WriteHeader, WriteBlob, WriteLast, TypeInv, TypeOK
<1>2. AfterCommit \in {"halt", "loaded"}
  BY DEF AfterCommit
<1>3. CASE WriteHeader
  BY <1>1, <1>2, <1>3, Sizes
  DEF WriteHeader, CommitUnchanged, TypeInv, TypeOK, ScanInPage, RoomToWrite, NoRoom, storage, history
<1>4. CASE WriteBlob
  BY <1>1, <1>2, <1>4, Sizes
  DEF WriteBlob, CommitUnchanged, TypeInv, TypeOK, ScanInPage, RoomToWrite, NoRoom, storage, history
<1>5. CASE WriteLast
  <2>1. flash_addr \in Nat /\ flash_addr + 8 + BlobBytes < PageBytes
    BY <1>5, Sizes DEF WriteLast, TypeInv, TypeOK, RoomToWrite, NoRoom
  <2>2. /\ Aligned(flash_addr + 8 + BlobBytes) \in Nat
        /\ Aligned(flash_addr + 8 + BlobBytes) <= flash_addr + 8 + BlobBytes + 8
    BY <2>1, AlignedTypes, Sizes
  <2>3. /\ flash_addr' \in 0..(PageBytes + Erased)
        /\ prev_flash_addr' \in 0..(PageBytes - 8) \union {NoAddr}
    BY <1>5, <2>1, <2>2, Sizes DEF WriteLast, storage, TypeInv, TypeOK
  <2>4. /\ durable' \in BOOLEAN /\ author' = author /\ latest' = latest
        /\ pc' \in {"halt", "loaded"}
    BY <1>2, <1>5 DEF WriteLast, history, TypeInv, TypeOK
  <2> QED
    BY <1>1, <1>5, <2>3, <2>4
    DEF WriteLast, CommitUnchanged, TypeInv, TypeOK, ScanInPage, RoomToWrite
<1> QED
  BY <1>3, <1>4, <1>5

LEMMA ResetTypes ==
  ASSUME TypeInv, Reset
  PROVE  TypeInv'
<1>1. Zero \in [1..BlobWords -> Words] /\ <<Erased, 0>> \in [1..2 -> Words]
  BY Sizes DEF Zero, Words
<1> QED
  BY <1>1, Sizes DEF Reset, TypeInv, TypeOK, ScanInPage, RoomToWrite, history

LEMMA NextTypes == TypeInv /\ [Next]_vars => TypeInv'
<1> SUFFICES ASSUME TypeInv, [Next]_vars PROVE TypeInv'
  OBVIOUS
<1>1. CASE Next
  BY <1>1, StartTypes, ScanTypes, CommitTypes, WriteTypes, ResetTypes DEF Next, Step
<1>2. CASE UNCHANGED vars
  BY <1>2 DEF vars, storage, history, TypeInv, TypeOK, ScanInPage, RoomToWrite, NoRoom
<1> QED
  BY <1>1, <1>2

\* Every variable keeps its type: no address leaves the page but for the step of a
\* scan that ends it.
THEOREM PersistTypes == Spec => []TypeOK
<1>1. TypeInv => TypeOK
  BY DEF TypeInv
<1> QED
  BY InitTypes, NextTypes, <1>1, PTL DEF Spec, Safety
-----------------------------------------------------------------------------
(* The page since a calibrator has erased it.  Behind the base m of its last *)
(* section (in words), which is the first or the second, there are the       *)
(* section's header and k double words of the blob c, or nothing (k = -1);    *)
(* in front of it there are zeros.                                            *)

Half   == (BlobWords + 1) \div 2     \* double words of a blob
Second == 2 + 2 * Half               \* base of the second section

Padded(c, i) == IF i <= BlobWords THEN c[i] ELSE 0

Room(m) == 4 * m + 8 + BlobBytes < PageBytes

PageIs(m, k, c) ==
  /\ \A w \in 0..(m - 1) : flash[w] = 0
  /\ k >= 0 => flash[m] = Erased /\ flash[m + 1] = BlobBytes
  /\ \A i \in 1..(2 * k) : flash[m + 1 + i] = Padded(c, i)
  /\ \A w \in 0..(PageWords - 1) :
       w >= m + (IF k < 0 THEN 0 ELSE 2 + 2 * k) => flash[w] = Erased

Committing == pc \in {"invalidate", "room", "header", "blob"}

\* persist_init, on its way to the last section, or writing one of zeros.
Initialising(m, k, c) ==
  /\ pc = "scan" =>
       /\ prev_flash_addr = NoAddr /\ blob = Zero
       /\ \E q \in 0..PageWords : flash_addr = 8 * q /\ 8 * q <= 4 * m
       /\ program = "calibrator" => m = 0 /\ k = -1 /\ latest = NoBlob
  /\ Committing /\ caller = "init" =>
       /\ prev_flash_addr = NoAddr /\ blob = Zero /\ flash_addr = 4 * m
       /\ pc # "blob" => k = -1
       /\ pc = "blob" => k = written /\ c = Zero /\ written < Half
       /\ program = "calibrator" => m = 0 /\ latest = NoBlob

\* The calibrator, before and in its only commit.
Calibrating(m, k, c) ==
  /\ pc = "loaded" /\ program = "calibrator" =>
       /\ m = 0 /\ k = Half /\ c = Zero /\ latest = NoBlob
       /\ prev_flash_addr = 0 /\ flash_addr = 4 * Second
  /\ Committing /\ caller = "client" =>
       /\ program = "calibrator" /\ latest # NoBlob /\ blob = latest
       /\ ~durable
       /\ pc = "invalidate" => m = 0 /\ k = Half /\ c = Zero /\ prev_flash_addr = 0
       /\ pc = "room" => m = Second
       /\ pc = "invalidate" => flash_addr = 4 * Second
       /\ pc # "invalidate" => flash_addr = 4 * m
       /\ pc \in {"room", "header"} => k = -1
       /\ pc = "blob" => k = written /\ c = latest /\ written < Half

\* A word that the front controller may load for a pedal.
WholeWord(b, i) == b[i] \in {0, Erased} \/ (latest # NoBlob /\ b[i] = latest[i])

Loaded ==
  pc = "loaded" /\ program = "reader" =>
    /\ durable => blob = latest
    /\ \A i \in 1..BlobWords : WholeWord(blob, i)

Content(m, k, c) ==
  /\ c = Zero \/ latest # NoBlob
  /\ k >= 0 => Room(m)
  /\ durable => c = latest /\ latest # NoBlob /\ k = Half
  /\ PageIs(m, k, c)

Section(m, k, c) ==
  /\ Content(m, k, c)
  /\ Initialising(m, k, c)
  /\ Calibrating(m, k, c)
  /\ Loaded

\* A board starts from nothing; the calibrator works on a page it has erased.
Started ==
  /\ pc \in {"off", "erase"} => flash_addr = 0 /\ prev_flash_addr = NoAddr /\ blob = Zero
  /\ pc = "off" => program = "none"
  /\ pc = "erase" => program = "calibrator"
  /\ program = "calibrator" /\ pc # "erase" => author = "calibrator"

Calibrated ==
  author = "calibrator" =>
    \E m \in {0, Second}, k \in -1..Half, c \in {Zero, latest} : Section(m, k, c)

IInv == TypeInv /\ Started /\ Calibrated
-----------------------------------------------------------------------------
(* Addresses. *)

LEMMA Halves ==
  /\ Half \in Nat /\ Half >= 1 /\ Second \in Nat
  /\ BlobWords <= 2 * Half /\ 2 * Half <= BlobWords + 1
  /\ Second + 2 <= PageWords
<1>1. 2 * Half <= BlobWords + 1 /\ BlobWords <= 2 * Half /\ Half \in Nat
  BY Sizes DEF Half
<1>2. BlobWords + 4 < PageWords
  BY Sizes
<1> QED
  BY <1>1, <1>2, Sizes DEF Second

\* A section starts at a double word.
LEMMA Bases ==
  ASSUME NEW m \in {0, Second}
  PROVE  m \in Nat /\ \E x \in Nat : m = 2 * x
<1>1. CASE m = 0
  <2>1. 0 \in Nat /\ m = 2 * 0
    BY <1>1
  <2> QED
    BY <2>1
<1>2. CASE m = Second
  <2>1. 1 + Half \in Nat /\ m = 2 * (1 + Half)
    BY <1>2, Halves DEF Second
  <2> QED
    BY <2>1
<1> QED
  BY <1>1, <1>2

LEMMA RoomInPage ==
  ASSUME NEW m \in {0, Second}, Room(m)
  PROVE  m + 2 + 2 * Half <= PageWords
BY Halves, Sizes DEF Room

\* Room for a blob at the base, always; where the second section would be, there is
\* room for a header at least.
LEMMA FirstRoom == Room(0)
BY Sizes DEF Room

LEMMA ReadAt ==
  ASSUME NEW x \in Nat, NEW count \in Nat, NEW old, x + count <= PageWords
  PROVE  ReadWords(4 * x, count, old) = [i \in 1..count |-> flash[x + i - 1]]
<1>1. (4 * x) % 4 = 0 /\ (4 * x) \div 4 = x /\ 4 * x + 4 * count <= PageBytes
  BY Sizes
<1> QED
  BY <1>1 DEF ReadWords, Readable

LEMMA ProgramAt ==
  ASSUME TypeInv, NEW y \in Nat, 2 * y + 1 < PageWords,
         NEW low, NEW high, Program(8 * y, low, high),
         (flash[2 * y] = Erased /\ flash[2 * y + 1] = Erased) \/ (low = 0 /\ high = 0)
  PROVE  /\ flash' = [w \in 0..(PageWords - 1) |->
                       IF w = 2 * y THEN low ELSE IF w = 2 * y + 1 THEN high ELSE flash[w]]
         /\ Programmed(8 * y, low, high)
<1>1. (8 * y) % 4 = 0 /\ (8 * y) % 8 = 0 /\ (8 * y) \div 4 = 2 * y
  OBVIOUS
<1>2. (8 * y) \div 4 + 1 = 2 * y + 1
  BY <1>1
<1>3. CanProgram(8 * y, low, high)
  BY <1>1, <1>2 DEF CanProgram
<1>4. flash' = [flash EXCEPT ![2 * y] = low, ![2 * y + 1] = high]
  BY <1>1, <1>2, <1>3 DEF Program
<1>5. /\ DOMAIN flash = 0..(PageWords - 1)
      /\ 2 * y \in DOMAIN flash /\ 2 * y + 1 \in DOMAIN flash /\ 2 * y # 2 * y + 1
  BY Sizes DEF TypeInv, TypeOK
<1>6. flash' = [w \in 0..(PageWords - 1) |->
                  IF w = 2 * y THEN low ELSE IF w = 2 * y + 1 THEN high ELSE flash[w]]
  BY <1>4, <1>5
<1> QED
  BY <1>1, <1>3, <1>6 DEF Programmed
-----------------------------------------------------------------------------
(* The page. *)

LEMMA PageKept ==
  ASSUME NEW m, NEW k, NEW c, PageIs(m, k, c), flash' = flash
  PROVE  PageIs(m, k, c)'
BY DEF PageIs

LEMMA PageErased ==
  ASSUME NEW c, flash' = Blank
  PROVE  PageIs(0, -1, c)'
<1>1. \A w \in 0..(PageWords - 1) : flash'[w] = Erased
  BY DEF Blank
<1>2. 0..(0 - 1) = {} /\ 1..(2 * (-1)) = {} /\ ~(-1 >= 0) /\ -1 < 0
  OBVIOUS
<1> QED
  BY <1>1, <1>2 DEF PageIs

\* The calibrator invalidates its section of zeros: they are in front of the next.
LEMMA PageInvalidated ==
  ASSUME TypeInv, NEW c, PageIs(0, Half, Zero), Program(0, 0, 0)
  PROVE  PageIs(Second, -1, c)'
<1>1. flash' = [w \in 0..(PageWords - 1) |->
                  IF w = 0 THEN 0 ELSE IF w = 1 THEN 0 ELSE flash[w]]
  <2> DEFINE y == 0
  <2>1. y \in Nat /\ 2 * y + 1 < PageWords
    BY Halves, Sizes
  <2>2. 8 * y = 0 /\ 2 * y = 0 /\ 2 * y + 1 = 1
    OBVIOUS
  <2>3. Program(8 * y, 0, 0)
    BY <2>2
  <2> HIDE DEF y
  <2>4. flash' = [w \in 0..(PageWords - 1) |->
                    IF w = 2 * y THEN 0 ELSE IF w = 2 * y + 1 THEN 0 ELSE flash[w]]
    BY <2>1, <2>3, ProgramAt
  <2> QED
    BY <2>2, <2>4
<1>2. \A w \in 0..(Second - 1) : w = 0 \/ w = 1 \/ (w - 1 \in 1..(2 * Half) /\ 0 + 1 + (w - 1) = w)
  BY Halves DEF Second
<1>3. \A i \in 1..(2 * Half) : Padded(Zero, i) = 0
  BY Halves, Sizes DEF Padded, Zero
<1>4. \A i \in 1..(2 * Half) : flash[0 + 1 + i] = 0
  BY <1>3 DEF PageIs
<1>5. \A w \in 0..(Second - 1) : w \in 0..(PageWords - 1) /\ flash'[w] = 0
  <2> SUFFICES ASSUME NEW w \in 0..(Second - 1)
               PROVE  w \in 0..(PageWords - 1) /\ flash'[w] = 0
    OBVIOUS
  <2>1. w \in 0..(PageWords - 1)
    BY Halves, Sizes
  <2>2. CASE w = 0 \/ w = 1
    BY <1>1, <2>1, <2>2
  <2>3. CASE w # 0 /\ w # 1
    <3>1. w - 1 \in 1..(2 * Half) /\ 0 + 1 + (w - 1) = w
      BY <1>2, <2>3
    <3>2. flash[0 + 1 + (w - 1)] = 0
      BY <1>4, <3>1
    <3> QED
      BY <1>1, <2>1, <2>3, <3>1, <3>2
  <2> QED
    BY <2>1, <2>2, <2>3
<1>6. \A w \in 0..(PageWords - 1) : w >= Second => flash'[w] = Erased
  BY <1>1, Halves DEF PageIs, Second
<1>7. ~(-1 >= 0) /\ -1 < 0 /\ 1..(2 * (-1)) = {} /\ Second + 0 = Second
  BY Halves
<1> QED
  BY <1>5, <1>6, <1>7 DEF PageIs

\* A header, and a double word of the blob, go to erased flash.
LEMMA PageHeader ==
  ASSUME TypeInv, NEW m \in {0, Second}, NEW c, NEW d, Room(m),
         PageIs(m, -1, c), Program(4 * m, Erased, BlobBytes)
  PROVE  /\ PageIs(m, 0, d)'
         /\ Programmed(4 * m, Erased, BlobBytes)
<1>1. PICK y \in Nat : m = 2 * y
  BY Bases
<1>2. 4 * m = 8 * y /\ 2 * y + 1 < PageWords /\ m \in Nat
  BY <1>1, Halves, Sizes
<1>3. \A w \in 0..(PageWords - 1) : w >= m => flash[w] = Erased
  BY <1>2 DEF PageIs
<1>4. flash[2 * y] = Erased /\ flash[2 * y + 1] = Erased
  BY <1>1, <1>2, <1>3, Sizes
<1>5. /\ flash' = [w \in 0..(PageWords - 1) |->
                    IF w = 2 * y THEN Erased ELSE IF w = 2 * y + 1 THEN BlobBytes ELSE flash[w]]
      /\ Programmed(4 * m, Erased, BlobBytes)
  BY <1>2, <1>4, ProgramAt
<1>6. \A w \in 0..(m - 1) : flash'[w] = 0
  BY <1>1, <1>2, <1>5, Sizes DEF PageIs
<1>7. flash'[m] = Erased /\ flash'[m + 1] = BlobBytes
  BY <1>1, <1>2, <1>5, Sizes
<1>8. \A w \in 0..(PageWords - 1) : w >= m + (2 + 2 * 0) => flash'[w] = Erased
  BY <1>1, <1>2, <1>3, <1>5
<1>9. 1..(2 * 0) = {} /\ ~(0 < 0)
  OBVIOUS
<1> QED
  BY <1>5, <1>6, <1>7, <1>8, <1>9 DEF PageIs

LEMMA PageBlob ==
  ASSUME TypeInv, NEW m \in {0, Second}, NEW k \in 0..(Half - 1), NEW c, Room(m),
         PageIs(m, k, c),
         Program(4 * m + 8 + 8 * k, Padded(c, 2 * k + 1), Padded(c, 2 * k + 2))
  PROVE  /\ PageIs(m, k + 1, c)'
         /\ Programmed(4 * m + 8 + 8 * k, Padded(c, 2 * k + 1), Padded(c, 2 * k + 2))
<1> DEFINE low  == Padded(c, 2 * k + 1)
           high == Padded(c, 2 * k + 2)
<1>1. PICK x \in Nat : m = 2 * x
  BY Bases
<1>2. PICK y \in Nat : y = x + 1 + k
  BY <1>1
<1>3. /\ 4 * m + 8 + 8 * k = 8 * y /\ 2 * y = m + 2 + 2 * k /\ 2 * y + 1 < PageWords
      /\ m \in Nat /\ k \in Nat
  BY <1>1, <1>2, RoomInPage, Halves, Sizes
<1>4. \A w \in 0..(PageWords - 1) : w >= m + (2 + 2 * k) => flash[w] = Erased
  BY <1>3 DEF PageIs
<1>5. flash[2 * y] = Erased /\ flash[2 * y + 1] = Erased
  BY <1>3, <1>4, Sizes
<1> HIDE DEF low, high
<1>6. /\ flash' = [w \in 0..(PageWords - 1) |->
                    IF w = 2 * y THEN low ELSE IF w = 2 * y + 1 THEN high ELSE flash[w]]
      /\ Programmed(4 * m + 8 + 8 * k, low, high)
  BY <1>3, <1>5, ProgramAt DEF low, high
<1>7. \A w \in 0..(m - 1) : flash'[w] = 0
  BY <1>3, <1>6, Sizes DEF PageIs
<1>8. flash'[m] = Erased /\ flash'[m + 1] = BlobBytes
  BY <1>3, <1>6, Sizes DEF PageIs
<1>9. \A i \in 1..(2 * (k + 1)) : flash'[m + 1 + i] = Padded(c, i)
  <2> SUFFICES ASSUME NEW i \in 1..(2 * (k + 1)) PROVE flash'[m + 1 + i] = Padded(c, i)
    OBVIOUS
  <2>1. m + 1 + i \in 0..(PageWords - 1)
    BY <1>3, Sizes
  <2>2. CASE i = 2 * k + 1
    BY <1>3, <1>6, <2>1, <2>2 DEF low
  <2>3. CASE i = 2 * k + 2
    BY <1>3, <1>6, <2>1, <2>3 DEF high
  <2>4. CASE i \in 1..(2 * k)
    BY <1>3, <1>6, <2>1, <2>4 DEF PageIs
  <2> QED
    BY <1>3, <2>2, <2>3, <2>4
<1>10. \A w \in 0..(PageWords - 1) : w >= m + (2 + 2 * (k + 1)) => flash'[w] = Erased
  BY <1>3, <1>4, <1>6
<1>11. k + 1 >= 0 /\ ~(k + 1 < 0)
  BY <1>3
<1> QED
  BY <1>6, <1>7, <1>8, <1>9, <1>10, <1>11 DEF PageIs, low, high

\* Where the next words go the flash is erased.
LEMMA CanWriteHeader ==
  ASSUME TypeInv, NEW m \in {0, Second}, NEW c, Room(m), PageIs(m, -1, c)
  PROVE  CanProgram(4 * m, Erased, BlobBytes)
<1>1. PICK y \in Nat : m = 2 * y
  BY Bases
<1>2. 4 * m = 8 * y /\ 2 * y + 1 < PageWords /\ m \in Nat
  BY <1>1, Halves, Sizes
<1>3. \A w \in 0..(PageWords - 1) : w >= m => flash[w] = Erased
  BY <1>2 DEF PageIs
<1>4. flash[2 * y] = Erased /\ flash[2 * y + 1] = Erased
  BY <1>1, <1>2, <1>3, Sizes
<1>5. (8 * y) % 8 = 0 /\ (8 * y) \div 4 = 2 * y /\ (8 * y) \div 4 + 1 = 2 * y + 1
  BY <1>1
<1> QED
  BY <1>2, <1>4, <1>5 DEF CanProgram

LEMMA CanWriteBlob ==
  ASSUME TypeInv, NEW m \in {0, Second}, NEW k \in 0..(Half - 1), NEW c, Room(m),
         PageIs(m, k, c), NEW low, NEW high
  PROVE  CanProgram(4 * m + 8 + 8 * k, low, high)
<1>1. PICK x \in Nat : m = 2 * x
  BY Bases
<1>2. PICK y \in Nat : y = x + 1 + k
  BY <1>1
<1>3. /\ 4 * m + 8 + 8 * k = 8 * y /\ 2 * y = m + 2 + 2 * k /\ 2 * y + 1 < PageWords
      /\ m \in Nat /\ k \in Nat
  BY <1>1, <1>2, RoomInPage, Halves, Sizes
<1>4. \A w \in 0..(PageWords - 1) : w >= m + (2 + 2 * k) => flash[w] = Erased
  BY <1>3 DEF PageIs
<1>5. flash[2 * y] = Erased /\ flash[2 * y + 1] = Erased
  BY <1>3, <1>4, Sizes
<1>6. (8 * y) % 8 = 0 /\ (8 * y) \div 4 = 2 * y /\ (8 * y) \div 4 + 1 = 2 * y + 1
  BY <1>2
<1> QED
  BY <1>3, <1>5, <1>6 DEF CanProgram

\* The scan reads zeros in front of the section, and the header, or erased words,
\* at its base.
LEMMA ScanHeader ==
  ASSUME TypeInv, NEW m \in {0, Second}, NEW k \in -1..Half, NEW c, PageIs(m, k, c),
         NEW q \in Nat, flash_addr = 8 * q, 8 * q <= 4 * m
  PROVE  /\ 8 * q < 4 * m =>
              /\ Marker(ReadHeader) = 0 /\ Size(ReadHeader) = 0
              /\ 8 * q + 8 <= 4 * m /\ 8 * q + 8 < PageBytes
         /\ 8 * q = 4 * m =>
              /\ Marker(ReadHeader) = Erased
              /\ Size(ReadHeader) = IF k < 0 THEN Erased ELSE BlobBytes
<1>1. PICK x \in Nat : m = 2 * x
  BY Bases
<1>2. m \in Nat /\ m + 2 <= PageWords /\ q <= x
  BY <1>1, Halves, Sizes
<1>3. ReadHeader = [i \in 1..2 |-> flash[2 * q + i - 1]]
  <2>1. 2 * q \in Nat /\ 2 * q + 2 <= PageWords /\ 8 * q = 4 * (2 * q)
    BY <1>1, <1>2, Sizes
  <2>2. ReadWords(4 * (2 * q), 2, header) = [i \in 1..2 |-> flash[2 * q + i - 1]]
    BY <2>1, ReadAt
  <2> QED
    BY <2>1, <2>2 DEF ReadHeader
<1>4. Marker(ReadHeader) = flash[2 * q] /\ Size(ReadHeader) = flash[2 * q + 1]
  <2>1. 2 * q + 1 - 1 = 2 * q /\ 2 * q + 2 - 1 = 2 * q + 1
    OBVIOUS
  <2> QED
    BY <1>3, <2>1 DEF Marker, Size
<1>5. CASE q < x
  <2>1. 2 * q \in 0..(m - 1) /\ 2 * q + 1 \in 0..(m - 1) /\ 2 * q + 2 <= m
    BY <1>1, <1>2, <1>5
  <2>2. flash[2 * q] = 0 /\ flash[2 * q + 1] = 0
    BY <2>1 DEF PageIs
  <2> QED
    BY <1>1, <1>2, <1>4, <1>5, <2>1, <2>2, Sizes
<1>6. CASE q = x
  <2>1. CASE k < 0
    <3>1. \A w \in 0..(PageWords - 1) : w >= m => flash[w] = Erased
      BY <1>2, <2>1 DEF PageIs
    <3> QED
      BY <1>1, <1>2, <1>4, <1>6, <2>1, <3>1, Sizes
  <2>2. CASE ~(k < 0)
    <3>1. flash[m] = Erased /\ flash[m + 1] = BlobBytes
      BY <2>2 DEF PageIs
    <3> QED
      BY <1>1, <1>2, <1>4, <1>6, <2>2, <3>1
  <2> QED
    BY <2>1, <2>2
<1> QED
  BY <1>2, <1>5, <1>6

\* The second section starts where the first, rounded up, ends.
LEMMA SecondBase == Aligned(4 * 0 + 8 + BlobBytes) = 4 * Second
<1>1. CASE BlobWords = 2 * Half
  <2>1. 4 * 0 + 8 + BlobBytes = 8 * (1 + Half) /\ 4 * Second = 8 * (1 + Half)
    BY <1>1, Halves, Sizes DEF Second
  <2>2. (8 * (1 + Half)) % 8 = 0
    BY Halves
  <2> QED
    BY <2>1, <2>2 DEF Aligned
<1>2. CASE BlobWords = 2 * Half - 1
  <2>1. /\ 4 * 0 + 8 + BlobBytes = 8 * Half + 4 /\ 4 * Second = 8 * Half + 8
        /\ (8 * Half + 4) % 8 = 4
    BY <1>2, Halves, Sizes DEF Second
  <2> QED
    BY <2>1, Halves DEF Aligned
<1> QED
  BY <1>1, <1>2, Halves, Sizes
-----------------------------------------------------------------------------
(* The steps.  A step that leaves the page and its history alone leaves the   *)
(* section where it is.                                                      *)

LEMMA ContentKept ==
  ASSUME NEW m, NEW k, NEW c, Content(m, k, c), flash' = flash, history' = history
  PROVE  Content(m, k, c)'
BY PageKept DEF Content, history

LEMMA StartedKept ==
  ASSUME TypeInv, Started, [Next]_vars
  PROVE  Started'
<1>1. CASE \E p \in Programs : Boot(p)
  BY <1>1 DEF Boot, Started, storage, history
<1>2. CASE ErasePage
  BY <1>2 DEF ErasePage, Started, storage
<1>3. CASE Scan
  BY <1>3 DEF Scan, ScanOn, FoundNone, FoundOther, FoundBlob, Found, InitUnchanged, Started, storage, history
<1>4. CASE Invalidate \/ MakeRoom
  BY <1>4 DEF Invalidate, MakeRoom, CommitUnchanged, Started, storage, history
<1>5. CASE WriteHeader \/ WriteBlob \/ WriteLast
  BY <1>5 DEF WriteHeader, WriteBlob, WriteLast, AfterCommit, CommitUnchanged, Started, storage, history
<1>6. CASE Commit \/ Reset
  BY <1>6 DEF Commit, Reset, Started, storage, history
<1>7. CASE UNCHANGED vars
  BY <1>7 DEF vars, Started, storage, history
<1> QED
  BY <1>1, <1>2, <1>3, <1>4, <1>5, <1>6, <1>7 DEF Next, Step

LEMMA StartCalibrated ==
  ASSUME TypeInv, Started, Calibrated, (\E p \in Programs : Boot(p)) \/ ErasePage
  PROVE  Calibrated'
<1>1. CASE \E p \in Programs : Boot(p)
  <2> SUFFICES ASSUME author' = "calibrator"
               PROVE  \E m \in {0, Second}, k \in -1..Half, c \in {Zero, latest'} : Section(m, k, c)'
    BY DEF Calibrated
  <2>1. history' = history /\ flash' = flash /\ author = "calibrator" /\ latest' = latest
    BY <1>1 DEF Boot, history
  <2>2. PICK m \in {0, Second}, k \in -1..Half, c \in {Zero, latest} : Section(m, k, c)
    BY <2>1 DEF Calibrated
  <2>3. Content(m, k, c)'
    BY <2>1, <2>2, ContentKept DEF Section
  <2>4. /\ pc' = "erase" \/ (pc' = "scan" /\ program' # "calibrator")
        /\ prev_flash_addr' = NoAddr /\ blob' = Zero /\ flash_addr' = 0
    BY <1>1 DEF Boot, Started, storage
  <2>5. 0 \in 0..PageWords /\ flash_addr' = 8 * 0 /\ 8 * 0 <= 4 * m
    BY <2>4, Bases, Sizes
  <2>6. Initialising(m, k, c)'
    BY <2>4, <2>5 DEF Initialising, Committing
  <2>7. Calibrating(m, k, c)' /\ Loaded'
    BY <2>4 DEF Calibrating, Committing, Loaded
  <2> QED
    BY <2>1, <2>3, <2>6, <2>7 DEF Section
<1>2. CASE ErasePage
  <2>1. /\ pc' = "scan" /\ flash' = Blank /\ latest' = NoBlob /\ durable' = FALSE
        /\ flash_addr' = 0 /\ prev_flash_addr' = NoAddr /\ blob' = Zero
    BY <1>2 DEF ErasePage, Started, storage
  <2>2. PageIs(0, -1, Zero)'
    BY <2>1, PageErased
  <2>3. Content(0, -1, Zero)'
    BY <2>1, <2>2 DEF Content
  <2>4. 0 \in 0..PageWords /\ flash_addr' = 8 * 0 /\ 8 * 0 <= 4 * 0
    BY <2>1, Sizes
  <2>5. Initialising(0, -1, Zero)'
    BY <2>1, <2>4 DEF Initialising, Committing
  <2>6. Calibrating(0, -1, Zero)' /\ Loaded'
    BY <2>1 DEF Calibrating, Committing, Loaded
  <2>7. 0 \in {0, Second} /\ -1 \in -1..Half /\ Zero \in {Zero, latest'}
    BY Halves
  <2> QED
    BY <2>3, <2>5, <2>6, <2>7 DEF Section, Calibrated
<1> QED
  BY <1>1, <1>2

\* The scan goes over the zeros in front of the section and stops at its base.
LEMMA ScanCalibrated ==
  ASSUME TypeInv, Started, Calibrated, Scan
  PROVE  Calibrated'
<1> SUFFICES ASSUME author' = "calibrator"
             PROVE  \E m \in {0, Second}, k \in -1..Half, c \in {Zero, latest'} : Section(m, k, c)'
  BY DEF Calibrated
<1>1. /\ history' = history /\ author = "calibrator" /\ latest' = latest /\ durable' = durable
      /\ pc = "scan" /\ program' = program
  BY DEF Scan, ScanOn, FoundNone, FoundOther, FoundBlob, Found, InitUnchanged, history
<1>2. PICK m \in {0, Second}, k \in -1..Half, c \in {Zero, latest} : Section(m, k, c)
  BY <1>1 DEF Calibrated
<1>3. PICK q \in 0..PageWords : flash_addr = 8 * q /\ 8 * q <= 4 * m
  BY <1>1, <1>2 DEF Section, Initialising
<1>4. /\ prev_flash_addr = NoAddr /\ blob = Zero
      /\ program = "calibrator" => m = 0 /\ k = -1 /\ latest = NoBlob
      /\ Content(m, k, c) /\ PageIs(m, k, c)
  BY <1>1, <1>2 DEF Section, Content, Initialising
<1>5. q \in Nat /\ m \in Nat /\ k \in Int
  BY Bases, Sizes, Halves
<1>6. /\ 8 * q < 4 * m =>
           /\ Marker(ReadHeader) = 0 /\ Size(ReadHeader) = 0
           /\ 8 * q + 8 <= 4 * m /\ 8 * q + 8 < PageBytes
      /\ 8 * q = 4 * m =>
           /\ Marker(ReadHeader) = Erased
           /\ Size(ReadHeader) = IF k < 0 THEN Erased ELSE BlobBytes
  BY <1>3, <1>4, <1>5, ScanHeader
<1>7. CASE ScanOn
  <2>1. 8 * q < 4 * m
    BY <1>3, <1>5, <1>6, <1>7 DEF ScanOn
  <2>2. Skip(flash_addr, ReadHeader) = 8 * q + 8 /\ ~PastEnd(8 * q + 8)
    BY <1>3, <1>5, <1>6, <2>1, Sizes DEF Skip, PastEnd
  <2>3. flash_addr' = 8 * q + 8 /\ flash' = flash /\ UNCHANGED <<pc, blob, prev_flash_addr, program>>
    BY <1>7, <2>2 DEF ScanOn
  <2>4. q + 1 \in 0..PageWords /\ flash_addr' = 8 * (q + 1) /\ 8 * (q + 1) <= 4 * m
    BY <1>5, <1>6, <2>1, <2>3, Sizes
  <2>5. Content(m, k, c)'
    BY <1>1, <1>4, <2>3, ContentKept
  <2>6. Initialising(m, k, c)'
    BY <1>1, <1>4, <2>3, <2>4 DEF Initialising, Committing
  <2>7. Calibrating(m, k, c)' /\ Loaded'
    BY <1>1, <2>3 DEF Calibrating, Committing, Loaded
  <2> QED
    BY <1>1, <2>5, <2>6, <2>7 DEF Section
<1>8. CASE Found
  <2>1. 8 * q = 4 * m
    BY <1>3, <1>5, <1>6, <1>8, Sizes DEF Found
  <2>2. Size(ReadHeader) = IF k < 0 THEN Erased ELSE BlobBytes
    BY <1>6, <2>1
  <2>3. CASE FoundNone
    <3>1. /\ pc' = "invalidate" /\ caller' = "init" /\ flash' = flash
          /\ UNCHANGED <<blob, flash_addr, prev_flash_addr>>
      BY <2>3 DEF FoundNone, InitUnchanged, storage
    <3>2. k = -1
      BY <1>5, <2>2, <2>3, Sizes DEF FoundNone
    <3>3. Content(m, k, c)'
      BY <1>1, <1>4, <3>1, ContentKept
    <3>4. Initialising(m, k, c)'
      BY <1>1, <1>3, <1>4, <2>1, <3>1, <3>2 DEF Initialising, Committing
    <3>5. Calibrating(m, k, c)' /\ Loaded'
      BY <3>1 DEF Calibrating, Committing, Loaded
    <3> QED
      BY <1>1, <3>3, <3>4, <3>5 DEF Section
  <2>4. CASE FoundBlob
    <3>1. k >= 0 /\ program # "calibrator"
      BY <1>4, <1>5, <2>2, <2>4, Sizes DEF FoundBlob
    <3>2. Content(m, k, c)'
      BY <1>1, <1>4, <2>4, ContentKept DEF FoundBlob, InitUnchanged
    <3>3. pc' = "loaded"
      BY <2>4 DEF FoundBlob
    <3>4. Initialising(m, k, c)' /\ Calibrating(m, k, c)'
      BY <1>1, <3>1, <3>3 DEF Initialising, Calibrating, Committing
    <3>5. blob' = [i \in 1..BlobWords |-> flash[m + 2 + i - 1]]
      <4>1. m + 2 + BlobWords <= PageWords
        BY <1>4, <1>5, <3>1, RoomInPage, Halves, Sizes DEF Content
      <4>2. BlobAt(flash_addr) = 4 * (m + 2)
        BY <1>3, <1>5, <2>1 DEF BlobAt
      <4>3. blob' = ReadWords(4 * (m + 2), BlobWords, blob)
        BY <2>4, <4>2 DEF FoundBlob
      <4>4. m + 2 \in Nat /\ BlobWords \in Nat
        BY <1>5, Sizes
      <4> QED
        BY <4>1, <4>3, <4>4, ReadAt
    <3>6. \A i \in 1..BlobWords : blob'[i] = IF i <= 2 * k THEN c[i] ELSE Erased
      <4> SUFFICES ASSUME NEW i \in 1..BlobWords
                   PROVE  blob'[i] = IF i <= 2 * k THEN c[i] ELSE Erased
        OBVIOUS
      <4>1. blob'[i] = flash[m + 1 + i]
        <5>1. m + 2 + i - 1 = m + 1 + i
          BY <1>5, Sizes
        <5> QED
          BY <3>5, <5>1
      <4>2. CASE i <= 2 * k
        <5>1. i \in 1..(2 * k)
          BY <1>5, <4>2, Sizes
        <5>2. flash[m + 1 + i] = Padded(c, i)
          BY <1>4, <5>1 DEF PageIs
        <5>3. i <= BlobWords
          BY Sizes
        <5> QED
          BY <4>1, <4>2, <5>2, <5>3 DEF Padded
      <4>3. CASE ~(i <= 2 * k)
        <5>1. m + 1 + i \in 0..(PageWords - 1) /\ m + 1 + i >= m + (2 + 2 * k)
          BY <1>4, <1>5, <3>1, <4>3, RoomInPage, Halves, Sizes DEF Content
        <5>2. flash[m + 1 + i] = Erased
          BY <1>4, <1>5, <3>1, <5>1 DEF PageIs
        <5> QED
          BY <4>1, <4>3, <5>2
      <4> QED
        BY <4>2, <4>3
    <3>7. \A i \in 1..BlobWords : WholeWord(blob, i)'
      <4>1. c = Zero \/ (latest # NoBlob /\ c = latest)
        BY <1>4 DEF Content
      <4> QED
        BY <1>1, <3>6, <4>1 DEF WholeWord, Zero
    <3>8. durable => blob' = latest
      <4> SUFFICES ASSUME durable PROVE blob' = latest
        OBVIOUS
      <4>1. c = latest /\ latest # NoBlob /\ k = Half
        BY <1>4 DEF Content
      <4>2. latest \in [1..BlobWords -> 0..(Erased - 1)]
        BY <4>1, PersistAssumption DEF TypeInv, TypeOK
      <4>3. \A i \in 1..BlobWords : blob'[i] = latest[i]
        BY <3>6, <4>1, Halves, Sizes
      <4> QED
        BY <3>5, <4>2, <4>3
    <3>9. Loaded'
      BY <1>1, <3>7, <3>8 DEF Loaded
    <3> QED
      BY <1>1, <3>2, <3>4, <3>9 DEF Section
  <2>5. ~FoundOther
    BY <2>2 DEF FoundOther
  <2>6. ~ScanOn
    BY <1>8 DEF Found, ScanOn
  <2> QED
    BY <2>3, <2>4, <2>5, <2>6 DEF Scan
<1> QED
  BY <1>7, <1>8 DEF Scan, FoundNone, FoundOther, FoundBlob

\* A calibration, or a section of another client: not the calibrator's page then.
LEMMA CommitCalibrated ==
  ASSUME TypeInv, Started, Calibrated, Commit
  PROVE  Calibrated'
<1> SUFFICES ASSUME author' = "calibrator"
             PROVE  \E m \in {0, Second}, k \in -1..Half, c \in {Zero, latest'} : Section(m, k, c)'
  BY DEF Calibrated
<1>1. /\ program = "calibrator" /\ author = "calibrator" /\ pc = "loaded"
      /\ program' = program /\ pc' = "invalidate" /\ caller' = "client"
      /\ flash' = flash /\ durable' = FALSE
      /\ UNCHANGED <<flash_addr, prev_flash_addr>>
  BY DEF Commit, Started, storage
<1>2. PICK m \in {0, Second}, k \in -1..Half, c \in {Zero, latest} : Section(m, k, c)
  BY <1>1 DEF Calibrated
<1>3. /\ m = 0 /\ k = Half /\ c = Zero
      /\ prev_flash_addr = 0 /\ flash_addr = 4 * Second
  BY <1>1, <1>2 DEF Section, Calibrating
<1>4. blob' = latest' /\ latest' # NoBlob
  <2>1. PICK b \in Blobs : blob' = b /\ latest' = b
    BY DEF Commit
  <2>2. b \in [1..BlobWords -> 0..(Erased - 1)]
    BY <2>1, PersistAssumption
  <2>3. 1 \in DOMAIN b
    BY <2>2, Sizes
  <2>4. b # NoBlob
    BY <2>3 DEF NoBlob
  <2> QED
    BY <2>1, <2>4
<1>5. Content(0, Half, Zero)'
  <2>1. PageIs(0, Half, Zero)'
    BY <1>1, <1>2, <1>3, PageKept DEF Section, Content
  <2> QED
    BY <1>1, <2>1, FirstRoom DEF Content, Room
<1>6. Initialising(0, Half, Zero)' /\ Loaded'
  BY <1>1 DEF Initialising, Committing, Loaded
<1>7. Calibrating(0, Half, Zero)'
  BY <1>1, <1>3, <1>4 DEF Calibrating, Committing
<1>8. 0 \in {0, Second} /\ Half \in -1..Half /\ Zero \in {Zero, latest'}
  BY Halves
<1> QED
  BY <1>5, <1>6, <1>7, <1>8 DEF Section

\* What persist_commit starts from: a page without a section where the next one
\* goes, but for the calibrator's section of zeros.
LEMMA RoomCalibrated ==
  ASSUME TypeInv, Started, Calibrated, Invalidate \/ MakeRoom
  PROVE  Calibrated'
<1> SUFFICES ASSUME author' = "calibrator"
             PROVE  \E m \in {0, Second}, k \in -1..Half, c \in {Zero, latest'} : Section(m, k, c)'
  BY DEF Calibrated
<1>1. /\ history' = history /\ author = "calibrator" /\ latest' = latest /\ durable' = durable
      /\ UNCHANGED <<program, caller, blob, prev_flash_addr, written>>
      /\ pc \in {"invalidate", "room"} /\ Committing
  BY DEF Invalidate, MakeRoom, CommitUnchanged, history, storage, Committing
<1>2. PICK m \in {0, Second}, k \in -1..Half, c \in {Zero, latest} : Section(m, k, c)
  BY <1>1 DEF Calibrated
<1>3. /\ Content(m, k, c) /\ PageIs(m, k, c) /\ Initialising(m, k, c) /\ Calibrating(m, k, c)
      /\ caller \in {"init", "client"}
  BY <1>2 DEF Section, Content, TypeInv, TypeOK
<1>4. CASE Invalidate /\ caller = "init"
  <2>1. pc = "invalidate" /\ pc' = "room" /\ flash_addr' = flash_addr
    BY <1>4 DEF Invalidate, storage
  <2>2. /\ prev_flash_addr = NoAddr /\ blob = Zero /\ flash_addr = 4 * m /\ k = -1
        /\ program = "calibrator" => m = 0 /\ latest = NoBlob
    BY <1>1, <1>3, <1>4, <2>1 DEF Initialising
  <2>3. flash' = flash
    BY <1>4, <2>2 DEF Invalidate
  <2>4. Content(m, k, c)'
    BY <1>1, <1>3, <2>3, ContentKept
  <2>5. Initialising(m, k, c)'
    BY <1>1, <1>4, <2>1, <2>2 DEF Initialising, Committing
  <2>6. Calibrating(m, k, c)' /\ Loaded'
    BY <1>1, <1>4, <2>1 DEF Calibrating, Committing, Loaded
  <2> QED
    BY <1>1, <2>4, <2>5, <2>6 DEF Section
<1>5. CASE Invalidate /\ caller = "client"
  <2>1. pc = "invalidate" /\ pc' = "room" /\ flash_addr' = flash_addr
    BY <1>5 DEF Invalidate, storage
  <2>2. /\ program = "calibrator" /\ latest # NoBlob /\ blob = latest /\ ~durable
        /\ m = 0 /\ k = Half /\ c = Zero /\ prev_flash_addr = 0
        /\ flash_addr = 4 * Second
    BY <1>1, <1>3, <1>5, <2>1 DEF Calibrating
  <2>3. Program(0, 0, 0)
    BY <1>5, <2>2 DEF Invalidate, NoAddr
  <2>4. PageIs(Second, -1, Zero)'
    BY <1>3, <2>2, <2>3, PageInvalidated
  <2>5. Content(Second, -1, Zero)'
    BY <1>1, <2>2, <2>4 DEF Content
  <2>6. Initialising(Second, -1, Zero)' /\ Loaded'
    BY <1>1, <1>5, <2>1 DEF Initialising, Committing, Loaded
  <2>7. Calibrating(Second, -1, Zero)'
    BY <1>1, <1>5, <2>1, <2>2 DEF Calibrating, Committing
  <2>8. Second \in {0, Second} /\ -1 \in -1..Half /\ Zero \in {Zero, latest'}
    BY Halves
  <2> QED
    BY <2>5, <2>6, <2>7, <2>8 DEF Section
<1>6. CASE MakeRoom
  <2>1. pc = "room" /\ pc' = "header"
    BY <1>6 DEF MakeRoom
  <2>2. k = -1 /\ flash_addr = 4 * m
    BY <1>1, <1>3, <2>1 DEF Initialising, Calibrating
  <2>3. ~durable
    BY <1>3, <2>2, Halves DEF Content
  <2>4. CASE NoRoom
    <3>1. flash' = Blank /\ flash_addr' = 4 * 0
      BY <1>6, <2>4 DEF MakeRoom
    <3>2. PageIs(0, -1, c)'
      BY <3>1, PageErased
    <3>3. Content(0, -1, c)'
      BY <1>1, <1>3, <2>3, <3>2 DEF Content
    <3>4. Initialising(0, -1, c)'
      BY <1>1, <1>3, <2>1, <3>1 DEF Initialising, Committing
    <3>5. Calibrating(0, -1, c)' /\ Loaded'
      BY <1>1, <1>3, <2>1, <3>1 DEF Calibrating, Committing, Loaded
    <3>6. 0 \in {0, Second} /\ -1 \in -1..Half /\ c \in {Zero, latest'}
      BY <1>1, Halves
    <3> QED
      BY <3>3, <3>4, <3>5, <3>6 DEF Section
  <2>5. CASE ~NoRoom
    <3>1. flash' = flash /\ flash_addr' = flash_addr
      BY <1>6, <2>5 DEF MakeRoom
    <3>2. Content(m, k, c)'
      BY <1>1, <1>3, <3>1, ContentKept
    <3>3. Initialising(m, k, c)'
      BY <1>1, <1>3, <2>1, <2>2, <3>1 DEF Initialising, Committing
    <3>4. Calibrating(m, k, c)' /\ Loaded'
      BY <1>1, <1>3, <2>1, <2>2, <3>1 DEF Calibrating, Committing, Loaded
    <3> QED
      BY <1>1, <3>2, <3>3, <3>4 DEF Section
  <2> QED
    BY <2>4, <2>5
<1> QED
  BY <1>3, <1>4, <1>5, <1>6

\* The section grows word by word, in erased flash.
LEMMA WriteCalibrated ==
  ASSUME TypeInv, Started, Calibrated, WriteHeader \/ WriteBlob \/ WriteLast
  PROVE  Calibrated'
<1> SUFFICES ASSUME author' = "calibrator"
             PROVE  \E m \in {0, Second}, k \in -1..Half, c \in {Zero, latest'} : Section(m, k, c)'
  BY DEF Calibrated
<1>1. /\ author = "calibrator" /\ latest' = latest
      /\ UNCHANGED <<program, caller, blob>>
      /\ pc \in {"header", "blob"} /\ Committing
  BY DEF WriteHeader, WriteBlob, WriteLast, CommitUnchanged, history, Committing
<1>2. PICK m \in {0, Second}, k \in -1..Half, c \in {Zero, latest} : Section(m, k, c)
  BY <1>1 DEF Calibrated
<1>3. /\ Content(m, k, c) /\ PageIs(m, k, c) /\ Initialising(m, k, c) /\ Calibrating(m, k, c)
      /\ caller \in {"init", "client"} /\ m \in Nat /\ k \in Int
  BY <1>2, Bases, Halves DEF Section, Content, TypeInv, TypeOK
<1>4. /\ flash_addr = 4 * m
      /\ caller = "init" => /\ blob = Zero /\ prev_flash_addr = NoAddr
                            /\ program = "calibrator" => m = 0 /\ latest = NoBlob
      /\ caller = "client" => program = "calibrator" /\ latest # NoBlob /\ blob = latest
  BY <1>1, <1>3 DEF Initialising, Calibrating
<1>5. Room(m)
  BY <1>1, <1>3, <1>4, Sizes DEF TypeInv, RoomToWrite, NoRoom, Room
<1>6. CASE WriteHeader
  <2>1. pc = "header" /\ k = -1 /\ Program(4 * m, Erased, BlobBytes)
    BY <1>1, <1>3, <1>4, <1>6 DEF WriteHeader, Initialising, Calibrating
  <2>2. ~durable
    BY <1>3, <2>1, Halves DEF Content
  <2>3. PICK d : d = IF caller = "init" THEN Zero ELSE latest
    OBVIOUS
  <2>4. PageIs(m, 0, d)' /\ Programmed(4 * m, Erased, BlobBytes)
    BY <1>3, <1>5, <2>1, PageHeader
  <2>5. /\ pc' = "blob" /\ written' = 0 /\ durable' = durable
        /\ UNCHANGED <<flash_addr, prev_flash_addr>>
    BY <1>4, <1>6, <2>4 DEF WriteHeader, storage, history
  <2>6. Content(m, 0, d)'
    BY <1>1, <1>3, <1>4, <1>5, <2>2, <2>3, <2>4, <2>5 DEF Content, Room
  <2>7. 0 < Half
    BY Halves
  <2>8. Initialising(m, 0, d)'
    BY <1>1, <1>4, <2>3, <2>5, <2>7 DEF Initialising, Committing
  <2>9. Calibrating(m, 0, d)' /\ Loaded'
    BY <1>1, <1>3, <1>4, <2>2, <2>3, <2>5, <2>7 DEF Calibrating, Committing, Loaded
  <2>10. 0 \in -1..Half /\ d \in {Zero, latest'}
    BY <1>1, <2>3, Halves
  <2> QED
    BY <2>6, <2>8, <2>9, <2>10 DEF Section
<1>7. CASE WriteBlob \/ WriteLast
  <2>1. /\ pc = "blob" /\ k = written /\ c = blob /\ k < Half
        /\ Program(Target, Low, High)
    BY <1>1, <1>3, <1>4, <1>7 DEF WriteBlob, WriteLast, Initialising, Calibrating
  <2>2. ~durable /\ k \in 0..(Half - 1)
    BY <1>3, <2>1, Halves DEF Content, TypeInv, TypeOK
  <2>3. /\ Target = 4 * m + 8 + 8 * k
        /\ Low = Padded(c, 2 * k + 1) /\ High = Padded(c, 2 * k + 2)
    BY <1>4, <2>1 DEF Target, BlobAt, Low, High, WordOf, Padded
  <2>4. PageIs(m, k + 1, c)' /\ Programmed(Target, Low, High)
    BY <1>3, <1>5, <2>1, <2>2, <2>3, PageBlob
  <2>5. k + 1 \in -1..Half /\ k + 1 \in Nat /\ c \in {Zero, latest'}
    BY <1>1, <2>2, Halves
  <2>6. CASE WriteBlob
    <3>1. /\ pc' = "blob" /\ written' = k + 1 /\ durable' = durable
          /\ UNCHANGED <<flash_addr, prev_flash_addr>>
      BY <2>1, <2>4, <2>6 DEF WriteBlob, storage, history
    <3>2. k + 1 < Half
      BY <2>1, <2>2, <2>6, Halves, Sizes DEF WriteBlob
    <3>3. Content(m, k + 1, c)'
      BY <1>1, <1>3, <1>5, <2>2, <2>4, <3>1 DEF Content, Room
    <3>4. Initialising(m, k + 1, c)'
      BY <1>1, <1>3, <1>4, <2>1, <3>1, <3>2 DEF Initialising, Committing
    <3>5. Calibrating(m, k + 1, c)' /\ Loaded'
      BY <1>1, <1>3, <1>4, <2>1, <2>2, <3>1, <3>2 DEF Calibrating, Committing, Loaded
    <3> QED
      BY <2>5, <3>3, <3>4, <3>5 DEF Section
  <2>7. CASE WriteLast
    <3>1. k + 1 = Half
      BY <2>1, <2>2, <2>7, Halves, Sizes DEF WriteLast
    <3>2. /\ prev_flash_addr' = 4 * m /\ flash_addr' = Aligned(4 * m + 8 + BlobBytes)
          /\ durable' = (durable \/ caller = "client")
          /\ pc' = AfterCommit
      BY <1>4, <2>4, <2>7 DEF WriteLast
    <3>3. /\ pc' \in {"loaded", "halt"}
          /\ caller = "client" => pc' = "halt" /\ durable'
          /\ caller = "init" => pc' = "loaded" /\ ~durable'
      BY <1>3, <1>4, <2>2, <3>2 DEF AfterCommit
    <3>4. Content(m, k + 1, c)'
      BY <1>1, <1>3, <1>4, <1>5, <2>1, <2>4, <3>1, <3>3 DEF Content, Room
    <3>5. Initialising(m, k + 1, c)'
      BY <3>3 DEF Initialising, Committing
    <3>6. Calibrating(m, k + 1, c)'
      BY <1>1, <1>3, <1>4, <2>1, <3>1, <3>2, <3>3, SecondBase DEF Calibrating, Committing
    <3>7. Loaded'
      <4> SUFFICES ASSUME pc' = "loaded"
                   PROVE  ~durable' /\ \A i \in 1..BlobWords : blob'[i] = 0
        BY DEF Loaded, WholeWord
      <4>1. caller = "init" /\ blob' = Zero /\ ~durable'
        BY <1>1, <1>3, <1>4, <3>3
      <4> QED
        BY <4>1 DEF Zero
    <3> QED
      BY <2>5, <3>4, <3>5, <3>6, <3>7 DEF Section
  <2> QED
    BY <1>7, <2>6, <2>7
<1> QED
  BY <1>6, <1>7

LEMMA RestCalibrated ==
  ASSUME TypeInv, Started, Calibrated, Reset \/ UNCHANGED vars
  PROVE  Calibrated'
<1> SUFFICES ASSUME author' = "calibrator"
             PROVE  \E m \in {0, Second}, k \in -1..Half, c \in {Zero, latest'} : Section(m, k, c)'
  BY DEF Calibrated
<1>1. history' = history /\ flash' = flash /\ author = "calibrator" /\ latest' = latest
  BY DEF Reset, vars, history
<1>2. PICK m \in {0, Second}, k \in -1..Half, c \in {Zero, latest} : Section(m, k, c)
  BY <1>1 DEF Calibrated
<1>3. Content(m, k, c)'
  BY <1>1, <1>2, ContentKept DEF Section
<1>4. CASE Reset
  BY <1>1, <1>3, <1>4 DEF Reset, Section, Initialising, Calibrating, Committing, Loaded
<1>5. CASE UNCHANGED vars
  BY <1>1, <1>2, <1>3, <1>5
  DEF vars, storage, history, Section, Initialising, Calibrating, Committing, Loaded, WholeWord
<1> QED
  BY <1>4, <1>5
-----------------------------------------------------------------------------
(* The invariant, and what follows from it. *)

LEMMA CalibrationInvariant == Spec => []IInv
<1>1. Init => IInv
  BY InitTypes DEF Init, IInv, Started, Calibrated
<1>2. IInv /\ [Next]_vars => IInv'
  <2> SUFFICES ASSUME TypeInv, Started, Calibrated, [Next]_vars PROVE IInv'
    BY DEF IInv
  <2>1. TypeInv' /\ Started'
    BY NextTypes, StartedKept
  <2>2. Calibrated'
    BY StartCalibrated, ScanCalibrated, CommitCalibrated, RoomCalibrated, WriteCalibrated,
       RestCalibrated DEF Next, Step
  <2> QED
    BY <2>1, <2>2 DEF IInv
<1> QED
  BY <1>1, <1>2, PTL DEF Spec, Safety

\* After a reset at whatever point of a calibration the front controller uses, for
\* each pedal's limits, the new value or the default, and for the opamp offset the new
\* value or what an unwritten word holds; after a calibration that has been
\* committed it loads that one.
THEOREM PersistPedals == Spec => []PedalsAreLoaded
<1>1. IInv => PedalsAreLoaded
  BY DEF IInv, Calibrated, Section, Loaded, WholeWord,
         PedalsAreLoaded, CalibrationIsLoaded, PedalsAreWhole, ReaderHasLoaded,
         Used, Default
<1> QED
  BY CalibrationInvariant, <1>1, PTL

\* The calibrator and the front controller never write a section over another.
THEOREM PersistErased == Spec => []SectionsGoToErasedFlash
<1>1. IInv => SectionsGoToErasedFlash
  <2> SUFFICES ASSUME IInv, author = "calibrator", pc \in {"header", "blob"}
               PROVE  /\ pc = "header" => CanProgram(flash_addr, Erased, BlobBytes)
                      /\ pc = "blob" => CanProgram(Target, Low, High)
    BY DEF SectionsGoToErasedFlash
  <2>1. PICK m \in {0, Second}, k \in -1..Half, c \in {Zero, latest} : Section(m, k, c)
    BY DEF IInv, Calibrated
  <2>2. /\ PageIs(m, k, c) /\ flash_addr = 4 * m
        /\ pc = "header" => k = -1
        /\ pc = "blob" => k = written /\ written < Half
    BY <2>1 DEF Section, Content, Initialising, Calibrating, Committing, IInv, TypeInv, TypeOK
  <2>3. TypeInv /\ Room(m) /\ (pc = "blob" => k \in 0..(Half - 1))
    BY <2>2, Bases, Halves, Sizes DEF IInv, TypeInv, TypeOK, RoomToWrite, NoRoom, Room
  <2>4. CASE pc = "header"
    BY <2>2, <2>3, <2>4, CanWriteHeader
  <2>5. CASE pc = "blob"
    <3>1. Target = 4 * m + 8 + 8 * k
      BY <2>2, <2>5 DEF Target, BlobAt
    <3> QED
      BY <2>2, <2>3, <2>5, <3>1, CanWriteBlob
  <2> QED
    BY <2>4, <2>5
<1> QED
  BY CalibrationInvariant, <1>1, PTL
=============================================================================
