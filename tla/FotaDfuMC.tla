------------------------------ MODULE FotaDfuMC -----------------------------
(* Values of the constants of FotaDfu for TLC.  Pages are of two cells, the    *)
(* application's region begins at cell 6 and staging four cells on, with room  *)
(* for 48 bytes.  An announcement erases from page 2 = cell 4 on: of the rest  *)
(* of the bootloader's region, and from the second page of an image on of the  *)
(* application's.  The images, by size: 1 fills the application's own cells;   *)
(* 2 fits in a page, and its chunks of 12 bytes leave the next one misaligned; *)
(* 3 reaches into staging; 4 ends in half a word and is announced with a CRC   *)
(* of 0; 5 reaches past the end of the flash, and so does the computation of   *)
(* its CRC; and 6 has more pages than num_pages counts (nine, modulo eight).   *)
EXTENDS FotaDfu

MCImages    == 1 .. 6
MCSize      == <<32, 16, 44, 22, 64, 144>>
MCChunkSize == <<16, 12, 16, 16, 16, 16>>
MCZeroCrc   == {4}
=============================================================================
