------------------------------ MODULE PersistMC ------------------------------
(***************************************************************************)
(* Finite instances of Persist.                                            *)
(***************************************************************************)
EXTENDS Persist

\* Two blobs with no word in common; as the scan may read them, a distance to
\* the end of a section, one past it and one that leaves it unaligned.
MCBlobs == {<<4, 4, 4>>, <<8, 12, 3>>}
=============================================================================
