----------------------------- MODULE FotaLinkMC -----------------------------
(* Values of the constants of FotaLink for TLC: a datagram whose only data    *)
(* packet has a single byte over, and one of two packets.                     *)
EXTENDS FotaLink

MCDatagrams == {1, 2}
MCParts     == <<1, 2>>
MCLastBytes == <<5, 6>>
=============================================================================
