--------------------------- MODULE MCPcntlSignals ---------------------------
(* Small instances of PcntlSignals for TLC. *)
EXTENDS PcntlSignals

CONSTANTS s1, s2
=============================================================================
