--------------------------- MODULE MCPcivChannel ---------------------------
(* A small instance of PcivChannel for TLC. *)
EXTENDS PcivChannel

(* A session without faults, one in which answers come in time, one in      *)
(* which anything can go wrong.                                             *)
MCSessions == {{}, {"msg", "dma"}, {"msg", "dma", "base", "vb", "late"}}
=============================================================================
