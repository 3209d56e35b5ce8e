---------------------------- MODULE MCPcivTrans ----------------------------
(* Small instances of PcivTrans for TLC. *)
EXTENDS PcivTrans

MCNoFaults == {}
MCTimeouts == {"timeout"}
MCAllFaults == {"dma", "msg", "empty", "timeout"}
=============================================================================
