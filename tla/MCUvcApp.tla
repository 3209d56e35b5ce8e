------------------------------ MODULE MCUvcApp ------------------------------
(* A small instance of UvcApp for TLC. *)
EXTENDS UvcApp

MCNumFrames == <<1, 2>>
(* A frame that only the other format has, and indices beyond the table.    *)
MCPicks == {[fmt |-> 1, frm |-> 2], [fmt |-> 3, frm |-> 0]}
MCMayFail == UNION {ToSet(Steps(f)) : f \in Formats}
               \cup {"uvc stop", "stream on", "stream off"}
=============================================================================
