----------------------------- MODULE MCPcivCtl -----------------------------
(* Small instances of PcivCtl for TLC. *)
EXTENDS PcivCtl

\* One chip, and processes that die at any point and ports that are refused on either
\* side; two chips, and all of that but a host that is killed; or one chip, and messages
\* that are lost and late.
Refusals == {"open", "sopen", "vb", "media"}
MCSetups == {<<1, Refusals \cup {"kill", "skill"}>>, <<2, Refusals \cup {"skill"}>>,
             <<1, {"msg", "late", "open", "vb"}>>}
MCOneChip == {<<1, {}>>}
=============================================================================
