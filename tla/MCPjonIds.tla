------------------------------ MODULE MCPjonIds ------------------------------
(* Constants of the TLC run of PjonIds. *)
EXTENDS PjonIds, TLC

CONSTANTS a, b

MCOthers == {a, b}
MCIds == {1, 2, 3}
MCOpen == {90}
MCInstalled == {3}
MCRefused == Message({"PRESSUREINFO"}, {0})
MCForeign ==
    [id : {0, 1, 3}, type : {"PJONID_SET"}, val : {3}]
    \cup [id : {0}, type : {"PJONID_DOAUTO"}, val : {0}]
    \cup [id : {0, 1}, type : {"PJONID_INFO"}, val : {2}]
    \cup [id : {0}, type : {"UPDATESETTINGS"}, val : MCOpen]
    \cup [id : {1}, type : {"PJONID_QUESTION", "WRONGLENGTH", "PRESSUREINFO"}, val : {0}]
\* Those of them that are buffered, and what the neighbours answer.
MCAccepted ==
    (MCForeign \ MCRefused) \cup [id : {1}, type : {"PJONID_INFO"}, val : ValidIds]
MCSymmetry == Permutations(MCOthers)
=============================================================================
