----------------------------- MODULE MCSerialLine -----------------------------
(* Constants of the TLC run of SerialLine. *)
EXTENDS SerialLine

CONSTANT free

\* Two states that differ in the dampers, two that differ in the fan only.
MCStates == {[damper |-> <<1, 0, 0>>, fan |-> 1, locks |-> free],
             [damper |-> <<1, 0, 0>>, fan |-> 0, locks |-> free],
             [damper |-> <<0, 2, 0>>, fan |-> 1, locks |-> free]}
=============================================================================
