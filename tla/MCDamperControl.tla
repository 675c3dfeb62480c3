--------------------------- MODULE MCDamperControl ---------------------------
(* Constants of the TLC runs of DamperControl. *)
EXTENDS DamperControl

MCBoth == {0, 1}
MCFirst == {0}
MCNone == {}
MCOpen == {2}
MCOpen80 == {80}
MCOpenTwo == {2, 3}
=============================================================================
