----------------------------- MODULE MCChaincast -----------------------------
(* Constants of the TLC runs of Chaincast. *)
EXTENDS Chaincast, TLC

CONSTANTS c1, c2, s1, d0, d1, d2

\* firmware/dampercontrol/README.md:58-98: controller 1 drives dampers 0 and 1,
\* controller 2 damper 2 and the fan.
MCDeployed == <<{d0, d1}, {d2}>>
\* One damper each, and a controller above the one that completes the reach.
MCLadder == <<{d0}, {d1}, {d2}, {}>>

MCDampers == {d0, d1, d2}
MCFanOf == c1 :> "FAN_ON" @@ c2 :> "FAN_OFF"
MCLaminaOf == c1 :> "FAN_ON" @@ c2 :> "FAN_OFF"
MCOpensLamina == {c1}
MCTwo == {c1, c2}
MCSettings == {s1}
MCNone == {}
MCConsole == {1}
MCToFirst == [c \in {c1, c2, s1} |-> {1}]
\* The first command may also be typed as a broadcast.
MCToAll == [MCToFirst EXCEPT ![c1] = {0, 1}]
MCAllFaults == {"loss", "retry", "reorder", "reboot"}
=============================================================================
