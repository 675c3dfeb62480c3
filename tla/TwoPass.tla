------------------------------- MODULE TwoPass -------------------------------
(***************************************************************************)
(* What chaincasting promises (comm.cpp:193-206, main.cpp:150-158) without *)
(* the ladder, the bus or the buffers: controllers acknowledge a command   *)
(* in any order, and a fan follows a command only once the controllers of  *)
(* all dampers have.                                                       *)
(***************************************************************************)
CONSTANTS Nodes, Dampers, InstalledAt, Cmds, DamperCmds, NoCmd

VARIABLES
    acked,   \* acked[c]: dampers whose controller has handled c
    fanBy    \* fanBy[n]: the command n's fan follows

Init ==
    /\ acked = [c \in Cmds |-> {}]
    /\ fanBy = [n \in Nodes |-> NoCmd]

Acked(n, c) == [acked EXCEPT ![c] = @ \cup InstalledAt[n]]

\* First pass: n's dampers obey c.
Acknowledge(n, c) == acked' = Acked(n, c) /\ UNCHANGED fanBy

\* Second pass: n's fan obeys c as well.
Commit(n, c) ==
    /\ Acked(n, c)[c] = Dampers
    /\ acked' = Acked(n, c)
    /\ fanBy' = [fanBy EXCEPT ![n] = c]

\* n restarts and its fan stops.
Forget(n) == fanBy' = [fanBy EXCEPT ![n] = NoCmd] /\ UNCHANGED acked

Next ==
    \E n \in Nodes :
        \/ \E c \in Cmds : Acknowledge(n, c)
        \/ \E c \in DamperCmds : Commit(n, c)
        \/ Forget(n)

Spec == Init /\ [][Next]_<<acked, fanBy>>
=============================================================================
