------------------------------ MODULE Chaincast ------------------------------
(***************************************************************************)
(* Chaincasting (firmware/dampercontrol/src/comm.cpp): how a damper        *)
(* command climbs the ladder of controller ids, collecting in its "reach"  *)
(* field the dampers whose controllers have handled it, and descends again *)
(* once every damper is in; and the receive buffer in front of the         *)
(* handler.  The fan target is set on the way down only                    *)
(* (main.cpp handle_damper_cmd).                                           *)
(*                                                                         *)
(* A node's main loop alternates between serial input and task_pjon, which *)
(* receives at most one packet and then handles everything buffered.  The  *)
(* bus is PJON, a library: packets to one id wait in a queue from which it *)
(* may lose them, deliver them again after a lost acknowledgement, or      *)
(* deliver them out of order after a retry, as far as Faults allows.       *)
(*                                                                         *)
(* A definition named Something_Variant is a faulty version of Something,  *)
(* used only to show that a property would notice the fault.               *)
(***************************************************************************)
EXTENDS Integers, Sequences, FiniteSets

CONSTANTS
    N,               \* controllers have the PJON ids 1..N
    Dampers,         \* the dampers of the building
    InstalledAt,     \* which of them each controller drives
    DamperCmds,      \* damper commands somebody may send, each at most once
    SettingsCmds,    \* settings updates somebody may send, each at most once
    FanOf,           \* the fan a damper command asks for
    LaminaOf,        \* the laminar-flow fan it asks for
    OpensLamina,     \* the damper commands that do not close the lamina damper
    NoCmd,           \* "nothing received since boot"
    Injectors,       \* controllers with a serial console in use
    Destinations,    \* ids the console sends each command to: 1, or 0 for everybody
    Faults,          \* what the bus and the power may do to us
    PJON_MSGBUF_LEN, \* slots of the receive buffer (3 in the code)
    MaxPackets       \* packets PJON holds for one destination

Nodes == 1 .. N
Cmds == DamperCmds \cup SettingsCmds
FanCmds == {"FAN_OFF", "FAN_ON"}
BROADCAST == 0

ASSUME ChainAssumption ==
    /\ N \in Nat \ {0}
    /\ InstalledAt \in [Nodes -> SUBSET Dampers]
    /\ Injectors \subseteq Nodes
    /\ Destinations \in [Cmds -> SUBSET (Nodes \cup {BROADCAST})]
    /\ PJON_MSGBUF_LEN \in Nat \ {0}
    /\ MaxPackets \in Nat

ASSUME CommandAssumption ==
    /\ FanOf \in [DamperCmds -> FanCmds]
    /\ LaminaOf \in [DamperCmds -> FanCmds]
    /\ OpensLamina \subseteq DamperCmds
    /\ DamperCmds \cap SettingsCmds = {}
    /\ NoCmd \notin Cmds

ASSUME FaultAssumption == Faults \subseteq {"loss", "retry", "reorder", "reboot"}

VARIABLES
    net,        \* net[n]: packets on their way to n
    msgbuf,     \* msgbuf[n]: pjon_msgbuf, the filled slots from the oldest on
    handling,   \* handling[n]: inside pjon_postrecv_handle_msg
    dampers,    \* dampers[n]: the command n's damper targets come from
    settings,   \* settings[n]: the update n's open positions come from
    fan,        \* fan[n]: fan_target_state
    lamina,     \* lamina[n]: fanlamina_target_state
    \* what an observer remembers
    fanBy,      \* fanBy[n]: the command that last set n's fan target
    reached,    \* reached[c]: dampers whose controller has handled c
    sent        \* the commands injected so far, in order

node == <<msgbuf, handling, dampers, settings, fan, lamina>>
vars == <<net, node, fanBy, reached, sent>>

Messages == [id : Nodes \cup {BROADCAST}, cmd : Cmds, reach : SUBSET Dampers]

TypeOK ==
    /\ net \in [Nodes -> Seq(Messages)]
    /\ msgbuf \in [Nodes -> Seq(Messages)]
    /\ \A n \in Nodes : Len(msgbuf[n]) <= PJON_MSGBUF_LEN
    /\ handling \in [Nodes -> BOOLEAN]
    /\ dampers \in [Nodes -> DamperCmds \cup {NoCmd}]
    /\ settings \in [Nodes -> SettingsCmds \cup {NoCmd}]
    /\ fan \in [Nodes -> FanCmds] /\ lamina \in [Nodes -> FanCmds]
    /\ fanBy \in [Nodes -> DamperCmds \cup {NoCmd}]
    /\ reached \in [Cmds -> SUBSET Dampers]
    /\ sent \in Seq(Cmds)

Init ==
    /\ net = [n \in Nodes |-> << >>]
    /\ msgbuf = [n \in Nodes |-> << >>]
    /\ handling = [n \in Nodes |-> FALSE]
    /\ dampers = [n \in Nodes |-> NoCmd]
    /\ settings = [n \in Nodes |-> NoCmd]
    /\ fan = [n \in Nodes |-> "FAN_OFF"]
    /\ lamina = [n \in Nodes |-> "FAN_OFF"]
    /\ fanBy = [n \in Nodes |-> NoCmd]
    /\ reached = [c \in Cmds |-> {}]
    /\ sent = << >>

-----------------------------------------------------------------------------
(* The bus and the receive buffer *)

\* pjonbus_.send: queue msg for the controllers in dests; ids nobody has, and
\* packets that find PJON's packet list full, are lost.
Send(dests, msg) ==
    net' = [n \in Nodes |->
              IF n \in dests /\ Len(net[n]) < MaxPackets
              THEN Append(net[n], msg) ELSE net[n]]

WithoutAt(s, k) ==
    [j \in 1 .. Len(s) - 1 |-> IF j < k THEN s[j] ELSE s[j + 1]]

\* pjon_recv_handler: three slots used round robin; one message too many
\* overwrites the oldest.
Buffered_Grows(buf, msg) == Append(buf, msg)
Buffered(buf, msg) ==
    IF Len(buf) < PJON_MSGBUF_LEN THEN Append(buf, msg)
    ELSE Append(Tail(buf), msg)

\* pjon_inject_msg for a command typed at controller n.
Inject(n, dst, c) ==
    /\ ~handling[n]
    /\ \A k \in 1 .. Len(sent) : sent[k] # c
    /\ sent' = Append(sent, c)
    /\ msgbuf' = [msgbuf EXCEPT ![n] =
          IF dst \in {n, BROADCAST}
          THEN Buffered(@, [id |-> n, cmd |-> c, reach |-> {}]) ELSE @]
    /\ Send(IF dst = BROADCAST THEN Nodes \ {n} ELSE {dst} \ {n},
            [id |-> dst, cmd |-> c, reach |-> {}])
    /\ UNCHANGED <<handling, dampers, settings, fan, lamina, fanBy, reached>>

\* task_pjon: receive at most one packet, then start on the buffer.  After a
\* lost acknowledgement the sender keeps a packet and will send it again.
Receive(n, k, again) ==
    /\ ~handling[n]
    /\ k \in 1 .. Len(net[n])
    /\ k = 1 \/ "reorder" \in Faults
    /\ again => "retry" \in Faults /\ net[n][k].id # BROADCAST
    /\ msgbuf' = [msgbuf EXCEPT ![n] = Buffered(@, net[n][k])]
    /\ net' = IF again THEN net ELSE [net EXCEPT ![n] = WithoutAt(@, k)]
    /\ handling' = [handling EXCEPT ![n] = TRUE]
    /\ UNCHANGED <<dampers, settings, fan, lamina, fanBy, reached, sent>>

\* task_pjon with nothing on the bus but injected messages in the buffer.
ReceiveNothing(n) ==
    /\ ~handling[n]
    /\ msgbuf[n] # << >>
    /\ handling' = [handling EXCEPT ![n] = TRUE]
    /\ UNCHANGED <<net, msgbuf, dampers, settings, fan, lamina, fanBy, reached,
                   sent>>

-----------------------------------------------------------------------------
(* Handling a chaincast message *)

\* pjon_chaincast_didreachall
DidReachAll_Any(reach) == reach # {}
DidReachAll(reach) == reach = Dampers

\* The reach field on arrival at n, with n's own dampers added.
NewReach_Missing(n, msg) == msg.reach \cup (Dampers \ InstalledAt[n])
NewReach(n, msg) == msg.reach \cup InstalledAt[n]

\* pjon_chaincast_forward: up until every damper is in, then down; messages
\* that came as a broadcast stay where they are.
NextIds_UpOnly(n, msg) == IF msg.id = BROADCAST THEN {} ELSE {n + 1}
NextIds_Clamped(n, msg) ==
    IF DidReachAll(NewReach(n, msg)) THEN {IF n = 1 THEN 1 ELSE n - 1}
    ELSE {n + 1}
NextIds(n, msg) ==
    IF msg.id = BROADCAST THEN {}
    ELSE IF DidReachAll(NewReach(n, msg)) THEN {n - 1} ELSE {n + 1}

\* handle_damper_cmd: fans on the second pass only, dampers always.
handle_damper_cmd(n, didreachall, c) ==
    /\ dampers' = [dampers EXCEPT ![n] = c]
    /\ fan' = [fan EXCEPT ![n] = IF didreachall THEN FanOf[c] ELSE @]
    /\ lamina' = [lamina EXCEPT ![n] =
          IF didreachall /\ c \in OpensLamina THEN LaminaOf[c] ELSE @]
    /\ fanBy' = [fanBy EXCEPT ![n] = IF didreachall THEN c ELSE @]
    /\ UNCHANGED settings

updateSettingsFromPacket(n, c) ==
    /\ settings' = [settings EXCEPT ![n] = c]
    /\ UNCHANGED <<dampers, fan, lamina, fanBy>>

\* One round of pjon_postrecv_handle_msg: free the oldest slot, then handle and
\* forward its message.
pjon_chaincast_recv_handler(n) ==
    /\ handling[n] /\ msgbuf[n] # << >>
    /\ LET msg == Head(msgbuf[n])
           reach == NewReach(n, msg)
       IN  /\ IF msg.cmd \in DamperCmds
              THEN handle_damper_cmd(n, DidReachAll(reach), msg.cmd)
              ELSE updateSettingsFromPacket(n, msg.cmd)
           /\ Send(NextIds(n, msg), [id |-> IF DidReachAll(reach) THEN n - 1 ELSE n + 1,
                                     cmd |-> msg.cmd, reach |-> reach])
           /\ reached' = [reached EXCEPT ![msg.cmd] = @ \cup InstalledAt[n]]
    /\ msgbuf' = [msgbuf EXCEPT ![n] = Tail(@)]
    /\ handling' = [handling EXCEPT ![n] = Len(msgbuf[n]) > 1]
    /\ UNCHANGED sent

-----------------------------------------------------------------------------
(* Faults *)

\* PJON gives a packet up, or an unacknowledged broadcast is not heard.
Lose(n, k) ==
    /\ "loss" \in Faults
    /\ k \in 1 .. Len(net[n])
    /\ net' = [net EXCEPT ![n] = WithoutAt(@, k)]
    /\ UNCHANGED <<node, fanBy, reached, sent>>

\* A controller restarts: buffer, targets and open positions are lost.  Its id and
\* its dampers are the same again: somebody has to enter them anew (see PjonIds),
\* and until then it hears nothing.
Reboot(n) ==
    /\ "reboot" \in Faults
    /\ msgbuf' = [msgbuf EXCEPT ![n] = << >>]
    /\ handling' = [handling EXCEPT ![n] = FALSE]
    /\ dampers' = [dampers EXCEPT ![n] = NoCmd]
    /\ settings' = [settings EXCEPT ![n] = NoCmd]
    /\ fan' = [fan EXCEPT ![n] = "FAN_OFF"]
    /\ lamina' = [lamina EXCEPT ![n] = "FAN_OFF"]
    /\ fanBy' = [fanBy EXCEPT ![n] = NoCmd]
    /\ UNCHANGED <<net, reached, sent>>

-----------------------------------------------------------------------------
task_pjon(n) ==
    \/ \E k \in 1 .. Len(net[n]), again \in BOOLEAN : Receive(n, k, again)
    \/ ReceiveNothing(n)
    \/ pjon_chaincast_recv_handler(n)

Next ==
    \/ \E n \in Injectors, c \in Cmds : \E dst \in Destinations[c] :
          Inject(n, dst, c)
    \/ \E n \in Nodes : task_pjon(n)
    \/ \E n \in Nodes : \E k \in 1 .. Len(net[n]) : Lose(n, k)
    \/ \E n \in Nodes : Reboot(n)

Spec == Init /\ [][Next]_vars

\* Every controller's main loop keeps calling task_pjon.
FairSpec == Spec /\ \A n \in Nodes : WF_vars(task_pjon(n))

-----------------------------------------------------------------------------
(* Safety *)

TrueOf(s) == \A k \in 1 .. Len(s) : s[k].reach \subseteq reached[s[k].cmd]

\* comm.cpp:199,203: the reach field never claims a damper whose controller has
\* not handled the command, whatever the bus loses, repeats or reorders.
ReachIsTrue == \A n \in Nodes : TrueOf(net[n]) /\ TrueOf(msgbuf[n])

\* main.cpp:154-158,415: a fan target comes from a command that the controllers
\* of all dampers have handled.
FanAfterAllDampers ==
    \A n \in Nodes : fanBy[n] # NoCmd => reached[fanBy[n]] = Dampers

\* Nothing is being sent, buffered or handled.
Quiet == \A n \in Nodes : net[n] = << >> /\ msgbuf[n] = << >>

\* The controllers a chaincast visits: up to the first at which the reach field
\* is complete.
Ladder ==
    {n \in Nodes : UNION {InstalledAt[k] : k \in 1 .. n - 1} # Dampers}

LastSent(cmds) ==
    LET D == {k \in 1 .. Len(sent) : sent[k] \in cmds}
    IN  IF D = {} THEN NoCmd
        ELSE sent[CHOOSE k \in D : \A j \in D : j <= k]

\* comm.cpp:193-206: when the bus is quiet again, every controller follows the
\* last command sent, dampers and fan alike, although its two passes crossed
\* those of the commands before it.
QuietMeansAgreed ==
    Quiet =>
        \A n \in Ladder : /\ dampers[n] = LastSent(DamperCmds)
                          /\ fanBy[n] = LastSent(DamperCmds)
                          /\ settings[n] = LastSent(SettingsCmds)

\* comm.cpp:253-275: a message climbs and descends the ladder once and is then gone, so that
\* the bus becomes quiet and stays so, whichever passes cross on it.
EventuallyQuiet == <>[]Quiet

-----------------------------------------------------------------------------
(* What chaincasting promises, without messages: see TwoPass. *)
Promise == INSTANCE TwoPass WITH acked <- reached
PromiseKept == Promise!Spec
=============================================================================
