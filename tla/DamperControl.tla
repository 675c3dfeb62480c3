---------------------------- MODULE DamperControl ----------------------------
(***************************************************************************)
(* One damper microcontroller (firmware/dampercontrol/src/main.cpp): the   *)
(* motors and light barriers of its ventilation dampers, the two interrupt *)
(* routines that move them, and the main loop that takes commands and      *)
(* switches the fans.                                                      *)
(*                                                                         *)
(* Three actors interleave.  The hardware turns each damper disk while its *)
(* motor runs (Rotate) and raises the pin-change interrupt when a disk     *)
(* enters or leaves its light barrier.  The interrupt routines             *)
(* (task_check_endstops, task_control_dampers) run to completion and       *)
(* preempt the main loop.  The main loop (serial input, PJON messages,     *)
(* task_control_fan, overflow check) reads the ISR's state one damper at a *)
(* time, so a tick may fall between any two of its reads.                  *)
(*                                                                         *)
(* Names are those of the C++ source; the suffix "_" is dropped.           *)
(*                                                                         *)
(* A definition named Something_Variant is a faulty version of Something,  *)
(* used only to show that a property would notice the fault.               *)
(***************************************************************************)
EXTENDS Integers, FiniteSets

CONSTANTS
    NUM_DAMPER,        \* number of dampers the protocol knows (3 in the code)
    LAMINA_DAMPER_ID,  \* the damper of the laminar-flow bench
    WRAP,              \* damper_states is a uint8_t: it counts modulo 256
    Installed,         \* damper_installed: dampers wired to this controller
    OpenPositions,     \* values damper_open_pos may hold
    Fragile,           \* dampers whose light barrier may break
    Glitchy,           \* dampers whose barrier the ceiling light can trigger
    MinTurn, MaxTurn,  \* a full turn of a disk takes MinTurn..MaxTurn ticks
    Window             \* ticks of a turn during which the barrier is LOW

Dampers == 0 .. NUM_DAMPER - 1

ASSUME SizeAssumption ==
    /\ NUM_DAMPER \in Nat \ {0}
    /\ LAMINA_DAMPER_ID \in Dampers
    /\ WRAP \in Nat \ {0, 1}
    /\ OpenPositions \subseteq 0 .. WRAP - 1
    /\ OpenPositions # {}

ASSUME WiringAssumption ==
    /\ Installed \subseteq Dampers
    /\ Fragile \subseteq Dampers
    /\ Glitchy \subseteq Dampers

ASSUME TurnAssumption ==
    /\ MinTurn \in Nat /\ MaxTurn \in Nat /\ Window \in Nat
    /\ 0 < Window /\ Window < MinTurn /\ MinTurn <= MaxTurn

DamperCmds == {"DAMPER_CLOSED", "DAMPER_OPEN", "DAMPER_HALFOPEN"}
FanCmds == {"FAN_OFF", "FAN_ON"}
Commands == [damper : [Dampers -> DamperCmds], fan : FanCmds, fanlamina : FanCmds]

VARIABLES
    \* shared between the interrupt routines and the main loop
    damper_states, damper_target_states, damper_state_overflowed,
    damper_endstop_reached, motor,
    \* main loop only
    fan_target_state, fanlamina_target_state, fan, fanlamina, damper_open_pos,
    pc, i, rv,
    \* hardware
    pos,     \* ticks of motion since the disk's slit was last at the barrier
    phase,   \* "rotate": disks move next; "tick": the timer fires next
    pcint,   \* a pin changed: the pin-change interrupt is pending
    broken,  \* dampers whose light barrier has broken
    \* what the bus and an observer have seen
    errors,  \* dampers a DAMPER_CONTROL_TIMEOUT was broadcast for since boot
    homed,   \* dampers whose counter was set by the barrier since boot
    homedBefore \* the value of homed when task_control_fan last began

config == <<damper_open_pos, broken>>
isr == <<damper_states, damper_endstop_reached, motor>>
fans == <<fan_target_state, fanlamina_target_state, fan, fanlamina>>
loop == <<pc, i, rv>>
hw == <<pos, phase, pcint>>
seen == <<errors, homed, homedBefore>>
vars == <<damper_target_states, damper_state_overflowed, config,
          isr, fans, loop, hw, seen>>

\* Where the main loop can be interrupted.
LoopPoints == {"serial", "pjon", "fanReached", "fanClosed", "lamina",
               "laminaReached", "overflow"}

TypeOK ==
    /\ damper_states \in [Dampers -> 0 .. WRAP - 1]
    /\ damper_target_states \in [Dampers -> 0 .. WRAP - 1]
    /\ damper_open_pos \in [Dampers -> OpenPositions]
    /\ damper_state_overflowed \in [Dampers -> BOOLEAN]
    /\ damper_endstop_reached \in [Dampers -> BOOLEAN]
    /\ motor \in [Dampers -> BOOLEAN]
    /\ fan_target_state \in FanCmds /\ fanlamina_target_state \in FanCmds
    /\ fan \in BOOLEAN /\ fanlamina \in BOOLEAN
    /\ pc \in LoopPoints /\ i \in Dampers /\ rv \in BOOLEAN
    /\ pos \in [Dampers -> 0 .. MaxTurn - 1]
    /\ phase \in {"rotate", "tick"} /\ pcint \in BOOLEAN
    /\ broken \subseteq Fragile
    /\ errors \subseteq Dampers /\ homed \subseteq Dampers
    /\ homedBefore \subseteq Dampers

-----------------------------------------------------------------------------
(* Boot and reboot *)

\* What the initialisers, initPINs and zeroed RAM leave behind: motors and fans
\* off, counters at 1 so that every installed damper seeks the barrier.
Booted(s, t, o, e, m, ft, lt, f, l, p, ii, r, pci, er, h, hb) ==
    /\ s = [d \in Dampers |-> 1]
    /\ t = [d \in Dampers |-> 0]
    /\ o = [d \in Dampers |-> FALSE]
    /\ e = [d \in Dampers |-> FALSE]
    /\ m = [d \in Dampers |-> FALSE]
    /\ ft = "FAN_OFF" /\ lt = "FAN_OFF" /\ f = FALSE /\ l = FALSE
    /\ p = "serial" /\ ii = 0 /\ r = TRUE
    /\ pci = FALSE /\ er = {} /\ h = {} /\ hb = {}

Init ==
    /\ Booted(damper_states, damper_target_states, damper_state_overflowed,
              damper_endstop_reached, motor, fan_target_state,
              fanlamina_target_state, fan, fanlamina, pc, i, rv, pcint,
              errors, homed, homedBefore)
    /\ damper_open_pos \in [Dampers -> OpenPositions]
    /\ pos \in [Dampers -> 0 .. MaxTurn - 1]
    /\ phase = "rotate"
    /\ broken = {}

\* Power loss, or the '!' command entering the bootloader: RAM is lost, the
\* disks stay where they are and the settings come back from the EEPROM.
Reboot ==
    /\ Booted(damper_states', damper_target_states', damper_state_overflowed',
              damper_endstop_reached', motor', fan_target_state',
              fanlamina_target_state', fan', fanlamina', pc', i', rv', pcint',
              errors', homed', homedBefore')
    /\ UNCHANGED <<config, pos, phase>>

-----------------------------------------------------------------------------
(* The hardware *)

\* The light barrier of d pulls its input LOW; a broken one leaves the pull-up.
PinLow(d, p) == d \notin broken /\ p[d] < Window

\* Where the disk of d may be one tick later.
DiskStep(d) ==
    IF ~motor[d] THEN {pos[d]}
    ELSE {p \in 0 .. MaxTurn - 1 :
            \/ p = pos[d] + 1
            \/ p = 0 /\ pos[d] + 1 >= MinTurn}

Rotate ==
    /\ phase = "rotate"
    /\ pos' \in {p \in [Dampers -> 0 .. MaxTurn - 1] :
                    \A d \in Dampers : p[d] \in DiskStep(d)}
    /\ pcint' = (\E d \in Dampers : PinLow(d, pos) # PinLow(d, pos'))
    /\ phase' = "tick"
    /\ UNCHANGED <<damper_target_states, damper_state_overflowed,
                   config, isr, fans, loop, seen>>

\* The light barrier of d breaks; if it was pulling the pin LOW, the pin changes.
Break(d) ==
    /\ d \in Fragile \ broken
    /\ phase = "tick" /\ ~pcint
    /\ broken' = broken \cup {d}
    /\ pcint' = PinLow(d, pos)
    /\ UNCHANGED <<damper_target_states, damper_state_overflowed,
                   damper_open_pos, isr, fans, loop, pos, phase, seen>>

-----------------------------------------------------------------------------
(* Interrupt routines *)

\* Flag every damper whose pin reads LOW, whichever pin caused the interrupt,
\* but ignore a damper whose motor is off.
FlagEndstops(low) ==
    damper_endstop_reached' =
        [d \in Dampers |-> damper_endstop_reached[d] \/ (d \in low /\ motor[d])]

task_check_endstops ==
    /\ pcint
    /\ FlagEndstops({d \in Dampers : PinLow(d, pos)})
    /\ pcint' = FALSE
    /\ UNCHANGED <<damper_states, motor, damper_target_states,
                   damper_state_overflowed, config, fans, loop,
                   pos, phase, seen>>

\* The ceiling light pulls the pin of a glitchy barrier LOW for a moment.
Glitch(d) ==
    /\ d \in Glitchy
    /\ ~pcint
    /\ FlagEndstops({e \in Dampers : PinLow(e, pos)} \cup {d})
    /\ UNCHANGED <<damper_states, motor, damper_target_states,
                   damper_state_overflowed, config, fans, loop, hw,
                   seen>>

\* did_damper_pass_endstop: the position after self-synchronisation ...
SyncedState_Never(d) == damper_states[d]
SyncedState(d) == IF damper_endstop_reached[d] THEN 0 ELSE damper_states[d]

\* ... which also clears the flag of every damper it is asked about.
ClearedEndstop_Kept(d) == damper_endstop_reached[d]
ClearedEndstop(d) == damper_endstop_reached[d] /\ d \notin Installed

NeedsMove_Below(d) == SyncedState(d) < damper_target_states[d]
NeedsMove(d) == SyncedState(d) # damper_target_states[d]

TimedOut_Early(d) ==
    damper_target_states[d] = 0 /\ SyncedState(d) >= WRAP \div 2
TimedOut_Beyond(d) == damper_target_states[d] = 0 /\ SyncedState(d) = WRAP
TimedOut(d) == damper_target_states[d] = 0 /\ SyncedState(d) = WRAP - 1

NextPosition(d) ==
    IF NeedsMove(d) THEN (SyncedState(d) + 1) % WRAP ELSE SyncedState(d)

\* The timer ISR: one pass over the installed dampers every 8 ms.  A pending
\* pin-change interrupt has the higher priority and is served first.
task_control_dampers ==
    /\ phase = "tick"
    /\ ~pcint
    /\ damper_states' = [d \in Dampers |->
          IF d \in Installed THEN NextPosition(d) ELSE damper_states[d]]
    /\ damper_state_overflowed' = [d \in Dampers |->
          damper_state_overflowed[d] \/ (d \in Installed /\ TimedOut(d))]
    /\ motor' = [d \in Dampers |->
          IF d \in Installed THEN NeedsMove(d) ELSE motor[d]]
    /\ damper_endstop_reached' = [d \in Dampers |-> ClearedEndstop(d)]
    /\ homed' = homed \cup {d \in Installed : damper_endstop_reached[d]}
    /\ phase' = "rotate"
    /\ UNCHANGED <<damper_target_states, config, fans, loop, pos,
                   pcint, errors, homedBefore>>

-----------------------------------------------------------------------------
(* The main loop *)

MainLoop(point) == ~pcint /\ pc = point

\* Target position a damper command stands for.
TargetFor(cmd, d) ==
    CASE cmd = "DAMPER_OPEN"     -> damper_open_pos[d]
      [] cmd = "DAMPER_HALFOPEN" -> damper_open_pos[d] \div 2
      [] OTHER                   -> 0   \* DAMPER_CLOSED and unknown values

\* Serial 'o', 'c' and 'h': all dampers of this controller at once.
SerialDirect(cmd) ==
    /\ MainLoop("serial")
    /\ damper_target_states' = [d \in Dampers |-> TargetFor(cmd, d)]
    /\ UNCHANGED <<damper_state_overflowed, config, isr, fans, loop,
                   hw, seen>>

SerialDone ==
    /\ MainLoop("serial")
    /\ pc' = "pjon"
    /\ UNCHANGED <<i, rv, damper_target_states, damper_state_overflowed,
                   config, isr, fans, hw, seen>>

\* A damper command message.  The fans only listen on the second pass; the
\* dampers move on every pass.
handle_damper_cmd(didreachall, rxmsg) ==
    /\ MainLoop("pjon")
    /\ fan_target_state' =
          IF didreachall THEN rxmsg.fan ELSE fan_target_state
    /\ fanlamina_target_state' =
          IF didreachall /\ rxmsg.damper[LAMINA_DAMPER_ID] # "DAMPER_CLOSED"
          THEN rxmsg.fanlamina ELSE fanlamina_target_state
    /\ damper_target_states' =
          [d \in Dampers |-> TargetFor(rxmsg.damper[d], d)]
    /\ UNCHANGED <<damper_state_overflowed, config, isr, fan,
                   fanlamina, loop, hw, seen>>

\* MSG_UPDATESETTINGS: new open positions; targets already set keep the old one.
updateSettingsFromPacket(open) ==
    /\ MainLoop("pjon")
    /\ damper_open_pos' = open
    /\ UNCHANGED <<broken, damper_target_states, damper_state_overflowed, isr, fans,
                   loop, hw, seen>>

ReachedTarget_Passed(d) ==
    damper_states[d] >= damper_target_states[d] \/ d \notin Installed
ReachedTarget(d) ==
    damper_states[d] = damper_target_states[d] \/ d \notin Installed

\* The last round of a loop over the dampers.
LastDamper_Beyond == i = NUM_DAMPER
LastDamper == i = NUM_DAMPER - 1

\* task_control_fan: the main fan's switch statement.
FanSwitch ==
    /\ MainLoop("pjon")
    /\ IF fan_target_state = "FAN_OFF"
       THEN /\ fan' = FALSE
            /\ pc' = "lamina"
       ELSE /\ pc' = "fanReached"
            /\ fan' = fan
    /\ i' = 0 /\ rv' = TRUE /\ homedBefore' = homed
    /\ UNCHANGED <<fan_target_state, fanlamina_target_state, fanlamina,
                   damper_target_states, damper_state_overflowed,
                   config, isr, hw, errors, homed>>

\* have_dampers_reached_target reads one damper per step.
FanReadReached ==
    /\ MainLoop("fanReached")
    /\ IF ~LastDamper
       THEN /\ rv' = (rv /\ ReachedTarget(i))
            /\ i' = i + 1
            /\ UNCHANGED <<pc, fan>>
       ELSE /\ rv' = TRUE
            /\ i' = 0
            /\ IF rv /\ ReachedTarget(i)
               THEN pc' = "fanClosed" /\ fan' = fan
               ELSE pc' = "lamina" /\ fan' = FALSE
    /\ UNCHANGED <<fan_target_state, fanlamina_target_state, fanlamina,
                   damper_target_states, damper_state_overflowed,
                   config, isr, hw, seen>>

\* What are_all_dampers_closed decides about the main fan.
FanMayRun_Always(allclosed) == TRUE
FanMayRun(allclosed) == ~allclosed

\* are_all_dampers_closed reads one damper per step, installed or not.
FanReadClosed ==
    /\ MainLoop("fanClosed")
    /\ IF ~LastDamper
       THEN /\ rv' = (rv /\ damper_states[i] = 0)
            /\ i' = i + 1
            /\ UNCHANGED <<pc, fan>>
       ELSE /\ rv' = TRUE
            /\ i' = 0
            /\ fan' = FanMayRun(rv /\ damper_states[i] = 0)
            /\ pc' = "lamina"
    /\ UNCHANGED <<fan_target_state, fanlamina_target_state, fanlamina,
                   damper_target_states, damper_state_overflowed,
                   config, isr, hw, seen>>

\* The laminar-flow fan's switch statement.
LaminaSwitch ==
    /\ MainLoop("lamina")
    /\ IF fanlamina_target_state = "FAN_OFF"
       THEN /\ fanlamina' = FALSE
            /\ pc' = "overflow"
       ELSE /\ pc' = "laminaReached"
            /\ fanlamina' = fanlamina
    /\ i' = 0 /\ rv' = TRUE
    /\ UNCHANGED <<fan_target_state, fanlamina_target_state, fan,
                   damper_target_states, damper_state_overflowed,
                   config, isr, hw, seen>>

\* FAN_ISRUNNING gates the laminar-flow fan once the dampers have settled.
LaminaMayRun_Alone(reached) == reached
LaminaMayRun(reached) == reached /\ fan

LaminaReadReached ==
    /\ MainLoop("laminaReached")
    /\ IF ~LastDamper
       THEN /\ rv' = (rv /\ ReachedTarget(i))
            /\ i' = i + 1
            /\ UNCHANGED <<pc, fanlamina>>
       ELSE /\ rv' = TRUE
            /\ i' = 0
            /\ fanlamina' = LaminaMayRun(rv /\ ReachedTarget(i))
            /\ pc' = "overflow"
    /\ UNCHANGED <<fan_target_state, fanlamina_target_state, fan,
                   damper_target_states, damper_state_overflowed,
                   config, isr, hw, seen>>

\* Broadcast an error for every damper that timed out; end of the loop body.
task_check_damper_state_overflow ==
    /\ MainLoop("overflow")
    /\ errors' = errors \cup {d \in Dampers : damper_state_overflowed[d]}
    /\ damper_state_overflowed' = [d \in Dampers |-> FALSE]
    /\ pc' = "serial" /\ homedBefore' = {}
    /\ UNCHANGED <<i, rv, damper_target_states, config, isr, fans, hw,
                   homed>>

-----------------------------------------------------------------------------
(* A command from a person or from the other controllers. *)
Command ==
    \/ \E cmd \in DamperCmds : SerialDirect(cmd)
    \/ \E didreachall \in BOOLEAN, rxmsg \in Commands :
          handle_damper_cmd(didreachall, rxmsg)
    \/ \E open \in [Dampers -> OpenPositions] : updateSettingsFromPacket(open)

Disturbance == Reboot \/ \E d \in Dampers : Glitch(d) \/ Break(d)

task_control_fan ==
    FanSwitch \/ FanReadReached \/ FanReadClosed \/ LaminaSwitch
              \/ LaminaReadReached

MainStep == SerialDone \/ task_control_fan \/ task_check_damper_state_overflow

Next ==
    \/ Rotate \/ task_check_endstops \/ task_control_dampers
    \/ Command \/ MainStep \/ Disturbance

Spec == Init /\ [][Next]_vars

\* The disks turn, the timer and its interrupts fire, and the main loop goes
\* round: nothing in the firmware blocks any of them for ever.
Fairness ==
    /\ WF_vars(Rotate)
    /\ WF_vars(task_check_endstops)
    /\ WF_vars(task_control_dampers)
    /\ WF_vars(MainStep)

FairSpec == Spec /\ Fairness

-----------------------------------------------------------------------------
(* Safety *)

Healthy == Installed \ broken

\* main.cpp:31, settings.cpp:48-50: a damper that is believed closed and has
\* been stopped really stands in its light barrier; it was not stopped by a
\* wrapped counter or by a flag left over from an earlier pass.
ClosedIsAtEndstop ==
    \A d \in Healthy :
        damper_states[d] = 0 /\ ~motor[d] => PinLow(d, pos)

\* comm.cpp:439: no timeout error is raised for a damper whose barrier works.
NoFalseAlarm ==
    \A d \in Healthy : ~damper_state_overflowed[d] /\ d \notin errors

\* main.cpp:377-381: once a damper has passed its barrier, a stopped motor means
\* the disk is where the counter says, up to the width of the barrier.
CounterTracksDisk ==
    \A d \in Healthy \cap homed :
        ~motor[d] => /\ damper_states[d] <= pos[d]
                     /\ pos[d] <= damper_states[d] + Window

\* main.cpp:441: outside task_control_fan the laminar-flow fan only runs while
\* the main fan runs.
LaminaNeedsFan ==
    pc \in {"serial", "pjon", "overflow"} /\ fanlamina => fan

(* Actions *)

\* main.cpp:426: the fan starts only while every damper stands at its target that
\* had found its barrier when task_control_fan began, although the loop reads
\* them one by one while the timer runs.
FanStartsAtTarget ==
    [][~fan /\ fan' => \A d \in Healthy \cap homedBefore :
            damper_states[d] = damper_target_states[d]]_vars

\* README.md:39: the fan does not start when all dampers of this controller are
\* closed.
FanNeedsOpenDamper ==
    [][~fan /\ fan' => \E d \in Installed : damper_states[d] # 0]_vars

(* Liveness *)

Undisturbed == <>[][~Command /\ ~Disturbance]_vars

Settled ==
    /\ \A d \in Installed :
          damper_states[d] = damper_target_states[d] /\ ~motor[d]
    /\ fan = (/\ fan_target_state = "FAN_ON"
              /\ \E d \in Dampers : damper_states[d] # 0)
    /\ fanlamina = (fan /\ fanlamina_target_state = "FAN_ON")

\* Once commands stop, the dampers reach their targets, stop, and the fans take
\* the state the targets ask for.
EventuallySettled == Undisturbed => <>[]Settled

\* A damper with a broken barrier is on its way to "closed".
Stranded(d) ==
    /\ d \in broken /\ ~damper_endstop_reached[d]
    /\ damper_target_states[d] = 0 /\ damper_states[d] # 0

\* comm.cpp:439: once left alone, a damper that cannot find its barrier on the way
\* to "closed" is reported, although its counter wraps round to 0 and it stops.
BrokenBarrierIsReported ==
    Undisturbed =>
        \A d \in Installed :
            Stranded(d) ~> \/ damper_target_states[d] # 0
                           \/ damper_endstop_reached[d]
                           \/ d \in errors
=============================================================================
