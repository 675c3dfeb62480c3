------------------------- MODULE DamperControl_proofs -------------------------
(***************************************************************************)
(* What holds of one damper controller for every number of dampers, every  *)
(* wiring, every open position and every counter width.                    *)
(***************************************************************************)
EXTENDS DamperControl, TLAPS

\* The firmware boots into values of the right type.
LEMMA InitTyped == Init => TypeOK
<1> USE SizeAssumption, WiringAssumption, TurnAssumption
<1>0. 0 \in Dampers /\ 0 \in 0 .. WRAP - 1 /\ 1 \in 0 .. WRAP - 1
  BY DEF Dampers
<1> QED
  BY <1>0, Zenon DEF Init, Booted, TypeOK, FanCmds, LoopPoints

\* No interrupt, command, glitch or reboot leaves the ranges of TypeOK.
LEMMA NextTyped == TypeOK /\ [Next]_vars => TypeOK'
<1> USE SizeAssumption, WiringAssumption, TurnAssumption
<1>0. 0 \in Dampers /\ 0 \in 0 .. WRAP - 1 /\ 1 \in 0 .. WRAP - 1
  BY DEF Dampers
<1> SUFFICES ASSUME TypeOK, [Next]_vars
             PROVE  TypeOK'
  OBVIOUS
<1>1. CASE Rotate
  BY <1>1 DEF Rotate, TypeOK, config, isr, fans, loop, seen
<1>2. CASE task_check_endstops
  BY <1>2 DEF task_check_endstops, FlagEndstops, TypeOK, config, fans, loop, seen
<1>3. CASE task_control_dampers
  <2>1. \A d \in Dampers : SyncedState(d) \in 0 .. WRAP - 1
    BY DEF TypeOK, SyncedState
  <2>2. \A d \in Dampers : NextPosition(d) \in 0 .. WRAP - 1
    BY <2>1 DEF NextPosition
  <2>3. /\ damper_states' \in [Dampers -> 0 .. WRAP - 1]
        /\ damper_state_overflowed' \in [Dampers -> BOOLEAN]
        /\ damper_endstop_reached' \in [Dampers -> BOOLEAN]
        /\ motor' \in [Dampers -> BOOLEAN]
        /\ homed' \subseteq Dampers
    BY <1>3, <2>2 DEF task_control_dampers, TypeOK, NeedsMove, TimedOut,
                      ClearedEndstop
  <2> QED
    BY <1>3, <2>3 DEF task_control_dampers, TypeOK, config, fans, loop
<1>4. CASE Command
  <2>1. \A c \in DamperCmds, d \in Dampers : TargetFor(c, d) \in 0 .. WRAP - 1
    BY DEF TargetFor, DamperCmds, TypeOK
  <2>2. ASSUME NEW c \in DamperCmds, SerialDirect(c)
        PROVE  TypeOK'
    BY <2>1, <2>2 DEF SerialDirect, TypeOK, config, isr, fans, loop, hw, seen
  <2>3. ASSUME NEW didreachall \in BOOLEAN, NEW rxmsg \in Commands,
               handle_damper_cmd(didreachall, rxmsg)
        PROVE  TypeOK'
    BY <2>1, <2>3
    DEF handle_damper_cmd, Commands, TypeOK, config, isr, loop, hw, seen
  <2>4. ASSUME NEW open \in [Dampers -> OpenPositions],
               updateSettingsFromPacket(open)
        PROVE  TypeOK'
    BY <2>4 DEF updateSettingsFromPacket, TypeOK, config, isr, fans, loop, hw, seen
  <2> QED
    BY <1>4, <2>2, <2>3, <2>4 DEF Command
<1>5. CASE SerialDone
  BY <1>5 DEF SerialDone, TypeOK, LoopPoints, config, isr, fans, hw, seen
<1>6. CASE task_control_fan
  <2>1. i' \in Dampers /\ pc' \in LoopPoints
    <3>1. i \in Dampers /\ pc \in LoopPoints
      BY DEF TypeOK
    <3>2. 0 \in Dampers
      BY DEF Dampers
    <3>3. ~LastDamper => i + 1 \in Dampers
      BY <3>1 DEF LastDamper, Dampers
    <3>4. i' \in Dampers
      BY <1>6, <3>2, <3>3, Zenon
      DEF task_control_fan, FanSwitch, FanReadReached, FanReadClosed,
          LaminaSwitch, LaminaReadReached
    <3>5. pc' \in LoopPoints
      BY <1>6, <3>1
      DEF task_control_fan, FanSwitch, FanReadReached, FanReadClosed,
          LaminaSwitch, LaminaReadReached, LoopPoints
    <3> QED
      BY <3>4, <3>5
  <2>5. rv' \in BOOLEAN
    <3>1. /\ (rv /\ damper_states[i] = 0) \in BOOLEAN
          /\ (rv /\ ReachedTarget(i)) \in BOOLEAN
      BY DEF ReachedTarget
    <3> QED
      BY <1>6, <3>1, Zenon
      DEF task_control_fan, FanSwitch, FanReadReached, FanReadClosed,
          LaminaSwitch, LaminaReadReached
  <2>2. fan' \in BOOLEAN /\ fanlamina' \in BOOLEAN
    <3>1. \A r \in BOOLEAN : FanMayRun(r) \in BOOLEAN
      BY DEF FanMayRun
    <3>2. \A r \in BOOLEAN : LaminaMayRun(r) \in BOOLEAN
      BY DEF LaminaMayRun
    <3>3. /\ (rv /\ damper_states[i] = 0) \in BOOLEAN
          /\ (rv /\ ReachedTarget(i)) \in BOOLEAN
      BY DEF ReachedTarget
    <3>4. fan \in BOOLEAN /\ fanlamina \in BOOLEAN
      BY DEF TypeOK
    <3>5. CASE FanSwitch \/ FanReadReached
      BY <3>4, <3>5, Zenon DEF FanSwitch, FanReadReached
    <3>6. CASE FanReadClosed
      BY <3>1, <3>3, <3>4, <3>6, Zenon DEF FanReadClosed
    <3>7. CASE LaminaSwitch \/ LaminaReadReached
      BY <3>2, <3>3, <3>4, <3>7, Zenon DEF LaminaSwitch, LaminaReadReached
    <3> QED
      BY <1>6, <3>5, <3>6, <3>7 DEF task_control_fan
  <2>3. homedBefore' \subseteq Dampers
    BY <1>6
    DEF task_control_fan, FanSwitch, FanReadReached, FanReadClosed,
        LaminaSwitch, LaminaReadReached, TypeOK, seen
  <2>4. UNCHANGED <<damper_states, damper_endstop_reached, motor, pos, phase,
                    pcint, damper_target_states, damper_state_overflowed,
                    damper_open_pos, broken, fan_target_state,
                    fanlamina_target_state, errors, homed>>
    BY <1>6
    DEF task_control_fan, FanSwitch, FanReadReached, FanReadClosed,
        LaminaSwitch, LaminaReadReached, config, isr, hw, seen
  <2> QED
    BY <2>1, <2>2, <2>3, <2>4, <2>5 DEF TypeOK
<1>7. CASE task_check_damper_state_overflow
  BY <1>7
  DEF task_check_damper_state_overflow, TypeOK, LoopPoints, config, isr, fans, hw
<1>8. CASE Reboot
  BY <1>0, <1>8, Zenon DEF Reboot, Booted, config, TypeOK, FanCmds, LoopPoints
<1>9. ASSUME NEW d \in Dampers, Glitch(d)
      PROVE  TypeOK'
  BY <1>9 DEF Glitch, FlagEndstops, TypeOK, config, fans, loop, hw, seen
<1>11. ASSUME NEW d \in Dampers, Break(d)
       PROVE  TypeOK'
  BY <1>11 DEF Break, PinLow, TypeOK, isr, fans, loop, seen
<1>10. CASE UNCHANGED vars
  BY <1>10 DEF vars, TypeOK, config, isr, fans, loop, hw, seen
<1> QED
  BY <1>1, <1>2, <1>3, <1>4, <1>5, <1>6, <1>7, <1>8, <1>9, <1>10,
     <1>11
  DEF Next, MainStep, Disturbance

\* Every variable stays in its range, whatever the hardware and the bus do.
THEOREM TypeCorrect == Spec => []TypeOK
  BY InitTyped, NextTyped, PTL DEF Spec

-----------------------------------------------------------------------------
(***************************************************************************)
(* Why a damper believed closed is closed.  Until the barrier is seen the  *)
(* counter is at most one ahead of the ticks the disk has moved since the  *)
(* barrier, two while a tick's motion is still outstanding; a disk moves   *)
(* at most MaxTurn ticks before it is back, so a counter wider than        *)
(* MaxTurn + 1 cannot wrap.  A flag is only ever up between the interrupt  *)
(* that raised it and the next tick, during which no disk moves.           *)
(***************************************************************************)

\* The barrier of d has been seen, or will be before the next tick.
Seen(d) ==
    damper_endstop_reached[d] \/ (pcint /\ motor[d] /\ PinLow(d, pos))

Ahead(d) == IF phase = "rotate" /\ motor[d] THEN 2 ELSE 1

Tracked(d) ==
    /\ damper_endstop_reached[d] => phase = "tick" /\ PinLow(d, pos)
    /\ motor[d] => damper_states[d] > 0
    /\ damper_states[d] = 0 /\ ~motor[d] => PinLow(d, pos)
    /\ Seen(d) \/ damper_states[d] <= pos[d] + Ahead(d)
    /\ ~damper_state_overflowed[d]
    /\ d \notin errors

TrackedInv ==
    /\ TypeOK
    /\ phase = "rotate" => ~pcint
    /\ \A d \in Healthy : Tracked(d)

\* Between two ticks the disk either moves one tick further from the barrier or
\* arrives at it and raises the pin-change interrupt.
LEMMA RotateStep ==
    ASSUME TypeOK, Rotate, NEW d \in Healthy
    PROVE  /\ ~motor[d] => pos'[d] = pos[d]
           /\ motor[d] => \/ pos'[d] = pos[d] + 1
                          \/ pos'[d] = 0 /\ PinLow(d, pos') /\ pcint'
<1> USE SizeAssumption, WiringAssumption, TurnAssumption
<1>1. d \in Dampers /\ d \notin broken /\ broken' = broken
  BY DEF Healthy, Rotate, config
<1>2. pos'[d] \in DiskStep(d) /\ pos[d] \in Nat
  BY <1>1 DEF Rotate, TypeOK
<1>3. ASSUME motor[d], pos'[d] = 0, pos[d] + 1 >= MinTurn
      PROVE  PinLow(d, pos') /\ pcint'
  <2>1. PinLow(d, pos') /\ ~PinLow(d, pos)
    BY <1>1, <1>2, <1>3 DEF PinLow
  <2> QED
    BY <1>1, <2>1 DEF Rotate
<1> QED
  BY <1>2, <1>3 DEF DiskStep

\* A tick neither wraps the counter of d nor times it out.
LEMMA NoWrap ==
    ASSUME MaxTurn + 1 < WRAP, TrackedInv, task_control_dampers,
           NEW d \in Healthy
    PROVE  /\ SyncedState(d) \in Nat
           /\ SyncedState(d) + 1 < WRAP
           /\ SyncedState(d) <= pos[d] + 1
<1> USE SizeAssumption, WiringAssumption, TurnAssumption
<1>1. d \in Dampers /\ Tracked(d)
  BY DEF Healthy, TrackedInv
<1>2. damper_states[d] \in Nat /\ pos[d] \in 0 .. MaxTurn - 1
  BY <1>1 DEF TrackedInv, TypeOK
<1>3. phase = "tick" /\ ~pcint
  BY DEF task_control_dampers
<1>4. CASE damper_endstop_reached[d]
  BY <1>2, <1>4 DEF SyncedState
<1>5. CASE ~damper_endstop_reached[d]
  <2>1. damper_states[d] <= pos[d] + 1
    BY <1>1, <1>3, <1>5 DEF Tracked, Seen, Ahead
  <2> QED
    BY <1>2, <1>5, <2>1 DEF SyncedState
<1> QED
  BY <1>4, <1>5

\* A tick of the timer keeps the counter of d close behind the disk.
LEMMA TrackedTick ==
    ASSUME MaxTurn + 1 < WRAP, TrackedInv, task_control_dampers,
           NEW d \in Healthy
    PROVE  Tracked(d)'
<1> USE SizeAssumption, WiringAssumption, TurnAssumption
<1>1. d \in Dampers /\ d \in Installed /\ Tracked(d)
  BY DEF Healthy, TrackedInv
<1>2. /\ SyncedState(d) \in Nat
      /\ SyncedState(d) + 1 < WRAP
      /\ SyncedState(d) <= pos[d] + 1
  BY NoWrap
<1>3. pos[d] \in 0 .. MaxTurn - 1 /\ damper_target_states[d] \in Nat
  BY <1>1 DEF TrackedInv, TypeOK
<1>4. /\ phase' = "rotate" /\ pcint' = pcint /\ pos' = pos
      /\ errors' = errors
      /\ ~damper_endstop_reached'[d]
      /\ motor'[d] = NeedsMove(d)
      /\ damper_states'[d] = NextPosition(d)
      /\ damper_state_overflowed'[d] = (damper_state_overflowed[d] \/ TimedOut(d))
  BY <1>1 DEF task_control_dampers, ClearedEndstop
<1>8. broken' = broken
  BY DEF task_control_dampers, config
<1>5. ~damper_state_overflowed'[d]
  <2>1. ~TimedOut(d)
    BY <1>2 DEF TimedOut
  <2> QED
    BY <1>1, <1>4, <2>1, Zenon DEF Tracked
<1>6. CASE NeedsMove(d)
  <2>1. damper_states'[d] = SyncedState(d) + 1
    BY <1>2, <1>4, <1>6 DEF NextPosition
  <2> QED
    BY <1>1, <1>2, <1>3, <1>4, <1>5, <1>6, <1>8, <2>1
    DEF Tracked, Ahead, Seen, PinLow
<1>7. CASE ~NeedsMove(d)
  <2>1. damper_states'[d] = SyncedState(d)
    BY <1>4, <1>7 DEF NextPosition
  <2>2. SyncedState(d) = 0 => PinLow(d, pos)
    BY <1>1 DEF Tracked, SyncedState
  <2> QED
    BY <1>1, <1>2, <1>3, <1>4, <1>5, <1>7, <1>8, <2>1, <2>2
    DEF Tracked, Ahead, Seen, PinLow
<1> QED
  BY <1>6, <1>7

\* So does the motion of the disks, which may bring d back to its barrier.
LEMMA TrackedRotate ==
    ASSUME TrackedInv, Rotate, NEW d \in Healthy
    PROVE  Tracked(d)'
<1> USE SizeAssumption, WiringAssumption, TurnAssumption
<1>1. d \in Dampers /\ Tracked(d)
  BY DEF Healthy, TrackedInv
<1>2. /\ phase = "rotate" /\ phase' = "tick" /\ ~pcint
      /\ UNCHANGED <<damper_states, damper_endstop_reached, motor,
                     damper_state_overflowed, errors, broken>>
  BY DEF Rotate, config, isr, seen, TrackedInv
<1>3. damper_states[d] \in Nat /\ pos[d] \in Nat /\ ~damper_endstop_reached[d]
  BY <1>1, <1>2 DEF TrackedInv, TypeOK, Tracked
<1>4. /\ ~motor[d] => pos'[d] = pos[d]
      /\ motor[d] => \/ pos'[d] = pos[d] + 1
                     \/ pos'[d] = 0 /\ PinLow(d, pos') /\ pcint'
  BY RotateStep DEF TrackedInv
<1> QED
  BY <1>1, <1>2, <1>3, <1>4 DEF Tracked, Seen, Ahead, PinLow

\* The pin-change interrupt turns what the barrier shows into the flag.
LEMMA TrackedPinChange ==
    ASSUME TrackedInv, task_check_endstops, NEW d \in Healthy
    PROVE  Tracked(d)'
<1>1. d \in Dampers /\ Tracked(d) /\ phase = "tick"
  BY WiringAssumption DEF Healthy, TrackedInv, task_check_endstops, TypeOK
<1>2. /\ damper_endstop_reached'[d] =
            (damper_endstop_reached[d] \/ (PinLow(d, pos) /\ motor[d]))
      /\ UNCHANGED <<damper_states, motor, damper_state_overflowed, pos, phase,
                     errors, broken>>
  BY <1>1 DEF task_check_endstops, FlagEndstops, config, seen
<1> QED
  BY <1>1, <1>2 DEF Tracked, Seen, Ahead, PinLow

\* The main loop never touches what Tracked speaks of, except that it clears
\* the overflow flags, which are not set.
LEMMA TrackedMainLoop ==
    ASSUME TrackedInv, Command \/ MainStep, NEW d \in Healthy
    PROVE  Tracked(d)'
<1>1. d \in Dampers /\ Tracked(d)
  BY WiringAssumption DEF Healthy, TrackedInv
<1>2. UNCHANGED <<damper_states, damper_endstop_reached, motor, pos, phase,
                  pcint, broken>>
  BY DEF Command, SerialDirect, handle_damper_cmd, updateSettingsFromPacket,
         MainStep, SerialDone, task_control_fan, FanSwitch, FanReadReached,
         FanReadClosed, LaminaSwitch, LaminaReadReached,
         task_check_damper_state_overflow, config, isr, hw
<1>3. ~damper_state_overflowed'[d] /\ d \notin errors'
  <2>1. CASE task_check_damper_state_overflow
    BY <1>1, <2>1 DEF task_check_damper_state_overflow, Tracked
  <2>2. CASE ~task_check_damper_state_overflow
    <3>1. UNCHANGED <<damper_state_overflowed, errors>>
      BY <2>2 DEF Command, SerialDirect, handle_damper_cmd,
         updateSettingsFromPacket, MainStep, SerialDone, task_control_fan,
         FanSwitch, FanReadReached, FanReadClosed, LaminaSwitch,
         LaminaReadReached, seen
    <3> QED
      BY <1>1, <3>1 DEF Tracked
  <2> QED
    BY <2>1, <2>2
<1> QED
  BY <1>1, <1>2, <1>3 DEF Tracked, Seen, Ahead, PinLow

\* A reboot forgets the position but leaves the counter at 1.
LEMMA TrackedReboot ==
    ASSUME TypeOK, Reboot, NEW d \in Healthy
    PROVE  Tracked(d)'
<1>1. d \in Dampers
  BY WiringAssumption DEF Healthy
<1>2. pos[d] \in Nat
  BY <1>1, TurnAssumption DEF TypeOK
<1>3. /\ damper_states'[d] = 1 /\ ~motor'[d] /\ ~damper_endstop_reached'[d]
      /\ ~damper_state_overflowed'[d] /\ d \notin errors'
      /\ pos' = pos
  BY <1>1 DEF Reboot, Booted, config
<1> QED
  BY <1>2, <1>3 DEF Tracked, Seen, Ahead

\* A barrier that breaks leaves the other dampers alone: it breaks between the
\* disks' motion and the timer.
LEMMA TrackedBreak ==
    ASSUME TrackedInv, NEW b \in Dampers, Break(b), NEW d \in Healthy, d # b
    PROVE  Tracked(d)'
<1>1. d \in Dampers /\ Tracked(d) /\ d \notin broken /\ d \notin broken'
  BY WiringAssumption DEF Healthy, TrackedInv, Break
<1>2. UNCHANGED <<damper_states, damper_endstop_reached, motor, pos, phase,
                  damper_state_overflowed, errors>>
  BY DEF Break, isr, seen
<1>3. ~pcint
  BY DEF Break
<1> QED
  BY <1>1, <1>2, <1>3 DEF Tracked, Seen, Ahead, PinLow

\* Every damper seeks its barrier with a counter at 1 when the firmware boots.
LEMMA TrackedInit == Init => TrackedInv
<1> SUFFICES ASSUME Init PROVE TrackedInv
  OBVIOUS
<1>1. TypeOK
  BY InitTyped
<1>2. ASSUME NEW d \in Healthy
      PROVE  Tracked(d)
  <2>1. d \in Dampers /\ d \notin broken
    BY WiringAssumption, <1>2 DEF Healthy
  <2>2. pos[d] \in Nat
    BY <1>1, <2>1, TurnAssumption DEF TypeOK
  <2> QED
    BY <2>1, <2>2 DEF Init, Booted, Tracked, Seen, Ahead
<1> QED
  BY <1>1, <1>2 DEF TrackedInv, Init, Booted

\* A barrier that broke stays broken.
LEMMA BrokenStays == [Next]_vars => broken \subseteq broken'
  BY DEF Next, vars, config, Rotate, task_check_endstops,
     task_control_dampers, Command, SerialDirect, handle_damper_cmd,
     updateSettingsFromPacket, MainStep, SerialDone, task_control_fan,
     FanSwitch, FanReadReached, FanReadClosed, LaminaSwitch,
     LaminaReadReached, task_check_damper_state_overflow, Disturbance,
     Reboot, Glitch, Break

\* Putting the actions together.
LEMMA TrackedNext ==
    ASSUME MaxTurn + 1 < WRAP, Glitchy = {}
    PROVE  TrackedInv /\ [Next]_vars => TrackedInv'
<1> SUFFICES ASSUME TrackedInv, [Next]_vars
             PROVE  TrackedInv'
  OBVIOUS
<1>1. TypeOK'
  BY NextTyped DEF TrackedInv
<1>2. (phase = "rotate" => ~pcint)'
  <2>1. CASE Rotate \/ task_check_endstops \/ task_control_dampers \/ Reboot
    BY <2>1 DEF Rotate, task_check_endstops, task_control_dampers, Reboot,
                Booted
  <2>4. CASE \E d \in Dampers : Break(d)
    BY <2>4 DEF Break
  <2>2. CASE Command \/ MainStep
    <3>1. UNCHANGED <<phase, pcint>>
      BY <2>2
      DEF Command, SerialDirect, handle_damper_cmd, updateSettingsFromPacket,
          MainStep, SerialDone, task_control_fan, FanSwitch, FanReadReached,
          FanReadClosed, LaminaSwitch, LaminaReadReached,
          task_check_damper_state_overflow, hw
    <3> QED
      BY <3>1 DEF TrackedInv
  <2>3. CASE UNCHANGED vars
    BY <2>3 DEF vars, hw, TrackedInv
  <2> QED
    BY <2>1, <2>2, <2>3, <2>4 DEF Next, Disturbance, Glitch
<1>3. ASSUME NEW d \in Healthy'
      PROVE  Tracked(d)'
  <2>8. d \in Healthy /\ d \notin broken'
    BY BrokenStays DEF Healthy
  <2>1. CASE Rotate
    BY <2>1, <2>8, TrackedRotate
  <2>2. CASE task_check_endstops
    BY <2>2, <2>8, TrackedPinChange
  <2>3. CASE task_control_dampers
    BY <2>3, <2>8, TrackedTick
  <2>4. CASE Command \/ MainStep
    BY <2>4, <2>8, TrackedMainLoop
  <2>5. CASE Reboot
    BY <2>5, <2>8, TrackedReboot DEF TrackedInv
  <2>6. CASE UNCHANGED vars
    BY <2>6, <2>8
    DEF vars, config, isr, hw, seen, TrackedInv, Tracked, Seen, Ahead, PinLow
  <2>9. CASE \E b \in Dampers : Break(b)
    <3>1. PICK b \in Dampers : Break(b)
      BY <2>9
    <3>2. d # b
      BY <2>8, <3>1 DEF Break
    <3> QED
      BY <2>8, <3>1, <3>2, TrackedBreak
  <2> QED
    BY <2>1, <2>2, <2>3, <2>4, <2>5, <2>6, <2>9
    DEF Next, Disturbance, Glitch
<1> QED
  BY <1>1, <1>2, <1>3, Zenon DEF TrackedInv

\* With a counter wider than a full turn and no stray light, a damper believed
\* closed and stopped stands in its barrier (main.cpp:31, settings.cpp:48-50).
THEOREM ClosedDampersAreClosed ==
    ASSUME MaxTurn + 1 < WRAP, Glitchy = {}
    PROVE  Spec => []ClosedIsAtEndstop
<1>1. TrackedInv => ClosedIsAtEndstop
  BY DEF TrackedInv, Tracked, ClosedIsAtEndstop
<1> QED
  BY <1>1, TrackedInit, TrackedNext, PTL DEF Spec

\* Under the same conditions no working barrier is ever reported as timed out
\* (comm.cpp:439), wherever its disk was when the firmware booted.
THEOREM AlarmsAreTrue ==
    ASSUME MaxTurn + 1 < WRAP, Glitchy = {}
    PROVE  Spec => []NoFalseAlarm
<1>1. TrackedInv => NoFalseAlarm
  BY DEF TrackedInv, Tracked, NoFalseAlarm
<1> QED
  BY <1>1, TrackedInit, TrackedNext, PTL DEF Spec

-----------------------------------------------------------------------------
(***************************************************************************)
(* Why a counter tells where its disk is.  Once the barrier has set it to  *)
(* 0, the counter and the disk advance together; the disk is ahead by less *)
(* than the width of the barrier, because the flag is raised anywhere in   *)
(* it, and never behind.  In particular a disk whose counter is clear of   *)
(* the barrier on both sides cannot raise the flag.                        *)
(***************************************************************************)

\* Motion the counter of d has counted and the disk has still to make.
Outstanding(d) == IF phase = "rotate" /\ motor[d] THEN 1 ELSE 0

\* Positions at which a disk is sure to be outside its barrier.
Clear(n) == Window <= n /\ n + Window <= MinTurn

InStep(d) ==
    /\ damper_endstop_reached[d] => motor[d]
    /\ ~Seen(d) => /\ damper_states[d] <= pos[d] + Outstanding(d)
                   /\ pos[d] + Outstanding(d) < damper_states[d] + Window
    /\ Clear(damper_states[d]) => ~Seen(d)

InStepInv == \A d \in Healthy \cap homed : InStep(d)

\* The timer counts a step before the disk makes it, or takes the barrier for 0.
LEMMA InStepTick ==
    ASSUME MaxTurn + 1 < WRAP, TrackedInv, task_control_dampers,
           NEW d \in Healthy, d \in homed', d \in homed => InStep(d)
    PROVE  InStep(d)'
<1> USE SizeAssumption, WiringAssumption, TurnAssumption
<1>1. d \in Dampers /\ d \in Installed /\ Tracked(d)
  BY DEF Healthy, TrackedInv
<1>2. SyncedState(d) \in Nat /\ SyncedState(d) + 1 < WRAP
  BY NoWrap
<1>3. pos[d] \in Nat /\ damper_states[d] \in Nat
  BY <1>1 DEF TrackedInv, TypeOK
<1>4. /\ phase = "tick" /\ ~pcint
      /\ phase' = "rotate" /\ ~pcint' /\ pos' = pos
      /\ ~damper_endstop_reached'[d]
      /\ motor'[d] = NeedsMove(d)
      /\ damper_states'[d] = NextPosition(d)
  BY <1>1 DEF task_control_dampers, ClearedEndstop
<1>7. NextPosition(d) = SyncedState(d) + (IF NeedsMove(d) THEN 1 ELSE 0)
  BY <1>2 DEF NextPosition
<1>5. d \in homed \/ damper_endstop_reached[d]
  BY DEF task_control_dampers
<1>6. SyncedState(d) <= pos[d] /\ pos[d] < SyncedState(d) + Window
  <2>1. CASE damper_endstop_reached[d]
    BY <1>1, <1>3, <2>1 DEF Tracked, PinLow, SyncedState
  <2>2. CASE ~damper_endstop_reached[d]
    BY <1>3, <1>4, <1>5, <2>2 DEF InStep, Seen, Outstanding, SyncedState
  <2> QED
    BY <2>1, <2>2
<1> QED
  BY <1>2, <1>3, <1>4, <1>6, <1>7 DEF InStep, Seen, Outstanding

\* The disk catches up with its counter or arrives at the barrier, which it does
\* not do while the counter is clear of it.
LEMMA InStepRotate ==
    ASSUME TrackedInv, Rotate, NEW d \in Healthy, InStep(d)
    PROVE  InStep(d)'
<1> USE SizeAssumption, WiringAssumption, TurnAssumption
<1>1. d \in Dampers /\ Tracked(d) /\ d \notin broken
  BY DEF Healthy, TrackedInv
<1>2. /\ phase = "rotate" /\ phase' = "tick" /\ ~pcint
      /\ UNCHANGED <<damper_states, damper_endstop_reached, motor, broken>>
  BY DEF Rotate, config, isr, TrackedInv
<1>3. damper_states[d] \in Nat /\ pos[d] \in Nat /\ ~damper_endstop_reached[d]
  BY <1>1, <1>2 DEF TrackedInv, TypeOK, Tracked
<1>4. /\ ~motor[d] => pos'[d] = pos[d]
      /\ motor[d] => \/ pos'[d] = pos[d] + 1
                     \/ pos'[d] = 0 /\ PinLow(d, pos') /\ pcint'
  BY RotateStep DEF TrackedInv
<1>5. pos'[d] \in DiskStep(d) /\ pos'[d] \in Nat
  BY <1>1, <1>3 DEF Rotate, DiskStep
<1>6. ~Seen(d)
  BY <1>2, <1>3 DEF Seen
<1>7. Clear(damper_states[d]) => ~Seen(d)'
  <2>1. SUFFICES ASSUME Clear(damper_states[d]), motor[d]
                 PROVE  ~PinLow(d, pos')
    BY <1>2, <1>3 DEF Seen, PinLow
  <2>2. /\ damper_states[d] <= pos[d] + 1
        /\ pos[d] + 1 < damper_states[d] + Window
    BY <1>2, <1>6, <2>1 DEF InStep, Outstanding
  <2>3. pos'[d] = pos[d] + 1
    BY <1>3, <1>5, <2>1, <2>2 DEF DiskStep, Clear
  <2> QED
    BY <1>3, <2>1, <2>2, <2>3 DEF Clear, PinLow
<1>8. ~Seen(d)' => /\ damper_states[d] <= pos'[d]
                   /\ pos'[d] < damper_states[d] + Window
  BY <1>2, <1>3, <1>4, <1>6 DEF InStep, Outstanding, Seen, PinLow
<1> QED
  BY <1>2, <1>3, <1>5, <1>7, <1>8 DEF InStep, Outstanding

\* Between motion and timer nothing sets a counter or moves a disk: the pin-change
\* interrupt only turns what is seen into a flag, and another barrier that breaks
\* only raises the interrupt.
LEMMA InStepStill ==
    ASSUME TrackedInv, NEW d \in Healthy, d \notin broken', InStep(d),
           UNCHANGED <<damper_states, motor, pos, phase>>,
           \/ task_check_endstops
           \/ \E b \in Dampers : Break(b)
           \/ UNCHANGED <<damper_endstop_reached, pcint>>
    PROVE  InStep(d)'
<1> USE SizeAssumption, WiringAssumption, TurnAssumption
<1>1. d \in Dampers /\ Tracked(d) /\ d \notin broken
  BY DEF Healthy, TrackedInv
<1>2. damper_states[d] \in Nat /\ pos[d] \in Nat
  BY <1>1 DEF TrackedInv, TypeOK
<1>3. CASE task_check_endstops
  <2>1. /\ damper_endstop_reached'[d] =
              (damper_endstop_reached[d] \/ (PinLow(d, pos) /\ motor[d]))
        /\ pcint /\ ~pcint'
    BY <1>1, <1>3 DEF task_check_endstops, FlagEndstops
  <2>2. Seen(d)' <=> Seen(d)
    BY <2>1 DEF Seen
  <2> QED
    BY <2>1, <2>2 DEF InStep, Outstanding
<1>4. CASE \E b \in Dampers : Break(b)
  <2>1. /\ phase = "tick" /\ ~pcint
        /\ UNCHANGED damper_endstop_reached
    BY <1>4 DEF Break, isr
  <2>2. Seen(d)' => Seen(d) \/ pos[d] < Window
    BY <2>1 DEF Seen, PinLow
  <2>3. Seen(d) => Seen(d)'
    BY <2>1 DEF Seen
  <2>4. Clear(damper_states[d]) => ~Seen(d)'
    BY <1>2, <2>1, <2>2 DEF InStep, Clear, Outstanding
  <2> QED
    BY <2>1, <2>3, <2>4 DEF InStep, Outstanding
<1>5. CASE UNCHANGED <<damper_endstop_reached, pcint>>
  BY <1>1, <1>5 DEF InStep, Outstanding, Seen, PinLow
<1> QED
  BY <1>3, <1>4, <1>5

LEMMA InStepNext ==
    ASSUME MaxTurn + 1 < WRAP, Glitchy = {}, TrackedInv, InStepInv, Next
    PROVE  InStepInv'
<1> SUFFICES ASSUME NEW d \in Healthy', d \in homed'
             PROVE  InStep(d)'
  BY DEF InStepInv
<1>1. d \in Healthy /\ d \notin broken' /\ d \in Dampers
  BY WiringAssumption, BrokenStays DEF Healthy
<1>2. CASE task_control_dampers
  BY <1>1, <1>2, InStepTick DEF InStepInv
<1>3. CASE Reboot
  BY <1>3 DEF Reboot, Booted
<1>4. CASE ~task_control_dampers /\ ~Reboot
  <2>1. homed' = homed
    BY <1>4, Glitchy = {}
    DEF Next, MainStep, Command, Disturbance, SerialDirect, handle_damper_cmd,
        updateSettingsFromPacket, Rotate, task_check_endstops, Glitch, Break,
        SerialDone, task_check_damper_state_overflow, task_control_fan,
        FanSwitch, FanReadReached, FanReadClosed, LaminaSwitch,
        LaminaReadReached, seen
  <2>2. InStep(d)
    BY <1>1, <2>1 DEF InStepInv
  <2>3. CASE Rotate
    BY <1>1, <2>2, <2>3, InStepRotate
  <2>4. CASE ~Rotate
    <3>1. /\ UNCHANGED <<damper_states, motor, pos, phase>>
          /\ \/ task_check_endstops
             \/ \E b \in Dampers : Break(b)
             \/ UNCHANGED <<damper_endstop_reached, pcint>>
      BY <1>4, <2>4
      DEF Next, MainStep, Command, Disturbance, SerialDirect, handle_damper_cmd,
          updateSettingsFromPacket, task_check_endstops, Glitch, Break,
          SerialDone, task_check_damper_state_overflow, task_control_fan,
          FanSwitch, FanReadReached, FanReadClosed, LaminaSwitch,
          LaminaReadReached, isr, hw
    <3> QED
      BY <1>1, <2>2, <3>1, InStepStill
  <2> QED
    BY <2>3, <2>4
<1> QED
  BY <1>2, <1>3, <1>4

\* The invariant of a controller whose barriers no stray light triggers.
SyncInv == TrackedInv /\ InStepInv

LEMMA SyncInductive ==
    ASSUME MaxTurn + 1 < WRAP, Glitchy = {}
    PROVE  /\ Init => SyncInv
           /\ SyncInv /\ [Next]_vars => SyncInv'
<1>1. Init => SyncInv
  BY TrackedInit DEF Init, Booted, InStepInv, SyncInv
<1>2. ASSUME SyncInv, [Next]_vars
      PROVE  SyncInv'
  <2>1. TrackedInv'
    BY <1>2, TrackedNext DEF SyncInv
  <2>2. CASE Next
    BY <1>2, <2>1, <2>2, InStepNext DEF SyncInv
  <2>3. CASE UNCHANGED vars
    <3>1. UNCHANGED <<damper_states, motor, pos, phase, damper_endstop_reached,
                      pcint, broken, homed>>
      BY <2>3 DEF vars, isr, hw, config, seen
    <3> QED
      BY <1>2, <2>1, <3>1
      DEF SyncInv, InStepInv, InStep, Healthy, Seen, Outstanding, PinLow
  <2> QED
    BY <1>2, <2>2, <2>3
<1> QED
  BY <1>1, <1>2

\* After its first pass through the barrier a stopped damper stands where its
\* counter says, up to the width of the barrier (main.cpp:377-381), through any
\* interleaving of motion, timer, pin change, commands and reboots.
THEOREM CountersTrackDisks ==
    ASSUME MaxTurn + 1 < WRAP, Glitchy = {}
    PROVE  Spec => []CounterTracksDisk
<1>1. SyncInv => CounterTracksDisk
  <2> SUFFICES ASSUME SyncInv, NEW d \in Healthy \cap homed, ~motor[d]
               PROVE  /\ damper_states[d] <= pos[d]
                      /\ pos[d] <= damper_states[d] + Window
    BY DEF CounterTracksDisk
  <2>1. InStep(d) /\ d \in Dampers
    BY WiringAssumption DEF SyncInv, InStepInv, Healthy
  <2>2. /\ damper_states[d] \in Nat /\ pos[d] \in Nat /\ Window \in Nat
    BY <2>1, SizeAssumption, TurnAssumption DEF SyncInv, TrackedInv, TypeOK
  <2> QED
    BY <2>1, <2>2 DEF InStep, Seen, Outstanding
<1> QED
  BY <1>1, SyncInductive, PTL DEF Spec

-----------------------------------------------------------------------------
(***************************************************************************)
(* The fans.  task_control_fan reads the dampers one by one while the      *)
(* timer moves them, so what it has read of the first may be stale when it *)
(* reads the last.                                                         *)
(***************************************************************************)

\* The laminar-flow fan never runs alone between two rounds of task_control_fan
\* (main.cpp:441): whatever the first switch statement did to the main fan, the
\* second one is always reached and follows it.
THEOREM LaminaFollowsFan == Spec => []LaminaNeedsFan
<1>1. Init => LaminaNeedsFan
  BY DEF Init, Booted, LaminaNeedsFan
<1>2. LaminaNeedsFan /\ [Next]_vars => LaminaNeedsFan'
  <2> SUFFICES ASSUME LaminaNeedsFan, [Next]_vars
               PROVE  LaminaNeedsFan'
    OBVIOUS
  <2>1. CASE task_control_fan
    <3>1. CASE FanSwitch \/ FanReadReached \/ FanReadClosed
      <4>1. pc' \notin {"serial", "pjon", "overflow"}
        BY <3>1 DEF FanSwitch, FanReadReached, FanReadClosed, MainLoop
      <4> QED
        BY <4>1 DEF LaminaNeedsFan
    <3>2. CASE LaminaSwitch
      <4>1. pc' # "laminaReached" => ~fanlamina'
        BY <3>2 DEF LaminaSwitch
      <4> QED
        BY <4>1 DEF LaminaNeedsFan
    <3>3. CASE LaminaReadReached
      <4>1. pc' # "laminaReached" => (fanlamina' => fan) /\ fan' = fan
        BY <3>3, Zenon DEF LaminaReadReached, MainLoop, LaminaMayRun
      <4>2. pc' = "laminaReached" \/ pc' # "laminaReached"
        OBVIOUS
      <4> QED
        BY <4>1, <4>2 DEF LaminaNeedsFan
    <3> QED
      BY <2>1, <3>1, <3>2, <3>3 DEF task_control_fan
  <2>2. CASE Reboot
    BY <2>2 DEF Reboot, Booted, LaminaNeedsFan
  <2>3. CASE SerialDone \/ task_check_damper_state_overflow
    <3>1. pc \in {"serial", "pjon", "overflow"} /\ UNCHANGED <<fan, fanlamina>>
      BY <2>3 DEF SerialDone, task_check_damper_state_overflow, MainLoop, fans
    <3> QED
      BY <3>1 DEF LaminaNeedsFan
  <2>4. CASE UNCHANGED <<pc, fan, fanlamina>>
    BY <2>4 DEF LaminaNeedsFan
  <2> QED
    BY <2>1, <2>2, <2>3, <2>4
    DEF Next, MainStep, Command, Disturbance, SerialDirect, handle_damper_cmd,
        updateSettingsFromPacket, Rotate, task_check_endstops,
        task_control_dampers, Glitch, Break, vars, fans, loop
<1> QED
  BY <1>1, <1>2, PTL DEF Spec

\* Only task_control_fan starts the fan, after its second loop.
LEMMA FanStartStep ==
    ASSUME Next, ~fan, fan'
    PROVE  FanReadClosed
  BY Zenon
  DEF Next, MainStep, Command, Disturbance, SerialDirect, handle_damper_cmd,
      updateSettingsFromPacket, Rotate, task_check_endstops,
      task_control_dampers, Glitch, Break, Reboot, Booted, SerialDone,
      task_check_damper_state_overflow, task_control_fan, FanSwitch,
      FanReadReached, LaminaSwitch, LaminaReadReached, fans

\* A damper that was at its target when it was read has since been left alone or,
\* set back by its barrier, is on its way from the barrier to the target again.
Passed(d) ==
    \/ damper_target_states[d] = 0 /\ damper_states[d] = 0
    \/ 0 < damper_states[d] /\ damper_states[d] <= damper_target_states[d]

FanInv ==
    /\ TypeOK
    /\ pc = "fanReached" /\ rv => \A d \in 0 .. i - 1 : Passed(d)
    /\ pc = "fanClosed" => \A d \in Dampers : Passed(d)
    /\ pc = "fanClosed" /\ ~rv => \E d \in Dampers : damper_target_states[d] # 0

\* The timer keeps it so, even if the barrier sets the counter back to 0.
LEMMA PassedTick ==
    ASSUME TypeOK, task_control_dampers, NEW d \in Dampers, Passed(d)
    PROVE  Passed(d)'
<1> USE SizeAssumption
<1>1. /\ damper_states[d] \in 0 .. WRAP - 1
      /\ damper_target_states[d] \in 0 .. WRAP - 1
  BY DEF TypeOK
<1>2. /\ damper_target_states'[d] = damper_target_states[d]
      /\ damper_states'[d] = IF d \in Installed THEN NextPosition(d)
                                                ELSE damper_states[d]
  BY DEF task_control_dampers
<1>3. CASE d \in Installed /\ NeedsMove(d)
  <2>1. /\ SyncedState(d) \in Nat
        /\ SyncedState(d) < damper_target_states[d]
    BY <1>1, <1>3 DEF Passed, SyncedState, NeedsMove
  <2>2. damper_states'[d] = SyncedState(d) + 1
    BY <1>1, <1>2, <1>3, <2>1 DEF NextPosition
  <2> QED
    BY <1>1, <1>2, <2>1, <2>2 DEF Passed
<1>4. CASE d \in Installed /\ ~NeedsMove(d)
  <2>1. damper_states'[d] = damper_target_states[d]
    BY <1>2, <1>4 DEF NextPosition, NeedsMove
  <2> QED
    BY <1>1, <1>2, <2>1 DEF Passed
<1>5. CASE d \notin Installed
  BY <1>2, <1>5 DEF Passed
<1> QED
  BY <1>3, <1>4, <1>5

\* Reading the dampers one after the other adds up to a fact about all of them.
LEMMA FanInvLoop ==
    ASSUME Installed = Dampers, FanInv, task_control_fan
    PROVE  FanInv'
<1> USE SizeAssumption
<1>1. TypeOK'
  BY NextTyped DEF FanInv, Next, MainStep
<1>2. /\ i \in Dampers /\ i \in Int /\ Dampers = 0 .. NUM_DAMPER - 1
      /\ UNCHANGED <<damper_states, damper_target_states>>
  BY DEF FanInv, TypeOK, Dampers, task_control_fan, FanSwitch, FanReadReached,
         FanReadClosed, LaminaSwitch, LaminaReadReached, isr
<1>3. \A d \in Dampers : Passed(d)' <=> Passed(d)
  BY <1>2 DEF Passed
<1>4. CASE FanSwitch
  <2>1. pc' # "fanClosed" /\ i' = 0
    BY <1>4 DEF FanSwitch
  <2> QED
    BY <1>1, <2>1 DEF FanInv
<1>5. CASE FanReadReached
  <2>1. ReachedTarget(i) => Passed(i)
    BY <1>2 DEF ReachedTarget, Passed, FanInv, TypeOK
  <2>2. rv /\ ReachedTarget(i) => \A d \in 0 .. i : Passed(d)
    BY <1>2, <1>5, <2>1 DEF FanReadReached, MainLoop, FanInv
  <2>3. CASE ~LastDamper
    <3>1. /\ pc' = "fanReached" /\ i' = i + 1
          /\ rv' = (rv /\ ReachedTarget(i))
      BY <1>5, <2>3 DEF FanReadReached, MainLoop
    <3>2. i + 1 \in Dampers
      BY <1>2, <2>3 DEF LastDamper
    <3>3. rv' => \A d \in 0 .. i' - 1 : Passed(d)'
      <4>1. SUFFICES ASSUME rv', NEW d \in 0 .. i' - 1
                     PROVE  Passed(d)'
        OBVIOUS
      <4>2. rv /\ ReachedTarget(i)
        BY <3>1, <4>1, Zenon
      <4>3. d \in 0 .. i /\ d \in Dampers
        BY <1>2, <3>1, <3>2
      <4> QED
        BY <1>3, <2>2, <4>2, <4>3
    <3> QED
      BY <1>1, <3>1, <3>3 DEF FanInv
  <2>4. CASE LastDamper /\ rv /\ ReachedTarget(i)
    <3>1. pc' = "fanClosed" /\ rv'
      BY <1>5, <2>4, Zenon DEF FanReadReached
    <3>2. \A d \in Dampers : Passed(d)'
      BY <1>2, <1>3, <2>2, <2>4 DEF LastDamper
    <3> QED
      BY <1>1, <3>1, <3>2 DEF FanInv
  <2>5. CASE LastDamper /\ ~(rv /\ ReachedTarget(i))
    <3>1. pc' = "lamina"
      BY <1>5, <2>5, Zenon DEF FanReadReached
    <3> QED
      BY <1>1, <3>1 DEF FanInv
  <2> QED
    BY <2>3, <2>4, <2>5, Zenon
<1>6. CASE FanReadClosed
  <2>1. pc = "fanClosed" /\ \A d \in Dampers : Passed(d)
    BY <1>6 DEF FanReadClosed, MainLoop, FanInv
  <2>2. ~(rv /\ damper_states[i] = 0)
        => \E d \in Dampers : damper_target_states[d] # 0
    <3>1. damper_states[i] # 0 => damper_target_states[i] # 0
      BY <1>2, <2>1 DEF Passed, FanInv, TypeOK
    <3>2. ~rv => \E d \in Dampers : damper_target_states[d] # 0
      BY <2>1 DEF FanInv
    <3> QED
      BY <1>2, <3>1, <3>2, Zenon
  <2>3. pc' = "fanClosed" => rv' = (rv /\ damper_states[i] = 0)
    BY <1>6, Zenon DEF FanReadClosed
  <2>4. pc' \in {"fanClosed", "lamina"}
    BY <1>6, <2>1 DEF FanReadClosed
  <2>5. pc' = "fanClosed" /\ ~rv'
        => \E d \in Dampers : damper_target_states'[d] # 0
    BY <1>2, <2>2, <2>3, Zenon
  <2> QED
    BY <1>1, <1>3, <2>1, <2>4, <2>5 DEF FanInv
<1>7. CASE LaminaSwitch \/ LaminaReadReached
  <2>1. pc' \notin {"fanReached", "fanClosed"}
    BY <1>7 DEF LaminaSwitch, LaminaReadReached, MainLoop
  <2> QED
    BY <1>1, <2>1 DEF FanInv
<1> QED
  BY <1>4, <1>5, <1>6, <1>7 DEF task_control_fan

\* The fan starts only while some damper stands away from the closed position,
\* on a controller that drives every damper and whatever its barriers do
\* (README.md:39); what was read of the first damper may be stale by then.
THEOREM FanStartsOpen ==
    ASSUME Installed = Dampers
    PROVE  Spec => FanNeedsOpenDamper
<1>1. Init => FanInv
  BY InitTyped DEF Init, Booted, FanInv
<1>2. FanInv /\ [Next]_vars => FanInv'
  <2> SUFFICES ASSUME FanInv, [Next]_vars
               PROVE  FanInv'
    OBVIOUS
  <2>1. TypeOK'
    BY NextTyped DEF FanInv
  <2>2. CASE task_control_fan
    BY <2>2, FanInvLoop
  <2>3. CASE task_control_dampers
    <3>1. UNCHANGED <<pc, i, rv, damper_target_states>>
      BY <2>3 DEF task_control_dampers, loop
    <3>2. \A d \in Dampers : Passed(d) => Passed(d)'
      BY <2>3, PassedTick DEF FanInv
    <3>3. i \in Dampers /\ 0 .. i - 1 \subseteq Dampers
      BY SizeAssumption DEF FanInv, TypeOK, Dampers
    <3> QED
      BY <2>1, <3>1, <3>2, <3>3 DEF FanInv
  <2>4. CASE SerialDone \/ task_check_damper_state_overflow \/ Command \/ Reboot
    <3>1. pc' \notin {"fanReached", "fanClosed"}
      BY <2>4
      DEF SerialDone, task_check_damper_state_overflow, Command, SerialDirect,
          handle_damper_cmd, updateSettingsFromPacket, MainLoop, loop, Reboot,
          Booted
    <3> QED
      BY <2>1, <3>1 DEF FanInv
  <2>5. CASE UNCHANGED <<pc, i, rv, damper_states, damper_target_states>>
    BY <2>1, <2>5 DEF FanInv, Passed
  <2> QED
    BY <2>2, <2>3, <2>4, <2>5
    DEF Next, MainStep, Disturbance, Rotate, task_check_endstops, Glitch, Break,
        vars, isr, loop
<1>3. FanInv /\ [Next]_vars
      => [~fan /\ fan' => \E d \in Installed : damper_states[d] # 0]_vars
  <2> SUFFICES ASSUME FanInv, Next, ~fan, fan'
               PROVE  \E d \in Installed : damper_states[d] # 0
    BY DEF vars
  <2>1. FanReadClosed
    BY FanStartStep
  <2>2. ~(rv /\ damper_states[i] = 0)
    BY <2>1, Zenon DEF FanReadClosed, FanMayRun
  <2>3. pc = "fanClosed" /\ i \in Dampers
    BY <2>1 DEF FanReadClosed, MainLoop, FanInv, TypeOK
  <2>4. CASE ~rv
    <3>1. PICK d \in Dampers : damper_target_states[d] # 0
      BY <2>3, <2>4 DEF FanInv
    <3>2. damper_states[d] # 0
      BY <2>3, <3>1 DEF FanInv, Passed
    <3> QED
      BY <3>2
  <2> QED
    BY <2>2, <2>3, <2>4, Zenon
<1> QED
  BY <1>1, <1>2, <1>3, PTL DEF Spec, FanNeedsOpenDamper

\* A target far enough from the barrier on both sides for the disk not to come
\* back into it while its counter stands at the target.
ClearTarget(t) == t = 0 \/ Clear(t)

StartInv ==
    /\ SyncInv
    /\ \A d \in Dampers : ClearTarget(damper_target_states[d])
    /\ pc \in {"fanReached", "fanClosed"} => homedBefore \subseteq homed
    /\ pc = "fanReached" /\ rv
       => \A d \in (Healthy \cap homedBefore) :
             d < i => damper_states[d] = damper_target_states[d]
    /\ pc = "fanClosed"
       => \A d \in (Healthy \cap homedBefore) :
             damper_states[d] = damper_target_states[d]

\* A damper at its target stays there: no flag of its barrier is up.
LEMMA StaysAtTarget ==
    ASSUME SyncInv, task_control_dampers, NEW d \in Healthy \cap homed,
           ClearTarget(damper_target_states[d]),
           damper_states[d] = damper_target_states[d]
    PROVE  damper_states'[d] = damper_target_states'[d]
<1>1. d \in Dampers /\ d \in Installed /\ InStep(d)
  BY WiringAssumption DEF Healthy, SyncInv, InStepInv
<1>2. SyncedState(d) = damper_target_states[d]
  <2>1. CASE damper_target_states[d] = 0
    BY <2>1 DEF SyncedState
  <2>2. CASE Clear(damper_target_states[d])
    BY <1>1, <2>2 DEF InStep, Seen, SyncedState
  <2> QED
    BY <2>1, <2>2 DEF ClearTarget
<1>3. /\ damper_states'[d] = NextPosition(d)
      /\ damper_target_states' = damper_target_states
  BY <1>1 DEF task_control_dampers
<1> QED
  BY <1>2, <1>3 DEF NextPosition, NeedsMove

\* task_control_fan reads each damper once and goes by what it read.
LEMMA StartInvLoop ==
    ASSUME StartInv, SyncInv', task_control_fan
    PROVE  StartInv'
<1> USE SizeAssumption
<1>1. /\ UNCHANGED <<damper_states, damper_target_states, broken, homed>>
      /\ homedBefore' = IF FanSwitch THEN homed ELSE homedBefore
  BY DEF task_control_fan, FanSwitch, FanReadReached, FanReadClosed,
         LaminaSwitch, LaminaReadReached, isr, config, seen, MainLoop
<1>2. /\ i \in Dampers /\ i \in Int /\ Dampers = 0 .. NUM_DAMPER - 1
      /\ Healthy \subseteq Dampers /\ Healthy \subseteq Installed
      /\ Healthy' = Healthy
  BY <1>1, WiringAssumption DEF StartInv, SyncInv, TrackedInv, TypeOK, Dampers,
                                Healthy
<1>3. \A d \in Dampers : ClearTarget(damper_target_states'[d])
  BY <1>1 DEF StartInv
<1>4. CASE FanSwitch
  <2>1. pc' # "fanClosed" /\ i' = 0
    BY <1>4 DEF FanSwitch
  <2>2. \A d \in Healthy : ~(d < 0)
    BY <1>2
  <2> QED
    BY <1>1, <1>2, <1>3, <1>4, <2>1, <2>2 DEF StartInv
<1>5. CASE FanReadReached
  <2>1. pc = "fanReached" /\ homedBefore' = homedBefore
    BY <1>5 DEF FanReadReached, MainLoop, seen
  <2>2. rv /\ ReachedTarget(i)
        => \A d \in (Healthy \cap homedBefore) :
              d <= i => damper_states[d] = damper_target_states[d]
    BY <1>2, <2>1 DEF StartInv, ReachedTarget
  <2>3. pc' = "fanReached" => i' = i + 1 /\ rv' = (rv /\ ReachedTarget(i))
    BY <1>5, Zenon DEF FanReadReached, MainLoop
  <2>4. pc' = "fanClosed" => LastDamper /\ rv /\ ReachedTarget(i)
    BY <1>5, <2>1, Zenon DEF FanReadReached
  <2>5. pc' = "fanReached" /\ rv'
        => \A d \in (Healthy \cap homedBefore) :
              d < i' => damper_states[d] = damper_target_states[d]
    <3>1. \A d \in Healthy : d < i + 1 <=> d <= i
      BY <1>2
    <3> QED
      BY <2>2, <2>3, <3>1, Zenon
  <2>6. pc' = "fanClosed"
        => \A d \in (Healthy \cap homedBefore) :
              damper_states[d] = damper_target_states[d]
    BY <1>2, <2>2, <2>4 DEF LastDamper
  <2> QED
    BY <1>1, <1>2, <1>3, <2>1, <2>5, <2>6 DEF StartInv
<1>6. CASE FanReadClosed
  <2>1. /\ pc = "fanClosed" /\ homedBefore' = homedBefore
        /\ pc' \in {"fanClosed", "lamina"}
    BY <1>6 DEF FanReadClosed, MainLoop, seen
  <2> QED
    BY <1>1, <1>2, <1>3, <2>1 DEF StartInv
<1>7. CASE LaminaSwitch \/ LaminaReadReached
  <2>1. pc' \notin {"fanReached", "fanClosed"}
    BY <1>7 DEF LaminaSwitch, LaminaReadReached, MainLoop
  <2> QED
    BY <1>3, <2>1 DEF StartInv
<1> QED
  BY <1>4, <1>5, <1>6, <1>7 DEF task_control_fan

\* If no open position lies near the barrier, the fan starts only while every
\* damper that had found its barrier when task_control_fan began is at its target
\* (main.cpp:426), although each was read at another moment.
THEOREM FanStartsSettled ==
    ASSUME MaxTurn + 1 < WRAP, Glitchy = {},
           \A p \in OpenPositions : ClearTarget(p) /\ ClearTarget(p \div 2)
    PROVE  Spec => FanStartsAtTarget
<1>1. Init => StartInv
  BY SyncInductive DEF Init, Booted, StartInv, ClearTarget
<1>2. StartInv /\ [Next]_vars => StartInv'
  <2> SUFFICES ASSUME StartInv, [Next]_vars
               PROVE  StartInv'
    OBVIOUS
  <2>1. SyncInv'
    BY SyncInductive DEF StartInv
  <2>2. CASE task_control_fan
    BY <2>1, <2>2, StartInvLoop
  <2>3. CASE task_control_dampers
    <3>1. /\ UNCHANGED <<pc, i, rv, damper_target_states, broken, homedBefore>>
          /\ homed \subseteq homed'
      BY <2>3 DEF task_control_dampers, loop, config
    <3>2. \A d \in (Healthy \cap homed) :
             damper_states[d] = damper_target_states[d]
             => damper_states'[d] = damper_target_states'[d]
      BY <2>3, StaysAtTarget, WiringAssumption DEF StartInv, Healthy
    <3> QED
      BY <2>1, <3>1, <3>2 DEF StartInv, Healthy
  <2>4. CASE SerialDone \/ task_check_damper_state_overflow \/ Command \/ Reboot
    <3>1. pc' \notin {"fanReached", "fanClosed"}
      BY <2>4
      DEF SerialDone, task_check_damper_state_overflow, Command, SerialDirect,
          handle_damper_cmd, updateSettingsFromPacket, MainLoop, loop, Reboot,
          Booted
    <3>2. \A c \in DamperCmds, d \in Dampers : ClearTarget(TargetFor(c, d))
      <4>1. \A d \in Dampers : damper_open_pos[d] \in OpenPositions
        BY DEF StartInv, SyncInv, TrackedInv, TypeOK
      <4> QED
        BY <4>1 DEF TargetFor, DamperCmds, ClearTarget
    <3>3. \A d \in Dampers : ClearTarget(damper_target_states'[d])
      <4>1. CASE Command
        BY <3>2, <4>1 DEF Command, SerialDirect, handle_damper_cmd, Commands,
                          updateSettingsFromPacket, StartInv
      <4>2. CASE SerialDone \/ task_check_damper_state_overflow
        BY <4>2 DEF SerialDone, task_check_damper_state_overflow, StartInv
      <4>3. CASE Reboot
        BY <4>3 DEF Reboot, Booted, ClearTarget
      <4> QED
        BY <2>4, <4>1, <4>2, <4>3
    <3> QED
      BY <2>1, <3>1, <3>3 DEF StartInv
  <2>5. CASE UNCHANGED <<pc, i, rv, damper_states, damper_target_states, homed,
                         homedBefore>> /\ broken \subseteq broken'
    BY <2>1, <2>5 DEF StartInv, Healthy
  <2> QED
    BY <2>2, <2>3, <2>4, <2>5
    DEF Next, MainStep, Disturbance, Rotate, task_check_endstops, Glitch, Break,
        vars, isr, loop, seen, config
<1>3. StartInv /\ [Next]_vars
      => [~fan /\ fan' => \A d \in Healthy \cap homedBefore :
             damper_states[d] = damper_target_states[d]]_vars
  <2> SUFFICES ASSUME StartInv, Next, ~fan, fan'
               PROVE  \A d \in (Healthy \cap homedBefore) :
                         damper_states[d] = damper_target_states[d]
    BY DEF vars
  <2>1. FanReadClosed
    BY FanStartStep
  <2> QED
    BY <2>1 DEF FanReadClosed, MainLoop, StartInv
<1> QED
  BY <1>1, <1>2, <1>3, PTL DEF Spec, FanStartsAtTarget
=============================================================================
