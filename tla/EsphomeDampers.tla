---------------------------- MODULE EsphomeDampers ----------------------------
(***************************************************************************)
(* The second controller board (esphome_pcbv2/r3_ventilation_pcb.yaml): the *)
(* dampers as ESPHome covers.  A move script homes a damper to its endstop *)
(* and runs it for a fraction of the time of a full turn; a calibration    *)
(* script, run for one damper after the other at boot, measures that time. *)
(* Both scripts of a damper drive the same output, and a cover's stop      *)
(* action switches it off under them.                                      *)
(*                                                                         *)
(* ESPHome's loop runs a script until it waits and looks at the waits in   *)
(* every round, many times while a disk moves by one tick: time passes only *)
(* when no script can go on.                                               *)
(*                                                                         *)
(* A definition named Something_Variant is a faulty version of Something,  *)
(* used only to show that a property would notice the fault.               *)
(***************************************************************************)
EXTENDS Integers

CONSTANTS
    N,              \* the dampers are 1..N (3 in the code)
    Positions,      \* percentages a cover may be asked for
    Turn,           \* ticks of a full turn
    Window,         \* ticks of a turn during which the endstop is on
    CalTimeout,     \* 10 s, in ticks
    LongTimeout,    \* 15 s, in ticks
    DefaultTurn,    \* initial_value of damper_full_turn_ms
    MaxStamp,       \* bound on the clock, where it is taken for a duration
    MaxRequests     \* bound on cover actions and reboots

Dampers == 1 .. N

ASSUME EsphomeAssumption ==
    /\ N \in Nat \ {0}
    /\ Positions \subseteq 0 .. 100
    /\ Turn \in Nat /\ Window \in Nat /\ 0 < Window /\ Window < Turn
    /\ CalTimeout \in Nat /\ LongTimeout \in Nat
    /\ Turn < CalTimeout /\ CalTimeout <= LongTimeout
    /\ DefaultTurn \in 0 .. LongTimeout
    /\ MaxStamp \in 0 .. 2 * LongTimeout
    /\ MaxRequests \in Nat

\* damper_full_turn_ms while it holds the time calibration began to measure.
STAMP == -1

VARIABLES
    output,           \* out_damper: the motors
    calibrate,        \* where calibrate_damper is
    calibrate_left,   \* ticks until its wait times out
    move,             \* where move_damper is
    move_left,        \* ticks until its wait times out or its delay is over
    calibrate_all,    \* the damper calibrate_all_dampers waits for
    desired_position, \* what the cover was asked for last
    full_turn,
    pos,              \* ticks of motion since the slit was last at the endstop
    \* what an observer remembers
    disturbed,        \* the script run last was interfered with, or none was
    calibrated,       \* full_turn comes from an undisturbed calibration
    requests          \* cover actions and reboots so far

cal == <<calibrate, calibrate_left, calibrate_all>>
moving == <<move, move_left>>
vars == <<output, cal, moving, desired_position, full_turn, pos, disturbed,
          calibrated, requests>>

TypeOK ==
    /\ output \in [Dampers -> BOOLEAN]
    /\ calibrate \in [Dampers -> {"off", "hit", "release", "measure"}]
    /\ calibrate_left \in [Dampers -> 0 .. LongTimeout]
    /\ move \in [Dampers -> {"off", "home", "extra"}]
    /\ move_left \in [Dampers -> 0 .. LongTimeout]
    /\ calibrate_all \in 0 .. N + 1
    /\ desired_position \in [Dampers -> Positions \cup {0}]
    /\ full_turn \in [Dampers -> {STAMP} \cup 0 .. LongTimeout]
    /\ pos \in [Dampers -> 0 .. Turn - 1]
    /\ disturbed \in [Dampers -> BOOLEAN]
    /\ calibrated \in [Dampers -> BOOLEAN]
    /\ requests \in 0 .. MaxRequests

Booted(out, c, cl, m, ml, ca, des, dis, cald) ==
    /\ out = [d \in Dampers |-> FALSE]
    /\ c = [d \in Dampers |-> "off"] /\ cl = [d \in Dampers |-> 0]
    /\ m = [d \in Dampers |-> "off"] /\ ml = [d \in Dampers |-> 0]
    /\ ca = 0
    /\ des = [d \in Dampers |-> 0]
    /\ dis = [d \in Dampers |-> TRUE] /\ cald = [d \in Dampers |-> FALSE]

Init ==
    /\ Booted(output, calibrate, calibrate_left, move, move_left, calibrate_all,
              desired_position, disturbed, calibrated)
    /\ full_turn = [d \in Dampers |-> DefaultTurn]
    /\ pos \in [Dampers -> 0 .. Turn - 1]
    /\ requests = 0

Endstop(d) == pos[d] < Window

Busy(d) == calibrate[d] # "off" \/ move[d] # "off"

-----------------------------------------------------------------------------
(* Calibration *)

\* calibrate_all_dampers: the script of one damper, once that of the damper
\* before has ended.
MayCalibrateNext_Now == calibrate_all <= N
MayCalibrateNext ==
    /\ calibrate_all <= N
    /\ calibrate_all \in Dampers => calibrate[calibrate_all] = "off"

CalibrateNext ==
    /\ MayCalibrateNext
    /\ calibrate_all' = calibrate_all + 1
    /\ LET d == calibrate_all + 1
       IN  IF d \in Dampers
           THEN /\ output' = [output EXCEPT ![d] = TRUE]
                /\ calibrate' = [calibrate EXCEPT ![d] = "hit"]
                /\ calibrate_left' = [calibrate_left EXCEPT ![d] = CalTimeout]
                /\ disturbed' = [disturbed EXCEPT ![d] = move[d] # "off"]
           ELSE UNCHANGED <<output, calibrate, calibrate_left, disturbed>>
    /\ UNCHANGED <<moving, desired_position, full_turn, pos, calibrated,
                   requests>>

\* The first two waits of calibrate_damper, for the endstop and for its release.
Hit(d) == calibrate[d] = "hit" /\ (Endstop(d) \/ calibrate_left[d] = 0)

CalibrateHit(d) ==
    /\ Hit(d)
    /\ calibrate' = [calibrate EXCEPT ![d] = "release"]
    /\ calibrate_left' = [calibrate_left EXCEPT ![d] = CalTimeout]
    /\ UNCHANGED <<output, calibrate_all, moving, desired_position, full_turn,
                   pos, disturbed, calibrated, requests>>

Released(d) == calibrate[d] = "release" /\ (~Endstop(d) \/ calibrate_left[d] = 0)

CalibrateReleased(d) ==
    /\ Released(d)
    /\ calibrate' = [calibrate EXCEPT ![d] = "measure"]
    /\ calibrate_left' = [calibrate_left EXCEPT ![d] = LongTimeout]
    /\ full_turn' = [full_turn EXCEPT ![d] = STAMP]
    /\ UNCHANGED <<output, calibrate_all, moving, desired_position, pos,
                   disturbed, calibrated, requests>>

\* The third wait, and the rest of the script.
Measured(d) == calibrate[d] = "measure" /\ (Endstop(d) \/ calibrate_left[d] = 0)

Elapsed(d) == LongTimeout - calibrate_left[d]

CalibrateMeasured(d) ==
    /\ Measured(d)
    /\ calibrate' = [calibrate EXCEPT ![d] = "off"]
    /\ calibrate_left' = [calibrate_left EXCEPT ![d] = 0]
    /\ full_turn' = [full_turn EXCEPT ![d] = Elapsed(d)]
    /\ output' = [output EXCEPT ![d] = FALSE]
    /\ desired_position' = [desired_position EXCEPT ![d] = 0]
    /\ calibrated' = [calibrated EXCEPT ![d] = ~disturbed[d]]
    /\ UNCHANGED <<calibrate_all, moving, pos, disturbed, requests>>

-----------------------------------------------------------------------------
(* Moving *)

\* open_action, close_action and position_action: move_damper starts afresh.
Move(d, position) ==
    /\ requests < MaxRequests /\ requests' = requests + 1
    /\ desired_position' = [desired_position EXCEPT ![d] = position]
    /\ output' = [output EXCEPT ![d] = TRUE]
    /\ move' = [move EXCEPT ![d] = "home"]
    /\ move_left' = [move_left EXCEPT ![d] = LongTimeout]
    /\ disturbed' = [disturbed EXCEPT ![d] = calibrate[d] # "off"]
    /\ UNCHANGED <<cal, full_turn, pos, calibrated>>

\* The delay for the position wanted: a fraction of a turn, or of the clock.
ExtraTicks_Turn(turn, position) == (turn * position) \div 100
ExtraTicks(turn, position) == (turn * position) \div 200

Homed_Forever(d) == move[d] = "home" /\ Endstop(d)
Homed(d) == move[d] = "home" /\ (Endstop(d) \/ move_left[d] = 0)

MoveHomed(d) ==
    /\ Homed(d)
    /\ move' = [move EXCEPT ![d] = "extra"]
    /\ \E turn \in IF full_turn[d] = STAMP THEN 0 .. MaxStamp ELSE {full_turn[d]} :
          move_left' = [move_left EXCEPT ![d] = ExtraTicks(turn, desired_position[d])]
    /\ UNCHANGED <<output, cal, desired_position, full_turn, pos, disturbed,
                   calibrated, requests>>

\* The output the last action of move_damper switches off.
StoppedBy_One(d) == 1
StoppedBy(d) == IF d = 3 THEN 2 ELSE d

Arrived(d) == move[d] = "extra" /\ move_left[d] = 0

MoveDone(d) ==
    /\ Arrived(d)
    /\ move' = [move EXCEPT ![d] = "off"]
    /\ output' = [output EXCEPT ![StoppedBy(d)] = FALSE]
    /\ disturbed' = [e \in Dampers |->
          disturbed[e] \/ (e = StoppedBy(d) /\ e # d /\ Busy(e))]
    /\ UNCHANGED <<move_left, cal, desired_position, full_turn, pos, calibrated,
                   requests>>

\* stop_action: the motor only.
Stop(d) ==
    /\ requests < MaxRequests /\ requests' = requests + 1
    /\ output' = [output EXCEPT ![d] = FALSE]
    /\ disturbed' = [disturbed EXCEPT ![d] = @ \/ Busy(d)]
    /\ UNCHANGED <<cal, moving, desired_position, full_turn, pos, calibrated>>

-----------------------------------------------------------------------------
(* Time and power *)

Ready ==
    \/ MayCalibrateNext
    \/ \E d \in Dampers :
          Hit(d) \/ Released(d) \/ Measured(d) \/ Homed(d) \/ Arrived(d)

OneLess(left) == [d \in Dampers |-> IF left[d] > 0 THEN left[d] - 1 ELSE 0]

Tick ==
    /\ ~Ready
    /\ pos' = [d \in Dampers |->
                  IF output[d] THEN (pos[d] + 1) % Turn ELSE pos[d]]
    /\ calibrate_left' = OneLess(calibrate_left)
    /\ move_left' = OneLess(move_left)
    /\ UNCHANGED <<output, calibrate, calibrate_all, move, desired_position,
                   full_turn, disturbed, calibrated, requests>>

\* The full turns come back from flash, or were never written there.
Reboot ==
    /\ requests < MaxRequests /\ requests' = requests + 1
    /\ Booted(output', calibrate', calibrate_left', move', move_left',
              calibrate_all', desired_position', disturbed', calibrated')
    /\ full_turn' \in {f \in [Dampers -> {STAMP} \cup 0 .. LongTimeout] :
                          \A d \in Dampers : f[d] \in {full_turn[d], DefaultTurn}}
    /\ UNCHANGED pos

Scripts ==
    \/ CalibrateNext
    \/ \E d \in Dampers :
          \/ CalibrateHit(d) \/ CalibrateReleased(d) \/ CalibrateMeasured(d)
          \/ MoveHomed(d) \/ MoveDone(d)

Cover ==
    \E d \in Dampers : Stop(d) \/ \E position \in Positions : Move(d, position)

Next == Scripts \/ Tick \/ Cover \/ Reboot

Spec == Init /\ [][Next]_vars

\* ESPHome's loop goes round and time passes.
FairSpec == Spec /\ WF_vars(Scripts) /\ WF_vars(Tick)

-----------------------------------------------------------------------------
\* r3_ventilation_pcb.yaml:384-388: a motor only runs while a script of its own
\* damper is there to stop it, whatever restarts, overlaps and stops there are.
MotorHasScript == \A d \in Dampers : output[d] => Busy(d)

\* Does d stand at a position, up to the width of the endstop?  Closed needs no
\* calibration for that.
At(d, position) ==
    IF position = 0 THEN Endstop(d)
    ELSE calibrated[d] =>
            LET ideal == (Turn * position) \div 200
            IN  pos[d] \in ideal - Window .. ideal + Window

\* r3_ventilation_pcb.yaml:183-186,383-387: a damper whose last script ran undisturbed
\* stands where its cover was asked to go, open, closed or in between, whatever it was
\* asked for before.
StandsWhereAsked ==
    \A d \in Dampers : ~Busy(d) /\ ~disturbed[d] => At(d, desired_position[d])

\* r3_ventilation_pcb.yaml:313-320: when all calibrations are over, no time stamp
\* is left that a move would take for the duration of a turn.
NoStampLeft == calibrate_all > N => \A d \in Dampers : full_turn[d] # STAMP

\* r3_ventilation_pcb.yaml:303-317,397-412: every wait ends, so that some time
\* after the last request all scripts are over and all motors off.
ComesToRest == <>[](\A d \in Dampers : ~output[d] /\ ~Busy(d))
=============================================================================
