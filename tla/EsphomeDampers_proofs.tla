------------------------ MODULE EsphomeDampers_proofs ------------------------
(***************************************************************************)
(* What holds of the second board for any number of dampers it drives,     *)
(* whatever its timeouts and however often it is asked to move, stopped    *)
(* and rebooted.                                                           *)
(***************************************************************************)
EXTENDS EsphomeDampers, TLAPS

\* The delay of a move fits the range of its wait: no more than half of a turn,
\* and half of the clock's bound.
LEMMA ExtraTicksRange ==
    ASSUME NEW turn \in 0 .. 2 * LongTimeout, NEW position \in 0 .. 100
    PROVE  ExtraTicks(turn, position) \in 0 .. LongTimeout
<1>1. LongTimeout \in Nat /\ turn \in Nat /\ position \in Nat
  BY EsphomeAssumption
<1>2. turn * position \in Nat /\ turn * position <= turn * 100
  BY <1>1
<1>3. turn * 100 <= 200 * LongTimeout
  BY <1>1
<1> DEFINE product == turn * position
<1>4. product \in Nat /\ product <= 200 * LongTimeout
  BY <1>1, <1>2, <1>3
<1> HIDE DEF product
<1>5. product \div 200 \in 0 .. LongTimeout
  BY <1>1, <1>4
<1> QED
  BY <1>5 DEF product, ExtraTicks

\* The board boots into values of the right type.
LEMMA InitTyped == Init => TypeOK
  BY EsphomeAssumption DEF Init, Booted, TypeOK, Dampers

\* No script, cover action, tick or reboot leaves the ranges of TypeOK.
LEMMA NextTyped == TypeOK /\ [Next]_vars => TypeOK'
<1> USE EsphomeAssumption
<1> SUFFICES ASSUME TypeOK, [Next]_vars
             PROVE  TypeOK'
  OBVIOUS
<1>1. CASE CalibrateNext
  <2> DEFINE d == calibrate_all + 1
  <2>1. calibrate_all' \in 0 .. N + 1
    BY <1>1 DEF CalibrateNext, MayCalibrateNext, TypeOK
  <2>2. /\ output' \in [Dampers -> BOOLEAN]
        /\ calibrate' \in [Dampers -> {"off", "hit", "release", "measure"}]
        /\ calibrate_left' \in [Dampers -> 0 .. LongTimeout]
        /\ disturbed' \in [Dampers -> BOOLEAN]
    <3>1. CASE d \in Dampers
      <4>1. CalTimeout \in 0 .. LongTimeout /\ (move[d] # "off") \in BOOLEAN
        OBVIOUS
      <4> HIDE DEF d
      <4> QED
        BY <1>1, <3>1, <4>1, Zenon DEF CalibrateNext, TypeOK, d
    <3>2. CASE d \notin Dampers
      BY <1>1, <3>2 DEF CalibrateNext, TypeOK
    <3> QED
      BY <3>1, <3>2
  <2> QED
    BY <1>1, <2>1, <2>2 DEF CalibrateNext, TypeOK, moving
<1>2. ASSUME NEW d \in Dampers, CalibrateHit(d)
      PROVE  TypeOK'
  BY <1>2 DEF CalibrateHit, TypeOK, moving
<1>3. ASSUME NEW d \in Dampers, CalibrateReleased(d)
      PROVE  TypeOK'
  BY <1>3 DEF CalibrateReleased, TypeOK, moving
<1>4. ASSUME NEW d \in Dampers, CalibrateMeasured(d)
      PROVE  TypeOK'
  BY <1>4 DEF CalibrateMeasured, Elapsed, TypeOK, moving
<1>5. ASSUME NEW d \in Dampers, MoveHomed(d)
      PROVE  TypeOK'
  <2>1. PICK turn \in IF full_turn[d] = STAMP THEN 0 .. MaxStamp ELSE {full_turn[d]} :
           move_left' = [move_left EXCEPT ![d] = ExtraTicks(turn, desired_position[d])]
    BY <1>5 DEF MoveHomed
  <2>2. turn \in 0 .. 2 * LongTimeout
    <3>1. CASE full_turn[d] = STAMP
      BY <2>1, <3>1
    <3>2. CASE full_turn[d] # STAMP
      BY <2>1, <3>2 DEF TypeOK
    <3> QED
      BY <3>1, <3>2
  <2>5. desired_position[d] \in 0 .. 100
    <3>1. desired_position[d] \in Positions \cup {0}
      BY <1>5 DEF TypeOK
    <3>2. Positions \subseteq 0 .. 100 /\ 0 \in 0 .. 100
      OBVIOUS
    <3> QED
      BY <3>1, <3>2, Zenon
  <2>3. ExtraTicks(turn, desired_position[d]) \in 0 .. LongTimeout
    BY <2>2, <2>5, ExtraTicksRange
  <2>4. move_left' \in [Dampers -> 0 .. LongTimeout]
    BY <2>1, <2>3 DEF TypeOK
  <2> QED
    BY <1>5, <2>4 DEF MoveHomed, TypeOK, cal
<1>6. ASSUME NEW d \in Dampers, MoveDone(d)
      PROVE  TypeOK'
  BY <1>6 DEF MoveDone, TypeOK, cal, Busy
<1>7. ASSUME NEW d \in Dampers, Stop(d)
      PROVE  TypeOK'
  BY <1>7 DEF Stop, TypeOK, cal, moving, Busy
<1>8. ASSUME NEW d \in Dampers, NEW position \in Positions, Move(d, position)
      PROVE  TypeOK'
  BY <1>8 DEF Move, TypeOK, cal
<1>9. CASE Tick
  <2>1. OneLess(calibrate_left) \in [Dampers -> 0 .. LongTimeout]
    BY DEF OneLess, TypeOK
  <2>2. OneLess(move_left) \in [Dampers -> 0 .. LongTimeout]
    BY DEF OneLess, TypeOK
  <2>3. pos' \in [Dampers -> 0 .. Turn - 1]
    BY <1>9 DEF Tick, TypeOK
  <2> QED
    BY <1>9, <2>1, <2>2, <2>3 DEF Tick, TypeOK
<1>10. CASE Reboot
  BY <1>10 DEF Reboot, Booted, TypeOK
<1>11. CASE UNCHANGED vars
  BY <1>11 DEF vars, cal, moving, TypeOK
<1> QED
  BY <1>1, <1>2, <1>3, <1>4, <1>5, <1>6, <1>7, <1>8, <1>9, <1>10, <1>11
  DEF Next, Scripts, Cover

\* Every variable stays in its range.
THEOREM TypeCorrect == Spec => []TypeOK
  BY InitTyped, NextTyped, PTL DEF Spec

-----------------------------------------------------------------------------
\* A step that neither starts a motor nor ends a script.
LEMMA NothingStartsOrEnds ==
    ASSUME MotorHasScript, NEW d \in Dampers,
           output'[d] => output[d],
           calibrate'[d] = "off" => calibrate[d] = "off",
           move'[d] = "off" => move[d] = "off"
    PROVE  output'[d] => Busy(d)'
  BY Zenon DEF MotorHasScript, Busy

\* Every step leaves a motor that runs with a script of its own damper, if each
\* move script ends with its own output.
LEMMA MotorStep ==
    ASSUME TypeOK, MotorHasScript, [Next]_vars, N <= 2, NEW d \in Dampers
    PROVE  output'[d] => Busy(d)'
<1> USE EsphomeAssumption
<1>1. CASE CalibrateNext
  <2>1. CASE d = calibrate_all + 1
    BY <1>1, <2>1 DEF CalibrateNext, TypeOK, Busy
  <2>2. CASE d # calibrate_all + 1
    <3>1. output'[d] = output[d] /\ calibrate'[d] = calibrate[d] /\ move' = move
      BY <1>1, <2>2 DEF CalibrateNext, TypeOK, moving
    <3> QED
      BY <3>1, NothingStartsOrEnds, Zenon
  <2> QED
    BY <2>1, <2>2
<1>2. ASSUME NEW e \in Dampers, CalibrateHit(e) \/ CalibrateReleased(e)
      PROVE  output'[d] => Busy(d)'
  <2>1. /\ output' = output /\ move' = move
        /\ calibrate'[d] = "off" => calibrate[d] = "off"
    BY <1>2 DEF CalibrateHit, CalibrateReleased, TypeOK, moving
  <2> QED
    BY <2>1, NothingStartsOrEnds, Zenon
<1>3. ASSUME NEW e \in Dampers, CalibrateMeasured(e)
      PROVE  output'[d] => Busy(d)'
  <2>1. CASE d = e
    BY <1>3, <2>1, Zenon DEF CalibrateMeasured, TypeOK
  <2>2. CASE d # e
    <3>1. output'[d] = output[d] /\ calibrate'[d] = calibrate[d] /\ move' = move
      BY <1>3, <2>2, Zenon DEF CalibrateMeasured, TypeOK, moving
    <3> QED
      BY <3>1, NothingStartsOrEnds, Zenon
  <2> QED
    BY <2>1, <2>2
<1>4. ASSUME NEW e \in Dampers, MoveHomed(e)
      PROVE  output'[d] => Busy(d)'
  <2>1. /\ output' = output /\ calibrate' = calibrate
        /\ move'[d] = "off" => move[d] = "off"
    BY <1>4 DEF MoveHomed, TypeOK, cal
  <2> QED
    BY <2>1, NothingStartsOrEnds, Zenon
<1>5. ASSUME NEW e \in Dampers, MoveDone(e)
      PROVE  output'[d] => Busy(d)'
  <2>0. StoppedBy(e) = e
    BY DEF StoppedBy, Dampers
  <2>1. CASE d = e
    BY <1>5, <2>0, <2>1, Zenon DEF MoveDone, TypeOK
  <2>2. CASE d # e
    <3>1. output'[d] = output[d] /\ calibrate' = calibrate /\ move'[d] = move[d]
      BY <1>5, <2>0, <2>2, Zenon DEF MoveDone, TypeOK, cal
    <3> QED
      BY <3>1, NothingStartsOrEnds, Zenon
  <2> QED
    BY <2>1, <2>2
<1>6. ASSUME NEW e \in Dampers, Stop(e)
      PROVE  output'[d] => Busy(d)'
  <2>1. (output'[d] => output[d]) /\ calibrate' = calibrate /\ move' = move
    BY <1>6, Zenon DEF Stop, TypeOK, cal, moving
  <2> QED
    BY <2>1, NothingStartsOrEnds, Zenon
<1>7. ASSUME NEW e \in Dampers, NEW position \in Positions, Move(e, position)
      PROVE  output'[d] => Busy(d)'
  <2>1. CASE d = e
    BY <1>7, <2>1 DEF Move, TypeOK, Busy
  <2>2. CASE d # e
    <3>1. output'[d] = output[d] /\ calibrate' = calibrate /\ move'[d] = move[d]
      BY <1>7, <2>2, Zenon DEF Move, TypeOK, cal
    <3> QED
      BY <3>1, NothingStartsOrEnds, Zenon
  <2> QED
    BY <2>1, <2>2
<1>8. CASE Tick \/ UNCHANGED vars
  <2>1. output' = output /\ calibrate' = calibrate /\ move' = move
    BY <1>8 DEF Tick, vars, cal, moving
  <2> QED
    BY <2>1, NothingStartsOrEnds, Zenon
<1>9. CASE Reboot
  BY <1>9, Zenon DEF Reboot, Booted
<1> QED
  BY <1>1, <1>2, <1>3, <1>4, <1>5, <1>6, <1>7, <1>8, <1>9
  DEF Next, Scripts, Cover

\* r3_ventilation_pcb.yaml:384-388: with dampers 1 and 2 only, whose scripts end
\* with their own outputs, no motor outlives its scripts.
THEOREM MotorsHaveScripts ==
    ASSUME N <= 2
    PROVE  Spec => []MotorHasScript
<1>1. Init => MotorHasScript
  BY DEF Init, Booted, MotorHasScript
<1>2. TypeOK /\ MotorHasScript /\ [Next]_vars => MotorHasScript'
  <2> SUFFICES ASSUME TypeOK, MotorHasScript, [Next]_vars, NEW d \in Dampers
               PROVE  output'[d] => Busy(d)'
    BY DEF MotorHasScript
  <2> QED
    BY MotorStep
<1> QED
  BY <1>1, <1>2, TypeCorrect, PTL DEF Spec

-----------------------------------------------------------------------------
\* Why no time stamp is left: only the damper whose turn it is calibrates, and a
\* damper that still holds a time stamp has its calibration before it, or is
\* being calibrated.
StampInv ==
    \A d \in Dampers :
        /\ calibrate[d] # "off" => d = calibrate_all
        /\ full_turn[d] = STAMP =>
              d > calibrate_all \/ (d = calibrate_all /\ calibrate[d] # "off")

\* r3_ventilation_pcb.yaml:313-320: the time stamps go with the calibrations, for
\* any number of dampers, also when a board was rebooted while it measured.
THEOREM StampsGo == Spec => []NoStampLeft
<1> USE EsphomeAssumption
<1>1. Init => StampInv
  BY DEF Init, Booted, StampInv, Dampers, STAMP
<1>2. TypeOK /\ StampInv /\ [Next]_vars => StampInv'
  <2> SUFFICES ASSUME TypeOK, StampInv, [Next]_vars
               PROVE  StampInv'
    OBVIOUS
  <2>1. CASE CalibrateNext
    <3> SUFFICES ASSUME NEW e \in Dampers
                 PROVE  /\ calibrate'[e] # "off" => e = calibrate_all'
                        /\ full_turn'[e] = STAMP =>
                              \/ e > calibrate_all'
                              \/ e = calibrate_all' /\ calibrate'[e] # "off"
      BY DEF StampInv
    <3>1. /\ calibrate_all' = calibrate_all + 1 /\ full_turn' = full_turn
          /\ calibrate_all \in Nat /\ e \in Nat
      BY <2>1 DEF CalibrateNext, TypeOK, Dampers
    <3>2. calibrate[e] = "off"
      BY <2>1 DEF CalibrateNext, MayCalibrateNext, StampInv
    <3>3. e # calibrate_all + 1 => calibrate'[e] = "off"
      BY <2>1, <3>2 DEF CalibrateNext, TypeOK
    <3>4. e = calibrate_all + 1 => calibrate'[e] = "hit"
      BY <2>1 DEF CalibrateNext, TypeOK
    <3> QED
      BY <3>1, <3>2, <3>3, <3>4 DEF StampInv
  <2>2. ASSUME NEW d \in Dampers, CalibrateHit(d)
        PROVE  StampInv'
    BY <2>2 DEF CalibrateHit, Hit, StampInv, TypeOK
  <2>3. ASSUME NEW d \in Dampers, CalibrateReleased(d)
        PROVE  StampInv'
    BY <2>3 DEF CalibrateReleased, Released, StampInv, TypeOK
  <2>4. ASSUME NEW d \in Dampers, CalibrateMeasured(d)
        PROVE  StampInv'
    <3>1. Elapsed(d) # STAMP
      BY DEF Elapsed, TypeOK, STAMP
    <3> QED
      BY <2>4, <3>1 DEF CalibrateMeasured, StampInv, TypeOK
  <2>5. CASE Reboot
    BY <2>5 DEF Reboot, Booted, StampInv, Dampers
  <2>6. CASE \/ Tick \/ UNCHANGED vars \/ Cover
             \/ \E d \in Dampers : MoveHomed(d) \/ MoveDone(d)
    <3>1. UNCHANGED <<calibrate, calibrate_all, full_turn>>
      BY <2>6 DEF Tick, vars, cal, Cover, Stop, Move, MoveHomed, MoveDone
    <3> QED
      BY <3>1 DEF StampInv
  <2> QED
    BY <2>1, <2>2, <2>3, <2>4, <2>5, <2>6 DEF Next, Scripts
<1>3. TypeOK /\ StampInv => NoStampLeft
  BY DEF TypeOK, StampInv, NoStampLeft, Dampers
<1> QED
  BY <1>1, <1>2, <1>3, TypeCorrect, PTL DEF Spec

-----------------------------------------------------------------------------
(***************************************************************************)
(* Where an undisturbed damper is.  Its motor runs exactly while one of    *)
(* its scripts does; on its way to the endstop it gets there before the    *)
(* wait is over; so a turn is measured from the endstop's release to the   *)
(* next hit, and the delay of a move is counted from the endstop on.       *)
(***************************************************************************)
\* The endstop is reached before the wait times out.
Towards(d, left) == Endstop(d) \/ left >= Turn - pos[d]

Calibrating(d) ==
    /\ calibrate[d] = "hit" => Towards(d, calibrate_left[d])
    /\ calibrate[d] = "release" => pos[d] <= Window /\ calibrate_left[d] >= Window - pos[d]
    /\ calibrate[d] = "measure" =>
          \/ pos[d] = Window + Elapsed(d)
          \/ pos[d] = 0 /\ Elapsed(d) = Turn - Window

\* How far from the endstop's beginning the delay began.
Began(d) == pos[d] + move_left[d] - ExtraTicks(Turn - Window, desired_position[d])

MovingOn(d) ==
    /\ move[d] = "home" => Towards(d, move_left[d])
    /\ move[d] = "extra" =>
          IF desired_position[d] = 0 THEN move_left[d] = 0 /\ Endstop(d)
          ELSE calibrated[d] => Began(d) \in 0 .. Window - 1

AsAsked(d) ==
    IF desired_position[d] = 0 THEN Endstop(d)
    ELSE calibrated[d] =>
            LET ideal == (Turn * desired_position[d]) \div 200
            IN  pos[d] \in ideal - Window .. ideal + Window

Guided(d) ==
    /\ calibrate[d] = "off" \/ move[d] = "off"
    /\ output[d] <=> Busy(d)
    /\ Calibrating(d) /\ MovingOn(d) /\ (~Busy(d) => AsAsked(d))

Placed(d) ==
    /\ calibrate[d] # "off" => d = calibrate_all
    /\ calibrated[d] =>
          calibrate[d] = "off" /\ d <= calibrate_all /\ full_turn[d] = Turn - Window
    /\ ~disturbed[d] => Guided(d)

\* What the constants and the types say of one damper, in numbers.
LEMMA DamperNumbers ==
  ASSUME TypeOK, NEW d \in Dampers
  PROVE  /\ Turn \in Nat /\ Window \in Nat /\ 0 < Window /\ Window < Turn
         /\ LongTimeout \in Nat /\ CalTimeout \in Nat /\ Turn < CalTimeout
         /\ CalTimeout <= LongTimeout
         /\ pos[d] \in 0 .. Turn - 1 /\ d \in Nat /\ calibrate_all \in Nat
         /\ calibrate_left[d] \in 0 .. LongTimeout /\ move_left[d] \in 0 .. LongTimeout
         /\ desired_position[d] \in 0 .. 100
<1> USE EsphomeAssumption
<1>1. desired_position[d] \in 0 .. 100
  <2>1. desired_position[d] \in Positions \cup {0}
    BY DEF TypeOK
  <2>2. Positions \subseteq 0 .. 100 /\ 0 \in 0 .. 100
    OBVIOUS
  <2> QED
    BY <2>1, <2>2, Zenon
<1> QED
  BY <1>1 DEF TypeOK, Dampers

\* r3_ventilation_pcb.yaml:409-412: the delay measured by a calibrated turn differs
\* from that of the whole turn by the endstop's width at most.
LEMMA DelayIsClose ==
  ASSUME NEW position \in 0 .. 100
  PROVE  LET x == ExtraTicks(Turn - Window, position)
             ideal == (Turn * position) \div 200
         IN  /\ x \in Nat /\ ideal \in Nat
             /\ x <= ideal /\ ideal <= x + Window /\ x + Window <= Turn
<1> DEFINE a == Turn * position
           b == Window * position
           c == (Turn - Window) * position
<1>1. Turn \in Nat /\ Window \in Nat /\ 0 < Window /\ Window < Turn /\ position \in Nat
  BY EsphomeAssumption
<1>2. /\ a \in Nat /\ b \in Nat /\ c = a - b /\ b <= 100 * Window
      /\ c \in Nat /\ c <= 100 * (Turn - Window)
  <2>1. \A t, w, p \in Nat : w < t =>
          /\ t * p \in Nat /\ w * p \in Nat /\ (t - w) * p = t * p - w * p
          /\ (t - w) * p \in Nat
    OBVIOUS
  <2>2. \A w \in Nat, p \in 0 .. 100 : w * p <= 100 * w
    OBVIOUS
  <2>3. Turn - Window \in Nat
    BY <1>1
  <2> QED
    BY <1>1, <2>1, <2>2, <2>3
<1> HIDE DEF a, b, c
<1>3. /\ c \div 200 \in Nat /\ a \div 200 \in Nat
      /\ c \div 200 <= a \div 200 /\ a \div 200 <= c \div 200 + Window
      /\ c \div 200 + Window <= Turn
  BY <1>1, <1>2
<1> QED
  BY <1>3 DEF ExtraTicks, a, c

\* No delay for a closed cover, whatever is taken for the duration of a turn.
LEMMA NoDelayWhenClosed == \A turn \in Int : ExtraTicks(turn, 0) = 0
<1>1. \A turn \in Int : turn * 0 = 0
  OBVIOUS
<1>2. 0 \div 200 = 0
  OBVIOUS
<1> QED
  BY <1>1, <1>2 DEF ExtraTicks

\* A step that leaves a damper alone.
LEMMA LeftAlone ==
  ASSUME NEW d \in Dampers, Placed(d),
         output'[d] = output[d], calibrate'[d] = calibrate[d], move'[d] = move[d],
         calibrate_left'[d] = calibrate_left[d], move_left'[d] = move_left[d],
         desired_position'[d] = desired_position[d], full_turn'[d] = full_turn[d],
         pos'[d] = pos[d], calibrated'[d] = calibrated[d],
         disturbed[d] => disturbed'[d],
         calibrate_all' = calibrate_all
  PROVE  Placed(d)'
  BY Zenon
     DEF Placed, Guided, Calibrating, MovingOn, AsAsked, Began, Towards, Endstop, Busy,
         Elapsed

\* A tick moves a running disk on by one.
LEMMA DiskTurns ==
  ASSUME TypeOK, NEW d \in Dampers, Tick
  PROVE  /\ output[d] => pos'[d] = IF pos[d] + 1 = Turn THEN 0 ELSE pos[d] + 1
         /\ ~output[d] => pos'[d] = pos[d]
         /\ calibrate_left[d] > 0 => calibrate_left'[d] = calibrate_left[d] - 1
         /\ move_left[d] > 0 => move_left'[d] = move_left[d] - 1
         /\ move_left[d] = 0 => move_left'[d] = 0
<1>1. /\ pos'[d] = IF output[d] THEN (pos[d] + 1) % Turn ELSE pos[d]
      /\ calibrate_left'[d] = IF calibrate_left[d] > 0 THEN calibrate_left[d] - 1 ELSE 0
      /\ move_left'[d] = IF move_left[d] > 0 THEN move_left[d] - 1 ELSE 0
  BY DEF Tick, OneLess
<1>2. (pos[d] + 1) % Turn = IF pos[d] + 1 = Turn THEN 0 ELSE pos[d] + 1
  <2>1. \A t \in Nat : \A p \in 0 .. t - 1 : p + 1 # t => (p + 1) % t = p + 1
    OBVIOUS
  <2>2. \A t \in Nat \ {0} : t % t = 0
    OBVIOUS
  <2> QED
    BY <2>1, <2>2, DamperNumbers
<1> QED
  BY <1>1, <1>2, DamperNumbers

\* Time passes for a damper: each wait it is in has still to end.
LEMMA TickPlaced ==
  ASSUME TypeOK, NEW d \in Dampers, Placed(d), Tick
  PROVE  Placed(d)'
<1>1. /\ UNCHANGED <<output, calibrate, calibrate_all, move, desired_position>>
      /\ UNCHANGED <<full_turn, disturbed, calibrated>>
      /\ ~Hit(d) /\ ~Released(d) /\ ~Measured(d) /\ ~Homed(d) /\ ~Arrived(d)
  BY DEF Tick, Ready
<1> SUFFICES ASSUME ~disturbed[d] PROVE Guided(d)'
  BY <1>1 DEF Placed
<1>2. Guided(d)
  BY DEF Placed
<1>3. Busy(d)' = Busy(d) /\ (output[d] <=> Busy(d))
  BY <1>1, <1>2 DEF Busy, Guided
<1>4. Calibrating(d)'
  <2>1. CASE calibrate[d] = "hit"
    <3>1. ~Endstop(d) /\ calibrate_left[d] > 0 /\ calibrate_left[d] >= Turn - pos[d] /\ output[d]
      BY <1>1, <1>2, <1>3, <2>1, DamperNumbers DEF Hit, Guided, Calibrating, Towards, Busy
    <3>2. calibrate_left'[d] = calibrate_left[d] - 1
          /\ pos'[d] = IF pos[d] + 1 = Turn THEN 0 ELSE pos[d] + 1
      BY <3>1, DiskTurns
    <3>3. pos'[d] < Window \/ calibrate_left'[d] >= Turn - pos'[d]
      BY <3>1, <3>2, DamperNumbers
    <3> QED
      BY <1>1, <2>1, <3>3 DEF Calibrating, Towards, Endstop
  <2>2. CASE calibrate[d] = "release"
    <3>1. pos[d] < Window /\ calibrate_left[d] > 0 /\ calibrate_left[d] >= Window - pos[d]
          /\ output[d]
      BY <1>1, <1>2, <1>3, <2>2, DamperNumbers DEF Released, Guided, Calibrating, Endstop, Busy
    <3>2. calibrate_left'[d] = calibrate_left[d] - 1
          /\ pos'[d] = IF pos[d] + 1 = Turn THEN 0 ELSE pos[d] + 1
      BY <3>1, DiskTurns
    <3>3. pos'[d] <= Window /\ calibrate_left'[d] >= Window - pos'[d]
      BY <3>1, <3>2, DamperNumbers
    <3> QED
      BY <1>1, <2>2, <3>3 DEF Calibrating
  <2>3. CASE calibrate[d] = "measure"
    <3>1. ~(pos[d] < Window) /\ calibrate_left[d] > 0 /\ output[d]
          /\ pos[d] = Window + (LongTimeout - calibrate_left[d])
      BY <1>1, <1>2, <1>3, <2>3, DamperNumbers
         DEF Measured, Guided, Calibrating, Endstop, Busy, Elapsed
    <3>2. calibrate_left'[d] = calibrate_left[d] - 1
          /\ pos'[d] = IF pos[d] + 1 = Turn THEN 0 ELSE pos[d] + 1
      BY <3>1, DiskTurns
    <3>3. \/ pos'[d] = Window + (LongTimeout - calibrate_left'[d])
          \/ pos'[d] = 0 /\ LongTimeout - calibrate_left'[d] = Turn - Window
      BY <3>1, <3>2, DamperNumbers
    <3> QED
      BY <1>1, <2>3, <3>3 DEF Calibrating, Elapsed
  <2>4. CASE calibrate[d] = "off"
    BY <1>1, <2>4 DEF Calibrating
  <2>5. calibrate[d] \in {"off", "hit", "release", "measure"}
    BY DEF TypeOK
  <2> QED
    BY <2>1, <2>2, <2>3, <2>4, <2>5
<1>5. MovingOn(d)'
  <2>1. CASE move[d] = "home"
    <3>1. ~Endstop(d) /\ move_left[d] > 0 /\ move_left[d] >= Turn - pos[d] /\ output[d]
      BY <1>1, <1>2, <1>3, <2>1, DamperNumbers DEF Homed, Guided, MovingOn, Towards, Busy
    <3>2. move_left'[d] = move_left[d] - 1
          /\ pos'[d] = IF pos[d] + 1 = Turn THEN 0 ELSE pos[d] + 1
      BY <3>1, DiskTurns
    <3>3. pos'[d] < Window \/ move_left'[d] >= Turn - pos'[d]
      BY <3>1, <3>2, DamperNumbers
    <3> QED
      BY <1>1, <2>1, <3>3 DEF MovingOn, Towards, Endstop
  <2>2. CASE move[d] = "extra"
    <3>1. move_left[d] > 0 /\ output[d]
      BY <1>1, <1>3, <2>2, DamperNumbers DEF Arrived, Busy
    <3>2. move_left'[d] = move_left[d] - 1
          /\ pos'[d] = IF pos[d] + 1 = Turn THEN 0 ELSE pos[d] + 1
      BY <3>1, DiskTurns
    <3>3. desired_position[d] # 0
      BY <1>2, <2>2, <3>1 DEF Guided, MovingOn
    <3>4. ASSUME calibrated[d] PROVE Began(d)' \in 0 .. Window - 1
      <4> DEFINE x == ExtraTicks(Turn - Window, desired_position[d])
      <4>1. x \in Nat /\ x + Window <= Turn
        BY DamperNumbers, DelayIsClose
      <4> HIDE DEF x
      <4>2. pos[d] + move_left[d] - x \in 0 .. Window - 1
        BY <1>2, <2>2, <3>3, <3>4 DEF Guided, MovingOn, Began, x
      <4>3. pos'[d] + move_left'[d] - x \in 0 .. Window - 1
        BY <3>1, <3>2, <4>1, <4>2, DamperNumbers
      <4>4. Began(d)' = pos'[d] + move_left'[d] - x
        BY <1>1 DEF Began, x
      <4> QED
        BY <4>3, <4>4
    <3> QED
      BY <1>1, <2>2, <3>3, <3>4 DEF MovingOn
  <2>3. CASE move[d] = "off"
    BY <1>1, <2>3 DEF MovingOn
  <2>4. move[d] \in {"off", "home", "extra"}
    BY DEF TypeOK
  <2> QED
    BY <2>1, <2>2, <2>3, <2>4
<1>6. ASSUME ~Busy(d) PROVE AsAsked(d)'
  <2>1. pos'[d] = pos[d] /\ AsAsked(d)
    BY <1>2, <1>3, <1>6, DiskTurns DEF Guided
  <2> QED
    BY <1>1, <2>1 DEF AsAsked, Endstop
<1> QED
  BY <1>1, <1>2, <1>3, <1>4, <1>5, <1>6 DEF Guided

\* The endstop has been reached when its wait ends.
LEMMA ReachedEndstop ==
  ASSUME TypeOK, NEW d \in Dampers, NEW left \in Nat, Towards(d, left), Endstop(d) \/ left = 0
  PROVE  Endstop(d)
  BY DamperNumbers DEF Towards

\* calibrate_damper, from one wait to the next, and what it measures.
LEMMA CalibrationPlaced ==
  ASSUME TypeOK, NEW d \in Dampers, Placed(d),
         CalibrateHit(d) \/ CalibrateReleased(d) \/ CalibrateMeasured(d)
  PROVE  Placed(d)'
<1>1. CASE CalibrateHit(d)
  <2>1. /\ calibrate[d] = "hit" /\ calibrate'[d] = "release"
        /\ calibrate_left'[d] = CalTimeout
        /\ Endstop(d) \/ calibrate_left[d] = 0
        /\ UNCHANGED <<output, calibrate_all, move, move_left, desired_position>>
        /\ UNCHANGED <<full_turn, pos, disturbed, calibrated>>
    BY <1>1 DEF CalibrateHit, Hit, TypeOK, moving
  <2>2. ASSUME ~disturbed[d] PROVE Guided(d)'
    <3>1. Guided(d)
      BY <2>2 DEF Placed
    <3>2. Endstop(d)
      BY <2>1, <3>1, ReachedEndstop, DamperNumbers DEF Guided, Calibrating
    <3>3. pos[d] <= Window /\ CalTimeout >= Window - pos[d]
      BY <3>2, DamperNumbers DEF Endstop
    <3> QED
      BY <2>1, <3>1, <3>3 DEF Guided, Calibrating, MovingOn, Busy
  <2> QED
    BY <2>1, <2>2 DEF Placed
<1>2. CASE CalibrateReleased(d)
  <2>1. /\ calibrate[d] = "release" /\ calibrate'[d] = "measure"
        /\ calibrate_left'[d] = LongTimeout
        /\ ~Endstop(d) \/ calibrate_left[d] = 0
        /\ UNCHANGED <<output, calibrate_all, move, move_left, desired_position>>
        /\ UNCHANGED <<pos, disturbed, calibrated>>
    BY <1>2 DEF CalibrateReleased, Released, TypeOK, moving
  <2>2. ASSUME ~disturbed[d] PROVE Guided(d)'
    <3>1. Guided(d)
      BY <2>2 DEF Placed
    <3>2. pos[d] <= Window /\ calibrate_left[d] >= Window - pos[d]
      BY <2>1, <3>1 DEF Guided, Calibrating
    <3>3. pos[d] = Window + (LongTimeout - LongTimeout)
      BY <2>1, <3>2, DamperNumbers DEF Endstop
    <3> QED
      BY <2>1, <3>1, <3>3 DEF Guided, Calibrating, MovingOn, Busy, Elapsed
  <2> QED
    BY <2>1, <2>2 DEF Placed
<1>3. CASE CalibrateMeasured(d)
  <2>1. /\ calibrate[d] = "measure" /\ calibrate'[d] = "off" /\ output'[d] = FALSE
        /\ desired_position'[d] = 0 /\ full_turn'[d] = Elapsed(d)
        /\ calibrated'[d] = ~disturbed[d]
        /\ Endstop(d) \/ calibrate_left[d] = 0
        /\ UNCHANGED <<calibrate_all, move, move_left, pos, disturbed>>
    BY <1>3, Zenon DEF CalibrateMeasured, Measured, TypeOK, moving
  <2>2. ASSUME ~disturbed[d] PROVE Guided(d)' /\ full_turn'[d] = Turn - Window
    <3>1. Guided(d)
      BY <2>2 DEF Placed
    <3>2. \/ pos[d] = Window + (LongTimeout - calibrate_left[d])
          \/ pos[d] = 0 /\ LongTimeout - calibrate_left[d] = Turn - Window
      BY <2>1, <3>1 DEF Guided, Calibrating, Elapsed
    <3>3. pos[d] = 0 /\ LongTimeout - calibrate_left[d] = Turn - Window
      BY <2>1, <3>2, DamperNumbers DEF Endstop
    <3>4. Endstop(d)' /\ move[d] = "off"
      BY <2>1, <3>1, <3>3, DamperNumbers DEF Endstop, Guided
    <3> QED
      BY <2>1, <3>3, <3>4 DEF Guided, Calibrating, MovingOn, Busy, AsAsked, Elapsed
  <2>3. d <= calibrate_all'
    BY <2>1, DamperNumbers DEF Placed
  <2> QED
    BY <2>1, <2>2, <2>3 DEF Placed
<1> QED
  BY <1>1, <1>2, <1>3

\* move_damper comes to the endstop and goes on from there.
LEMMA HomedPlaced ==
  ASSUME TypeOK, NEW d \in Dampers, Placed(d), MoveHomed(d)
  PROVE  Placed(d)'
<1>1. PICK turn \in IF full_turn[d] = STAMP THEN 0 .. MaxStamp ELSE {full_turn[d]} :
           move_left' = [move_left EXCEPT ![d] = ExtraTicks(turn, desired_position[d])]
  BY DEF MoveHomed
<1>2. /\ move[d] = "home" /\ move'[d] = "extra"
      /\ move_left'[d] = ExtraTicks(turn, desired_position[d])
      /\ Endstop(d) \/ move_left[d] = 0
      /\ UNCHANGED <<output, calibrate, calibrate_left, calibrate_all, desired_position>>
      /\ UNCHANGED <<full_turn, pos, disturbed, calibrated>>
  BY <1>1 DEF MoveHomed, Homed, TypeOK, cal
<1>3. ASSUME ~disturbed[d] PROVE Guided(d)'
  <2>1. Guided(d)
    BY <1>3 DEF Placed
  <2>2. Endstop(d)
    BY <1>2, <2>1, ReachedEndstop, DamperNumbers DEF Guided, MovingOn
  <2>3. desired_position[d] = 0 => move_left'[d] = 0
    <3>1. turn \in Int
      <4>1. full_turn[d] \in {STAMP} \cup 0 .. LongTimeout
        BY DEF TypeOK
      <4>2. {STAMP} \cup 0 .. LongTimeout \subseteq Int /\ 0 .. MaxStamp \subseteq Int
        BY EsphomeAssumption DEF STAMP
      <4> QED
        BY <1>1, <4>1, <4>2
    <3> QED
      BY <1>2, <3>1, NoDelayWhenClosed
  <2>4. ASSUME calibrated[d] PROVE Began(d)' \in 0 .. Window - 1
    <3>1. turn = Turn - Window
      <4>1. full_turn[d] = Turn - Window
        BY <2>4 DEF Placed
      <4>2. full_turn[d] # STAMP
        BY <4>1, DamperNumbers DEF STAMP
      <4> QED
        BY <1>1, <4>1, <4>2
    <3> DEFINE x == ExtraTicks(Turn - Window, desired_position[d])
    <3>2. x \in Nat /\ move_left'[d] = x
      BY <1>2, <3>1, DamperNumbers, DelayIsClose
    <3>3. Began(d)' = pos[d] + x - x
      BY <1>2, <3>2 DEF Began
    <3> HIDE DEF x
    <3> QED
      BY <2>2, <3>2, <3>3, DamperNumbers DEF Endstop
  <2>5. Endstop(d)'
    BY <1>2, <2>2 DEF Endstop
  <2>6. MovingOn(d)'
    BY <1>2, <2>3, <2>4, <2>5 DEF MovingOn
  <2>7. calibrate[d] = "off"
    BY <1>2, <2>1 DEF Guided
  <2> QED
    BY <1>2, <2>1, <2>6, <2>7 DEF Guided, Calibrating, Busy
<1> QED
  BY <1>2, <1>3 DEF Placed

\* move_damper ends, and the damper is where it was asked to go.
LEMMA DonePlaced ==
  ASSUME TypeOK, NEW d \in Dampers, Placed(d), MoveDone(d), StoppedBy(d) = d
  PROVE  Placed(d)'
<1>1. /\ move[d] = "extra" /\ move_left[d] = 0 /\ move'[d] = "off" /\ output'[d] = FALSE
      /\ disturbed'[d] = disturbed[d]
      /\ UNCHANGED <<move_left, calibrate, calibrate_left, calibrate_all>>
      /\ UNCHANGED <<desired_position, full_turn, pos, calibrated>>
  BY Zenon DEF MoveDone, Arrived, TypeOK, cal
<1>2. ASSUME ~disturbed[d] PROVE Guided(d)'
  <2>1. Guided(d) /\ calibrate[d] = "off"
    BY <1>1, <1>2 DEF Placed, Guided
  <2>2. AsAsked(d)
    <3>1. CASE desired_position[d] = 0
      BY <1>1, <2>1, <3>1 DEF Guided, MovingOn, AsAsked
    <3>2. CASE desired_position[d] # 0 /\ calibrated[d]
      <4> DEFINE x == ExtraTicks(Turn - Window, desired_position[d])
                 ideal == (Turn * desired_position[d]) \div 200
      <4>1. x \in Nat /\ ideal \in Nat /\ x <= ideal /\ ideal <= x + Window
        BY DamperNumbers, DelayIsClose
      <4>2. pos[d] + 0 - x \in 0 .. Window - 1
        BY <1>1, <2>1, <3>2 DEF Guided, MovingOn, Began
      <4> HIDE DEF x, ideal
      <4>3. pos[d] \in ideal - Window .. ideal + Window
        BY <4>1, <4>2, DamperNumbers
      <4> QED
        BY <3>2, <4>3 DEF AsAsked, ideal
    <3> QED
      BY <3>1, <3>2 DEF AsAsked
  <2>3. AsAsked(d)'
    BY <1>1, <2>2 DEF AsAsked, Endstop
  <2> QED
    BY <1>1, <2>1, <2>3 DEF Guided, Calibrating, MovingOn, Busy
<1> QED
  BY <1>1, <1>2 DEF Placed

\* A cover's actions.
LEMMA CoverPlaced ==
  ASSUME TypeOK, NEW d \in Dampers, Placed(d),
         Stop(d) \/ \E position \in Positions : Move(d, position)
  PROVE  Placed(d)'
<1>1. CASE Stop(d)
  <2>1. /\ output'[d] = FALSE /\ disturbed'[d] = (disturbed[d] \/ Busy(d))
        /\ UNCHANGED <<calibrate, calibrate_left, calibrate_all, move, move_left>>
        /\ UNCHANGED <<desired_position, full_turn, pos, calibrated>>
    BY <1>1, Zenon DEF Stop, TypeOK, cal, moving, Busy
  <2>2. ASSUME ~disturbed'[d] PROVE Guided(d)'
    <3>1. Guided(d) /\ ~Busy(d)
      BY <2>1, <2>2 DEF Placed
    <3> QED
      BY <2>1, <3>1
         DEF Guided, Calibrating, MovingOn, Busy, AsAsked, Endstop, Towards, Began, Elapsed
  <2> QED
    BY <2>1, <2>2, Zenon DEF Placed
<1>2. ASSUME NEW position \in Positions, Move(d, position) PROVE Placed(d)'
  <2>1. /\ output'[d] = TRUE /\ move'[d] = "home" /\ move_left'[d] = LongTimeout
        /\ disturbed'[d] = (calibrate[d] # "off")
        /\ UNCHANGED <<calibrate, calibrate_left, calibrate_all, full_turn, pos, calibrated>>
    BY <1>2, Zenon DEF Move, TypeOK, cal
  <2>2. LongTimeout >= Turn - pos[d]
    BY DamperNumbers
  <2>3. ASSUME calibrate[d] = "off" PROVE Guided(d)'
    BY <2>1, <2>2, <2>3 DEF Guided, Calibrating, MovingOn, Busy, Towards
  <2> QED
    BY <2>1, <2>3 DEF Placed
<1> QED
  BY <1>1, <1>2

\* calibrate_all_dampers goes on to the next damper.
LEMMA NextPlaced ==
  ASSUME TypeOK, NEW d \in Dampers, Placed(d), CalibrateNext
  PROVE  Placed(d)'
<1>1. /\ calibrate_all' = calibrate_all + 1 /\ calibrate[d] = "off"
      /\ UNCHANGED <<move, move_left, desired_position, full_turn, pos, calibrated>>
  <2>1. calibrate_all \in Dampers => calibrate[calibrate_all] = "off"
    BY DEF CalibrateNext, MayCalibrateNext
  <2>2. calibrate[d] # "off" => d = calibrate_all
    BY DEF Placed
  <2>3. calibrate[d] = "off"
    BY <2>1, <2>2, Zenon
  <2> QED
    BY <2>3 DEF CalibrateNext, moving
<1>2. CASE d = calibrate_all + 1
  <2>1. /\ output'[d] = TRUE /\ calibrate'[d] = "hit" /\ calibrate_left'[d] = CalTimeout
        /\ disturbed'[d] = (move[d] # "off")
    BY <1>2, Zenon DEF CalibrateNext, TypeOK
  <2>2. ~calibrated[d]
    BY <1>2, DamperNumbers DEF Placed
  <2>3. CalTimeout >= Turn - pos[d]
    BY DamperNumbers
  <2>4. ASSUME move[d] = "off" PROVE Guided(d)'
    BY <1>1, <2>1, <2>3, <2>4 DEF Guided, Calibrating, MovingOn, Busy, Towards
  <2> QED
    BY <1>1, <1>2, <2>1, <2>2, <2>4 DEF Placed
<1>3. CASE d # calibrate_all + 1
  <2>1. /\ output'[d] = output[d] /\ calibrate'[d] = calibrate[d]
        /\ calibrate_left'[d] = calibrate_left[d] /\ disturbed'[d] = disturbed[d]
    BY <1>3, Zenon DEF CalibrateNext, TypeOK
  <2>2. d <= calibrate_all => d <= calibrate_all'
    BY <1>1, DamperNumbers
  <2>3. ~disturbed[d] => Guided(d)'
    BY <1>1, <2>1, Zenon
       DEF Placed, Guided, Calibrating, MovingOn, AsAsked, Began, Towards, Endstop, Busy,
           Elapsed
  <2> QED
    BY <1>1, <2>1, <2>2, <2>3 DEF Placed
<1> QED
  BY <1>2, <1>3

\* Every step leaves a damper placed whose scripts end with its own output.
LEMMA PlacedStep ==
  ASSUME TypeOK, N <= 2, NEW d \in Dampers, Placed(d), [Next]_vars
  PROVE  Placed(d)'
<1>1. CASE CalibrateNext
  BY <1>1, NextPlaced
<1>2. ASSUME NEW e \in Dampers, CalibrateHit(e) \/ CalibrateReleased(e) \/ CalibrateMeasured(e)
      PROVE  Placed(d)'
  <2>1. CASE d = e
    BY <1>2, <2>1, CalibrationPlaced
  <2>2. CASE d # e
    <3>1. /\ output'[d] = output[d] /\ calibrate'[d] = calibrate[d]
          /\ calibrate_left'[d] = calibrate_left[d] /\ full_turn'[d] = full_turn[d]
          /\ desired_position'[d] = desired_position[d] /\ calibrated'[d] = calibrated[d]
          /\ UNCHANGED <<calibrate_all, move, move_left, pos, disturbed>>
      BY <1>2, <2>2, Zenon
         DEF CalibrateHit, CalibrateReleased, CalibrateMeasured, TypeOK, moving
    <3> QED
      BY <3>1, LeftAlone, Zenon
  <2> QED
    BY <2>1, <2>2
<1>3. ASSUME NEW e \in Dampers, MoveHomed(e) PROVE Placed(d)'
  <2>1. CASE d = e
    BY <1>3, <2>1, HomedPlaced
  <2>2. CASE d # e
    <3>1. /\ move'[d] = move[d] /\ move_left'[d] = move_left[d]
          /\ UNCHANGED <<output, calibrate, calibrate_left, calibrate_all, desired_position>>
          /\ UNCHANGED <<full_turn, pos, disturbed, calibrated>>
      BY <1>3, <2>2, Zenon DEF MoveHomed, TypeOK, cal
    <3> QED
      BY <3>1, LeftAlone, Zenon
  <2> QED
    BY <2>1, <2>2
<1>4. ASSUME NEW e \in Dampers, MoveDone(e) PROVE Placed(d)'
  <2>0. StoppedBy(e) = e
    BY EsphomeAssumption DEF StoppedBy, Dampers
  <2>1. CASE d = e
    BY <1>4, <2>0, <2>1, DonePlaced
  <2>2. CASE d # e
    <3>1. /\ output'[d] = output[d] /\ move'[d] = move[d] /\ disturbed'[d] = disturbed[d]
          /\ UNCHANGED <<move_left, calibrate, calibrate_left, calibrate_all>>
          /\ UNCHANGED <<desired_position, full_turn, pos, calibrated>>
      BY <1>4, <2>0, <2>2, Zenon DEF MoveDone, TypeOK, cal
    <3> QED
      BY <3>1, LeftAlone, Zenon
  <2> QED
    BY <2>1, <2>2
<1>5. ASSUME NEW e \in Dampers, Stop(e) \/ \E position \in Positions : Move(e, position)
      PROVE  Placed(d)'
  <2>1. CASE d = e
    BY <1>5, <2>1, CoverPlaced
  <2>2. CASE d # e
    <3>1. /\ output'[d] = output[d] /\ move'[d] = move[d] /\ disturbed'[d] = disturbed[d]
          /\ move_left'[d] = move_left[d] /\ desired_position'[d] = desired_position[d]
          /\ UNCHANGED <<calibrate, calibrate_left, calibrate_all, full_turn, pos, calibrated>>
      BY <1>5, <2>2, Zenon DEF Stop, Move, TypeOK, cal, moving
    <3> QED
      BY <3>1, LeftAlone, Zenon
  <2> QED
    BY <2>1, <2>2
<1>6. CASE Tick
  BY <1>6, TickPlaced
<1>7. CASE Reboot
  BY <1>7, Zenon DEF Reboot, Booted, Placed
<1>8. CASE UNCHANGED vars
  BY <1>8, LeftAlone, Zenon DEF vars, cal, moving
<1> QED
  BY <1>1, <1>2, <1>3, <1>4, <1>5, <1>6, <1>7, <1>8 DEF Next, Scripts, Cover

\* r3_ventilation_pcb.yaml:183-186,383-387: a damper whose last script ran undisturbed
\* stands where its cover was asked to go, for every length of a turn, width of the endstop
\* and position, if each script ends with its own damper's output.
THEOREM DampersStandWhereAsked ==
    ASSUME N <= 2
    PROVE  Spec => []StandsWhereAsked
<1> DEFINE AllPlaced == \A d \in Dampers : Placed(d)
<1>1. Init => AllPlaced
  BY Zenon DEF Init, Booted, Placed
<1>2. TypeOK /\ AllPlaced /\ [Next]_vars => AllPlaced'
  BY PlacedStep
<1>3. AllPlaced => StandsWhereAsked
  BY DEF StandsWhereAsked, At, Placed, Guided, AsAsked
<1> QED
  BY <1>1, <1>2, <1>3, TypeCorrect, PTL DEF Spec
=============================================================================
