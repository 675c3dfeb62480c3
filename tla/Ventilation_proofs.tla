-------------------------- MODULE Ventilation_proofs --------------------------
(***************************************************************************)
(* The checker's invariants and the two promises behind the locks, for     *)
(* every lock timeout and with or without a configured token.              *)
(***************************************************************************)
EXTENDS Ventilation, TLAPS

\* A granted state is a state, and its fan is off when no damper is open.
LEMMA GrantedState ==
    ASSUME NEW new \in States
    PROVE  /\ Granted(new) \in States
           /\ Granted(new).Damper1 = new.Damper1
           /\ Granted(new).Damper2 = new.Damper2
           /\ Granted(new).Damper3 = new.Damper3
           /\ AllClosed(new) => Granted(new).Fan = "off"
           /\ ~AllClosed(new) => Granted(new).Fan = new.Fan
BY DEF Granted, States, wsChangeVent, DamperStates, FanStates, AllClosed

\* The daemon starts from a state like any other.
LEMMA AllOffIsState == AllOff \in States
BY DEF AllOff, States, wsChangeVent, DamperStates, FanStates

\* A step is one of the checker's or of its surroundings.
LEMMA StepCases ==
    ASSUME Next
    PROVE  \/ \E new \in Requests, local \in BOOLEAN : ChangeVent(new, local)
           \/ \E lock \in BOOLEAN : LockChangeLaser(lock)
           \/ \E lock \in BOOLEAN : LockChangeOLGA(lock, TRUE)
           \/ Timeout \/ Tick \/ Fire \/ Restart
<1>1. AllOff \in Requests
  BY DEF AllOff, Requests, wsChangeVent, DamperStates, FanStates
<1> QED
  BY <1>1 DEF Next, LocalVent, RemoteVent, AutoOff, ClientLockOLGA, LockChangeOLGA

\* ventilation.go:16-38,121-164: only well-formed states are ever kept.
THEOREM TypeCorrect == Spec => []TypeOK
<1>1. Init => TypeOK
  <2> SUFFICES ASSUME Init PROVE TypeOK
    OBVIOUS
  <2>1. 0 \in 0 .. LockTimeout /\ LockTimeout \in 0 .. LockTimeout
    BY VentilationAssumption
  <2> QED
    BY <2>1, AllOffIsState, Zenon DEF Init, TypeOK
<1>2. TypeOK /\ [Next]_vars => TypeOK'
  <2> SUFFICES ASSUME TypeOK, [Next]_vars PROVE TypeOK'
    OBVIOUS
  <2> USE VentilationAssumption DEF TypeOK, STOPPED
  <2>1. ASSUME NEW new \in Requests, NEW local \in BOOLEAN, ChangeVent(new, local)
        PROVE  TypeOK'
    BY <2>1, GrantedState
       DEF ChangeVent, sanityCheckRequestedVentilationState, locks, timing
  <2>2. ASSUME NEW lock \in BOOLEAN, LockChangeLaser(lock) PROVE TypeOK'
    BY <2>2 DEF LockChangeLaser, AskLock, Reset
  <2>3. ASSUME NEW lock \in BOOLEAN, LockChangeOLGA(lock, TRUE) PROVE TypeOK'
    BY <2>3 DEF LockChangeOLGA, AskLock, Reset
  <2>4. CASE Timeout
    BY <2>4 DEF Timeout
  <2>5. CASE Tick
    BY <2>5 DEF Tick, locks
  <2>6. CASE Fire
    BY <2>6 DEF Fire, locks
  <2>7. CASE Restart
    <3>1. 0 \in 0 .. LockTimeout
      OBVIOUS
    <3> QED
      BY <2>7, <3>1, AllOffIsState, Zenon DEF Restart
  <2>8. CASE UNCHANGED vars
    BY <2>8 DEF vars
  <2> QED
    BY <2>1, <2>2, <2>3, <2>4, <2>5, <2>6, <2>7, <2>8, StepCases
<1> QED
  BY <1>1, <1>2, PTL DEF Spec

\* ventilation.go:129-161: no lock is ever left without a timer to end it, and
\* the timer is the one started by the last wish to lock.
THEOREM LocksHaveTimers == Spec => []LockHasTimer
<1>1. Init => LockHasTimer
  BY DEF Init, LockHasTimer
<1>2. TypeOK /\ LockHasTimer /\ [Next]_vars => LockHasTimer'
  <2> SUFFICES ASSUME TypeOK, LockHasTimer, [Next]_vars PROVE LockHasTimer'
    OBVIOUS
  <2> USE VentilationAssumption DEF TypeOK, LockHasTimer, STOPPED
  <2>1. ASSUME NEW new \in Requests, NEW local \in BOOLEAN, ChangeVent(new, local)
        PROVE  LockHasTimer'
    BY <2>1 DEF ChangeVent, locks, timing
  <2>2. ASSUME NEW lock \in BOOLEAN, LockChangeLaser(lock) PROVE LockHasTimer'
    BY <2>2 DEF LockChangeLaser, AskLock, Reset
  <2>3. ASSUME NEW lock \in BOOLEAN, LockChangeOLGA(lock, TRUE) PROVE LockHasTimer'
    BY <2>3 DEF LockChangeOLGA, AskLock, Reset
  <2>4. CASE Timeout
    BY <2>4 DEF Timeout
  <2>5. CASE Tick
    BY <2>5 DEF Tick, locks
  <2>6. CASE Fire
    BY <2>6 DEF Fire, locks
  <2>7. CASE Restart
    BY <2>7 DEF Restart
  <2>8. CASE UNCHANGED vars
    BY <2>8 DEF vars
  <2> QED
    BY <2>1, <2>2, <2>3, <2>4, <2>5, <2>6, <2>7, <2>8, StepCases
<1> QED
  BY <1>1, <1>2, TypeCorrect, PTL DEF Spec

\* A change of state leaves the locks alone, and nothing else but a restart
\* changes the state.
LEMMA StateChanges ==
    ASSUME [Next]_vars
    PROVE  \/ \E new \in States, local \in BOOLEAN : ChangeVent(new, local)
           \/ UNCHANGED last_state
           \/ Restart
<1>1. ASSUME NEW new \in Requests, NEW local \in BOOLEAN, ChangeVent(new, local)
      PROVE  new \in States
  BY <1>1 DEF ChangeVent, sanityCheckRequestedVentilationState
<1> QED
  BY <1>1, StepCases DEF LockChangeLaser, LockChangeOLGA, AskLock, Timeout, Tick,
     Fire, vars

\* ventilation.go:52,55,78: a running fan always has some damper open, and never
\* all of them.
THEOREM FanAlwaysHasSomeDamper == Spec => []FanHasSomeDamper
<1>1. Init => FanHasSomeDamper
  BY DEF Init, FanHasSomeDamper, AllOff
<1>2. TypeOK /\ FanHasSomeDamper /\ [Next]_vars => FanHasSomeDamper'
  <2> SUFFICES ASSUME TypeOK, FanHasSomeDamper, [Next]_vars PROVE FanHasSomeDamper'
    OBVIOUS
  <2>1. ASSUME NEW new \in States, NEW local \in BOOLEAN, ChangeVent(new, local)
        PROVE  FanHasSomeDamper'
    <3>1. last_state' = Granted(new) /\ ~FanRefused(last_state, new)
      BY <2>1 DEF ChangeVent, sanityCheckVentilationStateChange
    <3>2. CASE AllClosed(new)
      BY <3>1, <3>2, GrantedState DEF FanHasSomeDamper
    <3>3. CASE ~AllClosed(new)
      BY <3>1, <3>3, GrantedState DEF FanHasSomeDamper, FanRefused, AllOpened, AllClosed
    <3> QED
      BY <3>2, <3>3
  <2>2. CASE UNCHANGED last_state
    BY <2>2 DEF FanHasSomeDamper
  <2>3. CASE Restart
    BY <2>3 DEF Restart, AllOff, FanHasSomeDamper
  <2> QED
    BY <2>1, <2>2, <2>3, StateChanges
<1> QED
  BY <1>1, <1>2, TypeCorrect, PTL DEF Spec

\* ventilation.go:58-68: no sequence of requests, local ones included, takes the
\* exhaust from a laser cutter in use.
THEOREM LaserExhaustIsSafe == Spec => LaserKeepsExhaust
<1> DEFINE Keeps == LaserLock /\ LaserLock' /\ last_state.Damper1 # "closed"
                      => /\ last_state'.Damper1 # "closed"
                         /\ last_state.Fan = "on" => last_state'.Fan = "on"
<1>1. TypeOK /\ [Next]_vars => [Keeps]_vars
  <2> SUFFICES ASSUME TypeOK, [Next]_vars PROVE Keeps
    OBVIOUS
  <2>1. ASSUME NEW new \in States, NEW local \in BOOLEAN, ChangeVent(new, local)
        PROVE  Keeps
    <3> SUFFICES ASSUME LaserLock, last_state.Damper1 # "closed"
                 PROVE  /\ last_state'.Damper1 # "closed"
                        /\ last_state.Fan = "on" => last_state'.Fan = "on"
      OBVIOUS
    <3>1. last_state' = Granted(new) /\ ~LaserRefused(last_state, new)
      BY <2>1 DEF ChangeVent, sanityCheckVentilationStateChange
    <3>2. new.Damper1 # "closed" /\ (last_state.Fan = "on" => new.Fan = "on")
      BY <3>1 DEF LaserRefused, Closing, StoppingFan, States, wsChangeVent, FanStates
    <3>3. ~AllClosed(new)
      BY <3>2 DEF AllClosed
    <3> QED
      BY <3>1, <3>2, <3>3, GrantedState
  <2>2. CASE UNCHANGED last_state
    BY <2>2
  <2>3. CASE Restart
    BY <2>3 DEF Restart
  <2> QED
    BY <2>1, <2>2, <2>3, StateChanges
<1> QED
  BY <1>1, TypeCorrect, PTL DEF Spec, LaserKeepsExhaust

\* ventilation.go:69-76: no remote request closes an OLGA damper or opens the
\* laser cutter's while OLGA needs its ventilation.
THEOREM OLGADampersAreSafe == Spec => OLGAKeepsDampers
<1> DEFINE Keeps ==
      OLGALock /\ (\E new \in Requests : RemoteVent(new))
          => /\ OLGADampersOpen \subseteq OLGADampersOpen'
             /\ last_state.Damper1 = "closed" => last_state'.Damper1 = "closed"
<1>1. TypeOK => [Keeps]_vars
  <2> SUFFICES ASSUME TypeOK, OLGALock, NEW new \in Requests, RemoteVent(new)
               PROVE  /\ OLGADampersOpen \subseteq OLGADampersOpen'
                      /\ last_state.Damper1 = "closed" => last_state'.Damper1 = "closed"
    OBVIOUS
  <2>1. /\ last_state' = Granted(new) /\ new \in States
        /\ ~OLGARefused(last_state, new)
    BY DEF RemoteVent, ChangeVent, sanityCheckVentilationStateChange,
           sanityCheckRequestedVentilationState
  <2>2. /\ last_state'.Damper1 = new.Damper1
        /\ last_state'.Damper2 = new.Damper2
        /\ last_state'.Damper3 = new.Damper3
    BY <2>1, GrantedState
  <2> QED
    BY <2>1, <2>2 DEF OLGARefused, Closing, OLGADampersOpen
<1> QED
  BY <1>1, TypeCorrect, PTL DEF Spec, OLGAKeepsDampers
=============================================================================
