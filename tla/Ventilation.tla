----------------------------- MODULE Ventilation -----------------------------
(***************************************************************************)
(* The request checker of the ventilation daemon                           *)
(* (ventilationinterface/ventilation.go): it owns the requested state of   *)
(* the three dampers and the fan and the two locks, and decides which      *)
(* requests of web clients, of the laser-cutter card reader and of the     *)
(* presence detector to carry out.  A lock ends when it is taken back or   *)
(* when the one timer both locks share runs out.                           *)
(*                                                                         *)
(* A request carries all it needs from its sender, so a request waiting in *)
(* a channel is the same as one not made yet: one action receives and      *)
(* handles it, and the order of requests is arbitrary.                     *)
(*                                                                         *)
(* A definition named Something_Variant is a faulty version of Something,  *)
(* used only to show that a property would notice the fault.               *)
(***************************************************************************)
EXTENDS Integers

CONSTANTS
    LockTimeout,     \* main.go's locktimeout, in ticks
    LocalAuthToken   \* is a token configured that remote clients may present

ASSUME VentilationAssumption ==
    /\ LockTimeout \in Nat \ {0}
    /\ LocalAuthToken \in BOOLEAN

VARIABLES
    last_state,      \* the state of dampers and fan granted last
    LaserLock,       \* the laser cutter is in use
    OLGALock,        \* OLGA needs its ventilation
    locktimeouter,   \* ticks until the timer fires, or STOPPED
    expired,         \* the timer's channel holds a value
    \* what an observer remembers
    age              \* ticks since a lock was last asked for

vars == <<last_state, LaserLock, OLGALock, locktimeouter, expired, age>>
locks == <<LaserLock, OLGALock>>
timing == <<locktimeouter, expired, age>>

DamperStates == {"closed", "halfopen", "open"}
FanStates == {"on", "off"}
wsChangeVent(D, F) == [Damper1 : D, Damper2 : D, Damper3 : D, Fan : F]
States == wsChangeVent(DamperStates, FanStates)
\* What JSON may hold instead: a field missing or misspelt.
Requests == wsChangeVent(DamperStates \cup {""}, FanStates \cup {""})
AllOff == [Damper1 |-> "closed", Damper2 |-> "closed", Damper3 |-> "closed",
           Fan |-> "off"]
STOPPED == -1

TypeOK ==
    /\ last_state \in States
    /\ LaserLock \in BOOLEAN /\ OLGALock \in BOOLEAN
    /\ locktimeouter \in {STOPPED} \cup 0 .. LockTimeout
    /\ expired \in BOOLEAN
    /\ age \in 0 .. LockTimeout

\* NewTimer(0) fires at once, so that the first state gets published.
Init ==
    /\ last_state = AllOff
    /\ LaserLock = FALSE /\ OLGALock = FALSE
    /\ locktimeouter = 0 /\ expired = FALSE
    /\ age = LockTimeout

-----------------------------------------------------------------------------
(* Which changes of state are granted *)

sanityCheckRequestedVentilationState_Dampers(state) ==
    state \in wsChangeVent(DamperStates, FanStates \cup {""})
sanityCheckRequestedVentilationState(state) == state \in States

Closing(prev, new) == prev # new /\ new = "closed"
Opening(prev, new) == prev # new /\ new = "open"
StoppingFan(prev, new) == prev.Fan # new.Fan /\ new.Fan = "off"

AllClosed(s) == {s.Damper1, s.Damper2, s.Damper3} = {"closed"}
AllOpened(s) == "closed" \notin {s.Damper1, s.Damper2, s.Damper3}

\* Nobody may start the fan on closed dampers or run it with all three open.
FanRefused(prev, new) ==
    new.Fan = "on" /\ (AllOpened(new) \/ (prev.Fan = "off" /\ AllClosed(new)))

LaserRefused_MayStop(prev, new) ==
    \/ Closing(prev.Damper1, new.Damper1)
    \/ Opening(prev.Damper2, new.Damper2) \/ Opening(prev.Damper3, new.Damper3)
LaserRefused(prev, new) ==
    \/ Closing(prev.Damper1, new.Damper1)
    \/ Opening(prev.Damper2, new.Damper2) \/ Opening(prev.Damper3, new.Damper3)
    \/ StoppingFan(prev, new)

OLGARefused_FirstOnly(prev, new) ==
    \/ StoppingFan(prev, new) /\ "open" \in {prev.Damper2, prev.Damper3}
    \/ Closing(prev.Damper2, new.Damper2)
    \/ prev.Damper1 # new.Damper1 /\ new.Damper1 # "closed"
OLGARefused(prev, new) ==
    \/ StoppingFan(prev, new) /\ "open" \in {prev.Damper2, prev.Damper3}
    \/ Closing(prev.Damper2, new.Damper2) \/ Closing(prev.Damper3, new.Damper3)
    \/ prev.Damper1 # new.Damper1 /\ new.Damper1 # "closed"

sanityCheckVentilationStateChange(prev, new, local, laser, olga) ==
    /\ ~FanRefused(prev, new)
    /\ laser => ~LaserRefused(prev, new)
    /\ olga /\ ~local => ~OLGARefused(prev, new)

\* The fan goes off with the last damper, whatever was asked for.
Granted_AsAsked(new) == new
Granted(new) == IF AllClosed(new) THEN [new EXCEPT !.Fan = "off"] ELSE new

-----------------------------------------------------------------------------
(* The checker's select loop *)

ChangeVent(new, local) ==
    /\ sanityCheckRequestedVentilationState(new)
    /\ sanityCheckVentilationStateChange(last_state, new, local, LaserLock, OLGALock)
    /\ last_state' = Granted(new)
    /\ UNCHANGED <<locks, timing>>

\* Reset restarts the timer and leaves a value in its channel alone.
Reset_Never(timer) == timer
Reset(timer) == LockTimeout

AskLock(lock) ==
    /\ locktimeouter' = IF lock THEN Reset(locktimeouter) ELSE locktimeouter
    /\ age' = IF lock THEN 0 ELSE age
    /\ UNCHANGED <<last_state, expired>>

LockChangeLaser(lock) ==
    /\ LaserLock' = lock
    /\ UNCHANGED OLGALock
    /\ AskLock(lock)

\* A client without permission gets an error message only.
LockChangeOLGA(lock, islocal) ==
    /\ islocal
    /\ OLGALock' = lock
    /\ UNCHANGED LaserLock
    /\ AskLock(lock)

Timeout_LaserOnly ==
    /\ expired /\ expired' = FALSE
    /\ LaserLock' = FALSE
    /\ UNCHANGED <<last_state, OLGALock, locktimeouter, age>>
Timeout ==
    /\ expired /\ expired' = FALSE
    /\ LaserLock' = FALSE /\ OLGALock' = FALSE
    /\ UNCHANGED <<last_state, locktimeouter, age>>

-----------------------------------------------------------------------------
(* Senders of requests, the clock, and the daemon's supervisor *)

\* goTalkWithClient, and the presence detector's wish to switch everything off.
LocalVent(new) == ChangeVent(new, TRUE)
RemoteVent(new) == ChangeVent(new, FALSE)
ClientLockOLGA(lock, client_is_local, token) ==
    LockChangeOLGA(lock, client_is_local \/ (LocalAuthToken /\ token))
AutoOff == ChangeVent(AllOff, TRUE)

Tick ==
    /\ locktimeouter' = IF locktimeouter > 0 THEN locktimeouter - 1 ELSE locktimeouter
    /\ age' = IF age < LockTimeout THEN age + 1 ELSE age
    /\ UNCHANGED <<last_state, locks, expired>>

Fire ==
    /\ locktimeouter = 0
    /\ locktimeouter' = STOPPED
    /\ expired' = TRUE
    /\ UNCHANGED <<last_state, locks, age>>

\* The daemon dies and is started again; it remembers nothing.
Restart ==
    /\ last_state' = AllOff
    /\ LaserLock' = FALSE /\ OLGALock' = FALSE
    /\ locktimeouter' = 0 /\ expired' = FALSE
    /\ UNCHANGED age

Next ==
    \/ \E new \in Requests : LocalVent(new) \/ RemoteVent(new)
    \/ \E lock, client_is_local, token \in BOOLEAN :
          ClientLockOLGA(lock, client_is_local, token)
    \/ \E lock \in BOOLEAN : LockChangeLaser(lock)
    \/ AutoOff
    \/ Timeout
    \/ Tick
    \/ Fire
    \/ Restart

Spec == Init /\ [][Next]_vars

\* Time passes, timers fire, and a ready case of the select is taken some day.
FairSpec == Spec /\ WF_vars(Tick) /\ WF_vars(Fire) /\ WF_vars(Timeout)

-----------------------------------------------------------------------------
(* Safety *)

\* ventilation.go:52,55,78: a running fan has an open damper to draw from, and
\* never all three of them at once.
FanHasSomeDamper ==
    LET dampers == {last_state.Damper1, last_state.Damper2, last_state.Damper3}
    IN  last_state.Fan = "on" => "closed" \in dampers /\ dampers # {"closed"}

\* ventilation.go:129-161: a lock never outlives its timer: it runs, with the
\* time left since the last wish to lock, or it has just run out.
LockHasTimer ==
    LaserLock \/ OLGALock =>
        expired \/ (locktimeouter # STOPPED /\ locktimeouter + age = LockTimeout)

\* ventilation.go:58-68: as long as the laser cutter is in use nobody, not even
\* the presence detector, takes its exhaust away: its damper stays open, and
\* the fan keeps running.
LaserKeepsExhaust ==
    [][LaserLock /\ LaserLock' /\ last_state.Damper1 # "closed"
          => /\ last_state'.Damper1 # "closed"
             /\ last_state.Fan = "on" => last_state'.Fan = "on"]_vars

OLGADampersOpen == {d \in {"Damper2", "Damper3"} : last_state[d] # "closed"}

\* ventilation.go:69-76: while OLGA needs ventilation no remote client closes
\* an OLGA damper or opens the laser cutter's.
OLGAKeepsDampers ==
    [][OLGALock /\ (\E new \in Requests : RemoteVent(new))
          => /\ OLGADampersOpen \subseteq OLGADampersOpen'
             /\ last_state.Damper1 = "closed" => last_state'.Damper1 = "closed"]_vars

\* main.go:48: when nobody asks for a lock any more, the locks go.
LocksGo ==
    <>[][~(\/ LockChangeLaser(TRUE)
           \/ \E client_is_local, token \in BOOLEAN :
                 ClientLockOLGA(TRUE, client_is_local, token))]_vars
       => <>[](~LaserLock /\ ~OLGALock)
=============================================================================
