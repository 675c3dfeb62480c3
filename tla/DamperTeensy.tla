----------------------------- MODULE DamperTeensy -----------------------------
(***************************************************************************)
(* From a granted state to the microcontroller                             *)
(* (ventilationinterface/dampersteensy.go, serial_tty.go): goChangeDampers *)
(* receives the published states, passes over a state equal to the last    *)
(* one, keeps commands that move a damper apart, and hands each command to *)
(* the goroutine that writes the serial line.                              *)
(*                                                                         *)
(* The publisher is the request checker; here it may publish any state at  *)
(* any time.  The pubsub library blocks it while goChangeDampers' channel  *)
(* is full.                                                                *)
(*                                                                         *)
(* A definition named Something_Variant is a faulty version of Something,  *)
(* used only to show that a property would notice the fault.               *)
(***************************************************************************)
EXTENDS Integers, Sequences

CONSTANTS
    States,         \* the states that are published: records of the dampers'
                    \* positions (damper), the fan (fan) and the locks (locks)
    NoState,        \* the zero wsChangeVent, equal to no published state
    PubSubCapacity, \* 10 in the code
    MinInterval     \* main.go's mininterval, in ticks

ASSUME TeensyAssumption ==
    /\ PubSubCapacity \in Nat \ {0}
    /\ MinInterval \in Nat

ASSUME NoStateAssumption == NoState \notin States

\* The command for a state: the locks are not sent.
mkDamperCmdMsg(state) == [damper |-> state.damper, fan |-> state.fan]

Cmds == {mkDamperCmdMsg(state) : state \in States}

VARIABLES
    newstate_c,     \* states published and not yet received
    last_state,     \* the state goChangeDampers worked on last
    doing,          \* "select", "delay" or "send"
    since,          \* ticks since the last command, at most MinInterval
    teensytty_wr,   \* commands on their way to the writer: one at most
    serial,         \* the last command handed to the serial line's Write
    \* what an observer remembers
    current         \* the state published last, once goChangeDampers has subscribed

vars == <<newstate_c, last_state, doing, since, teensytty_wr, serial, current>>

TypeOK ==
    /\ newstate_c \in Seq(States) /\ Len(newstate_c) <= PubSubCapacity
    /\ last_state \in States \cup {NoState}
    /\ doing \in {"select", "delay", "send"}
    /\ since \in 0 .. MinInterval
    /\ teensytty_wr \in Seq(Cmds) /\ Len(teensytty_wr) <= 1
    /\ serial \in Cmds \cup {NoState}
    /\ current \in States \cup {NoState}

Init ==
    /\ newstate_c = << >> /\ last_state = NoState
    /\ doing = "select" /\ since = MinInterval
    /\ teensytty_wr = << >> /\ serial = NoState
    /\ current = NoState

-----------------------------------------------------------------------------
Publish(state) ==
    /\ Len(newstate_c) < PubSubCapacity
    /\ newstate_c' = Append(newstate_c, state)
    /\ current' = state
    /\ UNCHANGED <<last_state, doing, since, teensytty_wr, serial>>

didVentPositionChange(a, b) == a = NoState \/ a.damper # b.damper

\* A state that asks for nothing new.
NothingNew_Positions(a, b) == ~didVentPositionChange(a, b)
NothingNew(a, b) == a = b

\* Must the command for b wait after the one for a?
TooFast_Fan(a, b) == since < MinInterval /\ a # NoState /\ a.fan # b.fan
TooFast(a, b) == since < MinInterval /\ didVentPositionChange(a, b)

goChangeDampers ==
    /\ doing = "select" /\ newstate_c # << >>
    /\ newstate_c' = Tail(newstate_c)
    /\ IF NothingNew(last_state, Head(newstate_c))
       THEN UNCHANGED <<last_state, doing>>
       ELSE /\ last_state' = Head(newstate_c)
            /\ doing' = IF TooFast(last_state, Head(newstate_c)) THEN "delay" ELSE "send"
    /\ UNCHANGED <<since, teensytty_wr, serial, current>>

DelayOver ==
    /\ doing = "delay" /\ since = MinInterval
    /\ doing' = "send"
    /\ UNCHANGED <<newstate_c, last_state, since, teensytty_wr, serial, current>>

SendCmd ==
    /\ doing = "send" /\ teensytty_wr = << >>
    /\ teensytty_wr' = << mkDamperCmdMsg(last_state) >>
    /\ doing' = "select" /\ since' = 0
    /\ UNCHANGED <<newstate_c, last_state, serial, current>>

serialWriter ==
    /\ teensytty_wr # << >>
    /\ serial' = Head(teensytty_wr)
    /\ teensytty_wr' = << >>
    /\ UNCHANGED <<newstate_c, last_state, doing, since, current>>

Tick ==
    /\ since < MinInterval
    /\ since' = since + 1
    /\ UNCHANGED <<newstate_c, last_state, doing, teensytty_wr, serial, current>>

Work == goChangeDampers \/ DelayOver \/ SendCmd \/ serialWriter

Next == (\E state \in States : Publish(state)) \/ Work \/ Tick

Spec == Init /\ [][Next]_vars

-----------------------------------------------------------------------------
Idle == newstate_c = << >> /\ doing = "select" /\ teensytty_wr = << >>

\* dampersteensy.go:86-101: with nothing on its way, the command handed to the serial
\* line's Write last is that of the state published last, although states were passed over
\* and delayed.  (Whether Write and the line deliver it is SerialLine's matter.)
ControllerIsUpToDate ==
    Idle /\ current # NoState => serial = mkDamperCmdMsg(current)

\* dampersteensy.go:65-66,95: two commands that differ in the dampers' positions
\* are handed over at least MinInterval apart, fan commands in between included.
MovesAreApart ==
    [][SendCmd /\ serial # NoState /\ serial.damper # last_state.damper
          => since = MinInterval]_vars

\* dampersteensy.go:86-103: once nothing new is published, the command of the last state is
\* handed to Write, and nothing else any more.
ControllerFollows ==
    <>[][~\E state \in States : Publish(state)]_vars
        => <>[](current # NoState => serial = mkDamperCmdMsg(current))
=============================================================================
