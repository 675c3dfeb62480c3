--------------------------- MODULE SerialLine_proofs ---------------------------
(***************************************************************************)
(* From a granted state to the controller's command, for every set of      *)
(* states, capacity and interval.                                          *)
(*                                                                         *)
(* First the daemon's end (DamperTeensy): the types, that the state        *)
(* published last is never lost on its way to the serial line, and that    *)
(* commands that move a damper are kept apart.  Then the line itself,      *)
(* which implements it: what an undisturbed packet makes of the            *)
(* controller, and what is left of a disturbed one.                        *)
(***************************************************************************)
EXTENDS SerialLine, SequenceTheorems, TLAPS

\* The command sent last: on its way to the writer, or written.
LastCmd == IF teensytty_wr # << >> THEN teensytty_wr[1] ELSE serial

\* What is published last is the last in the channel, or has been received.
Received ==
    /\ newstate_c = << >> => last_state = current
    /\ newstate_c # << >> => current = newstate_c[Len(newstate_c)]

\* What was received last has been sent, or is being worked on.
Sent ==
    /\ doing = "select" /\ last_state # NoState => LastCmd = mkDamperCmdMsg(last_state)
    /\ doing # "select" => last_state \in States
    /\ teensytty_wr # << >> => last_state # NoState

\* A command that is sent early moves no damper.
Early ==
    doing = "send" /\ since # MinInterval /\ LastCmd # NoState
        => LastCmd.damper = last_state.damper

Inv == TypeOK /\ Received /\ Sent /\ Early

-----------------------------------------------------------------------------
\* dampersteensy.go:34: a state in States has its command among the commands.
LEMMA CmdOfState == \A state \in States : mkDamperCmdMsg(state) \in Cmds
  BY DEF Cmds

\* dampersteensy.go:71-80: at the start nothing is published, received or sent.
LEMMA InitInv == Init => Inv
  BY TeensyAssumption DEF Init, Inv, TypeOK, Received, Sent, Early, LastCmd

\* ventilation.go:92: publishing a state makes it the last in the channel.
LEMMA PublishStep == Inv /\ (\E state \in States : Publish(state)) => Inv'
<1> SUFFICES ASSUME Inv, NEW state \in States, Publish(state) PROVE Inv'
  OBVIOUS
<1> USE DEF Inv, TypeOK
<1>1. /\ newstate_c' = Append(newstate_c, state) /\ current' = state
      /\ UNCHANGED <<last_state, doing, since, teensytty_wr, serial>>
      /\ Len(newstate_c) < PubSubCapacity
  BY DEF Publish
<1>2. /\ newstate_c' \in Seq(States) /\ Len(newstate_c') = Len(newstate_c) + 1
      /\ newstate_c'[Len(newstate_c')] = state /\ newstate_c' # << >>
  BY <1>1
<1>3. TypeOK'
  BY <1>1, <1>2, TeensyAssumption
<1>4. Received'
  BY <1>1, <1>2 DEF Received
<1>5. Sent' /\ Early'
  BY <1>1 DEF Sent, Early, LastCmd
<1> QED
  BY <1>3, <1>4, <1>5

\* dampersteensy.go:86-98: receiving a state keeps it the one to be sent next, and
\* lets it go early only if it moves no damper.
LEMMA ReceiveStep == Inv /\ goChangeDampers => Inv'
<1> SUFFICES ASSUME Inv, goChangeDampers PROVE Inv'
  OBVIOUS
<1> DEFINE new == Head(newstate_c)
<1> USE DEF Inv, TypeOK
<1>1. /\ doing = "select" /\ newstate_c # << >> /\ newstate_c' = Tail(newstate_c)
      /\ UNCHANGED <<since, teensytty_wr, serial, current>>
  BY DEF goChangeDampers
<1>2. /\ new \in States /\ newstate_c' \in Seq(States)
      /\ Len(newstate_c') = Len(newstate_c) - 1
  BY <1>1
<1>3. Received' \/ last_state' # new
  <2>0. Len(newstate_c) \in Nat /\ Len(newstate_c) # 0
    BY <1>1
  <2>1. CASE Len(newstate_c) = 1
    BY <1>1, <1>2, <2>1 DEF Received
  <2>2. CASE Len(newstate_c) # 1
    <3>1. Len(newstate_c) > 1 /\ newstate_c' # << >>
      <4>1. Len(newstate_c) > 1
        <5> HIDE DEF Inv, TypeOK
        <5> QED
          BY <2>0, <2>2
      <4>2. Len(newstate_c') > 0
        BY <1>2, <4>1, <2>0
      <4>3. Len(<< >>) = 0
        OBVIOUS
      <4> QED
        BY <4>1, <4>2, <4>3
    <3>2. newstate_c'[Len(newstate_c')] = newstate_c[Len(newstate_c)]
      BY <1>1, <1>2, <3>1
    <3> QED
      BY <1>1, <3>1, <3>2 DEF Received
  <2> QED
    BY <2>1, <2>2
<1>4. CASE NothingNew(last_state, new)
  <2>1. last_state' = last_state /\ doing' = doing /\ last_state' = new
    BY <1>1, <1>4 DEF goChangeDampers, NothingNew
  <2>2. TypeOK'
    BY <1>1, <1>2, <2>1, TeensyAssumption
  <2>3. Sent' /\ Early'
    BY <1>1, <2>1 DEF Sent, Early, LastCmd
  <2> QED
    BY <1>3, <2>1, <2>2, <2>3
<1>5. CASE ~NothingNew(last_state, new)
  <2>1. /\ last_state' = new
        /\ doing' = IF TooFast(last_state, new) THEN "delay" ELSE "send"
    BY <1>1, <1>5 DEF goChangeDampers
  <2>2. TypeOK'
    BY <1>1, <1>2, <2>1, TeensyAssumption
  <2>3. Sent'
    BY <1>1, <1>2, <2>1, NoStateAssumption DEF Sent
  <2>4. Early'
    <3> SUFFICES ASSUME doing' = "send", since # MinInterval
                 PROVE LastCmd.damper = new.damper
      BY <1>1, <2>1 DEF Early, LastCmd
    <3>1. since < MinInterval /\ ~TooFast(last_state, new)
      BY <2>1, TeensyAssumption
    <3>2. last_state # NoState /\ last_state.damper = new.damper
      BY <3>1 DEF TooFast, didVentPositionChange
    <3> QED
      BY <1>1, <3>2 DEF Sent, mkDamperCmdMsg
  <2> QED
    BY <1>3, <2>1, <2>2, <2>3, <2>4
<1> QED
  BY <1>4, <1>5

\* dampersteensy.go:97-101, serial_tty.go:40-45: waiting, sending, writing and time
\* keep the last command the one for the last state.
LEMMA WorkStep == Inv /\ (DelayOver \/ SendCmd \/ serialWriter \/ Tick) => Inv'
<1> SUFFICES ASSUME Inv, DelayOver \/ SendCmd \/ serialWriter \/ Tick PROVE Inv'
  OBVIOUS
<1> USE TeensyAssumption DEF Inv, TypeOK
<1>1. CASE DelayOver
  BY <1>1 DEF DelayOver, Received, Sent, Early, LastCmd
<1>2. CASE SendCmd
  <2>1. mkDamperCmdMsg(last_state) \in Cmds /\ last_state \in States
    BY <1>2, CmdOfState DEF SendCmd, Sent
  <2>2. /\ teensytty_wr' = << mkDamperCmdMsg(last_state) >> /\ doing' = "select"
        /\ since' = 0 /\ UNCHANGED <<newstate_c, last_state, serial, current>>
    BY <1>2 DEF SendCmd
  <2> HIDE DEF mkDamperCmdMsg
  <2>3. TypeOK'
    BY <2>1, <2>2
  <2>4. Received' /\ Sent' /\ Early'
    BY <2>1, <2>2, NoStateAssumption DEF Received, Sent, Early, LastCmd
  <2> QED
    BY <2>3, <2>4
<1>3. CASE serialWriter
  <2>1. /\ teensytty_wr # << >> /\ serial' = teensytty_wr[1] /\ teensytty_wr' = << >>
        /\ teensytty_wr[1] \in Cmds
        /\ UNCHANGED <<newstate_c, last_state, doing, since, current>>
    BY <1>3 DEF serialWriter
  <2>2. LastCmd' = LastCmd
    BY <2>1 DEF LastCmd
  <2>3. TypeOK'
    BY <2>1
  <2>4. Received' /\ Sent' /\ Early'
    BY <2>1, <2>2 DEF Received, Sent, Early
  <2> QED
    BY <2>3, <2>4
<1>4. CASE Tick
  BY <1>4 DEF Tick, Received, Sent, Early, LastCmd
<1> QED
  BY <1>1, <1>2, <1>3, <1>4

\* Every step of goChangeDampers and its surroundings keeps the invariant.
LEMMA StepInv == Inv /\ [Next]_vars => Inv'
<1> SUFFICES ASSUME Inv, [Next]_vars PROVE Inv'
  OBVIOUS
<1>1. CASE UNCHANGED vars
  BY <1>1 DEF vars, Inv, TypeOK, Received, Sent, Early, LastCmd
<1>2. CASE Next
  BY <1>2, PublishStep, ReceiveStep, WorkStep DEF Next, Work
<1> QED
  BY <1>1, <1>2

\* The invariant holds all the time.
THEOREM Invariant == Spec => []Inv
  BY InitInv, StepInv, PTL DEF Spec

-----------------------------------------------------------------------------
\* dampersteensy.go:71-106: channel, states and commands keep their types; there is
\* never more than one command on its way to the writer.
THEOREM TypeCorrect == Spec => []TypeOK
<1>1. Inv => TypeOK
  BY DEF Inv
<1> QED
  BY <1>1, Invariant, PTL

\* dampersteensy.go:86-101: with nothing on its way the writer has been handed the
\* state published last, for any capacity, interval and rate of publishing.
THEOREM LastStateArrives == Spec => []ControllerIsUpToDate
<1>1. Inv => ControllerIsUpToDate
  BY DEF Inv, Received, Sent, LastCmd, ControllerIsUpToDate, Idle
<1> QED
  BY <1>1, Invariant, PTL

\* dampersteensy.go:65-66,95: commands that move a damper are handed over at least
\* MinInterval apart.
THEOREM MovesKeepApart == Spec => MovesAreApart
<1>1. Inv /\ [Next]_vars
        => [SendCmd /\ serial # NoState /\ serial.damper # last_state.damper
              => since = MinInterval]_vars
  BY DEF Inv, Early, LastCmd, SendCmd
<1> QED
  BY <1>1, Invariant, PTL DEF Spec, MovesAreApart

-----------------------------------------------------------------------------
(* The serial line and its two ends *)

\* serial_tty.go:40-45: whatever happens on the line and in the controller, the
\* daemon's end works on as it does without them.
THEOREM LineImplementsTeensy == LineSpec => Spec
<1>1. LineInit => Init
  BY DEF LineInit
<1>2. [LineNext]_lineVars => [Next]_vars
  <2> SUFFICES ASSUME [LineNext]_lineVars PROVE [Next]_vars
    OBVIOUS
  <2>1. CASE Daemon
    BY <2>1, Zenon DEF Daemon, Next, Work
  <2>2. CASE Write \/ WriteFails
    BY <2>2, Zenon DEF Write, WriteFails, Next, Work
  <2>3. CASE handle_serialdata
    BY <2>3, Zenon DEF handle_serialdata
  <2>4. CASE \E k \in 1 .. Len(line) : LoseByte(k)
    BY <2>4, Zenon DEF LoseByte
  <2>5. CASE Restart
    BY <2>5, Zenon DEF Restart
  <2>6. CASE UNCHANGED lineVars
    BY <2>6, Zenon DEF lineVars
  <2> QED
    BY <2>1, <2>2, <2>3, <2>4, <2>5, <2>6 DEF LineNext, Fault
<1> QED
  BY <1>1, <1>2, PTL DEF LineSpec, Spec

\* dampersteensy.go:86-101: the last state arrives at the serial line ...
THEOREM LineLastStateArrives == LineSpec => []ControllerIsUpToDate
  BY LineImplementsTeensy, LastStateArrives, PTL

\* dampersteensy.go:65-66,95: ... and moves are kept apart, with the line's faults.
THEOREM LineMovesKeepApart == LineSpec => MovesAreApart
  BY LineImplementsTeensy, MovesKeepApart, PTL

-----------------------------------------------------------------------------
(* Packets *)

\* A command is of three positions and the fan.
LEMMA CmdFacts ==
  ASSUME NEW cmd \in Cmds
  PROVE  /\ cmd.damper \in [1 .. 3 -> 0 .. 2] /\ cmd.fan \in 0 .. 1
         /\ cmd = [damper |-> cmd.damper, fan |-> cmd.fan]
  BY CmdAssumption DEF Cmds, mkDamperCmdMsg

\* dampersteensy.go:34-63: the bytes of a packet.
LEMMA PacketFacts ==
  ASSUME NEW cmd \in Cmds
  PROVE  LET p == PacketOf(cmd)
         IN  /\ p \in Seq(Byte) /\ Len(p) = 9
             /\ p[1] = START /\ p[2] = 1 /\ p[3] = 6 /\ p[4] = 0 /\ p[5] = 0
             /\ p[6] = cmd.damper[1] /\ p[7] = cmd.damper[2] /\ p[8] = cmd.damper[3]
             /\ p[9] = cmd.fan
             /\ \A j \in 2 .. 9 : p[j] \in 0 .. 6
             /\ \A j \in 4 .. 9 : p[j] \in 0 .. 2
<1> DEFINE h == << START, 1, 6, MSG_DAMPERCMD, 0 >>
           d == cmd.damper
           f == << cmd.fan >>
           p == PacketOf(cmd)
<1>1. d \in [1 .. 3 -> 0 .. 2] /\ cmd.fan \in 0 .. 1
  BY CmdFacts
<1>2. h \in Seq(Byte) /\ Len(h) = 5
      /\ h[1] = START /\ h[2] = 1 /\ h[3] = 6 /\ h[4] = 0 /\ h[5] = 0
  BY DEF START, MSG_DAMPERCMD, Byte
<1>3. d \in Seq(Byte) /\ Len(d) = 3
  <2>1. d \in [1 .. 3 -> Byte]
    BY <1>1 DEF Byte
  <2>2. d \in Seq(Byte)
    BY <2>1, SeqDef
  <2>3. DOMAIN d = 1 .. 3
    BY <2>1
  <2>4. Len(d) \in Nat /\ DOMAIN d = 1 .. Len(d)
    BY <2>2, LenProperties
  <2>5. Len(d) = 3
    <3>1. \A j \in Int : j \in 1 .. Len(d) <=> j \in 1 .. 3
      BY <2>3, <2>4
    <3>2. 3 \in 1 .. Len(d) /\ 4 \notin 1 .. Len(d)
      BY <3>1
    <3>3. \A n \in Nat : 3 \in 1 .. n /\ 4 \notin 1 .. n => n = 3
      OBVIOUS
    <3>4. Len(d) \in Nat
      BY <2>4
    <3> QED
      BY <3>2, <3>3, <3>4, Zenon
  <2> QED
    BY <2>2, <2>5
<1>4. f \in Seq(Byte) /\ Len(f) = 1 /\ f[1] = cmd.fan
  BY <1>1 DEF Byte
<1>5. p = (h \o d) \o f \/ p = h \o (d \o f)
  BY DEF PacketOf
<1> HIDE DEF h, d, f, p
<1>6. /\ h \o d \in Seq(Byte) /\ Len(h \o d) = 8
      /\ \A j \in 1 .. 8 : (h \o d)[j] = IF j <= 5 THEN h[j] ELSE d[j - 5]
  <2>1. /\ h \o d \in Seq(Byte) /\ Len(h \o d) = Len(h) + Len(d)
        /\ \A j \in 1 .. Len(h) + Len(d) :
              (h \o d)[j] = IF j <= Len(h) THEN h[j] ELSE d[j - Len(h)]
    BY <1>2, <1>3, ConcatProperties
  <2>2. Len(h) + Len(d) = 8
    BY <1>2, <1>3
  <2> QED
    BY <1>2, <2>1, <2>2, Zenon
<1> DEFINE hd == h \o d
<1>7. hd \o f = h \o (d \o f)
  BY <1>2, <1>3, <1>4, ConcatAssociative
<1> HIDE DEF hd
<1>8. /\ p \in Seq(Byte) /\ Len(p) = 9
      /\ \A j \in 1 .. 9 : p[j] = IF j <= 8 THEN hd[j] ELSE f[j - 8]
  <2>1. hd \in Seq(Byte) /\ Len(hd) = 8
    BY <1>6 DEF hd
  <2>2. /\ hd \o f \in Seq(Byte) /\ Len(hd \o f) = Len(hd) + Len(f)
        /\ \A j \in 1 .. Len(hd) + Len(f) :
              (hd \o f)[j] = IF j <= Len(hd) THEN hd[j] ELSE f[j - Len(hd)]
    BY <1>4, <2>1, ConcatProperties
  <2>3. Len(hd) + Len(f) = 9
    BY <1>4, <2>1
  <2>4. p = hd \o f
    BY <1>5, <1>7 DEF hd
  <2> QED
    BY <2>1, <2>2, <2>3, <2>4, Zenon
<1>9. /\ p \in Seq(Byte) /\ Len(p) = 9
      /\ p[1] = START /\ p[2] = 1 /\ p[3] = 6 /\ p[4] = 0 /\ p[5] = 0
      /\ p[6] = d[1] /\ p[7] = d[2] /\ p[8] = d[3] /\ p[9] = cmd.fan
  <2>1. \A j \in 1 .. 8 : p[j] = hd[j]
    BY <1>8
  <2>2. \A j \in 1 .. 8 : hd[j] = IF j <= 5 THEN h[j] ELSE d[j - 5]
    BY <1>6 DEF hd
  <2>3. p[1] = h[1] /\ p[2] = h[2] /\ p[3] = h[3] /\ p[4] = h[4] /\ p[5] = h[5]
    BY <2>1, <2>2
  <2>4. p[6] = d[1] /\ p[7] = d[2] /\ p[8] = d[3]
    BY <2>1, <2>2
  <2>5. p[9] = f[1]
    BY <1>8
  <2> QED
    BY <1>2, <1>4, <1>8, <2>3, <2>4, <2>5
<1>10. \A j \in 4 .. 9 : p[j] \in 0 .. 2
  BY <1>1, <1>9
<1>11. \A j \in 2 .. 9 : p[j] \in 0 .. 6
  BY <1>9, <1>10
<1> QED
  BY <1>9, <1>10, <1>11 DEF p, d

-----------------------------------------------------------------------------
(* The reader's types *)

\* The length of the message being read.
Size == msg_len + read_num_chars

ObeyedType(cmd) == cmd = NoState \/ cmd \in [damper : [1 .. 3 -> Byte], fan : 0 .. 1]

\* handle_serialdata and handle_serial2pjon agree where they are in a packet, and the
\* bytes kept are all there are of a message short enough to be accepted.
LineTypes ==
    /\ line \in Seq(Byte) /\ Len(line) <= 9
    /\ next_char \in ModeStates /\ pkt_next_char \in ModeStates
    /\ \/ next_char = pkt_next_char
       \/ next_char \in {"CCMD", "CPKTDST"} /\ pkt_next_char \in {"CCMD", "CPKTDST"}
    /\ msg_dst \in Byte /\ read_num_chars \in Byte /\ msg_len \in Byte /\ Size \in Byte
    /\ next_char = "CPKTDATA" => read_num_chars > 0
    /\ msg_buf \in Seq(Byte)
    /\ Len(msg_buf) = IF next_char = "CPKTDATA" /\ Size < SIZEOF_MESSAGE THEN msg_len ELSE 0
    /\ ObeyedType(obeyed) /\ whole \in BOOLEAN /\ misled \in BOOLEAN
    /\ misread \in 0 .. MaxMisread + 1

\* Bytes are numbers.
LEMMA Bytes ==
  /\ 0 \in Byte
  /\ \A b \in Byte : b \in Nat /\ 0 + b = b /\ (b # 0 => b > 0) /\ b % 2 \in 0 .. 1
  BY DEF Byte

\* A byte is taken off the line.
LEMMA TakesByte ==
  ASSUME LineTypes, handle_serialdata
  PROVE  /\ line \in Seq(Byte) /\ Len(line) \in 1 .. 9 /\ line[1] \in Byte
         /\ Head(line) = line[1]
         /\ line' \in Seq(Byte) /\ Len(line') = Len(line) - 1
         /\ \A j \in 1 .. Len(line) - 1 : line'[j] = line[j + 1]
         /\ UNCHANGED <<vars, whole, misread>>
<1>1. line # << >> /\ line' = Tail(line) /\ line \in Seq(Byte) /\ Len(line) <= 9
  BY DEF handle_serialdata, LineTypes
<1>2. Len(line) \in Nat \ {0}
  BY <1>1, EmptySeq
<1>3. /\ Tail(line) \in Seq(Byte) /\ Len(Tail(line)) = Len(line) - 1
      /\ Head(line) = line[1] /\ line[1] \in Byte
      /\ \A j \in 1 .. Len(Tail(line)) : Tail(line)[j] = line[j + 1]
  BY <1>1, <1>2, HeadTailProperties
<1>4. Len(line) \in 1 .. 9
  <2>1. Len(line) <= 9
    BY <1>1
  <2>2. \A n \in Nat \ {0} : n <= 9 => n \in 1 .. 9
    OBVIOUS
  <2> QED
    BY <1>2, <2>1, <2>2, Zenon
<1>5. UNCHANGED <<vars, whole, misread>>
  BY DEF handle_serialdata
<1> QED
  BY <1>1, <1>3, <1>4, <1>5, Zenon

\* main.cpp:262: outside a packet only its start matters.
LEMMA ReadsStart ==
  ASSUME LineTypes, handle_serialdata, next_char = "CCMD"
  PROVE  /\ next_char' = IF line[1] = START THEN "CPKTDST" ELSE "CCMD"
         /\ UNCHANGED <<pkt_next_char, msg_dst, read_num_chars, msg_len, msg_buf>>
         /\ UNCHANGED <<obeyed, misled>>
  BY TakesByte DEF handle_serialdata

\* main.cpp:228-235: the destination.
LEMMA ReadsDst ==
  ASSUME LineTypes, handle_serialdata, next_char = "CPKTDST"
  PROVE  /\ next_char' = "CPKTLEN" /\ pkt_next_char' = "CPKTLEN" /\ msg_dst' = line[1]
         /\ UNCHANGED <<read_num_chars, msg_len, msg_buf, obeyed, misled>>
  BY TakesByte
     DEF handle_serialdata, handle_serial2pjon, ReadDst, ReadLen, ReadData, AfterByte,
         LineTypes

\* main.cpp:236-247: the length.
LEMMA ReadsLen ==
  ASSUME LineTypes, handle_serialdata, next_char = "CPKTLEN"
  PROVE  /\ \/ /\ line[1] = 0 /\ next_char' = "CPKTDST" /\ pkt_next_char' = "CPKTDST"
               /\ UNCHANGED <<read_num_chars, msg_len, msg_buf>>
            \/ /\ line[1] # 0 /\ next_char' = "CPKTDATA" /\ pkt_next_char' = "CPKTDATA"
               /\ read_num_chars' = line[1] /\ msg_len' = 0 /\ msg_buf' = << >>
         /\ UNCHANGED <<msg_dst, obeyed, misled>>
<1>1. ReadLen(line[1]) /\ next_char' = pkt_next_char'
  BY TakesByte
     DEF handle_serialdata, handle_serial2pjon, ReadDst, ReadData, AfterByte, LineTypes
<1> QED
  BY <1>1 DEF ReadLen, EmptyMessage

\* main.cpp:248-258: a byte of the message, after the last of which it is looked at.
LEMMA ReadsData ==
  ASSUME LineTypes, handle_serialdata, next_char = "CPKTDATA"
  PROVE  /\ msg_len' = msg_len + 1 /\ read_num_chars' = read_num_chars - 1
         /\ read_num_chars \in 1 .. 255 /\ msg_len \in 0 .. 254 /\ Size \in 1 .. 255
         /\ Size' = Size /\ UNCHANGED msg_dst
         /\ \E msg \in Seq(Byte) :
              /\ Len(msg) = IF Size < SIZEOF_MESSAGE THEN msg_len + 1 ELSE 0
              /\ Size < SIZEOF_MESSAGE =>
                    /\ \A j \in 1 .. msg_len : msg[j] = msg_buf[j]
                    /\ msg[msg_len + 1] = line[1]
              /\ \/ /\ read_num_chars = 1 /\ pjon_inject_msg(msg_dst, Size, msg)
                    /\ next_char' = "CCMD" /\ pkt_next_char' = "CCMD" /\ msg_buf' = << >>
                 \/ /\ read_num_chars > 1 /\ UNCHANGED <<obeyed, misled>>
                    /\ next_char' = "CPKTDATA" /\ pkt_next_char' = "CPKTDATA"
                    /\ msg_buf' = msg
<1> DEFINE msg == IF Size < SIZEOF_MESSAGE THEN Append(msg_buf, line[1]) ELSE msg_buf
<1>1. ReadData(line[1]) /\ next_char' = pkt_next_char'
  BY TakesByte
     DEF handle_serialdata, handle_serial2pjon, ReadDst, ReadLen, AfterByte, LineTypes
<1>2. /\ read_num_chars \in 1 .. 255 /\ msg_len \in 0 .. 254 /\ Size \in 1 .. 255
      /\ (read_num_chars - 1) % 256 = read_num_chars - 1
  <2>1. /\ read_num_chars \in 0 .. 255 /\ read_num_chars > 0 /\ msg_len \in 0 .. 255
        /\ msg_len + read_num_chars \in 0 .. 255
    BY DEF LineTypes, Size, Byte
  <2>2. \A n \in 0 .. 255 : n % 256 = n
    OBVIOUS
  <2>3. read_num_chars - 1 \in 0 .. 255
    BY <2>1
  <2>4. (read_num_chars - 1) % 256 = read_num_chars - 1
    BY <2>2, <2>3, Zenon
  <2> QED
    BY <2>1, <2>4 DEF Size
<1>3. /\ msg_len' = msg_len + 1 /\ read_num_chars' = read_num_chars - 1 /\ UNCHANGED msg_dst
  BY <1>1, <1>2 DEF ReadData
<1>4. Size' = Size
  BY <1>2, <1>3 DEF Size
<1>5. /\ msg \in Seq(Byte) /\ Len(msg) = IF Size < SIZEOF_MESSAGE THEN msg_len + 1 ELSE 0
      /\ Size < SIZEOF_MESSAGE =>
            /\ \A j \in 1 .. msg_len : msg[j] = msg_buf[j]
            /\ msg[msg_len + 1] = line[1]
  <2>1. msg_buf \in Seq(Byte) /\ line[1] \in Byte
        /\ Len(msg_buf) = IF Size < SIZEOF_MESSAGE THEN msg_len ELSE 0
    BY TakesByte DEF LineTypes
  <2>2. /\ Append(msg_buf, line[1]) \in Seq(Byte)
        /\ Len(Append(msg_buf, line[1])) = Len(msg_buf) + 1
        /\ \A j \in 1 .. Len(msg_buf) : Append(msg_buf, line[1])[j] = msg_buf[j]
        /\ Append(msg_buf, line[1])[Len(msg_buf) + 1] = line[1]
    BY <2>1, AppendProperties
  <2> QED
    BY <2>1, <2>2, Zenon
<1>6. \/ /\ read_num_chars = 1 /\ pjon_inject_msg(msg_dst, Size, msg)
         /\ pkt_next_char' = "CCMD" /\ msg_buf' = << >>
      \/ /\ read_num_chars > 1 /\ UNCHANGED <<obeyed, misled>>
         /\ UNCHANGED pkt_next_char /\ msg_buf' = msg
  <2> DEFINE M == IF msg_len + read_num_chars < SIZEOF_MESSAGE
                  THEN Append(msg_buf, line[1]) ELSE msg_buf
  <2>1. M = msg
    BY DEF Size
  <2>2. IF read_num_chars' = 0
        THEN /\ pjon_inject_msg(msg_dst, msg_len + 1, M)
             /\ pkt_next_char' = "CCMD" /\ msg_buf' = << >>
        ELSE /\ msg_buf' = M /\ UNCHANGED <<pkt_next_char, obeyed, misled>>
    BY <1>1, Zenon DEF ReadData
  <2> HIDE DEF M, msg
  <2>3. CASE read_num_chars = 1
    <3>1. read_num_chars' = 0 /\ msg_len + 1 = Size
      BY <1>2, <1>3, <2>3 DEF Size
    <3> QED
      BY <2>1, <2>2, <2>3, <3>1, Zenon
  <2>4. CASE read_num_chars # 1
    <3>1. read_num_chars' # 0 /\ read_num_chars > 1
      BY <1>2, <1>3, <2>4
    <3> QED
      BY <2>1, <2>2, <3>1, Zenon
  <2> QED
    BY <2>3, <2>4
<1>7. pkt_next_char = "CPKTDATA"
  BY DEF LineTypes
<1> HIDE DEF msg
<1> QED
  BY <1>1, <1>2, <1>3, <1>4, <1>5, <1>6, <1>7, Zenon

\* comm.cpp:284-309: what a message of six bytes or another makes of the controller.
LEMMA Injects ==
  ASSUME NEW dst \in Byte, NEW length \in 1 .. 255, NEW msg \in Seq(Byte),
         length < SIZEOF_MESSAGE => Len(msg) = length,
         pjon_inject_msg(dst, length, msg)
  PROVE  \/ UNCHANGED <<obeyed, misled>>
         \/ /\ length = 6 /\ msg[1] = MSG_DAMPERCMD /\ dst \in {0, 1} /\ UNCHANGED misled
            /\ obeyed' \in [damper : [1 .. 3 -> Byte], fan : 0 .. 1]
            /\ \A j \in 1 .. 3 : obeyed'.damper[j] = msg[j + 2]
            /\ obeyed'.fan = msg[6] % 2
         \/ /\ Acts(length, msg) /\ (dst \notin {0, 1} \/ msg[1] # MSG_DAMPERCMD)
            /\ misled' = TRUE /\ UNCHANGED obeyed
<1>1. CASE ~Acts(length, msg)
  BY <1>1, Zenon DEF pjon_inject_msg
<1>2. CASE Acts(length, msg) /\ ~(dst \in {0, 1} /\ msg[1] = MSG_DAMPERCMD)
  BY <1>2, Zenon DEF pjon_inject_msg
<1>3. CASE Acts(length, msg) /\ dst \in {0, 1} /\ msg[1] = MSG_DAMPERCMD
  <2>1. obeyed' = [damper |-> SubSeq(msg, 3, 5), fan |-> FanOf(msg[6])] /\ UNCHANGED misled
    BY <1>3, Zenon DEF pjon_inject_msg
  <2>2. length = 6 /\ Len(msg) = 6
    <3>1. length < SIZEOF_MESSAGE /\ length = pjon_type_to_msg_length(MSG_DAMPERCMD)
      BY <1>3 DEF Acts
    <3>2. pjon_type_to_msg_length(MSG_DAMPERCMD) = 6
      BY DEF pjon_type_to_msg_length, MSG_DAMPERCMD
    <3> QED
      BY <3>1, <3>2
  <2>3. \A j \in 1 .. 6 : msg[j] \in Byte
    BY <2>2, ElementOfSeq
  <2>4. SubSeq(msg, 3, 5) = [j \in 1 .. 3 |-> msg[j + 2]]
    BY <2>2
  <2>5. SubSeq(msg, 3, 5) \in [1 .. 3 -> Byte]
    <3>1. \A j \in 1 .. 3 : msg[j + 2] \in Byte
      BY <2>3
    <3> QED
      BY <2>4, <3>1
  <2>6. msg[6] % 2 \in 0 .. 1
    <3>1. msg[6] \in Byte
      BY <2>3
    <3> QED
      BY <3>1, Bytes, Zenon
  <2> QED
    BY <1>3, <2>1, <2>2, <2>4, <2>5, <2>6 DEF FanOf
<1> QED
  BY <1>1, <1>2, <1>3

\* The controller keeps its types with every byte.
LEMMA ReadKeepsTypes == ASSUME LineTypes, handle_serialdata PROVE LineTypes'
<1>1. /\ line' \in Seq(Byte) /\ Len(line') <= 9 /\ line[1] \in Byte
      /\ UNCHANGED <<whole, misread>> /\ misread' \in 0 .. MaxMisread + 1
  BY TakesByte DEF LineTypes
<1>2. CASE next_char = "CCMD"
  <2>1. /\ next_char' \in {"CCMD", "CPKTDST"}
        /\ UNCHANGED <<pkt_next_char, msg_dst, read_num_chars, msg_len, msg_buf, obeyed, misled>>
    BY <1>2, ReadsStart
  <2>2. pkt_next_char \in {"CCMD", "CPKTDST"}
    BY <1>2 DEF LineTypes
  <2> QED
    BY <1>1, <1>2, <2>1, <2>2 DEF LineTypes, ModeStates, Size
<1>3. CASE next_char = "CPKTDST"
  <2>1. /\ next_char' = "CPKTLEN" /\ pkt_next_char' = "CPKTLEN" /\ msg_dst' = line[1]
        /\ UNCHANGED <<read_num_chars, msg_len, msg_buf, obeyed, misled>>
    BY <1>3, ReadsDst
  <2> QED
    BY <1>1, <1>3, <2>1 DEF LineTypes, ModeStates, Size
<1>4. CASE next_char = "CPKTLEN"
  <2>1. CASE /\ line[1] = 0 /\ next_char' = "CPKTDST" /\ pkt_next_char' = "CPKTDST"
             /\ UNCHANGED <<read_num_chars, msg_len, msg_buf, msg_dst, obeyed, misled>>
    BY <1>1, <1>4, <2>1 DEF LineTypes, ModeStates, Size
  <2>2. CASE /\ line[1] # 0 /\ next_char' = "CPKTDATA" /\ pkt_next_char' = "CPKTDATA"
             /\ read_num_chars' = line[1] /\ msg_len' = 0 /\ msg_buf' = << >>
             /\ UNCHANGED <<msg_dst, obeyed, misled>>
    <3>1. msg_buf' \in Seq(Byte) /\ Len(msg_buf') = 0
      BY <2>2
    <3>2. line[1] > 0 /\ 0 \in Byte /\ Size' = line[1]
      BY <1>1, <2>2, Bytes, Zenon DEF Size
    <3>3. ObeyedType(obeyed)' /\ misled' \in BOOLEAN /\ msg_dst' \in Byte /\ whole' \in BOOLEAN
      BY <1>1, <2>2, Zenon DEF LineTypes, ObeyedType
    <3> QED
      BY <1>1, <2>2, <3>1, <3>2, <3>3 DEF LineTypes, ModeStates
  <2> QED
    BY <1>4, <2>1, <2>2, ReadsLen
<1>5. CASE next_char = "CPKTDATA"
  <2>1. /\ msg_len' = msg_len + 1 /\ read_num_chars' = read_num_chars - 1
        /\ read_num_chars \in 1 .. 255 /\ msg_len \in 0 .. 254 /\ Size \in 1 .. 255
        /\ Size' = Size /\ UNCHANGED msg_dst
    BY <1>5, ReadsData
  <2>2. PICK msg \in Seq(Byte) :
              /\ Len(msg) = IF Size < SIZEOF_MESSAGE THEN msg_len + 1 ELSE 0
              /\ \/ /\ read_num_chars = 1 /\ pjon_inject_msg(msg_dst, Size, msg)
                    /\ next_char' = "CCMD" /\ pkt_next_char' = "CCMD" /\ msg_buf' = << >>
                 \/ /\ read_num_chars > 1 /\ UNCHANGED <<obeyed, misled>>
                    /\ next_char' = "CPKTDATA" /\ pkt_next_char' = "CPKTDATA"
                    /\ msg_buf' = msg
    BY <1>5, ReadsData, Zenon
  <2>3. /\ msg_len' \in Byte /\ read_num_chars' \in Byte /\ Size' \in Byte /\ msg_dst' \in Byte
        /\ msg_dst \in Byte
    BY <2>1 DEF Byte, LineTypes
  <2>4. CASE /\ read_num_chars = 1 /\ pjon_inject_msg(msg_dst, Size, msg)
             /\ next_char' = "CCMD" /\ pkt_next_char' = "CCMD" /\ msg_buf' = << >>
    <3>1. Size < SIZEOF_MESSAGE => Len(msg) = Size
      BY <2>1, <2>2, <2>4 DEF Size
    <3>2. \/ UNCHANGED <<obeyed, misled>>
          \/ UNCHANGED misled /\ obeyed' \in [damper : [1 .. 3 -> Byte], fan : 0 .. 1]
          \/ misled' = TRUE /\ UNCHANGED obeyed
      BY <2>1, <2>3, <2>4, <3>1, Injects
    <3>3. ObeyedType(obeyed)' /\ misled' \in BOOLEAN
      BY <3>2, Zenon DEF ObeyedType, LineTypes
    <3>4. msg_buf' \in Seq(Byte) /\ Len(msg_buf') = 0
      BY <2>4
    <3>5. whole' \in BOOLEAN
      BY <1>1, Zenon DEF LineTypes
    <3> QED
      BY <1>1, <2>3, <2>4, <3>3, <3>4, <3>5 DEF LineTypes, ModeStates
  <2>5. CASE /\ read_num_chars > 1 /\ UNCHANGED <<obeyed, misled>>
             /\ next_char' = "CPKTDATA" /\ pkt_next_char' = "CPKTDATA" /\ msg_buf' = msg
    <3>1. read_num_chars' > 0
      BY <2>1, <2>5
    <3>2. ObeyedType(obeyed)' /\ misled' \in BOOLEAN /\ whole' \in BOOLEAN
      BY <1>1, <2>5, Zenon DEF LineTypes, ObeyedType
    <3>3. Len(msg_buf') = IF next_char' = "CPKTDATA" /\ Size' < SIZEOF_MESSAGE
                          THEN msg_len' ELSE 0
      BY <2>1, <2>2, <2>5
    <3>4. /\ next_char' \in ModeStates /\ pkt_next_char' \in ModeStates
          /\ next_char' = pkt_next_char' /\ msg_buf' \in Seq(Byte)
      BY <2>5 DEF ModeStates
    <3> QED
      BY <1>1, <2>3, <3>1, <3>2, <3>3, <3>4, Zenon DEF LineTypes
  <2> QED
    BY <2>2, <2>4, <2>5, Zenon
<1> QED
  BY <1>2, <1>3, <1>4, <1>5 DEF LineTypes, ModeStates

-----------------------------------------------------------------------------
(***************************************************************************)
(* Where reader and line may be.  In step: the reader has taken the first  *)
(* bytes of the packet for what they are, the rest is on the line.         *)
(* Skipping: it waits for a packet, and none starts on the line.  Damaged: *)
(* a byte of the packet is lost, and what the reader is in the middle of   *)
(* is no command that could be completed with what is on the line.         *)
(* Astray: it was in the middle of something when a packet was written.    *)
(***************************************************************************)
At(k) ==
    /\ Len(line) = 9 - k /\ \A j \in 1 .. 9 - k : line[j] = PacketOf(serial)[k + j]
    /\ k = 0 => next_char = "CCMD"
    /\ k = 1 => next_char = "CPKTDST"
    /\ k = 2 => next_char = "CPKTLEN" /\ msg_dst = 1
    /\ k >= 3 =>
        /\ next_char = "CPKTDATA" /\ msg_dst = 1
        /\ msg_len = k - 3 /\ read_num_chars = 9 - k
        /\ \A j \in 1 .. k - 3 : msg_buf[j] = PacketOf(serial)[3 + j]
InStep == serial \in Cmds /\ misread = 0 /\ \E k \in 0 .. 8 : At(k)

\* The bytes on the line from the k-th on are small.
UpTo(max, k) == \A j \in k .. Len(line) : line[j] <= max

Skipping == next_char = "CCMD" /\ UpTo(6, 1)

\* The first byte of the message being read, if it has been written.
First == IF msg_len = 0 THEN line[1] ELSE msg_buf[1]
Written == msg_len # 0 \/ line # << >>

\* A short message of a type that nobody acts upon in this length, and a command's
\* beginning.
Pointless == Size <= 2 /\ (Written => First \in {0, 1, 2, START})
Command == msg_dst = 1 /\ Size = 6 /\ Written /\ First = 0

\* From the k-th byte on, a packet without its start and another byte, or what is
\* left of it after its first bytes have been taken for an empty message.
Short(k) ==
    \/ UpTo(2, k)
    \/ /\ Len(line) > k /\ line[k] \in {1, 6} /\ line[k + 1] = 0 /\ UpTo(2, k + 2)
    \/ /\ Len(line) = k + 6 /\ line[k] = 1 /\ line[k + 1] = 6 /\ line[k + 2] = 0
       /\ UpTo(2, k + 2)

DamagedLen ==
    \/ UpTo(2, 1)
    \/ line # << >> /\ line[1] = 0 /\ UpTo(2, 2)
    \/ msg_dst = 1 /\ Len(line) = 6 /\ line[1] = 6 /\ line[2] = 0 /\ UpTo(2, 2)

Damaged ==
    \/ next_char = "CCMD" /\ line # << >> /\ line[1] = START /\ Short(2)
    \/ next_char = "CPKTDST" /\ Short(1)
    \/ next_char = "CPKTLEN" /\ DamagedLen
    \/ next_char = "CPKTDATA" /\ UpTo(2, 1) /\ Pointless
    \/ next_char = "CPKTDATA" /\ UpTo(2, 1) /\ Command /\ Len(line) = read_num_chars - 1

\* The longest of a stray reader's messages takes the start of a packet for its length.
AstrayData ==
    \/ misread = 1 /\ Size = 1 /\ msg_len = 0 /\ Len(line) = 7 /\ line[1] = 6
    \/ misread = 1 /\ Pointless /\ Len(line) >= 7 + read_num_chars
    \/ misread = 1 /\ Command /\ read_num_chars = 1 /\ Len(line) = 9
    \/ /\ Size = START
       /\ MaxMisread >= 7 => read_num_chars <= 63 - 9 * misread + Len(line)

Astray ==
    \/ next_char = "CPKTDST" /\ misread = 1 /\ Len(line) = 9
    \/ next_char = "CPKTLEN" /\ misread = 1 /\ Len(line) = 9
    \/ /\ next_char = "CPKTLEN" /\ misread = 1 /\ Len(line) = 8
       /\ line[1] = 1 /\ line[2] = 6 /\ UpTo(6, 1)
    \/ /\ next_char = "CPKTDATA" /\ UpTo(6, 2) /\ (Len(line) < 9 => UpTo(6, 1))
       /\ AstrayData

Reading ==
    \/ InStep
    \/ Skipping
    \/ ~whole /\ misread = 0 /\ Damaged
    \/ ~whole /\ misread > 0 /\ Astray

\* A line with nine bytes is the packet written last, unread.
Full ==
    /\ line # << >> => serial \in Cmds
    /\ Len(line) = 9 => \A j \in 1 .. 9 : line[j] = PacketOf(serial)[j]

Obeying == whole => InStep \/ (Skipping /\ line = << >> /\ obeyed = serial)
Mistakes == ~misled /\ (MaxMisread >= 7 => misread <= 7)

LineInv == LineTypes /\ Full /\ Reading /\ Obeying /\ Mistakes

-----------------------------------------------------------------------------
(* Reading a message's bytes *)

\* comm.cpp:284-309: too short or too long for their types, messages change nothing.
LEMMA NobodyActs ==
  ASSUME NEW length \in 1 .. 255, NEW msg,
         \/ length <= 2 /\ msg[1] \in {0, 1, 2, START}
         \/ length = 1 /\ msg[1] = 6
         \/ length >= SIZEOF_MESSAGE
  PROVE  ~Acts(length, msg)
  BY DEF Acts, pjon_type_to_msg_length, MSG_DAMPERCMD, START, SIZEOF_MESSAGE

\* main.cpp:248-258: what another byte of a message does.
LEMMA MessageByte ==
  ASSUME LineTypes, handle_serialdata, next_char = "CPKTDATA"
  PROVE  /\ \/ Size <= 2 /\ First \in {0, 1, 2, START}
            \/ Size = 1 /\ First = 6
            \/ Size >= SIZEOF_MESSAGE
            => UNCHANGED <<obeyed, misled>>
         /\ Size = 6 /\ First = 0 /\ msg_dst = 1 =>
              /\ UNCHANGED misled
              /\ \/ UNCHANGED obeyed /\ read_num_chars > 1
                 \/ /\ read_num_chars = 1
                    /\ obeyed' \in [damper : [1 .. 3 -> Byte], fan : 0 .. 1]
                    /\ \A j \in 1 .. 3 : obeyed'.damper[j] = msg_buf[j + 2]
                    /\ obeyed'.fan = line[1] % 2
         /\ read_num_chars = 1 => next_char' = "CCMD"
         /\ read_num_chars > 1 =>
              /\ next_char' = "CPKTDATA"
              /\ Size < SIZEOF_MESSAGE =>
                    /\ First' = First /\ msg_buf'[msg_len + 1] = line[1]
                    /\ \A j \in 1 .. msg_len : msg_buf'[j] = msg_buf[j]
<1>1. /\ msg_len' = msg_len + 1 /\ read_num_chars' = read_num_chars - 1
      /\ read_num_chars \in 1 .. 255 /\ msg_len \in 0 .. 254 /\ Size \in 1 .. 255
      /\ Size' = Size /\ UNCHANGED msg_dst /\ msg_dst \in Byte
  BY ReadsData DEF LineTypes
<1>2. PICK msg \in Seq(Byte) :
              /\ Len(msg) = IF Size < SIZEOF_MESSAGE THEN msg_len + 1 ELSE 0
              /\ Size < SIZEOF_MESSAGE =>
                    /\ \A j \in 1 .. msg_len : msg[j] = msg_buf[j]
                    /\ msg[msg_len + 1] = line[1]
              /\ \/ /\ read_num_chars = 1 /\ pjon_inject_msg(msg_dst, Size, msg)
                    /\ next_char' = "CCMD" /\ pkt_next_char' = "CCMD" /\ msg_buf' = << >>
                 \/ /\ read_num_chars > 1 /\ UNCHANGED <<obeyed, misled>>
                    /\ next_char' = "CPKTDATA" /\ pkt_next_char' = "CPKTDATA"
                    /\ msg_buf' = msg
  BY ReadsData, Zenon
<1>3. Size < SIZEOF_MESSAGE => msg[1] = First
  <2>1. CASE msg_len = 0
    BY <1>2, <2>1 DEF First
  <2>2. CASE msg_len # 0
    <3>1. 1 \in 1 .. msg_len
      BY <1>1, <2>2
    <3> QED
      BY <1>2, <2>2, <3>1, Zenon DEF First
  <2> QED
    BY <2>1, <2>2
<1>4. CASE /\ read_num_chars > 1 /\ UNCHANGED <<obeyed, misled>>
           /\ next_char' = "CPKTDATA" /\ pkt_next_char' = "CPKTDATA" /\ msg_buf' = msg
  <2>1. msg_len' # 0 /\ read_num_chars # 1
    BY <1>1, <1>4
  <2>2. Size < SIZEOF_MESSAGE => First' = First
    BY <1>3, <1>4, <2>1 DEF First
  <2> QED
    BY <1>2, <1>4, <2>1, <2>2, Zenon
<1>5. CASE /\ read_num_chars = 1 /\ pjon_inject_msg(msg_dst, Size, msg)
           /\ next_char' = "CCMD" /\ pkt_next_char' = "CCMD" /\ msg_buf' = << >>
  <2>1. Size = msg_len + 1 /\ ~(read_num_chars > 1)
    BY <1>5 DEF Size
  <2>2. Size < SIZEOF_MESSAGE => Len(msg) = Size
    BY <1>2, <2>1
  <2>3. ASSUME \/ Size <= 2 /\ First \in {0, 1, 2, START}
               \/ Size = 1 /\ First = 6
               \/ Size >= SIZEOF_MESSAGE
        PROVE  UNCHANGED <<obeyed, misled>>
    <3>1. \/ Size <= 2 /\ msg[1] \in {0, 1, 2, START}
          \/ Size = 1 /\ msg[1] = 6
          \/ Size >= SIZEOF_MESSAGE
      BY <1>1, <1>3, <2>3 DEF SIZEOF_MESSAGE
    <3>2. ~Acts(Size, msg)
      BY <1>1, <3>1, NobodyActs
    <3> QED
      BY <1>5, <3>2, Zenon DEF pjon_inject_msg
  <2>4. ASSUME Size = 6, First = 0, msg_dst = 1
        PROVE  /\ UNCHANGED misled
               /\ obeyed' \in [damper : [1 .. 3 -> Byte], fan : 0 .. 1]
               /\ \A j \in 1 .. 3 : obeyed'.damper[j] = msg_buf[j + 2]
               /\ obeyed'.fan = line[1] % 2
    <3>1. msg[1] = MSG_DAMPERCMD /\ msg_len = 5 /\ Size < SIZEOF_MESSAGE
      BY <1>1, <1>3, <2>1, <2>4 DEF MSG_DAMPERCMD, SIZEOF_MESSAGE
    <3>2. Acts(Size, msg)
      BY <2>4, <3>1 DEF Acts, pjon_type_to_msg_length, MSG_DAMPERCMD, SIZEOF_MESSAGE
    <3>3. obeyed' = [damper |-> SubSeq(msg, 3, 5), fan |-> FanOf(msg[6])] /\ UNCHANGED misled
      BY <1>5, <2>4, <3>1, <3>2, Zenon DEF pjon_inject_msg
    <3>4. Len(msg) = 6 /\ \A j \in 1 .. 6 : msg[j] \in Byte
      BY <2>2, <2>4, <3>1, ElementOfSeq
    <3>5. SubSeq(msg, 3, 5) = [j \in 1 .. 3 |-> msg[j + 2]]
      BY <3>4
    <3>6. \A j \in 1 .. 3 : msg[j + 2] = msg_buf[j + 2] /\ msg[j + 2] \in Byte
      <4>1. \A j \in 1 .. 5 : msg[j] = msg_buf[j]
        BY <1>2, <3>1
      <4> QED
        BY <3>4, <4>1
    <3>7. msg[6] = line[1] /\ line[1] \in Byte
      BY <1>2, <3>1, <3>4
    <3>8. line[1] % 2 \in 0 .. 1
      BY <3>7, Bytes, Zenon
    <3> QED
      BY <3>3, <3>5, <3>6, <3>7, <3>8 DEF FanOf
  <2> QED
    BY <1>5, <2>1, <2>3, <2>4, Zenon
<1> QED
  BY <1>2, <1>4, <1>5, Zenon

-----------------------------------------------------------------------------
(* Reading *)

\* What is left on the line was there before.
LEMMA UpToTail ==
  ASSUME LineTypes, handle_serialdata, NEW max \in Nat, NEW k \in 1 .. 9, UpTo(max, k + 1)
  PROVE  UpTo(max, k)'
<1>1. /\ Len(line) \in 1 .. 9 /\ Len(line') = Len(line) - 1
      /\ \A j \in 1 .. Len(line) - 1 : line'[j] = line[j + 1]
  BY TakesByte
<1>2. ASSUME NEW j \in k .. Len(line') PROVE line'[j] <= max
  <2>1. j \in 1 .. Len(line) - 1 /\ j + 1 \in k + 1 .. Len(line)
    BY <1>1
  <2> QED
    BY <1>1, <2>1 DEF UpTo
<1> QED
  BY <1>2 DEF UpTo

\* Small from the k-th byte on is small from a later one on.
LEMMA UpToFrom ==
  ASSUME LineTypes, NEW max \in Nat, NEW j \in 1 .. 9, NEW k \in 1 .. 9, j <= k,
         UpTo(max, j), NEW top \in Nat, max <= top
  PROVE  UpTo(top, k)
<1>1. Len(line) \in Nat /\ \A i \in 1 .. Len(line) : line[i] \in Nat
  BY ElementOfSeq, LenProperties, Bytes DEF LineTypes
<1>2. ASSUME NEW i \in k .. Len(line) PROVE line[i] <= top
  <2>1. line[i] <= max
    BY <1>1, <1>2 DEF UpTo
  <2>2. line[i] \in Nat
    BY <1>1, <1>2
  <2> QED
    BY <2>1, <2>2
<1> QED
  BY <1>2 DEF UpTo

\* main.cpp:262: waiting for a packet's start, the reader passes over all else.
LEMMA SkippingReads ==
  ASSUME LineTypes, handle_serialdata, Skipping
  PROVE  Skipping' /\ UNCHANGED <<obeyed, misled>>
<1>1. line[1] # START
  <2>1. 1 \in 1 .. Len(line)
    BY TakesByte
  <2> QED
    BY <2>1 DEF Skipping, UpTo, START
<1>2. UpTo(6, 2)
  BY UpToFrom DEF Skipping
<1>3. UpTo(6, 1)'
  BY <1>2, UpToTail
<1> QED
  BY <1>1, <1>3, ReadsStart DEF Skipping

\* main.cpp:224-320: the bytes of a packet, one after the other, and the command.
LEMMA InStepReads ==
  ASSUME LineTypes, handle_serialdata, InStep
  PROVE  /\ InStep' \/ (Skipping' /\ line' = << >> /\ obeyed' = serial')
         /\ UNCHANGED misled /\ obeyed' \in {obeyed, serial}
<1> DEFINE p == PacketOf(serial)
<1>1. PICK k \in 0 .. 8 : At(k)
  BY DEF InStep
<1>2. serial \in Cmds /\ misread = 0
  BY DEF InStep
<1>3. /\ p \in Seq(Byte) /\ Len(p) = 9
      /\ p[1] = START /\ p[2] = 1 /\ p[3] = 6 /\ p[4] = 0 /\ p[5] = 0
      /\ p[6] = serial.damper[1] /\ p[7] = serial.damper[2] /\ p[8] = serial.damper[3]
      /\ p[9] = serial.fan
      /\ \A j \in 2 .. 9 : p[j] \in 0 .. 6
  BY <1>2, PacketFacts
<1> HIDE DEF p
<1>4. /\ Len(line) = 9 - k /\ line[1] = p[k + 1]
      /\ Len(line') = 9 - (k + 1) /\ \A j \in 1 .. 9 - (k + 1) : line'[j] = p[(k + 1) + j]
  <2>1. /\ Len(line) = 9 - k /\ \A j \in 1 .. 9 - k : line[j] = p[k + j]
    BY <1>1 DEF At, p
  <2>2. /\ Len(line') = Len(line) - 1
        /\ \A j \in 1 .. Len(line) - 1 : line'[j] = line[j + 1]
    BY TakesByte
  <2>3. Len(line) - 1 = 9 - (k + 1)
    BY <2>1
  <2>4. \A j \in 1 .. 9 - (k + 1) : line'[j] = p[(k + 1) + j]
    <3>1. ASSUME NEW j \in 1 .. 9 - (k + 1) PROVE line'[j] = p[(k + 1) + j]
      <4>1. line'[j] = line[j + 1]
        BY <2>2, <2>3
      <4>2. j + 1 \in 1 .. 9 - k /\ k + (j + 1) = (k + 1) + j
        OBVIOUS
      <4> QED
        BY <2>1, <4>1, <4>2
    <3> QED
      BY <3>1
  <2> QED
    BY <2>1, <2>2, <2>3, <2>4
<1>5. p' = p /\ serial' = serial /\ misread' = 0
  BY <1>2, TakesByte DEF p, vars
<1>6. ASSUME /\ k # 8
             /\ k + 1 = 1 => next_char' = "CPKTDST"
             /\ k + 1 = 2 => next_char' = "CPKTLEN" /\ msg_dst' = 1
             /\ k + 1 >= 3 =>
                /\ next_char' = "CPKTDATA" /\ msg_dst' = 1
                /\ msg_len' = (k + 1) - 3 /\ read_num_chars' = 9 - (k + 1)
                /\ \A j \in 1 .. (k + 1) - 3 : msg_buf'[j] = p[3 + j]
      PROVE  InStep'
  <2>1. At(k + 1)'
    BY <1>4, <1>5, <1>6 DEF At, p
  <2>2. k + 1 \in 0 .. 8
    BY <1>6
  <2> QED
    BY <1>2, <1>5, <2>1, <2>2 DEF InStep
<1>7. CASE k = 0
  <2>1. next_char = "CCMD" /\ line[1] = START
    BY <1>1, <1>3, <1>4, <1>7 DEF At
  <2>2. next_char' = "CPKTDST" /\ UNCHANGED <<obeyed, misled>>
    BY <2>1, ReadsStart
  <2> QED
    BY <1>6, <1>7, <2>2
<1>8. CASE k = 1
  <2>1. next_char = "CPKTDST" /\ line[1] = 1
    BY <1>1, <1>3, <1>4, <1>8 DEF At
  <2>2. next_char' = "CPKTLEN" /\ msg_dst' = 1 /\ UNCHANGED <<obeyed, misled>>
    BY <2>1, ReadsDst
  <2> QED
    BY <1>6, <1>8, <2>2
<1>9. CASE k = 2
  <2>1. next_char = "CPKTLEN" /\ line[1] = 6 /\ msg_dst = 1
    BY <1>1, <1>3, <1>4, <1>9 DEF At
  <2>2. /\ next_char' = "CPKTDATA" /\ msg_dst' = 1 /\ msg_len' = 0 /\ read_num_chars' = 6
        /\ UNCHANGED <<obeyed, misled>>
    BY <2>1, ReadsLen
  <2> QED
    BY <1>6, <1>9, <2>2
<1>10. CASE k >= 3
  <2>1. /\ next_char = "CPKTDATA" /\ msg_dst = 1
        /\ msg_len = k - 3 /\ read_num_chars = 9 - k
        /\ \A j \in 1 .. k - 3 : msg_buf[j] = p[3 + j]
    BY <1>1, <1>10 DEF At, p
  <2>2. Size = 6 /\ Size < SIZEOF_MESSAGE
    BY <1>10, <2>1 DEF Size, SIZEOF_MESSAGE
  <2>3. First = 0
    <3>1. CASE k = 3
      BY <1>3, <1>4, <2>1, <3>1 DEF First
    <3>2. CASE k # 3
      <4>1. 1 \in 1 .. k - 3 /\ msg_len # 0
        BY <1>10, <2>1, <3>2
      <4> QED
        BY <1>3, <2>1, <4>1 DEF First
    <3> QED
      BY <3>1, <3>2
  <2>4. CASE k # 8
    <3>1. read_num_chars > 1
      BY <2>1, <2>4
    <3>2. /\ next_char' = "CPKTDATA" /\ msg_buf'[msg_len + 1] = line[1]
          /\ \A j \in 1 .. msg_len : msg_buf'[j] = msg_buf[j]
      BY <2>1, <2>2, <3>1, MessageByte
    <3>3. UNCHANGED <<obeyed, misled>>
      BY <2>1, <2>2, <2>3, <3>1, MessageByte
    <3>4. msg_len' = msg_len + 1 /\ read_num_chars' = read_num_chars - 1 /\ msg_dst' = msg_dst
      BY <2>1, ReadsData
    <3>5. ASSUME NEW j \in 1 .. (k + 1) - 3 PROVE msg_buf'[j] = p[3 + j]
      <4>1. CASE j = msg_len + 1
        <5>1. 3 + j = k + 1
          BY <2>1, <4>1
        <5> QED
          BY <1>4, <3>2, <4>1, <5>1
      <4>2. CASE j # msg_len + 1
        <5>1. j \in 1 .. msg_len /\ j \in 1 .. k - 3
          BY <1>10, <2>1, <4>2
        <5> QED
          BY <2>1, <3>2, <5>1
      <4> QED
        BY <4>1, <4>2
    <3>6. msg_len' = (k + 1) - 3 /\ read_num_chars' = 9 - (k + 1)
      BY <2>1, <3>4
    <3> QED
      BY <1>6, <1>10, <2>1, <2>4, <3>2, <3>3, <3>4, <3>5, <3>6
  <2>5. CASE k = 8
    <3>1. read_num_chars = 1 /\ msg_len = 5 /\ line[1] = serial.fan /\ Len(line') = 0
      BY <1>3, <1>4, <2>1, <2>5
    <3>2. /\ next_char' = "CCMD" /\ UNCHANGED misled
          /\ obeyed' \in [damper : [1 .. 3 -> Byte], fan : 0 .. 1]
          /\ \A j \in 1 .. 3 : obeyed'.damper[j] = msg_buf[j + 2]
          /\ obeyed'.fan = line[1] % 2
      BY <2>1, <2>2, <2>3, <3>1, MessageByte
    <3>3. /\ serial.damper \in [1 .. 3 -> 0 .. 2] /\ serial.fan \in 0 .. 1
          /\ serial = [damper |-> serial.damper, fan |-> serial.fan]
      BY <1>2, CmdFacts
    <3>4. obeyed'.damper = serial.damper
      <4>1. msg_buf[3] = p[6] /\ msg_buf[4] = p[7] /\ msg_buf[5] = p[8]
        BY <2>1, <2>5
      <4>2. \A j \in 1 .. 3 : obeyed'.damper[j] = serial.damper[j]
        BY <1>3, <3>2, <4>1
      <4>3. obeyed'.damper \in [1 .. 3 -> Byte]
        BY <3>2
      <4> QED
        BY <3>3, <4>2, <4>3
    <3>5. obeyed'.fan = serial.fan
      <4>1. \A b \in 0 .. 1 : b % 2 = b
        OBVIOUS
      <4> QED
        BY <3>1, <3>2, <3>3, <4>1
    <3>6. obeyed' = serial
      BY <3>2, <3>3, <3>4, <3>5
    <3>7. line' = << >>
      BY <3>1, TakesByte, EmptySeq
    <3>8. Skipping'
      BY <3>1, <3>2 DEF Skipping, UpTo
    <3> QED
      BY <1>5, <3>2, <3>6, <3>7, <3>8
  <2> QED
    BY <2>4, <2>5
<1>11. k = 0 \/ k = 1 \/ k = 2 \/ k >= 3
  OBVIOUS
<1> QED
  BY <1>7, <1>8, <1>9, <1>10, <1>11

\* The bytes of a line are numbers.
LEMMA LineBytes ==
  ASSUME LineTypes
  PROVE  Len(line) \in 0 .. 9 /\ \A j \in 1 .. Len(line) : line[j] \in Nat
<1>1. Len(line) \in Nat /\ Len(line) <= 9 /\ line \in Seq(Byte)
  BY LenProperties DEF LineTypes
<1>2. \A n \in Nat : n <= 9 => n \in 0 .. 9
  OBVIOUS
<1>3. \A j \in 1 .. Len(line) : line[j] \in Byte
  BY <1>1, ElementOfSeq
<1> QED
  BY <1>1, <1>2, <1>3, Bytes, Zenon

\* Only the empty sequence has no length.
LEMMA EmptyIff == ASSUME NEW S, NEW s \in Seq(S) PROVE s = << >> <=> Len(s) = 0
  BY EmptySeq

\* main.cpp:224-320: what a byte is lost of is skipped, taken for messages nobody acts
\* upon, or waits for the packet after it.
LEMMA DamagedReads ==
  ASSUME LineTypes, handle_serialdata, Damaged
  PROVE  (Damaged' \/ Skipping') /\ UNCHANGED <<obeyed, misled>>
<1>1. /\ Len(line) \in 1 .. 9 /\ line[1] \in Byte /\ line[1] \in Nat
      /\ Len(line') = Len(line) - 1
      /\ \A j \in 1 .. Len(line) - 1 : line'[j] = line[j + 1]
      /\ \A j \in 1 .. Len(line) : line[j] \in Nat
  BY TakesByte, LineBytes, Bytes, Zenon
<1>2. /\ UpTo(2, 1) => UpTo(2, 2)
      /\ UpTo(2, 2) => UpTo(2, 1)' /\ UpTo(6, 1)'
      /\ UpTo(2, 3) => UpTo(2, 2)'
      /\ UpTo(2, 4) => UpTo(2, 3)'
  <2>1. UpTo(2, 1) => UpTo(2, 2)
    BY <1>1 DEF UpTo
  <2>2. UpTo(2, 2) => UpTo(6, 2)
    BY UpToFrom
  <2> QED
    BY <2>1, <2>2, UpToTail
<1>3. line' # << >> <=> Len(line) > 1
  <2>1. line' = << >> <=> Len(line') = 0
    BY TakesByte, EmptyIff
  <2>2. Len(line') = 0 <=> ~(Len(line) > 1)
    BY <1>1
  <2> QED
    BY <2>1, <2>2
<1>4. CASE next_char = "CCMD" /\ line[1] = START /\ Short(2)
  <2>1. next_char' = "CPKTDST" /\ UNCHANGED <<obeyed, misled>>
    BY <1>4, ReadsStart
  <2>2. Short(1)'
    <3>1. CASE UpTo(2, 2)
      BY <1>2, <3>1 DEF Short
    <3>2. CASE Len(line) > 2 /\ line[2] \in {1, 6} /\ line[3] = 0 /\ UpTo(2, 4)
      <4>1. Len(line') > 1 /\ line'[1] = line[2] /\ line'[2] = line[3] /\ UpTo(2, 3)'
        BY <1>1, <1>2, <3>2
      <4> QED
        BY <3>2, <4>1 DEF Short
    <3>3. CASE /\ Len(line) = 8 /\ line[2] = 1 /\ line[3] = 6 /\ line[4] = 0 /\ UpTo(2, 4)
      <4>1. /\ Len(line') = 7 /\ line'[1] = line[2] /\ line'[2] = line[3]
            /\ line'[3] = line[4] /\ UpTo(2, 3)'
        BY <1>1, <1>2, <3>3
      <4> QED
        BY <3>3, <4>1 DEF Short
    <3> QED
      BY <1>4, <3>1, <3>2, <3>3 DEF Short
  <2> QED
    BY <2>1, <2>2 DEF Damaged
<1>5. CASE next_char = "CPKTDST" /\ Short(1)
  <2>1. next_char' = "CPKTLEN" /\ msg_dst' = line[1] /\ UNCHANGED <<obeyed, misled>>
    BY <1>5, ReadsDst
  <2>2. DamagedLen'
    <3>1. CASE UpTo(2, 1)
      BY <1>2, <3>1 DEF DamagedLen
    <3>2. CASE Len(line) > 1 /\ line[2] = 0 /\ UpTo(2, 3)
      <4>1. line'[1] = 0 /\ UpTo(2, 2)'
        BY <1>1, <1>2, <3>2
      <4> QED
        BY <1>3, <3>2, <4>1 DEF DamagedLen
    <3>3. CASE /\ Len(line) = 7 /\ line[1] = 1 /\ line[2] = 6 /\ line[3] = 0 /\ UpTo(2, 3)
      <4>1. Len(line') = 6 /\ line'[1] = 6 /\ line'[2] = 0 /\ UpTo(2, 2)'
        BY <1>1, <1>2, <3>3
      <4> QED
        BY <2>1, <3>3, <4>1 DEF DamagedLen
    <3> QED
      BY <1>5, <3>1, <3>2, <3>3 DEF Short
  <2> QED
    BY <2>1, <2>2 DEF Damaged
<1>6. CASE next_char = "CPKTLEN" /\ DamagedLen
  <2>1. /\ \/ line[1] = 0 /\ next_char' = "CPKTDST"
           \/ /\ line[1] # 0 /\ next_char' = "CPKTDATA"
              /\ read_num_chars' = line[1] /\ msg_len' = 0
        /\ UNCHANGED <<msg_dst, obeyed, misled>>
    BY <1>6, ReadsLen
  <2>2. CASE line[1] = 0
    <3>1. UpTo(2, 2)
      BY <1>2, <1>6, <2>2 DEF DamagedLen
    <3>2. Short(1)'
      BY <1>2, <3>1 DEF Short
    <3> QED
      BY <2>1, <2>2, <3>2 DEF Damaged
  <2>3. CASE line[1] # 0 /\ UpTo(2, 1)
    <3>1. line[1] <= 2 /\ Size' = line[1]
      <4>1. line[1] <= 2
        BY <1>1, <2>3 DEF UpTo
      <4>2. Size' = line[1]
        BY <1>1, <2>1, <2>3, Bytes, Zenon DEF Size
      <4> QED
        BY <4>1, <4>2
    <3>2. UpTo(2, 1)'
      BY <1>2, <2>3
    <3>3. Written' => First' \in {0, 1, 2}
      <4>1. ASSUME line' # << >> PROVE line'[1] \in {0, 1, 2}
        <5>1. 2 \in 1 .. Len(line) /\ line'[1] = line[2]
          BY <1>1, <1>3, <4>1
        <5> QED
          BY <1>1, <2>3, <5>1 DEF UpTo
      <4> QED
        BY <2>1, <2>3, <4>1 DEF First, Written
    <3> QED
      BY <2>1, <2>3, <3>1, <3>2, <3>3 DEF Damaged, Pointless
  <2>4. CASE msg_dst = 1 /\ Len(line) = 6 /\ line[1] = 6 /\ line[2] = 0 /\ UpTo(2, 2)
    <3>1. Len(line') = 5 /\ line'[1] = 0 /\ line' # << >> /\ UpTo(2, 1)'
      BY <1>1, <1>2, <1>3, <2>4
    <3>2. Size' = 6 /\ msg_len' = 0 /\ msg_dst' = 1 /\ read_num_chars' = 6
      BY <2>1, <2>4 DEF Size
    <3>3. Command' /\ Len(line') = read_num_chars' - 1
      BY <3>1, <3>2 DEF Command, Written, First
    <3> QED
      BY <2>1, <2>4, <3>1, <3>3 DEF Damaged
  <2> QED
    BY <1>6, <2>2, <2>3, <2>4 DEF DamagedLen
<1>7. ASSUME next_char = "CPKTDATA", UpTo(2, 1)
      PROVE  /\ Written /\ UpTo(2, 1)' /\ Size' = Size /\ msg_dst' = msg_dst
             /\ read_num_chars \in 1 .. 255 /\ read_num_chars' = read_num_chars - 1
             /\ read_num_chars = 1 => Skipping'
             /\ read_num_chars > 1 => Written' /\ next_char' = "CPKTDATA"
  <2>1. /\ msg_len' = msg_len + 1 /\ read_num_chars' = read_num_chars - 1
        /\ read_num_chars \in 1 .. 255 /\ msg_len \in 0 .. 254
        /\ Size' = Size /\ UNCHANGED msg_dst
    BY <1>7, ReadsData
  <2>2. line # << >> /\ msg_len' # 0
    BY <1>1, <2>1
  <2> QED
    BY <1>2, <1>7, <2>1, <2>2, MessageByte DEF Skipping, Written
<1>8. CASE next_char = "CPKTDATA" /\ UpTo(2, 1) /\ Pointless
  <2>1. Written /\ Size <= 2 /\ First \in {0, 1, 2, START}
    BY <1>7, <1>8 DEF Pointless
  <2>2. UNCHANGED <<obeyed, misled>>
    BY <1>8, <2>1, MessageByte
  <2>3. CASE read_num_chars = 1
    BY <1>7, <1>8, <2>2, <2>3
  <2>4. CASE read_num_chars > 1
    <3>1. First' = First
      <4>1. Size < SIZEOF_MESSAGE
        <5>1. Size \in 1 .. 255
          BY <1>8, ReadsData
        <5> QED
          BY <2>1, <5>1 DEF SIZEOF_MESSAGE
      <4> QED
        BY <1>8, <2>4, <4>1, MessageByte
    <3> QED
      BY <1>7, <1>8, <2>1, <2>2, <2>4, <3>1 DEF Damaged, Pointless
  <2> QED
    BY <1>7, <1>8, <2>3, <2>4
<1>9. CASE next_char = "CPKTDATA" /\ UpTo(2, 1) /\ Command /\ Len(line) = read_num_chars - 1
  <2>1. Written /\ Size = 6 /\ First = 0 /\ msg_dst = 1 /\ Size < SIZEOF_MESSAGE
    BY <1>9 DEF Command, SIZEOF_MESSAGE
  <2>2. read_num_chars > 1 /\ Len(line') = read_num_chars' - 1
    BY <1>1, <1>7, <1>9
  <2>3. UNCHANGED <<obeyed, misled>> /\ First' = First
    BY <1>9, <2>1, <2>2, MessageByte
  <2>4. Command'
    BY <1>7, <1>9, <2>1, <2>2, <2>3 DEF Command
  <2> QED
    BY <1>7, <1>9, <2>2, <2>3, <2>4 DEF Damaged
<1> QED
  BY <1>4, <1>5, <1>6, <1>8, <1>9 DEF Damaged

\* What a whole packet on the line is like.
LEMMA FullFacts ==
  ASSUME LineTypes, Full, Len(line) = 9
  PROVE  /\ serial \in Cmds /\ line[1] = START /\ line[2] = 1 /\ line[3] = 6
         /\ UpTo(6, 2) /\ (At(0) <=> next_char = "CCMD")
<1> DEFINE p == PacketOf(serial)
<1>1. line # << >>
  OBVIOUS
<1>2. serial \in Cmds /\ \A j \in 1 .. 9 : line[j] = p[j]
  BY <1>1 DEF Full
<1>3. p[1] = START /\ p[2] = 1 /\ p[3] = 6 /\ \A j \in 2 .. 9 : p[j] \in 0 .. 6
  BY <1>2, PacketFacts
<1> HIDE DEF p
<1>4. UpTo(6, 2)
  BY <1>2, <1>3 DEF UpTo
<1>5. At(0) <=> next_char = "CCMD"
  <2>1. /\ 9 - 0 = 9 /\ \A j \in 1 .. 9 : 0 + j = j
        /\ ~(0 = 1) /\ ~(0 = 2) /\ ~(0 >= 3)
    OBVIOUS
  <2> QED
    BY <1>2, <2>1 DEF At, p
<1> QED
  BY <1>2, <1>3, <1>4, <1>5

\* main.cpp:236-258, comm.cpp:284-309: a stray reader gets nearer to the end of what
\* it takes for a message; at most the last byte of a command is another packet's start.
LEMMA AstrayReads ==
  ASSUME LineTypes, Full, handle_serialdata, Astray
  PROVE  /\ Astray' \/ Skipping'
         /\ UNCHANGED misled /\ (obeyed' = obeyed \/ obeyed'.fan = 0)
<1>1. /\ Len(line) \in 1 .. 9 /\ line[1] \in Byte
      /\ Len(line') = Len(line) - 1 /\ Len(line') \in 0 .. 8
      /\ \A j \in 1 .. Len(line) - 1 : line'[j] = line[j + 1]
      /\ misread' = misread /\ misread \in Nat
  <2>1. misread \in Nat
    BY MisreadAssumption DEF LineTypes
  <2>2. \A n \in 1 .. 9 : n - 1 \in 0 .. 8
    OBVIOUS
  <2>3. UNCHANGED misread
    BY TakesByte
  <2> QED
    BY <2>1, <2>2, <2>3, TakesByte, Zenon
<1>2. UpTo(6, 2) => UpTo(6, 1)' /\ UpTo(6, 2)'
  <2>1. UpTo(6, 2) => UpTo(6, 1)'
    BY UpToTail
  <2>2. UpTo(6, 1)' => UpTo(6, 2)'
    BY <1>1 DEF UpTo
  <2> QED
    BY <2>1, <2>2
<1>3. CASE next_char = "CPKTDST" /\ misread = 1 /\ Len(line) = 9
  <2>1. line[2] = 1 /\ line[3] = 6 /\ UpTo(6, 2)
    BY <1>3, FullFacts
  <2>2. Len(line') = 8 /\ line'[1] = 1 /\ line'[2] = 6 /\ UpTo(6, 1)'
    BY <1>1, <1>2, <1>3, <2>1
  <2>3. next_char' = "CPKTLEN" /\ UNCHANGED <<obeyed, misled>>
    BY <1>3, ReadsDst
  <2> QED
    BY <1>1, <1>3, <2>2, <2>3 DEF Astray
<1>4. CASE next_char = "CPKTLEN" /\ misread = 1 /\ Len(line) = 9
  <2>1. line[1] = START /\ UpTo(6, 1)' /\ UpTo(6, 2)'
    BY <1>2, <1>4, FullFacts
  <2>2. /\ next_char' = "CPKTDATA" /\ read_num_chars' = 62 /\ msg_len' = 0
        /\ UNCHANGED <<obeyed, misled>>
    BY <1>4, <2>1, ReadsLen DEF START
  <2>3. Size' = START /\ read_num_chars' <= 63 - 9 * misread' + Len(line')
    BY <1>1, <1>4, <2>2 DEF Size, START
  <2> QED
    BY <2>1, <2>2, <2>3 DEF Astray, AstrayData
<1>5. CASE /\ next_char = "CPKTLEN" /\ misread = 1 /\ Len(line) = 8
           /\ line[1] = 1 /\ line[2] = 6 /\ UpTo(6, 1)
  <2>1. UpTo(6, 2)
    BY <1>5 DEF UpTo
  <2>2. Len(line') = 7 /\ line'[1] = 6 /\ UpTo(6, 1)' /\ UpTo(6, 2)'
    BY <1>1, <1>2, <1>5, <2>1
  <2>3. /\ next_char' = "CPKTDATA" /\ read_num_chars' = 1 /\ msg_len' = 0
        /\ UNCHANGED <<obeyed, misled>>
    BY <1>5, ReadsLen
  <2>4. Size' = 1
    BY <2>3 DEF Size
  <2> QED
    BY <1>1, <1>5, <2>2, <2>3, <2>4 DEF Astray, AstrayData
<1>6. ASSUME next_char = "CPKTDATA", UpTo(6, 2)
      PROVE  /\ Written /\ Written' /\ UpTo(6, 1)' /\ UpTo(6, 2)'
             /\ Size' = Size /\ Size \in 1 .. 255
             /\ read_num_chars \in 1 .. 255 /\ read_num_chars' = read_num_chars - 1
             /\ read_num_chars = 1 => Skipping'
             /\ read_num_chars > 1 => next_char' = "CPKTDATA"
  <2>1. /\ msg_len' = msg_len + 1 /\ read_num_chars' = read_num_chars - 1
        /\ read_num_chars \in 1 .. 255 /\ msg_len \in 0 .. 254
        /\ Size' = Size /\ Size \in 1 .. 255
    BY <1>6, ReadsData
  <2>2. line # << >> /\ msg_len' # 0
    BY <1>1, <2>1
  <2> QED
    BY <1>2, <1>6, <2>1, <2>2, MessageByte DEF Skipping, Written
<1>12. next_char = "CPKTDATA" =>
         /\ read_num_chars \in 1 .. 255 /\ read_num_chars' = read_num_chars - 1
         /\ Size \in 1 .. 255 /\ (read_num_chars # 1 => read_num_chars > 1)
         /\ Len(line) \in Int /\ read_num_chars \in Int /\ misread \in Int
  <2>1. /\ \A n \in 1 .. 255 : n \in Int /\ (n # 1 => n > 1)
        /\ \A n \in 1 .. 9 : n \in Int
        /\ \A n \in Nat : n \in Int
    OBVIOUS
  <2> QED
    BY <1>1, <2>1, ReadsData, Zenon
<1>7. ASSUME next_char = "CPKTDATA", UpTo(6, 2),
             misread = 1, Size = 1, msg_len = 0, Len(line) = 7, line[1] = 6
      PROVE  Skipping' /\ UNCHANGED <<obeyed, misled>>
  <2>1. read_num_chars = 1 /\ First = 6
    BY <1>6, <1>7 DEF Size, First
  <2> QED
    BY <1>6, <1>7, <2>1, MessageByte
<1>8. ASSUME next_char = "CPKTDATA", UpTo(6, 2),
             misread = 1, Pointless, Len(line) >= 7 + read_num_chars
      PROVE  (Astray' \/ Skipping') /\ UNCHANGED <<obeyed, misled>>
  <2>1. Size <= 2 /\ First \in {0, 1, 2, START}
    BY <1>6, <1>8 DEF Pointless
  <2>2. UNCHANGED <<obeyed, misled>>
    BY <1>8, <2>1, MessageByte
  <2>3. CASE read_num_chars = 1
    BY <1>6, <1>8, <2>2, <2>3
  <2>4. CASE read_num_chars # 1
    <3>1. read_num_chars > 1 /\ Size < SIZEOF_MESSAGE
      <4>1. Size \in 1 .. 255 /\ Size <= 2
        BY <1>8, <1>12, <2>1, Zenon
      <4>2. \A n \in 1 .. 255 : n <= 2 => n < SIZEOF_MESSAGE
        BY DEF SIZEOF_MESSAGE
      <4> QED
        BY <1>8, <1>12, <2>4, <4>1, <4>2, Zenon
    <3>2. First' = First /\ next_char' = "CPKTDATA"
      BY <1>8, <3>1, MessageByte
    <3>3. Pointless'
      BY <1>6, <1>8, <2>1, <3>2 DEF Pointless
    <3>4. Len(line') >= 7 + read_num_chars'
      <4>1. \A n, r \in Int : n >= 7 + r => n - 1 >= 7 + (r - 1)
        OBVIOUS
      <4>2. Len(line) \in Int /\ read_num_chars \in Int
        BY <1>8, <1>12, Zenon
      <4> QED
        BY <1>1, <1>8, <1>12, <4>1, <4>2, Zenon
    <3>5. AstrayData'
      BY <1>1, <1>8, <3>3, <3>4, Zenon DEF AstrayData
    <3> QED
      BY <1>6, <1>8, <2>2, <3>2, <3>5 DEF Astray
  <2> QED
    BY <2>3, <2>4
<1>9. ASSUME next_char = "CPKTDATA", UpTo(6, 2),
             misread = 1, Command, read_num_chars = 1, Len(line) = 9
      PROVE  Skipping' /\ UNCHANGED misled /\ (obeyed' = obeyed \/ obeyed'.fan = 0)
  <2>1. line[1] % 2 = 0
    BY <1>9, FullFacts DEF START
  <2> QED
    BY <1>6, <1>9, <2>1, MessageByte DEF Command
<1>10. ASSUME next_char = "CPKTDATA", UpTo(6, 2), Size = START,
              MaxMisread >= 7 => read_num_chars <= 63 - 9 * misread + Len(line)
       PROVE  (Astray' \/ Skipping') /\ UNCHANGED <<obeyed, misled>>
  <2>1. UNCHANGED <<obeyed, misled>>
    BY <1>10, MessageByte DEF START, SIZEOF_MESSAGE
  <2>2. MaxMisread >= 7 => read_num_chars' <= 63 - 9 * misread' + Len(line')
    <3>1. \A n, r, m \in Int : r <= 63 - 9 * m + n => r - 1 <= 63 - 9 * m + (n - 1)
      OBVIOUS
    <3>2. Len(line) \in Int /\ read_num_chars \in Int /\ misread \in Int
      BY <1>10, <1>12, Zenon
    <3> QED
      BY <1>1, <1>10, <1>12, <3>1, <3>2, Zenon
  <2>3. CASE read_num_chars = 1
    BY <1>6, <1>10, <2>1, <2>3
  <2>4. CASE read_num_chars # 1
    <3>1. read_num_chars > 1
      BY <1>10, <1>12, <2>4, Zenon
    <3>2. AstrayData'
      BY <1>6, <1>10, <2>2 DEF AstrayData
    <3> QED
      BY <1>6, <1>10, <2>1, <3>1, <3>2 DEF Astray
  <2> QED
    BY <2>3, <2>4
<1>11. CASE next_char = "CPKTDATA" /\ UpTo(6, 2) /\ AstrayData
  BY <1>7, <1>8, <1>9, <1>10, <1>11, Zenon DEF AstrayData
<1> QED
  BY <1>3, <1>4, <1>5, <1>11, Zenon DEF Astray

-----------------------------------------------------------------------------
(* Faults *)

\* A sequence without its k-th element.
LEMMA Without ==
  ASSUME NEW S, NEW s \in Seq(S), NEW k \in 1 .. Len(s)
  PROVE  LET t == SubSeq(s, 1, k - 1) \o SubSeq(s, k + 1, Len(s))
         IN  /\ t \in Seq(S) /\ Len(t) = Len(s) - 1
             /\ \A j \in 1 .. Len(s) - 1 : t[j] = IF j < k THEN s[j] ELSE s[j + 1]
<1> DEFINE a == SubSeq(s, 1, k - 1)
           b == SubSeq(s, k + 1, Len(s))
<1>0. Len(s) \in Nat /\ k \in Nat /\ 1 <= k /\ k <= Len(s)
  BY LenProperties
<1>1. \A j \in 1 .. Len(s) : s[j] \in S
  BY ElementOfSeq
<1>2. /\ a \in Seq(S) /\ Len(a) = k - 1 /\ \A j \in 1 .. k - 1 : a[j] = s[j]
  <2>1. \A j \in 1 .. k - 1 : s[j] \in S
    BY <1>0, <1>1
  <2>2. k - 1 \in Int /\ 1 \in Int
    BY <1>0
  <2>3. /\ a \in Seq(S) /\ Len(a) = IF 1 <= k - 1 THEN (k - 1) - 1 + 1 ELSE 0
        /\ \A j \in 1 .. (k - 1) - 1 + 1 : a[j] = s[1 + j - 1]
    BY <2>1, <2>2, SubSeqProperties
  <2> HIDE DEF a
  <2>4. (IF 1 <= k - 1 THEN (k - 1) - 1 + 1 ELSE 0) = k - 1 /\ (k - 1) - 1 + 1 = k - 1
    BY <1>0
  <2>5. \A j \in 1 .. k - 1 : 1 + j - 1 = j
    OBVIOUS
  <2> QED
    BY <2>3, <2>4, <2>5
<1>3. /\ b \in Seq(S) /\ Len(b) = Len(s) - k
      /\ \A j \in 1 .. Len(s) - k : b[j] = s[k + j]
  <2>1. \A j \in k + 1 .. Len(s) : s[j] \in S
    BY <1>0, <1>1
  <2>2. k + 1 \in Int /\ Len(s) \in Int
    BY <1>0
  <2>3. /\ b \in Seq(S)
        /\ Len(b) = IF k + 1 <= Len(s) THEN Len(s) - (k + 1) + 1 ELSE 0
        /\ \A j \in 1 .. Len(s) - (k + 1) + 1 : b[j] = s[(k + 1) + j - 1]
    BY <2>1, <2>2, SubSeqProperties
  <2> HIDE DEF b
  <2>4. /\ (IF k + 1 <= Len(s) THEN Len(s) - (k + 1) + 1 ELSE 0) = Len(s) - k
        /\ Len(s) - (k + 1) + 1 = Len(s) - k
    BY <1>0
  <2>5. \A j \in 1 .. Len(s) - k : (k + 1) + j - 1 = k + j
    BY <1>0
  <2> QED
    BY <2>3, <2>4, <2>5
<1> HIDE DEF a, b
<1>4. /\ a \o b \in Seq(S) /\ Len(a \o b) = Len(a) + Len(b)
      /\ \A j \in 1 .. Len(a) + Len(b) :
            (a \o b)[j] = IF j <= Len(a) THEN a[j] ELSE b[j - Len(a)]
  BY <1>2, <1>3, ConcatProperties
<1>5. Len(a) + Len(b) = Len(s) - 1
  BY <1>0, <1>2, <1>3
<1>6. ASSUME NEW j \in 1 .. Len(s) - 1
      PROVE  (a \o b)[j] = IF j < k THEN s[j] ELSE s[j + 1]
  <2>1. (a \o b)[j] = IF j <= k - 1 THEN a[j] ELSE b[j - (k - 1)]
    BY <1>2, <1>4, <1>5
  <2>2. CASE j < k
    <3>1. j <= k - 1 /\ j \in 1 .. k - 1
      BY <1>0, <2>2
    <3> QED
      BY <1>2, <2>1, <2>2, <3>1
  <2>3. CASE ~(j < k)
    <3>1. ~(j <= k - 1) /\ j - (k - 1) \in 1 .. Len(s) - k /\ k + (j - (k - 1)) = j + 1
      BY <1>0, <2>3
    <3> QED
      BY <1>3, <2>1, <2>3, <3>1
  <2> QED
    BY <2>2, <2>3
<1> QED
  BY <1>4, <1>5, <1>6 DEF a, b

\* A byte is lost on the line: the reader is no longer in step.
LEMMA LoseKeeps ==
  ASSUME LineTypes, InStep, NEW i \in 1 .. Len(line), LoseByte(i)
  PROVE  /\ LineTypes' /\ Full' /\ (Damaged' \/ Skipping')
         /\ misread' = 0 /\ ~whole'
<1> DEFINE p == PacketOf(serial)
<1>1. PICK k \in 0 .. 8 : At(k)
  BY DEF InStep
<1>2. serial \in Cmds /\ misread = 0
  BY DEF InStep
<1>3. /\ p[1] = START /\ p[2] = 1 /\ p[3] = 6 /\ p[4] = 0 /\ p[5] = 0
      /\ \A j \in 2 .. 9 : p[j] \in 0 .. 6
      /\ \A j \in 4 .. 9 : p[j] \in 0 .. 2
  BY <1>2, PacketFacts
<1> HIDE DEF p
<1>4. /\ UNCHANGED <<next_char, pkt_next_char, msg_dst, read_num_chars, msg_len, msg_buf>>
      /\ UNCHANGED <<obeyed, misled, misread, serial>> /\ whole' = FALSE
      /\ line' = SubSeq(line, 1, i - 1) \o SubSeq(line, i + 1, Len(line))
  BY DEF LoseByte, controller, parser, vars
<1>5. /\ Len(line) = 9 - k /\ \A j \in 1 .. 9 - k : line[j] = p[k + j]
  BY <1>1 DEF At, p
<1>6. /\ line' \in Seq(Byte) /\ Len(line') = 8 - k
      /\ \A j \in 1 .. 8 - k : line'[j] = IF j < i THEN p[k + j] ELSE p[k + j + 1]
  <2>1. line \in Seq(Byte)
    BY DEF LineTypes
  <2>2. /\ line' \in Seq(Byte) /\ Len(line') = Len(line) - 1
        /\ \A j \in 1 .. Len(line) - 1 : line'[j] = IF j < i THEN line[j] ELSE line[j + 1]
    BY <1>4, <2>1, Without
  <2>3. Len(line) - 1 = 8 - k
    BY <1>5
  <2>4. ASSUME NEW j \in 1 .. 8 - k
        PROVE  line'[j] = IF j < i THEN p[k + j] ELSE p[k + j + 1]
    <3>1. /\ j \in 1 .. 9 - k /\ j + 1 \in 1 .. 9 - k /\ k + (j + 1) = k + j + 1
      OBVIOUS
    <3>2. line[j] = p[k + j] /\ line[j + 1] = p[k + j + 1]
      BY <1>5, <3>1
    <3> QED
      BY <2>2, <2>3, <3>2
  <2> QED
    BY <2>2, <2>3, <2>4
<1>7. LineTypes'
  <2>1. Len(line') <= 9
    BY <1>6
  <2>2. Size' = Size
    BY <1>4 DEF Size
  <2>3. misread' \in 0 .. MaxMisread + 1
    BY <1>4 DEF LineTypes
  <2> QED
    BY <1>4, <1>6, <2>1, <2>2, <2>3, Zenon DEF LineTypes, ObeyedType
<1>8. Full'
  <2>1. Len(line') # 9
    BY <1>6
  <2> QED
    BY <1>2, <1>4, <2>1, Zenon DEF Full
<1>9. /\ \A m \in 1 .. 9 : k + m >= 4 => UpTo(2, m)'
      /\ k >= 1 => UpTo(6, 1)'
  <2>1. ASSUME NEW m \in 1 .. 9, k + m >= 4 PROVE UpTo(2, m)'
    <3>1. ASSUME NEW j \in m .. Len(line') PROVE line'[j] <= 2
      <4>1. j \in 1 .. 8 - k /\ k + j \in 4 .. 9 /\ k + j + 1 \in 4 .. 9
        BY <1>6, <2>1
      <4>2. p[k + j] \in 0 .. 2 /\ p[k + j + 1] \in 0 .. 2
        BY <1>3, <4>1
      <4>3. line'[j] = p[k + j] \/ line'[j] = p[k + j + 1]
        BY <1>6, <4>1, Zenon
      <4> QED
        BY <4>2, <4>3
    <3> QED
      BY <3>1 DEF UpTo
  <2>2. ASSUME k >= 1 PROVE UpTo(6, 1)'
    <3>1. ASSUME NEW j \in 1 .. Len(line') PROVE line'[j] <= 6
      <4>1. j \in 1 .. 8 - k /\ k + j \in 2 .. 9 /\ k + j + 1 \in 2 .. 9
        BY <1>6, <2>2
      <4>2. p[k + j] \in 0 .. 6 /\ p[k + j + 1] \in 0 .. 6
        BY <1>3, <4>1
      <4>3. line'[j] = p[k + j] \/ line'[j] = p[k + j + 1]
        BY <1>6, <4>1, Zenon
      <4> QED
        BY <4>2, <4>3
    <3> QED
      BY <3>1 DEF UpTo
  <2> QED
    BY <2>1, <2>2
<1>10. line' # << >> <=> k # 8
  <2>1. line' = << >> <=> Len(line') = 0
    BY <1>6, EmptyIff
  <2> QED
    BY <1>6, <2>1
<1> SUFFICES Damaged' \/ Skipping'
  BY <1>2, <1>4, <1>7, <1>8
<1>11. CASE k = 0
  <2>1. /\ next_char' = "CCMD" /\ Len(line') = 8 /\ line' # << >>
        /\ \A j \in 1 .. 8 : line'[j] = IF j < i THEN p[j] ELSE p[j + 1]
        /\ i \in 1 .. 9
    <3>1. next_char' = "CCMD"
      BY <1>1, <1>4, <1>11 DEF At
    <3>2. Len(line') = 8 /\ line' # << >> /\ i \in 1 .. 9
      BY <1>5, <1>6, <1>10, <1>11
    <3>3. \A j \in 1 .. 8 : line'[j] = IF j < i THEN p[0 + j] ELSE p[0 + j + 1]
      BY <1>6, <1>11
    <3>4. \A j \in 1 .. 8 : 0 + j = j
      OBVIOUS
    <3> QED
      BY <3>1, <3>2, <3>3, <3>4, Zenon
  <2>2. UpTo(2, 4)'
    BY <1>9, <1>11
  <2>3. CASE i = 1
    <3>1. \A j \in 1 .. 8 : line'[j] <= 6
      BY <1>3, <2>1, <2>3
    <3> QED
      BY <2>1, <3>1 DEF Skipping, UpTo
  <2>4. CASE i = 2 \/ i = 3
    <3>1. line'[1] = START /\ line'[2] \in {1, 6} /\ line'[3] = 0
      BY <1>3, <2>1, <2>4
    <3>2. Short(2)'
      BY <2>1, <2>2, <3>1 DEF Short
    <3> QED
      BY <2>1, <3>1, <3>2 DEF Damaged
  <2>5. CASE i >= 4
    <3>1. line'[1] = START /\ line'[2] = 1 /\ line'[3] = 6 /\ line'[4] = 0
      BY <1>3, <2>1, <2>5
    <3>2. Short(2)'
      BY <2>1, <2>2, <3>1 DEF Short
    <3> QED
      BY <2>1, <3>1, <3>2 DEF Damaged
  <2>6. i = 1 \/ i = 2 \/ i = 3 \/ i >= 4
    BY <2>1
  <2> QED
    BY <2>3, <2>4, <2>5, <2>6
<1>12. CASE k = 1
  <2>1. /\ next_char' = "CPKTDST" /\ Len(line') = 7
        /\ \A j \in 1 .. 7 : line'[j] = IF j < i THEN p[1 + j] ELSE p[1 + j + 1]
        /\ i \in 1 .. 8
    BY <1>1, <1>4, <1>5, <1>6, <1>12 DEF At
  <2>2. UpTo(2, 3)'
    BY <1>9, <1>12
  <2>3. CASE i = 1 \/ i = 2
    <3>1. line'[1] \in {1, 6} /\ line'[2] = 0
      BY <1>3, <2>1, <2>3
    <3> QED
      BY <2>1, <2>2, <3>1 DEF Damaged, Short
  <2>4. CASE i >= 3
    <3>1. line'[1] = 1 /\ line'[2] = 6 /\ line'[3] = 0
      BY <1>3, <2>1, <2>4
    <3> QED
      BY <2>1, <2>2, <3>1 DEF Damaged, Short
  <2>5. i = 1 \/ i = 2 \/ i >= 3
    BY <2>1
  <2> QED
    BY <2>3, <2>4, <2>5
<1>13. CASE k = 2
  <2>1. /\ next_char' = "CPKTLEN" /\ msg_dst' = 1 /\ Len(line') = 6 /\ line' # << >>
        /\ \A j \in 1 .. 6 : line'[j] = IF j < i THEN p[2 + j] ELSE p[2 + j + 1]
        /\ i \in 1 .. 7
    <3>1. next_char' = "CPKTLEN" /\ msg_dst' = 1
      BY <1>1, <1>4, <1>13 DEF At
    <3>2. Len(line') = 6 /\ line' # << >> /\ i \in 1 .. 7
      BY <1>5, <1>6, <1>10, <1>13
    <3>3. \A j \in 1 .. 6 : line'[j] = IF j < i THEN p[2 + j] ELSE p[2 + j + 1]
      BY <1>6, <1>13
    <3> QED
      BY <3>1, <3>2, <3>3, Zenon
  <2>2. UpTo(2, 2)'
    BY <1>9, <1>13
  <2>3. CASE i = 1
    <3>1. line'[1] = 0
      BY <1>3, <2>1, <2>3
    <3> QED
      BY <2>1, <2>2, <3>1 DEF Damaged, DamagedLen
  <2>4. CASE i >= 2
    <3>1. line'[1] = 6 /\ line'[2] = 0
      BY <1>3, <2>1, <2>4
    <3> QED
      BY <2>1, <2>2, <3>1 DEF Damaged, DamagedLen
  <2>5. i = 1 \/ i >= 2
    BY <2>1
  <2> QED
    BY <2>3, <2>4, <2>5
<1>14. CASE k >= 3
  <2>1. /\ next_char' = "CPKTDATA" /\ msg_dst' = 1
        /\ msg_len' = k - 3 /\ read_num_chars' = 9 - k
        /\ \A j \in 1 .. k - 3 : msg_buf'[j] = p[3 + j]
    BY <1>1, <1>4, <1>14 DEF At, p
  <2>2. UpTo(2, 1)'
    BY <1>9, <1>14
  <2>3. Size' = 6 /\ Len(line') = read_num_chars' - 1
    BY <1>6, <1>14, <2>1 DEF Size
  <2>4. First' = 0 /\ Written'
    <3>1. CASE k = 3
      <4>1. line'[1] = 0 /\ msg_len' = 0 /\ line' # << >>
        BY <1>3, <1>6, <1>10, <2>1, <3>1
      <4> QED
        BY <4>1 DEF First, Written
    <3>2. CASE k # 3
      <4>1. 1 \in 1 .. k - 3 /\ msg_len' # 0
        BY <1>14, <2>1, <3>2
      <4> QED
        BY <1>3, <2>1, <4>1 DEF First, Written
    <3> QED
      BY <3>1, <3>2
  <2> QED
    BY <2>1, <2>2, <2>3, <2>4 DEF Damaged, Command
<1>15. k = 0 \/ k = 1 \/ k = 2 \/ k >= 3
  OBVIOUS
<1> QED
  BY <1>2, <1>4, <1>7, <1>8, <1>11, <1>12, <1>13, <1>14, <1>15

\* A whole packet on the line, seen from the reader.
FullShape ==
    Len(line) = 9 =>
        /\ serial \in Cmds /\ line[1] = START /\ UpTo(6, 2)
        /\ next_char = "CCMD" => At(0)
LEMMA FullShapes == LineTypes /\ Full => FullShape
  BY FullFacts DEF FullShape

\* With the bytes of a packet on the line, all but the first are small.
LEMMA RestIsSmall ==
  ASSUME LineTypes, Full, Reading, Len(line) # 9,
         ~(next_char = "CCMD" /\ misread = 0 /\ ~whole /\ Damaged)
  PROVE  UpTo(6, 1)
<1>0. Len(line) \in 0 .. 9 /\ \A j \in 1 .. Len(line) : line[j] \in Nat
  BY LineBytes
<1>1. CASE InStep
  <2>1. PICK k \in 0 .. 8 : At(k)
    BY <1>1 DEF InStep
  <2>2. /\ Len(line) = 9 - k /\ k # 0
        /\ \A j \in 1 .. 9 - k : line[j] = PacketOf(serial)[k + j]
    BY <2>1 DEF At
  <2>3. \A j \in 2 .. 9 : PacketOf(serial)[j] \in 0 .. 6
    BY <1>1, PacketFacts DEF InStep
  <2>4. ASSUME NEW j \in 1 .. Len(line) PROVE line[j] <= 6
    <3>1. j \in 1 .. 9 - k /\ k + j \in 2 .. 9
      BY <2>2
    <3>2. line[j] = PacketOf(serial)[k + j] /\ PacketOf(serial)[k + j] \in 0 .. 6
      BY <2>2, <2>3, <3>1, Zenon
    <3> QED
      BY <3>2
  <2> QED
    BY <2>4 DEF UpTo
<1>2. CASE Skipping
  BY <1>2 DEF Skipping
<1>3. UpTo(2, 1) => UpTo(6, 1)
  BY <1>0 DEF UpTo
<1>4. ASSUME next_char = "CPKTDST", Short(1) PROVE UpTo(6, 1)
  <2>1. CASE Len(line) > 1 /\ line[1] \in {1, 6} /\ line[2] = 0 /\ UpTo(2, 3)
    <3>1. ASSUME NEW j \in 1 .. Len(line) PROVE line[j] <= 6
      <4>1. j = 1 \/ j = 2 \/ j \in 3 .. Len(line)
        BY <1>0
      <4>2. ASSUME j \in 3 .. Len(line) PROVE line[j] <= 6
        BY <1>0, <2>1, <4>2 DEF UpTo
      <4> QED
        BY <2>1, <4>1, <4>2
    <3> QED
      BY <3>1 DEF UpTo
  <2>2. CASE /\ Len(line) = 7 /\ line[1] = 1 /\ line[2] = 6 /\ line[3] = 0 /\ UpTo(2, 3)
    <3>1. ASSUME NEW j \in 1 .. Len(line) PROVE line[j] <= 6
      <4>1. j = 1 \/ j = 2 \/ j \in 3 .. Len(line)
        BY <1>0
      <4>2. ASSUME j \in 3 .. Len(line) PROVE line[j] <= 6
        BY <1>0, <2>2, <4>2 DEF UpTo
      <4> QED
        BY <2>2, <4>1, <4>2
    <3> QED
      BY <3>1 DEF UpTo
  <2> QED
    BY <1>3, <1>4, <2>1, <2>2 DEF Short
<1>5. ASSUME DamagedLen PROVE UpTo(6, 1)
  <2>1. ASSUME line[1] \in {0, 6}, UpTo(2, 2) PROVE UpTo(6, 1)
    <3>1. ASSUME NEW j \in 1 .. Len(line) PROVE line[j] <= 6
      <4>1. j = 1 \/ j \in 2 .. Len(line)
        BY <1>0
      <4>2. ASSUME j \in 2 .. Len(line) PROVE line[j] <= 6
        BY <1>0, <2>1, <4>2 DEF UpTo
      <4> QED
        BY <2>1, <4>1, <4>2
    <3> QED
      BY <3>1 DEF UpTo
  <2> QED
    BY <1>3, <1>5, <2>1 DEF DamagedLen
<1>6. CASE ~whole /\ misread = 0 /\ Damaged
  BY <1>3, <1>4, <1>5, <1>6 DEF Damaged
<1>7. CASE ~whole /\ misread > 0 /\ Astray
  <2>1. \A n \in 0 .. 9 : n # 9 => n < 9
    OBVIOUS
  <2>2. Len(line) < 9
    BY <1>0, <2>1, Zenon
  <2> QED
    BY <1>7, <2>2 DEF Astray
<1> QED
  BY <1>1, <1>2, <1>6, <1>7 DEF Reading

\* The controller starts again, with what is left on the line or without.
LEMMA RestartKeeps == ASSUME LineInv, Restart PROVE LineInv'
<1>1. /\ next_char' = "CCMD" /\ pkt_next_char' = "CPKTDST" /\ msg_dst' = 0
      /\ read_num_chars' = 0 /\ msg_len' = 0 /\ msg_buf' = << >> /\ obeyed' = NoState
      /\ whole' = FALSE /\ misread' = 0 /\ UNCHANGED <<misled, serial>>
      /\ line' = line \/ line' = << >>
  BY DEF Restart, vars
<1>2. LineTypes'
  <2>1. line' \in Seq(Byte) /\ Len(line') <= 9
    <3>1. CASE line' = line
      BY <3>1, Zenon DEF LineInv, LineTypes
    <3>2. CASE line' = << >>
      BY <3>2
    <3> QED
      BY <1>1, <3>1, <3>2
  <2>2. Size' = 0 /\ 0 \in Byte /\ Len(msg_buf') = 0 /\ msg_buf' \in Seq(Byte)
    BY <1>1, Bytes DEF Size
  <2>5. /\ next_char' \in ModeStates /\ pkt_next_char' \in ModeStates
        /\ next_char' \in {"CCMD", "CPKTDST"} /\ pkt_next_char' \in {"CCMD", "CPKTDST"}
        /\ next_char' # "CPKTDATA" /\ whole' \in BOOLEAN
    BY <1>1 DEF ModeStates
  <2>3. misread' \in 0 .. MaxMisread + 1
    BY <1>1, MisreadAssumption
  <2>4. misled' \in BOOLEAN
    BY <1>1, Zenon DEF LineInv, LineTypes
  <2>6. Len(msg_buf') = IF next_char' = "CPKTDATA" /\ Size' < SIZEOF_MESSAGE
                        THEN msg_len' ELSE 0
    BY <2>2, <2>5, Zenon
  <2>7. /\ msg_dst' \in Byte /\ read_num_chars' \in Byte /\ msg_len' \in Byte
        /\ Size' \in Byte
    BY <1>1, <2>2, Zenon
  <2>8. ObeyedType(obeyed)'
    BY <1>1, Zenon DEF ObeyedType
  <2> QED
    BY <2>1, <2>2, <2>3, <2>4, <2>5, <2>6, <2>7, <2>8, Zenon DEF LineTypes
<1>3. Full'
  BY <1>1 DEF LineInv, Full
<1>4. Reading'
  <2>1. CASE line' = << >>
    BY <1>1, <2>1 DEF Reading, Skipping, UpTo
  <2>2. CASE line' = line /\ Len(line) = 9
    <3>1. FullShape'
      BY <1>2, <1>3, FullShapes, PTL
    <3>2. At(0)' /\ serial' \in Cmds
      BY <1>1, <2>2, <3>1 DEF FullShape
    <3> QED
      BY <1>1, <3>2 DEF Reading, InStep
  <2>3. CASE line' = line /\ Len(line) # 9
    <3>1. CASE next_char = "CCMD" /\ Damaged
      <4>1. line # << >> /\ line[1] = START /\ Short(2)
        BY <3>1 DEF Damaged
      <4>2. Short(2)'
        BY <2>3, <4>1, Zenon DEF Short, UpTo
      <4> QED
        BY <1>1, <2>3, <4>1, <4>2 DEF Reading, Damaged
    <3>2. CASE ~(next_char = "CCMD" /\ Damaged)
      <4>1. UpTo(6, 1)
        BY <2>3, <3>2, RestIsSmall DEF LineInv
      <4> QED
        BY <1>1, <2>3, <4>1 DEF Reading, Skipping, UpTo
    <3> QED
      BY <3>1, <3>2
  <2> QED
    BY <1>1, <2>1, <2>2, <2>3
<1>5. Obeying' /\ Mistakes'
  BY <1>1 DEF LineInv, Obeying, Mistakes
<1> QED
  BY <1>2, <1>3, <1>4, <1>5 DEF LineInv

\* dampersteensy.go, main.cpp: a packet is written, for a reader that waits for one or
\* for one in the middle of something.
LEMMA WriteKeeps == ASSUME TypeOK, LineInv, Write PROVE LineInv'
<1> DEFINE cmd == Head(teensytty_wr)
<1>1. cmd \in Cmds
  <2>1. teensytty_wr \in Seq(Cmds) /\ teensytty_wr # << >>
    BY DEF Write, serialWriter, TypeOK
  <2> QED
    BY <2>1, EmptySeq, HeadTailProperties
<1>2. /\ line = << >> /\ Len(line) = 0 /\ serial' = cmd /\ line' = PacketOf(cmd)
      /\ UNCHANGED <<next_char, pkt_next_char, msg_dst, read_num_chars, msg_len, msg_buf>>
      /\ UNCHANGED <<obeyed, misled>> /\ whole' = (next_char = "CCMD")
      /\ misread' = IF next_char = "CCMD" THEN 0
                    ELSE IF misread > MaxMisread THEN misread ELSE misread + 1
  BY DEF Write, serialWriter, controller, parser
<1> HIDE DEF cmd
<1>3. line' \in Seq(Byte) /\ Len(line') = 9 /\ line' # << >> /\ line'[1] = START
  <2>1. line' \in Seq(Byte) /\ Len(line') = 9 /\ line'[1] = START
    BY <1>1, <1>2, PacketFacts
  <2>2. line' = << >> <=> Len(line') = 0
    BY <2>1, EmptyIff
  <2>3. 9 # 0
    OBVIOUS
  <2> QED
    BY <2>1, <2>2, <2>3, Zenon
<1>4. LineTypes'
  <2>1. misread \in 0 .. MaxMisread + 1
    BY DEF LineInv, LineTypes
  <2>2. misread' \in 0 .. MaxMisread + 1
    BY <1>2, <2>1, MisreadAssumption
  <2>3. Len(line') <= 9
    BY <1>3
  <2>4. whole' \in BOOLEAN
    BY <1>2
  <2> QED
    BY <1>2, <1>3, <2>2, <2>3, <2>4, Zenon DEF LineInv, LineTypes, ObeyedType, Size
<1>5. Full'
  <2>1. serial' \in Cmds /\ \A j \in 1 .. 9 : line'[j] = PacketOf(serial')[j]
    BY <1>1, <1>2, Zenon
  <2> QED
    BY <2>1, Zenon DEF Full
<1>6. FullShape'
  BY <1>4, <1>5, FullShapes, PTL
<1>7. CASE next_char = "CCMD"
  <2>1. At(0)' /\ serial' \in Cmds
    BY <1>2, <1>3, <1>6, <1>7, Zenon DEF FullShape
  <2>2. misread' = 0 /\ 0 \in 0 .. 8
    BY <1>2, <1>7
  <2>3. InStep'
    BY <2>1, <2>2, Zenon DEF InStep
  <2>4. Reading' /\ Obeying'
    BY <2>3, Zenon DEF Reading, Obeying
  <2>5. Mistakes'
    BY <1>2, <2>2 DEF LineInv, Mistakes
  <2> QED
    BY <1>4, <1>5, <2>4, <2>5 DEF LineInv
<1>8. CASE next_char # "CCMD"
  <2>1. ~whole' /\ misread \in Nat /\ MaxMisread \in Nat /\ UpTo(6, 2)'
        /\ misread' = IF misread > MaxMisread THEN misread ELSE misread + 1
    <3>1. misread \in Nat
      BY MisreadAssumption DEF LineInv, LineTypes
    <3>2. UpTo(6, 2)'
      BY <1>3, <1>6, Zenon DEF FullShape
    <3> QED
      BY <1>2, <1>8, <3>1, <3>2, MisreadAssumption, Zenon
  <2> SUFFICES misread' > 0 /\ Astray' /\ (MaxMisread >= 7 => misread' <= 7)
    BY <1>2, <1>4, <1>5, <2>1 DEF LineInv, Reading, Obeying, Mistakes
  <2>2. ~InStep /\ ~Skipping
    <3>1. \A k \in 0 .. 8 : 9 - k # 0
      OBVIOUS
    <3> QED
      BY <1>2, <1>8, <3>1, Zenon DEF InStep, At, Skipping
  <2>3. CASE misread = 0 /\ Damaged
    <3>1. misread' = 1 /\ misread' > 0 /\ (MaxMisread >= 7 => misread' <= 7)
      BY <2>1, <2>3
    <3>2. CASE next_char = "CPKTDST" \/ next_char = "CPKTLEN"
      BY <1>2, <1>3, <3>1, <3>2 DEF Astray
    <3>3. ASSUME next_char = "CPKTDATA", AstrayData' PROVE Astray'
      BY <1>2, <1>3, <2>1, <3>3 DEF Astray
    <3>4. CASE next_char = "CPKTDATA" /\ Pointless
      <4>1. Size' <= 2 /\ Size' = Size
        BY <1>2, <3>4 DEF Pointless, Size
      <4>2. First' \in {0, 1, 2, START}
        BY <1>2, <1>3, <3>4 DEF Pointless, First, Written
      <4>3. Len(line') >= 7 + read_num_chars'
        <5>1. read_num_chars \in Nat /\ msg_len \in Nat
          BY Bytes DEF LineInv, LineTypes
        <5>2. \A r, m \in Nat : m + r <= 2 => 9 >= 7 + r
          OBVIOUS
        <5> QED
          BY <1>2, <1>3, <4>1, <5>1, <5>2, Zenon DEF Size
      <4> QED
        BY <3>1, <3>3, <3>4, <4>1, <4>2, <4>3 DEF AstrayData, Pointless
    <3>5. CASE next_char = "CPKTDATA" /\ Command /\ Len(line) = read_num_chars - 1
      <4>1. read_num_chars = 1
        <5>1. read_num_chars \in Nat
          BY Bytes DEF LineInv, LineTypes
        <5> QED
          BY <1>2, <3>5, <5>1
      <4>2. Command'
        <5>1. msg_dst' = 1 /\ Size' = 6 /\ Written' /\ msg_len # 0
          BY <1>2, <3>5 DEF Command, Written, Size
        <5>2. First' = 0
          BY <1>2, <3>5, <5>1 DEF Command, First
        <5> QED
          BY <5>1, <5>2 DEF Command
      <4> QED
        BY <1>2, <1>3, <3>1, <3>3, <3>5, <4>1, <4>2 DEF AstrayData
    <3> QED
      BY <1>8, <2>3, <3>1, <3>2, <3>4, <3>5, Zenon DEF Damaged
  <2>4. CASE misread > 0 /\ Astray
    <3>1. ~(Len(line) = 9) /\ ~(Len(line) = 8) /\ ~(Len(line) = 7)
      BY <1>2
    <3>2. read_num_chars \in Nat
      BY Bytes DEF LineInv, LineTypes
    <3>3. ~(Len(line) >= 7 + read_num_chars)
      BY <1>2, <3>2
    <3>4. /\ next_char = "CPKTDATA" /\ Size = START
          /\ MaxMisread >= 7 => read_num_chars <= 63 - 9 * misread + 0
      BY <1>2, <2>4, <3>1, <3>3, Zenon DEF Astray, AstrayData
    <3>5. read_num_chars > 0
      BY <3>4 DEF LineInv, LineTypes
    <3>6. misread' > 0
      BY <2>1, <2>4
    <3>7. MaxMisread >= 7 =>
            misread' <= 7 /\ read_num_chars' <= 63 - 9 * misread' + Len(line')
      <4>1. \A r, m \in Nat : r > 0 /\ r <= 63 - 9 * m + 0 =>
              m <= 6 /\ m + 1 <= 7 /\ r <= 63 - 9 * (m + 1) + 9
        OBVIOUS
      <4>2. MaxMisread >= 7 /\ misread <= 6 => misread' = misread + 1
        BY <2>1
      <4> QED
        BY <1>2, <1>3, <2>1, <3>2, <3>4, <3>5, <4>1, <4>2, Zenon
    <3>8. Size' = START /\ next_char' = "CPKTDATA"
      BY <1>2, <3>4 DEF Size
    <3> QED
      BY <1>3, <2>1, <3>6, <3>7, <3>8 DEF Astray, AstrayData
  <2> QED
    BY <2>2, <2>3, <2>4, Zenon DEF LineInv, Reading
<1> QED
  BY <1>7, <1>8

\* serial_tty.go:40-45: a packet that is not written at all leaves the controller as it
\* was.
LEMMA WriteFailsKeeps == ASSUME TypeOK, LineInv, WriteFails PROVE LineInv'
<1>1. /\ line = << >> /\ whole /\ whole' = FALSE /\ UNCHANGED <<line, controller, misread>>
      /\ teensytty_wr # << >> /\ serial' = Head(teensytty_wr)
  BY DEF WriteFails, serialWriter
<1>2. UNCHANGED <<next_char, pkt_next_char, msg_dst, read_num_chars, msg_len, msg_buf>>
      /\ UNCHANGED <<obeyed, misled>>
  BY <1>1 DEF controller, parser
<1>3. Skipping
  <2>1. ~InStep
    <3>1. \A k \in 0 .. 8 : 9 - k # 0
      OBVIOUS
    <3>2. Len(line) = 0
      BY <1>1
    <3> QED
      BY <3>1, <3>2, Zenon DEF InStep, At
  <2> QED
    BY <1>1, <2>1 DEF LineInv, Obeying
<1>4. LineTypes'
  BY <1>1, <1>2, Zenon DEF LineInv, LineTypes, ObeyedType, Size
<1>5. Full'
  <2>1. line' = << >> /\ Len(line') # 9
    BY <1>1
  <2> QED
    BY <2>1, Zenon DEF Full
<1>6. Skipping'
  BY <1>1, <1>2, <1>3, Zenon DEF Skipping, UpTo
<1> QED
  BY <1>1, <1>2, <1>4, <1>5, <1>6, Zenon DEF LineInv, Reading, Obeying, Mistakes

\* main.cpp:224-320: the controller reads a byte.
LEMMA ReadKeeps ==
  ASSUME LineInv, handle_serialdata
  PROVE  LineInv' /\ (obeyed' \in {obeyed, serial} \/ obeyed'.fan = 0)
<1>1. LineTypes /\ Full /\ Reading /\ Obeying /\ Mistakes
  BY DEF LineInv
<1>2. UNCHANGED <<serial, whole, misread>>
  BY <1>1, TakesByte DEF vars
<1>3. LineTypes'
  BY <1>1, ReadKeepsTypes
<1>4. Full'
  <2>1. line # << >> /\ Len(line') # 9
    BY <1>1, TakesByte
  <2> QED
    BY <1>1, <1>2, <2>1, Zenon DEF Full
<1> SUFFICES /\ Reading' /\ Obeying' /\ UNCHANGED misled
             /\ obeyed' \in {obeyed, serial} \/ obeyed'.fan = 0
  BY <1>1, <1>2, <1>3, <1>4 DEF LineInv, Mistakes
<1>5. CASE InStep
  BY <1>1, <1>2, <1>5, InStepReads, Zenon DEF Reading, Obeying
<1>6. ASSUME ~InStep PROVE ~whole
  <2>1. line # << >>
    BY <1>1, TakesByte
  <2> QED
    BY <1>1, <1>6, <2>1 DEF Obeying
<1>7. CASE ~InStep /\ Skipping
  BY <1>1, <1>2, <1>6, <1>7, SkippingReads DEF Reading, Obeying
<1>8. CASE ~whole /\ misread = 0 /\ Damaged
  BY <1>1, <1>2, <1>8, DamagedReads DEF Reading, Obeying
<1>9. CASE ~whole /\ misread > 0 /\ Astray
  BY <1>1, <1>2, <1>9, AstrayReads DEF Reading, Obeying
<1> QED
  BY <1>1, <1>5, <1>7, <1>8, <1>9 DEF Reading

-----------------------------------------------------------------------------
LEMMA LineInitInv == LineInit => LineInv
<1> SUFFICES ASSUME LineInit PROVE LineInv
  OBVIOUS
<1>1. /\ line = << >> /\ Len(line) = 0 /\ next_char = "CCMD" /\ pkt_next_char = "CPKTDST"
      /\ msg_dst = 0 /\ read_num_chars = 0 /\ msg_len = 0 /\ msg_buf = << >>
      /\ obeyed = NoState /\ whole = TRUE /\ misread = 0 /\ misled = FALSE
      /\ serial = NoState
  BY DEF LineInit, ParserReset, Init
<1>2. LineTypes
  <2>1. Size = 0 /\ 0 \in Byte /\ misread \in 0 .. MaxMisread + 1
    BY <1>1, Bytes, MisreadAssumption DEF Size
  <2>2. line \in Seq(Byte) /\ Len(line) <= 9 /\ msg_buf \in Seq(Byte) /\ Len(msg_buf) = 0
    BY <1>1
  <2>3. /\ next_char \in ModeStates /\ pkt_next_char \in ModeStates
        /\ next_char \in {"CCMD", "CPKTDST"} /\ pkt_next_char \in {"CCMD", "CPKTDST"}
        /\ next_char # "CPKTDATA" /\ whole \in BOOLEAN /\ misled \in BOOLEAN
    BY <1>1 DEF ModeStates
  <2>4. Len(msg_buf) = IF next_char = "CPKTDATA" /\ Size < SIZEOF_MESSAGE THEN msg_len ELSE 0
    BY <2>2, <2>3, Zenon
  <2>5. msg_dst \in Byte /\ read_num_chars \in Byte /\ msg_len \in Byte /\ Size \in Byte
    BY <1>1, <2>1, Zenon
  <2> QED
    BY <1>1, <2>1, <2>2, <2>3, <2>4, <2>5, Zenon DEF LineTypes, ObeyedType
<1>3. Skipping /\ Full
  BY <1>1 DEF Skipping, UpTo, Full
<1> QED
  BY <1>1, <1>2, <1>3 DEF LineInv, Reading, Obeying, Mistakes

\* Nothing the daemon does apart from writing, and no stuttering, changes the line.
LEMMA OthersKeep == ASSUME LineInv, Daemon \/ UNCHANGED lineVars PROVE LineInv'
<1>1. UNCHANGED <<line, controller, whole, misread, serial>>
  BY Zenon
     DEF Daemon, Publish, goChangeDampers, DelayOver, SendCmd, Tick, lineVars, vars
<1>2. UNCHANGED <<next_char, pkt_next_char, msg_dst, read_num_chars, msg_len, msg_buf>>
      /\ UNCHANGED <<obeyed, misled>>
  BY <1>1 DEF controller, parser
<1>3. LineTypes'
  BY <1>1, <1>2, Zenon DEF LineInv, LineTypes, ObeyedType, Size
<1>4. Full' /\ (InStep => InStep') /\ (Skipping => Skipping')
  BY <1>1, <1>2, Zenon DEF LineInv, Full, InStep, At, Skipping, UpTo
<1>5. Damaged => Damaged'
  BY <1>1, <1>2, Zenon
     DEF Damaged, Short, DamagedLen, UpTo, Pointless, Command, Written, First, Size
<1>6. Astray => Astray'
  BY <1>1, <1>2, Zenon
     DEF Astray, AstrayData, UpTo, Pointless, Command, Written, First, Size
<1> QED
  BY <1>1, <1>2, <1>3, <1>4, <1>5, <1>6, Zenon DEF LineInv, Reading, Obeying, Mistakes

LEMMA LineStepInv == TypeOK /\ LineInv /\ [LineNext]_lineVars => LineInv'
<1> SUFFICES ASSUME TypeOK, LineInv, [LineNext]_lineVars PROVE LineInv'
  OBVIOUS
<1>1. CASE Write
  BY <1>1, WriteKeeps
<1>2. CASE WriteFails
  BY <1>2, WriteFailsKeeps
<1>3. CASE handle_serialdata
  BY <1>3, ReadKeeps
<1>4. ASSUME NEW k \in 1 .. Len(line), LoseByte(k) PROVE LineInv'
  <2>1. InStep
    <3>1. whole
      BY <1>4 DEF LoseByte
    <3>2. line # << >>
      BY <1>4
    <3> QED
      BY <3>1, <3>2 DEF LineInv, Obeying
  <2>2. /\ LineTypes' /\ Full' /\ (Damaged' \/ Skipping') /\ misread' = 0 /\ ~whole'
    BY <1>4, <2>1, LoseKeeps DEF LineInv
  <2>3. Mistakes'
    BY <1>4, <2>2 DEF LoseByte, controller, LineInv, Mistakes
  <2> QED
    BY <2>2, <2>3 DEF LineInv, Reading, Obeying
<1>5. CASE Restart
  BY <1>5, RestartKeeps
<1>6. CASE Daemon \/ UNCHANGED lineVars
  BY <1>6, OthersKeep
<1> QED
  BY <1>1, <1>2, <1>3, <1>4, <1>5, <1>6, Zenon DEF LineNext, Fault

THEOREM LineInvariant == LineSpec => []LineInv
<1>1. LineSpec => []TypeOK
  BY LineImplementsTeensy, TypeCorrect, PTL
<1> QED
  BY <1>1, LineInitInv, LineStepInv, PTL DEF LineSpec

\* main.cpp:224-258: no byte on the line brings the reader out of its types.
THEOREM LineTypeCorrect == LineSpec => []LineTypeOK
<1>1. TypeOK /\ LineTypes => LineTypeOK
  <2> SUFFICES ASSUME TypeOK, LineTypes PROVE LineTypeOK
    OBVIOUS
  <2>1. Len(msg_buf) < SIZEOF_MESSAGE
    <3>1. 0 < SIZEOF_MESSAGE /\ \A m \in Nat, r \in Nat :
            m + r < SIZEOF_MESSAGE => m < SIZEOF_MESSAGE
      BY DEF SIZEOF_MESSAGE
    <3>2. msg_len \in Nat /\ read_num_chars \in Nat
      BY Bytes DEF LineTypes
    <3> QED
      BY <3>1, <3>2, Zenon DEF LineTypes, Size
  <2>2. pkt_next_char = "CPKTDATA" => read_num_chars > 0
    BY DEF LineTypes
  <2> QED
    BY <2>1, <2>2, Zenon DEF LineTypes, LineTypeOK, ObeyedType
<1> QED
  BY <1>1, LineInvariant, LineImplementsTeensy, TypeCorrect, PTL DEF LineInv

\* main.cpp:224-320: what the controller was told undisturbed, it obeys.
THEOREM ObeysUndisturbed == LineSpec => []ControllerObeys
<1>1. LineInv /\ ControllerIsUpToDate => ControllerObeys
  <2> SUFFICES ASSUME LineInv, ControllerIsUpToDate, Idle, line = << >>, whole,
                      current # NoState
               PROVE  obeyed = mkDamperCmdMsg(current)
    BY DEF ControllerObeys
  <2>1. ~InStep
    <3>1. \A k \in 0 .. 8 : 9 - k # 0
      OBVIOUS
    <3>2. Len(line) = 0
      OBVIOUS
    <3> QED
      BY <3>1, <3>2, Zenon DEF InStep, At
  <2> QED
    BY <2>1 DEF LineInv, Obeying, ControllerIsUpToDate
<1> QED
  BY <1>1, LineInvariant, LineLastStateArrives, PTL

\* main.cpp:236-258: seven packets are enough for the reader to be in step again.
THEOREM ReaderResyncs == ASSUME MaxMisread >= 7 PROVE LineSpec => []ReaderRecovers
<1>1. LineInv => ReaderRecovers
  <2> SUFFICES ASSUME LineInv PROVE ReaderRecovers
    OBVIOUS
  <2>1. misread <= 7 /\ misread \in Nat
    BY MisreadAssumption DEF LineInv, Mistakes, LineTypes
  <2> QED
    BY <2>1, MisreadAssumption DEF ReaderRecovers
<1> QED
  BY <1>1, LineInvariant, PTL

\* main.cpp:224-258, comm.cpp:284-309: a lost byte makes no message nobody sent, and no
\* command that asks for the main fan.
THEOREM DamageStaysHarmless == LineSpec => DamageIsHarmless
<1>1. LineInv /\ LineInv' /\ [LineNext]_lineVars =>
        [~misled' /\ (obeyed' \notin {obeyed, NoState, serial} => obeyed'.fan = 0)]_lineVars
  <2> SUFFICES ASSUME LineInv, LineInv', LineNext
               PROVE  ~misled' /\ (obeyed' \in {obeyed, NoState, serial} \/ obeyed'.fan = 0)
    OBVIOUS
  <2>1. ~misled'
    BY DEF LineInv, Mistakes
  <2>2. CASE handle_serialdata
    BY <2>1, <2>2, ReadKeeps
  <2>3. CASE Daemon \/ Write \/ WriteFails \/ \E k \in 1 .. Len(line) : LoseByte(k)
    <3>1. obeyed' = obeyed
      BY <2>3, Zenon DEF Daemon, Write, WriteFails, LoseByte, controller
    <3> QED
      BY <2>1, <3>1
  <2>4. CASE Restart
    BY <2>1, <2>4 DEF Restart
  <2> QED
    BY <2>2, <2>3, <2>4, Zenon DEF LineNext, Fault
<1> QED
  BY <1>1, LineInvariant, PTL DEF LineSpec, DamageIsHarmless
=============================================================================
