------------------------------ MODULE SerialLine ------------------------------
(***************************************************************************)
(* The serial line between the daemon and controller 1, byte by byte:      *)
(* the packets the daemon writes (dampersteensy.go, serial_tty.go) and the *)
(* two nested state machines that read them (main.cpp handle_serialdata    *)
(* and handle_serial2pjon), up to the command the controller obeys.        *)
(*                                                                         *)
(* Faults: a byte is lost on the line, a write fails, the controller       *)
(* restarts.  The next byte is lost or write fails only after a packet     *)
(* that met a ready controller has gone through.                           *)
(*                                                                         *)
(* Bytes a packet cannot hold (the letters and digits of the direct        *)
(* commands) are left out of handle_serialdata.                            *)
(*                                                                         *)
(* A definition named Something_Variant is a faulty version of Something,  *)
(* used only to show that a property would notice the fault.               *)
(***************************************************************************)
EXTENDS DamperTeensy

CONSTANT MaxMisread  \* packets a disturbed controller may fail to take for what they are

ASSUME MisreadAssumption == MaxMisread \in Nat

ASSUME CmdAssumption ==
    \A state \in States : state.damper \in [1 .. 3 -> 0 .. 2] /\ state.fan \in 0 .. 1

START == 62          \* '>'
SIZEOF_MESSAGE == 10 \* sizeof(pjon_message_t), packed as the AVR's compiler lays it out
MSG_DAMPERCMD == 0
ModeStates == {"CCMD", "CPKTDST", "CPKTLEN", "CPKTDATA"}

VARIABLES
    line,            \* bytes written and not read yet
    next_char,       \* where handle_serialdata is
    pkt_next_char,   \* where handle_serial2pjon is
    msg_dst, read_num_chars,
    msg_len,         \* bytes of the message read so far
    msg_buf,         \* these bytes, of a message short enough to be accepted
    obeyed,          \* the last damper command carried out since the start
    \* what an observer remembers
    whole,           \* nothing has disturbed the packet written last
    misread,         \* packets written since the reader lost its step
    misled           \* a message nobody sent got through, other than a damper
                     \* command for controller 1

parser == <<next_char, pkt_next_char, msg_dst, read_num_chars, msg_len, msg_buf>>
controller == <<parser, obeyed, misled>>
lineVars == <<vars, line, controller, whole, misread>>

Byte == 0 .. 255

LineTypeOK ==
    /\ TypeOK
    /\ line \in Seq(Byte) /\ Len(line) <= 9
    /\ next_char \in ModeStates /\ pkt_next_char \in ModeStates
    /\ msg_dst \in Byte /\ read_num_chars \in Byte /\ msg_len \in Byte
    /\ pkt_next_char = "CPKTDATA" => read_num_chars > 0
    /\ msg_buf \in Seq(Byte) /\ Len(msg_buf) < SIZEOF_MESSAGE
    /\ obeyed = NoState \/ obeyed \in [damper : [1 .. 3 -> Byte], fan : 0 .. 1]
    /\ whole \in BOOLEAN /\ misled \in BOOLEAN
    /\ misread \in 0 .. MaxMisread + 1

ParserReset ==
    /\ next_char = "CCMD" /\ pkt_next_char = "CPKTDST"
    /\ msg_dst = 0 /\ read_num_chars = 0 /\ msg_len = 0 /\ msg_buf = << >>

LineInit ==
    /\ Init
    /\ line = << >> /\ ParserReset /\ obeyed = NoState
    /\ whole = TRUE /\ misread = 0 /\ misled = FALSE

-----------------------------------------------------------------------------
(* The daemon's end *)

\* The bytes of mkDamperCmdMsg: to id 1, six bytes of message.
PacketOf(cmd) == << START, 1, 6, MSG_DAMPERCMD, 0 >> \o cmd.damper \o << cmd.fan >>

\* serialWriter's Write.  One packet is on the line at a time: the reader takes
\* bytes one by one and does not see when they were written.
Write ==
    /\ serialWriter /\ line = << >>
    /\ line' = PacketOf(Head(teensytty_wr))
    /\ whole' = (next_char = "CCMD")
    /\ misread' = IF next_char = "CCMD" THEN 0
                  ELSE IF misread > MaxMisread THEN misread ELSE misread + 1
    /\ UNCHANGED controller

\* Write fails, which nobody looks at.
WriteFails ==
    /\ serialWriter /\ line = << >> /\ whole
    /\ whole' = FALSE
    /\ UNCHANGED <<line, controller, misread>>

-----------------------------------------------------------------------------
(* The controller's end *)

pjon_type_to_msg_length(type) ==
    CASE type = MSG_DAMPERCMD -> 6
      [] type = 1 -> 10
      [] type = 2 -> 3
      [] type = 3 -> 5
      [] type \in {6, 7} -> 2
      [] OTHER -> 1

\* Messages that change something in the controllers they reach.
Acts(length, msg) ==
    /\ length < SIZEOF_MESSAGE /\ length = pjon_type_to_msg_length(msg[1])
    /\ msg[1] \in {MSG_DAMPERCMD} \cup 3 .. 7

\* The bit field of the main fan in the last byte.
FanOf_WholeByte(byte) == IF byte = 0 THEN 0 ELSE 1
FanOf(byte) == byte % 2

\* pjon_inject_msg and the handling of the message here and elsewhere: what is too
\* long is not taken, what has not the length of its type not handled.
pjon_inject_msg(dst, length, msg) ==
    IF ~Acts(length, msg) THEN UNCHANGED <<obeyed, misled>>
    ELSE IF dst \in {0, 1} /\ msg[1] = MSG_DAMPERCMD
    THEN /\ obeyed' = [damper |-> SubSeq(msg, 3, 5), fan |-> FanOf(msg[6])]
         /\ UNCHANGED misled
    ELSE misled' = TRUE /\ UNCHANGED obeyed

ReadDst(c) ==
    /\ msg_dst' = c
    /\ pkt_next_char' = "CPKTLEN"
    /\ UNCHANGED <<read_num_chars, msg_len, msg_buf, obeyed, misled>>

\* A message without bytes is none: the next byte is a destination again.
EmptyMessage_Never(c) == FALSE
EmptyMessage(c) == c = 0

ReadLen_KeepsLength(c) ==
    /\ IF EmptyMessage(c)
       THEN pkt_next_char' = "CPKTDST" /\ UNCHANGED <<read_num_chars, msg_buf>>
       ELSE pkt_next_char' = "CPKTDATA" /\ read_num_chars' = c /\ msg_buf' = << >>
    /\ UNCHANGED <<msg_len, msg_dst, obeyed, misled>>
ReadLen(c) ==
    /\ IF EmptyMessage(c)
       THEN pkt_next_char' = "CPKTDST" /\ UNCHANGED <<read_num_chars, msg_len, msg_buf>>
       ELSE /\ pkt_next_char' = "CPKTDATA"
            /\ read_num_chars' = c /\ msg_len' = 0 /\ msg_buf' = << >>
    /\ UNCHANGED <<msg_dst, obeyed, misled>>

ReadData(c) ==
    LET length == msg_len + 1
        msg == IF msg_len + read_num_chars < SIZEOF_MESSAGE THEN Append(msg_buf, c)
               ELSE msg_buf
    IN  /\ msg_len' = length
        /\ read_num_chars' = (read_num_chars - 1) % 256
        /\ IF read_num_chars' = 0
           THEN /\ pjon_inject_msg(msg_dst, length, msg)
                /\ pkt_next_char' = "CCMD" /\ msg_buf' = << >>
           ELSE /\ msg_buf' = msg
                /\ UNCHANGED <<pkt_next_char, obeyed, misled>>
        /\ UNCHANGED msg_dst

handle_serial2pjon(c) ==
    \/ pkt_next_char \in {"CCMD", "CPKTDST"} /\ ReadDst(c)
    \/ pkt_next_char = "CPKTLEN" /\ ReadLen(c)
    \/ pkt_next_char = "CPKTDATA" /\ ReadData(c)

\* After a message the reader waits for the next packet's start.
AfterByte_StayInPacket == IF pkt_next_char' = "CCMD" THEN "CPKTDST" ELSE pkt_next_char'
AfterByte == pkt_next_char'

handle_serialdata ==
    /\ line # << >>
    /\ line' = Tail(line)
    /\ IF next_char = "CCMD"
       THEN /\ next_char' = IF Head(line) = START THEN "CPKTDST" ELSE "CCMD"
            /\ UNCHANGED <<pkt_next_char, msg_dst, read_num_chars, msg_len, msg_buf,
                           obeyed, misled>>
       ELSE /\ handle_serial2pjon(Head(line))
            /\ next_char' = AfterByte
    /\ UNCHANGED <<vars, whole, misread>>

-----------------------------------------------------------------------------
(* Faults *)

LoseByte(k) ==
    /\ whole
    /\ line' = SubSeq(line, 1, k - 1) \o SubSeq(line, k + 1, Len(line))
    /\ whole' = FALSE
    /\ UNCHANGED <<vars, controller, misread>>

\* The controller starts again: it has forgotten the command and where it was, and
\* what is on the line may be lost.
Restart ==
    /\ line' \in {line, << >>}
    /\ next_char' = "CCMD" /\ pkt_next_char' = "CPKTDST"
    /\ msg_dst' = 0 /\ read_num_chars' = 0 /\ msg_len' = 0 /\ msg_buf' = << >>
    /\ obeyed' = NoState
    /\ whole' = FALSE /\ misread' = 0
    /\ UNCHANGED <<vars, misled>>

Fault ==
    \/ WriteFails
    \/ \E k \in 1 .. Len(line) : LoseByte(k)
    \/ Restart

-----------------------------------------------------------------------------
\* goChangeDampers and its surroundings leave the line alone.
Daemon ==
    /\ \/ \E state \in States : Publish(state)
       \/ goChangeDampers \/ DelayOver \/ SendCmd \/ Tick
    /\ UNCHANGED <<line, controller, whole, misread>>

LineNext == Daemon \/ Write \/ handle_serialdata \/ Fault

LineSpec == LineInit /\ [][LineNext]_lineVars

\* goChangeDampers, the writer and the controller's main loop run on, and time
\* passes.
LineFairSpec ==
    /\ LineSpec
    /\ WF_lineVars(Daemon /\ (goChangeDampers \/ DelayOver \/ SendCmd))
    /\ WF_lineVars(Daemon /\ Tick)
    /\ WF_lineVars(Write) /\ WF_lineVars(handle_serialdata)

-----------------------------------------------------------------------------
(* Safety *)

\* dampersteensy.go:89-100, main.cpp:224-320: when nothing is on its way and the packet
\* written last met no fault, the controller obeys the state published last.
ControllerObeys ==
    Idle /\ line = << >> /\ whole /\ current # NoState
        => obeyed = mkDamperCmdMsg(current)

\* main.cpp:236-258: after a lost byte the reader is in step again after at most
\* MaxMisread more packets.
ReaderRecovers == misread <= MaxMisread

\* main.cpp:224-258, comm.cpp:284-309: one lost byte may make another damper command
\* out of a packet, never one that asks for the main fan, and nothing but damper commands.
DamageIsHarmless ==
    [][~misled' /\ (obeyed' \notin {obeyed, NoState, serial} => obeyed'.fan = 0)]_lineVars
=============================================================================
