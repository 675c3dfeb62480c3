--------------------------- MODULE Chaincast_proofs ---------------------------
(***************************************************************************)
(* What chaincasting guarantees for every ladder of controllers, every     *)
(* distribution of the dampers, every set of commands and every fault of   *)
(* the bus the model knows; and what it adds where the bus has no faults.  *)
(***************************************************************************)
EXTENDS Chaincast, SequenceTheorems, FiniteSetTheorems, NaturalsInduction,
        WellFoundedInduction, TLAPS

-----------------------------------------------------------------------------
(* The buffers: what they hold comes from what was put in. *)

\* The buffer without its oldest message is a sequence of messages.
LEMMA TailIn ==
    ASSUME NEW S, NEW s \in Seq(S), s # << >>
    PROVE  /\ Tail(s) \in Seq(S)
           /\ Len(Tail(s)) = Len(s) - 1
           /\ Head(s) \in S
  OBVIOUS

\* A message more leaves a sequence of messages, one longer.
LEMMA AppendIn ==
    ASSUME NEW S, NEW s \in Seq(S), NEW m \in S
    PROVE  Append(s, m) \in Seq(S) /\ Len(Append(s, m)) = Len(s) + 1
  OBVIOUS

\* A bus queue without its k-th packet is a sequence of messages taken from
\* the old one.
LEMMA WithoutAtIn ==
    ASSUME NEW S, NEW s \in Seq(S), NEW k \in 1 .. Len(s)
    PROVE  WithoutAt(s, k) \in Seq(S)
<1>1. Len(s) - 1 \in Nat
  OBVIOUS
<1>2. \A j \in 1 .. Len(s) - 1 : (IF j < k THEN s[j] ELSE s[j + 1]) \in S
  OBVIOUS
<1>3. WithoutAt(s, k) \in [1 .. Len(s) - 1 -> S]
  BY <1>2 DEF WithoutAt
<1> QED
  BY <1>1, <1>3

\* The receive buffer holds only its old messages and the new one, and never
\* more than its slots.
LEMMA BufferedIn ==
    ASSUME NEW S, NEW s \in Seq(S), NEW m \in S, Len(s) <= PJON_MSGBUF_LEN
    PROVE  /\ Buffered(s, m) \in Seq(S)
           /\ Len(Buffered(s, m)) <= PJON_MSGBUF_LEN
<1>1. PJON_MSGBUF_LEN \in Nat \ {0}
  BY ChainAssumption
<1>2. CASE Len(s) < PJON_MSGBUF_LEN
  BY <1>1, <1>2, AppendIn DEF Buffered
<1>3. CASE ~(Len(s) < PJON_MSGBUF_LEN)
  <2>1. Len(s) = PJON_MSGBUF_LEN /\ s # << >>
    BY <1>1, <1>3
  <2>2. Tail(s) \in Seq(S) /\ Len(Tail(s)) = PJON_MSGBUF_LEN - 1
    BY <2>1, TailIn
  <2>3. /\ Append(Tail(s), m) \in Seq(S)
        /\ Len(Append(Tail(s), m)) = PJON_MSGBUF_LEN
    BY <1>1, <2>2, AppendIn
  <2> QED
    BY <1>1, <1>3, <2>3 DEF Buffered
<1> QED
  BY <1>2, <1>3

\* Sending puts nothing on the bus but the message sent.
LEMMA SendIn ==
    ASSUME NEW S, net \in [Nodes -> Seq(S)], NEW dests, NEW m,
           Nodes \cap dests # {} => m \in S,
           Send(dests, m)
    PROVE  net' \in [Nodes -> Seq(S)]
<1>1. \A n \in Nodes : (IF n \in dests /\ Len(net[n]) < MaxPackets
                        THEN Append(net[n], m) ELSE net[n]) \in Seq(S)
  BY AppendIn
<1> QED
  BY <1>1 DEF Send

-----------------------------------------------------------------------------
(* Every action keeps messages inside a set S that contains what the action  *)
(* makes: instantiated with Messages for the types, with the messages whose  *)
(* reach is true for the invariant.                                          *)

Fresh(S) ==
    \A id \in Nodes \cup {BROADCAST}, c \in Cmds :
        [id |-> id, cmd |-> c, reach |-> {}] \in S

Buffers(S) ==
    /\ net \in [Nodes -> Seq(S)]
    /\ msgbuf \in [Nodes -> Seq(S)]
    /\ \A n \in Nodes : Len(msgbuf[n]) <= PJON_MSGBUF_LEN

\* A console injects messages with an empty reach field only.
LEMMA InjectIn ==
    ASSUME NEW S, Buffers(S), Fresh(S),
           NEW n \in Injectors, NEW c \in Cmds, NEW dst \in Destinations[c],
           Inject(n, dst, c)
    PROVE  Buffers(S)'
<1>1. n \in Nodes /\ dst \in Nodes \cup {BROADCAST}
  BY ChainAssumption
<1>2. [id |-> n, cmd |-> c, reach |-> {}] \in S
      /\ [id |-> dst, cmd |-> c, reach |-> {}] \in S
  BY <1>1 DEF Fresh
<1>3. net' \in [Nodes -> Seq(S)]
  BY <1>2, SendIn DEF Inject, Buffers
<1>4. /\ Buffered(msgbuf[n], [id |-> n, cmd |-> c, reach |-> {}]) \in Seq(S)
      /\ Len(Buffered(msgbuf[n], [id |-> n, cmd |-> c, reach |-> {}]))
            <= PJON_MSGBUF_LEN
  BY <1>1, <1>2, BufferedIn DEF Buffers
<1> QED
  BY <1>1, <1>3, <1>4 DEF Inject, Buffers

\* Receiving moves a packet from the bus into the buffer, perhaps copying it.
LEMMA ReceiveIn ==
    ASSUME NEW S, Buffers(S), NEW n \in Nodes, NEW k \in 1 .. Len(net[n]),
           NEW again \in BOOLEAN, Receive(n, k, again)
    PROVE  Buffers(S)'
<1>1. net[n] \in Seq(S) /\ net[n][k] \in S
  BY DEF Buffers
<1>2. /\ Buffered(msgbuf[n], net[n][k]) \in Seq(S)
      /\ Len(Buffered(msgbuf[n], net[n][k])) <= PJON_MSGBUF_LEN
  BY <1>1, BufferedIn DEF Buffers
<1>3. WithoutAt(net[n], k) \in Seq(S)
  BY <1>1, WithoutAtIn
<1> QED
  BY <1>2, <1>3 DEF Receive, Buffers

\* A loss leaves only packets that were there.
LEMMA LoseIn ==
    ASSUME NEW S, Buffers(S), NEW n \in Nodes, NEW k \in 1 .. Len(net[n]),
           Lose(n, k)
    PROVE  Buffers(S)'
<1>1. WithoutAt(net[n], k) \in Seq(S)
  BY WithoutAtIn DEF Buffers
<1> QED
  BY <1>1 DEF Lose, Buffers, node

\* A reboot leaves the bus and the other buffers alone.
LEMMA RebootIn ==
    ASSUME NEW S, Buffers(S), NEW n \in Nodes, Reboot(n)
    PROVE  Buffers(S)'
<1>1. << >> \in Seq(S) /\ Len(<< >>) <= PJON_MSGBUF_LEN
  BY ChainAssumption
<1> QED
  BY <1>1 DEF Reboot, Buffers

\* What a node forwards: its message with the node's own dampers added.
Forwarded(n) ==
    LET msg == Head(msgbuf[n]) reach == NewReach(n, msg)
    IN  [id |-> IF DidReachAll(reach) THEN n - 1 ELSE n + 1,
         cmd |-> msg.cmd, reach |-> reach]

\* Handling takes the oldest message off and sends its forwarded form.
LEMMA HandleIn ==
    ASSUME NEW S, Buffers(S), NEW n \in Nodes,
           Forwarded(n).id \in Nodes => Forwarded(n) \in S,
           pjon_chaincast_recv_handler(n)
    PROVE  Buffers(S)'
<1>1. Send(NextIds(n, Head(msgbuf[n])), Forwarded(n)) /\ msgbuf[n] # << >>
  BY DEF pjon_chaincast_recv_handler, Forwarded
<1>2. \A d \in NextIds(n, Head(msgbuf[n])) : d = Forwarded(n).id
  BY DEF NextIds, Forwarded
<1>3. net' \in [Nodes -> Seq(S)]
  BY <1>1, <1>2, SendIn DEF Buffers
<1>4. Tail(msgbuf[n]) \in Seq(S) /\ Len(Tail(msgbuf[n])) <= PJON_MSGBUF_LEN
  BY <1>1, TailIn, ChainAssumption DEF Buffers
<1> QED
  BY <1>3, <1>4 DEF pjon_chaincast_recv_handler, Buffers

-----------------------------------------------------------------------------
\* A forwarded message goes to a neighbour's id and is a message again.
LEMMA ForwardedTyped ==
    ASSUME TypeOK, NEW n \in Nodes, msgbuf[n] # << >>
    PROVE  /\ Head(msgbuf[n]) \in Messages
           /\ NewReach(n, Head(msgbuf[n])) \in SUBSET Dampers
           /\ Forwarded(n).id \in Nodes => Forwarded(n) \in Messages
<1>1. Head(msgbuf[n]) \in Messages
  BY TailIn DEF TypeOK
<1>2. NewReach(n, Head(msgbuf[n])) \in SUBSET Dampers
  BY <1>1, ChainAssumption DEF NewReach, Messages
<1> QED
  BY <1>1, <1>2 DEF Forwarded, Messages

\* Quiet bus, empty buffers and fans that are off have the right types.
LEMMA InitTyped == Init => TypeOK
  BY ChainAssumption DEF Init, TypeOK, FanCmds

\* No controller, console or fault leaves the types of TypeOK.
LEMMA NextTyped == TypeOK /\ [Next]_vars => TypeOK'
<1> SUFFICES ASSUME TypeOK, [Next]_vars
             PROVE  TypeOK'
  OBVIOUS
<1>1. Buffers(Messages) /\ Fresh(Messages)
  BY DEF TypeOK, Buffers, Fresh, Messages
<1>2. ASSUME NEW n \in Injectors, NEW c \in Cmds, NEW dst \in Destinations[c],
             Inject(n, dst, c)
      PROVE  TypeOK'
  <2>1. Buffers(Messages)'
    BY <1>1, <1>2, InjectIn
  <2>2. sent' \in Seq(Cmds)
    BY <1>2 DEF Inject, TypeOK
  <2> QED
    BY <1>2, <2>1, <2>2 DEF Inject, TypeOK, Buffers
<1>3. ASSUME NEW n \in Nodes, NEW k \in 1 .. Len(net[n]), NEW again \in BOOLEAN,
             Receive(n, k, again)
      PROVE  TypeOK'
  <2>1. Buffers(Messages)'
    BY <1>1, <1>3, ReceiveIn
  <2> QED
    BY <1>3, <2>1 DEF Receive, TypeOK, Buffers
<1>4. ASSUME NEW n \in Nodes, ReceiveNothing(n)
      PROVE  TypeOK'
  BY <1>4 DEF ReceiveNothing, TypeOK
<1>5. ASSUME NEW n \in Nodes, pjon_chaincast_recv_handler(n)
      PROVE  TypeOK'
  <2> DEFINE msg == Head(msgbuf[n])
             didreachall == DidReachAll(NewReach(n, msg))
  <2>1. /\ msg \in Messages
        /\ NewReach(n, msg) \in SUBSET Dampers
        /\ Forwarded(n).id \in Nodes => Forwarded(n) \in Messages
    BY <1>5, ForwardedTyped DEF pjon_chaincast_recv_handler
  <2>2. Buffers(Messages)'
    BY <1>1, <1>5, <2>1, HandleIn
  <2>4. msg.cmd \in Cmds
    BY <2>1 DEF Messages
  <2>3. reached' \in [Cmds -> SUBSET Dampers] /\ handling' \in [Nodes -> BOOLEAN]
    <3>1. handling' \in [Nodes -> BOOLEAN]
      BY <1>5 DEF pjon_chaincast_recv_handler, TypeOK
    <3>2. reached[msg.cmd] \cup InstalledAt[n] \in SUBSET Dampers
      BY <2>4, ChainAssumption DEF TypeOK
    <3>3. reached' = [reached EXCEPT ![msg.cmd] = @ \cup InstalledAt[n]]
      BY <1>5 DEF pjon_chaincast_recv_handler
    <3> QED
      BY <3>1, <3>2, <3>3 DEF TypeOK
  <2>5. CASE msg.cmd \in DamperCmds
    <3>1. handle_damper_cmd(n, didreachall, msg.cmd)
      BY <1>5, <2>5 DEF pjon_chaincast_recv_handler
    <3>2. FanOf[msg.cmd] \in FanCmds /\ LaminaOf[msg.cmd] \in FanCmds
      BY <2>5, CommandAssumption
    <3>3. /\ dampers' \in [Nodes -> DamperCmds \cup {NoCmd}]
          /\ settings' \in [Nodes -> SettingsCmds \cup {NoCmd}]
          /\ fan' \in [Nodes -> FanCmds] /\ lamina' \in [Nodes -> FanCmds]
          /\ fanBy' \in [Nodes -> DamperCmds \cup {NoCmd}]
      BY <2>5, <3>1, <3>2 DEF handle_damper_cmd, TypeOK
    <3> QED
      BY <1>5, <2>2, <2>3, <3>3 DEF pjon_chaincast_recv_handler, TypeOK, Buffers
  <2>6. CASE msg.cmd \notin DamperCmds
    <3>1. updateSettingsFromPacket(n, msg.cmd) /\ msg.cmd \in SettingsCmds
      BY <1>5, <2>4, <2>6 DEF pjon_chaincast_recv_handler, Cmds
    <3> QED
      BY <1>5, <2>2, <2>3, <3>1
      DEF pjon_chaincast_recv_handler, updateSettingsFromPacket, TypeOK, Buffers
  <2> QED
    BY <2>5, <2>6
<1>6. ASSUME NEW n \in Nodes, NEW k \in 1 .. Len(net[n]), Lose(n, k)
      PROVE  TypeOK'
  <2>1. Buffers(Messages)'
    BY <1>1, <1>6, LoseIn
  <2> QED
    BY <1>6, <2>1 DEF Lose, TypeOK, Buffers, node
<1>7. ASSUME NEW n \in Nodes, Reboot(n)
      PROVE  TypeOK'
  <2>1. Buffers(Messages)'
    BY <1>1, <1>7, RebootIn
  <2> QED
    BY <1>7, <2>1 DEF Reboot, TypeOK, Buffers, FanCmds
<1>8. CASE UNCHANGED vars
  BY <1>8 DEF vars, node, TypeOK
<1> QED
  BY <1>2, <1>3, <1>4, <1>5, <1>6, <1>7, <1>8 DEF Next, task_pjon

\* Every variable stays in its range; the receive buffer never holds more than
\* its slots.
THEOREM TypeCorrect == Spec => []TypeOK
  BY InitTyped, NextTyped, PTL DEF Spec

-----------------------------------------------------------------------------
(***************************************************************************)
(* Why the reach field can be trusted.  A message only ever gains the      *)
(* dampers of the controller that is handling it, in the step in which     *)
(* they become reached; reached never shrinks, so losing, repeating,       *)
(* reordering or overwriting messages cannot make a reach field false.     *)
(***************************************************************************)

TrueMessages == {m \in Messages : m.reach \subseteq reached[m.cmd]}

ReachInv ==
    /\ TypeOK
    /\ Buffers(TrueMessages)
    /\ FanAfterAllDampers

\* A step that leaves reached alone and moves messages about keeps them true.
LEMMA OthersKeepReach ==
    ASSUME ReachInv, TypeOK', UNCHANGED reached,
           \A S : Buffers(S) /\ Fresh(S) => Buffers(S)',
           \A n \in Nodes : fanBy'[n] \in {fanBy[n], NoCmd}
    PROVE  ReachInv'
<1>1. PICK S : S = TrueMessages
  OBVIOUS
<1>2. Buffers(S) /\ Fresh(S)
  BY <1>1 DEF ReachInv, Fresh, TrueMessages, Messages
<1>3. TrueMessages' = S
  BY <1>1 DEF TrueMessages
<1>4. Buffers(S)'
  BY <1>2
<1>5. FanAfterAllDampers'
  BY DEF ReachInv, FanAfterAllDampers
<1> QED
  BY <1>3, <1>4, <1>5 DEF ReachInv, Buffers

\* Handling makes the forwarded reach true, because it records the controller's
\* own dampers at the same time.
LEMMA HandleKeepsReach ==
    ASSUME ReachInv, TypeOK', NEW n \in Nodes, pjon_chaincast_recv_handler(n)
    PROVE  ReachInv'
<1> DEFINE msg == Head(msgbuf[n])
           reach == NewReach(n, msg)
<1>1. /\ msgbuf[n] # << >>
      /\ reached' = [reached EXCEPT ![msg.cmd] = @ \cup InstalledAt[n]]
  BY DEF pjon_chaincast_recv_handler
<1>2. /\ msg \in TrueMessages
      /\ Forwarded(n).id \in Nodes => Forwarded(n) \in Messages
  BY <1>1, TailIn, ForwardedTyped DEF ReachInv, Buffers
<1>3. msg.cmd \in Cmds /\ msg.reach \subseteq reached[msg.cmd]
  BY <1>2 DEF TrueMessages, Messages
<1>4. /\ reach \subseteq reached'[msg.cmd]
      /\ \A c \in Cmds : reached[c] \subseteq reached'[c]
  BY <1>1, <1>3 DEF NewReach, ReachInv, TypeOK
<1>5. PICK S : S = TrueMessages'
  OBVIOUS
<1>6. TrueMessages \subseteq S
  BY <1>4, <1>5 DEF TrueMessages, Messages
<1>7. Buffers(S)
  BY <1>6, SeqMonotonic DEF ReachInv, Buffers
<1>8. Forwarded(n).id \in Nodes => Forwarded(n) \in S
  BY <1>2, <1>4, <1>5 DEF Forwarded, TrueMessages
<1>9. Buffers(S)'
  BY <1>7, <1>8, HandleIn
<1>10. FanAfterAllDampers'
  <2>1. \A c \in Cmds : reached[c] = Dampers => reached'[c] = Dampers
    BY <1>4 DEF TypeOK
  <2>2. DidReachAll(reach) => reached'[msg.cmd] = Dampers
    <3>1. reached'[msg.cmd] \subseteq Dampers
      BY <1>3 DEF TypeOK
    <3> HIDE DEF msg, reach
    <3> QED
      BY <1>4, <3>1 DEF DidReachAll
  <2>3. ASSUME NEW m \in Nodes
        PROVE  \/ fanBy'[m] = fanBy[m]
               \/ fanBy'[m] = msg.cmd /\ DidReachAll(reach)
    <3>1. \/ handle_damper_cmd(n, DidReachAll(reach), msg.cmd)
          \/ updateSettingsFromPacket(n, msg.cmd)
      BY DEF pjon_chaincast_recv_handler
    <3> QED
      BY <3>1
      DEF handle_damper_cmd, updateSettingsFromPacket, ReachInv, TypeOK
  <2> SUFFICES ASSUME NEW m \in Nodes, fanBy'[m] # NoCmd
               PROVE  reached'[fanBy'[m]] = Dampers
    BY DEF FanAfterAllDampers
  <2>4. CASE fanBy'[m] = fanBy[m]
    <3>1. fanBy[m] \in Cmds /\ reached[fanBy[m]] = Dampers
      BY <2>4 DEF ReachInv, FanAfterAllDampers, TypeOK, Cmds
    <3> QED
      BY <2>1, <2>4, <3>1
  <2>5. CASE fanBy'[m] = msg.cmd /\ DidReachAll(reach)
    BY <2>2, <2>5
  <2> QED
    BY <2>3, <2>4, <2>5
<1> QED
  BY <1>5, <1>9, <1>10 DEF ReachInv, Buffers

\* The inductive invariant: types, true reach fields, and fans that follow
\* commands every damper has.
LEMMA ReachInvHolds == Spec => []ReachInv
<1>1. Init => ReachInv
  <2> SUFFICES ASSUME Init PROVE ReachInv
    OBVIOUS
  <2>1. TypeOK
    BY InitTyped
  <2>2. Buffers(TrueMessages)
    BY ChainAssumption DEF Init, Buffers
  <2>3. FanAfterAllDampers
    BY DEF Init, FanAfterAllDampers
  <2> QED
    BY <2>1, <2>2, <2>3 DEF ReachInv
<1>2. ReachInv /\ [Next]_vars => ReachInv'
  <2> SUFFICES ASSUME ReachInv, [Next]_vars
               PROVE  ReachInv'
    OBVIOUS
  <2>1. TypeOK /\ TypeOK'
    BY NextTyped DEF ReachInv
  <2>2. ASSUME NEW n \in Injectors, NEW c \in Cmds, NEW dst \in Destinations[c],
               Inject(n, dst, c)
        PROVE  ReachInv'
    <3>1. \A S : Buffers(S) /\ Fresh(S) => Buffers(S)'
      BY <2>2, InjectIn
    <3> QED
      BY <2>1, <2>2, <3>1, OthersKeepReach DEF Inject
  <2>3. ASSUME NEW n \in Nodes, NEW k \in 1 .. Len(net[n]),
               NEW again \in BOOLEAN, Receive(n, k, again)
        PROVE  ReachInv'
    <3>1. \A S : Buffers(S) /\ Fresh(S) => Buffers(S)'
      BY <2>3, ReceiveIn
    <3> QED
      BY <2>1, <2>3, <3>1, OthersKeepReach DEF Receive
  <2>4. ASSUME NEW n \in Nodes, ReceiveNothing(n) \/ UNCHANGED vars
        PROVE  ReachInv'
    <3>1. \A S : Buffers(S) /\ Fresh(S) => Buffers(S)'
      BY <2>4 DEF ReceiveNothing, vars, node, Buffers
    <3> QED
      BY <2>1, <2>4, <3>1, OthersKeepReach DEF ReceiveNothing, vars
  <2>5. ASSUME NEW n \in Nodes, pjon_chaincast_recv_handler(n)
        PROVE  ReachInv'
    BY <2>1, <2>5, HandleKeepsReach
  <2>6. ASSUME NEW n \in Nodes, NEW k \in 1 .. Len(net[n]), Lose(n, k)
        PROVE  ReachInv'
    <3>1. \A S : Buffers(S) /\ Fresh(S) => Buffers(S)'
      BY <2>6, LoseIn
    <3> QED
      BY <2>1, <2>6, <3>1, OthersKeepReach DEF Lose
  <2>7. ASSUME NEW n \in Nodes, Reboot(n)
        PROVE  ReachInv'
    <3>1. \A S : Buffers(S) /\ Fresh(S) => Buffers(S)'
      BY <2>7, RebootIn
    <3>2. \A m \in Nodes : fanBy'[m] \in {fanBy[m], NoCmd}
      BY <2>1, <2>7 DEF Reboot, TypeOK
    <3> QED
      BY <2>1, <2>7, <3>1, <3>2, OthersKeepReach DEF Reboot
  <2> QED
    <3>1. 1 \in Nodes
      BY ChainAssumption DEF Nodes
    <3> QED
      BY <2>2, <2>3, <2>4, <2>5, <2>6, <2>7, <3>1 DEF Next, task_pjon
<1> QED
  BY <1>1, <1>2, PTL DEF Spec

\* main.cpp:154-158, 415: no controller's fan target ever comes from a command
\* that the controller of some damper has not handled.
THEOREM FanFollowsAllDampers == Spec => []FanAfterAllDampers
<1>1. ReachInv => FanAfterAllDampers
  BY DEF ReachInv
<1> QED
  BY <1>1, ReachInvHolds, PTL

\* comm.cpp:199, 203: no reach field ever claims a damper too early.
THEOREM ReachNeverLies == Spec => []ReachIsTrue
<1>1. ReachInv => ReachIsTrue
  <2> SUFFICES ASSUME ReachInv, NEW n \in Nodes
               PROVE  TrueOf(net[n]) /\ TrueOf(msgbuf[n])
    BY DEF ReachIsTrue
  <2>1. \A s \in Seq(TrueMessages) : TrueOf(s)
    BY DEF TrueOf, TrueMessages
  <2> QED
    BY <2>1 DEF ReachInv, Buffers
<1> QED
  BY <1>1, ReachInvHolds, PTL

-----------------------------------------------------------------------------
\* Chaincasting implements TwoPass: seen through what has been acknowledged and
\* which command each fan follows, every step is an acknowledgement, a commit, a
\* restart, or nothing.
THEOREM ImplementsTwoPass == Spec => PromiseKept
<1>1. Init => Promise!Init
  BY DEF Init, Promise!Init
<1>2. ReachInv /\ ReachInv' /\ [Next]_vars => [Promise!Next]_<<reached, fanBy>>
  <2> SUFFICES ASSUME ReachInv, ReachInv', [Next]_vars
               PROVE  [Promise!Next]_<<reached, fanBy>>
    OBVIOUS
  <2>1. ASSUME NEW n \in Nodes, pjon_chaincast_recv_handler(n)
        PROVE  Promise!Next
    <3> DEFINE msg == Head(msgbuf[n])
               didreachall == DidReachAll(NewReach(n, msg))
    <3>1. /\ msgbuf[n] # << >>
          /\ reached' = [reached EXCEPT ![msg.cmd] = @ \cup InstalledAt[n]]
      BY <2>1 DEF pjon_chaincast_recv_handler
    <3>2. msg \in Messages /\ msg.cmd \in Cmds
      BY <3>1, ForwardedTyped DEF ReachInv, Messages
    <3>3. CASE msg.cmd \in DamperCmds /\ didreachall
      <4>1. fanBy' = [fanBy EXCEPT ![n] = msg.cmd]
        BY <2>1, <3>3 DEF pjon_chaincast_recv_handler, handle_damper_cmd
      <4>2. reached'[msg.cmd] = Dampers
        <5>1. fanBy'[n] = msg.cmd /\ msg.cmd # NoCmd
          BY <3>2, <4>1, CommandAssumption DEF ReachInv, TypeOK
        <5> QED
          BY <5>1 DEF ReachInv, FanAfterAllDampers
      <4>3. Promise!Commit(n, msg.cmd)
        BY <3>1, <4>1, <4>2 DEF Promise!Commit, Promise!Acked
      <4> QED
        BY <3>3, <4>3 DEF Promise!Next
    <3>4. CASE ~(msg.cmd \in DamperCmds /\ didreachall)
      <4>1. fanBy' = fanBy
        BY <2>1, <3>4
        DEF pjon_chaincast_recv_handler, handle_damper_cmd,
            updateSettingsFromPacket, ReachInv, TypeOK
      <4> QED
        BY <3>1, <3>2, <4>1 DEF Promise!Next, Promise!Acknowledge, Promise!Acked
    <3> QED
      BY <3>3, <3>4
  <2>2. ASSUME NEW n \in Nodes, Reboot(n)
        PROVE  Promise!Next
    BY <2>2 DEF Reboot, Promise!Next, Promise!Forget
  <2>3. CASE \/ \E n \in Injectors, c \in Cmds : \E dst \in Destinations[c] :
                 Inject(n, dst, c)
             \/ \E n \in Nodes : \E k \in 1 .. Len(net[n]) : Lose(n, k)
             \/ UNCHANGED vars
    BY <2>3 DEF Inject, Lose, vars
  <2>4. ASSUME NEW n \in Nodes, task_pjon(n), ~pjon_chaincast_recv_handler(n)
        PROVE  UNCHANGED <<reached, fanBy>>
    BY <2>4 DEF task_pjon, Receive, ReceiveNothing
  <2> QED
    BY <2>1, <2>2, <2>3, <2>4 DEF Next
<1> QED
  BY <1>1, <1>2, ReachInvHolds, PTL DEF Spec, PromiseKept, Promise!Spec

-----------------------------------------------------------------------------
(***************************************************************************)
(* Why all controllers end up with the last command.  A command has one    *)
(* message in the system, and a stage: the number of controllers it has    *)
(* been handled by, up and down, and one.  Queues are first in first out,  *)
(* so a later command is never at a later stage.                           *)
(***************************************************************************)

\* The dampers of the controllers up to n.
Below(n) == UNION {InstalledAt[k] : k \in 1 .. n}

\* The controller at which the reach field is complete and the message turns round.
Top == CHOOSE n \in Nodes :
          Below(n) = Dampers /\ \A m \in 0 .. n - 1 : Below(m) # Dampers

\* A set of natural numbers has a least one.
LEMMA LeastOf ==
    ASSUME NEW S \in SUBSET Nat, S # {}
    PROVE  \E m \in S : \A k \in 0 .. m - 1 : k \notin S
<1>1. PICK m \in S : \A k \in S : <<k, m>> \notin OpToRel(<, Nat)
  BY NatLessThanWellFounded, WFMin
<1>2. ASSUME NEW k \in 0 .. m - 1, k \in S
      PROVE  FALSE
  <2>1. k \in Nat /\ m \in Nat /\ k < m
    OBVIOUS
  <2>2. <<k, m>> \in OpToRel(<, Nat)
    BY <2>1 DEF OpToRel
  <2> QED
    BY <1>1, <1>2, <2>2, Zenon
<1> QED
  BY <1>2

\* The dampers below grow from controller to controller.
LEMMA BelowGrows ==
    /\ Below(0) = {}
    /\ \A n \in 1 .. N : /\ Below(n) = Below(n - 1) \cup InstalledAt[n]
                        /\ Below(n) \subseteq Dampers
    /\ \A m, n \in 0 .. N : m <= n => Below(m) \subseteq Below(n)
<1>1. N \in Nat \ {0} /\ \A k \in 1 .. N : InstalledAt[k] \subseteq Dampers
  BY ChainAssumption DEF Nodes
<1>2. Below(0) = {}
  BY DEF Below
<1>3. ASSUME NEW n \in 1 .. N
      PROVE  Below(n) = Below(n - 1) \cup InstalledAt[n] /\ Below(n) \subseteq Dampers
  <2>1. 1 .. n = 1 .. n - 1 \cup {n} /\ 1 .. n \subseteq 1 .. N
    BY <1>1
  <2> QED
    BY <1>1, <2>1 DEF Below
<1>4. ASSUME NEW m \in 0 .. N, NEW n \in 0 .. N, m <= n
      PROVE  Below(m) \subseteq Below(n)
  <2>1. 1 .. m \subseteq 1 .. n
    BY <1>1, <1>4
  <2> QED
    BY <2>1 DEF Below
<1> QED
  BY <1>2, <1>3, <1>4

\* When every damper is driven by somebody, there is a controller at the top, and the
\* ladder ends there.
LEMMA TopFacts ==
    ASSUME Below(N) = Dampers, Dampers # {}
    PROVE  /\ Top \in Nodes /\ Top \in Nat \ {0} /\ Top <= N
           /\ Below(Top) = Dampers
           /\ \A n \in 0 .. Top - 1 : Below(n) # Dampers
           /\ Ladder \subseteq 1 .. Top
<1>1. N \in Nat \ {0} /\ N \in Nodes
  BY ChainAssumption DEF Nodes
<1> DEFINE S == {n \in Nodes : Below(n) = Dampers}
<1>2. PICK t \in S : \A k \in 0 .. t - 1 : k \notin S
  <2>1. N \in S /\ S \subseteq Nat
    BY <1>1 DEF Nodes
  <2> QED
    BY <2>1, LeastOf
<1>3. ASSUME NEW m \in 0 .. t - 1
      PROVE  Below(m) # Dampers
  <2>1. CASE m = 0
    BY <2>1, BelowGrows
  <2>2. CASE m # 0
    <3>1. m \in Nodes
      BY <1>1, <1>2, <2>2 DEF Nodes
    <3> QED
      BY <1>2, <3>1
  <2> QED
    BY <2>1, <2>2
<1>4. Top \in Nodes /\ Below(Top) = Dampers /\ \A m \in 0 .. Top - 1 : Below(m) # Dampers
  BY <1>2, <1>3, Zenon DEF Top
<1>5. Top \in Nat \ {0} /\ Top <= N
  BY <1>1, <1>4 DEF Nodes
<1>6. ASSUME NEW n \in Ladder
      PROVE  n \in 1 .. Top
  <2>1. n \in 1 .. N /\ Below(n - 1) # Dampers
    BY DEF Ladder, Nodes, Below
  <2>2. CASE n > Top
    <3>1. n - 1 \in 0 .. N /\ Top \in 0 .. N /\ Top <= n - 1 /\ n - 1 \in 1 .. N
      BY <1>1, <1>5, <2>1, <2>2
    <3>2. Below(Top) \subseteq Below(n - 1) /\ Below(n - 1) \subseteq Dampers
      BY <3>1, BelowGrows
    <3> QED
      BY <1>4, <2>1, <3>2
  <2> QED
    BY <1>5, <2>1, <2>2
<1> QED
  BY <1>4, <1>5, <1>6

-----------------------------------------------------------------------------
(* The order of the commands *)

In(s) == {s[k] : k \in 1 .. Len(s)}
Before(s, c, d) == \E i \in 1 .. Len(s) : \E j \in 1 .. Len(s) : i < j /\ s[i] = c /\ s[j] = d
NoneTwice(s) == \A i \in 1 .. Len(s) : \A j \in 1 .. Len(s) : s[i] = s[j] => i = j

\* Commands sent once are in a strict order.
InLine(s) ==
    /\ In(s) \subseteq Cmds
    /\ \A c, d : Before(s, c, d) => c \in In(s) /\ d \in In(s) /\ c # d /\ ~Before(s, d, c)
    /\ \A c \in In(s), d \in In(s) : c = d \/ Before(s, c, d) \/ Before(s, d, c)
LEMMA SentInLine ==
    ASSUME NEW s \in Seq(Cmds), NoneTwice(s)
    PROVE  InLine(s)
<1>1. Len(s) \in Nat /\ \A k \in 1 .. Len(s) : s[k] \in Cmds
  OBVIOUS
<1>2. \A i \in 1 .. Len(s) : \A j \in 1 .. Len(s) : i < j \/ i = j \/ j < i
  BY <1>1
<1>3. \A i \in 1 .. Len(s) : \A j \in 1 .. Len(s) : ~(i < j /\ j < i) /\ ~(i < i)
  BY <1>1
<1>4. In(s) \subseteq Cmds
  BY <1>1 DEF In
<1>5. ASSUME NEW c, NEW d, Before(s, c, d)
      PROVE  c \in In(s) /\ d \in In(s) /\ c # d /\ ~Before(s, d, c)
  <2>1. PICK i \in 1 .. Len(s) : \E j \in 1 .. Len(s) : i < j /\ s[i] = c /\ s[j] = d
    BY <1>5, Zenon DEF Before
  <2>2. PICK j \in 1 .. Len(s) : i < j /\ s[i] = c /\ s[j] = d
    BY <2>1
  <2>3. c \in In(s) /\ d \in In(s)
    BY <2>2, Zenon DEF In
  <2>4. c # d
    BY <1>3, <2>2, Zenon DEF NoneTwice
  <2>5. ~Before(s, d, c)
    <3> SUFFICES ASSUME NEW k \in 1 .. Len(s), NEW l \in 1 .. Len(s),
                        k < l, s[k] = d, s[l] = c
                 PROVE  FALSE
      BY Zenon DEF Before
    <3>1. k = j /\ l = i
      BY <2>2, Zenon DEF NoneTwice
    <3> QED
      BY <1>3, <2>2, <3>1, Zenon
  <2> QED
    BY <2>3, <2>4, <2>5
<1>6. ASSUME NEW c \in In(s), NEW d \in In(s)
      PROVE  c = d \/ Before(s, c, d) \/ Before(s, d, c)
  <2>1. PICK i \in 1 .. Len(s), j \in 1 .. Len(s) : s[i] = c /\ s[j] = d
    BY Zenon DEF In
  <2> QED
    BY <1>2, <2>1, Zenon DEF Before
<1> QED
  BY <1>4, <1>5, <1>6, Zenon DEF InLine

\* A command sent now comes after all others.
LEMMA SentLast ==
    ASSUME NEW s \in Seq(Cmds), NoneTwice(s), NEW c \in Cmds, c \notin In(s)
    PROVE  /\ Append(s, c) \in Seq(Cmds) /\ NoneTwice(Append(s, c))
           /\ In(Append(s, c)) = In(s) \cup {c}
           /\ \A a, b : Before(Append(s, c), a, b) <=> Before(s, a, b) \/ (a \in In(s) /\ b = c)
<1> DEFINE t == Append(s, c)
<1>1. /\ t \in Seq(Cmds) /\ Len(s) \in Nat /\ Len(t) = Len(s) + 1
      /\ \A k \in 1 .. Len(s) : t[k] = s[k]
      /\ t[Len(s) + 1] = c
  BY AppendProperties
<1>2. /\ 1 .. Len(t) = 1 .. Len(s) \cup {Len(s) + 1}
      /\ \A k \in 1 .. Len(s) : k < Len(s) + 1 /\ k # Len(s) + 1 /\ ~(Len(s) + 1 < k)
      /\ ~(Len(s) + 1 < Len(s) + 1)
  BY <1>1
<1> HIDE DEF t
<1>3. \A k \in 1 .. Len(s) : s[k] # c
  BY DEF In
<1>4. NoneTwice(t)
  BY <1>1, <1>2, <1>3 DEF NoneTwice
<1>5. In(t) = In(s) \cup {c}
  BY <1>1, <1>2 DEF In
<1>6. ASSUME NEW a, NEW b
      PROVE  Before(t, a, b) <=> Before(s, a, b) \/ (a \in In(s) /\ b = c)
  <2>1. ASSUME Before(t, a, b) PROVE Before(s, a, b) \/ (a \in In(s) /\ b = c)
    <3>1. PICK i \in 1 .. Len(t), j \in 1 .. Len(t) : i < j /\ t[i] = a /\ t[j] = b
      BY <2>1 DEF Before
    <3>2. i \in 1 .. Len(s)
      BY <1>2, <3>1
    <3>3. CASE j = Len(s) + 1
      BY <1>1, <3>1, <3>2, <3>3 DEF In
    <3>4. CASE j \in 1 .. Len(s)
      BY <1>1, <3>1, <3>2, <3>4 DEF Before
    <3> QED
      BY <1>2, <3>3, <3>4
  <2>2. ASSUME Before(s, a, b) PROVE Before(t, a, b)
    BY <1>1, <1>2, <2>2 DEF Before
  <2>3. ASSUME a \in In(s), b = c PROVE Before(t, a, b)
    <3>1. PICK i \in 1 .. Len(s) : s[i] = a
      BY <2>3 DEF In
    <3>2. i \in 1 .. Len(t) /\ Len(s) + 1 \in 1 .. Len(t) /\ i < Len(s) + 1
      BY <1>2
    <3>3. t[i] = a /\ t[Len(s) + 1] = b
      BY <1>1, <2>3, <3>1
    <3> QED
      BY <3>2, <3>3, Zenon DEF Before
  <2> QED
    BY <2>1, <2>2, <2>3
<1> QED
  BY <1>1, <1>4, <1>5, <1>6, Zenon DEF t

-----------------------------------------------------------------------------
(* Messages on their way.  q are the queues of all controllers, buffer first; *)
(* stage is how far each command has come: 0 not sent, n before controller n  *)
(* on the way up, 2 * Top - n on the way down, 2 * Top at the end.  inHand    *)
(* are commands just taken from a queue.                                      *)

Last == 2 * Top
At(stage) == IF stage <= Top THEN stage ELSE Last - stage

OnItsWay(n, m, stage) ==
    /\ m.cmd \in Cmds /\ m.id = n /\ n \in 1 .. Top
    /\ \/ stage[m.cmd] = n /\ m.reach = Below(n - 1)
       \/ stage[m.cmd] = Last - n /\ n < Top /\ m.reach = Dampers

Placed(q, stage, inHand) ==
    \A n \in Nodes : \A k \in 1 .. Len(q[n]) :
        OnItsWay(n, q[n][k], stage) /\ q[n][k].cmd \notin inHand
Found(q, stage, inHand) ==
    \A c \in Cmds \ inHand : stage[c] \in 1 .. Last - 1 =>
        \E k \in 1 .. Len(q[At(stage[c])]) : q[At(stage[c])][k].cmd = c
InOrder(q, stage, s) ==
    \A n \in Nodes : \A j \in 1 .. Len(q[n]) : \A k \in 1 .. Len(q[n]) :
        j < k /\ stage[q[n][j].cmd] = stage[q[n][k].cmd]
            => Before(s, q[n][j].cmd, q[n][k].cmd)
NoOvertaking(stage, s) == \A c, d \in Cmds : Before(s, c, d) => stage[c] >= stage[d]
Begun(stage, s, inHand) == \A c \in Cmds \ inHand : stage[c] = 0 <=> c \notin In(s)

Travelling(q, stage, s, inHand) ==
    /\ q \in [Nodes -> Seq(Messages)] /\ stage \in [Cmds -> 0 .. Last]
    /\ Begun(stage, s, inHand) /\ Placed(q, stage, inHand) /\ Found(q, stage, inHand)
    /\ InOrder(q, stage, s) /\ NoOvertaking(stage, s)

AllDriven == Below(N) = Dampers /\ Dampers # {}

\* Where a command of each stage waits.
LEMMA Places ==
    ASSUME AllDriven
    PROVE  /\ \A n \in 1 .. Top : n \in Nodes /\ At(n) = n /\ (n < Top => At(Last - n) = n)
           /\ \A n \in 1 .. Top : n >= 1 /\ Last - n >= 1 /\ Last - n < Last /\ n < Last
           /\ \A n \in 1 .. Top : Last - n \in Nat /\ n <= Last - n
           /\ \A m, n \in 1 .. Top : m # n => n # Last - m /\ Last - n # Last - m
           /\ \A v \in 1 .. Last - 1 : At(v) \in 1 .. Top /\ At(v) \in Nodes
           /\ Last \in Nat /\ Last > 0
<1>1. Top \in Nat \ {0} /\ Top <= N /\ N \in Nat \ {0}
  BY TopFacts, ChainAssumption DEF AllDriven
<1> QED
  BY <1>1 DEF Last, At, Nodes

\* The stage of a message's command.
LEMMA StageOfMessage ==
    ASSUME AllDriven, NEW q, NEW stage, NEW s, NEW inHand, Travelling(q, stage, s, inHand),
           NEW n \in Nodes, NEW k \in 1 .. Len(q[n])
    PROVE  /\ q[n][k].cmd \in Cmds \ inHand /\ q[n][k].cmd \in In(s) /\ n \in 1 .. Top
           /\ stage[q[n][k].cmd] \in {n, Last - n} /\ stage[q[n][k].cmd] \in Nat
           /\ At(stage[q[n][k].cmd]) = n
           /\ stage[q[n][k].cmd] \in 1 .. Last - 1 /\ stage[q[n][k].cmd] <= Last - n
<1> DEFINE c == q[n][k].cmd
<1>1. OnItsWay(n, q[n][k], stage) /\ c \notin inHand
  BY DEF Travelling, Placed
<1> HIDE DEF c
<1>2. /\ c \in Cmds \ inHand /\ n \in 1 .. Top
      /\ stage[c] = n \/ (stage[c] = Last - n /\ n < Top)
  BY <1>1 DEF OnItsWay, c
<1>3. /\ n \in Nat /\ Last - n \in Nat /\ Last \in Nat /\ At(n) = n /\ (n < Top => At(Last - n) = n)
      /\ n >= 1 /\ Last - n >= 1 /\ Last - n < Last /\ n < Last /\ n <= Last - n
  <2>1. n \in Nat
    BY <1>2
  <2> QED
    BY <1>2, <2>1, Places, Zenon
<1>4. stage[c] \in {n, Last - n} /\ stage[c] \in Nat /\ At(stage[c]) = n /\ stage[c] # 0
  BY <1>2, <1>3
<1>5. stage[c] \in 1 .. Last - 1 /\ stage[c] <= Last - n
  BY <1>2, <1>3
<1>6. c \in In(s)
  BY <1>2, <1>4 DEF Travelling, Begun
<1> QED
  BY <1>2, <1>4, <1>5, <1>6 DEF c

\* A command has one message.
LEMMA OneMessage ==
    ASSUME AllDriven, NEW q, NEW stage, NEW s, NEW inHand, Travelling(q, stage, s, inHand),
           InLine(s), NEW n \in Nodes, NEW k \in 1 .. Len(q[n]), NEW m \in Nodes,
           NEW l \in 1 .. Len(q[m]), q[n][k].cmd = q[m][l].cmd
    PROVE  n = m /\ k = l
<1>1. n = m
  BY StageOfMessage
<1>2. ASSUME NEW i \in 1 .. Len(q[n]), NEW j \in 1 .. Len(q[n]), q[n][i].cmd = q[n][j].cmd
      PROVE  ~(i < j)
  BY <1>2 DEF Travelling, InOrder, InLine
<1>3. Len(q[n]) \in Nat
  BY DEF Travelling
<1>4. ~(k < l) /\ ~(l < k) /\ l \in 1 .. Len(q[n])
  BY <1>1, <1>2
<1> QED
  BY <1>1, <1>3, <1>4

\* So no queue is longer than there are commands.
LEMMA Room ==
    ASSUME AllDriven, NEW q, NEW stage, NEW s, NEW inHand, Travelling(q, stage, s, inHand),
           InLine(s), NEW n \in Nodes, IsFiniteSet(Cmds)
    PROVE  /\ Len(q[n]) <= Cardinality(Cmds) /\ Cardinality(Cmds) \in Nat
           /\ \A c \in inHand \cap Cmds : Len(q[n]) < Cardinality(Cmds)
<1> DEFINE f == [k \in 1 .. Len(q[n]) |-> q[n][k].cmd]
           S == Cmds \ inHand
<1>1. Len(q[n]) \in Nat
  BY DEF Travelling
<1>2. f \in Injection(1 .. Len(q[n]), S)
  <2>1. f \in [1 .. Len(q[n]) -> S]
    BY StageOfMessage
  <2>2. \A j, k \in 1 .. Len(q[n]) : f[j] = f[k] => j = k
    BY OneMessage
  <2> QED
    BY <2>1, <2>2 DEF Injection, IsInjective
<1>3. IsFiniteSet(S) /\ S \subseteq Cmds /\ Cardinality(S) <= Cardinality(Cmds)
  BY FS_Subset
<1>4. Cardinality(1 .. Len(q[n])) <= Cardinality(S)
  <2> HIDE DEF f, S
  <2> QED
    BY <1>2, <1>3, FS_Injection
<1>5. Cardinality(1 .. Len(q[n])) = Len(q[n])
  BY <1>1, FS_Interval
<1>6. Cardinality(S) \in Nat /\ Cardinality(Cmds) \in Nat
  BY <1>3, FS_CardinalityType
<1>7. ASSUME NEW c \in inHand \cap Cmds
      PROVE  Cardinality(S) # Cardinality(Cmds)
  BY <1>3, FS_Subset
<1> HIDE DEF f, S
<1> QED
  BY <1>1, <1>3, <1>4, <1>5, <1>6, <1>7

-----------------------------------------------------------------------------
(* What happens to messages on their way *)

\* A command just taken from its queue, or just sent: all sent earlier are ahead of it.
InHand(q, stage, s, c) ==
    /\ c \in Cmds /\ c \in In(s) /\ InLine(s) /\ Travelling(q, stage, s, {c})
    /\ \A d \in Cmds : Before(s, d, c) => stage[d] > stage[c]

\* The oldest message of a queue is taken in hand: no command sent earlier is at
\* the same stage.
LEMMA TakenInHand ==
    ASSUME AllDriven, NEW q, NEW stage, NEW s, Travelling(q, stage, s, {}), InLine(s),
           NEW n \in Nodes, q[n] # << >>
    PROVE  InHand([q EXCEPT ![n] = Tail(@)], stage, s, q[n][1].cmd)
<1> DEFINE c == q[n][1].cmd
           r == [q EXCEPT ![n] = Tail(@)]
<1>1. /\ q \in [Nodes -> Seq(Messages)] /\ stage \in [Cmds -> 0 .. Last]
      /\ Begun(stage, s, {}) /\ Placed(q, stage, {}) /\ Found(q, stage, {})
      /\ InOrder(q, stage, s) /\ NoOvertaking(stage, s)
  BY DEF Travelling
<1>2. /\ q[n] \in Seq(Messages) /\ Len(q[n]) \in Nat /\ 1 \in 1 .. Len(q[n])
      /\ Tail(q[n]) \in Seq(Messages) /\ Len(Tail(q[n])) = Len(q[n]) - 1
      /\ \A k \in 1 .. Len(q[n]) - 1 : Tail(q[n])[k] = q[n][k + 1]
  <2>1. q[n] \in Seq(Messages)
    BY <1>1
  <2>2. Len(q[n]) \in Nat \ {0}
    BY <2>1, EmptySeq
  <2> QED
    BY <2>1, <2>2, HeadTailProperties
<1>3. /\ r \in [Nodes -> Seq(Messages)] /\ \A m \in Nodes : m # n => r[m] = q[m]
      /\ Len(r[n]) = Len(q[n]) - 1
      /\ \A k \in 1 .. Len(q[n]) - 1 : r[n][k] = q[n][k + 1]
  BY <1>1, <1>2
<1>4. /\ c \in Cmds /\ stage[c] \in Nat /\ At(stage[c]) = n /\ stage[c] \in 1 .. Last - 1
      /\ c \in In(s)
  BY <1>2, StageOfMessage
<1>5. \A m \in Nodes : \A k \in 1 .. Len(q[m]) :
          q[m][k].cmd = c => m = n /\ k = 1
  BY <1>2, OneMessage
<1> HIDE DEF r
\* Every message of r is one of q, of another command.
<1>6. ASSUME NEW m \in Nodes, NEW k \in 1 .. Len(r[m])
      PROVE  \E l \in 1 .. Len(q[m]) :
                /\ l = (IF m = n THEN k + 1 ELSE k)
                /\ r[m][k] = q[m][l] /\ q[m][l].cmd # c
  <2>1. CASE m = n
    <3>1. k \in 1 .. Len(q[n]) - 1 /\ k + 1 \in 1 .. Len(q[n]) /\ k + 1 # 1
      BY <1>2, <1>3, <2>1
    <3> HIDE DEF c
    <3> QED
      BY <1>3, <1>5, <2>1, <3>1
  <2>2. CASE m # n
    <3> HIDE DEF c
    <3> QED
      BY <1>3, <1>5, <2>2
  <2> QED
    BY <2>1, <2>2
<1> HIDE DEF c
<1>7. Placed(r, stage, {c})
  BY <1>1, <1>6 DEF Placed
<1>8. Found(r, stage, {c})
  <2> SUFFICES ASSUME NEW d \in Cmds \ {c}, stage[d] \in 1 .. Last - 1
               PROVE  \E k \in 1 .. Len(r[At(stage[d])]) : r[At(stage[d])][k].cmd = d
    BY DEF Found
  <2> DEFINE m == At(stage[d])
  <2>1. m \in Nodes
    BY Places
  <2>2. PICK l \in 1 .. Len(q[m]) : q[m][l].cmd = d
    BY <1>1 DEF Found
  <2> HIDE DEF m
  <2>3. CASE m = n
    <3>1. l # 1
      BY <2>2, <2>3 DEF c
    <3>2. l - 1 \in 1 .. Len(q[n]) - 1 /\ (l - 1) + 1 = l
      BY <1>2, <2>3, <3>1
    <3>3. r[n][l - 1].cmd = d
      BY <1>3, <2>2, <2>3, <3>2
    <3> QED
      BY <1>3, <2>3, <3>2, <3>3 DEF m
  <2>4. CASE m # n
    BY <1>3, <2>1, <2>2, <2>4 DEF m
  <2> QED
    BY <2>3, <2>4
<1>9. InOrder(r, stage, s)
  <2> SUFFICES ASSUME NEW m \in Nodes, NEW j \in 1 .. Len(r[m]), NEW k \in 1 .. Len(r[m]),
                      j < k, stage[r[m][j].cmd] = stage[r[m][k].cmd]
               PROVE  Before(s, r[m][j].cmd, r[m][k].cmd)
    BY DEF InOrder
  <2>1. PICK i \in 1 .. Len(q[m]) :
            i = (IF m = n THEN j + 1 ELSE j) /\ r[m][j] = q[m][i]
    BY <1>6
  <2>2. PICK l \in 1 .. Len(q[m]) :
            l = (IF m = n THEN k + 1 ELSE k) /\ r[m][k] = q[m][l]
    BY <1>6
  <2>3. i < l
    BY <2>1, <2>2
  <2> QED
    BY <1>1, <2>1, <2>2, <2>3, Zenon DEF InOrder
<1>10. ASSUME NEW d \in Cmds, Before(s, d, c)
       PROVE  stage[d] > stage[c]
  <2>1. stage[d] >= stage[c] /\ stage[d] \in Nat
    BY <1>1, <1>4, <1>10, Places DEF NoOvertaking
  <2>2. CASE stage[d] = stage[c]
    <3>1. PICK l \in 1 .. Len(q[n]) : q[n][l].cmd = d
      BY <1>1, <1>4, <2>2 DEF Found
    <3>2. d # c /\ ~Before(s, c, d)
      BY <1>10, Zenon DEF InLine
    <3>3. l # 1
      BY <3>1, <3>2 DEF c
    <3>4. 1 < l
      BY <1>2, <3>3
    <3>5. stage[q[n][1].cmd] = stage[q[n][l].cmd]
      BY <2>2, <3>1 DEF c
    <3>6. Before(s, q[n][1].cmd, q[n][l].cmd)
      BY <1>1, <1>2, <3>4, <3>5, Zenon DEF InOrder
    <3> QED
      BY <3>1, <3>2, <3>6 DEF c
  <2> QED
    BY <1>4, <2>1, <2>2
<1>11. Travelling(r, stage, s, {c})
  BY <1>1, <1>3, <1>7, <1>8, <1>9 DEF Travelling, Begun
<1> QED
  BY <1>4, <1>10, <1>11, Zenon DEF InHand, r, c

\* A command sent now is in hand, at stage 0.
LEMMA Announced ==
    ASSUME AllDriven, NEW q, NEW stage, NEW s \in Seq(Cmds), NoneTwice(s),
           Travelling(q, stage, s, {}), NEW c \in Cmds, c \notin In(s)
    PROVE  InHand(q, stage, Append(s, c), c) /\ stage[c] = 0
<1> DEFINE t == Append(s, c)
<1>1. /\ q \in [Nodes -> Seq(Messages)] /\ stage \in [Cmds -> 0 .. Last]
      /\ Begun(stage, s, {}) /\ Placed(q, stage, {}) /\ Found(q, stage, {})
      /\ InOrder(q, stage, s) /\ NoOvertaking(stage, s)
  BY DEF Travelling
<1>2. In(t) = In(s) \cup {c} /\ InLine(s)
      /\ \A a, b : Before(t, a, b) <=> Before(s, a, b) \/ (a \in In(s) /\ b = c)
  BY SentLast, SentInLine
<1>3. stage[c] = 0
  BY <1>1 DEF Begun
<1>4. Last \in Nat /\ \A d \in Cmds : stage[d] \in Nat
  BY <1>1, Places
<1> HIDE DEF t
<1>5. \A d \in Cmds : Before(t, d, c) => stage[d] > stage[c]
  <2> SUFFICES ASSUME NEW d \in Cmds, Before(t, d, c) PROVE stage[d] > stage[c]
    OBVIOUS
  <2>1. d \in In(s)
    BY <1>2 DEF InLine
  <2>2. stage[d] # 0
    BY <1>1, <2>1 DEF Begun
  <2> QED
    BY <1>3, <1>4, <2>2
<1>6. NoOvertaking(stage, t)
  <2> SUFFICES ASSUME NEW a \in Cmds, NEW b \in Cmds, Before(t, a, b) PROVE stage[a] >= stage[b]
    BY DEF NoOvertaking
  <2>1. CASE Before(s, a, b)
    BY <1>1, <2>1 DEF NoOvertaking
  <2>2. CASE b = c
    BY <1>3, <1>4, <2>2
  <2> QED
    BY <1>2, <2>1, <2>2
<1>7. InOrder(q, stage, t)
  BY <1>1, <1>2, Zenon DEF InOrder
<1>8. Placed(q, stage, {c})
  <2>1. \A n \in Nodes : \A k \in 1 .. Len(q[n]) : q[n][k].cmd # c
    BY StageOfMessage
  <2> QED
    BY <1>1, <2>1 DEF Placed
<1>9. Begun(stage, t, {c}) /\ Found(q, stage, {c})
  BY <1>1, <1>2 DEF Begun, Found
<1>10. Travelling(q, stage, t, {c})
  BY <1>1, <1>6, <1>7, <1>8, <1>9 DEF Travelling
<1>11. InLine(t)
  BY SentLast, SentInLine DEF t
<1> QED
  BY <1>2, <1>3, <1>5, <1>10, <1>11 DEF InHand, t

\* A command has been handled.
Moved(stage, c) == [stage EXCEPT ![c] = @ + 1]

\* A command in hand moves on by a stage and overtakes none.
LEMMA MovedOn ==
    ASSUME AllDriven, NEW q, NEW stage, NEW s, NEW c, InHand(q, stage, s, c), stage[c] < Last
    PROVE  LET next == Moved(stage, c)
           IN  /\ next \in [Cmds -> 0 .. Last] /\ next[c] = stage[c] + 1 /\ next[c] # 0
               /\ \A d \in Cmds \ {c} : next[d] = stage[d]
               /\ Begun(next, s, {}) /\ NoOvertaking(next, s)
               /\ Placed(q, next, {c}) /\ Found(q, next, {c}) /\ InOrder(q, next, s)
<1> DEFINE next == Moved(stage, c)
<1>0. /\ c \in Cmds /\ c \in In(s) /\ InLine(s) /\ Travelling(q, stage, s, {c})
      /\ \A d \in Cmds : Before(s, d, c) => stage[d] > stage[c]
  BY DEF InHand
<1>1. /\ q \in [Nodes -> Seq(Messages)] /\ stage \in [Cmds -> 0 .. Last]
      /\ Begun(stage, s, {c}) /\ Placed(q, stage, {c}) /\ Found(q, stage, {c})
      /\ InOrder(q, stage, s) /\ NoOvertaking(stage, s)
  BY <1>0 DEF Travelling
<1>2. Last \in Nat /\ \A d \in Cmds : stage[d] \in Nat
  BY <1>1, Places
<1>3. /\ next \in [Cmds -> 0 .. Last] /\ next[c] = stage[c] + 1 /\ next[c] # 0
      /\ \A d \in Cmds \ {c} : next[d] = stage[d]
  <2>1. stage[c] + 1 \in 0 .. Last /\ stage[c] + 1 # 0
    BY <1>0, <1>2
  <2> QED
    BY <1>0, <1>1, <2>1 DEF Moved
<1> HIDE DEF next
<1>4. Begun(next, s, {})
  BY <1>0, <1>1, <1>3 DEF Begun
<1>5. NoOvertaking(next, s)
  <2> SUFFICES ASSUME NEW a \in Cmds, NEW b \in Cmds, Before(s, a, b) PROVE next[a] >= next[b]
    BY DEF NoOvertaking
  <2>1. stage[a] >= stage[b] /\ a # b
    BY <1>0, <1>1, Zenon DEF NoOvertaking, InLine
  <2>2. CASE b = c
    <3>1. stage[a] > stage[c] /\ next[a] = stage[a]
      BY <1>0, <1>3, <2>1, <2>2
    <3> QED
      BY <1>0, <1>2, <1>3, <2>2, <3>1
  <2>3. CASE a = c
    BY <1>0, <1>2, <1>3, <2>1, <2>3
  <2>4. CASE a # c /\ b # c
    BY <1>3, <2>1, <2>4
  <2> QED
    BY <2>2, <2>3, <2>4
<1>6. \A n \in Nodes : \A k \in 1 .. Len(q[n]) :
          q[n][k].cmd \in Cmds \ {c} /\ next[q[n][k].cmd] = stage[q[n][k].cmd]
  BY <1>0, <1>1, <1>3 DEF Placed, OnItsWay
<1>7. Placed(q, next, {c}) /\ InOrder(q, next, s)
  BY <1>1, <1>6 DEF Placed, InOrder, OnItsWay
<1>8. Found(q, next, {c})
  BY <1>0, <1>1, <1>3 DEF Found
<1> QED
  BY <1>3, <1>4, <1>5, <1>7, <1>8 DEF next

\* r are the queues q with x before the i-th message of controller m.
Inserted(r, q, m, i, x) ==
    /\ r \in [Nodes -> Seq(Messages)] /\ i \in 1 .. Len(q[m]) + 1
    /\ \A n \in Nodes : n # m => r[n] = q[n]
    /\ Len(r[m]) = Len(q[m]) + 1
    /\ \A k \in 1 .. Len(q[m]) + 1 :
          r[m][k] = IF k < i THEN q[m][k] ELSE IF k = i THEN x ELSE q[m][k - 1]

\* A command in hand goes, as message x, into the queue of its next stage, behind all
\* messages of that stage.
GoesOn(q, stage, s, c, next, m, x, r, i) ==
    /\ InHand(q, stage, s, c) /\ next = Moved(stage, c) /\ next[c] < Last
    /\ m \in Nodes /\ m = At(next[c]) /\ x.cmd = c /\ OnItsWay(m, x, next)
    /\ Inserted(r, q, m, i, x) /\ \A k \in i .. Len(q[m]) : stage[q[m][k].cmd] # next[c]

LEMMA PutIn ==
    ASSUME AllDriven, NEW q, NEW stage, NEW s, NEW c, NEW next, NEW m, NEW x, NEW r, NEW i,
           GoesOn(q, stage, s, c, next, m, x, r, i)
    PROVE  Travelling(r, next, s, {})
<1>a. /\ InHand(q, stage, s, c) /\ next = Moved(stage, c) /\ next[c] < Last
      /\ m \in Nodes /\ m = At(next[c]) /\ x.cmd = c /\ OnItsWay(m, x, next)
      /\ Inserted(r, q, m, i, x) /\ \A k \in i .. Len(q[m]) : stage[q[m][k].cmd] # next[c]
  BY DEF GoesOn
<1> USE <1>a
<1>0. /\ c \in Cmds /\ c \in In(s) /\ InLine(s) /\ Travelling(q, stage, s, {c})
      /\ \A d \in Cmds : Before(s, d, c) => stage[d] > stage[c]
  BY DEF InHand
<1>1. /\ q \in [Nodes -> Seq(Messages)] /\ stage \in [Cmds -> 0 .. Last]
      /\ Len(q[m]) \in Nat /\ Last \in Nat
  BY <1>0, Places DEF Travelling
<1>2. stage[c] < Last
  BY <1>0, <1>1 DEF Moved
<1>3. /\ next \in [Cmds -> 0 .. Last] /\ next[c] = stage[c] + 1 /\ next[c] # 0
      /\ \A d \in Cmds \ {c} : next[d] = stage[d]
      /\ Begun(next, s, {}) /\ NoOvertaking(next, s)
      /\ Placed(q, next, {c}) /\ Found(q, next, {c}) /\ InOrder(q, next, s)
  <2> DEFINE moved == Moved(stage, c)
  <2>1. /\ moved \in [Cmds -> 0 .. Last] /\ moved[c] = stage[c] + 1 /\ moved[c] # 0
        /\ \A d \in Cmds \ {c} : moved[d] = stage[d]
        /\ Begun(moved, s, {}) /\ NoOvertaking(moved, s)
        /\ Placed(q, moved, {c}) /\ Found(q, moved, {c}) /\ InOrder(q, moved, s)
    BY ONLY AllDriven, InHand(q, stage, s, c), <1>2, MovedOn, Zenon
  <2> QED
    BY <2>1, Zenon
<1>4. /\ r \in [Nodes -> Seq(Messages)] /\ i \in 1 .. Len(q[m]) + 1
      /\ \A n \in Nodes : n # m => r[n] = q[n]
      /\ Len(r[m]) = Len(q[m]) + 1
      /\ \A k \in 1 .. Len(q[m]) + 1 :
            r[m][k] = IF k < i THEN q[m][k] ELSE IF k = i THEN x ELSE q[m][k - 1]
  BY Zenon DEF Inserted
<1>5. i \in Nat /\ i \in 1 .. Len(r[m]) /\ r[m][i] = x
  BY <1>1, <1>4
\* Where the other messages come from.
<1>6. ASSUME NEW n \in Nodes, NEW k \in 1 .. Len(r[n]), ~(n = m /\ k = i)
      PROVE  \E l \in 1 .. Len(q[n]) :
                l = (IF n = m /\ k > i THEN k - 1 ELSE k) /\ r[n][k] = q[n][l]
  <2>1. CASE n = m /\ k < i
    <3>1. k \in 1 .. Len(q[m]) /\ k \in 1 .. Len(q[m]) + 1 /\ ~(k > i)
      BY <1>1, <1>4, <2>1
    <3>2. r[m][k] = q[m][k]
      BY <1>4, <2>1, <3>1, Zenon
    <3> QED
      BY <2>1, <3>1, <3>2, Zenon
  <2>2. CASE n = m /\ k > i
    <3>1. k - 1 \in 1 .. Len(q[m]) /\ k \in 1 .. Len(q[m]) + 1 /\ ~(k < i) /\ k # i
      BY <1>1, <1>4, <2>2
    <3>2. r[m][k] = q[m][k - 1]
      BY <1>4, <3>1, Zenon
    <3> QED
      BY <2>2, <3>1, <3>2, Zenon
  <2>3. CASE n # m
    BY <1>4, <2>3
  <2>4. CASE n = m
    <3>1. k < i \/ k > i
      BY <1>4, <1>5, <1>6, <2>4
    <3> QED
      BY <2>1, <2>2, <2>4, <3>1, Zenon
  <2> QED
    BY <2>3, <2>4
<1>7. Placed(r, next, {})
  <2> SUFFICES ASSUME NEW n \in Nodes, NEW k \in 1 .. Len(r[n])
               PROVE  OnItsWay(n, r[n][k], next)
    BY DEF Placed
  <2>1. CASE n = m /\ k = i
    BY <1>5, <2>1, Zenon
  <2>2. CASE ~(n = m /\ k = i)
    <3>1. PICK l \in 1 .. Len(q[n]) : r[n][k] = q[n][l]
      BY <1>6, <2>2
    <3> QED
      BY <1>3, <3>1 DEF Placed
  <2> QED
    BY <2>1, <2>2
<1>8. Found(r, next, {})
  <2> SUFFICES ASSUME NEW d \in Cmds, next[d] \in 1 .. Last - 1
               PROVE  \E k \in 1 .. Len(r[At(next[d])]) : r[At(next[d])][k].cmd = d
    BY DEF Found
  <2>1. CASE d = c
    BY <1>5, <2>1, Zenon
  <2>2. CASE d # c
    <3> DEFINE n == At(next[d])
    <3>1. n \in Nodes
      BY Places
    <3>2. PICK l \in 1 .. Len(q[n]) : q[n][l].cmd = d
      BY <1>3, <2>2 DEF Found
    <3> HIDE DEF n
    <3>3. CASE n # m
      BY <1>4, <3>1, <3>2, <3>3 DEF n
    <3>4. CASE n = m /\ l < i
      <4>1. l \in 1 .. Len(r[m]) /\ l \in 1 .. Len(q[m]) + 1
        BY <1>1, <1>4, <3>2, <3>4
      <4>2. r[m][l] = q[m][l]
        BY <1>4, <3>4, <4>1, Zenon
      <4> QED
        BY <3>2, <3>4, <4>1, <4>2, Zenon DEF n
    <3>5. CASE n = m /\ ~(l < i)
      <4>1. /\ l + 1 \in 1 .. Len(r[m]) /\ l + 1 \in 1 .. Len(q[m]) + 1
            /\ ~(l + 1 < i) /\ l + 1 # i /\ (l + 1) - 1 = l
        BY <1>1, <1>4, <3>2, <3>5
      <4>2. r[m][l + 1] = q[m][l]
        BY <1>4, <4>1
      <4> QED
        BY <3>2, <3>5, <4>1, <4>2, Zenon DEF n
    <3> QED
      BY <3>3, <3>4, <3>5
  <2> QED
    BY <2>1, <2>2
\* All messages of the next stage are of earlier commands and lie in front.
<1>9. ASSUME NEW k \in 1 .. Len(q[m]), next[q[m][k].cmd] = next[c]
      PROVE  k < i /\ Before(s, q[m][k].cmd, c)
  <2> DEFINE d == q[m][k].cmd
  <2>1. d \in Cmds \ {c} /\ d \in In(s)
    BY <1>0, StageOfMessage
  <2> HIDE DEF d
  <2>2. stage[d] = next[c] /\ stage[d] = stage[c] + 1
    BY <1>3, <1>9, <2>1, Zenon DEF d
  <2>3. k < i
    <3>1. k \notin i .. Len(q[m])
      BY <2>2, Zenon DEF d
    <3> QED
      BY <1>1, <1>5, <3>1
  <2>4. ~Before(s, c, d)
    <3>1. Before(s, c, d) => stage[c] >= stage[d]
      BY <1>0, <2>1, Zenon DEF Travelling, NoOvertaking
    <3>2. stage[c] \in Nat
      BY <1>0, <1>1
    <3> QED
      BY <2>2, <3>1, <3>2
  <2> QED
    BY <1>0, <2>1, <2>3, <2>4, Zenon DEF InLine, d
<1>10. InOrder(r, next, s)
  <2> SUFFICES ASSUME NEW n \in Nodes, NEW j \in 1 .. Len(r[n]), NEW k \in 1 .. Len(r[n]),
                      j < k, next[r[n][j].cmd] = next[r[n][k].cmd]
               PROVE  Before(s, r[n][j].cmd, r[n][k].cmd)
    BY DEF InOrder
  <2>1. CASE n = m /\ j = i
    <3>1. k # i /\ k > i
      BY <1>5, <2>1
    <3>2. PICK l \in 1 .. Len(q[m]) : l = k - 1 /\ r[m][k] = q[m][l]
      BY <1>6, <2>1, <3>1
    <3>3. next[q[m][l].cmd] = next[c]
      BY <1>5, <2>1, <3>2, Zenon
    <3>4. l < i
      BY <1>9, <3>3, Zenon
    <3> QED
      BY <1>5, <2>1, <3>2, <3>4
  <2>2. CASE n = m /\ k = i
    <3>1. j # i
      BY <1>5, <2>2
    <3>2. PICK l \in 1 .. Len(q[m]) : r[m][j] = q[m][l]
      BY <1>6, <2>2, <3>1
    <3>3. next[q[m][l].cmd] = next[c]
      BY <1>5, <2>2, <3>2, Zenon
    <3>4. Before(s, q[m][l].cmd, c)
      BY <1>9, <3>3, Zenon
    <3> QED
      BY <1>5, <2>2, <3>2, <3>4, Zenon
  <2>3. CASE ~(n = m /\ j = i) /\ ~(n = m /\ k = i)
    <3>1. PICK a \in 1 .. Len(q[n]) :
              a = (IF n = m /\ j > i THEN j - 1 ELSE j) /\ r[n][j] = q[n][a]
      BY <1>6, <2>3
    <3>2. PICK b \in 1 .. Len(q[n]) :
              b = (IF n = m /\ k > i THEN k - 1 ELSE k) /\ r[n][k] = q[n][b]
      BY <1>6, <2>3
    <3>3. a < b
      BY <1>5, <2>3, <3>1, <3>2
    <3> QED
      <4>1. InOrder(q, next, s) /\ next[q[n][a].cmd] = next[q[n][b].cmd]
        BY <1>3, <3>1, <3>2, Zenon
      <4>2. Before(s, q[n][a].cmd, q[n][b].cmd)
        BY <3>3, <4>1 DEF InOrder
      <4> QED
        BY <3>1, <3>2, <4>2, Zenon
  <2> QED
    BY <2>1, <2>2, <2>3
<1> QED
  BY <1>3, <1>4, <1>7, <1>8, <1>10, Zenon DEF Travelling

\* A command in hand that has been everywhere is done.
LEMMA Finished ==
    ASSUME AllDriven, NEW q, NEW stage, NEW s, NEW c, InHand(q, stage, s, c),
           NEW next, next = Moved(stage, c), stage[c] = Last - 1
    PROVE  Travelling(q, next, s, {})
<1>0. c \in Cmds /\ Travelling(q, stage, s, {c})
  BY DEF InHand
<1>1. Last \in Nat /\ stage[c] \in Nat /\ q \in [Nodes -> Seq(Messages)]
  BY <1>0, Places DEF Travelling
<1>2. stage[c] < Last
  BY <1>1
<1>3. /\ next \in [Cmds -> 0 .. Last] /\ next[c] = stage[c] + 1
      /\ Begun(next, s, {}) /\ NoOvertaking(next, s)
      /\ Placed(q, next, {c}) /\ Found(q, next, {c}) /\ InOrder(q, next, s)
  <2> DEFINE moved == Moved(stage, c)
  <2>1. /\ moved \in [Cmds -> 0 .. Last] /\ moved[c] = stage[c] + 1 /\ moved[c] # 0
        /\ \A d \in Cmds \ {c} : moved[d] = stage[d]
        /\ Begun(moved, s, {}) /\ NoOvertaking(moved, s)
        /\ Placed(q, moved, {c}) /\ Found(q, moved, {c}) /\ InOrder(q, moved, s)
    BY ONLY AllDriven, InHand(q, stage, s, c), <1>2, MovedOn, Zenon
  <2> QED
    BY <2>1, Zenon
<1>4. next[c] = Last
  BY <1>1, <1>3
<1>5. Placed(q, next, {})
  BY <1>3 DEF Placed
<1>6. Found(q, next, {})
  BY <1>1, <1>3, <1>4 DEF Found
<1> QED
  BY <1>1, <1>3, <1>5, <1>6 DEF Travelling

-----------------------------------------------------------------------------
(* What a controller obeys *)

\* No command of this kind was sent later.
Newest(s, kind, c) == c \in kind \cap In(s) /\ \A d \in kind : ~Before(s, c, d)

\* Controller n obeys the newest of a kind once that has passed it on the way down.
Obeys(n, s, stage, kind, obeyed) ==
    /\ kind \cap In(s) = {} => obeyed = NoCmd
    /\ \A c \in kind : Newest(s, kind, c) /\ stage[c] > Last - n => obeyed = c

\* A command that is sent now has passed nobody.
LEMMA ObeysWhenSent ==
    ASSUME AllDriven, NEW s \in Seq(Cmds), NoneTwice(s), NEW stage \in [Cmds -> 0 .. Last],
           NEW c \in Cmds, c \notin In(s), NEW next, next = Moved(stage, c),
           stage[c] = 0, NEW n \in 1 .. Top, NEW kind \in SUBSET Cmds, NEW obeyed,
           Obeys(n, s, stage, kind, obeyed)
    PROVE  Obeys(n, Append(s, c), next, kind, obeyed)
<1> DEFINE t == Append(s, c)
<1>1. /\ In(t) = In(s) \cup {c}
      /\ \A a, b : Before(t, a, b) <=> Before(s, a, b) \/ (a \in In(s) /\ b = c)
  BY SentLast
<1> HIDE DEF t
<1>2. next[c] = 1 /\ \A d \in Cmds : d # c => next[d] = stage[d]
  BY DEF Moved
<1>3. ~(next[c] > Last - n)
  BY <1>2, Places
<1>4. ASSUME NEW d \in kind, Newest(t, kind, d), next[d] > Last - n
      PROVE  obeyed = d
  <2>1. d # c
    BY <1>3, <1>4
  <2>2. Newest(s, kind, d) /\ stage[d] > Last - n
    BY <1>1, <1>2, <1>4, <2>1 DEF Newest
  <2> QED
    BY <2>2 DEF Obeys
<1>5. kind \cap In(t) = {} => obeyed = NoCmd
  BY <1>1 DEF Obeys
<1> QED
  BY <1>4, <1>5 DEF Obeys, t

\* A command handled elsewhere, or of another kind, changes nothing here.
LEMMA ObeysOthers ==
    ASSUME AllDriven, NEW s, NEW stage \in [Cmds -> 0 .. Last], NEW c \in Cmds,
           NEW next, next = Moved(stage, c),
           NEW n \in 1 .. Top, NEW kind \in SUBSET Cmds, NEW obeyed,
           stage[c] # Last - n \/ c \notin kind, Obeys(n, s, stage, kind, obeyed)
    PROVE  Obeys(n, s, next, kind, obeyed)
<1>1. \A d \in Cmds : next[d] = IF d = c THEN stage[c] + 1 ELSE stage[d]
  BY DEF Moved
<1>2. \A d \in Cmds : stage[d] \in Nat
  BY Places
<1>3. Last - n \in Nat
  BY Places
<1>4. ASSUME NEW d \in kind, next[d] > Last - n
      PROVE  stage[d] > Last - n
  BY <1>1, <1>2, <1>3, <1>4
<1> QED
  BY <1>4 DEF Obeys

\* A command handled here on the way down comes after all that have passed.
LEMMA ObeysThis ==
    ASSUME AllDriven, NEW s, NEW stage \in [Cmds -> 0 .. Last], InLine(s),
           NoOvertaking(stage, s), NEW c \in Cmds, c \in In(s),
           NEW next, next = Moved(stage, c),
           NEW n \in 1 .. Top, NEW kind \in SUBSET Cmds, c \in kind, stage[c] <= Last - n
    PROVE  Obeys(n, s, next, kind, c)
<1>1. \A d \in Cmds : next[d] = IF d = c THEN stage[c] + 1 ELSE stage[d]
  BY DEF Moved
<1>2. Last - n \in Nat /\ \A d \in Cmds : stage[d] \in Nat
  BY Places
<1>3. ASSUME NEW d \in kind, Newest(s, kind, d), next[d] > Last - n, d # c
      PROVE  FALSE
  <2>1. Before(s, c, d)
    BY <1>3 DEF Newest, InLine
  <2>2. stage[c] >= stage[d]
    BY <2>1 DEF NoOvertaking
  <2>3. stage[d] > Last - n
    BY <1>1, <1>3
  <2> QED
    BY <1>2, <2>2, <2>3
<1> QED
  BY <1>3 DEF Obeys

-----------------------------------------------------------------------------
(* Queues: the messages in a controller's buffer and then those on the bus *)

InLineFor(buf, bus) == [n \in Nodes |-> buf[n] \o bus[n]]
Queues == InLineFor(msgbuf, net)

\* Of a buffer b and a bus t of the same controller.
LEMMA TwoParts ==
    ASSUME NEW S, NEW b \in Seq(S), NEW t \in Seq(S)
    PROVE  /\ b \o t \in Seq(S) /\ Len(b \o t) = Len(b) + Len(t)
           /\ Len(b) \in Nat /\ Len(t) \in Nat
           /\ \A k \in 1 .. Len(b) : (b \o t)[k] = b[k] /\ k \in 1 .. Len(b \o t)
           /\ \A k \in 1 .. Len(t) : /\ Len(b) + k \in 1 .. Len(b \o t)
                                     /\ (b \o t)[Len(b) + k] = t[k]
<1>1. Len(b) \in Nat /\ Len(t) \in Nat
  OBVIOUS
<1>2. /\ b \o t \in Seq(S) /\ Len(b \o t) = Len(b) + Len(t)
      /\ \A k \in 1 .. Len(b) + Len(t) :
            (b \o t)[k] = IF k <= Len(b) THEN b[k] ELSE t[k - Len(b)]
  BY ConcatProperties
<1>3. ASSUME NEW k \in 1 .. Len(b)
      PROVE  k \in 1 .. Len(b) + Len(t) /\ k <= Len(b)
  BY <1>1
<1>4. ASSUME NEW k \in 1 .. Len(t)
      PROVE  Len(b) + k \in 1 .. Len(b) + Len(t) /\ ~(Len(b) + k <= Len(b))
             /\ (Len(b) + k) - Len(b) = k
  BY <1>1
<1>5. ASSUME NEW k \in 1 .. Len(b)
      PROVE  (b \o t)[k] = b[k]
  BY <1>2, <1>3, Zenon
<1>6. ASSUME NEW k \in 1 .. Len(t)
      PROVE  (b \o t)[Len(b) + k] = t[k]
  <2>1. (b \o t)[Len(b) + k] = t[(Len(b) + k) - Len(b)]
    BY <1>2, <1>4, Zenon
  <2> QED
    BY <1>4, <2>1
<1> QED
  BY <1>1, <1>2, <1>3, <1>4, <1>5, <1>6

\* The oldest message of a controller is the oldest in its buffer.
LEMMA OldestFirst ==
    ASSUME NEW S, NEW b \in Seq(S), NEW t \in Seq(S), b # << >>
    PROVE  /\ b \o t # << >> /\ (b \o t)[1] = Head(b) /\ Tail(b) \in Seq(S)
           /\ Tail(b) \o t = Tail(b \o t)
<1>1. Len(b) \in Nat \ {0} /\ Len(t) \in Nat
  BY EmptySeq
<1>2. b \o t \in Seq(S) /\ Len(b \o t) = Len(b) + Len(t) /\ (b \o t)[1] = b[1]
  BY <1>1, TwoParts
<1>3. b \o t # << >>
  BY <1>1, <1>2, EmptySeq
<1>4. Head(b) = b[1] /\ Tail(b) \in Seq(S) /\ Len(Tail(b)) = Len(b) - 1
      /\ \A k \in 1 .. Len(b) - 1 : Tail(b)[k] = b[k + 1]
  BY HeadTailProperties
<1>5. Tail(b) \o t = Tail(b \o t)
  <2> SUFFICES \A k \in 1 .. Len(b) + Len(t) - 1 :
                  (Tail(b) \o t)[k] = Tail(b \o t)[k]
    <3>1. /\ Tail(b) \o t \in Seq(S) /\ Len(Tail(b) \o t) = Len(b) + Len(t) - 1
      BY <1>1, <1>4, TwoParts
    <3>2. Tail(b \o t) \in Seq(S) /\ Len(Tail(b \o t)) = Len(b) + Len(t) - 1
      BY <1>2, <1>3, HeadTailProperties
    <3> QED
      BY <3>1, <3>2, SeqEqual
  <2> TAKE k \in 1 .. Len(b) + Len(t) - 1
  <2>1. Tail(b \o t)[k] = (b \o t)[k + 1]
    BY <1>2, <1>3, HeadTailProperties
  <2>2. (b \o t)[k + 1] = IF k + 1 <= Len(b) THEN b[k + 1] ELSE t[k + 1 - Len(b)]
    BY <1>1, ConcatProperties
  <2>3. (Tail(b) \o t)[k] = IF k <= Len(b) - 1 THEN Tail(b)[k] ELSE t[k - (Len(b) - 1)]
    BY <1>1, <1>4, ConcatProperties
  <2>4. CASE k <= Len(b) - 1
    BY <1>1, <1>4, <2>1, <2>2, <2>3, <2>4
  <2>5. CASE ~(k <= Len(b) - 1)
    <3>1. ~(k + 1 <= Len(b)) /\ k + 1 - Len(b) = k - (Len(b) - 1)
      BY <1>1, <2>5
    <3> QED
      BY <2>1, <2>2, <2>3, <2>5, <3>1
  <2> QED
    BY <2>4, <2>5
<1> QED
  BY <1>2, <1>3, <1>4, <1>5

\* A packet received goes from the head of the bus to the end of the buffer.
LEMMA ReceivedInLine ==
    ASSUME NEW S, NEW b \in Seq(S), NEW t \in Seq(S), t # << >>
    PROVE  /\ WithoutAt(t, 1) \in Seq(S) /\ Len(WithoutAt(t, 1)) = Len(t) - 1
           /\ \A k \in 1 .. Len(t) - 1 : WithoutAt(t, 1)[k] = t[k + 1]
           /\ Append(b, t[1]) \o WithoutAt(t, 1) = b \o t
<1> DEFINE w == WithoutAt(t, 1)
           a == Append(b, t[1])
<1>1. Len(b) \in Nat /\ Len(t) \in Nat \ {0} /\ t[1] \in S
  BY EmptySeq
<1>2. w \in Seq(S)
  BY <1>1, WithoutAtIn
<1>3. w = [k \in 1 .. Len(t) - 1 |-> t[k + 1]]
  BY DEF WithoutAt
<1>4. Len(w) = Len(t) - 1 /\ \A k \in 1 .. Len(t) - 1 : w[k] = t[k + 1]
  BY <1>1, <1>2, <1>3
<1>5. a \in Seq(S) /\ Len(a) = Len(b) + 1 /\ a[Len(b) + 1] = t[1]
      /\ \A k \in 1 .. Len(b) : a[k] = b[k]
  BY <1>1, AppendProperties
<1> HIDE DEF w, a
<1>6. a \o w \in Seq(S) /\ Len(a \o w) = Len(b) + Len(t)
  <2>1. a \o w \in Seq(S) /\ Len(a \o w) = Len(a) + Len(w)
    BY <1>2, <1>5, TwoParts
  <2> QED
    BY <1>1, <1>4, <1>5, <2>1
<1>7. b \o t \in Seq(S) /\ Len(b \o t) = Len(b) + Len(t)
  BY TwoParts
<1>8. ASSUME NEW k \in 1 .. Len(b) + Len(t)
      PROVE  (a \o w)[k] = (b \o t)[k]
  <2>1. (b \o t)[k] = IF k <= Len(b) THEN b[k] ELSE t[k - Len(b)]
    BY ConcatProperties
  <2>2. (a \o w)[k] = IF k <= Len(b) + 1 THEN a[k] ELSE w[k - (Len(b) + 1)]
    <3>1. k \in 1 .. Len(a) + Len(w)
      BY <1>1, <1>4, <1>5
    <3>2. (a \o w)[k] = IF k <= Len(a) THEN a[k] ELSE w[k - Len(a)]
      BY <1>2, <1>5, <3>1, ConcatProperties
    <3> QED
      BY <1>5, <3>2
  <2>3. CASE k <= Len(b)
    BY <1>1, <1>5, <2>1, <2>2, <2>3
  <2>4. CASE k = Len(b) + 1
    BY <1>1, <1>5, <2>1, <2>2, <2>4
  <2>5. CASE k > Len(b) + 1
    <3>1. /\ k - (Len(b) + 1) \in 1 .. Len(t) - 1
          /\ k - (Len(b) + 1) + 1 = k - Len(b) /\ ~(k <= Len(b)) /\ ~(k <= Len(b) + 1)
      BY <1>1, <2>5
    <3>2. w[k - (Len(b) + 1)] = t[k - Len(b)]
      BY <1>4, <3>1
    <3> QED
      <4>1. (b \o t)[k] = t[k - Len(b)]
        BY <2>1, <3>1, Zenon
      <4>2. (a \o w)[k] = w[k - (Len(b) + 1)]
        BY <2>2, <3>1, Zenon
      <4> QED
        BY <3>2, <4>1, <4>2, Zenon
  <2>6. k <= Len(b) \/ k = Len(b) + 1 \/ k > Len(b) + 1
    BY <1>1
  <2> QED
    BY <2>3, <2>4, <2>5, <2>6, Zenon
<1> QED
  BY <1>2, <1>4, <1>6, <1>7, <1>8, SeqEqual DEF w, a

\* A packet sent comes last.
LEMMA SentIsLast ==
    ASSUME NEW q \in [Nodes -> Seq(Messages)], NEW buf \in [Nodes -> Seq(Messages)],
           NEW bus \in [Nodes -> Seq(Messages)], q = InLineFor(buf, bus),
           NEW m \in Nodes, NEW x \in Messages,
           NEW r, r = InLineFor(buf, [bus EXCEPT ![m] = Append(@, x)])
    PROVE  Inserted(r, q, m, Len(q[m]) + 1, x)
<1> DEFINE b == buf[m]
           t == bus[m]
<1>1. b \in Seq(Messages) /\ t \in Seq(Messages) /\ q[m] = b \o t
      /\ Append(t, x) \in Seq(Messages) /\ Len(Append(t, x)) = Len(t) + 1
      /\ Append(t, x)[Len(t) + 1] = x /\ \A k \in 1 .. Len(t) : Append(t, x)[k] = t[k]
  <2>1. b \in Seq(Messages) /\ t \in Seq(Messages) /\ q[m] = b \o t
    BY DEF InLineFor
  <2> HIDE DEF b, t
  <2> QED
    BY <2>1, AppendProperties
<1>2. /\ r = [n \in Nodes |-> IF n = m THEN b \o Append(t, x) ELSE q[n]]
  BY DEF InLineFor
<1> HIDE DEF b, t
<1>3. /\ Len(b) \in Nat /\ Len(t) \in Nat /\ Len(q[m]) = Len(b) + Len(t)
      /\ b \o Append(t, x) \in Seq(Messages)
      /\ Len(b \o Append(t, x)) = Len(b) + Len(t) + 1
  BY <1>1, TwoParts
<1>4. r \in [Nodes -> Seq(Messages)] /\ r[m] = b \o Append(t, x)
      /\ \A n \in Nodes : n # m => r[n] = q[n]
  BY <1>2, <1>3
<1>5. ASSUME NEW k \in 1 .. Len(q[m]) + 1
      PROVE  r[m][k] = IF k < Len(q[m]) + 1 THEN q[m][k]
                       ELSE IF k = Len(q[m]) + 1 THEN x ELSE q[m][k - 1]
  <2>1. r[m][k] = IF k <= Len(b) THEN b[k] ELSE Append(t, x)[k - Len(b)]
    <3>1. k \in 1 .. Len(b) + Len(Append(t, x))
      BY <1>1, <1>3
    <3>2. (b \o Append(t, x))[k] = IF k <= Len(b) THEN b[k] ELSE Append(t, x)[k - Len(b)]
      BY <1>1, <3>1, ConcatProperties
    <3> QED
      BY <1>4, <3>2, Zenon
  <2>2. k < Len(q[m]) + 1 => q[m][k] = IF k <= Len(b) THEN b[k] ELSE t[k - Len(b)]
    BY <1>1, <1>3, ConcatProperties
  <2>3. CASE k = Len(q[m]) + 1
    <3>1. ~(k <= Len(b)) /\ k - Len(b) = Len(t) + 1 /\ ~(k < Len(q[m]) + 1)
      BY <1>3, <2>3
    <3> QED
      BY <1>1, <2>1, <2>3, <3>1
  <2>4. CASE k < Len(q[m]) + 1 /\ k <= Len(b)
    BY <2>1, <2>2, <2>4
  <2>5. CASE k < Len(q[m]) + 1 /\ ~(k <= Len(b))
    <3>1. k - Len(b) \in 1 .. Len(t)
      BY <1>3, <2>5
    <3> QED
      BY <1>1, <2>1, <2>2, <2>5, <3>1
  <2> QED
    BY <1>3, <2>3, <2>4, <2>5
<1>6. Len(r[m]) = Len(q[m]) + 1 /\ Len(q[m]) + 1 \in 1 .. Len(q[m]) + 1
  BY <1>3, <1>4
<1> QED
  BY <1>4, <1>5, <1>6 DEF Inserted

\* A command typed at the first controller comes last in its buffer, before the bus.
LEMMA TypedIsBuffered ==
    ASSUME NEW q \in [Nodes -> Seq(Messages)], NEW buf \in [Nodes -> Seq(Messages)],
           NEW bus \in [Nodes -> Seq(Messages)], q = InLineFor(buf, bus),
           NEW m \in Nodes, NEW x \in Messages,
           NEW r, r = InLineFor([buf EXCEPT ![m] = Append(@, x)], bus)
    PROVE  Inserted(r, q, m, Len(buf[m]) + 1, x)
<1> DEFINE b == buf[m]
           t == bus[m]
<1>1. b \in Seq(Messages) /\ t \in Seq(Messages) /\ q[m] = b \o t
      /\ Append(b, x) \in Seq(Messages) /\ Len(Append(b, x)) = Len(b) + 1
      /\ Append(b, x)[Len(b) + 1] = x /\ \A k \in 1 .. Len(b) : Append(b, x)[k] = b[k]
  <2>1. b \in Seq(Messages) /\ t \in Seq(Messages) /\ q[m] = b \o t
    BY DEF InLineFor
  <2> HIDE DEF b, t
  <2> QED
    BY <2>1, AppendProperties
<1>2. /\ r = [n \in Nodes |-> IF n = m THEN Append(b, x) \o t ELSE q[n]]
  BY DEF InLineFor
<1> HIDE DEF b, t
<1>3. /\ Len(b) \in Nat /\ Len(t) \in Nat /\ Len(q[m]) = Len(b) + Len(t)
      /\ Append(b, x) \o t \in Seq(Messages)
      /\ Len(Append(b, x) \o t) = Len(b) + Len(t) + 1
  <2>1. /\ Len(b) \in Nat /\ Len(t) \in Nat /\ Len(q[m]) = Len(b) + Len(t)
        /\ Append(b, x) \o t \in Seq(Messages)
        /\ Len(Append(b, x) \o t) = Len(b) + 1 + Len(t)
    BY <1>1, TwoParts
  <2> QED
    BY <2>1
<1>4. r \in [Nodes -> Seq(Messages)] /\ r[m] = Append(b, x) \o t
      /\ \A n \in Nodes : n # m => r[n] = q[n]
  BY <1>2, <1>3
<1>5. ASSUME NEW k \in 1 .. Len(q[m]) + 1
      PROVE  r[m][k] = IF k < Len(b) + 1 THEN q[m][k]
                       ELSE IF k = Len(b) + 1 THEN x ELSE q[m][k - 1]
  <2>1. r[m][k] = IF k <= Len(b) + 1 THEN Append(b, x)[k] ELSE t[k - (Len(b) + 1)]
    <3>1. k \in 1 .. Len(Append(b, x)) + Len(t)
      BY <1>1, <1>3
    <3>2. (Append(b, x) \o t)[k] = IF k <= Len(Append(b, x)) THEN Append(b, x)[k]
                                  ELSE t[k - Len(Append(b, x))]
      BY <1>1, <3>1, ConcatProperties
    <3> QED
      BY <1>1, <1>4, <3>2, Zenon
  <2>2. \A l \in 1 .. Len(b) + Len(t) : q[m][l] = IF l <= Len(b) THEN b[l] ELSE t[l - Len(b)]
    BY <1>1, <1>3, ConcatProperties
  <2>3. CASE k = Len(b) + 1
    BY <1>1, <1>3, <2>1, <2>3
  <2>4. CASE k < Len(b) + 1
    <3>1. k \in 1 .. Len(b) /\ k \in 1 .. Len(b) + Len(t) /\ k <= Len(b) /\ k <= Len(b) + 1
      BY <1>3, <2>4
    <3> QED
      BY <1>1, <2>1, <2>2, <2>4, <3>1
  <2>5. CASE k > Len(b) + 1
    <3>1. /\ k - 1 \in 1 .. Len(b) + Len(t) /\ ~(k - 1 <= Len(b)) /\ ~(k <= Len(b) + 1)
          /\ (k - 1) - Len(b) = k - (Len(b) + 1) /\ ~(k < Len(b) + 1) /\ k # Len(b) + 1
      BY <1>3, <2>5
    <3> QED
      BY <2>1, <2>2, <3>1
  <2> QED
    BY <1>3, <2>3, <2>4, <2>5
<1>6. Len(r[m]) = Len(q[m]) + 1 /\ Len(b) + 1 \in 1 .. Len(q[m]) + 1
  BY <1>3, <1>4
<1> QED
  BY <1>4, <1>5, <1>6 DEF Inserted, b

-----------------------------------------------------------------------------
(* A step of a message *)

\* The id a message is forwarded to, and what is forwarded.
Hop(n, m) == IF DidReachAll(NewReach(n, m)) THEN n - 1 ELSE n + 1
Onward(n, m) == [id |-> Hop(n, m), cmd |-> m.cmd, reach |-> NewReach(n, m)]

\* The reach field is complete from the top of the ladder on, and not before.
LEMMA ReachOnTheWay ==
    ASSUME AllDriven, NEW n \in Nodes, NEW stage \in [Cmds -> 0 .. Last],
           NEW m \in Messages, OnItsWay(n, m, stage)
    PROVE  /\ NewReach(n, m) = IF stage[m.cmd] = n THEN Below(n) ELSE Dampers
           /\ DidReachAll(NewReach(n, m)) <=> stage[m.cmd] = Last - n
           /\ n \in 1 .. Top /\ (n = Top <=> Last - n = n)
           /\ stage[m.cmd] \in {n, Last - n}
<1>1. /\ Top \in Nat \ {0} /\ Top <= N /\ N \in Nat \ {0} /\ Below(Top) = Dampers
      /\ \A k \in 0 .. Top - 1 : Below(k) # Dampers
  BY TopFacts, ChainAssumption DEF AllDriven
<1>2. /\ n \in 1 .. Top
      /\ \/ stage[m.cmd] = n /\ m.reach = Below(n - 1)
         \/ stage[m.cmd] = Last - n /\ n < Top /\ m.reach = Dampers
  BY DEF OnItsWay
<1>3. n \in 1 .. N /\ (n < Top => n # Last - n) /\ (n = Top <=> Last - n = n)
  BY <1>1, <1>2 DEF Last
<1>4. Below(n) = Below(n - 1) \cup InstalledAt[n] /\ InstalledAt[n] \subseteq Dampers
  BY <1>3, BelowGrows
<1>5. CASE stage[m.cmd] = n /\ m.reach = Below(n - 1)
  <2>1. NewReach(n, m) = Below(n)
    BY <1>4, <1>5 DEF NewReach
  <2>2. CASE n = Top
    BY <1>1, <1>2, <1>3, <1>5, <2>1, <2>2 DEF DidReachAll
  <2>3. CASE n # Top
    <3>1. n \in 0 .. Top - 1 /\ n < Top
      BY <1>1, <1>2, <2>3
    <3> QED
      BY <1>1, <1>2, <1>3, <1>5, <2>1, <2>3, <3>1 DEF DidReachAll
  <2> QED
    BY <2>2, <2>3
<1>6. CASE stage[m.cmd] = Last - n /\ n < Top /\ m.reach = Dampers
  <2>1. NewReach(n, m) = Dampers
    BY <1>4, <1>6 DEF NewReach
  <2> QED
    BY <1>2, <1>3, <1>6, <2>1 DEF DidReachAll
<1> QED
  BY <1>2, <1>5, <1>6

\* A message is forwarded to the place of its next stage, or it has been everywhere and
\* is forwarded to nobody.
LEMMA ForwardedOnItsWay ==
    ASSUME AllDriven, NEW n \in Nodes, NEW stage \in [Cmds -> 0 .. Last],
           NEW m \in Messages, OnItsWay(n, m, stage),
           NEW next, next = Moved(stage, m.cmd)
    PROVE  /\ NextIds(n, m) = {Hop(n, m)}
           /\ stage[m.cmd] = Last - 1 => Hop(n, m) \notin Nodes
           /\ stage[m.cmd] # Last - 1 =>
                 /\ next[m.cmd] < Last /\ Hop(n, m) \in Nodes
                 /\ Hop(n, m) = At(next[m.cmd])
                 /\ OnItsWay(Hop(n, m), Onward(n, m), next)
<1> DEFINE c == m.cmd
           h == Hop(n, m)
<1>1. Top \in Nat \ {0} /\ Top <= N /\ N \in Nat \ {0} /\ Below(Top) = Dampers
  BY TopFacts, ChainAssumption DEF AllDriven
<1>2. /\ NewReach(n, m) = IF stage[c] = n THEN Below(n) ELSE Dampers
      /\ DidReachAll(NewReach(n, m)) <=> stage[c] = Last - n
      /\ n \in 1 .. Top /\ (n = Top <=> Last - n = n)
      /\ stage[c] \in {n, Last - n}
  BY ReachOnTheWay
<1>3. c \in Cmds /\ m.id = n /\ n # BROADCAST
  BY <1>2 DEF OnItsWay, BROADCAST
<1>4. next[c] = stage[c] + 1
  BY <1>3 DEF Moved
<1>5. NextIds(n, m) = {h}
  BY <1>3 DEF NextIds, Hop
<1>6. h = IF stage[c] = Last - n THEN n - 1 ELSE n + 1
  BY <1>2 DEF Hop
<1>7. /\ Onward(n, m).cmd = c /\ Onward(n, m).id = h
      /\ Onward(n, m).reach = NewReach(n, m)
  BY DEF Onward
<1> HIDE DEF c, h
<1>8. CASE stage[c] = Last - n
  <2>1. h = n - 1 /\ NewReach(n, m) = Dampers
    BY <1>1, <1>2, <1>6, <1>8
  <2>2. CASE stage[c] = Last - 1
    <3>1. h = 0
      BY <1>1, <1>2, <1>8, <2>1, <2>2 DEF Last
    <3> QED
      BY <1>1, <1>5, <2>2, <3>1 DEF Nodes, c, h
  <2>3. CASE stage[c] # Last - 1
    <3>1. /\ h \in 1 .. Top /\ h < Top /\ next[c] = Last - h
          /\ h = At(next[c]) /\ h \in 1 .. N
          /\ next[c] < Last
      BY <1>1, <1>2, <1>4, <1>8, <2>1, <2>3 DEF Last, At
    <3>2. OnItsWay(h, Onward(n, m), next)
      BY <1>3, <1>7, <2>1, <3>1 DEF OnItsWay
    <3> QED
      BY <1>5, <2>3, <3>1, <3>2 DEF Nodes, c, h
  <2> QED
    BY <2>2, <2>3
<1>9. CASE stage[c] # Last - n
  <2>1. stage[c] = n /\ n # Top /\ h = n + 1 /\ NewReach(n, m) = Below(n)
    BY <1>2, <1>6, <1>9
  <2>2. /\ h \in 1 .. Top /\ next[c] = h /\ h = At(next[c]) /\ h \in 1 .. N
        /\ next[c] < Last /\ h - 1 = n /\ stage[c] # Last - 1
    BY <1>1, <1>2, <1>4, <2>1 DEF Last, At
  <2>3. OnItsWay(h, Onward(n, m), next)
    BY <1>3, <1>7, <2>1, <2>2 DEF OnItsWay
  <2> QED
    BY <1>5, <2>2, <2>3 DEF Nodes, c, h
<1> QED
  BY <1>8, <1>9

-----------------------------------------------------------------------------
(* The invariant *)

\* Nothing is lost: the bus delivers all in order, one console sends everything to the
\* first controller, and there are no more commands than the buffers hold.
NothingIsLost(p) ==
    /\ Faults = {} /\ Injectors \subseteq {p}
    /\ \A c \in Cmds : Destinations[c] \subseteq {1}
    /\ IsFiniteSet(Cmds) /\ Cardinality(Cmds) <= PJON_MSGBUF_LEN
    /\ Cardinality(Cmds) <= MaxPackets

AllObey(s, stage) ==
    \A n \in 1 .. Top : /\ Obeys(n, s, stage, DamperCmds, dampers[n])
                        /\ Obeys(n, s, stage, DamperCmds, fanBy[n])
                        /\ Obeys(n, s, stage, SettingsCmds, settings[n])

\* Where commands are typed at the first controller, none comes to it from the bus
\* on its way up.
NoneFromBelow(stage) ==
    1 \in Injectors => \A k \in 1 .. Len(net[1]) : stage[net[1][k].cmd] # 1

Agreeing(stage) ==
    Travelling(Queues, stage, sent, {}) /\ AllObey(sent, stage) /\ NoneFromBelow(stage)

AgreeInv == NoneTwice(sent) /\ \E stage : Agreeing(stage)

\* The messages of a controller are messages, and those on its bus are among them.
LEMMA QueuesTyped ==
    ASSUME TypeOK
    PROVE  /\ Queues \in [Nodes -> Seq(Messages)]
           /\ \A n \in Nodes : /\ msgbuf[n] \in Seq(Messages) /\ net[n] \in Seq(Messages)
                               /\ Len(msgbuf[n]) \in Nat /\ Len(net[n]) \in Nat
                               /\ Queues[n] = msgbuf[n] \o net[n]
                               /\ Len(Queues[n]) = Len(msgbuf[n]) + Len(net[n])
           /\ \A n \in Nodes : \A k \in 1 .. Len(net[n]) :
                  /\ Len(msgbuf[n]) + k \in 1 .. Len(Queues[n])
                  /\ Queues[n][Len(msgbuf[n]) + k] = net[n][k]
<1>1. \A n \in Nodes : msgbuf[n] \in Seq(Messages) /\ net[n] \in Seq(Messages)
  BY DEF TypeOK
<1>2. \A n \in Nodes : Queues[n] = msgbuf[n] \o net[n]
  BY DEF Queues, InLineFor
<1>3. ASSUME NEW n \in Nodes
      PROVE  /\ Queues[n] \in Seq(Messages)
             /\ Len(msgbuf[n]) \in Nat /\ Len(net[n]) \in Nat
             /\ Len(Queues[n]) = Len(msgbuf[n]) + Len(net[n])
             /\ \A k \in 1 .. Len(net[n]) :
                  /\ Len(msgbuf[n]) + k \in 1 .. Len(Queues[n])
                  /\ Queues[n][Len(msgbuf[n]) + k] = net[n][k]
  <2>1. PICK b \in Seq(Messages), t \in Seq(Messages) : b = msgbuf[n] /\ t = net[n]
    BY <1>1
  <2>2. /\ b \o t \in Seq(Messages) /\ Len(b \o t) = Len(b) + Len(t)
        /\ Len(b) \in Nat /\ Len(t) \in Nat
        /\ \A k \in 1 .. Len(t) : /\ Len(b) + k \in 1 .. Len(b \o t)
                                  /\ (b \o t)[Len(b) + k] = t[k]
    BY TwoParts
  <2> QED
    BY <1>2, <2>1, <2>2, Zenon
<1>4. Queues \in [Nodes -> Seq(Messages)]
  BY <1>3 DEF Queues, InLineFor
<1> QED
  BY <1>1, <1>2, <1>3, <1>4

\* At the start nothing is sent.
LEMMA AgreedAtFirst ==
    ASSUME AllDriven, Init
    PROVE  AgreeInv
<1> DEFINE stage == [c \in Cmds |-> 0]
<1>1. /\ sent = << >> /\ Len(sent) = 0 /\ In(sent) = {} /\ NoneTwice(sent)
      /\ \A c, d : ~Before(sent, c, d)
  BY DEF Init, In, Before, NoneTwice
<1>2. Queues = [n \in Nodes |-> << >>]
  BY DEF Init, Queues, InLineFor
<1>3. Last \in Nat /\ Last > 0
  BY Places
<1>4. Queues \in [Nodes -> Seq(Messages)] /\ stage \in [Cmds -> 0 .. Last]
      /\ \A n \in Nodes : Len(Queues[n]) = 0
  BY <1>2, <1>3
<1>5. Begun(stage, sent, {}) /\ NoOvertaking(stage, sent)
  BY <1>1, <1>3 DEF Begun, NoOvertaking
<1>6. Placed(Queues, stage, {}) /\ InOrder(Queues, stage, sent) /\ Found(Queues, stage, {})
  BY <1>3, <1>4 DEF Placed, InOrder, Found
<1>7. AllObey(sent, stage)
  <2> SUFFICES ASSUME NEW n \in 1 .. Top
               PROVE  /\ Obeys(n, sent, stage, DamperCmds, dampers[n])
                      /\ Obeys(n, sent, stage, DamperCmds, fanBy[n])
                      /\ Obeys(n, sent, stage, SettingsCmds, settings[n])
    BY DEF AllObey
  <2>1. n \in Nodes
    BY Places
  <2> QED
    BY <1>1, <2>1 DEF Obeys, Newest, Init
<1>8. NoneFromBelow(stage)
  <2>1. 1 \in Injectors => 1 \in Nodes
    BY ChainAssumption
  <2> QED
    BY <2>1 DEF NoneFromBelow, Init
<1> QED
  BY <1>1, <1>4, <1>5, <1>6, <1>7, <1>8 DEF AgreeInv, Agreeing, Travelling

\* A command sent enters the queue of the first controller.
LEMMA InjectAgrees ==
    ASSUME AllDriven, NEW p \in Nodes, NothingIsLost(p), TypeOK, TypeOK', AgreeInv,
           NEW n \in Injectors, NEW c \in Cmds, NEW dst \in Destinations[c], Inject(n, dst, c)
    PROVE  AgreeInv'
<1> DEFINE x == [id |-> 1, cmd |-> c, reach |-> {}]
<1>0. PICK t : t = Append(sent, c)
  OBVIOUS
<1>1. n = p /\ dst = 1 /\ n \in Nodes
  BY DEF NothingIsLost
<1>2. PICK stage : Agreeing(stage)
  BY DEF AgreeInv
<1>3. /\ Travelling(Queues, stage, sent, {}) /\ AllObey(sent, stage) /\ NoneFromBelow(stage)
      /\ NoneTwice(sent) /\ sent \in Seq(Cmds) /\ stage \in [Cmds -> 0 .. Last]
  BY <1>2 DEF Agreeing, AgreeInv, TypeOK, Travelling
<1>4. c \notin In(sent) /\ sent' = t
  BY <1>0 DEF Inject, In
<1>5. InHand(Queues, stage, t, c) /\ stage[c] = 0
  BY <1>0, <1>3, <1>4, Announced
<1>6. NoneTwice(t)
  BY <1>0, <1>3, <1>4, SentLast
<1>7. PICK next : next = Moved(stage, c)
  OBVIOUS
<1>8. next[c] = 1 /\ \A d \in Cmds : d # c => next[d] = stage[d]
  BY <1>3, <1>5, <1>7 DEF Moved
<1>9. 1 \in Nodes /\ 1 \in 1 .. Top /\ 1 = At(1) /\ 1 < Last
  <2>1. Top \in Nat \ {0} /\ N \in Nat \ {0}
    BY TopFacts, ChainAssumption DEF AllDriven
  <2> QED
    BY <2>1 DEF Nodes, At, Last
<1>10. x \in Messages /\ x.cmd = c /\ OnItsWay(1, x, next)
  BY <1>8, <1>9, BelowGrows DEF Messages, OnItsWay
<1> HIDE DEF x
<1>18. Queues \in [Nodes -> Seq(Messages)]
  BY QueuesTyped
<1>11. /\ Len(Queues[1]) = Len(msgbuf[1]) + Len(net[1])
       /\ Len(msgbuf[1]) \in Nat /\ Len(net[1]) \in Nat
  BY <1>9, QueuesTyped
<1>19. PICK lq \in Nat, lb \in Nat, lt \in Nat :
          /\ lq = Len(Queues[1]) /\ lb = Len(msgbuf[1]) /\ lt = Len(net[1])
          /\ lq = lb + lt
  <2>1. \A a, b \in Nat : a + b \in Nat
    OBVIOUS
  <2> QED
    BY <1>11, <2>1, Zenon
<1>20. lq = lb + lt /\ lq \in Nat /\ lb \in Nat /\ lt \in Nat
  BY <1>19, Zenon
<1>12. Len(msgbuf[1]) < PJON_MSGBUF_LEN /\ Len(net[1]) < MaxPackets
  <2>1. lq < Cardinality(Cmds) /\ Cardinality(Cmds) \in Nat
    <3>1. InLine(t) /\ Travelling(Queues, stage, t, {c}) /\ IsFiniteSet(Cmds)
      BY <1>5 DEF InHand, NothingIsLost
    <3>2. /\ Cardinality(Cmds) \in Nat
          /\ \A d \in {c} \cap Cmds : Len(Queues[1]) < Cardinality(Cmds)
      BY ONLY AllDriven, <1>9, <3>1, Room, Zenon
    <3> QED
      BY <1>19, <3>2, Zenon
  <2>2. /\ PJON_MSGBUF_LEN \in Nat /\ MaxPackets \in Nat
        /\ Cardinality(Cmds) <= PJON_MSGBUF_LEN /\ Cardinality(Cmds) <= MaxPackets
    BY ChainAssumption DEF NothingIsLost
  <2> QED
    <3>1. lb < PJON_MSGBUF_LEN /\ lt < MaxPackets
      BY <1>20, <2>1, <2>2
    <3> QED
      BY <1>19, <3>1, Zenon
<1>13. net \in [Nodes -> Seq(Messages)] /\ msgbuf \in [Nodes -> Seq(Messages)]
  BY DEF TypeOK
<1>14. PICK i : /\ Inserted(Queues', Queues, 1, i, x)
                /\ \A k \in i .. Len(Queues[1]) : stage[Queues[1][k].cmd] # 1
  <2>1. CASE n = 1
    <3>1. msgbuf' = [msgbuf EXCEPT ![1] = Append(@, x)]
      BY <1>1, <1>12, <2>1 DEF Inject, Buffered, x
    <3>2. net' = net
      BY <1>1, <1>13, <2>1 DEF Inject, Send, BROADCAST
    <3>3. Queues' = InLineFor([msgbuf EXCEPT ![1] = Append(@, x)], net)
      BY <3>1, <3>2 DEF Queues
    <3>4. Queues = InLineFor(msgbuf, net)
      BY DEF Queues
    <3>5. Inserted(Queues', Queues, 1, Len(msgbuf[1]) + 1, x)
      BY ONLY <1>9, <1>10, <1>18, <1>13, <3>3, <3>4, TypedIsBuffered, Zenon
    <3>6. ASSUME NEW k \in lb + 1 .. lq
          PROVE  stage[Queues[1][k].cmd] # 1
      <4>1. k - lb \in 1 .. lt /\ lb + (k - lb) = k
        BY <1>20
      <4>2. Queues[1][k] = net[1][k - lb]
        BY <1>9, <1>19, <4>1, QueuesTyped, Zenon
      <4> QED
        BY <1>3, <1>19, <2>1, <4>1, <4>2, Zenon DEF NoneFromBelow
    <3> QED
      BY <1>19, <3>5, <3>6, Zenon
  <2>2. CASE n # 1
    <3>1. msgbuf' = msgbuf
      BY <1>1, <1>13, <2>2 DEF Inject, BROADCAST
    <3>2. net' = [net EXCEPT ![1] = Append(@, x)]
      <4>1. {1} \ {n} = {1} /\ 1 # BROADCAST
        BY <2>2 DEF BROADCAST
      <4>2. Send({1}, x)
        BY <1>1, <4>1 DEF Inject, x
      <4>3. net' = [m \in Nodes |-> IF m = 1 THEN Append(net[m], x) ELSE net[m]]
        BY <1>12, <4>2 DEF Send
      <4> QED
        BY <1>13, <4>3
    <3>3. Queues' = InLineFor(msgbuf, [net EXCEPT ![1] = Append(@, x)])
      BY <3>1, <3>2 DEF Queues
    <3>4. Queues = InLineFor(msgbuf, net)
      BY DEF Queues
    <3>5. Inserted(Queues', Queues, 1, Len(Queues[1]) + 1, x)
      BY ONLY <1>9, <1>10, <1>18, <1>13, <3>3, <3>4, SentIsLast, Zenon
    <3>6. \A k \in lq + 1 .. lq : FALSE
      OBVIOUS
    <3> QED
      BY <1>19, <3>5, <3>6, Zenon
  <2> QED
    BY <2>1, <2>2
<1>15. Travelling(Queues', next, t, {})
  <2>1. GoesOn(Queues, stage, t, c, next, 1, x, Queues', i)
    BY <1>5, <1>7, <1>8, <1>9, <1>10, <1>14, Zenon DEF GoesOn
  <2> QED
    BY <2>1, PutIn, Zenon
<1>16. AllObey(t, next)'
  <2>1. UNCHANGED <<dampers, fanBy, settings>>
    BY DEF Inject
  <2>2. ASSUME NEW m \in 1 .. Top
        PROVE  /\ Obeys(m, t, next, DamperCmds, dampers[m])
               /\ Obeys(m, t, next, DamperCmds, fanBy[m])
               /\ Obeys(m, t, next, SettingsCmds, settings[m])
    <3>1. DamperCmds \in SUBSET Cmds /\ SettingsCmds \in SUBSET Cmds
      BY DEF Cmds
    <3>2. /\ Obeys(m, sent, stage, DamperCmds, dampers[m])
          /\ Obeys(m, sent, stage, DamperCmds, fanBy[m])
          /\ Obeys(m, sent, stage, SettingsCmds, settings[m])
      BY <1>3 DEF AllObey
    <3>3. ASSUME NEW kind \in SUBSET Cmds, NEW obeyed, Obeys(m, sent, stage, kind, obeyed)
          PROVE  Obeys(m, t, next, kind, obeyed)
      BY <1>0, <1>3, <1>4, <1>5, <1>7, <3>3, ObeysWhenSent
    <3> QED
      BY <3>1, <3>2, <3>3
  <2> QED
    BY <2>1, <2>2 DEF AllObey
<1>17. NoneFromBelow(next)'
  <2> SUFFICES ASSUME 1 \in Injectors, NEW k \in 1 .. Len(net'[1])
               PROVE  next[net'[1][k].cmd] # 1
    BY DEF NoneFromBelow
  <2>1. net' = net
    BY <1>1, <1>13 DEF Inject, Send, BROADCAST, NothingIsLost
  <2>2. /\ Len(msgbuf[1]) + k \in 1 .. Len(Queues[1])
        /\ Queues[1][Len(msgbuf[1]) + k] = net[1][k]
    BY <1>9, <2>1, QueuesTyped
  <2>3. net[1][k].cmd \in In(sent) /\ net[1][k].cmd \in Cmds
    BY <1>3, <1>9, <2>2, StageOfMessage
  <2> QED
    BY <1>3, <1>4, <1>8, <2>1, <2>3 DEF NoneFromBelow
<1> QED
  BY <1>4, <1>6, <1>15, <1>16, <1>17 DEF AgreeInv, Agreeing

\* Receiving moves a packet from the bus to the buffer, and no queue changes.
LEMMA ReceiveAgrees ==
    ASSUME AllDriven, NEW p \in Nodes, NothingIsLost(p), TypeOK, AgreeInv,
           NEW n \in Nodes, NEW k \in 1 .. Len(net[n]), NEW again \in BOOLEAN,
           Receive(n, k, again)
    PROVE  AgreeInv'
<1>1. PICK stage : Agreeing(stage)
  BY DEF AgreeInv
<1>2. /\ Travelling(Queues, stage, sent, {}) /\ AllObey(sent, stage) /\ NoneFromBelow(stage)
      /\ NoneTwice(sent) /\ sent \in Seq(Cmds)
  BY <1>1 DEF Agreeing, AgreeInv, TypeOK
<1>3. PICK b \in Seq(Messages), t \in Seq(Messages), lb \in Nat, lt \in Nat :
          /\ b = msgbuf[n] /\ t = net[n] /\ lb = Len(b) /\ lt = Len(t)
          /\ Len(Queues[n]) = lb + lt
  BY QueuesTyped, Zenon
<1>4. k = 1 /\ ~again /\ t # << >> /\ lt >= 1
  <2>1. k = 1 /\ ~again
    BY DEF NothingIsLost, Receive
  <2> QED
    BY <1>3, <2>1
<1>5. lb < PJON_MSGBUF_LEN
  <2>1. Len(Queues[n]) <= Cardinality(Cmds) /\ Cardinality(Cmds) \in Nat
    <3>1. InLine(sent) /\ IsFiniteSet(Cmds)
      BY <1>2, SentInLine DEF NothingIsLost
    <3> QED
      BY ONLY AllDriven, <1>2, <3>1, n \in Nodes, Room, Zenon
  <2>2. Cardinality(Cmds) <= PJON_MSGBUF_LEN /\ PJON_MSGBUF_LEN \in Nat
    BY ChainAssumption DEF NothingIsLost
  <2>3. lb + lt <= Cardinality(Cmds) /\ Cardinality(Cmds) \in Nat
    BY <1>3, <2>1, Zenon
  <2> QED
    BY <1>4, <2>2, <2>3
<1>6. /\ Append(b, t[1]) \o WithoutAt(t, 1) = b \o t
      /\ Len(WithoutAt(t, 1)) = lt - 1
      /\ \A j \in 1 .. lt - 1 : WithoutAt(t, 1)[j] = t[j + 1]
  <2>1. b \in Seq(Messages) /\ t \in Seq(Messages) /\ t # << >>
    BY <1>4
  <2>2. /\ Append(b, t[1]) \o WithoutAt(t, 1) = b \o t
        /\ Len(WithoutAt(t, 1)) = Len(t) - 1
        /\ \A j \in 1 .. Len(t) - 1 : WithoutAt(t, 1)[j] = t[j + 1]
    BY ONLY <2>1, ReceivedInLine
  <2> QED
    BY <1>3, <2>2, Zenon
<1>7. /\ msgbuf' = [msgbuf EXCEPT ![n] = Append(b, t[1])]
      /\ net' = [net EXCEPT ![n] = WithoutAt(t, 1)]
      /\ net \in [Nodes -> Seq(Messages)] /\ msgbuf \in [Nodes -> Seq(Messages)]
  BY <1>3, <1>4, <1>5 DEF Receive, Buffered, TypeOK
<1>8. Queues' = Queues
  <2>1. \A m \in Nodes : msgbuf'[m] \o net'[m] = msgbuf[m] \o net[m]
    BY <1>3, <1>6, <1>7
  <2> QED
    BY <2>1 DEF Queues, InLineFor
<1>9. AllObey(sent, stage)' /\ sent' = sent
  BY <1>2 DEF Receive, AllObey
<1>10. NoneFromBelow(stage)'
  <2> SUFFICES ASSUME 1 \in Injectors, NEW j \in 1 .. Len(net'[1])
               PROVE  stage[net'[1][j].cmd] # 1
    BY DEF NoneFromBelow
  <2>1. 1 \in Nodes
    BY ChainAssumption
  <2>2. CASE n = 1
    <3>1. net'[1] = WithoutAt(t, 1)
      BY <1>7, <2>1, <2>2
    <3>2. j \in 1 .. lt - 1
      BY <1>6, <3>1
    <3>3. j + 1 \in 1 .. lt
      BY <3>2
    <3> QED
      <4>1. \A i \in 1 .. lt : stage[t[i].cmd] # 1
        BY <1>2, <1>3, <2>2, Zenon DEF NoneFromBelow
      <4>2. net'[1][j] = t[j + 1]
        BY <1>6, <3>1, <3>2, Zenon
      <4> QED
        BY <3>3, <4>1, <4>2, Zenon
  <2>3. CASE n # 1
    <3>1. net'[1] = net[1]
      BY <1>7, <2>1, <2>3
    <3> QED
      BY <1>2, <3>1, Zenon DEF NoneFromBelow
  <2> QED
    BY <2>2, <2>3
<1> QED
  BY <1>2, <1>8, <1>9, <1>10 DEF AgreeInv, Agreeing

\* Where the dampers, the fan and the settings of all controllers come from after
\* controller n has handled command c.
LEMMA HandleObeys ==
    ASSUME AllDriven, TypeOK, NEW stage \in [Cmds -> 0 .. Last], InLine(sent),
           NoOvertaking(stage, sent), AllObey(sent, stage), NEW n \in 1 .. Top, n \in Nodes,
           NEW m, m = Head(msgbuf[n]), NEW c \in Cmds, c = m.cmd, c \in In(sent),
           stage[c] \in {n, Last - n},
           DidReachAll(NewReach(n, m)) <=> stage[c] = Last - n,
           pjon_chaincast_recv_handler(n), NEW next, next = Moved(stage, c)
    PROVE  AllObey(sent, next)'
<1>1. sent' = sent
  BY DEF pjon_chaincast_recv_handler
<1>2. DamperCmds \in SUBSET Cmds /\ SettingsCmds \in SUBSET Cmds
      /\ (c \in DamperCmds <=> c \notin SettingsCmds)
  BY CommandAssumption DEF Cmds
<1>3. stage[c] <= Last - n /\ \A k \in 1 .. Top : k # n => stage[c] # Last - k
  BY Places
<1>4. ASSUME NEW k \in 1 .. Top, NEW kind \in SUBSET Cmds, NEW obeyed,
             Obeys(k, sent, stage, kind, obeyed),
             k # n \/ c \notin kind \/ stage[c] # Last - n
      PROVE  Obeys(k, sent, next, kind, obeyed)
  BY <1>3, <1>4, ObeysOthers
<1>5. ASSUME NEW kind \in SUBSET Cmds, c \in kind
      PROVE  Obeys(n, sent, next, kind, c)
  BY <1>3, <1>5, ObeysThis
<1>6. /\ dampers \in [Nodes -> DamperCmds \cup {NoCmd}]
      /\ fanBy \in [Nodes -> DamperCmds \cup {NoCmd}]
      /\ settings \in [Nodes -> SettingsCmds \cup {NoCmd}]
  BY DEF TypeOK
<1>7. /\ dampers' = [dampers EXCEPT ![n] = IF c \in DamperCmds THEN c ELSE @]
      /\ fanBy' = [fanBy EXCEPT ![n] =
            IF c \in DamperCmds /\ stage[c] = Last - n THEN c ELSE @]
      /\ settings' = [settings EXCEPT ![n] = IF c \in SettingsCmds THEN c ELSE @]
  <2>1. CASE c \in DamperCmds
    <3>1. handle_damper_cmd(n, DidReachAll(NewReach(n, m)), c)
      BY <2>1 DEF pjon_chaincast_recv_handler
    <3>2. c \notin SettingsCmds
      BY <1>2, <2>1
    <3>3. DidReachAll(NewReach(n, m)) <=> stage[c] = Last - n
      OBVIOUS
    <3> QED
      BY <1>6, <2>1, <3>1, <3>2, <3>3 DEF handle_damper_cmd
  <2>2. CASE c \notin DamperCmds
    <3>1. updateSettingsFromPacket(n, c)
      BY <2>2 DEF pjon_chaincast_recv_handler
    <3>2. c \in SettingsCmds
      BY <1>2, <2>2
    <3> QED
      BY <1>6, <2>2, <3>1, <3>2 DEF updateSettingsFromPacket
  <2> QED
    BY <2>1, <2>2
<1>8. ASSUME NEW k \in 1 .. Top
      PROVE  /\ Obeys(k, sent, next, DamperCmds, dampers'[k])
             /\ Obeys(k, sent, next, DamperCmds, fanBy'[k])
             /\ Obeys(k, sent, next, SettingsCmds, settings'[k])
  <2>1. k \in Nodes
    BY Places
  <2>2. /\ Obeys(k, sent, stage, DamperCmds, dampers[k])
        /\ Obeys(k, sent, stage, DamperCmds, fanBy[k])
        /\ Obeys(k, sent, stage, SettingsCmds, settings[k])
    BY DEF AllObey
  <2>3. CASE k # n
    <3>1. dampers'[k] = dampers[k] /\ fanBy'[k] = fanBy[k] /\ settings'[k] = settings[k]
      BY <1>6, <1>7, <2>1, <2>3
    <3> QED
      BY <1>2, <1>4, <2>2, <2>3, <3>1, Zenon
  <2>4. CASE k = n
    <3>1. /\ dampers'[n] = IF c \in DamperCmds THEN c ELSE dampers[n]
          /\ fanBy'[n] = IF c \in DamperCmds /\ stage[c] = Last - n THEN c ELSE fanBy[n]
          /\ settings'[n] = IF c \in SettingsCmds THEN c ELSE settings[n]
      BY <1>6, <1>7, <2>1, <2>4
    <3>2. Obeys(n, sent, next, DamperCmds, dampers'[n])
      BY <1>2, <1>4, <1>5, <2>2, <2>4, <3>1, Zenon
    <3>3. Obeys(n, sent, next, DamperCmds, fanBy'[n])
      BY <1>2, <1>4, <1>5, <2>2, <2>4, <3>1, Zenon
    <3>4. Obeys(n, sent, next, SettingsCmds, settings'[n])
      BY <1>2, <1>4, <1>5, <2>2, <2>4, <3>1, Zenon
    <3> QED
      BY <2>4, <3>2, <3>3, <3>4, Zenon
  <2> QED
    BY <2>3, <2>4
<1> QED
  BY <1>1, <1>8, Zenon DEF AllObey

\* Handling takes the oldest message on by a stage.
LEMMA HandleAgrees ==
    ASSUME AllDriven, NEW p \in Nodes, NothingIsLost(p), TypeOK, AgreeInv,
           NEW n \in Nodes, pjon_chaincast_recv_handler(n)
    PROVE  AgreeInv'
<1>1. PICK stage : Agreeing(stage)
  BY DEF AgreeInv
<1>2. /\ Travelling(Queues, stage, sent, {}) /\ AllObey(sent, stage) /\ NoneFromBelow(stage)
      /\ NoneTwice(sent) /\ sent \in Seq(Cmds) /\ stage \in [Cmds -> 0 .. Last]
      /\ NoOvertaking(stage, sent) /\ InLine(sent)
  <2>1. NoneTwice(sent) /\ sent \in Seq(Cmds)
    BY DEF AgreeInv, TypeOK
  <2> QED
    BY <1>1, <2>1, SentInLine DEF Agreeing, Travelling
<1>3. msgbuf[n] # << >> /\ msgbuf[n] \in Seq(Messages) /\ net[n] \in Seq(Messages)
  BY DEF pjon_chaincast_recv_handler, TypeOK
<1>4. /\ Queues[n] = msgbuf[n] \o net[n] /\ Queues[n] # << >>
      /\ Queues[n][1] = Head(msgbuf[n]) /\ Tail(msgbuf[n]) \in Seq(Messages)
      /\ Tail(msgbuf[n]) \o net[n] = Tail(Queues[n])
  <2>1. /\ msgbuf[n] \o net[n] # << >> /\ (msgbuf[n] \o net[n])[1] = Head(msgbuf[n])
        /\ Tail(msgbuf[n]) \in Seq(Messages)
        /\ Tail(msgbuf[n]) \o net[n] = Tail(msgbuf[n] \o net[n])
    BY ONLY <1>3, OldestFirst
  <2>2. Queues[n] = msgbuf[n] \o net[n]
    BY QueuesTyped, Zenon
  <2> QED
    BY <2>1, <2>2, Zenon
<1>5. Queues \in [Nodes -> Seq(Messages)] /\ 1 \in 1 .. Len(Queues[n])
  <2>1. \A q \in Seq(Messages) : q # << >> => 1 \in 1 .. Len(q)
    OBVIOUS
  <2> QED
    BY <1>4, <2>1, QueuesTyped
<1>6. PICK m, c, x, h : m = Head(msgbuf[n]) /\ c = m.cmd /\ x = Onward(n, m) /\ h = Hop(n, m)
  OBVIOUS
<1>7. PICK r, next : r = [Queues EXCEPT ![n] = Tail(@)] /\ next = Moved(stage, c)
  OBVIOUS
<1>8. InHand(r, stage, sent, c)
  BY ONLY AllDriven, <1>2, <1>4, <1>6, <1>7, n \in Nodes, TakenInHand, Zenon
<1>9. m \in Messages /\ OnItsWay(n, m, stage)
  BY <1>2, <1>3, <1>4, <1>5, <1>6, TailIn DEF Travelling, Placed
<1>10. c \in Cmds /\ c \in In(sent) /\ Travelling(r, stage, sent, {c})
  BY <1>8 DEF InHand
<1>11. /\ NextIds(n, m) = {h}
       /\ stage[c] = Last - 1 => h \notin Nodes
       /\ stage[c] # Last - 1 =>
             next[c] < Last /\ h \in Nodes /\ h = At(next[c]) /\ OnItsWay(h, x, next)
       /\ DidReachAll(NewReach(n, m)) <=> stage[c] = Last - n
       /\ n \in 1 .. Top /\ stage[c] \in {n, Last - n}
  BY <1>2, <1>6, <1>7, <1>9, ForwardedOnItsWay, ReachOnTheWay
<1>12. AllObey(sent, next)'
  BY <1>2, <1>6, <1>7, <1>10, <1>11, HandleObeys
<1>13. /\ Send({h}, x)
       /\ msgbuf' = [msgbuf EXCEPT ![n] = Tail(@)] /\ sent' = sent
       /\ net \in [Nodes -> Seq(Messages)] /\ msgbuf \in [Nodes -> Seq(Messages)]
  BY <1>6, <1>11 DEF pjon_chaincast_recv_handler, Onward, Hop, TypeOK
<1>14. /\ msgbuf' \in [Nodes -> Seq(Messages)]
       /\ r = InLineFor(msgbuf', net) /\ r \in [Nodes -> Seq(Messages)]
  <2>1. msgbuf' \in [Nodes -> Seq(Messages)]
    BY <1>4, <1>13
  <2>2. r = [k \in Nodes |-> IF k = n THEN Tail(Queues[n]) ELSE Queues[k]]
    BY <1>5, <1>7
  <2>3. \A k \in Nodes : Queues[k] = msgbuf[k] \o net[k]
    BY QueuesTyped
  <2>4. \A k \in Nodes : r[k] = msgbuf'[k] \o net[k]
    BY <1>4, <1>13, <2>2, <2>3
  <2>5. r = InLineFor(msgbuf', net)
    BY <2>2, <2>4 DEF InLineFor
  <2>6. r \in [Nodes -> Seq(Messages)]
    BY <1>10 DEF Travelling
  <2> QED
    BY <2>1, <2>5, <2>6
<1>15. Travelling(Queues', next, sent, {})
  <2>1. CASE stage[c] = Last - 1
    <3>1. net' = net
      BY <1>11, <1>13, <2>1 DEF Send
    <3>2. Queues' = r
      BY <1>14, <3>1 DEF Queues
    <3>3. Travelling(r, next, sent, {})
      BY ONLY AllDriven, <1>7, <1>8, <2>1, Finished, Zenon
    <3> QED
      BY <3>2, <3>3
  <2>2. CASE stage[c] # Last - 1
    <3>1. h \in Nodes /\ next[c] < Last /\ h = At(next[c]) /\ OnItsWay(h, x, next)
      BY <1>11, <2>2
    <3>2. x.cmd = c
      BY <1>6 DEF Onward
    <3>3. x \in Messages
      <4>1. NewReach(n, m) \in SUBSET Dampers
        BY <1>9, ChainAssumption DEF NewReach, Messages
      <4> QED
        BY <1>6, <1>10, <3>1, <4>1 DEF Onward, Messages
    <3>4. Len(net[h]) < MaxPackets
      <4>1. Len(r[h]) < Cardinality(Cmds) /\ Cardinality(Cmds) \in Nat
        <5>1. InLine(sent) /\ IsFiniteSet(Cmds)
          BY <1>2 DEF NothingIsLost
        <5>2. /\ Cardinality(Cmds) \in Nat
              /\ \A d \in {c} \cap Cmds : Len(r[h]) < Cardinality(Cmds)
          BY ONLY AllDriven, <1>10, <3>1, <5>1, Room, Zenon
        <5> QED
          BY <1>10, <5>2
      <4>2. PICK b \in Seq(Messages), t \in Seq(Messages) :
                b = msgbuf'[h] /\ t = net[h] /\ r[h] = b \o t
        BY <1>13, <1>14, <3>1 DEF InLineFor
      <4>3. Len(b \o t) = Len(b) + Len(t) /\ Len(b) \in Nat /\ Len(t) \in Nat
        BY TwoParts
      <4>4. Cardinality(Cmds) <= MaxPackets /\ MaxPackets \in Nat
        BY ChainAssumption DEF NothingIsLost
      <4>5. Len(b \o t) < Cardinality(Cmds)
        BY <4>1, <4>2, Zenon
      <4>6. Len(t) < MaxPackets
        BY <4>1, <4>3, <4>4, <4>5
      <4> QED
        BY <4>2, <4>6, Zenon
    <3>5. net' = [net EXCEPT ![h] = Append(@, x)]
      <4>1. net' = [k \in Nodes |-> IF k = h THEN Append(net[k], x) ELSE net[k]]
        BY <1>13, <3>4 DEF Send
      <4> QED
        BY <1>13, <4>1
    <3>6. Inserted(Queues', r, h, Len(r[h]) + 1, x)
      <4>1. Queues' = InLineFor(msgbuf', [net EXCEPT ![h] = Append(@, x)])
        BY <3>5 DEF Queues
      <4> QED
        BY ONLY <1>13, <1>14, <3>1, <3>3, <4>1, SentIsLast, Zenon
    <3>7. \A k \in Len(r[h]) + 1 .. Len(r[h]) : FALSE
      <4>1. Len(r[h]) \in Nat
        BY <1>14, <3>1
      <4>2. \A l \in Nat : \A k \in l + 1 .. l : FALSE
        OBVIOUS
      <4> QED
        BY <4>1, <4>2, Zenon
    <3>8. GoesOn(r, stage, sent, c, next, h, x, Queues', Len(r[h]) + 1)
      BY <1>7, <1>8, <3>1, <3>2, <3>6, <3>7, Zenon DEF GoesOn
    <3> QED
      BY <3>8, PutIn, Zenon
  <2> QED
    BY <2>1, <2>2
<1>16. NoneFromBelow(next)'
  <2> SUFFICES ASSUME 1 \in Injectors, NEW k \in 1 .. Len(net'[1])
               PROVE  next[net'[1][k].cmd] # 1
    BY DEF NoneFromBelow
  <2>1. /\ next[c] # 1 /\ \A d \in Cmds : d # c => next[d] = stage[d]
    <3>1. n >= 1 /\ Last - n >= 1 /\ n \in Nat /\ Last - n \in Nat
      BY <1>11, Places
    <3>2. next[c] = stage[c] + 1
      BY <1>2, <1>7, <1>10 DEF Moved
    <3>3. next[c] # 1
      BY <1>11, <3>1, <3>2
    <3> QED
      BY <1>2, <1>7, <1>10, <3>3 DEF Moved
  <2>2. 1 \in Nodes /\ net[1] \in Seq(Messages) /\ x.cmd = c
    BY <1>6, <1>13, ChainAssumption DEF Onward
  <2>3. \/ net'[1] = net[1]
        \/ net'[1] = Append(net[1], x)
    BY <1>13, <2>2 DEF Send
  <2>4. ASSUME NEW l \in 1 .. Len(net[1])
        PROVE  next[net[1][l].cmd] # 1
    <3>1. stage[net[1][l].cmd] # 1
      BY <1>2, Zenon DEF NoneFromBelow
    <3>2. net[1][l].cmd \in Cmds
      <4>1. \A t \in Seq(Messages) : \A j \in 1 .. Len(t) : t[j] \in Messages
        OBVIOUS
      <4>2. \A y \in Messages : y.cmd \in Cmds
        BY DEF Messages
      <4> QED
        BY <2>2, <4>1, <4>2, Zenon
    <3> QED
      BY <2>1, <3>1, <3>2, Zenon
  <2>5. net'[1][k].cmd = c \/ \E l \in 1 .. Len(net[1]) : net'[1][k] = net[1][l]
    <3>1. CASE net'[1] = net[1]
      BY <3>1
    <3>2. CASE net'[1] = Append(net[1], x)
      <4>1. PICK t \in Seq(Messages) : t = net[1]
        BY <2>2
      <4>2. \A j \in 1 .. Len(Append(t, x)) :
                Append(t, x)[j] = x \/ \E l \in 1 .. Len(t) : Append(t, x)[j] = t[l]
        OBVIOUS
      <4> QED
        <5>1. k \in 1 .. Len(Append(t, x)) /\ net'[1] = Append(t, x)
          BY <3>2, <4>1, Zenon
        <5>2. Append(t, x)[k] = x \/ \E l \in 1 .. Len(t) : Append(t, x)[k] = t[l]
          BY <4>2, <5>1, Zenon
        <5> QED
          BY <2>2, <4>1, <5>1, <5>2, Zenon
    <3> QED
      BY <2>3, <3>1, <3>2
  <2> QED
    BY <2>1, <2>4, <2>5, Zenon
<1> QED
  BY <1>2, <1>12, <1>13, <1>15, <1>16 DEF AgreeInv, Agreeing

\* No step of the faultless system ends the agreement.
LEMMA StepAgrees ==
    ASSUME AllDriven, NEW p \in Nodes, NothingIsLost(p), TypeOK, TypeOK', AgreeInv, [Next]_vars
    PROVE  AgreeInv'
<1>1. ASSUME NEW n \in Injectors, NEW c \in Cmds, NEW dst \in Destinations[c],
             Inject(n, dst, c)
      PROVE  AgreeInv'
  BY <1>1, InjectAgrees
<1>2. ASSUME NEW n \in Nodes, NEW k \in 1 .. Len(net[n]), NEW again \in BOOLEAN,
             Receive(n, k, again)
      PROVE  AgreeInv'
  BY <1>2, ReceiveAgrees
<1>3. ASSUME UNCHANGED <<net, msgbuf, dampers, settings, fanBy, sent>>
      PROVE  AgreeInv'
  <2>1. PICK stage : Agreeing(stage)
    BY DEF AgreeInv
  <2>2. Queues' = Queues
    BY <1>3 DEF Queues, InLineFor
  <2>3. Agreeing(stage)'
    BY <1>3, <2>1, <2>2 DEF Agreeing, AllObey, NoneFromBelow
  <2> QED
    BY <1>3, <2>3 DEF AgreeInv
<1>4. ASSUME NEW n \in Nodes, ReceiveNothing(n)
      PROVE  AgreeInv'
  BY <1>3, <1>4 DEF ReceiveNothing
<1>5. ASSUME NEW n \in Nodes, pjon_chaincast_recv_handler(n)
      PROVE  AgreeInv'
  BY <1>5, HandleAgrees
<1>6. \A n \in Nodes : ~Reboot(n) /\ \A k \in 1 .. Len(net[n]) : ~Lose(n, k)
  BY DEF NothingIsLost, Reboot, Lose
<1>7. CASE UNCHANGED vars
  BY <1>3, <1>7 DEF vars, node
<1> QED
  BY <1>1, <1>2, <1>4, <1>5, <1>6, <1>7 DEF Next, task_pjon

\* The last command of a kind, if there is one, is the newest.
LEMMA LastIsNewest ==
    ASSUME NEW kind \in SUBSET Cmds, sent \in Seq(Cmds), NoneTwice(sent)
    PROVE  /\ kind \cap In(sent) = {} => LastSent(kind) = NoCmd
           /\ kind \cap In(sent) # {} => Newest(sent, kind, LastSent(kind))
<1> DEFINE D == {k \in 1 .. Len(sent) : sent[k] \in kind}
<1>1. Len(sent) \in Nat
  OBVIOUS
<1>2. D = {} <=> kind \cap In(sent) = {}
  BY DEF In
<1>3. LastSent(kind) = IF D = {} THEN NoCmd
                       ELSE sent[CHOOSE k \in D : \A j \in D : j <= k]
  BY Zenon DEF LastSent
<1>4. ASSUME D # {}
      PROVE  Newest(sent, kind, LastSent(kind))
  <2> DEFINE S == {Len(sent) - k : k \in D}
  <2>1. S \subseteq Nat /\ S # {}
    BY <1>1, <1>4
  <2>2. PICK m \in S : \A k \in 0 .. m - 1 : k \notin S
    <3> HIDE DEF S
    <3> QED
      BY <2>1, LeastOf
  <2>3. PICK l \in D : m = Len(sent) - l
    BY <2>2
  <2>4. \A j \in D : j <= l
    <3> SUFFICES ASSUME NEW j \in D, j > l PROVE FALSE
      BY <1>1
    <3>1. Len(sent) - j \in S /\ Len(sent) - j \in 0 .. m - 1
      BY <1>1, <2>3
    <3> QED
      BY <2>2, <3>1, Zenon
  <2>5. PICK k \in D : (\A j \in D : j <= k) /\ LastSent(kind) = sent[k]
    <3> HIDE DEF D
    <3> QED
      BY <1>3, <1>4, <2>3, <2>4, Zenon
  <2>6. sent[k] \in kind \cap In(sent) /\ k \in 1 .. Len(sent)
    BY <2>5 DEF In
  <2>7. ASSUME NEW d \in kind, Before(sent, sent[k], d)
        PROVE  FALSE
    <3>1. PICK i \in 1 .. Len(sent), j \in 1 .. Len(sent) :
              i < j /\ sent[i] = sent[k] /\ sent[j] = d
      BY <2>7 DEF Before
    <3>2. i = k
      BY <2>6, <3>1 DEF NoneTwice
    <3>3. j \in D
      BY <3>1
    <3>4. j <= k
      <4> HIDE DEF D
      <4> QED
        BY <2>5, <3>3
    <3> QED
      BY <3>1, <3>2, <3>4
  <2> QED
    BY <2>5, <2>6, <2>7, Zenon DEF Newest
<1> HIDE DEF D
<1> QED
  BY <1>2, <1>3, <1>4, Zenon

\* When no message is on its way, every command sent has been everywhere.
LEMMA QuietAgreed ==
    ASSUME AllDriven, TypeOK, AgreeInv
    PROVE  QuietMeansAgreed
<1> SUFFICES ASSUME Quiet, NEW n \in Ladder
             PROVE  /\ dampers[n] = LastSent(DamperCmds)
                    /\ fanBy[n] = LastSent(DamperCmds)
                    /\ settings[n] = LastSent(SettingsCmds)
  BY DEF QuietMeansAgreed
<1>1. PICK stage : Agreeing(stage)
  BY DEF AgreeInv
<1>2. /\ Begun(stage, sent, {}) /\ Found(Queues, stage, {}) /\ AllObey(sent, stage)
      /\ stage \in [Cmds -> 0 .. Last] /\ NoneTwice(sent) /\ sent \in Seq(Cmds)
  BY <1>1 DEF Agreeing, Travelling, AgreeInv, TypeOK
<1>3. \A k \in Nodes : Len(Queues[k]) = 0
  <2>1. \A k \in Nodes : Queues[k] = << >> \o << >>
    BY DEF Queues, InLineFor, Quiet
  <2>2. << >> \o << >> = << >> /\ Len(<< >>) = 0
    OBVIOUS
  <2> QED
    BY <2>1, <2>2, Zenon
<1>4. n \in 1 .. Top /\ n \in Nat /\ n >= 1 /\ Last \in Nat
  BY TopFacts, Places DEF AllDriven
<1>5. ASSUME NEW c \in Cmds, c \in In(sent)
      PROVE  stage[c] > Last - n
  <2>1. stage[c] \in 0 .. Last /\ stage[c] # 0
    BY <1>2, <1>5 DEF Begun
  <2>2. stage[c] \notin 1 .. Last - 1
    <3> SUFFICES ASSUME stage[c] \in 1 .. Last - 1 PROVE FALSE
      OBVIOUS
    <3>1. At(stage[c]) \in Nodes
      BY Places
    <3>2. \E k \in 1 .. Len(Queues[At(stage[c])]) : TRUE
      BY <1>2, Zenon DEF Found
    <3>3. \A k \in 1 .. 0 : FALSE
      OBVIOUS
    <3> QED
      BY <1>3, <3>1, <3>2, <3>3, Zenon
  <2> QED
    BY <1>4, <2>1, <2>2
<1>6. ASSUME NEW kind \in SUBSET Cmds, NEW obeyed, Obeys(n, sent, stage, kind, obeyed)
      PROVE  obeyed = LastSent(kind)
  <2>1. CASE kind \cap In(sent) = {}
    BY <1>2, <1>6, <2>1, LastIsNewest, Zenon DEF Obeys
  <2>2. CASE kind \cap In(sent) # {}
    <3>1. Newest(sent, kind, LastSent(kind))
      BY <1>2, <2>2, LastIsNewest, Zenon
    <3>2. /\ LastSent(kind) \in kind /\ LastSent(kind) \in Cmds
          /\ LastSent(kind) \in In(sent)
      BY <3>1 DEF Newest
    <3> QED
      BY <1>5, <1>6, <3>1, <3>2, Zenon DEF Obeys
  <2> QED
    BY <2>1, <2>2
<1>7. DamperCmds \in SUBSET Cmds /\ SettingsCmds \in SUBSET Cmds
  BY DEF Cmds
<1> QED
  BY <1>2, <1>4, <1>6, <1>7, Zenon DEF AllObey

\* comm.cpp:193-206: where the bus delivers everything in order, every damper is driven
\* by somebody, one console types all commands, all of them to the first controller, and
\* no more of them than a receive buffer and the bus can hold, all controllers a chaincast
\* visits follow the last command whenever the bus is quiet, dampers, fan and settings
\* alike, however the passes of the commands have crossed.
THEOREM LastCommandWins ==
    ASSUME NEW p \in Nodes, NothingIsLost(p),
           UNION {InstalledAt[n] : n \in Nodes} = Dampers
    PROVE  Spec => []QuietMeansAgreed
<1>1. CASE Dampers = {}
  <2>1. Ladder = {}
    <3>1. \A n \in Nodes : 1 .. n - 1 \subseteq Nodes
      BY ChainAssumption DEF Nodes
    <3>2. \A k \in Nodes : InstalledAt[k] = {}
      BY <1>1
    <3>3. \A n \in Nodes : UNION {InstalledAt[k] : k \in 1 .. n - 1} = {}
      BY <3>1, <3>2
    <3> QED
      BY <1>1, <3>3 DEF Ladder
  <2>2. QuietMeansAgreed
    BY <2>1 DEF QuietMeansAgreed
  <2> QED
    BY <2>2, PTL
<1>2. CASE Dampers # {}
  <2>1. AllDriven
    BY <1>2 DEF AllDriven, Below, Nodes
  <2>2. Init => AgreeInv
    BY <2>1, AgreedAtFirst
  <2>3. TypeOK /\ TypeOK' /\ AgreeInv /\ [Next]_vars => AgreeInv'
    BY <2>1, StepAgrees
  <2>4. TypeOK /\ AgreeInv => QuietMeansAgreed
    BY <2>1, QuietAgreed
  <2> QED
    BY TypeCorrect, <2>2, <2>3, <2>4, PTL DEF Spec
<1> QED
  BY <1>1, <1>2

=============================================================================
