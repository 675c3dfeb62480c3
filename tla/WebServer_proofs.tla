-------------------------- MODULE WebServer_proofs --------------------------
(***************************************************************************)
(* For any number of clients and any capacity of their channels: nobody    *)
(* who is being written to misses a state.  A channel together with the    *)
(* message the library still has for it is one queue, Way; delivering      *)
(* leaves it as it is, publishing appends to it, receiving takes its head. *)
(***************************************************************************)
EXTENDS WebServer, SequenceTheorems, TLAPS

Messages == Changes \cup Clients \cup {Mqtt}

\* What is published to a channel.
Carried(ch) ==
    IF ch = "newreq_c" THEN Clients \cup {Mqtt}
    ELSE IF ch = "init_c" THEN Clients
    ELSE 0 .. last_state

BusTypes ==
    /\ hub \in [msg : Messages, to : SUBSET Channels]
    /\ chan \in [Channels -> Seq(Messages)]
    /\ \A ch \in hub.to : hub.msg \in Carried(ch)
    /\ \A ch \in Channels : chan[ch] \in Seq(Carried(ch)) /\ Len(chan[ch]) <= Capacity

DataTypes ==
    /\ subscribed \subseteq Clients
    /\ last_state \in Changes /\ initial_info \in NoState .. last_state
    /\ checker \in {"select", "pub"} /\ marshaller \in {"select", "pub"}
    /\ marshaller = "pub" => initial_info # NoState
    /\ reader \in [Clients -> {"off", "read", "closed"}]
    /\ writer \in [Clients -> {"off", "sub", "get", "loop", "leave", "gone"}]
    /\ toclient_chan \in [Clients -> Seq(NoState .. last_state)]
    /\ \A c \in Clients : Len(toclient_chan[c]) <= ReplyCapacity
    /\ initdata_c \in [Clients -> Seq(NoState .. last_state)]
    /\ newest \in [Clients -> NoState .. last_state]
    /\ crashed \in BOOLEAN

\* All that is on its way to a channel or waits in it.
Way(ch) == chan[ch] \o (IF ch \in hub.to THEN <<hub.msg>> ELSE << >>)

-----------------------------------------------------------------------------
(* The library and its channels *)

\* The library's channels are all different.
LEMMA ChannelsDiffer ==
  /\ {"newreq_c", "udpate_c", "init_c"} \subseteq Channels /\ Clients \subseteq Channels
  /\ \A c \in Clients : c \notin {"newreq_c", "udpate_c", "init_c", Mqtt}
  BY WebAssumption DEF Channels

\* Longer sequences of more.
LEMMA SeqOfMore == ASSUME NEW S, NEW T, S \subseteq T, NEW s \in Seq(S) PROVE s \in Seq(T)
  OBVIOUS

\* The head and the tail of a sequence.
LEMMA HeadAndTail ==
  ASSUME NEW S, NEW s \in Seq(S), s # << >>
  PROVE  /\ Head(s) \in S /\ Tail(s) \in Seq(S)
         /\ Len(s) \in Nat \ {0} /\ Len(Tail(s)) = Len(s) - 1
  BY HeadTailProperties, EmptySeq

\* Taking the head of a sequence that others follow.
LEMMA HeadOfConcat ==
  ASSUME NEW S, NEW s \in Seq(S), s # << >>, NEW t \in Seq(S)
  PROVE  /\ s \o t # << >> /\ (s \o t)[1] = Head(s)
         /\ Tail(s \o t) = Tail(s) \o t
<1>1. /\ Len(s) \in Nat \ {0} /\ Len(t) \in Nat /\ Head(s) = s[1]
      /\ Tail(s) \in Seq(S) /\ Len(Tail(s)) = Len(s) - 1
      /\ \A k \in 1 .. Len(Tail(s)) : Tail(s)[k] = s[k + 1]
  BY HeadTailProperties, EmptySeq
<1>2. /\ s \o t \in Seq(S) /\ Len(s \o t) = Len(s) + Len(t)
      /\ \A k \in 1 .. Len(s) + Len(t) :
            (s \o t)[k] = IF k <= Len(s) THEN s[k] ELSE t[k - Len(s)]
  BY ConcatProperties
<1>3. s \o t # << >> /\ (s \o t)[1] = Head(s)
  BY <1>1, <1>2, EmptySeq
<1>4. /\ Tail(s \o t) \in Seq(S) /\ Len(Tail(s \o t)) = Len(s) + Len(t) - 1
      /\ \A k \in 1 .. Len(s) + Len(t) - 1 : Tail(s \o t)[k] = (s \o t)[k + 1]
  BY <1>2, <1>3, HeadTailProperties
<1>5. /\ Tail(s) \o t \in Seq(S) /\ Len(Tail(s) \o t) = Len(s) + Len(t) - 1
      /\ \A k \in 1 .. Len(s) + Len(t) - 1 :
            (Tail(s) \o t)[k] = IF k <= Len(s) - 1 THEN Tail(s)[k] ELSE t[k - (Len(s) - 1)]
  <2>1. Len(s) - 1 + Len(t) = Len(s) + Len(t) - 1
    BY <1>1
  <2> QED
    BY <1>1, <2>1, ConcatProperties
<1>6. ASSUME NEW k \in 1 .. Len(s) + Len(t) - 1
      PROVE  Tail(s \o t)[k] = (Tail(s) \o t)[k]
  BY <1>1, <1>2, <1>4, <1>5
<1>7. Tail(s \o t) = Tail(s) \o t
  BY <1>4, <1>5, <1>6, SeqEqual
<1> QED
  BY <1>3, <1>7

\* What is on its way to a channel is of its kind.
LEMMA WayTypes ==
  ASSUME BusTypes, NEW ch \in Channels
  PROVE  Way(ch) \in Seq(Carried(ch)) /\ Way(ch) \in Seq(Messages)
  BY DEF BusTypes, Way

\* A later state leaves the kinds of messages as they are.
LEMMA CarriedGrows ==
  ASSUME last_state \in Nat, last_state' \in Nat, last_state <= last_state', NEW ch
  PROVE  Carried(ch) \subseteq Carried(ch)'
  BY DEF Carried

\* Pub: the message is appended to the way to every subscriber.
LEMMA Publishing ==
  ASSUME BusTypes, NEW msg \in Messages, NEW to \in SUBSET Channels, Pub(msg, to),
         \A ch \in to : msg \in Carried(ch), UNCHANGED <<chan, last_state>>
  PROVE  /\ BusTypes'
         /\ \A ch \in Channels :
               Way(ch)' = IF ch \in to THEN Append(Way(ch), msg) ELSE Way(ch)
<1>1. hub.to = {} /\ hub'.to = to /\ (to # {} => hub'.msg = msg)
  BY DEF Pub, HubIsFree, IdleHub
<1>2. hub' \in [msg : Messages, to : SUBSET Channels]
  BY WebAssumption DEF Pub, IdleHub, Messages, Changes
<1>3. \A ch : Carried(ch)' = Carried(ch)
  BY DEF Carried
<1>4. BusTypes'
  BY <1>1, <1>2, <1>3 DEF BusTypes
<1>5. ASSUME NEW ch \in Channels
      PROVE  Way(ch)' = IF ch \in to THEN Append(Way(ch), msg) ELSE Way(ch)
  <2>1. chan[ch] \in Seq(Messages) /\ Way(ch) = chan[ch]
    BY <1>1 DEF BusTypes, Way
  <2>2. Way(ch)' = chan[ch] \o (IF ch \in to THEN <<msg>> ELSE << >>)
    BY <1>1 DEF Way
  <2>3. chan[ch] \o << >> = chan[ch] /\ chan[ch] \o <<msg>> = Append(chan[ch], msg)
    BY <2>1
  <2> QED
    BY <2>1, <2>2, <2>3
<1> QED
  BY <1>4, <1>5

\* The library puts a message into a channel: nothing changes on the way.
LEMMA Delivering ==
  ASSUME BusTypes, NEW x \in Channels, Deliver(x)
  PROVE  BusTypes' /\ \A ch \in Channels : Way(ch)' = Way(ch)
<1>1. /\ x \in hub.to /\ Len(chan[x]) < Capacity
      /\ chan' = [chan EXCEPT ![x] = Append(@, hub.msg)]
      /\ hub'.to = hub.to \ {x} /\ (hub'.to # {} => hub'.msg = hub.msg)
      /\ UNCHANGED last_state
  BY DEF Deliver, IdleHub, BusTypes, serverVars
<1>2. hub' \in [msg : Messages, to : SUBSET Channels]
  <2>1. hub \in [msg : Messages, to : SUBSET Channels]
    BY DEF BusTypes
  <2>2. IdleHub \in [msg : Messages, to : SUBSET Channels]
    BY WebAssumption DEF IdleHub, Messages, Changes
  <2>3. [hub EXCEPT !.to = @ \ {x}] \in [msg : Messages, to : SUBSET Channels]
    BY <2>1
  <2> QED
    BY <2>2, <2>3 DEF Deliver
<1>3. \A ch : Carried(ch)' = Carried(ch)
  BY <1>1 DEF Carried
<1>4. ASSUME NEW ch \in Channels
      PROVE  /\ chan'[ch] = IF ch = x THEN Append(chan[ch], hub.msg) ELSE chan[ch]
             /\ chan'[ch] \in Seq(Carried(ch)) /\ Len(chan'[ch]) <= Capacity
  <2>1. chan'[ch] = IF ch = x THEN Append(chan[ch], hub.msg) ELSE chan[ch]
    BY <1>1 DEF BusTypes
  <2>2. CASE ch = x
    <3>1. /\ hub.msg \in Carried(ch) /\ chan[ch] \in Seq(Carried(ch))
          /\ Len(chan[ch]) < Capacity /\ Capacity \in Nat
      BY <1>1, <2>2, WebAssumption DEF BusTypes
    <3> QED
      BY <2>1, <2>2, <3>1
  <2>3. CASE ch # x
    BY <2>1, <2>3 DEF BusTypes
  <2> QED
    BY <2>1, <2>2, <2>3
<1>5. chan' \in [Channels -> Seq(Messages)]
  BY <1>1 DEF BusTypes
<1>6. BusTypes'
  BY <1>1, <1>2, <1>3, <1>4, <1>5 DEF BusTypes
<1>7. ASSUME NEW ch \in Channels PROVE Way(ch)' = Way(ch)
  <2>1. chan[ch] \in Seq(Messages) /\ hub.msg \in Messages
    BY DEF BusTypes
  <2>2. CASE ch = x
    <3>1. Way(ch) = chan[ch] \o <<hub.msg>>
      BY <1>1, <2>2 DEF Way
    <3>2. Way(ch)' = Append(chan[ch], hub.msg) \o << >>
      BY <1>1, <1>4, <2>2 DEF Way
    <3> QED
      BY <2>1, <3>1, <3>2
  <2>3. CASE ch # x
    BY <1>1, <1>4, <2>3 DEF Way
  <2> QED
    BY <2>2, <2>3
<1> QED
  BY <1>6, <1>7

\* A subscriber receives the oldest message on its way.
LEMMA Receiving ==
  ASSUME BusTypes, NEW x \in Channels, Receive(x), UNCHANGED hub,
         last_state \in Nat, last_state' \in Nat, last_state <= last_state'
  PROVE  /\ BusTypes' /\ Head(chan[x]) \in Carried(x)
         /\ Way(x) # << >> /\ Way(x)[1] = Head(chan[x])
         /\ \A ch \in Channels : Way(ch)' = IF ch = x THEN Tail(Way(ch)) ELSE Way(ch)
<1>1. /\ chan[x] # << >> /\ chan' = [chan EXCEPT ![x] = Tail(@)]
      /\ chan[x] \in Seq(Carried(x)) /\ chan[x] \in Seq(Messages)
  BY DEF Receive, BusTypes
<1>2. /\ Head(chan[x]) \in Carried(x) /\ Tail(chan[x]) \in Seq(Carried(x))
      /\ Tail(chan[x]) \in Seq(Messages) /\ Len(Tail(chan[x])) = Len(chan[x]) - 1
      /\ Len(chan[x]) \in Nat \ {0}
  BY <1>1, EmptySeq
<1>3. ASSUME NEW ch \in Channels
      PROVE  chan'[ch] = IF ch = x THEN Tail(chan[ch]) ELSE chan[ch]
  BY <1>1 DEF BusTypes
<1>4. BusTypes'
  <2>1. chan' \in [Channels -> Seq(Messages)]
    BY <1>1, <1>2 DEF BusTypes
  <2>2. ASSUME NEW ch \in Channels
        PROVE  chan'[ch] \in Seq(Carried(ch)') /\ Len(chan'[ch]) <= Capacity
    <3>1. Carried(ch) \subseteq Carried(ch)'
      BY CarriedGrows
    <3>2. chan'[ch] \in Seq(Carried(ch))
      BY <1>2, <1>3 DEF BusTypes
    <3>3. Len(chan'[ch]) <= Capacity
      <4>1. Len(chan[ch]) <= Capacity /\ Len(chan[x]) - 1 <= Capacity
        BY <1>2, WebAssumption DEF BusTypes
      <4> QED
        BY <1>2, <1>3, <4>1
    <3> QED
      BY <3>1, <3>2, <3>3, SeqOfMore
  <2>3. \A ch \in hub'.to : hub'.msg \in Carried(ch)'
    BY CarriedGrows DEF BusTypes
  <2>4. hub' \in [msg : Messages, to : SUBSET Channels]
    BY DEF BusTypes
  <2> QED
    BY <2>1, <2>2, <2>3, <2>4 DEF BusTypes
<1>5. ASSUME NEW t \in Seq(Messages)
      PROVE  /\ chan[x] \o t # << >> /\ (chan[x] \o t)[1] = Head(chan[x])
             /\ Tail(chan[x] \o t) = Tail(chan[x]) \o t
  BY <1>1, HeadOfConcat
<1>6. \A ch : (IF ch \in hub.to THEN <<hub.msg>> ELSE << >>) \in Seq(Messages)
  BY DEF BusTypes
<1> QED
  BY <1>2, <1>3, <1>4, <1>5, <1>6 DEF Way

\* The library and the channels are left alone, and the state grows.
LEMMA BusSame ==
  ASSUME BusTypes, UNCHANGED <<hub, chan>>,
         last_state \in Nat, last_state' \in Nat, last_state <= last_state'
  PROVE  BusTypes' /\ \A ch \in Channels : Way(ch)' = Way(ch)
<1>1. \A ch \in Channels : chan'[ch] \in Seq(Carried(ch)')
  BY CarriedGrows, SeqOfMore DEF BusTypes
<1>2. \A ch \in hub'.to : hub'.msg \in Carried(ch)'
  BY CarriedGrows DEF BusTypes
<1> QED
  BY <1>1, <1>2 DEF BusTypes, Way

-----------------------------------------------------------------------------
(***************************************************************************)
(* Why nobody misses a state: the checker's last state is the last message *)
(* on its way to the marshaller, or the one the marshaller has; and every  *)
(* client being written to has been shown what the marshaller has, or it   *)
(* is on its way to him, or his question for it is on its way.             *)
(***************************************************************************)

\* goWriteToClient asks for the present state once, after it has subscribed.
Asked(c) == \E k \in 1 .. Len(Way("init_c")) : Way("init_c")[k] = c
Asking ==
    /\ \A j, k \in 1 .. Len(Way("init_c")) : Way("init_c")[j] = Way("init_c")[k] => j = k
    /\ \A c \in Clients :
        /\ reader[c] = "off" => writer[c] = "off"
        /\ writer[c] \in {"off", "sub", "get"} => ~Asked(c) /\ initdata_c[c] = << >>
        /\ Asked(c) => initdata_c[c] = << >>
        /\ Len(initdata_c[c]) <= 1
        /\ writer[c] \in {"get", "loop"} => c \in subscribed

\* The newest state the marshaller has or is going to have.
LastKnown ==
    IF Way("udpate_c") = << >> THEN initial_info ELSE Way("udpate_c")[Len(Way("udpate_c"))]
Published ==
    checker = "select" =>
        LastKnown = last_state \/ (LastKnown = NoState /\ last_state = 0)

\* A client has been shown what the marshaller has, or will be.
Covered(c) ==
    \/ newest[c] >= initial_info
    \/ \E k \in 1 .. Len(Way(c)) : Way(c)[k] >= initial_info
    \/ \E k \in 1 .. Len(initdata_c[c]) : initdata_c[c][k] >= initial_info
    \/ Asked(c)
Showing == marshaller = "select" => \A c \in Clients : writer[c] = "loop" => Covered(c)

Inv == BusTypes /\ DataTypes /\ Asking /\ Published /\ Showing

\* What each part depends on.
LEMMA AskingSame ==
  Asking /\ Way("init_c")' = Way("init_c")
         /\ UNCHANGED <<reader, writer, initdata_c, subscribed>> => Asking'
  BY Zenon DEF Asking, Asked
LEMMA PublishedSame ==
  Published /\ Way("udpate_c")' = Way("udpate_c")
            /\ UNCHANGED <<checker, last_state, initial_info>> => Published'
  BY Zenon DEF Published, LastKnown
LEMMA ShowingSame ==
  Showing /\ Way("init_c")' = Way("init_c") /\ (\A c \in Clients : Way(c)' = Way(c))
          /\ UNCHANGED <<writer, marshaller, initial_info, newest, initdata_c>> => Showing'
  BY Zenon DEF Showing, Covered, Asked

\* States are numbers.
LEMMA States ==
  ASSUME DataTypes
  PROVE  /\ last_state \in Nat /\ initial_info \in Int
         /\ \A c \in Clients : newest[c] \in Int
         /\ NoState .. last_state \subseteq Int /\ 0 .. last_state \subseteq Int
  BY WebAssumption DEF DataTypes, Changes, NoState

\* All channels as they were.
LEMMA WaysSame ==
  ASSUME \A ch \in Channels : Way(ch)' = Way(ch)
  PROVE  /\ Way("init_c")' = Way("init_c") /\ Way("udpate_c")' = Way("udpate_c")
         /\ \A c \in Clients : Way(c)' = Way(c)
  BY ChannelsDiffer

\* A message to the checker, a client's or the MQTT client's.
LEMMA RequestKeeps ==
  ASSUME Inv, NEW m \in Clients \cup {Mqtt}, Pub(m, {"newreq_c"}),
         UNCHANGED <<chan, subscribed, writer, initdata_c, newest, serverVars>>,
         \A c \in Clients : reader'[c] = "off" => reader[c] = "off"
  PROVE  BusTypes' /\ Asking' /\ Published' /\ Showing'
<1>1. UNCHANGED <<last_state, checker, initial_info, marshaller>>
  BY DEF serverVars
<1>2. /\ BusTypes' /\ Way("init_c")' = Way("init_c") /\ Way("udpate_c")' = Way("udpate_c")
      /\ \A c \in Clients : Way(c)' = Way(c)
  <2>1. \A ch \in {"newreq_c"} : m \in Carried(ch)
    BY DEF Carried
  <2>2. m \in Messages /\ {"newreq_c"} \in SUBSET Channels
    BY ChannelsDiffer DEF Messages
  <2>3. /\ BusTypes'
        /\ \A ch \in Channels :
              Way(ch)' = IF ch \in {"newreq_c"} THEN Append(Way(ch), m) ELSE Way(ch)
    BY <1>1, <2>1, <2>2, Publishing DEF Inv
  <2> QED
    BY <2>3, ChannelsDiffer
<1>3. Asking'
  BY <1>2 DEF Inv, Asking, Asked
<1> QED
  BY <1>1, <1>2, <1>3, PublishedSame, ShowingSame DEF Inv

\* A step that touches neither library nor channels nor the server's goroutines.
LEMMA ClientKeeps ==
  ASSUME Inv, UNCHANGED <<hub, chan, serverVars>>, DataTypes'
  PROVE  /\ BusTypes' /\ Published' /\ \A ch \in Channels : Way(ch)' = Way(ch)
<1>1. UNCHANGED <<last_state, checker, initial_info, marshaller>> /\ last_state \in Nat
  BY States DEF serverVars, Inv
<1>2. BusTypes' /\ \A ch \in Channels : Way(ch)' = Way(ch)
  BY <1>1, BusSame DEF Inv
<1> QED
  BY <1>1, <1>2, WaysSame, PublishedSame DEF Inv

-----------------------------------------------------------------------------
(* The server's goroutines *)

\* The greater of two numbers.
LEMMA MaxOfTwo ==
  ASSUME NEW a \in Int, NEW b \in Int
  PROVE  Max({a, b}) \in {a, b} /\ Max({a, b}) >= a /\ Max({a, b}) >= b
<1>1. \E x \in {a, b} : \A y \in {a, b} : x >= y
  OBVIOUS
<1> QED
  BY <1>1 DEF Max

\* ventilation.go: the state grows by one, and its publication is due.
LEMMA ChangeKeeps ==
  ASSUME Inv, last_state < MaxChanges, last_state' = last_state + 1, checker' = "pub",
         UNCHANGED <<hub, clientVars, initial_info, marshaller, crashed>>,
         Receive("newreq_c") \/ UNCHANGED chan
  PROVE  Inv'
<1>1. last_state \in Nat /\ last_state' \in Nat /\ last_state <= last_state'
  BY States DEF Inv
<1>2. /\ BusTypes' /\ Way("init_c")' = Way("init_c")
      /\ \A c \in Clients : Way(c)' = Way(c)
  <2>1. CASE UNCHANGED chan
    BY <1>1, <2>1, BusSame, WaysSame DEF Inv
  <2>2. CASE Receive("newreq_c")
    <3>1. "newreq_c" \in Channels
      BY ChannelsDiffer
    <3>2. /\ BusTypes'
          /\ \A ch \in Channels :
                Way(ch)' = IF ch = "newreq_c" THEN Tail(Way(ch)) ELSE Way(ch)
      BY <1>1, <2>2, <3>1, Receiving DEF Inv
    <3> QED
      BY <3>2, ChannelsDiffer
  <2> QED
    BY <2>1, <2>2
<1>3. DataTypes'
  <2>1. /\ last_state' \in Changes /\ initial_info' \in NoState .. last_state'
        /\ NoState .. last_state \subseteq NoState .. last_state'
    BY <1>1, WebAssumption DEF Inv, DataTypes, Changes, NoState
  <2>2. /\ toclient_chan' \in [Clients -> Seq(NoState .. last_state')]
        /\ initdata_c' \in [Clients -> Seq(NoState .. last_state')]
        /\ newest' \in [Clients -> NoState .. last_state']
    BY <2>1, SeqOfMore DEF Inv, DataTypes, clientVars
  <2> QED
    BY <2>1, <2>2, Zenon DEF Inv, DataTypes, clientVars
<1>4. Asking' /\ Showing'
  BY <1>2, AskingSame, ShowingSame DEF Inv, clientVars
<1>5. Published'
  BY DEF Published
<1> QED
  BY <1>2, <1>3, <1>4, <1>5 DEF Inv

\* ventilation.go:83-91: the state goes on its way to the marshaller.
LEMMA PublishKeeps == ASSUME Inv, publishDamperUpdate PROVE Inv'
<1>1. /\ Pub(last_state, {"udpate_c"}) /\ last_state \in Nat /\ last_state \in Messages
      /\ UNCHANGED <<chan, clientVars, last_state, initial_info, marshaller, crashed>>
      /\ checker' = "select"
  BY States DEF publishDamperUpdate, Inv, DataTypes, Messages
<1>2. {"udpate_c"} \in SUBSET Channels /\ \A ch \in {"udpate_c"} : last_state \in Carried(ch)
  BY <1>1, ChannelsDiffer DEF Carried
<1>3. /\ BusTypes'
      /\ \A ch \in Channels :
            Way(ch)' = IF ch \in {"udpate_c"} THEN Append(Way(ch), last_state) ELSE Way(ch)
  BY <1>1, <1>2, Publishing DEF Inv
<1>4. /\ Way("init_c")' = Way("init_c") /\ \A c \in Clients : Way(c)' = Way(c)
      /\ Way("udpate_c")' = Append(Way("udpate_c"), last_state)
  BY <1>3, ChannelsDiffer
<1>5. DataTypes'
  BY <1>1, Zenon DEF Inv, DataTypes, clientVars
<1>6. Asking' /\ Showing'
  BY <1>1, <1>4, AskingSame, ShowingSame DEF Inv, clientVars
<1>7. Published'
  <2>1. Way("udpate_c") \in Seq(Messages)
    BY WayTypes, ChannelsDiffer DEF Inv
  <2>2. /\ Way("udpate_c")' # << >>
        /\ Way("udpate_c")'[Len(Way("udpate_c")')] = last_state
    BY <1>1, <1>4, <2>1, AppendProperties
  <2> QED
    BY <1>1, <2>2, Zenon DEF Published, LastKnown
<1> QED
  BY <1>3, <1>5, <1>6, <1>7 DEF Inv

\* ventilation.go:105-114: replies change nothing but toclient_chan, or crash.
LEMMA RefuseKeeps == ASSUME Inv, Refuse PROVE Inv'
<1>1. /\ UNCHANGED <<hub, subscribed, reader, writer, initdata_c, newest, serverVars>>
      /\ UNCHANGED <<last_state, checker, initial_info, marshaller>>
      /\ Receive("newreq_c") /\ last_state \in Nat
  BY States DEF Refuse, serverVars, Inv
<1>2. "newreq_c" \in Channels
  BY ChannelsDiffer
<1>3. /\ BusTypes'
      /\ Head(chan["newreq_c"]) \in Carried("newreq_c")
      /\ \A ch \in Channels :
            Way(ch)' = IF ch = "newreq_c" THEN Tail(Way(ch)) ELSE Way(ch)
  BY <1>1, <1>2, Receiving DEF Inv
<1>4. /\ Way("init_c")' = Way("init_c") /\ \A c \in Clients : Way(c)' = Way(c)
      /\ Way("udpate_c")' = Way("udpate_c")
  BY <1>3, ChannelsDiffer
<1>5. DataTypes'
  <2> DEFINE c == Head(chan["newreq_c"])
             S == Seq(NoState .. last_state)
  <2>1. c \in Clients \cup {Mqtt} /\ last_state \in NoState .. last_state
        /\ NoState \in NoState .. last_state
    BY <1>1, <1>3 DEF Carried, NoState
  <2>2. ASSUME NEW replies \in S, Len(replies) <= ReplyCapacity,
               NEW m \in NoState .. last_state
        PROVE  SentTo(replies, m) \in S /\ Len(SentTo(replies, m)) <= ReplyCapacity
    <3>1. CASE Len(replies) = ReplyCapacity
      BY <2>2, <3>1 DEF SentTo, NoRoom
    <3>2. CASE Len(replies) # ReplyCapacity
      <4>1. SentTo(replies, m) = Append(replies, m)
        BY <3>2 DEF SentTo, NoRoom
      <4>2. SentTo(replies, m) \in S /\ Len(SentTo(replies, m)) = Len(replies) + 1
        BY <4>1
      <4> QED
        BY <2>2, <3>2, <4>2, WebAssumption
    <3> QED
      BY <3>1, <3>2
  <2>3. toclient_chan \in [Clients -> S] /\ \A d \in Clients : Len(toclient_chan[d]) <= ReplyCapacity
    BY DEF Inv, DataTypes
  <2>4. \/ UNCHANGED toclient_chan
        \/ /\ c \in Clients
           /\ toclient_chan' =
                [toclient_chan EXCEPT ![c] = SentTo(SentTo(@, last_state), NoState)]
    BY <2>1, Zenon DEF Refuse, replyToWebClient
  <2>5. crashed' \in BOOLEAN
    BY Zenon DEF Refuse, replyToWebClient, Inv, DataTypes
  <2> HIDE DEF c, S
  <2>6. /\ toclient_chan' \in [Clients -> S]
        /\ \A d \in Clients : Len(toclient_chan'[d]) <= ReplyCapacity
    <3>1. CASE UNCHANGED toclient_chan
      BY <2>3, <3>1
    <3>2. ASSUME c \in Clients,
                 toclient_chan' =
                     [toclient_chan EXCEPT ![c] = SentTo(SentTo(@, last_state), NoState)]
          PROVE  /\ toclient_chan' \in [Clients -> S]
                 /\ \A d \in Clients : Len(toclient_chan'[d]) <= ReplyCapacity
      <4>1. /\ SentTo(toclient_chan[c], last_state) \in S
            /\ Len(SentTo(toclient_chan[c], last_state)) <= ReplyCapacity
        BY <2>1, <2>2, <2>3, <3>2
      <4>2. /\ SentTo(SentTo(toclient_chan[c], last_state), NoState) \in S
            /\ Len(SentTo(SentTo(toclient_chan[c], last_state), NoState)) <= ReplyCapacity
        BY <2>1, <2>2, <4>1
      <4> QED
        BY <2>3, <3>2, <4>2
    <3> QED
      BY <2>4, <3>1, <3>2
  <2> QED
    BY <1>1, <2>5, <2>6, Zenon DEF Inv, DataTypes, S
<1> QED
  BY <1>1, <1>3, <1>4, <1>5, AskingSame, PublishedSame, ShowingSame DEF Inv

\* webserver.go:119-123: the marshaller takes the oldest update.
LEMMA MarshalKeeps == ASSUME Inv, MarshalUpdate PROVE Inv'
<1> DEFINE u == Way("udpate_c")
<1>1. /\ UNCHANGED <<hub, clientVars, last_state, checker, crashed>>
      /\ Receive("udpate_c") /\ initial_info' = Head(chan["udpate_c"])
      /\ marshaller' = "pub" /\ last_state \in Nat
  BY States DEF MarshalUpdate, Inv
<1>2. "udpate_c" \in Channels
  BY ChannelsDiffer
<1>3. /\ BusTypes' /\ Head(chan["udpate_c"]) \in Carried("udpate_c")
      /\ u # << >> /\ u[1] = Head(chan["udpate_c"])
      /\ \A ch \in Channels :
            Way(ch)' = IF ch = "udpate_c" THEN Tail(Way(ch)) ELSE Way(ch)
  BY <1>1, <1>2, Receiving DEF Inv
<1>4. /\ Way("init_c")' = Way("init_c") /\ \A c \in Clients : Way(c)' = Way(c)
      /\ u' = Tail(u)
  BY <1>3, ChannelsDiffer
<1>5. DataTypes'
  <2>1. initial_info' \in NoState .. last_state /\ initial_info' # NoState
    BY <1>1, <1>3, ChannelsDiffer DEF Carried, NoState
  <2> QED
    BY <1>1, <2>1, Zenon DEF Inv, DataTypes, clientVars
<1>6. Asking' /\ Showing'
  BY <1>1, <1>4, AskingSame DEF Inv, clientVars, Showing
<1>7. LastKnown' = LastKnown
  <2>1. u \in Seq(Messages)
    BY <1>2, WayTypes DEF Inv
  <2>2. u[1] = initial_info'
    BY <1>1, <1>3
  <2>3. LastKnown = u[Len(u)]
    BY <1>3 DEF LastKnown
  <2>4. LastKnown' = IF Tail(u) = << >> THEN u[1] ELSE Tail(u)[Len(Tail(u))]
    BY <1>4, <2>2, Zenon DEF LastKnown
  <2> HIDE DEF u
  <2>5. /\ Len(u) \in Nat \ {0} /\ Tail(u) \in Seq(Messages) /\ Len(Tail(u)) = Len(u) - 1
        /\ \A k \in 1 .. Len(u) - 1 : Tail(u)[k] = u[k + 1]
    BY <1>3, <2>1, HeadTailProperties, EmptySeq
  <2>6. CASE Len(u) = 1
    <3>1. Tail(u) = << >>
      <4>1. Tail(u) \in Seq(Messages) /\ Len(Tail(u)) = 0
        BY <2>5, <2>6
      <4> QED
        BY <4>1, EmptySeq
    <3> QED
      BY <2>3, <2>4, <2>6, <3>1
  <2>7. CASE Len(u) # 1
    <3>1. Len(u) - 1 \in 1 .. Len(u) - 1 /\ (Len(u) - 1) + 1 = Len(u) /\ Len(u) - 1 # 0
      BY <2>5, <2>7
    <3>2. Tail(u) # << >>
      BY <2>5, <3>1, EmptySeq
    <3> QED
      BY <2>3, <2>4, <2>5, <3>1, <3>2
  <2> QED
    BY <2>6, <2>7
<1>8. Published'
  BY <1>1, <1>7 DEF Inv, Published
<1> QED
  BY <1>3, <1>5, <1>6, <1>8 DEF Inv

\* webserver.go:112-118,124: what the marshaller has goes on its way to all who have
\* subscribed, all that are being written to among them.
LEMMA PubJsonKeeps == ASSUME Inv, PubJson PROVE Inv'
<1>1. /\ UNCHANGED <<chan, clientVars, last_state, checker, initial_info, crashed>>
      /\ Pub(initial_info, subscribed) /\ marshaller = "pub" /\ marshaller' = "select"
      /\ initial_info \in 0 .. last_state /\ initial_info \in Messages
      /\ subscribed \in SUBSET Clients
  BY States, WebAssumption
     DEF PubJson, Inv, DataTypes, Messages, Changes, NoState
<1>2. subscribed \in SUBSET Channels /\ \A ch \in subscribed : initial_info \in Carried(ch)
  BY <1>1, ChannelsDiffer DEF Carried
<1>3. /\ BusTypes'
      /\ \A ch \in Channels :
            Way(ch)' = IF ch \in subscribed THEN Append(Way(ch), initial_info) ELSE Way(ch)
  BY <1>1, <1>2, Publishing DEF Inv
<1>4. /\ Way("init_c")' = Way("init_c") /\ Way("udpate_c")' = Way("udpate_c")
      /\ \A c \in subscribed : Way(c)' = Append(Way(c), initial_info)
  BY <1>1, <1>3, ChannelsDiffer
<1>5. DataTypes'
  BY <1>1, Zenon DEF Inv, DataTypes, clientVars
<1>6. Asking' /\ Published'
  BY <1>1, <1>4, AskingSame, PublishedSame DEF Inv, clientVars
<1>7. Showing'
  <2>1. ASSUME NEW c \in Clients, writer'[c] = "loop" PROVE Covered(c)'
    <3>1. c \in subscribed
      BY <1>1, <2>1 DEF Inv, Asking, clientVars
    <3>2. Way(c) \in Seq(Messages)
      BY <3>1, WayTypes, ChannelsDiffer DEF Inv
    <3>3. /\ Len(Way(c)') \in 1 .. Len(Way(c)')
          /\ Way(c)'[Len(Way(c)')] = initial_info /\ initial_info >= initial_info
      BY <1>1, <1>4, <3>1, <3>2, AppendProperties
    <3> QED
      BY <1>1, <3>3, Zenon DEF Covered
  <2> QED
    BY <2>1 DEF Showing
<1> QED
  BY <1>3, <1>5, <1>6, <1>7 DEF Inv

\* webserver.go:125-127: the oldest question is answered with what the marshaller has.
LEMMA AnswerKeeps == ASSUME Inv, AnswerNewClient PROVE Inv'
<1> DEFINE w == Way("init_c")
<1>1. /\ UNCHANGED <<hub, subscribed, reader, writer, toclient_chan, newest, crashed>>
      /\ UNCHANGED <<last_state, checker, initial_info, marshaller>>
      /\ Receive("init_c") /\ last_state \in Nat
  BY States DEF AnswerNewClient, Inv, serverVars
<1>2. "init_c" \in Channels
  BY ChannelsDiffer
<1>3. /\ BusTypes' /\ Head(chan["init_c"]) \in Clients /\ w # << >>
      /\ w[1] = Head(chan["init_c"])
      /\ \A ch \in Channels :
            Way(ch)' = IF ch = "init_c" THEN Tail(Way(ch)) ELSE Way(ch)
  BY <1>1, <1>2, Receiving DEF Inv, Carried
<1> PICK c \in Clients : c = Head(chan["init_c"])
  BY <1>3
<1>0. w[1] = c /\ initdata_c' = [initdata_c EXCEPT ![c] = Append(@, initial_info)]
  BY <1>3 DEF AnswerNewClient
<1>4. /\ \A d \in Clients : Way(d)' = Way(d)
      /\ Way("udpate_c")' = Way("udpate_c") /\ w' = Tail(w)
  BY <1>3, ChannelsDiffer
<1>5. w \in Seq(Messages)
  BY <1>2, WayTypes DEF Inv
<1> HIDE DEF w
<1>6. /\ Len(w) \in Nat \ {0} /\ Len(w') = Len(w) - 1
      /\ \A k \in 1 .. Len(w) - 1 : w'[k] = w[k + 1]
  BY <1>0, <1>3, <1>4, <1>5, HeadTailProperties, EmptySeq
<1>7. /\ \A j, k \in 1 .. Len(w) : w[j] = w[k] => j = k
      /\ \A d \in Clients : Asked(d) <=> \E k \in 1 .. Len(w) : w[k] = d
      /\ \A d \in Clients : Asked(d)' <=> \E k \in 1 .. Len(w') : w'[k] = d
  BY Zenon DEF Inv, Asking, Asked, w
<1>8. Asked(c) /\ ~Asked(c)'
  <2>1. 1 \in 1 .. Len(w)
    BY <1>6
  <2>2. ASSUME NEW k \in 1 .. Len(w'), w'[k] = c PROVE FALSE
    <3>1. k + 1 \in 1 .. Len(w) /\ k + 1 # 1 /\ w[k + 1] = w[1]
      BY <1>0, <1>3, <1>6, <2>2
    <3> QED
      BY <1>7, <2>1, <3>1
  <2> QED
    BY <1>0, <1>3, <1>7, <2>1, <2>2
<1>9. ASSUME NEW d \in Clients, d # c PROVE Asked(d)' <=> Asked(d)
  <2>1. ASSUME NEW k \in 1 .. Len(w), w[k] = d
        PROVE  \E j \in 1 .. Len(w') : w'[j] = d
    <3>1. k # 1
      BY <1>0, <1>3, <1>9, <2>1
    <3>2. k - 1 \in 1 .. Len(w) - 1 /\ (k - 1) + 1 = k
      BY <1>6, <3>1
    <3> QED
      BY <1>6, <2>1, <3>2
  <2>2. ASSUME NEW k \in 1 .. Len(w'), w'[k] = d
        PROVE  \E j \in 1 .. Len(w) : w[j] = d
    <3>1. k + 1 \in 1 .. Len(w) /\ w[k + 1] = d
      BY <1>6, <2>2
    <3> QED
      BY <3>1
  <2> QED
    BY <1>7, <2>1, <2>2
<1>10. initial_info \in NoState .. last_state /\ initial_info \in Int
  BY States DEF Inv, DataTypes
<1>11. Len(initdata_c'[c]) = 1 /\ initdata_c'[c][1] = initial_info
  <2>1. initdata_c[c] = << >>
    BY <1>0, <1>3, <1>8 DEF Inv, Asking
  <2>2. initdata_c'[c] = Append(<< >>, initial_info)
    BY <1>0, <1>1, <1>3, <2>1 DEF Inv, DataTypes
  <2> QED
    BY <2>2
<1>12. DataTypes'
  <2>1. initdata_c' \in [Clients -> Seq(NoState .. last_state)]
    BY <1>0, <1>1, <1>3, <1>10 DEF Inv, DataTypes
  <2> QED
    BY <1>1, <2>1, Zenon DEF Inv, DataTypes
<1>13. \A d \in Clients : d # c => initdata_c'[d] = initdata_c[d]
  BY <1>0, <1>1, <1>3 DEF Inv, DataTypes
<1>14. Asking'
  <2>1. \A j, k \in 1 .. Len(w') : w'[j] = w'[k] => j = k
    BY <1>6, <1>7
  <2>2. ASSUME NEW d \in Clients
        PROVE  /\ reader'[d] = "off" => writer'[d] = "off"
               /\ writer'[d] \in {"off", "sub", "get"} => ~Asked(d)' /\ initdata_c'[d] = << >>
               /\ Asked(d)' => initdata_c'[d] = << >>
               /\ Len(initdata_c'[d]) <= 1
               /\ writer'[d] \in {"get", "loop"} => d \in subscribed'
    <3>1. CASE d = c
      <4>1. writer[d] \notin {"off", "sub", "get"}
        BY <1>0, <1>3, <1>8, <3>1 DEF Inv, Asking
      <4>2. Len(initdata_c'[d]) <= 1
        <5>1. Len(initdata_c'[d]) = 1
          BY <1>11, <3>1, Zenon
        <5> QED
          BY <5>1
      <4>3. ~Asked(d)' /\ writer'[d] = writer[d] /\ reader'[d] = reader[d] /\ subscribed' = subscribed
        BY <1>1, <1>8, <3>1
      <4>4. /\ reader[d] = "off" => writer[d] = "off"
            /\ writer[d] \in {"get", "loop"} => d \in subscribed
        BY DEF Inv, Asking
      <4> QED
        BY <4>1, <4>2, <4>3, <4>4, Zenon
    <3>2. CASE d # c
      BY <1>1, <1>9, <1>13, <3>2 DEF Inv, Asking
    <3> QED
      BY <3>1, <3>2
  <2> QED
    BY <2>1, <2>2, Zenon DEF Asking, w
<1>15. Published'
  BY <1>1, <1>4, PublishedSame DEF Inv
<1>16. Showing'
  <2>1. ASSUME NEW d \in Clients, writer'[d] = "loop", marshaller' = "select"
        PROVE  Covered(d)'
    <3>1. CASE d = c
      <4>1. /\ 1 \in 1 .. Len(initdata_c'[d]) /\ initdata_c'[d][1] = initial_info
            /\ initial_info >= initial_info
        BY <1>10, <1>11, <3>1
      <4> QED
        BY <1>1, <4>1, Zenon DEF Covered
    <3>2. CASE d # c
      <4>1. Covered(d)
        BY <1>1, <2>1 DEF Inv, Showing
      <4> QED
        BY <1>1, <1>4, <1>9, <1>13, <3>2, <4>1, Zenon DEF Covered
    <3> QED
      BY <3>1, <3>2
  <2> QED
    BY <2>1 DEF Showing
<1> QED
  BY <1>0, <1>3, <1>12, <1>14, <1>15, <1>16 DEF Inv

-----------------------------------------------------------------------------
(* The clients *)

\* webserver.go:88-100: the question for the present state is put once.
LEMMA GetStateKeeps == ASSUME Inv, NEW c \in Clients, GetState(c) PROVE Inv'
<1> DEFINE w == Way("init_c")
<1>1. /\ UNCHANGED <<chan, subscribed, reader, toclient_chan, initdata_c, newest, crashed>>
      /\ UNCHANGED <<last_state, checker, initial_info, marshaller>>
      /\ Pub(c, {"init_c"}) /\ writer[c] = "get"
      /\ writer' = [writer EXCEPT ![c] = "loop"] /\ c \in Messages
  BY DEF GetState, AfterCall, Calls, serverVars, Messages
<1>2. {"init_c"} \in SUBSET Channels /\ \A ch \in {"init_c"} : c \in Carried(ch)
  BY ChannelsDiffer DEF Carried
<1>3. /\ BusTypes'
      /\ \A ch \in Channels :
            Way(ch)' = IF ch \in {"init_c"} THEN Append(Way(ch), c) ELSE Way(ch)
  BY <1>1, <1>2, Publishing DEF Inv
<1>4. /\ \A d \in Clients : Way(d)' = Way(d)
      /\ Way("udpate_c")' = Way("udpate_c") /\ w' = Append(w, c)
  BY <1>3, ChannelsDiffer
<1>5. w \in Seq(Messages)
  BY WayTypes, ChannelsDiffer DEF Inv
<1> HIDE DEF w
<1>6. /\ Len(w) \in Nat /\ Len(w') = Len(w) + 1 /\ w'[Len(w) + 1] = c
      /\ \A k \in 1 .. Len(w) : w'[k] = w[k]
  BY <1>1, <1>4, <1>5, AppendProperties
<1>7. /\ \A j, k \in 1 .. Len(w) : w[j] = w[k] => j = k
      /\ \A d \in Clients : Asked(d) <=> \E k \in 1 .. Len(w) : w[k] = d
      /\ \A d \in Clients : Asked(d)' <=> \E k \in 1 .. Len(w') : w'[k] = d
  BY Zenon DEF Inv, Asking, Asked, w
<1>8. ~Asked(c) /\ initdata_c[c] = << >> /\ c \in subscribed
  BY <1>1 DEF Inv, Asking
<1>9. Asked(c)'
  BY <1>6, <1>7
<1>10. ASSUME NEW d \in Clients, d # c PROVE Asked(d)' <=> Asked(d)
  <2>1. ASSUME NEW k \in 1 .. Len(w), w[k] = d
        PROVE  \E j \in 1 .. Len(w') : w'[j] = d
    BY <1>6, <2>1
  <2>2. ASSUME NEW k \in 1 .. Len(w'), w'[k] = d
        PROVE  \E j \in 1 .. Len(w) : w[j] = d
    BY <1>6, <1>10, <2>2
  <2> QED
    BY <1>7, <2>1, <2>2
<1>11. DataTypes'
  <2>1. writer' \in [Clients -> {"off", "sub", "get", "loop", "leave", "gone"}]
    BY <1>1 DEF Inv, DataTypes
  <2> QED
    BY <1>1, <2>1, Zenon DEF Inv, DataTypes
<1>12. writer'[c] = "loop" /\ \A d \in Clients : d # c => writer'[d] = writer[d]
  BY <1>1 DEF Inv, DataTypes
<1>13. Asking'
  <2>1. ASSUME NEW j \in 1 .. Len(w'), NEW k \in 1 .. Len(w'), w'[j] = w'[k]
        PROVE  j = k
    <3>1. \A i \in 1 .. Len(w) : w'[i] # c
      BY <1>6, <1>7, <1>8
    <3>2. (j \in 1 .. Len(w) \/ j = Len(w) + 1) /\ (k \in 1 .. Len(w) \/ k = Len(w) + 1)
      BY <1>6
    <3> QED
      BY <1>6, <1>7, <2>1, <3>1, <3>2
  <2>2. ASSUME NEW d \in Clients
        PROVE  /\ reader'[d] = "off" => writer'[d] = "off"
               /\ writer'[d] \in {"off", "sub", "get"} => ~Asked(d)' /\ initdata_c'[d] = << >>
               /\ Asked(d)' => initdata_c'[d] = << >>
               /\ Len(initdata_c'[d]) <= 1
               /\ writer'[d] \in {"get", "loop"} => d \in subscribed'
    <3>1. CASE d = c
      BY <1>1, <1>8, <1>12, <3>1 DEF Inv, Asking
    <3>2. CASE d # c
      BY <1>1, <1>10, <1>12, <3>2 DEF Inv, Asking
    <3> QED
      BY <3>1, <3>2
  <2> QED
    BY <2>1, <2>2, Zenon DEF Asking, w
<1>14. Published'
  BY <1>1, <1>4, PublishedSame DEF Inv
<1>15. Showing'
  <2>1. ASSUME NEW d \in Clients, writer'[d] = "loop", marshaller' = "select"
        PROVE  Covered(d)'
    <3>1. CASE d = c
      BY <1>9, <3>1 DEF Covered
    <3>2. CASE d # c
      <4>1. Covered(d)
        BY <1>1, <1>12, <2>1, <3>2 DEF Inv, Showing
      <4> QED
        BY <1>1, <1>4, <1>10, <3>2, <4>1, Zenon DEF Covered
    <3> QED
      BY <3>1, <3>2
  <2> QED
    BY <2>1 DEF Showing
<1> QED
  BY <1>3, <1>11, <1>13, <1>14, <1>15 DEF Inv

\* webserver.go:100-109: what is written to a client is shown to him, or ends his writer.
LEMMA WriteKeeps ==
  ASSUME Inv, NEW c \in Clients, WriteUpdate(c) \/ WriteInit(c) \/ WriteReply(c)
  PROVE  Inv'
<1>1. /\ writer[c] = "loop"
      /\ UNCHANGED <<hub, subscribed, reader, crashed>>
      /\ UNCHANGED <<last_state, checker, initial_info, marshaller>>
      /\ last_state \in Nat
  BY States DEF WriteUpdate, WriteInit, WriteReply, Shown, serverVars, Inv
<1>2. PICK state \in NoState .. last_state :
          /\ \/ newest' = [newest EXCEPT ![c] = Max({@, state})] /\ UNCHANGED writer
             \/ writer' = [writer EXCEPT ![c] = "leave"] /\ UNCHANGED newest
          /\ \/ /\ Receive(c) /\ state = Head(chan[c])
                /\ UNCHANGED <<toclient_chan, initdata_c>>
             \/ /\ initdata_c[c] # << >> /\ state = Head(initdata_c[c])
                /\ initdata_c' = [initdata_c EXCEPT ![c] = << >>]
                /\ UNCHANGED <<chan, toclient_chan>>
             \/ /\ toclient_chan[c] # << >>
                /\ toclient_chan' = [toclient_chan EXCEPT ![c] = Tail(@)]
                /\ UNCHANGED <<chan, initdata_c>>
  <2>1. CASE WriteUpdate(c)
    <3>1. Head(chan[c]) \in NoState .. last_state
      <4>1. chan[c] \in Seq(0 .. last_state) /\ chan[c] # << >>
        BY <2>1, ChannelsDiffer DEF WriteUpdate, Receive, Inv, BusTypes, Carried
      <4> QED
        BY <1>1, <4>1 DEF NoState
    <3> QED
      BY <2>1, <3>1 DEF WriteUpdate, Shown
  <2>2. CASE WriteInit(c)
    <3>1. Head(initdata_c[c]) \in NoState .. last_state
      <4>1. initdata_c[c] \in Seq(NoState .. last_state) /\ initdata_c[c] # << >>
        BY <2>2 DEF WriteInit, Inv, DataTypes
      <4> QED
        BY <4>1, HeadAndTail
    <3> QED
      BY <2>2, <3>1 DEF WriteInit, Shown
  <2>3. CASE WriteReply(c)
    <3>1. Head(toclient_chan[c]) \in NoState .. last_state
      <4>1. toclient_chan[c] \in Seq(NoState .. last_state) /\ toclient_chan[c] # << >>
        BY <2>3 DEF WriteReply, Inv, DataTypes
      <4> QED
        BY <4>1, HeadAndTail
    <3> QED
      BY <2>3, <3>1 DEF WriteReply, Shown
  <2> QED
    BY <2>1, <2>2, <2>3
<1>3. /\ BusTypes'
      /\ Way("init_c")' = Way("init_c") /\ Way("udpate_c")' = Way("udpate_c")
      /\ \A d \in Clients : d # c => Way(d)' = Way(d)
      /\ Way(c)' = Way(c) \/ (Way(c) # << >> /\ Way(c)[1] = state /\ Way(c)' = Tail(Way(c)))
  <2>1. c \in Channels
    BY ChannelsDiffer
  <2>2. CASE UNCHANGED chan
    BY <1>1, <2>1, <2>2, BusSame, WaysSame DEF Inv
  <2>3. ASSUME Receive(c), state = Head(chan[c])
        PROVE  /\ BusTypes'
               /\ Way("init_c")' = Way("init_c") /\ Way("udpate_c")' = Way("udpate_c")
               /\ \A d \in Clients : d # c => Way(d)' = Way(d)
               /\ Way(c) # << >> /\ Way(c)[1] = state /\ Way(c)' = Tail(Way(c))
    <3>1. /\ BusTypes' /\ Way(c) # << >> /\ Way(c)[1] = Head(chan[c])
          /\ \A ch \in Channels : Way(ch)' = IF ch = c THEN Tail(Way(ch)) ELSE Way(ch)
      BY <1>1, <2>1, <2>3, Receiving DEF Inv
    <3> QED
      BY <2>1, <2>3, <3>1, ChannelsDiffer
  <2> QED
    BY <1>2, <2>2, <2>3
<1>4. state \in Int /\ \A d \in Clients : newest[d] \in Int
  BY <1>2, States DEF Inv
<1>5. /\ newest' \in [Clients -> NoState .. last_state]
      /\ writer' \in [Clients -> {"off", "sub", "get", "loop", "leave", "gone"}]
      /\ \A d \in Clients : d # c => newest'[d] = newest[d] /\ writer'[d] = writer[d]
      /\ writer'[c] = "leave" \/ (writer'[c] = "loop" /\ newest'[c] >= newest[c]
                                  /\ newest'[c] >= state)
  <2>1. newest[c] \in NoState .. last_state
    BY DEF Inv, DataTypes
  <2>2. /\ Max({newest[c], state}) \in NoState .. last_state
        /\ Max({newest[c], state}) >= newest[c] /\ Max({newest[c], state}) >= state
    BY <1>2, <1>4, <2>1, MaxOfTwo
  <2>3. CASE newest' = [newest EXCEPT ![c] = Max({@, state})] /\ UNCHANGED writer
    BY <1>1, <2>2, <2>3 DEF Inv, DataTypes
  <2>4. CASE writer' = [writer EXCEPT ![c] = "leave"] /\ UNCHANGED newest
    BY <2>4 DEF Inv, DataTypes
  <2> QED
    BY <1>2, <2>3, <2>4
<1>6. /\ initdata_c' \in [Clients -> Seq(NoState .. last_state)]
      /\ \A d \in Clients : d # c => initdata_c'[d] = initdata_c[d]
      /\ \/ initdata_c'[c] = initdata_c[c]
         \/ initdata_c'[c] = << >> /\ initdata_c[c] # << >> /\ state = Head(initdata_c[c])
  <2>1. CASE UNCHANGED initdata_c
    BY <2>1 DEF Inv, DataTypes
  <2>2. ASSUME initdata_c[c] # << >>, state = Head(initdata_c[c]),
               initdata_c' = [initdata_c EXCEPT ![c] = << >>]
        PROVE  /\ initdata_c' \in [Clients -> Seq(NoState .. last_state)]
               /\ \A d \in Clients : d # c => initdata_c'[d] = initdata_c[d]
               /\ initdata_c'[c] = << >>
    <3>1. << >> \in Seq(NoState .. last_state)
      OBVIOUS
    <3> QED
      BY <2>2, <3>1 DEF Inv, DataTypes
  <2> QED
    BY <1>2, <2>1, <2>2
<1>7. /\ toclient_chan' \in [Clients -> Seq(NoState .. last_state)]
      /\ \A d \in Clients : Len(toclient_chan'[d]) <= ReplyCapacity
  <2>1. CASE UNCHANGED toclient_chan
    BY <2>1 DEF Inv, DataTypes
  <2>2. ASSUME toclient_chan[c] # << >>,
               toclient_chan' = [toclient_chan EXCEPT ![c] = Tail(@)]
        PROVE  /\ toclient_chan' \in [Clients -> Seq(NoState .. last_state)]
               /\ \A d \in Clients : Len(toclient_chan'[d]) <= ReplyCapacity
    <3>1. toclient_chan[c] \in Seq(NoState .. last_state) /\ Len(toclient_chan[c]) <= ReplyCapacity
      BY DEF Inv, DataTypes
    <3>2. /\ Tail(toclient_chan[c]) \in Seq(NoState .. last_state)
          /\ Len(Tail(toclient_chan[c])) <= ReplyCapacity
      <4>1. /\ Tail(toclient_chan[c]) \in Seq(NoState .. last_state)
            /\ Len(toclient_chan[c]) \in Nat \ {0}
            /\ Len(Tail(toclient_chan[c])) = Len(toclient_chan[c]) - 1
        BY <2>2, <3>1, HeadAndTail
      <4> QED
        BY <3>1, <4>1, WebAssumption
    <3> QED
      BY <2>2, <3>2 DEF Inv, DataTypes
  <2> QED
    BY <1>2, <2>1, <2>2
<1>8. DataTypes'
  BY <1>1, <1>5, <1>6, <1>7, Zenon DEF Inv, DataTypes
<1>9. \A d \in Clients : Asked(d)' <=> Asked(d)
  BY <1>3, Zenon DEF Asked
<1>10. Asking'
  <2>1. Len(initdata_c'[c]) <= 1
    BY <1>6 DEF Inv, Asking
  <2>2. ASSUME NEW d \in Clients
        PROVE  /\ reader'[d] = "off" => writer'[d] = "off"
               /\ writer'[d] \in {"off", "sub", "get"} => ~Asked(d)' /\ initdata_c'[d] = << >>
               /\ Asked(d)' => initdata_c'[d] = << >>
               /\ Len(initdata_c'[d]) <= 1
               /\ writer'[d] \in {"get", "loop"} => d \in subscribed'
    <3>1. CASE d = c
      BY <1>1, <1>5, <1>6, <1>9, <2>1, <3>1 DEF Inv, Asking
    <3>2. CASE d # c
      BY <1>1, <1>5, <1>6, <1>9, <3>2 DEF Inv, Asking
    <3> QED
      BY <3>1, <3>2
  <2> QED
    BY <1>3, <2>2, Zenon DEF Inv, Asking
<1>11. Published'
  BY <1>1, <1>3, PublishedSame DEF Inv
<1>12. Showing'
  <2>1. ASSUME NEW d \in Clients, writer'[d] = "loop", marshaller' = "select"
        PROVE  Covered(d)'
    <3>1. Covered(d)
      BY <1>1, <1>5, <2>1 DEF Inv, Showing
    <3>2. CASE d # c
      BY <1>1, <1>3, <1>5, <1>6, <1>9, <3>1, <3>2, Zenon DEF Covered
    <3>3. CASE d = c
      <4>1. newest'[c] >= newest[c] /\ newest'[c] >= state /\ initial_info' = initial_info
        BY <1>1, <1>5, <2>1, <3>3
      <4>2. newest[c] \in Int /\ newest'[c] \in Int /\ initial_info \in Int
        BY <1>8, States, <1>1, <1>5 DEF Inv
      <4>3. CASE newest[c] >= initial_info
        BY <3>3, <4>1, <4>2, <4>3 DEF Covered
      <4>4. CASE Asked(c)
        BY <1>9, <3>3, <4>4 DEF Covered
      <4>5. ASSUME NEW k \in 1 .. Len(Way(c)), Way(c)[k] >= initial_info
            PROVE  Covered(c)'
        <5>1. CASE Way(c)' = Way(c)
          BY <4>1, <4>5, <5>1, Zenon DEF Covered
        <5>2. ASSUME Way(c) # << >>, Way(c)[1] = state, Way(c)' = Tail(Way(c))
              PROVE  Covered(c)'
          <6>1. CASE k = 1
            BY <1>4, <4>1, <4>2, <4>5, <5>2, <6>1 DEF Covered
          <6>2. CASE k # 1
            <7>1. Way(c) \in Seq(Messages)
              BY WayTypes, ChannelsDiffer DEF Inv
            <7>2. k - 1 \in 1 .. Len(Tail(Way(c))) /\ Tail(Way(c))[k - 1] = Way(c)[k]
              BY <5>2, <6>2, <7>1, HeadTailProperties
            <7>3. \E j \in 1 .. Len(Way(c)') : Way(c)'[j] >= initial_info'
              BY <4>1, <4>5, <5>2, <7>2, Zenon
            <7> QED
              BY <7>3, Zenon DEF Covered
          <6> QED
            BY <6>1, <6>2
        <5> QED
          BY <1>3, <5>1, <5>2
      <4>6. ASSUME NEW k \in 1 .. Len(initdata_c[c]), initdata_c[c][k] >= initial_info
            PROVE  Covered(c)'
        <5>1. CASE initdata_c'[c] = initdata_c[c]
          BY <4>1, <4>6, <5>1, Zenon DEF Covered
        <5>2. CASE state = Head(initdata_c[c])
          <6>1. k = 1 /\ Head(initdata_c[c]) = initdata_c[c][1]
            <7>1. Len(initdata_c[c]) <= 1 /\ initdata_c[c] \in Seq(NoState .. last_state)
              BY DEF Inv, Asking, DataTypes
            <7> QED
              BY <4>6, <7>1
          <6> QED
            BY <1>4, <4>1, <4>2, <4>6, <5>2, <6>1 DEF Covered
        <5> QED
          BY <1>6, <5>1, <5>2
      <4> QED
        BY <3>1, <3>3, <4>3, <4>4, <4>5, <4>6, Zenon DEF Covered
    <3> QED
      BY <3>2, <3>3
  <2> QED
    BY <2>1 DEF Showing
<1> QED
  BY <1>3, <1>8, <1>10, <1>11, <1>12 DEF Inv

\* Steps that only move a client's two goroutines on, and never into the writer's loop.
LEMMA MovesKeep ==
  ASSUME Inv, UNCHANGED <<hub, chan, toclient_chan, initdata_c, newest, serverVars, crashed>>,
         reader' \in [Clients -> {"off", "read", "closed"}],
         writer' \in [Clients -> {"off", "sub", "get", "loop", "leave", "gone"}],
         subscribed' \subseteq Clients,
         \A d \in Clients :
            /\ reader'[d] = "off" => writer'[d] = "off"
            /\ writer'[d] \in {"off", "sub", "get"} => writer[d] \in {"off", "sub", "get"}
            /\ writer'[d] \in {"get", "loop"} => d \in subscribed'
            /\ writer'[d] = "loop" => writer[d] = "loop"
  PROVE  Inv'
<1>1. UNCHANGED <<last_state, checker, initial_info, marshaller>>
  BY DEF serverVars
<1>2. DataTypes'
  BY <1>1, Zenon DEF Inv, DataTypes
<1>3. BusTypes' /\ Published' /\ \A ch \in Channels : Way(ch)' = Way(ch)
  BY <1>2, ClientKeeps
<1>4. Way("init_c")' = Way("init_c") /\ \A d \in Clients : Way(d)' = Way(d)
  BY <1>3, WaysSame
<1>5. \A d \in Clients : Asked(d)' <=> Asked(d)
  BY <1>4, Zenon DEF Asked
<1>6. Asking'
  <2>1. \A d \in Clients : /\ Asked(d) => initdata_c[d] = << >>
                           /\ Len(initdata_c[d]) <= 1
                           /\ writer[d] \in {"off", "sub", "get"} =>
                                ~Asked(d) /\ initdata_c[d] = << >>
    BY DEF Inv, Asking
  <2>2. \A j, k \in 1 .. Len(Way("init_c")) : Way("init_c")[j] = Way("init_c")[k] => j = k
    BY DEF Inv, Asking
  <2> QED
    BY <1>4, <1>5, <2>1, <2>2, Zenon DEF Asking
<1>7. Showing'
  <2>1. ASSUME NEW d \in Clients, writer'[d] = "loop", marshaller' = "select"
        PROVE  Covered(d)'
    <3>1. Covered(d)
      BY <1>1, <2>1 DEF Inv, Showing
    <3> QED
      BY <1>1, <1>4, <1>5, <3>1, Zenon DEF Covered
  <2> QED
    BY <2>1 DEF Showing
<1> QED
  BY <1>2, <1>3, <1>6, <1>7 DEF Inv

\* A client comes or goes; his writer subscribes or leaves its loop.
LEMMA MoveKeeps ==
  ASSUME Inv, NEW c \in Clients,
         Connect(c) \/ Disconnect(c) \/ Sub(c) \/ LeaveLoop(c)
  PROVE  Inv'
<1> USE DEF Inv, DataTypes, Asking
<1>1. CASE Connect(c)
  BY <1>1, MovesKeep DEF Connect, Calls
<1>3. CASE Disconnect(c)
  BY <1>3, MovesKeep DEF Disconnect
<1>4. CASE Sub(c)
  BY <1>4, MovesKeep DEF Sub, AfterCall, Calls
<1>5. CASE LeaveLoop(c)
  BY <1>5, MovesKeep DEF LeaveLoop
<1> QED
  BY <1>1, <1>3, <1>4, <1>5

\* webserver.go:91: the library closes and empties the channel of a writer that is done.
LEMMA UnsubKeeps == ASSUME Inv, NEW c \in Clients, Unsub(c) PROVE Inv'
<1>1. /\ UNCHANGED <<hub, reader, toclient_chan, initdata_c, newest, crashed>>
      /\ UNCHANGED <<last_state, checker, initial_info, marshaller>>
      /\ hub.to = {} /\ subscribed' = subscribed \ {c}
      /\ chan' = [chan EXCEPT ![c] = << >>]
      /\ writer' = [writer EXCEPT ![c] = "gone"]
      /\ c \in Channels /\ c \notin {"newreq_c", "udpate_c", "init_c"}
  BY ChannelsDiffer DEF Unsub, serverVars, HubIsFree, LeftOver
<1>2. \A ch \in Channels : ch # c => chan'[ch] = chan[ch]
  BY <1>1 DEF Inv, BusTypes
<1>3. Way("init_c")' = Way("init_c") /\ Way("udpate_c")' = Way("udpate_c")
      /\ \A d \in Clients : d # c => Way(d)' = Way(d)
  BY <1>1, <1>2, ChannelsDiffer DEF Way
<1>4. BusTypes'
  <2>1. \A ch : Carried(ch)' = Carried(ch)
    BY <1>1 DEF Carried
  <2>2. chan'[c] = << >> /\ chan' \in [Channels -> Seq(Messages)]
    BY <1>1 DEF Inv, BusTypes
  <2>3. ASSUME NEW ch \in Channels
        PROVE  chan'[ch] \in Seq(Carried(ch)) /\ Len(chan'[ch]) <= Capacity
    <3>1. CASE ch = c
      <4>1. << >> \in Seq(Carried(ch)) /\ Len(<< >>) = 0 /\ Capacity \in Nat
        BY WebAssumption
      <4> QED
        BY <2>2, <3>1, <4>1
    <3>2. CASE ch # c
      BY <1>2, <3>2 DEF Inv, BusTypes
    <3> QED
      BY <3>1, <3>2
  <2> QED
    BY <1>1, <2>1, <2>2, <2>3 DEF Inv, BusTypes
<1>5. DataTypes'
  <2>1. /\ subscribed' \subseteq Clients
        /\ writer' \in [Clients -> {"off", "sub", "get", "loop", "leave", "gone"}]
    BY <1>1 DEF Inv, DataTypes
  <2> QED
    BY <1>1, <2>1, Zenon DEF Inv, DataTypes
<1>6. \A d \in Clients : Asked(d)' <=> Asked(d)
  BY <1>3, Zenon DEF Asked
<1>7. writer[c] = "leave" /\ writer'[c] = "gone"
      /\ \A d \in Clients : d # c => writer'[d] = writer[d]
  BY <1>1 DEF Unsub, Inv, DataTypes
<1>8. Asking'
  <2>1. ASSUME NEW d \in Clients
        PROVE  /\ reader'[d] = "off" => writer'[d] = "off"
               /\ writer'[d] \in {"off", "sub", "get"} => ~Asked(d)' /\ initdata_c'[d] = << >>
               /\ Asked(d)' => initdata_c'[d] = << >>
               /\ Len(initdata_c'[d]) <= 1
               /\ writer'[d] \in {"get", "loop"} => d \in subscribed'
    <3>1. CASE d = c
      BY <1>1, <1>6, <1>7, <3>1 DEF Inv, Asking
    <3>2. CASE d # c
      BY <1>1, <1>6, <1>7, <3>2 DEF Inv, Asking
    <3> QED
      BY <3>1, <3>2
  <2> QED
    BY <1>3, <2>1, Zenon DEF Inv, Asking
<1>9. Published'
  BY <1>1, <1>3, PublishedSame DEF Inv
<1>10. Showing'
  <2>1. ASSUME NEW d \in Clients, writer'[d] = "loop", marshaller' = "select"
        PROVE  Covered(d)'
    <3>1. d # c /\ writer[d] = "loop"
      BY <1>7, <2>1
    <3>2. Covered(d)
      BY <1>1, <2>1, <3>1 DEF Inv, Showing
    <3> QED
      BY <1>1, <1>3, <1>6, <3>1, <3>2, Zenon DEF Covered
  <2> QED
    BY <2>1 DEF Showing
<1> QED
  BY <1>4, <1>5, <1>8, <1>9, <1>10 DEF Inv

\* webserver.go:163 and mqttventilation.go: a request is published.
LEMMA PubRequestKeeps ==
  ASSUME Inv, PubMqttRequest \/ \E c \in Clients : PubRequest(c) PROVE Inv'
<1>1. /\ \E c \in Clients \cup {Mqtt} : Pub(c, {"newreq_c"})
      /\ UNCHANGED <<chan, clientVars, serverVars, crashed>>
      /\ UNCHANGED <<subscribed, reader, writer, toclient_chan, initdata_c, newest>>
      /\ UNCHANGED <<last_state, checker, initial_info, marshaller>>
  BY DEF PubMqttRequest, PubRequest, clientVars, serverVars
<1>2. BusTypes' /\ Asking' /\ Published' /\ Showing'
  BY <1>1, RequestKeeps DEF Inv, DataTypes
<1>3. DataTypes'
  BY <1>1, Zenon DEF Inv, DataTypes
<1> QED
  BY <1>2, <1>3 DEF Inv

\* The library's own step.
LEMMA DeliverKeeps == ASSUME Inv, NEW ch \in Channels, Deliver(ch) PROVE Inv'
<1>1. UNCHANGED <<clientVars, serverVars, crashed>>
  BY DEF Deliver
<1>2. BusTypes' /\ \A x \in Channels : Way(x)' = Way(x)
  BY Delivering DEF Inv
<1>3. DataTypes'
  BY <1>1, Zenon DEF Inv, DataTypes, clientVars, serverVars
<1>4. Asking' /\ Published' /\ Showing'
  BY <1>1, <1>2, WaysSame, AskingSame, PublishedSame, ShowingSame
     DEF Inv, clientVars, serverVars
<1> QED
  BY <1>2, <1>3, <1>4 DEF Inv

-----------------------------------------------------------------------------
(* The theorems *)

LEMMA InitInv == Init => Inv
<1> SUFFICES ASSUME Init PROVE Inv
  OBVIOUS
<1>1. hub.to = {} /\ \A ch \in Channels : chan[ch] = << >> /\ Way(ch) = << >>
  BY DEF Init, IdleHub, Way
<1>2. BusTypes
  <2>1. hub \in [msg : Messages, to : SUBSET Channels]
    BY WebAssumption DEF Init, IdleHub, Messages, Changes
  <2>2. chan \in [Channels -> Seq(Messages)]
    BY DEF Init
  <2>3. \A ch \in Channels : chan[ch] \in Seq(Carried(ch)) /\ Len(chan[ch]) <= Capacity
    <3>1. \A S : << >> \in Seq(S)
      OBVIOUS
    <3>2. Len(<< >>) <= Capacity
      BY WebAssumption
    <3> QED
      BY <1>1, <3>1, <3>2, Zenon
  <2> QED
    BY <1>1, <2>1, <2>2, <2>3 DEF BusTypes
<1>3. DataTypes
  <2>1. 0 \in Changes /\ NoState \in NoState .. 0
    BY WebAssumption DEF Changes, NoState
  <2>2. \A c \in Clients : Len(toclient_chan[c]) <= ReplyCapacity
    BY WebAssumption DEF Init
  <2>3. /\ last_state = 0 /\ initial_info \in NoState .. 0
        /\ checker \in {"select", "pub"} /\ marshaller \in {"select", "pub"}
        /\ marshaller # "pub" /\ crashed \in BOOLEAN /\ subscribed \subseteq Clients
    BY <2>1 DEF Init
  <2>4. /\ reader \in [Clients -> {"off", "read", "closed"}]
        /\ writer \in [Clients -> {"off", "sub", "get", "loop", "leave", "gone"}]
    BY DEF Init
  <2>5. /\ toclient_chan \in [Clients -> Seq(NoState .. 0)]
        /\ initdata_c \in [Clients -> Seq(NoState .. 0)]
        /\ newest \in [Clients -> NoState .. 0]
    <3>1. << >> \in Seq(NoState .. 0)
      OBVIOUS
    <3> QED
      BY <2>1, <3>1 DEF Init
  <2> QED
    BY <2>1, <2>2, <2>3, <2>4, <2>5, Zenon DEF DataTypes
<1>4. Asking
  <2>1. "init_c" \in Channels
    BY ChannelsDiffer
  <2>2. Len(Way("init_c")) = 0
    BY <1>1, <2>1
  <2> QED
    BY <2>2 DEF Asking, Asked, Init
<1>5. Published
  <2>1. LastKnown = NoState
    BY <1>1, ChannelsDiffer DEF LastKnown, Init
  <2> QED
    BY <2>1 DEF Published, Init
<1>6. Showing
  BY DEF Showing, Init
<1> QED
  BY <1>2, <1>3, <1>4, <1>5, <1>6 DEF Inv

LEMMA StutterKeeps == ASSUME Inv, UNCHANGED vars PROVE Inv'
<1>1. /\ UNCHANGED <<hub, chan, crashed, subscribed, reader, writer>>
      /\ UNCHANGED <<toclient_chan, initdata_c, newest>>
      /\ UNCHANGED <<last_state, checker, initial_info, marshaller>>
  BY DEF vars, clientVars, serverVars
<1> QED
  BY <1>1, Zenon DEF Inv, BusTypes, DataTypes, Asking, Published, Showing, LastKnown,
                     Covered, Asked, Way, Carried

LEMMA StepKeeps == Inv /\ [Next]_vars => Inv'
<1> SUFFICES ASSUME Inv, [Next]_vars PROVE Inv'
  OBVIOUS
<1>1. CASE Grant
  BY <1>1, ChangeKeeps DEF Grant
<1>2. CASE LocksEnd
  BY <1>2, ChangeKeeps DEF LocksEnd
<1>3. CASE publishDamperUpdate \/ Refuse
  BY <1>3, PublishKeeps, RefuseKeeps
<1>4. CASE Marshaller
  BY <1>4, MarshalKeeps, PubJsonKeeps, AnswerKeeps DEF Marshaller
<1>5. CASE PubMqttRequest
  BY <1>5, PubRequestKeeps
<1>6. ASSUME NEW ch \in Channels, Deliver(ch) PROVE Inv'
  BY <1>6, DeliverKeeps
<1>7. ASSUME NEW c \in Clients,
             Connect(c) \/ PubRequest(c) \/ Disconnect(c) \/ Writer(c)
      PROVE  Inv'
  BY <1>7, MoveKeeps, PubRequestKeeps, GetStateKeeps, WriteKeeps, UnsubKeeps DEF Writer
<1>8. CASE UNCHANGED vars
  BY <1>8, StutterKeeps
<1> QED
  BY <1>1, <1>2, <1>3, <1>4, <1>5, <1>6, <1>7, <1>8 DEF Next, Checker

LEMMA InvHolds == Spec => []Inv
  BY InitInv, StepKeeps, PTL DEF Spec

\* The variables are of their types: states are shown, replied and handed over only
\* after they have been reached, and no channel holds more than it has room for.
THEOREM TypeCorrect == Spec => []TypeOK
<1>1. Inv => TypeOK
  <2> SUFFICES ASSUME Inv PROVE TypeOK
    OBVIOUS
  <2>1. /\ hub \in [msg : Changes \cup Clients \cup {Mqtt}, to : SUBSET Channels]
        /\ DOMAIN chan = Channels /\ \A ch \in Channels : Len(chan[ch]) <= Capacity
    BY DEF Inv, BusTypes, Messages
  <2>2. \A c \in Clients : Len(initdata_c[c]) <= 1
    BY DEF Inv, Asking
  <2> QED
    BY <2>1, <2>2 DEF Inv, DataTypes, TypeOK
<1> QED
  BY <1>1, InvHolds, PTL

\* webserver.go:88-124: when nothing is on its way, every client being written to has
\* been shown the present state, however the requests, the locks' ends, the comings
\* and goings of clients and the calls of the library interleaved.
THEOREM NothingMissed == Spec => []NoUpdateMissed
<1>1. Inv => NoUpdateMissed
  <2> SUFFICES ASSUME Inv, Quiet, NEW c \in Clients, writer[c] = "loop"
               PROVE  \/ newest[c] = last_state
                      \/ newest[c] = NoState /\ initial_info = NoState /\ last_state = 0
    BY DEF NoUpdateMissed
  <2>1. \A ch \in Channels : Way(ch) = << >>
    BY DEF Quiet, HubIsFree, Way
  <2>2. Way("init_c") = << >> /\ Way("udpate_c") = << >> /\ Way(c) = << >>
    BY <2>1, ChannelsDiffer
  <2>3. ~Asked(c) /\ Len(Way(c)) = 0 /\ Len(initdata_c[c]) = 0
    BY <2>2 DEF Asked, Quiet
  <2>4. newest[c] >= initial_info
    BY <2>3 DEF Inv, Showing, Covered, Quiet
  <2>5. initial_info = last_state \/ (initial_info = NoState /\ last_state = 0)
    BY <2>2 DEF Inv, Published, LastKnown, Quiet
  <2>6. newest[c] \in NoState .. last_state /\ last_state \in Nat
    BY States DEF Inv, DataTypes
  <2> QED
    BY <2>4, <2>5, <2>6 DEF NoState
<1> QED
  BY <1>1, InvHolds, PTL
=============================================================================
