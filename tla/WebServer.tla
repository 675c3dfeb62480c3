------------------------------ MODULE WebServer ------------------------------
(***************************************************************************)
(* The daemon's web server (ventilationinterface/webserver.go): for each   *)
(* client one goroutine that reads its requests (goTalkWithClient) and one *)
(* that writes to it (goWriteToClient), between them and the request       *)
(* checker the publish/subscribe library and goMarshalJsonForAllClients.   *)
(*                                                                         *)
(* The library is external: one goroutine takes one call at a time (Pub,   *)
(* Sub, Unsub) and puts a published message into the channel of every      *)
(* subscriber, waiting while a channel is full.                            *)
(*                                                                         *)
(* A state of the ventilation is the number of its change.  What the       *)
(* checker decides is open here; Ventilation models it.                    *)
(*                                                                         *)
(* A definition named Something_Variant is a faulty version of Something,  *)
(* used only to show that a property would notice the fault.               *)
(***************************************************************************)
EXTENDS Integers, Sequences, FiniteSetsExt

CONSTANTS
    Clients,
    Mqtt,          \* the MQTT client, which makes requests and wants no replies
    Capacity,      \* of a subscriber's channel, 10 in the code
    ReplyCapacity, \* of a client's toclient_chan, 128 in the code
    MaxChanges     \* bound on the changes granted

ASSUME WebAssumption ==
    /\ Capacity \in Nat \ {0} /\ ReplyCapacity \in Nat \ {0}
    /\ MaxChanges \in Nat
    /\ ({"newreq_c", "udpate_c", "init_c"} \cup {Mqtt}) \cap Clients = {}

\* The channels of the library's subscribers: the checker's, two of
\* goMarshalJsonForAllClients and one of each goWriteToClient.
Channels == {"newreq_c", "udpate_c", "init_c"} \cup Clients

VARIABLES
    hub,          \* the library: the message in hand and the channels it still goes to
    chan,         \* messages in the channels
    subscribed,   \* clients whose writer subscribes to PS_JSONTOALL
    last_state, checker,      \* goSanityCheckDamperRequests
    initial_info, marshaller, \* goMarshalJsonForAllClients
    reader,       \* goTalkWithClient: "off", "read" or "closed"
    writer,       \* goWriteToClient: "off", "sub", "get", "loop", "leave" or "gone"
    toclient_chan, initdata_c,
    crashed,      \* a goroutine has panicked and taken the daemon along
    \* what an observer remembers
    newest        \* the newest state a client was shown

clientVars == <<subscribed, reader, writer, toclient_chan, initdata_c, newest>>
serverVars == <<last_state, checker, initial_info, marshaller>>
vars == <<hub, chan, clientVars, serverVars, crashed>>

Changes == 0 .. MaxChanges
NoState == -1     \* what a client is told before the first state, or with an error
IdleHub == [msg |-> 0, to |-> {}]

TypeOK ==
    /\ hub \in [msg : Changes \cup Clients \cup {Mqtt}, to : SUBSET Channels]
    /\ DOMAIN chan = Channels
    /\ \A ch \in Channels : Len(chan[ch]) <= Capacity
    /\ subscribed \subseteq Clients
    /\ last_state \in Changes /\ initial_info \in NoState .. last_state
    /\ checker \in {"select", "pub"} /\ marshaller \in {"select", "pub"}
    /\ \A c \in Clients :
        /\ reader[c] \in {"off", "read", "closed"}
        /\ writer[c] \in {"off", "sub", "get", "loop", "leave", "gone"}
        /\ toclient_chan[c] \in Seq(NoState .. last_state)
        /\ Len(toclient_chan[c]) <= ReplyCapacity
        /\ initdata_c[c] \in Seq(NoState .. last_state) /\ Len(initdata_c[c]) <= 1
        /\ newest[c] \in NoState .. last_state
    /\ crashed \in BOOLEAN

\* The goroutines have subscribed, in any order: the checker, whose timer runs out at
\* once, has yet to publish its first state, or has done so before anybody listened.
Init ==
    /\ hub = IdleHub /\ chan = [ch \in Channels |-> << >>] /\ subscribed = {}
    /\ last_state = 0 /\ checker \in {"pub", "select"}
    /\ initial_info = NoState /\ marshaller = "select"
    /\ reader = [c \in Clients |-> "off"] /\ writer = [c \in Clients |-> "off"]
    /\ toclient_chan = [c \in Clients |-> << >>]
    /\ initdata_c = [c \in Clients |-> << >>]
    /\ crashed = FALSE /\ newest = [c \in Clients |-> NoState]

-----------------------------------------------------------------------------
(* The library *)

HubIsFree == hub.to = {}

\* A call of Pub returns as soon as the library has taken the message.
Pub(msg, to) == HubIsFree /\ hub' = (IF to = {} THEN IdleHub ELSE [msg |-> msg, to |-> to])

Deliver(ch) ==
    /\ ch \in hub.to /\ Len(chan[ch]) < Capacity
    /\ chan' = [chan EXCEPT ![ch] = Append(@, hub.msg)]
    /\ hub' = IF hub.to = {ch} THEN IdleHub ELSE [hub EXCEPT !.to = @ \ {ch}]
    /\ UNCHANGED <<clientVars, serverVars, crashed>>

Receive(ch) == chan[ch] # << >> /\ chan' = [chan EXCEPT ![ch] = Tail(@)]

-----------------------------------------------------------------------------
(* goTalkWithClient *)

\* The writer subscribes to the updates before it asks for the present state.
Calls_GetFirst == <<"get", "sub">>
Calls == <<"sub", "get">>
AfterCall(call) == IF call = Calls[1] THEN Calls[2] ELSE "loop"

Connect(c) ==
    /\ reader[c] = "off"
    /\ reader' = [reader EXCEPT ![c] = "read"]
    /\ writer' = [writer EXCEPT ![c] = Calls[1]]
    /\ UNCHANGED <<hub, chan, subscribed, toclient_chan, initdata_c, newest,
                   serverVars, crashed>>

\* A request that waits for the library is one that is made later.
PubRequest(c) ==
    /\ reader[c] = "read" /\ Pub(c, {"newreq_c"})
    /\ UNCHANGED <<chan, clientVars, serverVars, crashed>>

\* goSwitchOffVentilationAfterTimeout and what comes by MQTT (mqttventilation.go).
PubMqttRequest ==
    /\ Pub(Mqtt, {"newreq_c"})
    /\ UNCHANGED <<chan, clientVars, serverVars, crashed>>

\* Reading fails: the client is gone, toclient_chan is closed.
Disconnect(c) ==
    /\ reader[c] = "read"
    /\ reader' = [reader EXCEPT ![c] = "closed"]
    /\ UNCHANGED <<hub, chan, subscribed, writer, toclient_chan, initdata_c, newest,
                   serverVars, crashed>>

-----------------------------------------------------------------------------
(* goSanityCheckDamperRequests *)

Grant ==
    /\ checker = "select" /\ Receive("newreq_c") /\ last_state < MaxChanges
    /\ last_state' = last_state + 1 /\ checker' = "pub"
    /\ UNCHANGED <<hub, clientVars, initial_info, marshaller, crashed>>

\* The timer of the locks runs out.
LocksEnd ==
    /\ checker = "select" /\ last_state < MaxChanges
    /\ last_state' = last_state + 1 /\ checker' = "pub"
    /\ UNCHANGED <<hub, chan, clientVars, initial_info, marshaller, crashed>>

publishDamperUpdate ==
    /\ checker = "pub" /\ Pub(last_state, {"udpate_c"})
    /\ checker' = "select"
    /\ UNCHANGED <<chan, clientVars, last_state, initial_info, marshaller, crashed>>

NoRoom_One(replies) == Len(replies) > ReplyCapacity
NoRoom(replies) == Len(replies) = ReplyCapacity

SentTo(replies, m) == IF NoRoom(replies) THEN replies ELSE Append(replies, m)

replyToWebClient_Waits(c) ==
    IF reader[c] = "closed" THEN crashed' = TRUE /\ UNCHANGED toclient_chan
    ELSE /\ ~NoRoom(toclient_chan[c])
         /\ toclient_chan' = [toclient_chan EXCEPT ![c] = SentTo(SentTo(@, last_state), NoState)]
         /\ UNCHANGED crashed

\* The present state and the error: a full channel is passed over, a closed one makes the
\* send panic.
replyToWebClient(c) ==
    IF reader[c] = "closed" THEN crashed' = TRUE /\ UNCHANGED toclient_chan
    ELSE /\ toclient_chan' = [toclient_chan EXCEPT ![c] = SentTo(SentTo(@, last_state), NoState)]
         /\ UNCHANGED crashed

Refuse ==
    /\ checker = "select" /\ Receive("newreq_c")
    /\ LET c == Head(chan["newreq_c"])
       IN  IF c = Mqtt THEN UNCHANGED <<toclient_chan, crashed>> ELSE replyToWebClient(c)
    /\ UNCHANGED <<hub, subscribed, reader, writer, initdata_c, newest, serverVars>>

-----------------------------------------------------------------------------
(* goMarshalJsonForAllClients *)

MarshalUpdate ==
    /\ marshaller = "select" /\ Receive("udpate_c")
    /\ initial_info' = Head(chan["udpate_c"]) /\ marshaller' = "pub"
    /\ UNCHANGED <<hub, clientVars, last_state, checker, crashed>>

PubJson ==
    /\ marshaller = "pub" /\ Pub(initial_info, subscribed)
    /\ marshaller' = "select"
    /\ UNCHANGED <<chan, clientVars, last_state, checker, initial_info, crashed>>

AnswerNewClient ==
    /\ marshaller = "select" /\ Receive("init_c")
    /\ initdata_c' = [initdata_c EXCEPT ![Head(chan["init_c"])] = Append(@, initial_info)]
    /\ UNCHANGED <<hub, subscribed, reader, writer, toclient_chan, newest, serverVars,
                   crashed>>

-----------------------------------------------------------------------------
(* goWriteToClient *)

Sub(c) ==
    /\ writer[c] = "sub" /\ HubIsFree
    /\ subscribed' = subscribed \cup {c}
    /\ writer' = [writer EXCEPT ![c] = AfterCall("sub")]
    /\ UNCHANGED <<hub, chan, reader, toclient_chan, initdata_c, newest, serverVars, crashed>>

GetState(c) ==
    /\ writer[c] = "get" /\ Pub(c, {"init_c"})
    /\ writer' = [writer EXCEPT ![c] = AfterCall("get")]
    /\ UNCHANGED <<chan, subscribed, reader, toclient_chan, initdata_c, newest, serverVars,
                   crashed>>

\* The message is written, or writing fails and the writer leaves its loop.
Shown(c, state) ==
    /\ \/ newest' = [newest EXCEPT ![c] = Max({@, state})] /\ UNCHANGED writer
       \/ writer' = [writer EXCEPT ![c] = "leave"] /\ UNCHANGED newest
    /\ UNCHANGED <<hub, subscribed, reader, serverVars, crashed>>

WriteUpdate(c) ==
    /\ writer[c] = "loop" /\ Receive(c) /\ Shown(c, Head(chan[c]))
    /\ UNCHANGED <<toclient_chan, initdata_c>>

WriteInit(c) ==
    /\ writer[c] = "loop" /\ initdata_c[c] # << >> /\ Shown(c, Head(initdata_c[c]))
    /\ initdata_c' = [initdata_c EXCEPT ![c] = << >>]
    /\ UNCHANGED <<chan, toclient_chan>>

WriteReply(c) ==
    /\ writer[c] = "loop" /\ toclient_chan[c] # << >> /\ Shown(c, Head(toclient_chan[c]))
    /\ toclient_chan' = [toclient_chan EXCEPT ![c] = Tail(@)]
    /\ UNCHANGED <<chan, initdata_c>>

\* toclient_chan is closed and has nothing left.
LeaveLoop(c) ==
    /\ writer[c] = "loop" /\ reader[c] = "closed" /\ toclient_chan[c] = << >>
    /\ writer' = [writer EXCEPT ![c] = "leave"]
    /\ UNCHANGED <<hub, chan, subscribed, reader, toclient_chan, initdata_c, newest,
                   serverVars, crashed>>

LeftOver_Subscribed(c) == subscribed
LeftOver(c) == subscribed \ {c}

\* The deferred Unsub; the library closes the channel.
Unsub(c) ==
    /\ writer[c] = "leave" /\ HubIsFree
    /\ subscribed' = LeftOver(c)
    /\ chan' = [chan EXCEPT ![c] = << >>]
    /\ writer' = [writer EXCEPT ![c] = "gone"]
    /\ UNCHANGED <<hub, reader, toclient_chan, initdata_c, newest, serverVars, crashed>>

-----------------------------------------------------------------------------
Checker == Grant \/ publishDamperUpdate \/ Refuse
Marshaller == MarshalUpdate \/ PubJson \/ AnswerNewClient
Writer(c) ==
    \/ Sub(c) \/ GetState(c) \/ WriteUpdate(c) \/ WriteInit(c) \/ WriteReply(c)
    \/ LeaveLoop(c) \/ Unsub(c)

Next ==
    /\ ~crashed
    /\ \/ Checker \/ LocksEnd \/ Marshaller \/ PubMqttRequest
       \/ \E ch \in Channels : Deliver(ch)
       \/ \E c \in Clients :
            Connect(c) \/ PubRequest(c) \/ Disconnect(c) \/ Writer(c)

Spec == Init /\ [][Next]_vars

Step(A) == ~crashed /\ A

\* Every goroutine that can run on does, some day; nobody has to connect, ask or leave,
\* and no timer has to run out.
FairSpec ==
    /\ Spec
    /\ WF_vars(\E ch \in Channels : Step(Deliver(ch)))
    /\ WF_vars(Step(Checker)) /\ WF_vars(Step(Marshaller))
    /\ \A c \in Clients : WF_vars(Step(Writer(c)))

-----------------------------------------------------------------------------
Quiet ==
    /\ HubIsFree /\ \A ch \in Channels : chan[ch] = << >>
    /\ checker = "select" /\ marshaller = "select"
    /\ \A c \in Clients : initdata_c[c] = << >>

\* webserver.go:88-124: when nothing is on its way, every client that is being written
\* to has been shown the present state, whenever it connected; or none at all, if that
\* state was published before the marshaller subscribed.
NoUpdateMissed ==
    Quiet => \A c \in Clients : writer[c] = "loop" =>
        \/ newest[c] = last_state
        \/ newest[c] = NoState /\ initial_info = NoState /\ last_state = 0

\* Does the goroutine that empties ch wait for the library itself?
ReaderWaits(ch) ==
    CASE ch = "newreq_c" -> checker = "pub"
      [] ch \in {"udpate_c", "init_c"} -> marshaller = "pub"
      [] OTHER -> writer[ch] \in {"get", "leave"}

\* The library waits for room in a channel whose reader waits for the library: from then
\* on the daemon answers nobody.
Circle == \E ch \in hub.to : Len(chan[ch]) = Capacity /\ ReaderWaits(ch)

Ended == crashed \/ Circle

\* webserver.go:91-108,117,163: however full the channels get and however the clients come
\* and go, such a circle is all that the library ever stops in: otherwise it delivers what
\* it has taken and is free for the next caller.
KeepsServing == []<>(HubIsFree \/ Ended)

\* ventilation.go:105,114 say of the reply that it cannot crash by writing to a
\* closed channel.
NoCrash == ~crashed
=============================================================================
