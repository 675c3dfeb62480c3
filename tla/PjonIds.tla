------------------------------- MODULE PjonIds -------------------------------
(***************************************************************************)
(* The id and the settings of one controller, and how it gives ids to the  *)
(* others (firmware/dampercontrol/src/comm.cpp, settings.cpp): messages    *)
(* come out of the round buffer of PjonBuffer and are dispatched; settings *)
(* are written to the EEPROM library's copy, of which the code commits one *)
(* byte to flash, once; 'm' at the console makes the controller number 1   *)
(* and renumbers the rest.                                                 *)
(*                                                                         *)
(* The other controllers run the same code; of each only its id is kept,   *)
(* what it is probing for, and which broadcasts it has still to act on.    *)
(* Broadcasts may go unheard.                                              *)
(*                                                                         *)
(* A definition named Something_Variant is a faulty version of Something,  *)
(* used only to show that a property would notice the fault.               *)
(***************************************************************************)
EXTENDS PjonBuffer, Functions

CONSTANTS
    Others,            \* the other controllers on the bus
    AssignedIds,       \* ids a controller may have
    OpenPositions,     \* open positions somebody may set
    InstalledSets,     \* installed-damper bit fields somebody may set
    PJON_ID_LIST_LEN,  \* 10 in the code
    ForeignMessages,   \* what other consoles may send us
    MaxRequests        \* bound on what people ask for, restarts included

BROADCAST == 0
NOT_ASSIGNED == 255
ERASED == 255           \* a byte of flash nobody has written
NUM_DAMPER == 3
EEPROM_CURRENT_VERSION == 1
DEFAULT_OPEN_POS == 80
ValidIds == AssignedIds \cup {NOT_ASSIGNED}

ASSUME IdsAssumption ==
    /\ PJON_ID_LIST_LEN \in Nat /\ MaxRequests \in Nat
    /\ {1} \cup 1 .. PJON_ID_LIST_LEN \subseteq AssignedIds
    /\ AssignedIds \subseteq 1 .. 254
    /\ OpenPositions \subseteq 0 .. 255 /\ InstalledSets \subseteq 0 .. 7

\* A message in a slot: the id the callback was given, which is the one the
\* packet was sent to, its type, and what it carries.
Message(types, vals) == [id : ValidIds \cup {BROADCAST}, type : types, val : vals]
IdMessages == Message({"PJONID_DOAUTO", "PJONID_QUESTION"}, {0})
              \cup Message({"PJONID_INFO", "PJONID_SET"}, ValidIds)
\* WRONGLENGTH stands for all whose length is not that of their type.
Messages == IdMessages \cup Message({"UPDATESETTINGS"}, OpenPositions)
            \cup Message({"WRONGLENGTH"}, {0})

\* What reaches the buffer: messages of others, and what they answer to QUESTION.
ASSUME MessagesAssumption ==
    /\ Accepted \subseteq Messages
    /\ ForeignMessages \subseteq Accepted \cup Refused
    /\ \A id \in ValidIds : [id |-> 1, type |-> "PJONID_INFO", val |-> id] \in Accepted

VARIABLES
    pjon_device_id_,   \* also the id PJON answers to
    damper_open_pos_, damper_installed_,
    eeprom,            \* the library's copy in RAM
    flash,             \* what survives a restart
    pjon_id_list_,
    doing,             \* "off", "loop", or one of the two waits of
                       \* pjon_become_master_of_ids, "auto" and "ask"
    \* the other controllers
    ids,               \* ids[o]: the id of o
    toAcquire,         \* those that heard DOAUTO and have not yet acted on it
    probed,            \* an id o has found free and not yet taken, or 0
    toAnswer,          \* those that heard QUESTION and have not yet answered
    \* what an observer remembers
    given,             \* settings somebody has given, by kind
    undisturbed,       \* a renumbering is on of whose DOAUTO everybody has heard,
                       \* and no other console has talked of ids since
    requests           \* what people have asked for so far

ram == <<pjon_device_id_, damper_open_pos_, damper_installed_>>
store == <<eeprom, flash>>
bus == <<ids, toAcquire, probed, toAnswer>>
seen == <<given, undisturbed, requests>>
idsVars == <<vars, ram, store, pjon_id_list_, doing, bus, seen>>

Bytes == [version : {EEPROM_CURRENT_VERSION, ERASED}, id : ValidIds,
          num : {NUM_DAMPER, ERASED},
          open : OpenPositions \cup {DEFAULT_OPEN_POS, ERASED},
          installed : 0 .. 7 \cup {ERASED}]

IdsTypeOK ==
    /\ TypeOK
    /\ pjon_device_id_ \in ValidIds
    /\ damper_open_pos_ \in 0 .. 255 /\ damper_installed_ \in 0 .. 7
    /\ eeprom \in Bytes /\ flash \in Bytes
    /\ pjon_id_list_ \in Seq(ValidIds \cup {BROADCAST})
    /\ Len(pjon_id_list_) <= PJON_ID_LIST_LEN
    /\ doing \in {"off", "loop", "auto", "ask"}
    /\ ids \in [Others -> ValidIds] /\ probed \in [Others -> ValidIds \cup {0}]
    /\ toAcquire \subseteq Others /\ toAnswer \subseteq Others
    /\ given \subseteq OpenPositions \X {"open"} \cup InstalledSets \X {"installed"}
    /\ undisturbed \in BOOLEAN
    /\ requests \in 0 .. MaxRequests

\* A new chip, and neighbours with any ids.
IdsInit ==
    /\ Init
    /\ pjon_device_id_ = NOT_ASSIGNED
    /\ damper_open_pos_ = DEFAULT_OPEN_POS /\ damper_installed_ = 0
    /\ flash = [version |-> ERASED, id |-> ERASED, num |-> ERASED, open |-> ERASED,
                installed |-> ERASED]
    /\ eeprom = flash
    /\ pjon_id_list_ = << >> /\ doing = "off"
    /\ ids \in [Others -> AssignedIds]
    /\ toAcquire = {} /\ probed = [o \in Others |-> 0] /\ toAnswer = {}
    /\ given = {} /\ undisturbed = FALSE /\ requests = 0

Request == requests < MaxRequests /\ requests' = requests + 1

-----------------------------------------------------------------------------
(* Settings and their two copies *)

\* eeprom_save_settings: the library's copy, without commit.
Saved_NotInstalled(id, open, installed) ==
    [eeprom EXCEPT !.id = id, !.num = NUM_DAMPER, !.open = open]
Saved(id, open, installed) ==
    [eeprom EXCEPT !.id = id, !.num = NUM_DAMPER, !.open = open,
                   !.installed = installed]

pjon_change_deviceid(id) ==
    /\ pjon_device_id_' = id
    /\ eeprom' = Saved(id, damper_open_pos_, damper_installed_)
    /\ UNCHANGED <<flash, damper_open_pos_, damper_installed_>>

updateSettingsFromPacket(open) ==
    /\ damper_open_pos_' = open
    /\ eeprom' = Saved(pjon_device_id_, open, damper_installed_)
    /\ given' = given \cup {<<open, "open">>}
    /\ UNCHANGED <<pjon_device_id_, damper_installed_, flash>>

updateInstalledDampersFromChar(installed) ==
    /\ damper_installed_' = installed
    /\ eeprom' = Saved(pjon_device_id_, damper_open_pos_, installed)
    /\ given' = given \cup {<<installed, "installed">>}
    /\ UNCHANGED <<pjon_device_id_, damper_open_pos_, flash>>

\* PJON's acquire_id: an id that nobody answers to when it is probed, or none.  (By the
\* comment at comm.cpp:365 it "seems to be broken" in the release the code was written for.)
Acquired(taken) == (AssignedIds \ taken) \cup {NOT_ASSIGNED}
IdsOf(S) == {ids[o] : o \in S}

\* Were open positions and dampers ever written?
WereWritten_Anyway(e) == TRUE
WereWritten(e) == e.num = NUM_DAMPER

\* The one commit comes before the settings are saved.
FlashAfterInit == [flash EXCEPT !.version = EEPROM_CURRENT_VERSION]
eeprom_init ==
    IF flash.version = EEPROM_CURRENT_VERSION THEN flash
    ELSE [version |-> EEPROM_CURRENT_VERSION, id |-> NOT_ASSIGNED, num |-> NUM_DAMPER,
          open |-> DEFAULT_OPEN_POS, installed |-> 0]

eeprom_load_settings(e) ==
    IF WereWritten(e) THEN [open |-> e.open, installed |-> e.installed % 8]
    ELSE [open |-> DEFAULT_OPEN_POS, installed |-> 0]

\* main's first calls, up to pjon_init, which acquires an id if there is none.
Start(id) ==
    LET e == eeprom_init
        s == eeprom_load_settings(e)
    IN  /\ IF e.id # NOT_ASSIGNED THEN id = e.id ELSE id \in Acquired(IdsOf(Others))
        /\ pjon_device_id_' = id
        /\ damper_open_pos_' = s.open /\ damper_installed_' = s.installed
        /\ flash' = FlashAfterInit
        /\ eeprom' = IF e.id # id
                     THEN [e EXCEPT !.id = id, !.num = NUM_DAMPER, !.open = s.open,
                                    !.installed = s.installed]
                     ELSE e
        /\ pjon_init
        /\ pjon_id_list_' = << >> /\ doing' = "loop"
        /\ IF doing = "off" THEN UNCHANGED requests ELSE Request
        /\ undisturbed' = FALSE
        /\ UNCHANGED <<bus, given>>

-----------------------------------------------------------------------------
(* Messages *)

\* From another console, or typed at this one: pjon_recv_handler.
Foreign(m) ==
    /\ doing # "off" /\ Request
    /\ m.id \in {BROADCAST, pjon_device_id_}
    /\ pjon_recv_handler(m)
    /\ undisturbed' = (undisturbed /\ m \notin IdMessages)
    /\ UNCHANGED <<ram, store, pjon_id_list_, doing, bus, given>>

pjoinidlist_add_Unbounded(id) == pjon_id_list_' = Append(pjon_id_list_, id)
pjoinidlist_add(id) ==
    pjon_id_list_' = IF Len(pjon_id_list_) < PJON_ID_LIST_LEN
                     THEN Append(pjon_id_list_, id) ELSE pjon_id_list_

\* The id a PJONID_INFO puts on the list.
ListedId_Sender(m) == m.val
ListedId(m) == m.id

TypeOf(m) == IF m = Empty THEN "NONE" ELSE m.type

\* What pjon_postrecv_handle_msg does with the message of one slot.  The answer to
\* PJONID_QUESTION and the forwarding of UPDATESETTINGS change nothing here.
Dispatch(m) ==
    \/ /\ TypeOf(m) \in {"NONE", "WRONGLENGTH", "PJONID_QUESTION"}
       /\ UNCHANGED <<ram, store, pjon_id_list_, given>>
    \/ /\ TypeOf(m) = "UPDATESETTINGS"
       /\ updateSettingsFromPacket(m.val)
       /\ UNCHANGED pjon_id_list_
    \/ /\ TypeOf(m) = "PJONID_INFO"
       /\ pjoinidlist_add(ListedId(m))
       /\ UNCHANGED <<ram, store, given>>
    \/ /\ TypeOf(m) = "PJONID_SET"
       /\ pjon_change_deviceid(m.val)
       /\ UNCHANGED <<pjon_id_list_, given>>
    \/ /\ TypeOf(m) = "PJONID_DOAUTO"
       /\ pjon_device_id_' \in Acquired(IdsOf(Others))
       /\ UNCHANGED <<damper_open_pos_, damper_installed_, store, pjon_id_list_, given>>

Handle ==
    /\ pjon_postrecv_handle_msg
    /\ Dispatch(pjon_msgbuf_[SlotOf(cc)])
    /\ UNCHANGED <<doing, bus, undisturbed, requests>>

\* Passes over an empty buffer change nothing and are left out.
Pass ==
    /\ (StartPass /\ ~NothingBuffered) \/ EndPass
    /\ UNCHANGED <<ram, store, pjon_id_list_, doing, bus, seen>>

-----------------------------------------------------------------------------
(* The console *)

AtConsole == doing = "loop" /\ ~postrecv

SetId(id) ==
    /\ AtConsole /\ Request
    /\ pjon_change_deviceid(id)
    /\ UNCHANGED <<vars, pjon_id_list_, doing, bus, given, undisturbed>>

SetInstalled(installed) ==
    /\ AtConsole /\ Request
    /\ updateInstalledDampersFromChar(installed)
    /\ UNCHANGED <<vars, pjon_id_list_, doing, bus, undisturbed>>

pjon_broadcast_get_autoid(heard) ==
    /\ AtConsole /\ Request
    /\ toAcquire' = toAcquire \cup heard
    /\ UNCHANGED <<vars, ram, store, pjon_id_list_, doing, ids, probed, toAnswer, given,
                   undisturbed>>

\* A broadcast does not reach its sender.
BecomeMaster(heard) ==
    /\ AtConsole /\ Request
    /\ pjon_change_deviceid(1)
    /\ toAcquire' = toAcquire \cup heard
    /\ undisturbed' = (heard = Others /\ \A s \in Slots : pjon_msgbuf_[s] \notin IdMessages)
    /\ doing' = "auto"
    /\ UNCHANGED <<vars, pjon_id_list_, ids, probed, toAnswer, given>>

\* 65535 rounds of task_pjon; how much of the others' work that covers is open.
WaitOver(w) == doing = w /\ ~postrecv /\ NothingBuffered

AskIds(heard) ==
    /\ WaitOver("auto")
    /\ pjon_id_list_' = << >>
    /\ toAnswer' = toAnswer \cup heard
    /\ doing' = "ask"
    /\ UNCHANGED <<vars, ram, store, ids, toAcquire, probed, seen>>

\* pjoinidlist_sort
Sorted(list) ==
    LET At == 1 .. Len(list)
        Sorts(p) == \A j, k \in At : j < k => list[p[j]] <= list[p[k]]
    IN  {[k \in At |-> list[p[k]]] : p \in {q \in Bijection(At, At) : Sorts(q)}}

\* One PJONID_SET for each place of the sorted list that holds another id than
\* its own, sent to the id it holds; some may not get there.
Renumbered(list, lost) ==
    LET of[k \in 0 .. Len(list)] ==
            IF k = 0 THEN ids
            ELSE [o \in Others |->
                     IF k \notin lost /\ list[k] # k /\ of[k - 1][o] = list[k] THEN k
                     ELSE of[k - 1][o]]
    IN  of[Len(list)]

AssignIds(lost) ==
    /\ WaitOver("ask")
    /\ pjon_id_list_' \in Sorted(pjon_id_list_)
    /\ ids' = Renumbered(pjon_id_list_', lost)
    /\ doing' = "loop" /\ undisturbed' = FALSE
    /\ UNCHANGED <<vars, ram, store, toAcquire, probed, toAnswer, given, requests>>

-----------------------------------------------------------------------------
(* The other controllers *)

\* pjon_startautoiddiscover: all that heard the same broadcast do this at the same time,
\* and somebody who is still probing has no id to answer to.
OtherProbes(o) ==
    /\ o \in toAcquire /\ probed[o] = 0
    /\ toAcquire' = toAcquire \ {o}
    /\ ids' = [ids EXCEPT ![o] = NOT_ASSIGNED]
    /\ \E id \in Acquired(IdsOf(Others \ {o}) \cup {pjon_device_id_}) :
          probed' = [probed EXCEPT ![o] = id]
    /\ UNCHANGED <<vars, ram, store, pjon_id_list_, doing, toAnswer, seen>>

OtherTakes(o) ==
    /\ probed[o] # 0
    /\ ids' = [ids EXCEPT ![o] = probed[o]]
    /\ probed' = [probed EXCEPT ![o] = 0]
    /\ UNCHANGED <<vars, ram, store, pjon_id_list_, doing, toAcquire, toAnswer, seen>>

\* pjon_identify_myself(1): heard here by whoever is number 1.
OtherAnswers(o) ==
    /\ o \in toAnswer \ toAcquire /\ probed[o] = 0
    /\ toAnswer' = toAnswer \ {o}
    /\ IF pjon_device_id_ = 1
       THEN pjon_recv_handler([id |-> 1, type |-> "PJONID_INFO", val |-> ids[o]])
       ELSE UNCHANGED vars
    /\ UNCHANGED <<ram, store, pjon_id_list_, doing, ids, toAcquire, probed, seen>>

IdsNext ==
    \/ \E id \in ValidIds : Start(id) \/ SetId(id)
    \/ \E m \in ForeignMessages : Foreign(m)
    \/ Handle \/ Pass
    \/ \E installed \in InstalledSets : SetInstalled(installed)
    \/ \E S \in SUBSET Others :
          pjon_broadcast_get_autoid(S) \/ BecomeMaster(S) \/ AskIds(S)
    \/ \E lost \in SUBSET (1 .. Len(pjon_id_list_)) : AssignIds(lost)
    \/ \E o \in Others : OtherProbes(o) \/ OtherTakes(o) \/ OtherAnswers(o)

IdsSpec == IdsInit /\ [][IdsNext]_idsVars

-----------------------------------------------------------------------------
(* Safety *)

\* Everybody has heard of the renumbering and acted on it, and nothing came between.
ActedOn == undisturbed /\ toAcquire = {} /\ \A o \in Others : probed[o] = 0

\* comm.cpp:391-427: a renumbering everybody has acted on leaves this controller with
\* number 1 and nobody else with it, whoever had it before, and whichever answers and new
\* ids got lost.  (Others may have found the same id at the same time.)
RenumberingLeavesOneMaster ==
    [][(\E lost \in SUBSET (1 .. Len(pjon_id_list_)) : AssignIds(lost)) /\ ActedOn
         => pjon_device_id_' = 1 /\ \A o \in Others : ids'[o] # 1]_idsVars

\* settings.cpp:82-123: open positions and installed dampers are those the program
\* was built with or what somebody gave, never what flash holds by chance.
SettingsAreSomebodys ==
    /\ <<damper_open_pos_, "open">> \in given \cup {<<DEFAULT_OPEN_POS, "open">>}
    /\ <<damper_installed_, "installed">> \in given \cup {<<0, "installed">>}

\* settings.cpp:65-79, comm.cpp:120-125: what would survive a commit is what is
\* in force, but for an id acquired on request.
SavedIsInForce ==
    eeprom.num = NUM_DAMPER =>
        /\ eeprom.open = damper_open_pos_ /\ eeprom.installed = damper_installed_
=============================================================================
