# Verification of the ventilation damper control

This directory holds TLA+ models of the realraum ventilation system
(`luefterklappensteuerung`), the TLC configurations that check them on small
instances, and theorems about them checked by TLAPS. Paths below are relative to
the repository; `main.cpp`, `comm.cpp`, `settings.cpp` and `dampercontrol.h` are
those of `firmware/dampercontrol/src/`.

Contents

1. The system: components, state, operations, interactions
2. The plan: modules, runs, theorems
3. The modules and how they correspond to the code
4. The runs, their bounds, and what they show
5. Fairness
6. Proofs
7. Where code and texts disagree
8. What is not modelled, and why

How to run: `tlc -config X.cfg M` with the module M that `PROJECT.json` names for
the run, and `tlapm M_proofs.tla`.

---------------------------------------------------------------------------

## 1. The system

Three ventilation dampers (laser cutter, OLGA main, OLGA floor), a main fan and
the fan of a laminar-flow bench. Each damper is a disk on a motor that only turns
one way; a slit in the disk passes a photoelectric fork ("endstop") once per turn,
and that is the only position feedback. Two microcontrollers on a one-wire PJON
bus drive them: in the deployed system controller 1 has dampers 0 and 1, and
controller 2 has damper 2 and the fan. A Raspberry Pi is connected to one of the
controllers by a serial line and runs a Go daemon with a web interface.

| component | state | operations | makes it correct |
|---|---|---|---|
| motor control, `main.cpp` 343-411, 465-480 | per damper: counter `damper_states_` (uint8), target, flag `damper_endstop_reached_`, overflow flag, motor pin | `task_check_endstops` (pin-change ISR), `task_control_dampers` (timer ISR every 8 ms) | the counter is the position of the disk; a damper believed closed is closed; a barrier that does not answer is reported, one that works is not |
| fan control, `main.cpp` 117-148, 416-448 | fan targets, fan pins | `task_control_fan` in the main loop | fans start only with the dampers at their targets and one open, the laminar-flow fan only beside the main fan |
| command handling, `main.cpp` 159-196 | targets of dampers and fans | `handle_damper_cmd(didreachall, msg)` | dampers obey on each pass, fans on the second |
| chaincasting, `comm.cpp` 177-275, 492-497 | receive buffer, `reach` field of each message | inject, receive, handle and forward | no fan follows a command that some damper's controller has not handled; all controllers end up with the last command |
| PJON receive buffer, `comm.cpp` 37-39, 100-115, 284-348 | three slots and an index | the receive callback writes, `task_pjon` handles | messages are handled once, in order, and only the oldest gives way |
| PJON ids, `comm.cpp` 31-66, 120-125, 322-339, 352-427 | own id, list of ids seen (at most ten) | discovery, renumbering by a master, ids set from outside | one master is left; ids are sequential |
| settings, `settings.cpp` | open positions, installed dampers, device id: in force, in the EEPROM library's copy, in flash | load, save, one commit, update from bus and console | the copy agrees with what is in force; settings are never what flash happens to hold |
| serial parser, `main.cpp` 221-320 | two nested static state machines | one byte at a time | a reader that lost a byte finds its step again, and takes nothing for a message nobody sent |
| pressure sensors, `pressure.cpp` | sensor handles | read and send | numeric only |
| request checker, `ventilationinterface/ventilation.go` | granted state, two locks, one timer | `goSanityCheckDamperRequests`: requests, lock changes, timeout | no sequence of requests takes the exhaust from a laser in use or the dampers from OLGA; no lock stays for ever |
| serial output, `dampersteensy.go`, `serial_tty.go` | last state, time of last command | `goChangeDampers`, `serialWriter` | the controller is told the last state; dampers are not started together |
| web server and publish/subscribe, `webserver.go` | connections, channels of 10 | `goTalkWithClient`, `goMarshalJsonForAllClients`, … | a client is answered, is shown the current state, and does not hold up others |
| MQTT client, `mqtt.go`, `mqttventilation.go` | presence, its timeout | lock on card events, automatic switch-off | the ventilation goes off some day after everybody has left |
| browser client, `public/js/*.js` | view of the state, web socket | clicks, reconnect | a click changes what was clicked |
| ESPHome controller, `esphome_pcbv2/` | covers, scripts, globals | a second implementation of the damper control | a motor runs only under a script that will stop it |
| kiosk image, electronics, mechanics, logging | – | – | – |

How they interact:

- *Shared memory*: the interrupt routines and the main loop of a controller share
  counters, targets and flags; the main loop does not lock them.
- *Messages*: a command typed at, or sent by the daemon to, one controller is
  injected into that controller's receive buffer or sent on the bus. It climbs
  the ids from 1 up; each controller adds its dampers to `reach`. The controller
  that completes `reach` turns the message round, and it descends to 1.
- *Channels*: web clients and MQTT send requests to the checker over Go channels;
  the checker publishes states; `goChangeDampers` subscribes to them and writes
  commands to the serial line. Nothing comes back: neither daemon nor clients
  learn what the controllers really do.
- *Callbacks and timers*: PJON calls the receive callback from inside
  `pjonbus_.receive`; the checker's select waits on one timer for both locks.

What is hard here: the interleaving of two interrupts, a disk and a loop that
reads one damper after the other; positions that are counted, not measured;
counters that wrap; stray light; messages lost, repeated or overtaken; passes of
two commands that cross on the ladder; reboots of one controller between the two
passes; locks that end by a timer whose value may already be waiting; sequences
of requests that are harmless one by one. `PROJECT.json` lists each hazard at its
line, with the properties that cover it or the reason why none does.

---------------------------------------------------------------------------

## 2. The plan

Order of work, the most important behaviour first. "done" is on disk.

| module | models | composes / refines | state |
|---|---|---|---|
| `DamperControl` | motors, interrupts, fan control, command handling of one controller | – | done |
| `DamperControl_proofs` | types; closed dampers are closed, no false alarm, counters track disks; when the fans may run and start | extends it | done |
| `TwoPass` | abstract: acknowledge, commit, forget | – | done |
| `Chaincast` | the ladder, the buffer as a queue, the bus and its faults | implements `TwoPass` | done |
| `Chaincast_proofs` | types; reach never lies; fan after all dampers; implements `TwoPass`; the last command wins | extends it | done |
| `PjonQueue`, `PjonBuffer` | abstract drop-oldest queue; the round buffer | `PjonBuffer` implements `PjonQueue`, the queue `Chaincast` uses | done |
| `Ventilation` | request checker, locks, timer, restart | – | done |
| `Ventilation_proofs` | types and all its safety properties | extends it | done |
| `DamperTeensy` | published state to serial writer | – | done |
| `SerialLine` | the line byte by byte, the two nested readers, faults | extends `DamperTeensy` | done |
| `SerialLine_proofs` | types; the last state arrives, moves are kept apart, with the line's faults too; an undisturbed packet is obeyed; a reader out of step comes back; damage makes no message | extends it | done |
| `PjonBuffer_proofs` | types; the round buffer is the queue, for any number of slots | extends `PjonBuffer` | done |
| `PjonIds` | message dispatch, settings, flash, ids, renumbering, restart | extends `PjonBuffer` | done |
| `PjonIds_proofs` | settings have an owner, the copy agrees, nothing reaches flash; types; its buffer is the queue; renumbering leaves one master | extends it | done |
| `WebServer` | clients, channels, publish/subscribe, replies, crash | the checker's decisions are `Ventilation`'s | done |
| `WebServer_proofs` | types; no connected client misses an update | extends it | done |
| `EsphomeDampers` | covers, move and calibration scripts of the second board | – | done |
| `EsphomeDampers_proofs` | types; motors have scripts; no time stamp is left; dampers stand where asked | extends it | done |

Abstract specifications: `TwoPass` for chaincasting, `PjonQueue` for the buffer.

Runs: one exploring run per module with every fault its environment has, one run
with fairness where something must eventually happen, and one run per
disagreement between code and texts. The instances are the smallest that hold
the interesting case: two dampers for a loop that reads one after the other, two
commands for passes that cross, four ids for a ladder with a controller above
the one that completes the reach.

Still worth doing: a model of `DamperControl` in which dampers are installed and removed
while it runs.

---------------------------------------------------------------------------

## 3. The modules and the code

Names are those of the source. A definition `Name_Variant` beside `Name` is a
faulty version of it; it occurs in no specification and serves to show that a
property notices the fault.

### DamperControl

One controller. Variables are the globals of `main.cpp` plus the loop's place
(`pc`, `i`, `rv`: where the main loop is, the loop index and the accumulated
result of `have_dampers_reached_target` or `are_all_dampers_closed`), the hardware
(`pos`, `phase`, `pcint`, `broken`) and what an observer remembers (`errors`,
`homed`, `homedBefore`).

- *Hardware.* `Rotate` moves each disk whose motor runs by one tick; a turn takes
  `MinTurn..MaxTurn` ticks, decided anew in each turn, and the barrier is LOW for
  the first `Window` ticks. A change of any pin makes `pcint` pending. `phase`
  alternates disks and timer: the timer's period is the unit in which motion is
  measured. `Glitch(d)` is the ceiling light of `2019-04-06_debugging.txt`;
  `Break(d)` a barrier that stays HIGH from now on.
- *Interrupts.* `task_check_endstops` looks at every damper whichever pin changed;
  `task_control_dampers` is the whole timer routine: per damper
  synchronise, time out, compare, count, switch the motor. An interrupt runs to
  completion and the pin change is served before the timer, as on the AVR the code is
  written for. (At this commit the lines that set up timer and pin change are
  commented out for the ESP32 port; the model is of the routines.)
- *Main loop.* `SerialDirect`, `handle_damper_cmd`, `updateSettingsFromPacket`
  are the commands; `FanSwitch` … `LaminaReadReached` are `task_control_fan`, one
  action per read of a shared variable, since a tick may fall between two reads;
  `task_check_damper_state_overflow` broadcasts. Handlers that write several
  variables the interrupts read are one action: each damper's target is a single
  byte and the timer treats dampers independently, so that a tick between two of
  the writes is a tick before or after for each damper.
- *Reboot* loses RAM and keeps disks, barriers and settings.

### Chaincast and TwoPass

`net[n]` is what PJON holds for controller n, `msgbuf[n]` the filled slots of its
receive buffer, oldest first. `Inject` is a command typed at the console,
for id 1 or for everybody; `Receive`/`ReceiveNothing` begin a `task_pjon`;
`pjon_chaincast_recv_handler` is one round of its loop: free the slot, handle,
forward. A controller handles what it has buffered before it returns to its
console (`handling`). The bus may lose a packet, keep one whose acknowledgement
was lost and deliver it again, or deliver out of order; a controller may reboot, and
then has its settings back as the program has them (`PjonIds` shows why).
Packets for an id nobody has are given up: that ends the descent below 1, and the
ascent when some damper is driven by nobody.

`TwoPass` says what this is for: controllers acknowledge a command in any order,
and a fan follows a command only when all dampers have. `Promise` maps `acked` to
`reached` and `fanBy` to itself.

### PjonBuffer and PjonQueue

The slots, the index and the pass of `pjon_postrecv_handle_msg`, which visits
every slot once from the index on. `Waiting` reads the slots in that order; under
this mapping the buffer is `PjonQueue`: a queue of at most three that drops its
oldest entry, whose handling pass ends with the queue empty, and which a restart
(`pjon_init`) empties. `Chaincast` uses the same queue (`Buffered`); `PjonIds`
uses the slots themselves, and the refinement is checked there.

### PjonIds

One controller in full, with the slots of `PjonBuffer`; of the others only their ids (`ids`),
the id they are probing for (`probed`) and which broadcasts they have still to act on
(`toAcquire`, `toAnswer`). All that heard the same broadcast look for an id at the same time
(`pjon_startautoiddiscover`): `OtherProbes` finds one that nobody answers to, `OtherTakes` takes
it, and in between another may find the same. `Start` is `main` up to the end of `pjon_init`:
`eeprom_init`, `eeprom_load_settings`, acquiring an id if there is none. The settings exist
three times: in force (`pjon_device_id_`, `damper_open_pos_`, `damper_installed_`), in the
EEPROM library's RAM copy (`eeprom`), which every save writes, and in flash, which only a commit
writes; the one commit (`FlashAfterInit`) comes before the first save. `Handle` is one round of
`pjon_postrecv_handle_msg` with `Dispatch` for its switch; chaincasting and pressure messages
are left to other modules or change nothing. `BecomeMaster`, `AskIds` and `AssignIds` are the
three parts of `pjon_become_master_of_ids`, between them `task_pjon` runs until it finds the
buffer empty; how many of the others have acted by then is open, and any of them may miss a
broadcast or its new id. `Foreign` is what other consoles send. PJON hands the callback the id
the packet was sent to; `ListedId` is that one, not the one in the message. `Acquired` is PJON's
`acquire_id`, external, as its callers expect it to be: an id nobody answers to, or none. By the
comment at `comm.cpp:365` it does not work in the PJON release the code was written for; then
controllers have the ids people give them (`SetId`), and `m` makes one of them number 1 and
changes no other. Flash behaves as on the ESP32, whose EEPROM library writes on commit only.

### SerialLine

`DamperTeensy` with its writer's output put on a line (`line`, bytes) and read by
`handle_serialdata`, which hands each byte of a packet to `handle_serial2pjon` and takes over
its state. Each reader has its own static variables: `next_char` and `pkt_next_char`, `msg_dst`,
`read_num_chars`, `msg_len`, `msg_buf`. Of `msg_buf` only messages short enough to be accepted
are kept. `pjon_inject_msg` stands for what happens to a complete message: too long or of a
length that is not its type's, it has no effect; a damper command for this controller (or all)
is `obeyed` (how the ladder carries it on is `Chaincast`'s matter); anything else that has an
effect sets `misled`. A byte may be lost, a write may fail unnoticed, the controller may
restart; `whole` and `misread` let an observer tell a packet that was written to a ready reader
and met no fault. The readers' direct commands are letters and digits, which no packet of the
daemon contains; they are in `DamperControl` and `PjonIds`. Message length and byte positions
(`SIZEOF_MESSAGE`, `FanOf`) are those of the AVR, where structures are packed; the daemon's
packets fit these. For the ESP32, the only target left in `platformio.ini`, a compiler aligns
the floats in `pressureinfo_t`, which should make `pjon_message_t` 16 bytes long with `reach` at
offset 4, so that the daemon's bytes would not be the controller's fields: nothing here is about
that build.

### WebServer

`hub` is the publish/subscribe library: one goroutine, one call at a time, a message delivered
to one channel after the other, waiting at a full one. The checker and the marshaller are
subscribers that call it themselves. Per client `reader` is where `goTalkWithClient` is and
`writer` where `goWriteToClient` is: it subscribes to updates, asks for the present state, then
writes what comes from three channels in any order. `Refuse` calls `replyToWebClient`: the state
and the error are sent if there is room, and panic if the reader has closed the channel
(`crashed`). A state is the number of its change; whether a request is granted is open here. A
request that waits for the library is one made later, so that `PubRequest` is one step. Nothing
bounds what is on its way but the channels themselves: as in the code, checker, marshaller and
writers may block each other with the library, and `Circle` says when they have. `Init` is the
daemon with its goroutines subscribed, the checker's first state published too early for anybody
to hear it, or not yet.

### Ventilation

The select loop of `goSanityCheckDamperRequests`. `ChangeVent` is a request that
passes both checks; one that does not changes nothing and is a stutter.
`Requests` has the states with fields missing that JSON can produce. `Granted` is
what `sanityCheckVentilationStateChange` returns with the fan forced off when all
dampers are closed. The timer is `locktimeouter` (ticks to go, or stopped) and
`expired` (a value in its channel): `Fire` puts it there, `Timeout` receives it,
`Reset` restarts the timer and does not drain the channel (the module's `go.mod`
says go 1.16). Requests carry their sender's authority, so that waiting in a
channel is the same as not having been made. Replies are in `WebServer`.

### DamperTeensy

`goChangeDampers` receives published states; a state equal to the last is passed
over, one that moves dampers less than `mininterval` after the last command waits
(`DelayOver`); `SendCmd` hands the command to `serialWriter` through a channel of
one. `States` are the states that may be published, with the locks, so that two
may differ and yet stand for the same command. Publishing them is not bounded.

### EsphomeDampers

Per damper the place of its calibration script (`calibrate`: waiting for the endstop, for its
release, for the next hit) and of its move script (`move`: homing, extra time), each with the
ticks left of its timeout or delay; `calibrate_all` is the damper the boot script waits for. A
script runs until its next wait in one action, as in ESPHome's loop; `Tick` is only enabled when
no script can go on, since the loop goes round many times during a tick of motion. `Move` is any
of open, close and set position: the globals are set and the script restarts. `Stop` switches
the output off and leaves the scripts waiting, as the cover's stop action does. `full_turn` is
the time measured, or `STAMP` while it holds the time at which measuring began; a move that
reads a stamp gets a delay taken from the clock. `Reboot` brings `full_turn` back from flash,
perhaps a stamp. `disturbed[d]` remembers that the script of d that ran last was overlapped or
stopped, or that none ran. `desired_position` is what a cover was asked for last, which is not what it
reports (section 7).

---------------------------------------------------------------------------

## 4. The runs

Passing:

| run | question | bounds, and why they are enough |
|---|---|---|
| `DamperControl` | Do counters tell the truth, and do the fans start only when they may, whatever the interleaving? `TypeOK`, `ClosedIsAtEndstop`, `NoFalseAlarm`, `CounterTracksDisk`, `LaminaNeedsFan`, `FanStartsAtTarget`, `FanNeedsOpenDamper` | Two dampers, both installed: the loops read one, a tick falls in between, then the other. Open position 2 (half open 1), turns of 4 or 5 ticks, counter modulo 8: all targets and at least one position beyond them, a turn within the counter's range (`MaxTurn + 1 < WRAP`), as with 80 of about 200 in 256. Third damper and other values add no new relation; theorems cover them for all seven properties. |
| `DamperFair` | Does the damper settle and do the fans follow, once people, reboots and stray light leave it alone, with a barrier that may break? `EventuallySettled`. Is a barrier that does not answer reported? `BrokenBarrierIsReported` | One damper (dampers do not influence each other's motion), counter modulo 6 against turns of 4 ticks. |
| `Chaincast` | Is `reach` true and does no fan run ahead, on a bus with loss, repetition and reordering and with reboots? `TypeOK`, `ReachIsTrue`, and `PromiseKept`: the protocol implements `TwoPass`, in which a fan follows only a command that all dampers have (`FanAfterAllDampers`, also a theorem) | The deployed pair of controllers, commands from controller 1's console (the daemon's), to id 1 or to all, two damper commands (fan on, fan off) and a settings update, two packets on the bus per controller, so that one may overtake the other, and a buffer of two, which three messages overflow. The proofs cover every number of each, and consoles everywhere. |
| `ChaincastLadder` | On a bus without faults, does every message come to an end, and do then all controllers agree on the last command although passes crossed? `QuietMeansAgreed`, `EventuallyQuiet` | Four controllers (one damper each for 1 to 3, none for 4, which must stay outside), two damper commands and one settings update from the console of controller 1; buffer of 3 and bus of 4 never fill up, which the property needs. |
| `PjonIds` | Do messages, settings, ids and restarts go together? `IdsTypeOK`, `SettingsAreSomebodys`, `SavedIsInForce`; is there one number 1 after a renumbering (`RenumberingLeavesOneMaster`)? Are the slots the queue? `BufferIsQueue` | The code's three slots; two neighbours, interchangeable, so that two may get the same id; three ids, of which 1 is the master's; a list of two, which three answers overflow; one open position and one set of dampers that differ from the defaults; three requests by people (`MaxRequests`): one before, one during and one after a renumbering, or three messages that fill the buffer, restarts included. |
| `Ventilation` | Are states, locks and timer safe in every sequence of requests? `TypeOK`, `FanHasSomeDamper`, `LockHasTimer`, `LaserKeepsExhaust`, `OLGAKeepsDampers`; do locks end? `LocksGo` | The whole state space of dampers and fan; a lock of three ticks, so that a tick can pass before, between and after two wishes. |
| `SerialLine` | Is the daemon's last state sent, in order and not too fast (`ControllerIsUpToDate`, `MovesAreApart`, `ControllerFollows`)? Does a packet that met no fault get its command obeyed (`ControllerObeys`), does a reader out of step come back (`ReaderRecovers`), and is damage never taken for another message (`DamageIsHarmless`)? `LineTypeOK` | Three states, of which two differ only in the fan and two only in the dampers, published for ever; channel of one, interval of one tick. One packet is on the line at a time: the reader sees bytes, not when they were written. The next fault comes only after the reader has recovered from the last, except restarts. `MaxMisread` = 7 packets is what recovery may take, and 6 is too few: the start byte '>' (62) read as a length swallows seven packets of nine bytes. |
| `WebServer` | Is every client shown the state that is in force (`NoUpdateMissed`)? Does the library stop only in a circle of full channels (`KeepsServing`)? `TypeOK` | One client, who connects, asks and leaves at any moment, and requests by MQTT beside him; subscribers' channels of one, which is when they fill soonest, a reply channel of two, which one refusal fills; two changes after the first state. The circles through `newreq_c`, `udpate_c` and a client's own channel all occur; the one through `init_c` takes a second client (it occurs, and `KeepsServing` holds, with two clients, all channels of one and `MaxChanges` = 0: a million states, not among the runs). |
| `EsphomeDampers` | Does a motor ever outlive its scripts (`MotorHasScript`)? Do dampers stand where they were asked to go (`StandsWhereAsked`)? Do calibrations leave durations behind (`NoStampLeft`), and does all come to rest (`ComesToRest`)? `TypeOK` | Two dampers, so that one is moved while the other calibrates; three requests (move, stop, reboot) at any moment, enough for a reboot during a calibration, a move that reads what it left behind, and a stop; turn of 6 ticks with timeouts longer than it; positions 0, 70 and 100, whose targets differ by more than the endstop's width. Damper 3 is left out: see `EsphomeDamper3`. |

`CHECK_DEADLOCK FALSE` where the system may come to rest: all commands sent, all
requests made, the daemon crashed, or (in `DamperControl`) nothing but stuttering left
to check.

Runs that show the code does something else than its texts say: `DamperFanUC`,
`EsphomeDamper3`, `WebServerCrash` (section 7).

History variables (`homed`, `homedBefore`, `errors`, `fanBy`, `reached`, `sent`, `age`,
`current`, `given`, `undisturbed`, `misled`, `newest`) record what an observer saw; no guard of
a modelled handler reads them, `disturbed` and `calibrated` of `EsphomeDampers` included. Bounds
that do occur in guards: `Inject` sends each command at most once; cover actions and reboots of
`EsphomeDampers`, and people's requests and restarts in `PjonIds`, stop at `MaxRequests`;
changes granted in `WebServer` stop at `MaxChanges`; `misread` of `SerialLine` saturates, and
its faults wait for `whole`. The open position is one value in the runs of `DamperControl`, so
`updateSettingsFromPacket` changes nothing there; the theorems hold for any set of values.

---------------------------------------------------------------------------

## 5. Fairness

- `DamperControl!FairSpec`: weak fairness of `Rotate`, of both interrupt routines
  and of the main loop's steps. A running motor turns its disk; the timer is
  periodic and no routine disables interrupts for long; the main loop contains no
  wait. No fairness for commands, reboots, glitches and breaks, and both liveness
  properties speak of behaviours in which those end (`Undisturbed`).
- `Chaincast!FairSpec`: every controller's main loop keeps calling `task_pjon`.
  None for the console. `EventuallyQuiet` is checked without faults: with loss it
  would hold trivially, with endless repetition it cannot.
- `Ventilation!FairSpec`: time passes, a timer at zero fires, and a ready case of
  a `select` is taken some day (Go chooses at random among ready cases).
- `EsphomeDampers!FairSpec`: the loop goes round and time passes; none for requests.
- `SerialLine!LineFairSpec`: a goroutine that can run does, time passes, a packet is
  written some day and the controller reads what is on the line. None for faults and
  for publishing.
- `WebServer!FairSpec`: the library delivers what it has taken, and checker, marshaller and
  every client's writer do what they can some day (all weak). None for clients, requests and
  timers. A write to a client ends by its deadline (`webserver.go:80`), so a writer
  always comes back to its select.
- `PjonIds` states safety only.

---------------------------------------------------------------------------

## 6. Proofs

All are proved for every value of the constants that satisfies the named
assumptions of the modules (`SizeAssumption`, `WiringAssumption`,
`TurnAssumption`; `ChainAssumption`, `CommandAssumption`, `FaultAssumption`;
`VentilationAssumption`; `EsphomeAssumption`; `BufferAssumption`; `IdsAssumption`,
`MessagesAssumption`; `TeensyAssumption`, `NoStateAssumption`; `MisreadAssumption`,
`CmdAssumption`; `WebAssumption`). Further hypotheses are in the theorems themselves, and
named here. The inductive invariants were checked by TLC on the instances of section 4
before they were proved.

**DamperControl_proofs.** `TypeCorrect`. `ClosedDampersAreClosed` and
`AlarmsAreTrue`: with `MaxTurn + 1 < WRAP` and no glitchy barrier,
`ClosedIsAtEndstop` and `NoFalseAlarm` hold for every number of dampers, every
wiring, and barriers that may break (a broken one is excused from then on).
Neither is inductive: the counter of a closed damper is 0 either because the
barrier said so or because it wrapped. The invariant `TrackedInv` rules the
second out: as long as the barrier has not been seen, the counter is at most
`Ahead(d)` ticks ahead of the disk; the disk cannot go `MaxTurn` ticks without
coming to the barrier, and there the pin-change interrupt comes before the next
tick (`Seen`). It also says that a flag is only up between interrupt and tick,
with the disk in its barrier, so a flag left over from an earlier pass cannot
stop a damper elsewhere. One lemma per actor shows that its steps keep `Tracked`.
Both hypotheses are needed: without the first the counter wraps, without the
second the light stops a damper anywhere.

`CountersTrackDisks` adds the other bound, for dampers that have found their
barrier since boot. `InStep` says that counter and disk advance together, the disk
ahead by less than the barrier is wide; the step the counter has counted and the
disk has still to make is `Outstanding`. Its last conjunct, that a disk whose
counter is `Clear` of the barrier on both sides raises no flag, is not needed for
this theorem but for the last one.

The fans. `LaminaFollowsFan` needs no hypothesis: the property is inductive
because `task_control_fan` always goes on from the first switch statement to the
second. `FanStartsOpen` holds for any barriers, broken, glitchy or too slow for the
counter, if all dampers are installed (without that hypothesis the run
`DamperFanUC` refutes it). What the loops read of one damper is stale when they
read the next, so the invariant `FanInv` says what remains true of a damper that
was at its target once: it is closed and to be closed, or not closed and not past its
target (`Passed`); `PassedTick` shows that neither the timer nor the barrier
changes that. `FanStartsSettled` is about dampers that had found their barrier:
they are still at their targets, because in step with their disks they raise no
flag there (`StaysAtTarget`). Besides the two hypotheses above it needs that no
open position, nor half of one, is within a barrier's width of the barrier; near it
a damper that has just reached its target, its motor not yet stopped, may still be
flagged, by another damper's pin change or by coming round to the barrier; its
counter then starts from 0 and it moves on after the loop has read it. The default position of 80
in a turn of some 200 ticks satisfies all of them.

**Chaincast_proofs.** `TypeCorrect`; `ReachNeverLies`, `FanFollowsAllDampers` and
`ImplementsTwoPass`. The argument is about sets of messages: a step other than
handling only moves, copies or drops messages (`Buffers(S)` is kept for every set
S that holds the freshly injected ones), and handling adds to `reach` exactly the dampers it
adds to `reached`, which never shrinks. `ReachInv` joins types, true reach fields
everywhere on the bus and in the buffers, and `FanAfterAllDampers`. The
implementation proof maps each step to `Acknowledge`, `Commit`, `Forget` or a
stutter; a commit uses that the reach field is true.

`LastCommandWins` states `QuietMeansAgreed` for every length of the ladder, every
distribution of the dampers over it and every number of commands. It assumes
`NothingIsLost`: no faults, one console (at any controller) whose commands all go to
number 1, and no more commands than a receive buffer and the bus hold. Each of these is
needed: an overwritten message ends a chaincast halfway, and the commands of two consoles
may meet in another order than they were typed. `ChaincastLadder` is an instance of it. The
invariant `AgreeInv` says there is a *stage* for each command, 0 before it is sent, n while
its message waits for controller n on the way up, 2 * Top - n on the way down (`Top`
is where the reach field gets complete) and 2 * Top at the end, such that

- every message lies in the queue (buffer, then bus) of the controller its stage says, with
  the reach field that belongs to the stage (`Placed`), and every command under way has such a
  message (`Found`);
- messages of the same stage lie in the order in which they were sent (`InOrder`), and no
  command is at a later stage than one sent before it (`NoOvertaking`);
- each controller obeys the newest command of a kind once that has passed it on the
  way down (`AllObey`).

A step takes the oldest message in hand (`TakenInHand`: everything sent before it is
strictly ahead), moves it on by a stage (`MovedOn`) and puts it behind all others of
its new stage (`PutIn`) or is its last (`Finished`). A message of each command lies in at
most one place (`OneMessage`), so that nothing fills up (`Room`). At rest all stages are at the end,
and everybody obeys the newest.

**Ventilation_proofs.** `TypeCorrect`; `LocksHaveTimers`; `FanAlwaysHasSomeDamper`;
`LaserExhaustIsSafe` and `OLGADampersAreSafe` as action properties. Each rests on
`StepCases` (which steps there are) and `StateChanges` (the state changes by a
granted request or a restart only).

**EsphomeDampers_proofs.** `TypeCorrect` (with `ExtraTicksRange` for the arithmetic of
the delay); `MotorsHaveScripts` for boards with dampers 1 and 2, by one case per
action (`MotorStep`); `StampsGo` from `StampInv`: only the damper whose turn it is
calibrates, and a damper that holds a stamp calibrates or will.

`DampersStandWhereAsked`: a damper whose last script ran to its end undisturbed stands within a
barrier's width of where its cover was asked to go, for every length of a turn and every
position. `N <= 2` is a hypothesis because damper 3's script stops damper 2. The property speaks
of the end of a script only, so that `Placed(d)` follows the disk all the way there: the motor
runs exactly while a script does, and on its way to the endstop the disk gets there before the
wait is over (`Towards`); the time since the endstop's release is the angle travelled
(`Calibrating`), so that what is measured is the turn; the delay began within the endstop
(`Began`, `MovingOn`), and when it ends the disk is where it was to go (`AsAsked`). Of a damper
whose scripts were disturbed only the measured turn is known. `DelayIsClose` is the arithmetic:
percent of a turn, rounded, is less than a barrier's width off the angle asked for.

**SerialLine_proofs.** Of the daemon's end: `TypeCorrect`, `LastStateArrives`,
`MovesKeepApart`, from one invariant: between the state published last and the command
written last there is always one of: a state in the channel, a command held back, a
command at the writer, or agreement; and `since` bounds how long ago a command was handed
over. `LineImplementsTeensy`: the line adds variables and steps, and takes no freedom and
gives none, so that all three hold of `LineSpec` with every lost byte, failed
write and restart (`LineLastStateArrives`, `LineMovesKeepApart`).

Of the readers: `LineTypeCorrect`, `ObeysUndisturbed`, `ReaderResyncs` and `DamageStaysHarmless`.
None of them is inductive, since they speak of what is true between packets, and `LineInv`
says where in a packet two nested readers can be. The line carries the nine bytes of one packet or
what is left of them (`Full`). Without a fault the readers' state is determined by
how many bytes are left (`InStep`, `At(k)`). After a fault they are `Skipping` to the next start
byte; `Damaged`, reading a packet that lacks a byte; or `Astray`, reading on with the next
packet what the damaged one began. Every message that can be completed in the last two
has no effect: its length is not its type's, or it is a command and the byte it
lacks was taken from the next packet's start, which asks for no main fan. `misread` counts
packets: the longest length a stray reader can find is 62, the start byte itself, and at nine
bytes a packet seven packets cover it, wherever it began. So `ReaderResyncs`
has the hypothesis `MaxMisread >= 7`; a smaller bound refutes the property, as run
`SerialLine` does with 6.

**WebServer_proofs.** `TypeCorrect` and `NothingMissed`: once nothing is under way for a
connected client, it has been shown the newest state, for any number of clients,
channel capacities and changes. The hub delivers one message to one channel after the
other, so that channel contents alone say little; `Way(ch)` is a channel followed by the
message the hub has still to deliver to it: delivering leaves it as it is, publishing
appends to it, receiving takes its head. The invariant follows the newest state along
checker, marshaller and writer: the last change on its way to the marshaller is the last granted
(`Published`); a client's writer asks for the present state once, after it has subscribed
(`Asking`); and what the marshaller has, the client has been shown, or it is on its way to
him, or his question is (`Showing`).

**PjonBuffer_proofs.** `TypeCorrect`, and `RoundBufferIsQueue`: the refinement of `PjonQueue`
for every number of slots. What makes it work is `BufferInv`: seen from the index, the empty
slots come first (`Layout`), and a pass that has visited `cc` slots has emptied at least these,
so that the slot visited next holds the oldest message or nothing.

**PjonIds_proofs.** `SettingsHaveAnOwner`, `CopyAgrees`, `NothingSurvives`. The invariant adds
to the two properties that flash holds no settings (`NothingCommitted`): without it a start
could load anything. Saving keeps the copy in agreement, whatever was changed; a start either
finds a flash without settings and takes the program's, or, on a new chip, saves these.
`IdsTypeCorrect` uses that invariant too, as what a start loads must be typed.
`MessagesAreQueued` carries `RoundBufferIsQueue` over to the whole controller: consoles, master
and restarts use the buffer through the same operations. `OneMasterIsLeft`: a renumbering that
everybody heard of and acted on in time, and nothing came between, leaves this controller with
number 1 and nobody else, whoever had that number before, however many of its answers and new
ids are lost. The others may have found one and the same id (`probed`), but not 1: while the
renumbering is undisturbed, who has heard of it gives up his id and finds 1 taken
(`SoleMaster`). What keeps it so in the end is a flaw (section 7): the list never names anybody
but number 1, so that no neighbour's id is ever changed by it. What sorting and renumbering make
of a list of any length takes an induction; `SetInduction` gets it from the well-founded order
of the naturals for a set of numbers, since an operator for a parameter cannot be instantiated.

Only model-checked: all liveness, which is beyond this prover. Every invariant and every
action property that a run checks and that holds is also stated by a theorem.

---------------------------------------------------------------------------

## 7. Where code and texts disagree

With a run that shows it:

1. `DamperFanUC`: `firmware/dampercontrol/README.md:39` says the fan does not
   start if all dampers are closed. `are_all_dampers_closed` also looks at
   dampers that are not installed, whose counters stay at 1: on a controller
   with a missing damper the test never holds. `FanNeedsOpenDamper` passes in run
   `DamperControl`, where every damper is installed, and fails here.
2. `EsphomeDamper3`: `move_damper3` ends by switching off damper 2's output
   (`r3_ventilation_pcb.yaml:457`), although moves "run for a fraction of full_turn_ms"
   (l. 385): damper 3 turns on for ever. With dampers 1 and 2, `MotorHasScript` is
   proved.
3. `WebServerCrash`: `ventilation.go:105` means to make sure that a reply cannot crash
   by writing to a closed channel; a send on a closed channel panics in a `select`
   with a default too, and `goTalkWithClient` closes the channel while requests of its
   client are still queued.

Seen while modelling, without a run of their own:

- The comment at `main.cpp:157` says a fan is switched off on the first pass; the code is
  inside `if (didreachall)`, so that it waits for the second. `PromiseKept` is about the code: fans
  follow on the second pass, off as well as on.
- The comment at `main.cpp:441` starts the laminar-flow fan "once dampers 2 is open"; the code
  does not ask, and a command that closes that damper leaves the fan's last target in place
  (`main.cpp:168`), so that it starts with the damper closed.
- The comment at `r3_ventilation_pcb.yaml:221` says that an intermediate position is reported
  separately; nothing does, and a cover at 70 % says that it is open (l. 218-221, 248-251, 278-281).
  `StandsWhereAsked` is about where the damper stands, not about what its cover reports.
- "Can't stop fan while Lasercutter in use!" (`ventilation.go:66`); a request that closes
  the last damper and leaves the fan on is granted, and line 79 switches the fan off.
  What the lock does guarantee, `LaserKeepsExhaust`, needs the laser's own damper open.
- `m` never makes ids sequential, as `comm.cpp:208-210` and 391 say: what goes on the list is the
  id the callback was given, which for answers to controller 1 is 1 (`comm.cpp:334`). The first
  entry is then skipped, and the others are sent to id 1, which does not hear itself. Taking the
  id from the message instead would not do either: the list has no entry for the master, so that
  its first would be told to be number 1 too; that is the mutant of `RenumberingLeavesOneMaster`.
- Neighbours that hear the same broadcast may find and take the same id
  (`comm.cpp:366-379`), and nobody notices; `RenumberingLeavesOneMaster` says only what is left: no
  second number 1.
- On the ESP32, whose EEPROM library writes to flash on commit only, no setting and no id
  survives a restart (`settings.cpp:78`, 105-114; theorem `NothingSurvives`).
- `firmware/dampercontrol/README.md:25` puts the fan in bit 1 and the laminar-flow fan in bit 0 of
  the fan byte; in `dampercontrol.h:129` the main fan is bit 0, and the daemon writes 1.
- Goroutines that wait for each other in a circle: checker, marshaller and a client's writer
  call the library from the loop that empties their channels. When the library has a message for
  a full channel whose reader waits for the library, the daemon answers nobody any more.
  Requests of clients and MQTT fill `newreq_c`, changes `udpate_c`, new clients `init_c`, and a
  writer that leaves or is only about to ask for the present state its own channel. Nothing
  bounds how much is on its way, only that channels hold ten. No text promises otherwise
  (`ventilation.go:105` speaks of the reply channel), so this is no run of its own;
  `KeepsServing` shows that nothing else stops the library.
- `goWriteToClient` picks among its channels at random, so a client may be shown the
  state it asked for, or the one sent with a refusal, after a newer one, and keeps it until
  the next change; `NoUpdateMissed` says only that it has been shown the newest.
- The checker publishes its first state as soon as it starts (its timer starts at 0),
  perhaps before the marshaller has subscribed; clients are then sent empty data until the
  next change. The same goes for `goChangeDampers`, whose first state may then be that of the first
  change; `DamperTeensy` begins when it has subscribed.
- The overflow error is only raised for a damper on its way to closed
  (`main.cpp:393`), while `comm.cpp:439` speaks of a damper that does not reach its
  endstop: one that is to open with a broken barrier opens to a random angle and
  nobody is told.
- A command before the first barrier pass after boot is counted from the counter's
  initial value of 1 (`main.cpp:36`), so a damper may be "open" at any angle;
  hence `homed` in `CounterTracksDisk` and `FanStartsAtTarget`.
- After a counter was in motion the fan loop may still combine readings of two
  moments; `FanStartsAtTarget` shows that for dampers that had found their
  barrier this does no harm: a damper that was seen at its target and has left it was told to by
  a command, and commands are not taken inside the loop.
- OLGA's lock forbids a remote client to stop the fan only while damper 2 or 3 is
  fully open: half opening them first and stopping the fan next is granted.
- When the lock timer has fired and its value has not been received yet, a lock set
  at that moment ends at once, since `Reset` (`ventilation.go:150`) does not drain
  the channel.
- On the ESPHome board a stop or a move during calibration makes it time out; the
  timeout is stored as the duration of a turn and the cover says closed.
- `serialWriter` takes a command for written whether the write succeeded or not
  (`serial_tty.go:42-44`): that the controller "is told" means that `Write` was called, in
  `ControllerIsUpToDate` and `ControllerFollows`.
- A controller reboots between the two passes: `reach` says who has handled a command, not who
  still follows it; the fan starts with these dampers closed.
- `pjon_send_dampercmd` sends a command whose `fanlamina` nobody has set.
- A message as long as the receive slot is refused although the comment at
  `comm.cpp:102` means only longer ones.

---------------------------------------------------------------------------

## 8. What is not modelled, and why

- *The browser client*: it keeps nothing but what it shows, and every request it can
  make is among those of `Ventilation`. That a click sends the whole view is seen from there.
- *Presence (MQTT)*: decides only when the automatic switch-off is requested, which
  `Ventilation` allows at any time.
- *Installing a damper while it moves*: `DamperControl` has a fixed set of dampers; see the
  hazard at `main.cpp:386`.
- *Shutdown, pings, HTTP*, a serial device that is missing or goes away, the other two
  subscribers to states (`goChangeDampers` is `DamperTeensy`; publishing to MQTT).
- *Sensors, logging, image, drawings*: input and output without a decision that
  depends on them, or not code.
- *PJON itself*: external; its behaviour towards `comm.cpp` is queues per
  destination with loss, repetition and reordering. Collisions and timing on the
  wire are inside these.
- *The MQTT broker, the Go runtime, the pubsub library, ESPHome*: external.
- *Two-bit fan fields* with the values 2 and 3, which no sender produces.
- *Time*: the daemon's durations and the controllers' ticks are counted in small
  numbers; only their order matters to the properties.
