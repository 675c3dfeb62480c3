---------------------------- MODULE PjonIds_proofs ----------------------------
(***************************************************************************)
(* For all settings, ids, neighbours and messages: the settings in force   *)
(* are somebody's, and the EEPROM library's copy agrees with them.  Flash   *)
(* never holds settings, so that a restart can only bring the defaults.    *)
(***************************************************************************)
EXTENDS PjonIds, PjonBuffer_proofs, WellFoundedInduction

\* The bytes settings.cpp lays out.
IsBlock(r) == DOMAIN r = {"version", "id", "num", "open", "installed"}

\* settings.cpp:105-114: the only commit precedes the first save.
NothingCommitted == IsBlock(flash) /\ flash.num = ERASED

\* What every step preserves.
Inv == IsBlock(eeprom) /\ NothingCommitted /\ SettingsAreSomebodys /\ SavedIsInForce

USE DEF ERASED, NUM_DAMPER, EEPROM_CURRENT_VERSION, DEFAULT_OPEN_POS

\* settings.cpp:65-79: saved settings are those passed, and the block stays one.
LEMMA SavedBlock ==
  ASSUME IsBlock(eeprom), NEW id, NEW open, NEW installed
  PROVE  /\ IsBlock(Saved(id, open, installed))
         /\ Saved(id, open, installed).open = open
         /\ Saved(id, open, installed).installed = installed
  BY DEF IsBlock, Saved

\* settings.cpp:37-63: a new chip has the defaults.
LEMMA InvInit == IdsInit => Inv
  BY DEF IdsInit, Inv, IsBlock, NothingCommitted, SettingsAreSomebodys, SavedIsInForce

\* Steps that leave settings and both copies alone, an id acquired on request included.
LEMMA KeptBySame ==
  Inv /\ UNCHANGED <<damper_open_pos_, damper_installed_, store, given>> => Inv'
  BY DEF Inv, IsBlock, NothingCommitted, SettingsAreSomebodys, SavedIsInForce, store

\* comm.cpp:120-125: a new id is saved with the settings in force.
LEMMA KeptByNewId ==
  ASSUME Inv, NEW id, pjon_change_deviceid(id), UNCHANGED given
  PROVE  Inv'
<1>1. IsBlock(eeprom)' /\ SavedIsInForce'
  BY SavedBlock DEF Inv, IsBlock, pjon_change_deviceid, SavedIsInForce
<1>2. NothingCommitted' /\ SettingsAreSomebodys'
  BY DEF Inv, pjon_change_deviceid, NothingCommitted, IsBlock, SettingsAreSomebodys
<1> QED
  BY <1>1, <1>2 DEF Inv

\* settings.cpp:116-123: a new open position is saved.
LEMMA KeptByOpen ==
  ASSUME Inv, NEW open, updateSettingsFromPacket(open)
  PROVE  Inv'
<1>1. IsBlock(eeprom)' /\ SavedIsInForce'
  BY SavedBlock DEF Inv, IsBlock, updateSettingsFromPacket, SavedIsInForce
<1>2. NothingCommitted'
  BY DEF Inv, updateSettingsFromPacket, NothingCommitted, IsBlock
<1>3. SettingsAreSomebodys'
  BY DEF Inv, updateSettingsFromPacket, SettingsAreSomebodys
<1> QED
  BY <1>1, <1>2, <1>3 DEF Inv

\* settings.cpp:125-132: so is a new set of dampers.
LEMMA KeptByInstalled ==
  ASSUME Inv, NEW installed, updateInstalledDampersFromChar(installed)
  PROVE  Inv'
<1>1. IsBlock(eeprom)' /\ SavedIsInForce'
  BY SavedBlock DEF Inv, IsBlock, updateInstalledDampersFromChar, SavedIsInForce
<1>2. NothingCommitted'
  BY DEF Inv, updateInstalledDampersFromChar, NothingCommitted, IsBlock
<1>3. SettingsAreSomebodys'
  BY DEF Inv, updateInstalledDampersFromChar, SettingsAreSomebodys
<1> QED
  BY <1>1, <1>2, <1>3 DEF Inv

\* settings.cpp:82-114: loading from a flash without settings gives the defaults.
LEMMA LoadsDefaults ==
  ASSUME NothingCommitted
  PROVE  /\ eeprom_load_settings(eeprom_init).open = DEFAULT_OPEN_POS
         /\ eeprom_load_settings(eeprom_init).installed = 0
         /\ IsBlock(eeprom_init)
         /\ eeprom_init.num = NUM_DAMPER =>
               eeprom_init.open = DEFAULT_OPEN_POS /\ eeprom_init.installed = 0
<1>1. CASE flash.version = EEPROM_CURRENT_VERSION
  BY <1>1 DEF eeprom_init, eeprom_load_settings, WereWritten, NothingCommitted, IsBlock
<1>2. CASE flash.version # EEPROM_CURRENT_VERSION
  <2>1. 0 % 8 = 0
    OBVIOUS
  <2> QED
    BY <1>2, <2>1 DEF eeprom_init, eeprom_load_settings, WereWritten, IsBlock
<1> QED
  BY <1>1, <1>2

\* main.cpp:486-502: a restart brings the defaults, and a saved id keeps them.
LEMMA KeptByStart ==
  ASSUME Inv, NEW id, Start(id)
  PROVE  Inv'
<1> DEFINE e == eeprom_init
           s == eeprom_load_settings(e)
<1>1. /\ damper_open_pos_' = s.open /\ damper_installed_' = s.installed
      /\ flash' = FlashAfterInit /\ UNCHANGED given
      /\ eeprom' = IF e.id # id
                   THEN [e EXCEPT !.id = id, !.num = NUM_DAMPER, !.open = s.open,
                                  !.installed = s.installed]
                   ELSE e
  BY DEF Start
<1>2. /\ s.open = DEFAULT_OPEN_POS /\ s.installed = 0 /\ IsBlock(e)
      /\ e.num = NUM_DAMPER => e.open = DEFAULT_OPEN_POS /\ e.installed = 0
  BY LoadsDefaults DEF Inv
<1> HIDE DEF e, s
<1>3. NothingCommitted'
  BY <1>1 DEF Inv, NothingCommitted, IsBlock, FlashAfterInit
<1>4. SettingsAreSomebodys'
  BY <1>1, <1>2 DEF SettingsAreSomebodys
<1>5. IsBlock(eeprom)' /\ SavedIsInForce'
  <2>1. CASE e.id = id
    BY <1>1, <1>2, <2>1 DEF IsBlock, SavedIsInForce
  <2>2. CASE e.id # id
    BY <1>1, <1>2, <2>2 DEF IsBlock, SavedIsInForce
  <2> QED
    BY <2>1, <2>2
<1> QED
  BY <1>3, <1>4, <1>5 DEF Inv

\* comm.cpp:304-346: whatever message a pass finds.
LEMMA KeptByHandle == Inv /\ Handle => Inv'
<1> SUFFICES ASSUME Inv, Handle PROVE Inv'
  OBVIOUS
<1> DEFINE m == pjon_msgbuf_[SlotOf(cc)]
<1>1. Dispatch(m)
  BY DEF Handle
<1> HIDE DEF m
<1>2. CASE UNCHANGED <<ram, store, pjon_id_list_, given>>
  BY <1>2, KeptBySame DEF ram
<1>3. CASE updateSettingsFromPacket(m.val)
  BY <1>3, KeptByOpen
<1>4. CASE UNCHANGED <<ram, store, given>>
  BY <1>4, KeptBySame DEF ram
<1>5. CASE pjon_change_deviceid(m.val) /\ UNCHANGED given
  BY <1>5, KeptByNewId
<1>6. CASE UNCHANGED <<damper_open_pos_, damper_installed_, store, given>>
  BY <1>6, KeptBySame
<1> QED
  BY <1>1, <1>2, <1>3, <1>4, <1>5, <1>6 DEF Dispatch

\* Every step of the controller, the console and the neighbours.
LEMMA InvStep == Inv /\ [IdsNext]_idsVars => Inv'
<1> SUFFICES ASSUME Inv, [IdsNext]_idsVars PROVE Inv'
  OBVIOUS
<1> DEFINE Same == UNCHANGED <<damper_open_pos_, damper_installed_, store, given>>
<1>1. ASSUME NEW id \in ValidIds, Start(id) PROVE Inv'
  BY <1>1, KeptByStart
<1>2. ASSUME NEW id \in ValidIds, SetId(id) PROVE Inv'
  BY <1>2, KeptByNewId DEF SetId
<1>3. ASSUME NEW m \in ForeignMessages, Foreign(m) PROVE Same
  BY <1>3 DEF Foreign, ram
<1>4. CASE Handle
  BY <1>4, KeptByHandle
<1>5. CASE Pass
  BY <1>5, KeptBySame DEF Pass, ram, seen
<1>6. ASSUME NEW installed \in InstalledSets, SetInstalled(installed) PROVE Inv'
  BY <1>6, KeptByInstalled DEF SetInstalled
<1>7. ASSUME NEW S \in SUBSET Others, pjon_broadcast_get_autoid(S) PROVE Same
  BY <1>7 DEF pjon_broadcast_get_autoid, ram
<1>8. ASSUME NEW S \in SUBSET Others, BecomeMaster(S) PROVE Inv'
  BY <1>8, KeptByNewId DEF BecomeMaster
<1>9. ASSUME NEW S \in SUBSET Others, AskIds(S) PROVE Same
  BY <1>9 DEF AskIds, ram, seen
<1>10. ASSUME NEW lost \in SUBSET (1 .. Len(pjon_id_list_)), AssignIds(lost) PROVE Same
  BY <1>10 DEF AssignIds, ram
<1>11. ASSUME NEW o \in Others, OtherProbes(o) \/ OtherTakes(o) \/ OtherAnswers(o) PROVE Same
  BY <1>11 DEF OtherProbes, OtherTakes, OtherAnswers, ram, seen
<1>12. CASE UNCHANGED idsVars
  BY <1>12, KeptBySame DEF idsVars, ram, seen
<1>13. Same => Inv'
  BY KeptBySame
<1> HIDE DEF Same
<1> QED
  BY <1>1, <1>2, <1>3, <1>4, <1>5, <1>6, <1>7, <1>8, <1>9, <1>10, <1>11, <1>12, <1>13
     DEF IdsNext

\* The inductive invariant: flash holds no settings, the library's copy holds those in
\* force, and those in force are somebody's.
THEOREM Invariant == IdsSpec => []Inv
  BY InvInit, InvStep, PTL DEF IdsSpec

\* settings.cpp:82-123: whatever flash holds, whoever sets what and however often the
\* controller restarts, it moves its dampers to an open position somebody chose.
THEOREM SettingsHaveAnOwner == IdsSpec => []SettingsAreSomebodys
<1>1. Inv => SettingsAreSomebodys
  BY DEF Inv
<1> QED
  BY <1>1, Invariant, PTL

\* settings.cpp:65-79: the copy that a commit would write agrees with what is in force.
THEOREM CopyAgrees == IdsSpec => []SavedIsInForce
<1>1. Inv => SavedIsInForce
  BY DEF Inv
<1> QED
  BY <1>1, Invariant, PTL

\* settings.cpp:78,105-114: no saved setting ever reaches flash, so none survives a
\* restart.
THEOREM NothingSurvives == IdsSpec => []NothingCommitted
<1>1. Inv => NothingCommitted
  BY DEF Inv
<1> QED
  BY <1>1, Invariant, PTL

-----------------------------------------------------------------------------
(***************************************************************************)
(* What the renumbering computes.  Facts about a recursive function are    *)
(* proved by induction over a set of numbers: the least number outside of  *)
(* it cannot exist.                                                        *)
(***************************************************************************)

\* Induction for a set of natural numbers.
LEMMA SetInduction ==
  ASSUME NEW S, 0 \in S, \A n \in Nat : n \in S => n + 1 \in S
  PROVE  Nat \subseteq S
<1> SUFFICES ASSUME Nat \ S # {} PROVE FALSE
  OBVIOUS
<1>1. PICK m \in Nat \ S : \A k \in Nat \ S : <<k, m>> \notin OpToRel(<, Nat)
  BY NatLessThanWellFounded, WFMin
<1>2. m \in Nat /\ m \notin S /\ m # 0
  BY <1>1, Zenon
<1>3. m - 1 \in Nat /\ m - 1 < m /\ (m - 1) + 1 = m
  BY <1>2
<1>4. m - 1 \in S
  <2>1. <<m - 1, m>> \in OpToRel(<, Nat)
    BY <1>2, <1>3 DEF OpToRel
  <2> QED
    BY <1>1, <1>3, <2>1, Zenon
<1>5. (m - 1) + 1 \in S
  BY <1>3, <1>4, Zenon
<1> QED
  BY <1>2, <1>3, <1>5, Zenon

\* comm.cpp:416-426: the ids after the k-th PJONID_SET, from those before it.
AfterSet(of, list, lost, k) ==
    [o \in Others |-> IF k \notin lost /\ list[k] # k /\ of[o] = list[k] THEN k ELSE of[o]]
Stages(f, n, list, lost) ==
    f = [k \in 0 .. n |-> IF k = 0 THEN ids ELSE AfterSet(f[k - 1], list, lost, k)]

\* The loop has a result, whatever the list.
LEMMA StagesExist ==
  ASSUME NEW list, NEW lost, NEW n \in Nat
  PROVE  \E f : Stages(f, n, list, lost)
<1> DEFINE S == {m \in Nat : \E f : Stages(f, m, list, lost)}
<1>1. 0 \in S
  <2>1. Stages([k \in 0 .. 0 |-> ids], 0, list, lost)
    BY DEF Stages
  <2> QED
    BY <2>1
<1>2. ASSUME NEW m \in Nat, m \in S PROVE m + 1 \in S
  <2>1. PICK f : Stages(f, m, list, lost)
    BY <1>2
  <2> DEFINE h == [k \in 0 .. m + 1 |->
                      IF k <= m THEN f[k] ELSE AfterSet(f[m], list, lost, m + 1)]
  <2>2. ASSUME NEW k \in 0 .. m + 1
        PROVE  h[k] = IF k = 0 THEN ids ELSE AfterSet(h[k - 1], list, lost, k)
    <3>1. CASE k = m + 1
      <4>1. h[k] = AfterSet(f[m], list, lost, m + 1) /\ h[m] = f[m] /\ k - 1 = m /\ k # 0
        BY <3>1
      <4> HIDE DEF h
      <4> QED
        BY <3>1, <4>1
    <3>2. CASE k # m + 1
      <4>1. k \in 0 .. m /\ k <= m /\ (k # 0 => k - 1 \in 0 .. m + 1 /\ k - 1 <= m)
        BY <3>2
      <4>2. h[k] = f[k] /\ (k # 0 => h[k - 1] = f[k - 1])
        BY <4>1
      <4> HIDE DEF h
      <4> QED
        BY <2>1, <4>1, <4>2 DEF Stages
    <3> QED
      BY <3>1, <3>2
  <2>3. h = [k \in 0 .. m + 1 |-> h[k]]
    OBVIOUS
  <2> HIDE DEF h
  <2>4. Stages(h, m + 1, list, lost)
    BY <2>2, <2>3 DEF Stages
  <2> QED
    BY <2>4
<1>3. n \in S
  <2> HIDE DEF S
  <2> QED
    BY <1>1, <1>2, SetInduction
<1> QED
  BY <1>3

\* comm.cpp:416-426: what the loop computes is its last stage.
LEMMA RenumberedIsLastStage ==
  ASSUME NEW list, NEW lost, Len(list) \in Nat
  PROVE  \E f : Stages(f, Len(list), list, lost) /\ Renumbered(list, lost) = f[Len(list)]
<1> DEFINE f == CHOOSE f : Stages(f, Len(list), list, lost)
<1>1. Stages(f, Len(list), list, lost)
  BY StagesExist
<1>2. Renumbered(list, lost) = f[Len(list)]
  BY DEF Renumbered, Stages, AfterSet
<1> QED
  BY <1>1, <1>2

\* comm.cpp:416-426: all ids stay ids.
LEMMA RenumberedIds ==
  ASSUME ids \in [Others -> ValidIds], NEW list, NEW lost,
         Len(list) \in 0 .. PJON_ID_LIST_LEN
  PROVE  Renumbered(list, lost) \in [Others -> ValidIds]
<1>1. PICK f : Stages(f, Len(list), list, lost) /\ Renumbered(list, lost) = f[Len(list)]
  BY RenumberedIsLastStage
<1> DEFINE S == {k \in Nat : k <= Len(list) => f[k] \in [Others -> ValidIds]}
<1>2. 0 \in S
  BY <1>1 DEF Stages
<1>3. ASSUME NEW k \in Nat, k \in S PROVE k + 1 \in S
  <2>1. ASSUME k + 1 <= Len(list) PROVE f[k + 1] \in [Others -> ValidIds]
    <3>1. f[k] \in [Others -> ValidIds] /\ k + 1 \in ValidIds
      BY <1>3, <2>1, IdsAssumption DEF ValidIds
    <3>2. f[k + 1] = AfterSet(f[k], list, lost, k + 1)
      BY <1>1, <2>1 DEF Stages
    <3> QED
      BY <3>1, <3>2, Zenon DEF AfterSet
  <2> QED
    BY <2>1
<1>4. Len(list) \in S
  <2> HIDE DEF S
  <2> QED
    BY <1>2, <1>3, SetInduction
<1> QED
  BY <1>1, <1>4

\* comm.cpp:416-426: a list of nothing but ones renumbers nobody, when nobody else is
\* number 1.
LEMMA RenumberedNobody ==
  ASSUME ids \in [Others -> ValidIds], \A o \in Others : ids[o] # 1,
         NEW list, NEW lost, Len(list) \in Nat, \A k \in 1 .. Len(list) : list[k] = 1
  PROVE  Renumbered(list, lost) = ids
<1>1. PICK f : Stages(f, Len(list), list, lost) /\ Renumbered(list, lost) = f[Len(list)]
  BY RenumberedIsLastStage
<1> DEFINE S == {k \in Nat : k <= Len(list) => f[k] = ids}
<1>2. 0 \in S
  BY <1>1 DEF Stages
<1>3. ASSUME NEW k \in Nat, k \in S PROVE k + 1 \in S
  <2>1. ASSUME k + 1 <= Len(list) PROVE f[k + 1] = ids
    <3>1. f[k] = ids /\ list[k + 1] = 1
      BY <1>3, <2>1
    <3>2. f[k + 1] = AfterSet(ids, list, lost, k + 1)
      BY <1>1, <2>1, <3>1 DEF Stages
    <3> QED
      BY <3>1, <3>2 DEF AfterSet
  <2> QED
    BY <2>1
<1>4. Len(list) \in S
  <2> HIDE DEF S
  <2> QED
    BY <1>2, <1>3, SetInduction
<1> QED
  BY <1>1, <1>4

\* comm.cpp:58-66: sorting keeps the length, and what was on the list.
LEMMA SortedKeeps ==
  ASSUME NEW V, NEW list \in Seq(V), NEW sorted \in Sorted(list)
  PROVE  sorted \in Seq(V) /\ Len(sorted) = Len(list)
<1>1. PICK p \in Bijection(1 .. Len(list), 1 .. Len(list)) :
          sorted = [k \in 1 .. Len(list) |-> list[p[k]]]
  BY DEF Sorted
<1>2. p \in [1 .. Len(list) -> 1 .. Len(list)]
  BY <1>1 DEF Bijection, Injection
<1> QED
  BY <1>1, <1>2

-----------------------------------------------------------------------------
(***************************************************************************)
(* The round buffer within the controller: what the console, the bus and   *)
(* the neighbours do to it is what PjonBuffer allows.                      *)
(***************************************************************************)

\* comm.cpp:93-115,279-309: each step takes one of the buffer's, or leaves it alone.
LEMMA BufferWithin == IdsTypeOK /\ [IdsNext]_idsVars => [Next]_vars
<1> SUFFICES ASSUME IdsTypeOK, [IdsNext]_idsVars PROVE [Next]_vars
  OBVIOUS
<1> USE MessagesAssumption
<1>1. ASSUME NEW id \in ValidIds, Start(id) PROVE Next
  BY <1>1 DEF Start, Next
<1>2. ASSUME NEW id \in ValidIds, SetId(id) PROVE UNCHANGED vars
  BY <1>2 DEF SetId
<1>3. ASSUME NEW m \in ForeignMessages, Foreign(m) PROVE Next
  BY <1>3 DEF Foreign, Next
<1>4. Handle \/ Pass => Next
  BY DEF Handle, Pass, Next
<1>5. ASSUME NEW installed \in InstalledSets, SetInstalled(installed)
      PROVE  UNCHANGED vars
  BY <1>5 DEF SetInstalled
<1>6. ASSUME NEW S \in SUBSET Others,
             pjon_broadcast_get_autoid(S) \/ BecomeMaster(S) \/ AskIds(S)
      PROVE  UNCHANGED vars
  BY <1>6 DEF pjon_broadcast_get_autoid, BecomeMaster, AskIds
<1>7. ASSUME NEW lost \in SUBSET (1 .. Len(pjon_id_list_)), AssignIds(lost)
      PROVE  UNCHANGED vars
  BY <1>7 DEF AssignIds
<1>8. ASSUME NEW o \in Others, OtherProbes(o) \/ OtherTakes(o) PROVE UNCHANGED vars
  BY <1>8 DEF OtherProbes, OtherTakes
<1>9. ASSUME NEW o \in Others, OtherAnswers(o) PROVE [Next]_vars
  <2>1. [id |-> 1, type |-> "PJONID_INFO", val |-> ids[o]] \in Accepted
    BY DEF IdsTypeOK
  <2> QED
    BY <1>9, <2>1 DEF OtherAnswers, Next
<1>10. UNCHANGED idsVars => UNCHANGED vars
  BY DEF idsVars
<1> QED
  BY <1>1, <1>2, <1>3, <1>4, <1>5, <1>6, <1>7, <1>8, <1>9, <1>10, Zenon DEF IdsNext

-----------------------------------------------------------------------------
(***************************************************************************)
(* Types.  That the open position is one the program was built with or was *)
(* given is what makes it fit into a byte, so that Inv is needed here.     *)
(***************************************************************************)

\* The types of the settings, of their copies and of what is known of them.
SettingsTypes ==
    /\ pjon_device_id_ \in ValidIds
    /\ damper_open_pos_ \in OpenPositions \cup {DEFAULT_OPEN_POS}
    /\ damper_installed_ \in 0 .. 7
    /\ eeprom \in Bytes /\ flash \in Bytes
    /\ given \subseteq OpenPositions \X {"open"} \cup InstalledSets \X {"installed"}

\* The types of the rest.
OtherTypes ==
    /\ pjon_id_list_ \in Seq(ValidIds \cup {BROADCAST})
    /\ Len(pjon_id_list_) <= PJON_ID_LIST_LEN
    /\ doing \in {"off", "loop", "auto", "ask"}
    /\ ids \in [Others -> ValidIds] /\ probed \in [Others -> ValidIds \cup {0}]
    /\ toAcquire \subseteq Others /\ toAnswer \subseteq Others
    /\ undisturbed \in BOOLEAN
    /\ requests \in 0 .. MaxRequests

\* The open position is never more than its types say.
LEMMA TypesTogether ==
  /\ TypeOK /\ SettingsTypes /\ OtherTypes => IdsTypeOK
  /\ IdsTypeOK /\ Inv => TypeOK /\ SettingsTypes /\ OtherTypes
<1>1. ASSUME IdsTypeOK, Inv
      PROVE  damper_open_pos_ \in OpenPositions \cup {DEFAULT_OPEN_POS}
  <2>1. <<damper_open_pos_, "open">> \in given \cup {<<DEFAULT_OPEN_POS, "open">>}
    BY <1>1 DEF Inv, SettingsAreSomebodys
  <2>2. given \subseteq OpenPositions \X {"open"} \cup InstalledSets \X {"installed"}
    BY <1>1 DEF IdsTypeOK
  <2> QED
    BY <2>1, <2>2
<1>2. OpenPositions \cup {DEFAULT_OPEN_POS} \subseteq 0 .. 255
  BY IdsAssumption
<1>3. TypeOK /\ SettingsTypes /\ OtherTypes => IdsTypeOK
  BY <1>2, Zenon DEF SettingsTypes, OtherTypes, IdsTypeOK
<1>4. IdsTypeOK /\ Inv => TypeOK /\ SettingsTypes /\ OtherTypes
  BY <1>1, Zenon DEF SettingsTypes, OtherTypes, IdsTypeOK
<1> QED
  BY <1>3, <1>4

\* settings.cpp:65-79: what is saved is a block of bytes.
LEMMA BlockBytes ==
  ASSUME NEW b \in Bytes, NEW id \in ValidIds,
         NEW open \in OpenPositions \cup {DEFAULT_OPEN_POS}, NEW installed \in 0 .. 7
  PROVE  [b EXCEPT !.id = id, !.num = NUM_DAMPER, !.open = open,
                   !.installed = installed] \in Bytes
  BY DEF Bytes

\* The same of what the code saves.
LEMMA SavedBytes ==
  ASSUME eeprom \in Bytes, NEW id \in ValidIds,
         NEW open \in OpenPositions \cup {DEFAULT_OPEN_POS}, NEW installed \in 0 .. 7
  PROVE  Saved(id, open, installed) \in Bytes
  BY BlockBytes DEF Saved

\* settings.cpp:37-63,82-114: what is read at the start is of its type.
LEMMA LoadedTypes ==
  ASSUME flash \in Bytes, NothingCommitted
  PROVE  /\ eeprom_init \in Bytes
         /\ eeprom_load_settings(eeprom_init).open \in OpenPositions \cup {DEFAULT_OPEN_POS}
         /\ eeprom_load_settings(eeprom_init).installed \in 0 .. 7
<1>1. eeprom_init \in Bytes
  BY DEF eeprom_init, Bytes, ValidIds, NOT_ASSIGNED
<1> QED
  BY <1>1, LoadsDefaults

\* settings.cpp, main.cpp:486-502: a restart.
LEMMA StartTypes ==
  ASSUME SettingsTypes, OtherTypes, NothingCommitted, NEW id \in ValidIds, Start(id)
  PROVE  SettingsTypes' /\ OtherTypes'
<1> DEFINE e == eeprom_init
           s == eeprom_load_settings(e)
<1>1. /\ pjon_device_id_' = id
      /\ damper_open_pos_' = s.open /\ damper_installed_' = s.installed
      /\ flash' = FlashAfterInit /\ UNCHANGED given
      /\ eeprom' = IF e.id # id
                   THEN [e EXCEPT !.id = id, !.num = NUM_DAMPER, !.open = s.open,
                                  !.installed = s.installed]
                   ELSE e
  BY DEF Start
<1>2. e \in Bytes /\ s.open \in OpenPositions \cup {DEFAULT_OPEN_POS} /\ s.installed \in 0 .. 7
  BY LoadedTypes DEF SettingsTypes
<1> HIDE DEF e, s
<1>3. eeprom' \in Bytes
  <2>1. [e EXCEPT !.id = id, !.num = NUM_DAMPER, !.open = s.open,
                  !.installed = s.installed] \in Bytes
    <3>1. \A open \in OpenPositions \cup {DEFAULT_OPEN_POS}, installed \in 0 .. 7 :
             [e EXCEPT !.id = id, !.num = NUM_DAMPER, !.open = open,
                       !.installed = installed] \in Bytes
      BY <1>2, BlockBytes
    <3> QED
      BY <1>2, <3>1
  <2>2. CASE e.id = id
    BY <1>1, <1>2, <2>2, Zenon
  <2>3. CASE e.id # id
    BY <1>1, <2>1, <2>3, Zenon
  <2> QED
    BY <2>2, <2>3, Zenon
<1>4. flash' \in Bytes
  BY <1>1 DEF SettingsTypes, Bytes, FlashAfterInit
<1>5. SettingsTypes'
  BY <1>1, <1>2, <1>3, <1>4, Zenon DEF SettingsTypes
<1>6. requests' \in 0 .. MaxRequests
  BY IdsAssumption DEF Start, Request, OtherTypes
<1>7. /\ pjon_id_list_' = << >> /\ doing' = "loop" /\ undisturbed' = FALSE
      /\ UNCHANGED bus
  BY DEF Start
<1>8. << >> \in Seq(ValidIds \cup {BROADCAST}) /\ Len(<< >>) <= PJON_ID_LIST_LEN
  BY IdsAssumption
<1>9. OtherTypes'
  BY <1>6, <1>7, <1>8, Zenon DEF OtherTypes, bus
<1> QED
  BY <1>5, <1>9

\* comm.cpp:120-125, settings.cpp:116-123,main.cpp: settings that are given.
LEMMA GivenTypes ==
  ASSUME SettingsTypes
  PROVE  /\ \A id \in ValidIds :
               pjon_change_deviceid(id) /\ UNCHANGED given => SettingsTypes'
         /\ \A open \in OpenPositions : updateSettingsFromPacket(open) => SettingsTypes'
         /\ \A installed \in InstalledSets :
               updateInstalledDampersFromChar(installed) => SettingsTypes'
<1> USE DEF SettingsTypes
<1>1. ASSUME NEW id \in ValidIds, pjon_change_deviceid(id), UNCHANGED given
      PROVE  SettingsTypes'
  <2>1. eeprom' \in Bytes
    BY <1>1, SavedBytes DEF pjon_change_deviceid
  <2> QED
    BY <1>1, <2>1, Zenon DEF pjon_change_deviceid
<1>2. ASSUME NEW open \in OpenPositions, updateSettingsFromPacket(open)
      PROVE  SettingsTypes'
  <2>1. eeprom' \in Bytes
    BY <1>2, SavedBytes DEF updateSettingsFromPacket
  <2>2. given' \subseteq OpenPositions \X {"open"} \cup InstalledSets \X {"installed"}
    BY <1>2 DEF updateSettingsFromPacket
  <2> QED
    BY <1>2, <2>1, <2>2, Zenon DEF updateSettingsFromPacket
<1>3. ASSUME NEW installed \in InstalledSets, updateInstalledDampersFromChar(installed)
      PROVE  SettingsTypes'
  <2>1. installed \in 0 .. 7
    BY IdsAssumption
  <2>2. eeprom' \in Bytes
    BY <1>3, <2>1, SavedBytes DEF updateInstalledDampersFromChar
  <2>3. given' \subseteq OpenPositions \X {"open"} \cup InstalledSets \X {"installed"}
    BY <1>3 DEF updateInstalledDampersFromChar
  <2> QED
    BY <1>3, <2>1, <2>2, <2>3, Zenon DEF updateInstalledDampersFromChar
<1> QED
  BY <1>1, <1>2, <1>3

\* comm.cpp:100-115: a slot holds nothing or a message, whose type says what it carries.
LEMMA MessageTypes ==
  ASSUME NEW m \in Accepted
  PROVE  /\ m \in Messages /\ TypeOf(m) = m.type
         /\ m.id \in ValidIds \cup {BROADCAST}
         /\ m.type = "UPDATESETTINGS" => m.val \in OpenPositions
         /\ m.type = "PJONID_SET" => m.val \in ValidIds
         /\ m.type \in {"PJONID_SET", "PJONID_DOAUTO", "PJONID_INFO"} => m \in IdMessages
<1>1. m \in Messages /\ m # Empty
  BY MessagesAssumption, BufferAssumption
<1>2. m \in IdMessages \/ m \in Message({"UPDATESETTINGS"}, OpenPositions)
      \/ m \in Message({"WRONGLENGTH"}, {0})
  BY <1>1, Zenon DEF Messages
<1>3. CASE m \in IdMessages
  BY <1>1, <1>3 DEF IdMessages, Message, TypeOf
<1>4. CASE m \in Message({"UPDATESETTINGS"}, OpenPositions)
  BY <1>1, <1>4 DEF Message, TypeOf
<1>5. CASE m \in Message({"WRONGLENGTH"}, {0})
  BY <1>1, <1>5 DEF Message, TypeOf
<1> QED
  BY <1>2, <1>3, <1>4, <1>5

\* comm.cpp:52-56: the list takes one more, or none.
LEMMA ListGrows ==
  ASSUME NEW V, pjon_id_list_ \in Seq(V), Len(pjon_id_list_) <= PJON_ID_LIST_LEN,
         NEW id \in V, pjoinidlist_add(id)
  PROVE  pjon_id_list_' \in Seq(V) /\ Len(pjon_id_list_') <= PJON_ID_LIST_LEN
<1>1. CASE Len(pjon_id_list_) < PJON_ID_LIST_LEN
  <2>1. pjon_id_list_' = Append(pjon_id_list_, id)
    BY <1>1 DEF pjoinidlist_add
  <2> QED
    BY <1>1, <2>1, IdsAssumption
<1>2. CASE ~(Len(pjon_id_list_) < PJON_ID_LIST_LEN)
  BY <1>2 DEF pjoinidlist_add
<1> QED
  BY <1>1, <1>2

\* comm.cpp:304-346: whatever message a pass finds.
LEMMA HandleTypes ==
  ASSUME TypeOK, SettingsTypes, OtherTypes, Handle
  PROVE  SettingsTypes' /\ OtherTypes'
<1> DEFINE m == pjon_msgbuf_[SlotOf(cc)]
<1>1. Dispatch(m) /\ UNCHANGED <<doing, bus, undisturbed, requests>>
  BY DEF Handle
<1>2. m \in Accepted \cup {Empty}
  <2>1. SlotOf(cc) \in Slots
    BY Remainder, BufferAssumption DEF TypeOK, Slots, SlotOf
  <2> QED
    BY <2>1 DEF TypeOK
<1> HIDE DEF m
<1>3. CASE UNCHANGED <<ram, store, pjon_id_list_, given>>
  BY <1>1, <1>3, Zenon DEF SettingsTypes, OtherTypes, ram, store, bus
<1>4. ASSUME TypeOf(m) = "UPDATESETTINGS", updateSettingsFromPacket(m.val),
             UNCHANGED pjon_id_list_
      PROVE  SettingsTypes' /\ OtherTypes'
  <2>1. m.val \in OpenPositions
    BY <1>2, <1>4, MessageTypes DEF TypeOf
  <2>2. SettingsTypes'
    BY <1>4, <2>1, GivenTypes
  <2> QED
    BY <1>1, <1>4, <2>2, Zenon DEF OtherTypes, bus
<1>5. ASSUME TypeOf(m) = "PJONID_INFO", pjoinidlist_add(ListedId(m)),
             UNCHANGED <<ram, store, given>>
      PROVE  SettingsTypes' /\ OtherTypes'
  <2>1. ListedId(m) \in ValidIds \cup {BROADCAST}
    BY <1>2, <1>5, MessageTypes DEF TypeOf, ListedId
  <2>2. /\ pjon_id_list_' \in Seq(ValidIds \cup {BROADCAST})
        /\ Len(pjon_id_list_') <= PJON_ID_LIST_LEN
    BY <1>5, <2>1, ListGrows DEF OtherTypes
  <2> QED
    BY <1>1, <1>5, <2>2, Zenon DEF SettingsTypes, OtherTypes, ram, store, bus
<1>6. ASSUME TypeOf(m) = "PJONID_SET", pjon_change_deviceid(m.val),
             UNCHANGED <<pjon_id_list_, given>>
      PROVE  SettingsTypes' /\ OtherTypes'
  <2>1. m.val \in ValidIds
    BY <1>2, <1>6, MessageTypes DEF TypeOf
  <2>2. SettingsTypes'
    BY <1>6, <2>1, GivenTypes
  <2> QED
    BY <1>1, <1>6, <2>2, Zenon DEF OtherTypes, bus
<1>7. ASSUME pjon_device_id_' \in Acquired(IdsOf(Others)),
             UNCHANGED <<damper_open_pos_, damper_installed_, store, pjon_id_list_, given>>
      PROVE  SettingsTypes' /\ OtherTypes'
  <2>1. pjon_device_id_' \in ValidIds
    BY <1>7, Zenon DEF Acquired, ValidIds
  <2> QED
    BY <1>1, <1>7, <2>1, Zenon DEF SettingsTypes, OtherTypes, store, bus
<1> QED
  BY <1>1, <1>3, <1>4, <1>5, <1>6, <1>7, Zenon DEF Dispatch

\* What people ask for stays within the bound.
LEMMA RequestTypes == OtherTypes /\ Request => requests' \in 0 .. MaxRequests
  BY IdsAssumption DEF OtherTypes, Request

\* The console, the bus and the neighbours.
LEMMA OtherStepTypes ==
  ASSUME SettingsTypes, OtherTypes
  PROVE  /\ \A id \in ValidIds : SetId(id) => SettingsTypes' /\ OtherTypes'
         /\ \A m \in ForeignMessages : Foreign(m) => SettingsTypes' /\ OtherTypes'
         /\ Pass => SettingsTypes' /\ OtherTypes'
         /\ \A installed \in InstalledSets :
               SetInstalled(installed) => SettingsTypes' /\ OtherTypes'
         /\ \A S \in SUBSET Others :
               pjon_broadcast_get_autoid(S) \/ BecomeMaster(S) \/ AskIds(S)
                  => SettingsTypes' /\ OtherTypes'
         /\ \A lost : AssignIds(lost) => SettingsTypes' /\ OtherTypes'
         /\ \A o \in Others :
               OtherProbes(o) \/ OtherTakes(o) \/ OtherAnswers(o)
                  => SettingsTypes' /\ OtherTypes'
         /\ UNCHANGED idsVars => SettingsTypes' /\ OtherTypes'
<1>1. ASSUME NEW id \in ValidIds, SetId(id) PROVE SettingsTypes' /\ OtherTypes'
  <2>1. SettingsTypes'
    BY <1>1, GivenTypes DEF SetId
  <2>2. OtherTypes'
    BY <1>1, RequestTypes, Zenon DEF SetId, OtherTypes, bus
  <2> QED
    BY <2>1, <2>2
<1>2. ASSUME NEW m \in ForeignMessages, Foreign(m) PROVE SettingsTypes' /\ OtherTypes'
  <2>1. SettingsTypes'
    BY <1>2, Zenon DEF Foreign, SettingsTypes, ram, store
  <2>2. undisturbed' \in BOOLEAN
    BY <1>2, Zenon DEF Foreign
  <2>3. OtherTypes'
    BY <1>2, <2>2, RequestTypes, Zenon DEF Foreign, OtherTypes, bus
  <2> QED
    BY <2>1, <2>3
<1>3. CASE Pass
  BY <1>3, Zenon DEF Pass, SettingsTypes, OtherTypes, ram, store, bus, seen
<1>4. ASSUME NEW installed \in InstalledSets, SetInstalled(installed)
      PROVE  SettingsTypes' /\ OtherTypes'
  <2>1. SettingsTypes'
    BY <1>4, GivenTypes DEF SetInstalled
  <2>2. OtherTypes'
    BY <1>4, RequestTypes, Zenon DEF SetInstalled, OtherTypes, bus
  <2> QED
    BY <2>1, <2>2
<1>5. ASSUME NEW S \in SUBSET Others, pjon_broadcast_get_autoid(S)
      PROVE  SettingsTypes' /\ OtherTypes'
  <2>1. toAcquire' \subseteq Others
    BY <1>5 DEF pjon_broadcast_get_autoid, OtherTypes
  <2> QED
    BY <1>5, <2>1, RequestTypes, Zenon
       DEF pjon_broadcast_get_autoid, SettingsTypes, OtherTypes, ram, store
<1>6. ASSUME NEW S \in SUBSET Others, BecomeMaster(S)
      PROVE  SettingsTypes' /\ OtherTypes'
  <2>1. 1 \in ValidIds
    BY IdsAssumption DEF ValidIds
  <2>2. SettingsTypes'
    BY <1>6, <2>1, GivenTypes DEF BecomeMaster
  <2>3. toAcquire' \subseteq Others
    BY <1>6 DEF BecomeMaster, OtherTypes
  <2>4. undisturbed' \in BOOLEAN
    BY <1>6, Zenon DEF BecomeMaster
  <2>5. OtherTypes'
    BY <1>6, <2>3, <2>4, RequestTypes, Zenon DEF BecomeMaster, OtherTypes
  <2> QED
    BY <2>2, <2>5
<1>7. ASSUME NEW S \in SUBSET Others, AskIds(S)
      PROVE  SettingsTypes' /\ OtherTypes'
  <2>1. toAnswer' \subseteq Others
    BY <1>7 DEF AskIds, OtherTypes
  <2>2. << >> \in Seq(ValidIds \cup {BROADCAST}) /\ Len(<< >>) <= PJON_ID_LIST_LEN
    BY IdsAssumption
  <2> QED
    BY <1>7, <2>1, <2>2, Zenon DEF AskIds, SettingsTypes, OtherTypes, ram, store, seen
<1>8. ASSUME NEW lost, AssignIds(lost) PROVE SettingsTypes' /\ OtherTypes'
  <2>1. /\ pjon_id_list_' \in Seq(ValidIds \cup {BROADCAST})
        /\ Len(pjon_id_list_') = Len(pjon_id_list_)
    BY <1>8, SortedKeeps DEF AssignIds, OtherTypes
  <2>2. Len(pjon_id_list_') \in 0 .. PJON_ID_LIST_LEN
    BY <2>1, IdsAssumption DEF OtherTypes
  <2>3. ids' \in [Others -> ValidIds]
    BY <1>8, <2>2, RenumberedIds DEF AssignIds, OtherTypes
  <2> QED
    BY <1>8, <2>1, <2>3, Zenon DEF AssignIds, SettingsTypes, OtherTypes, ram, store
<1>9. ASSUME NEW o \in Others, OtherProbes(o) \/ OtherTakes(o)
      PROVE  SettingsTypes' /\ OtherTypes'
  <2>1. CASE OtherProbes(o)
    <3>1. ids' \in [Others -> ValidIds] /\ probed' \in [Others -> ValidIds \cup {0}]
      BY <2>1 DEF OtherProbes, OtherTypes, Acquired, ValidIds
    <3>2. toAcquire' \subseteq Others
      BY <2>1 DEF OtherProbes, OtherTypes
    <3> QED
      BY <2>1, <3>1, <3>2, Zenon DEF OtherProbes, SettingsTypes, OtherTypes, ram, store, seen
  <2>2. CASE OtherTakes(o)
    <3>1. ids' \in [Others -> ValidIds] /\ probed' \in [Others -> ValidIds \cup {0}]
      BY <2>2 DEF OtherTakes, OtherTypes
    <3> QED
      BY <2>2, <3>1, Zenon DEF OtherTakes, SettingsTypes, OtherTypes, ram, store, seen
  <2> QED
    BY <1>9, <2>1, <2>2
<1>10. ASSUME NEW o \in Others, OtherAnswers(o) PROVE SettingsTypes' /\ OtherTypes'
  <2>1. toAnswer' \subseteq Others
    BY <1>10 DEF OtherAnswers, OtherTypes
  <2> QED
    BY <1>10, <2>1, Zenon DEF OtherAnswers, SettingsTypes, OtherTypes, ram, store, seen
<1>11. CASE UNCHANGED idsVars
  BY <1>11, Zenon DEF idsVars, SettingsTypes, OtherTypes, ram, store, bus, seen
<1> QED
  BY <1>1, <1>2, <1>3, <1>4, <1>5, <1>6, <1>7, <1>8, <1>9, <1>10, <1>11

\* Every step keeps the types, given that the settings are somebody's.
LEMMA IdsStepTypes == IdsTypeOK /\ Inv /\ [IdsNext]_idsVars => IdsTypeOK'
<1> SUFFICES ASSUME IdsTypeOK, Inv, [IdsNext]_idsVars PROVE IdsTypeOK'
  OBVIOUS
<1>1. TypeOK /\ SettingsTypes /\ OtherTypes
  BY TypesTogether
<1>2. TypeOK'
  BY <1>1, BufferWithin, StepTypes
<1>3. SettingsTypes' /\ OtherTypes'
  <2>1. ASSUME NEW id \in ValidIds, Start(id) PROVE SettingsTypes' /\ OtherTypes'
    BY <1>1, <2>1, StartTypes DEF Inv
  <2>2. CASE Handle
    BY <1>1, <2>2, HandleTypes
  <2> QED
    BY <1>1, <2>1, <2>2, OtherStepTypes, Zenon DEF IdsNext
<1>4. damper_open_pos_' \in 0 .. 255
  BY <1>3, IdsAssumption DEF SettingsTypes
<1> QED
  BY <1>2, <1>3, <1>4, Zenon DEF SettingsTypes, OtherTypes, IdsTypeOK

\* A new chip has the types.
LEMMA IdsInitTypes == IdsInit => IdsTypeOK
<1> SUFFICES ASSUME IdsInit PROVE IdsTypeOK
  OBVIOUS
<1>1. TypeOK
  BY InitTypes DEF IdsInit
<1>2. SettingsTypes
  BY DEF IdsInit, SettingsTypes, Bytes, ValidIds, NOT_ASSIGNED
<1>3. ids \in [Others -> ValidIds] /\ probed \in [Others -> ValidIds \cup {0}]
  BY DEF IdsInit, ValidIds
<1>4. /\ << >> \in Seq(ValidIds \cup {BROADCAST}) /\ Len(<< >>) <= PJON_ID_LIST_LEN
      /\ 0 \in 0 .. MaxRequests
  BY IdsAssumption
<1>5. OtherTypes
  BY <1>3, <1>4 DEF IdsInit, OtherTypes
<1> QED
  BY <1>1, <1>2, <1>5, TypesTogether

\* comm.cpp, settings.cpp: id, settings, both their copies, the list of ids and what the
\* neighbours hold have their types whoever says what; saved settings always fit.
THEOREM IdsTypeCorrect == IdsSpec => []IdsTypeOK
  BY IdsInitTypes, IdsStepTypes, Invariant, PTL DEF IdsSpec

\* comm.cpp:93-115,279-309: the round buffer of this very program, with all that puts
\* messages into it, is the queue that gives up its oldest message.
THEOREM MessagesAreQueued == IdsSpec => BufferIsQueue
<1>1. IdsInit => BufferInv /\ Queue!Init
  BY InitInv DEF IdsInit
<1>2. IdsTypeOK /\ BufferInv /\ [IdsNext]_idsVars
        => BufferInv' /\ [Queue!Next]_<<Waiting, postrecv>>
  BY BufferWithin, BufferStep
<1> QED
  BY <1>1, <1>2, IdsTypeCorrect, PTL DEF IdsSpec, BufferIsQueue, Queue!Spec

-----------------------------------------------------------------------------
(***************************************************************************)
(* There is one number 1: from the moment everybody has heard DOAUTO, those *)
(* who have begun to act on it neither are nor will be number 1, and        *)
(* nothing but answers, sent to number 1, reaches the list.  That list      *)
(* then names number 1 only, so that nobody is told to change his id.       *)
(***************************************************************************)

\* The answer of a neighbour, as it lies in a slot.
IsAnswer(m) == TypeOf(m) = "PJONID_INFO" /\ m.id = 1

\* While a renumbering goes on undisturbed.
SoleMaster ==
    undisturbed =>
        /\ pjon_device_id_ = 1 /\ doing \in {"auto", "ask"}
        /\ \A s \in Slots :
              pjon_msgbuf_[s] \in Accepted \cap IdMessages => IsAnswer(pjon_msgbuf_[s])
        /\ doing = "ask" => \A k \in 1 .. Len(pjon_id_list_) : pjon_id_list_[k] = 1
        /\ \A o \in Others \ toAcquire : ids[o] # 1 /\ probed[o] # 1

\* comm.cpp:304-346: a pass over answers and what is not about ids.
LEMMA SoleByHandle ==
  ASSUME IdsTypeOK, SoleMaster, Handle
  PROVE  SoleMaster'
<1> SUFFICES ASSUME undisturbed
             PROVE  SoleMaster'
  BY Zenon DEF SoleMaster, Handle
<1> DEFINE m == pjon_msgbuf_[SlotOf(cc)]
<1>1. /\ Dispatch(m) /\ UNCHANGED <<doing, bus>>
      /\ pjon_msgbuf_' = [pjon_msgbuf_ EXCEPT ![SlotOf(cc)] = Empty]
  BY DEF Handle, pjon_postrecv_handle_msg
<1>2. m \in Accepted \cup {Empty} /\ (m \in Accepted \cap IdMessages => IsAnswer(m))
  <2>1. TypeOK
    BY DEF IdsTypeOK
  <2>2. SlotOf(cc) \in Slots
    BY <2>1, Remainder, BufferAssumption DEF TypeOK, Slots, SlotOf
  <2> QED
    BY <2>1, <2>2 DEF TypeOK, SoleMaster
<1> HIDE DEF m
<1>3. /\ TypeOf(m) \notin {"PJONID_SET", "PJONID_DOAUTO"}
      /\ TypeOf(m) = "PJONID_INFO" => ListedId(m) = 1
  BY <1>2, MessageTypes DEF TypeOf, IsAnswer, ListedId
<1>4. pjon_device_id_' = 1
  BY <1>1, <1>3, Zenon DEF Dispatch, SoleMaster, ram, updateSettingsFromPacket
<1>5. ASSUME NEW s \in Slots, pjon_msgbuf_'[s] \in Accepted \cap IdMessages
      PROVE  IsAnswer(pjon_msgbuf_'[s])
  <2>1. s # SlotOf(cc)
    <3>1. pjon_msgbuf_'[s] # Empty
      BY <1>5, BufferAssumption
    <3>2. s = SlotOf(cc) => pjon_msgbuf_'[s] = Empty
      BY <1>1 DEF IdsTypeOK, TypeOK
    <3> QED
      BY <3>1, <3>2
  <2>2. pjon_msgbuf_'[s] = pjon_msgbuf_[s]
    BY <1>1, <2>1 DEF IdsTypeOK, TypeOK
  <2> QED
    BY <1>5, <2>2, Zenon DEF SoleMaster
<1>6. ASSUME doing = "ask", NEW k \in 1 .. Len(pjon_id_list_')
      PROVE  pjon_id_list_'[k] = 1
  <2>1. /\ pjon_id_list_ \in Seq(ValidIds \cup {BROADCAST})
        /\ \A j \in 1 .. Len(pjon_id_list_) : pjon_id_list_[j] = 1
    BY <1>6 DEF SoleMaster, IdsTypeOK
  <2>2. UNCHANGED pjon_id_list_ \/ pjon_id_list_' = Append(pjon_id_list_, 1)
    BY <1>1, <1>3, Zenon DEF Dispatch, pjoinidlist_add
  <2>3. ASSUME pjon_id_list_' = Append(pjon_id_list_, 1) PROVE pjon_id_list_'[k] = 1
    <3>1. Len(pjon_id_list_') = Len(pjon_id_list_) + 1 /\ Len(pjon_id_list_) \in Nat
      BY <2>1, <2>3
    <3> QED
      BY <2>1, <2>3, <3>1
  <2> QED
    BY <2>1, <2>2, <2>3
<1> QED
  BY <1>1, <1>4, <1>5, <1>6, Zenon DEF SoleMaster, bus

\* comm.cpp:93-115: what lies in the buffer after one more message.
LEMMA SoleBuffer ==
  ASSUME IdsTypeOK, NEW m, m \in Accepted \cap IdMessages => IsAnswer(m),
         pjon_recv_handler(m),
         \A s \in Slots :
             pjon_msgbuf_[s] \in Accepted \cap IdMessages => IsAnswer(pjon_msgbuf_[s])
  PROVE  \A s \in Slots :
             pjon_msgbuf_'[s] \in Accepted \cap IdMessages => IsAnswer(pjon_msgbuf_'[s])
<1> SUFFICES ASSUME NEW s \in Slots
             PROVE  pjon_msgbuf_'[s] = m \/ pjon_msgbuf_'[s] = pjon_msgbuf_[s]
  BY Zenon
<1> QED
  BY DEF pjon_recv_handler, IdsTypeOK, TypeOK

\* comm.cpp:116-125,391-427: every step of a renumbering, and whatever happens during one.
LEMMA SoleStep == IdsTypeOK /\ SoleMaster /\ [IdsNext]_idsVars => SoleMaster'
<1> SUFFICES ASSUME IdsTypeOK, SoleMaster, [IdsNext]_idsVars PROVE SoleMaster'
  OBVIOUS
<1>1. ASSUME NEW id \in ValidIds, Start(id) PROVE SoleMaster'
  BY <1>1, Zenon DEF Start, SoleMaster
<1>2. ASSUME NEW id \in ValidIds, SetId(id) PROVE SoleMaster'
  <2>1. ~undisturbed /\ undisturbed' = undisturbed
    BY <1>2 DEF SetId, AtConsole, SoleMaster
  <2> QED
    BY <2>1 DEF SoleMaster
<1>3. ASSUME NEW m \in ForeignMessages, Foreign(m) PROVE SoleMaster'
  <2> SUFFICES ASSUME undisturbed, m \notin IdMessages PROVE SoleMaster'
    BY <1>3, Zenon DEF Foreign, SoleMaster
  <2>1. \A s \in Slots :
            pjon_msgbuf_'[s] \in Accepted \cap IdMessages => IsAnswer(pjon_msgbuf_'[s])
    BY <1>3, SoleBuffer DEF Foreign, SoleMaster
  <2> QED
    BY <1>3, <2>1, Zenon DEF Foreign, SoleMaster, ram, bus
<1>4. CASE Handle
  BY <1>4, SoleByHandle
<1>5. CASE Pass
  <2>1. UNCHANGED <<pjon_msgbuf_, ram, store, pjon_id_list_, doing, bus, seen>>
    BY <1>5 DEF Pass, StartPass, EndPass
  <2> QED
    BY <2>1, Zenon DEF SoleMaster, ram, bus, seen
<1>6. ASSUME NEW installed \in InstalledSets, SetInstalled(installed) PROVE SoleMaster'
  <2>1. ~undisturbed /\ undisturbed' = undisturbed
    BY <1>6 DEF SetInstalled, AtConsole, SoleMaster
  <2> QED
    BY <2>1 DEF SoleMaster
<1>7. ASSUME NEW S \in SUBSET Others, pjon_broadcast_get_autoid(S) PROVE SoleMaster'
  <2>1. ~undisturbed /\ undisturbed' = undisturbed
    BY <1>7 DEF pjon_broadcast_get_autoid, AtConsole, SoleMaster
  <2> QED
    BY <2>1 DEF SoleMaster
<1>8. ASSUME NEW S \in SUBSET Others, BecomeMaster(S) PROVE SoleMaster'
  <2> SUFFICES ASSUME undisturbed' PROVE SoleMaster'
    BY DEF SoleMaster
  <2>1. /\ pjon_device_id_' = 1 /\ doing' = "auto" /\ pjon_msgbuf_' = pjon_msgbuf_
        /\ S = Others /\ toAcquire' = toAcquire \cup S
        /\ \A s \in Slots : pjon_msgbuf_[s] \notin IdMessages
    BY <1>8 DEF BecomeMaster, pjon_change_deviceid, vars
  <2>2. Others \ toAcquire' = {}
    BY <2>1
  <2> QED
    BY <2>1, <2>2 DEF SoleMaster
<1>9. ASSUME NEW S \in SUBSET Others, AskIds(S) PROVE SoleMaster'
  <2>1. \A k \in 1 .. Len(pjon_id_list_') : pjon_id_list_'[k] = 1
    BY <1>9 DEF AskIds
  <2> QED
    BY <1>9, <2>1, Zenon DEF AskIds, SoleMaster, ram, seen, vars
<1>10. ASSUME NEW lost, AssignIds(lost) PROVE SoleMaster'
  BY <1>10 DEF AssignIds, SoleMaster
<1>11. ASSUME NEW o \in Others, OtherProbes(o) \/ OtherTakes(o) PROVE SoleMaster'
  <2> SUFFICES ASSUME undisturbed PROVE SoleMaster'
    BY <1>11, Zenon DEF OtherProbes, OtherTakes, SoleMaster, seen
  <2>1. ASSUME NEW q \in Others \ toAcquire' PROVE ids'[q] # 1 /\ probed'[q] # 1
    <3>1. CASE OtherProbes(o)
      <4>1. PICK id \in Acquired(IdsOf(Others \ {o}) \cup {pjon_device_id_}) :
                probed' = [probed EXCEPT ![o] = id]
        BY <3>1 DEF OtherProbes
      <4>2. id # 1
        BY <4>1 DEF Acquired, SoleMaster, NOT_ASSIGNED
      <4>3. ids' = [ids EXCEPT ![o] = NOT_ASSIGNED] /\ toAcquire' = toAcquire \ {o}
        BY <3>1 DEF OtherProbes
      <4>4. CASE q = o
        BY <4>1, <4>2, <4>3, <4>4 DEF IdsTypeOK, NOT_ASSIGNED
      <4>5. CASE q # o
        <5>1. q \in Others \ toAcquire /\ ids'[q] = ids[q] /\ probed'[q] = probed[q]
          BY <2>1, <4>1, <4>3, <4>5 DEF IdsTypeOK
        <5> QED
          BY <5>1 DEF SoleMaster
      <4> QED
        BY <4>4, <4>5
    <3>2. CASE OtherTakes(o)
      <4>1. /\ ids'[q] = (IF q = o THEN probed[o] ELSE ids[q])
            /\ probed'[q] = (IF q = o THEN 0 ELSE probed[q])
            /\ q \in Others \ toAcquire
        BY <2>1, <3>2 DEF OtherTakes, IdsTypeOK
      <4> QED
        BY <4>1 DEF SoleMaster
    <3> QED
      BY <1>11, <3>1, <3>2
  <2> QED
    BY <1>11, <2>1, Zenon DEF OtherProbes, OtherTakes, SoleMaster, ram, vars
<1>12. ASSUME NEW o \in Others, OtherAnswers(o) PROVE SoleMaster'
  <2> SUFFICES ASSUME undisturbed PROVE SoleMaster'
    BY <1>12, Zenon DEF OtherAnswers, SoleMaster, seen
  <2>1. pjon_recv_handler([id |-> 1, type |-> "PJONID_INFO", val |-> ids[o]])
    BY <1>12 DEF OtherAnswers, SoleMaster
  <2>2. \A s \in Slots :
            pjon_msgbuf_'[s] \in Accepted \cap IdMessages => IsAnswer(pjon_msgbuf_'[s])
    <3> DEFINE m == [id |-> 1, type |-> "PJONID_INFO", val |-> ids[o]]
    <3>1. m \in Accepted => IsAnswer(m)
      BY MessageTypes DEF IsAnswer
    <3> HIDE DEF m
    <3> QED
      BY <2>1, <3>1, SoleBuffer DEF SoleMaster, m
  <2> QED
    BY <1>12, <2>2, Zenon DEF OtherAnswers, SoleMaster, ram
<1>13. CASE UNCHANGED idsVars
  BY <1>13, Zenon DEF idsVars, vars, ram, bus, seen, SoleMaster
<1> QED
  BY <1>1, <1>2, <1>3, <1>4, <1>5, <1>6, <1>7, <1>8, <1>9, <1>10, <1>11, <1>12, <1>13,
     Zenon DEF IdsNext

\* comm.cpp:410-426: at the end of an undisturbed renumbering.
LEMMA OneMaster ==
  ASSUME IdsTypeOK, SoleMaster, NEW lost, AssignIds(lost), undisturbed, toAcquire = {}
  PROVE  pjon_device_id_' = 1 /\ \A o \in Others : ids'[o] # 1
<1>1. /\ doing = "ask" /\ pjon_id_list_' \in Sorted(pjon_id_list_)
      /\ ids' = Renumbered(pjon_id_list_', lost) /\ pjon_device_id_' = 1
  BY DEF AssignIds, WaitOver, SoleMaster, ram
<1>2. pjon_id_list_ \in Seq({1})
  BY <1>1 DEF SoleMaster, IdsTypeOK
<1>3. /\ Len(pjon_id_list_') \in Nat
      /\ \A k \in 1 .. Len(pjon_id_list_') : pjon_id_list_'[k] = 1
  BY <1>1, <1>2, SortedKeeps
<1>4. ids \in [Others -> ValidIds] /\ \A o \in Others : ids[o] # 1
  BY DEF SoleMaster, IdsTypeOK
<1>5. ids' = ids
  BY <1>1, <1>3, <1>4, RenumberedNobody
<1> QED
  BY <1>1, <1>4, <1>5

\* comm.cpp:391-427: of whatever number of neighbours and with whatever ids before, a
\* renumbering everybody has acted on leaves this controller the only number 1.
THEOREM OneMasterIsLeft == IdsSpec => RenumberingLeavesOneMaster
<1>1. IdsInit => SoleMaster
  BY DEF IdsInit, SoleMaster
<1>2. IdsTypeOK /\ SoleMaster /\ [IdsNext]_idsVars =>
          [(\E lost \in SUBSET (1 .. Len(pjon_id_list_)) : AssignIds(lost)) /\ ActedOn
            => pjon_device_id_' = 1 /\ \A o \in Others : ids'[o] # 1]_idsVars
  BY OneMaster DEF ActedOn
<1> QED
  BY <1>1, <1>2, SoleStep, IdsTypeCorrect, PTL DEF IdsSpec, RenumberingLeavesOneMaster
=============================================================================
