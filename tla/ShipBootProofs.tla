--------------------------- MODULE ShipBootProofs ---------------------------
(***************************************************************************)
(* Proofs about ShipBoot for every set of handlers, every choice of user   *)
(* actions, faults and crashes, and every bound.                           *)
(***************************************************************************)
EXTENDS ShipBoot, SequenceTheorems, TLAPS

(* Where an actor stands says what it is running. *)
StartLabels == {"sc_conf", "sc_apply", "sc_load", "sc_reset", "sc_script", "sc_find",
                "sc_switch", "sc_create", "sc_start"}
ExitOps == {"toggle-power", "export-ship", "pack-meld", "delete-ship", "restart-startram"}

OpAtLabel ==
    \A a \in Actors :
        /\ pc[a] \in {"exit", "stop"} => op[a] \in ExitOps
        /\ pc[a] = "w_off" => op[a] \in {"toggle-power", "export-ship"}
        /\ pc[a] = "status" => op[a] \in {"pack", "pack-meld", "restart-startram"}
        /\ pc[a] = "gs_stop" => op[a] = "delete-ship"
        /\ pc[a] \in {"sc_reset", "sc_script"} => cand[a].boot \in Bootable

(* The event loop calls nothing but StartContainer, and only for a stop. *)
LoopControl ==
    /\ pc[EL] \in {"idle", "done", "ev_write"} \cup StartLabels
    /\ pc[EL] = "ev_write" => op[EL] \in EventNames
    /\ pc[EL] \in StartLabels => op[EL] = "stop"
    /\ ret[EL] = "done"

IInv == TypeOK /\ OpAtLabel /\ LoopControl
-----------------------------------------------------------------------------
(* Facts about the data.                                                   *)

LEMMA ActorFacts ==
    EL \in Actors /\ Loader \in Actors /\ Handlers \subseteq Actors /\ EL \notin Handlers
  BY ShipBootAssumption DEF Actors

LEMMA EntryLabel ==
    ASSUME NEW o \in AllOps, NEW c \in Conf
    PROVE  /\ Entry(o, c) \in Labels
           /\ Entry(o, c) \notin {"exit", "stop", "sc_reset", "sc_script"}
           /\ Entry(o, c) = "w_off" => o \in {"toggle-power", "export-ship"}
           /\ Entry(o, c) = "status" => o \in {"pack", "pack-meld", "restart-startram"}
           /\ Entry(o, c) = "gs_stop" => o = "delete-ship"
  BY DEF AllOps, Entry, Labels

LEMMA ZeroConfs == ZeroConf \in Conf /\ Absent \in Conf /\ Torn \in Conf
  <1>1. 0 \in 0..MaxVersion
    BY ShipBootAssumption
  <1> QED
    BY <1>1 DEF ZeroConf, Absent, Torn, Conf, BootStatuses

LEMMA BootUpdate ==
    ASSUME NEW c \in Conf
    PROVE  \A b \in BootStatuses : [c EXCEPT !.boot = b] \in Conf
  BY DEF Conf

LEMMA VersionUpdate ==
    ASSUME NEW c \in Conf
    PROVE  \A v \in 0..MaxVersion : [c EXCEPT !.ver = v] \in Conf
  BY DEF Conf

LEMMA SettingUpdates ==
    ASSUME NEW c \in Conf
    PROVE  /\ [c EXCEPT !.net = IF @ = "wireguard" THEN "bridge" ELSE "wireguard"] \in Conf
           /\ [c EXCEPT !.args = ~@] \in Conf
           /\ [c EXCEPT !.web = ~@] \in Conf
  BY DEF Conf

LEMMA UrbitConfType == ASSUME TypeOK PROVE UrbitConf \in Conf
  BY ZeroConfs DEF TypeOK, UrbitConf

LEMMA NoContainerType == NoContainer \in Container
  <1>1. 0 \in 0..MaxVersion
    BY ShipBootAssumption
  <1> QED
    BY <1>1 DEF NoContainer, Container

LEMMA NewContainerType ==
    ASSUME latest \in 1..MaxVersion, NEW c \in Conf
    PROVE  NewContainer(c) \in Container /\ NewContainer(c).st = "created"
  <1>1. latest \in 0..MaxVersion
    BY ShipBootAssumption
  <1> QED
    BY <1>1 DEF NewContainer, Container, Conf

LEMMA ContainerUpdates ==
    ASSUME NEW c \in Container
    PROVE  /\ [c EXCEPT !.leaving = TRUE] \in Container
           /\ [c EXCEPT !.st = "exited", !.leaving = FALSE] \in Container
           /\ \A r \in Bootable \cup {""} :
                [c EXCEPT !.st = "running", !.run = r, !.leaving = FALSE] \in Container
  BY DEF Container, Bootable

LEMMA StateTypes ==
    /\ NoState \in State
    /\ \A d \in {"running", "stopped", "died"}, s \in {"running", "stopped", "died"} :
            [desired |-> d, actual |-> s] \in State
    /\ \A g \in State : /\ [g EXCEPT !.desired = "stopped"] \in State
                        /\ [g EXCEPT !.actual = "stopped"] \in State
                        /\ [g EXCEPT !.actual = "running"] \in State
  BY DEF NoState, State

LEMMA EventSeqs ==
    /\ <<"die">> \in Seq(EventNames) /\ Len(<<"die">>) = 1
    /\ <<"start">> \in Seq(EventNames) /\ Len(<<"start">>) = 1
    /\ <<"die", "stop">> \in Seq(EventNames) /\ Len(<<"die", "stop">>) = 2
  BY DEF EventNames

LEMMA EmitType ==
    ASSUME TypeOK, NEW s \in Seq(EventNames), Room(Len(s)), Emit(s)
    PROVE  events' \in Seq(EventNames) /\ Len(events') <= MaxEvents
  <1>1. events \in Seq(EventNames)
    BY DEF TypeOK
  <1>2. events' \in Seq(EventNames) /\ Len(events') = Len(events) + Len(s)
    BY <1>1, ConcatProperties DEF Emit
  <1> QED
    BY <1>2 DEF Room

LEMMA EmitDieType ==
    ASSUME TypeOK, EmitDie
    PROVE  events' \in Seq(EventNames) /\ Len(events') <= MaxEvents
  <1>1. CASE Running
    BY <1>1, EmitType, EventSeqs DEF EmitDie
  <1>2. CASE ~Running
    BY <1>2 DEF EmitDie, TypeOK
  <1> QED
    BY <1>1, <1>2

LEMMA GotoType ==
    ASSUME TypeOK, NEW a \in Actors, NEW l \in Labels, Goto(a, l)
    PROVE  pc' \in [Actors -> Labels]
  <1>1. pc \in [Actors -> Labels]
    BY DEF TypeOK
  <1> QED
    BY <1>1 DEF Goto

LEMMA ExitLabel ==
    ASSUME NEW o \in ExitOps
    PROVE  AfterExit(o) \in {"done", "w_pack", "rm"}
  BY DEF ExitOps, AfterExit

RetLabels == {"done", "w_last", "wait_pack", "wait_meld", "gs_run", "gs_made"}
Wants == [net : {"", "bridge", "wireguard"}, args : BOOLEAN, web : BOOLEAN]
Copies == [snap : SUBSET Handlers, cand : SUBSET Actors]

LEMMA SettingsType == ASSUME NEW c \in Conf PROVE Settings(c) \in Wants
  BY DEF Settings, Conf, Wants

LEMMA HeldType == Held \in Copies
  BY DEF Held, Copies

LEMMA WithoutType ==
    ASSUME NEW h \in Copies, NEW a
    PROVE  /\ [h EXCEPT !.snap = @ \ {a}] \in Copies
           /\ [h EXCEPT !["snap"] = @ \ {a}] \in Copies
           /\ [h EXCEPT !["cand"] = @ \ {a}] \in Copies
  BY DEF Copies

LEMMA FreshType ==
    ASSUME TypeOK, NEW a, NEW copy \in {"snap", "cand"}, Fresh(a, copy)
    PROVE  stale' \in Copies
  <1>1. stale \in Copies
    BY DEF TypeOK, Copies
  <1> QED
    BY <1>1, WithoutType DEF Fresh

LEMMA StoredType ==
    ASSUME TypeOK, NEW a, NEW copy \in {"snap", "cand"}, NEW c \in Conf, Stored(a, copy, c)
    PROVE  want' \in Wants /\ stale' \in Copies
  <1>1. CASE a \in stale[copy]
    BY <1>1, HeldType, WithoutType, SettingsType DEF Stored
  <1>2. CASE a \notin stale[copy]
    BY <1>2 DEF Stored, TypeOK, Wants, Copies
  <1> QED
    BY <1>1, <1>2

LEMMA EditedType ==
    ASSUME TypeOK, NEW a \in Actors
    PROVE  Edited(a) \in Conf
  <1>1. snap[a] \in Conf
    BY DEF TypeOK
  <1>2. \A b \in {"boot", "noboot", "pack", "meld", "ignore"} : [snap[a] EXCEPT !.boot = b] \in Conf
    BY <1>1, BootUpdate DEF BootStatuses
  <1> DEFINE d == IF snap[a].boot # "ignore" THEN "ignore"
                  ELSE IF StatusUp THEN "boot" ELSE "noboot"
  <1>3. [snap[a] EXCEPT !.boot = d] \in Conf
    BY <1>2
  <1> HIDE DEF d
  <1>4. \/ Edited(a) \in {[snap[a] EXCEPT !.boot = b] : b \in {"boot", "noboot", "pack", "meld"}}
        \/ Edited(a) = [snap[a] EXCEPT !.boot = d]
        \/ Edited(a) = [snap[a] EXCEPT !.net = IF @ = "wireguard" THEN "bridge" ELSE "wireguard"]
        \/ Edited(a) = [snap[a] EXCEPT !.args = ~@]
        \/ Edited(a) = [snap[a] EXCEPT !.web = ~@]
        \/ Edited(a) = snap[a]
    BY DEF Edited, d
  <1> QED
    BY <1>1, <1>2, <1>3, <1>4, SettingUpdates

LEMMA AskedType ==
    ASSUME TypeOK, NEW a \in Actors, pc[a] \in SettingLabels
    PROVE  Asked(a) \in Wants
  <1>1. want \in Wants
    BY DEF TypeOK, Wants
  <1>2. Edited(a) \in Conf
    BY EditedType
  <1> QED
    BY <1>1, <1>2 DEF Asked, SettingLabels, Wants, Conf

LEMMA AccountType ==
    ASSUME TypeOK, NEW a \in Actors, Account(a)
    PROVE  want' \in Wants /\ stale' \in Copies
  <1>1. CASE pc[a] \in SettingLabels /\ a \notin stale.snap
    BY <1>1, AskedType, HeldType, WithoutType DEF Account
  <1>2. CASE ~(pc[a] \in SettingLabels /\ a \notin stale.snap)
    BY <1>2, EditedType, StoredType DEF Account
  <1> QED
    BY <1>1, <1>2

LEMMA WriteFailsType ==
    ASSUME TypeOK, WriteFails
    PROVE  fails' \in 0..MaxFails
  <1>1. MaxFails \in Nat /\ fails \in 0..MaxFails
    BY ShipBootAssumption DEF TypeOK
  <1> QED
    BY <1>1 DEF WriteFails

LEMMA SaveTypes ==
    ASSUME TypeOK, NEW c \in Conf, UpdateUrbitConfig(c) \/ SaveFails(c)
    PROVE  /\ mem' \in Conf /\ disk' \in Conf
           /\ fails' \in 0..MaxFails /\ behind' \in BOOLEAN
  BY ZeroConfs, WriteFailsType DEF TypeOK, UpdateUrbitConfig, SaveFails

LEMMA StoreType ==
    ASSUME TypeOK, NEW a \in Actors, NEW l, Store(a, l),
           pc' \in [Actors -> Labels], ret' \in [Actors -> RetLabels]
    PROVE  TypeOK'
  <1>1. Edited(a) \in Conf
    BY EditedType
  <1>2. /\ mem' \in Conf /\ disk' \in Conf
        /\ fails' \in 0..MaxFails /\ behind' \in BOOLEAN
    BY <1>1, SaveTypes DEF Store
  <1>3. want' \in Wants /\ stale' \in Copies
    BY AccountType DEF Store
  <1>4. snap' \in [Actors -> Conf]
    BY <1>1 DEF Store, TypeOK
  <1> QED
    BY <1>2, <1>3, <1>4 DEF TypeOK, Store, dockVars, RetLabels, Wants, Copies

LEMMA StoreThenStartType ==
    ASSUME TypeOK, NEW a \in Actors, NEW l, NEW r \in RetLabels, Store(a, l), CallStart(a, r)
    PROVE  TypeOK'
  <1>1. /\ pc' \in [Actors -> Labels]
        /\ ret' \in [Actors -> RetLabels]
    BY DEF TypeOK, CallStart, Goto, Labels, RetLabels
  <1> QED
    BY <1>1, StoreType

LEMMA StoreThenGoType ==
    ASSUME TypeOK, NEW a \in Actors, NEW l, NEW k \in Labels, Store(a, l), Goto(a, k),
           UNCHANGED ret
    PROVE  TypeOK'
  <1>1. /\ pc' \in [Actors -> Labels]
        /\ ret' \in [Actors -> RetLabels]
    BY DEF TypeOK, Goto, RetLabels
  <1> QED
    BY <1>1, StoreType

LEMMA StoreCandType ==
    ASSUME TypeOK, NEW a \in Actors, NEW c \in Conf,
           StoreCand(a, c) \/ UNCHANGED <<mem, disk, fails, behind, want, stale>>
    PROVE  /\ mem' \in Conf /\ disk' \in Conf
           /\ fails' \in 0..MaxFails /\ behind' \in BOOLEAN
           /\ want' \in Wants /\ stale' \in Copies
  <1>1. CASE StoreCand(a, c)
    BY <1>1, SaveTypes, StoredType DEF StoreCand
  <1>2. CASE UNCHANGED <<mem, disk, fails, behind, want, stale>>
    BY <1>2 DEF TypeOK, Wants, Copies
  <1> QED
    BY <1>1, <1>2

LEMMA LoadTypes ==
    ASSUME TypeOK, ReadUrbitConfig \/ UNCHANGED <<mem, behind>>,
           \/ want' = Settings(disk) /\ stale' = Held
           \/ UNCHANGED <<want, stale>>
    PROVE  mem' \in Conf /\ behind' \in BOOLEAN /\ want' \in Wants /\ stale' \in Copies
  BY SettingsType, HeldType DEF TypeOK, ReadUrbitConfig, Wants, Copies
-----------------------------------------------------------------------------
(* Every step of an actor keeps the types.                                 *)

LEMMA StepType ==
    ASSUME IInv, NEW a \in Actors, Step(a)
    PROVE  TypeOK'
  <1>1. CASE Finish(a)
    BY <1>1, ZeroConfs, StateTypes
       DEF Finish, IInv, TypeOK, Goto, Labels, confVars, dockVars
  <1>2. CASE PowerOn(a)
    BY <1>2, StoreThenStartType DEF IInv, PowerOn, RetLabels
  <1>3. CASE PowerOff(a)
    BY <1>3, StoreThenGoType DEF IInv, PowerOff, Labels
  <1>4. CASE DetectBoot(a)
    BY <1>4, StoreThenGoType DEF IInv, DetectBoot, Labels
  <1>5. CASE WriteSettings(a)
    BY <1>5, StoreThenGoType DEF IInv, WriteSettings, AfterWrite, Labels
  <1>6. CASE GetShipStatus(a)
    <2>1. PICK l \in Labels : Goto(a, l)
      BY <1>6 DEF GetShipStatus, Labels
    <2>2. pc' \in [Actors -> Labels]
      BY <2>1, GotoType DEF IInv
    <2> QED
      BY <1>6, <2>2
         DEF GetShipStatus, StatusUp, Running, IInv, TypeOK, confVars, dockVars
  <1>7. CASE SendPack(a)
    <2>1. PICK l \in Labels : Goto(a, l)
      BY <1>7 DEF SendPack, Labels
    <2>2. pc' \in [Actors -> Labels]
      BY <2>1, GotoType DEF IInv
    <2> QED
      BY <1>7, <2>2 DEF SendPack, IInv, TypeOK, confVars, dockVars
  <1>8. CASE WritePack(a)
    BY <1>8, StoreThenStartType DEF IInv, WritePack, RetLabels
  <1>9. CASE WriteMeldLast(a)
    BY <1>9, StoreThenGoType DEF IInv, WriteMeldLast, Labels
  <1>10. CASE WaitComplete(a)
    <2>1. PICK l \in Labels : Goto(a, l)
      BY <1>10 DEF WaitComplete, Labels
    <2>2. pc' \in [Actors -> Labels]
      BY <2>1, GotoType DEF IInv
    <2> QED
      BY <1>10, <2>2 DEF WaitComplete, IInv, TypeOK, confVars, dockVars
  <1>11. CASE WriteMeld(a)
    BY <1>11, StoreThenStartType DEF IInv, WriteMeld, RetLabels
  <1>12. CASE WriteBoot(a)
    BY <1>12, StoreThenStartType DEF IInv, WriteBoot, RetLabels
  <1>13. CASE BarExit(a)
    <2>1. cont' \in Container
      BY <1>13, ContainerUpdates DEF IInv, TypeOK, BarExit
    <2>2. pc' \in [Actors -> Labels]
      <3>1. AfterExit(op[a]) \in {"done", "w_pack", "rm"}
        BY <1>13, ExitLabel DEF IInv, OpAtLabel, BarExit
      <3> QED
        <4>1. PICK l \in Labels : Goto(a, l)
          BY <1>13, <3>1 DEF BarExit, Labels
        <4> QED
          BY <4>1, GotoType DEF IInv
    <2> QED
      BY <1>13, <2>1, <2>2 DEF IInv, TypeOK, BarExit, confVars
  <1>14. CASE StopContainerByName(a)
    <2>1. cont' \in Container
      BY <1>14, ContainerUpdates DEF IInv, TypeOK, StopContainerByName
    <2>2. pc' \in [Actors -> Labels]
      BY <1>14, ExitLabel DEF IInv, TypeOK, OpAtLabel, StopContainerByName, Goto, Labels
    <2>3. events' \in Seq(EventNames) /\ Len(events') <= MaxEvents
      BY <1>14, EmitType, EventSeqs DEF IInv, TypeOK, StopContainerByName
    <2> QED
      BY <1>14, <2>1, <2>2, <2>3 DEF IInv, TypeOK, StopContainerByName, confVars
  <1>15. CASE DeleteContainer(a)
    <2>1. events' \in Seq(EventNames) /\ Len(events') <= MaxEvents
      BY <1>15, EmitDieType DEF IInv, DeleteContainer
    <2>2. pc' \in [Actors -> Labels] /\ ret' \in [Actors -> RetLabels]
      <3>1. /\ \/ pc' = [pc EXCEPT ![a] = "done"]
               \/ pc' = [pc EXCEPT ![a] = "rm_conf"]
               \/ pc' = [pc EXCEPT ![a] = "reload"]
               \/ pc' = [pc EXCEPT ![a] = "sc_conf"]
            /\ ret' = ret \/ ret' = [ret EXCEPT ![a] = "done"]
        BY <1>15 DEF DeleteContainer, CallStart, Goto
      <3> QED
        <4>1. pc \in [Actors -> Labels] /\ ret \in [Actors -> RetLabels]
          BY DEF IInv, TypeOK, RetLabels
        <4> QED
          BY <3>1, <4>1 DEF Labels, RetLabels
    <2> QED
      BY <1>15, <2>1, <2>2, NoContainerType
         DEF IInv, TypeOK, DeleteContainer, confVars, RetLabels
  <1>16. CASE SetDesiredStopped(a)
    BY <1>16, StateTypes
       DEF SetDesiredStopped, IInv, TypeOK, Goto, Labels, confVars, dockVars
  <1>17. CASE RemoveUrbitConfig(a)
    <2>1. /\ mem' \in Conf /\ disk' \in Conf
          /\ fails' \in 0..MaxFails /\ behind' \in BOOLEAN
      BY <1>17, ZeroConfs, SaveTypes DEF IInv, RemoveUrbitConfig
    <2> QED
      BY <1>17, <2>1 DEF RemoveUrbitConfig, IInv, TypeOK, Goto, Labels, dockVars
  <1>18. CASE CutPier(a)
    BY <1>18
       DEF CutPier, IInv, TypeOK, Goto, Labels, confVars, dockVars
  <1>19. CASE DeleteVolume(a)
    BY <1>19
       DEF DeleteVolume, IInv, TypeOK, Goto, Labels, confVars, dockVars
  <1>20. CASE DeleteContainerState(a)
    BY <1>20, StateTypes
       DEF DeleteContainerState, IInv, TypeOK, Goto, Labels, confVars, dockVars
  <1>21. CASE ContainerConfRead(a)
    <2>1. stale' \in Copies
      BY <1>21, FreshType DEF IInv, ContainerConfRead
    <2>2. cand' \in [Actors -> Conf]
      BY <1>21, UrbitConfType DEF IInv, TypeOK, ContainerConfRead
    <2>3. pc' \in [Actors -> Labels]
      BY <1>21, GotoType DEF IInv, ContainerConfRead, Labels
    <2> QED
      BY <1>21, <2>1, <2>2, <2>3
         DEF ContainerConfRead, IInv, TypeOK, confVars, dockVars, Copies
  <1>22. CASE ContainerConfApply(a)
    <2>1. [cand[a] EXCEPT !.ver = latest] \in Conf
      <3>1. latest \in 1..MaxVersion
        BY DEF IInv, TypeOK
      <3>2. latest \in 0..MaxVersion
        BY <3>1, ShipBootAssumption
      <3> QED
        BY <3>2, VersionUpdate DEF IInv, TypeOK
    <2>2. \/ StoreCand(a, [cand[a] EXCEPT !.ver = latest])
          \/ UNCHANGED <<mem, disk, fails, behind, want, stale>>
      BY <1>22 DEF ContainerConfApply
    <2>3. /\ mem' \in Conf /\ disk' \in Conf
          /\ fails' \in 0..MaxFails /\ behind' \in BOOLEAN
          /\ want' \in Wants /\ stale' \in Copies
      BY <2>1, <2>2, StoreCandType DEF IInv
    <2>4. pc' \in [Actors -> Labels]
      BY <1>22 DEF IInv, TypeOK, ContainerConfApply, Goto, Labels
    <2> QED
      BY <1>22, <2>3, <2>4 DEF IInv, TypeOK, ContainerConfApply, dockVars, Wants, Copies
  <1>23. CASE ContainerConfReset(a)
    <2>1. cand[a] \in Conf /\ cand[a].boot \in Bootable
      BY <1>23 DEF IInv, TypeOK, OpAtLabel, ContainerConfReset
    <2>2. [cand[a] EXCEPT !.boot = ResetBoot(cand[a].boot)] \in Conf
      BY <2>1, BootUpdate DEF ResetBoot, Bootable, BootStatuses
    <2>3. \/ StoreCand(a, [cand[a] EXCEPT !.boot = ResetBoot(cand[a].boot)])
          \/ UNCHANGED <<mem, disk, fails, behind, want, stale>>
      BY <1>23 DEF ContainerConfReset
    <2>4. /\ mem' \in Conf /\ disk' \in Conf
          /\ fails' \in 0..MaxFails /\ behind' \in BOOLEAN
          /\ want' \in Wants /\ stale' \in Copies
      BY <2>2, <2>3, StoreCandType DEF IInv
    <2>5. pc' \in [Actors -> Labels]
      BY <1>23 DEF IInv, TypeOK, ContainerConfReset, Goto, Labels
    <2> QED
      BY <1>23, <2>4, <2>5 DEF IInv, TypeOK, ContainerConfReset, dockVars, Wants, Copies
  <1>24. CASE FindContainer(a)
    BY <1>24
       DEF FindContainer, IInv, TypeOK, Goto, Labels, confVars, dockVars
  <1>25. CASE KeepContainer(a)
    BY <1>25
       DEF KeepContainer, IInv, TypeOK, Goto, Labels, confVars, dockVars
  <1>26. CASE RemoveContainer(a)
    <2>1. events' \in Seq(EventNames) /\ Len(events') <= MaxEvents
      BY <1>26, EmitDieType DEF IInv, RemoveContainer
    <2> QED
      BY <1>26, <2>1, NoContainerType DEF IInv, TypeOK, RemoveContainer, Goto, Labels, confVars
  <1>27. CASE ContainerCreate(a)
    <2>1. cont' \in Container
      <3>1. latest \in 1..MaxVersion /\ cand[a] \in Conf /\ cont \in Container
        BY DEF IInv, TypeOK
      <3> QED
        BY <1>27, <3>1, NewContainerType DEF ContainerCreate
    <2>2. vol' \in BOOLEAN
      BY <1>27 DEF IInv, TypeOK, ContainerCreate
    <2>3. pc' \in [Actors -> Labels]
      <3>1. ret[a] \in Labels /\ pc \in [Actors -> Labels]
        BY DEF IInv, TypeOK, Labels
      <3> QED
        BY <1>27, <3>1 DEF ContainerCreate, Goto, Labels
    <2> QED
      BY <1>27, <2>1, <2>2, <2>3 DEF IInv, TypeOK, ContainerCreate, confVars
  <1>28. CASE ContainerStart(a)
    <2>1. cont' \in Container
      <3>1. cont \in Container /\ script \in Bootable \cup {""}
        BY DEF IInv, TypeOK
      <3> QED
        BY <1>28, <3>1, ContainerUpdates DEF ContainerStart
    <2>2. events' \in Seq(EventNames) /\ Len(events') <= MaxEvents
      <3>1. CASE UNCHANGED events
        BY <3>1 DEF IInv, TypeOK
      <3>2. CASE Room(1) /\ Emit(<<"start">>)
        BY <3>2, EmitType, EventSeqs DEF IInv
      <3> QED
        BY <1>28, <3>1, <3>2 DEF ContainerStart
    <2>3. pc' \in [Actors -> Labels]
      <3>1. ret[a] \in Labels /\ pc \in [Actors -> Labels]
        BY DEF IInv, TypeOK, Labels
      <3> QED
        BY <1>28, <3>1 DEF ContainerStart, Goto, Labels
    <2> QED
      BY <1>28, <2>1, <2>2, <2>3 DEF IInv, TypeOK, ContainerStart, confVars
  <1>29. CASE LoadUrbitConfig(a)
    <2>1. pc' \in [Actors -> Labels] /\ ret' \in [Actors -> RetLabels]
      BY <1>29 DEF IInv, TypeOK, LoadUrbitConfig, CallStart, Goto, Labels, RetLabels
    <2>2. /\ ReadUrbitConfig \/ UNCHANGED <<mem, behind>>
          /\ \/ want' = Settings(disk) /\ stale' = Held
             \/ UNCHANGED <<want, stale>>
      BY <1>29 DEF LoadUrbitConfig
    <2>3. mem' \in Conf /\ behind' \in BOOLEAN /\ want' \in Wants /\ stale' \in Copies
      BY <2>2, LoadTypes DEF IInv
    <2> QED
      BY <1>29, <2>1, <2>3 DEF IInv, TypeOK, LoadUrbitConfig, dockVars, RetLabels, Wants, Copies
  <1>30. CASE UpdateContainerState(a)
    <2>1. gs' \in State
      BY <1>30, StateTypes DEF UpdateContainerState
    <2> QED
      BY <1>30, <2>1 DEF IInv, TypeOK, UpdateContainerState, Goto, Labels, confVars, dockVars
  <1>31. CASE StoreFails(a)
    <2>1. /\ mem' \in Conf /\ disk' \in Conf
          /\ fails' \in 0..MaxFails /\ behind' \in BOOLEAN
      BY <1>31, EditedType, SaveTypes DEF IInv, StoreFails
    <2>2. want' \in Wants /\ stale' \in Copies
      BY <1>31, AccountType DEF IInv, StoreFails
    <2> QED
      BY <1>31, <2>1, <2>2 DEF IInv, TypeOK, StoreFails, Goto, Labels, dockVars, Wants, Copies
  <1>32. CASE ContainerConfLoad(a)
    <2>1. /\ ReadUrbitConfig
          /\ \/ want' = Settings(disk) /\ stale' = Held
             \/ UNCHANGED <<want, stale>>
      BY <1>32 DEF ContainerConfLoad
    <2>2. mem' \in Conf /\ behind' \in BOOLEAN /\ want' \in Wants /\ stale' \in Copies
      BY <2>1, LoadTypes DEF IInv
    <2> QED
      BY <1>32, <2>2 DEF IInv, TypeOK, ContainerConfLoad, Goto, Labels, dockVars, Wants, Copies
  <1>33. CASE WriteScript(a)
    <2>1. cand[a].boot \in Bootable
      BY <1>33 DEF IInv, OpAtLabel, WriteScript
    <2>2. script' \in Bootable \cup {""} /\ fails' \in 0..MaxFails
      BY <1>33, <2>1, WriteFailsType DEF IInv, TypeOK, WriteScript, ScriptFor
    <2>3. pc' \in [Actors -> Labels]
      <3>1. PICK l \in Labels : Goto(a, l)
        BY <1>33 DEF WriteScript, Labels
      <3> QED
        BY <3>1, GotoType DEF IInv
    <2> QED
      BY <1>33, <2>2, <2>3 DEF IInv, TypeOK, WriteScript
  <1> QED
    BY <1>1, <1>2, <1>3, <1>4, <1>5, <1>6, <1>7, <1>8, <1>9, <1>10, <1>11, <1>12,
       <1>13, <1>14, <1>15, <1>16, <1>17, <1>18, <1>19, <1>20, <1>21, <1>22, <1>23, <1>24,
       <1>25, <1>26, <1>27, <1>28, <1>29, <1>30, <1>31, <1>32, <1>33
       DEF Step
-----------------------------------------------------------------------------
(* Every step of an actor keeps the control invariant.                     *)

LEMMA StepControl ==
    ASSUME IInv, NEW a \in Actors, Step(a)
    PROVE  OpAtLabel' /\ LoopControl'
  <1>0. /\ pc \in [Actors -> Labels] /\ cand \in [Actors -> Conf]
        /\ op \in [Actors -> Ops \cup {"none", "load"} \cup EventNames]
        /\ ret \in [Actors -> RetLabels]
    BY DEF IInv, TypeOK, RetLabels
  <1> USE <1>0, ActorFacts
      DEF IInv, OpAtLabel, LoopControl, StartLabels, Goto, RetLabels
  <1>1. CASE Finish(a)
    BY <1>1 DEF Finish
  <1>2. CASE PowerOn(a)
    BY <1>2 DEF PowerOn, CallStart, Store
  <1>3. CASE PowerOff(a)
    BY <1>3 DEF PowerOff, Store, ExitOps
  <1>4. CASE DetectBoot(a)
    BY <1>4 DEF DetectBoot, Store
  <1>5. CASE WriteSettings(a)
    <2>1. PICK l \in SettingLabels : Goto(a, AfterWrite(l)) /\ UNCHANGED <<op, cand, ret>>
      BY <1>5 DEF WriteSettings, Store
    <2>3. AfterWrite(l) \in {"done", "rm"}
      BY DEF AfterWrite
    <2>4. pc[a] \in SettingLabels
      BY <1>5 DEF WriteSettings, Store
    <2> QED
      BY <2>1, <2>3, <2>4 DEF SettingLabels
  <1>6. CASE GetShipStatus(a)
    BY <1>6 DEF GetShipStatus, ExitOps
  <1>7. CASE SendPack(a)
    BY <1>7 DEF SendPack
  <1>8. CASE WritePack(a)
    BY <1>8 DEF WritePack, CallStart, Store
  <1>9. CASE WriteMeldLast(a)
    BY <1>9 DEF WriteMeldLast, Store
  <1>10. CASE WaitComplete(a)
    BY <1>10 DEF WaitComplete
  <1>11. CASE WriteMeld(a)
    BY <1>11 DEF WriteMeld, CallStart, Store
  <1>12. CASE WriteBoot(a)
    BY <1>12 DEF WriteBoot, CallStart, Store
  <1>13. CASE BarExit(a)
    BY <1>13, ExitLabel DEF BarExit
  <1>14. CASE StopContainerByName(a)
    BY <1>14, ExitLabel DEF StopContainerByName
  <1>15. CASE DeleteContainer(a)
    BY <1>15 DEF DeleteContainer, CallStart
  <1>16. CASE SetDesiredStopped(a)
    BY <1>16 DEF SetDesiredStopped, ExitOps
  <1>17. CASE RemoveUrbitConfig(a)
    BY <1>17 DEF RemoveUrbitConfig
  <1>18. CASE CutPier(a)
    BY <1>18 DEF CutPier
  <1>19. CASE DeleteVolume(a)
    BY <1>19 DEF DeleteVolume
  <1>20. CASE DeleteContainerState(a)
    BY <1>20 DEF DeleteContainerState
  <1>21. CASE ContainerConfRead(a)
    BY <1>21 DEF ContainerConfRead
  <1>22. CASE ContainerConfApply(a)
    BY <1>22 DEF ContainerConfApply
  <1>23. CASE ContainerConfReset(a)
    BY <1>23 DEF ContainerConfReset
  <1>24. CASE FindContainer(a)
    BY <1>24 DEF FindContainer
  <1>25. CASE KeepContainer(a)
    BY <1>25 DEF KeepContainer
  <1>26. CASE RemoveContainer(a)
    BY <1>26 DEF RemoveContainer
  <1>27. CASE ContainerCreate(a)
    BY <1>27 DEF ContainerCreate
  <1>28. CASE ContainerStart(a)
    BY <1>28 DEF ContainerStart
  <1>29. CASE LoadUrbitConfig(a)
    BY <1>29 DEF LoadUrbitConfig, CallStart
  <1>30. CASE UpdateContainerState(a)
    BY <1>30 DEF UpdateContainerState
  <1>31. CASE StoreFails(a)
    BY <1>31 DEF StoreFails
  <1>32. CASE ContainerConfLoad(a)
    BY <1>32 DEF ContainerConfLoad
  <1>33. CASE WriteScript(a)
    BY <1>33 DEF WriteScript
  <1> QED
    BY <1>1, <1>2, <1>3, <1>4, <1>5, <1>6, <1>7, <1>8, <1>9, <1>10, <1>11, <1>12,
       <1>13, <1>14, <1>15, <1>16, <1>17, <1>18, <1>19, <1>20, <1>21, <1>22, <1>23, <1>24,
       <1>25, <1>26, <1>27, <1>28, <1>29, <1>30, <1>31, <1>32, <1>33
       DEF Step
-----------------------------------------------------------------------------
(* The remaining actions.                                                  *)

LEMMA BeginInv ==
    ASSUME IInv, NEW a \in Handlers, NEW o \in Ops, Begin(a, o)
    PROVE  IInv'
  <1>1. o \in AllOps /\ a \in Actors /\ a # EL
    BY ActorFacts, ShipBootAssumption
  <1>2. UrbitConf \in Conf
    BY UrbitConfType DEF IInv
  <1>7. stale' \in Copies
    BY FreshType DEF IInv, Begin
  <1>3. TypeOK'
    BY <1>1, <1>2, <1>7, EntryLabel DEF IInv, TypeOK, Begin, Goto, confVars, dockVars, Copies
  <1>4. /\ pc \in [Actors -> Labels]
        /\ op \in [Actors -> Ops \cup {"none", "load"} \cup EventNames]
    BY DEF IInv, TypeOK
  <1>5. OpAtLabel'
    BY <1>1, <1>2, <1>4, EntryLabel DEF IInv, OpAtLabel, Begin, Goto, ExitOps
  <1>6. LoopControl'
    BY <1>1, <1>4 DEF IInv, LoopControl, Begin, Goto
  <1> QED
    BY <1>3, <1>5, <1>6 DEF IInv

LEMMA TakeEventInv ==
    ASSUME IInv, TakeEvent
    PROVE  IInv'
  <1>1. /\ events \in Seq(EventNames) /\ events # <<>> /\ Len(events) <= MaxEvents
        /\ pc \in [Actors -> Labels] /\ EL \in Actors
        /\ op \in [Actors -> Ops \cup {"none", "load"} \cup EventNames]
    BY ActorFacts DEF IInv, TypeOK, TakeEvent
  <1>2. /\ Head(events) \in EventNames /\ Tail(events) \in Seq(EventNames)
        /\ Len(Tail(events)) <= MaxEvents
    <2>1. Len(Tail(events)) = Len(events) - 1 /\ Len(events) \in Nat
      BY <1>1, HeadTailProperties, LenProperties
    <2>2. MaxEvents \in Nat
      BY ShipBootAssumption
    <2> QED
      BY <1>1, <2>1, <2>2, HeadTailProperties
  <1>3. pc' \in [Actors -> Labels]
    BY <1>1 DEF TakeEvent, Goto, Labels
  <1>4. op' \in [Actors -> Ops \cup {"none", "load"} \cup EventNames]
    BY <1>1, <1>2 DEF TakeEvent
  <1>5. held' \in State
    BY DEF IInv, TypeOK, TakeEvent
  <1>6. TypeOK'
    BY <1>2, <1>3, <1>4, <1>5 DEF IInv, TypeOK, TakeEvent, confVars
  <1>7. OpAtLabel'
    BY <1>1 DEF IInv, OpAtLabel, TakeEvent, Goto
  <1>8. LoopControl'
    BY <1>1, <1>2 DEF IInv, LoopControl, TakeEvent, Goto, StartLabels
  <1> QED
    BY <1>6, <1>7, <1>8 DEF IInv

LEMMA HandleEventInv ==
    ASSUME IInv, HandleEvent
    PROVE  IInv'
  <1>1. /\ op[EL] \in EventNames /\ EL \in Actors /\ held \in State
        /\ pc \in [Actors -> Labels] /\ ret \in [Actors -> RetLabels]
    BY ActorFacts DEF IInv, TypeOK, LoopControl, HandleEvent, RetLabels
  <1>2. gs' \in State
    BY <1>1, StateTypes DEF HandleEvent, EventNames
  <1>3. pc' \in [Actors -> Labels] /\ ret' \in [Actors -> RetLabels]
    BY <1>1 DEF HandleEvent, CallStart, Goto, Labels, RetLabels
  <1>4. TypeOK'
    BY <1>2, <1>3 DEF IInv, TypeOK, HandleEvent, confVars, dockVars, RetLabels
  <1>5. OpAtLabel'
    BY <1>1 DEF IInv, OpAtLabel, HandleEvent, CallStart, Goto
  <1>6. LoopControl'
    BY <1>1 DEF IInv, LoopControl, HandleEvent, Restarts, CallStart, Goto, StartLabels,
                RetLabels
  <1> QED
    BY <1>4, <1>5, <1>6 DEF IInv

LEMMA EnvironmentInv ==
    ASSUME IInv, ShipExits \/ NewRelease
    PROVE  IInv'
  <1>1. CASE ShipExits
    <2>1. cont' \in Container
      BY <1>1, ContainerUpdates DEF IInv, TypeOK, ShipExits
    <2>2. events' \in Seq(EventNames) /\ Len(events') <= MaxEvents
      BY <1>1, EmitType, EventSeqs DEF IInv, ShipExits
    <2>3. TypeOK'
      BY <1>1, <2>1, <2>2 DEF IInv, TypeOK, ShipExits, confVars, actorVars
    <2> QED
      BY <1>1, <2>3 DEF IInv, OpAtLabel, LoopControl, ShipExits, actorVars
  <1>2. CASE NewRelease
    <2>1. latest' \in 1..MaxVersion
      <3>1. latest \in 1..MaxVersion /\ MaxVersion \in Nat
        BY ShipBootAssumption DEF IInv, TypeOK
      <3> QED
        BY <1>2, <3>1 DEF NewRelease
    <2>2. TypeOK'
      BY <1>2, <2>1 DEF IInv, TypeOK, NewRelease, confVars, dockVars, actorVars
    <2> QED
      BY <1>2, <2>2 DEF IInv, OpAtLabel, LoopControl, NewRelease, actorVars
  <1> QED
    BY <1>1, <1>2

LEMMA CrashInv ==
    ASSUME IInv, Crash
    PROVE  IInv'
  <1>1. /\ mem' \in Conf /\ disk' \in Conf
        /\ gs' \in State /\ held' \in State
        /\ \A a \in Actors : ZeroConf \in Conf
    BY ZeroConfs, StateTypes DEF IInv, TypeOK, Crash
  <1>2. events' \in Seq(EventNames) /\ Len(events') <= MaxEvents
    BY EmptySeq, ShipBootAssumption DEF Crash
  <1>3. /\ pc' \in [Actors -> Labels]
        /\ op' \in [Actors -> Ops \cup {"none", "load"} \cup EventNames]
        /\ snap' \in [Actors -> Conf] /\ cand' \in [Actors -> Conf]
        /\ ret' \in [Actors -> RetLabels] /\ up' \in [Actors -> BOOLEAN]
        /\ found' \in [Actors -> {"none", "exited", "stale", "fresh"}]
    BY ZeroConfs DEF Crash, Labels, RetLabels
  <1>4. want' \in [net : {"", "bridge", "wireguard"}, args : BOOLEAN, web : BOOLEAN]
    <2>1. want' = want \/ want' = Settings(disk')
      BY DEF Crash
    <2> QED
      BY <1>1, <2>1, SettingsType DEF IInv, TypeOK, Wants
  <1>5. /\ listed' \in BOOLEAN /\ vol' \in BOOLEAN /\ latest' \in 1..MaxVersion
        /\ script' \in Bootable \cup {""} /\ cont' \in Container
        /\ daemon' \in {"up", "down"} /\ fails' \in 0..MaxFails /\ behind' \in BOOLEAN
        /\ stale' \in [snap : SUBSET Handlers, cand : SUBSET Actors]
    BY DEF IInv, TypeOK, Crash
  <1>6. TypeOK'
    BY <1>1, <1>2, <1>3, <1>4, <1>5 DEF TypeOK, RetLabels
  <1>7. OpAtLabel' /\ LoopControl'
    BY ActorFacts DEF Crash, OpAtLabel, LoopControl, StartLabels
  <1> QED
    BY <1>6, <1>7 DEF IInv

LEMMA RestartInv ==
    ASSUME IInv, Restart
    PROVE  IInv'
  <1>1. /\ pc \in [Actors -> Labels] /\ Loader \in Actors /\ EL \in Actors /\ Loader # EL
        /\ op \in [Actors -> Ops \cup {"none", "load"} \cup EventNames]
    BY ActorFacts DEF IInv, TypeOK, EL, Loader
  <1>2. mem' \in Conf
    BY ZeroConfs DEF IInv, TypeOK, Restart
  <1>3. events' \in Seq(EventNames) /\ Len(events') <= MaxEvents
    BY EmptySeq, ShipBootAssumption DEF Restart
  <1>4. /\ pc' \in [Actors -> Labels]
        /\ op' \in [Actors -> Ops \cup {"none", "load"} \cup EventNames]
    BY <1>1 DEF Restart, Goto, Labels
  <1>5. TypeOK'
    BY <1>2, <1>3, <1>4 DEF IInv, TypeOK, Restart
  <1>6. OpAtLabel' /\ LoopControl'
    BY <1>1 DEF IInv, OpAtLabel, LoopControl, Restart, Goto
  <1> QED
    BY <1>5, <1>6 DEF IInv

LEMMA InitInv == Init => IInv
  <1> SUFFICES ASSUME Init
               PROVE  IInv
    OBVIOUS
  <1>1. mem \in Conf /\ disk \in Conf
    <2>1. mem \in Conf
      BY Zenon DEF Init
    <2>2. disk = mem
      BY Zenon DEF Init
    <2> QED
      BY <2>1, <2>2
  <1>2. latest \in 1..MaxVersion
    <2>1. latest = 1
      BY Zenon DEF Init
    <2> QED
      BY <2>1, ShipBootAssumption
  <1>3. cont \in Container
    <2>1. NewContainer(mem) \in Container
      BY <1>1, <1>2, NewContainerType
    <2>2. \A s \in {"exited", "running"} :
            [NewContainer(mem) EXCEPT !.st = s, !.run = "boot"] \in Container
      BY <2>1 DEF Container
    <2>3. CASE cont = NoContainer
      BY <2>3, NoContainerType
    <2>4. CASE \E s \in {"exited", "running"} :
                 cont = [NewContainer(mem) EXCEPT !.st = s, !.run = "boot"]
      BY <2>2, <2>4
    <2>5. \/ cont = NoContainer
          \/ \E s \in IF mem.boot = "noboot" THEN {"exited"} ELSE {"exited", "running"} :
                 cont = [NewContainer(mem) EXCEPT !.st = s, !.run = "boot"]
      BY Zenon DEF Init
    <2>6. \A s \in IF mem.boot = "noboot" THEN {"exited"} ELSE {"exited", "running"} :
            s \in {"exited", "running"}
      OBVIOUS
    <2> QED
      BY <2>3, <2>4, <2>5, <2>6
  <1>4. events \in Seq(EventNames) /\ Len(events) <= MaxEvents
    <2>1. events = <<>>
      BY Zenon DEF Init
    <2> QED
      BY <2>1, EmptySeq, ShipBootAssumption
  <1>5. gs \in State /\ held \in State
    BY StateTypes DEF Init
  <1>6. want \in Wants
    BY <1>1 DEF Init, Settings, Conf, Wants
  <1>7. /\ pc \in [Actors -> Labels]
        /\ op \in [Actors -> Ops \cup {"none", "load"} \cup EventNames]
        /\ ret \in [Actors -> RetLabels] /\ up \in [Actors -> BOOLEAN]
        /\ found \in [Actors -> {"none", "exited", "stale", "fresh"}]
    BY DEF Init, Labels, RetLabels
  <1>8. snap \in [Actors -> Conf] /\ cand \in [Actors -> Conf]
    BY ZeroConfs DEF Init
  <1>9. script \in Bootable /\ daemon \in {"up", "down"}
        /\ listed \in BOOLEAN /\ vol \in BOOLEAN
    BY DEF Init, Bootable
  <1>13. /\ fails \in 0..MaxFails /\ behind \in BOOLEAN
         /\ stale \in [snap : SUBSET Handlers, cand : SUBSET Actors]
    <2>1. fails = 0 /\ behind = FALSE /\ stale = [snap |-> {}, cand |-> {}]
      BY Zenon DEF Init
    <2>2. MaxFails \in Nat
      BY ShipBootAssumption
    <2>3. stale \in Copies
      BY <2>1 DEF Copies
    <2>4. behind \in BOOLEAN
      BY <2>1
    <2>5. fails \in 0..MaxFails
      BY <2>1, <2>2
    <2> QED
      BY <2>3, <2>4, <2>5 DEF Copies
  <1>10. TypeOK
    BY <1>13, <1>1, <1>2, <1>3, <1>4, <1>5, <1>6, <1>7, <1>8, <1>9 DEF TypeOK, RetLabels, Wants
  <1>11. OpAtLabel
    BY DEF Init, OpAtLabel
  <1>12. LoopControl
    <2>1. EL # Loader
      BY DEF EL, Loader
    <2> QED
      <3>1. /\ pc = [a \in Actors |-> IF a = Loader THEN "reload" ELSE "idle"]
            /\ ret = [a \in Actors |-> "done"]
        BY Zenon DEF Init
      <3> QED
        BY <2>1, <3>1, ActorFacts DEF LoopControl, StartLabels
  <1> QED
    BY <1>10, <1>11, <1>12 DEF IInv

LEMMA NextInv == IInv /\ [Next]_vars => IInv'
  <1> SUFFICES ASSUME IInv, [Next]_vars
               PROVE  IInv'
    OBVIOUS
  <1>1. CASE \E a \in Handlers, o \in Ops : Begin(a, o)
    BY <1>1, BeginInv
  <1>2. CASE \E a \in Actors : Step(a)
    BY <1>2, StepType, StepControl DEF IInv
  <1>3. CASE TakeEvent
    BY <1>3, TakeEventInv
  <1>4. CASE HandleEvent
    BY <1>4, HandleEventInv
  <1>5. CASE ShipExits \/ NewRelease
    BY <1>5, EnvironmentInv
  <1>6. CASE Crash
    BY <1>6, CrashInv
  <1>7. CASE Restart
    BY <1>7, RestartInv
  <1>8. CASE UNCHANGED vars
    <2>1. TypeOK'
      BY <1>8 DEF vars, IInv, TypeOK
    <2>2. OpAtLabel' /\ LoopControl'
      BY <1>8 DEF vars, IInv, OpAtLabel, LoopControl
    <2> QED
      BY <2>1, <2>2 DEF IInv
  <1> QED
    BY <1>1, <1>2, <1>3, <1>4, <1>5, <1>6, <1>7, <1>8 DEF Next

(* The inductive invariant behind the theorems of this module.             *)
THEOREM InvariantHolds == Spec => []IInv
  <1> QED
    BY InitInv, NextInv, PTL DEF Spec

(* Every variable keeps its type (TypeOK): in particular an actor that     *)
(* returns from StartContainer returns to where its handler called it.     *)
THEOREM TypeCorrect == Spec => []TypeOK
  <1>1. IInv => TypeOK
    BY DEF IInv
  <1> QED
    BY <1>1, InvariantHolds, PTL
-----------------------------------------------------------------------------
(* Coherence of the two copies of the pier config needs no other invariant. *)

LEMMA CoherentStep ==
    ASSUME Coherent, [Next]_vars
    PROVE  Coherent'
  <1> USE DEF Coherent, Readable, confVars
  <1>1. ASSUME NEW a \in Actors, Step(a)
        PROVE  Coherent'
    <2>1. ASSUME NEW l, Store(a, l)
          PROVE  Coherent'
      BY <2>1 DEF Store, UpdateUrbitConfig
    <2>2. CASE \/ PowerOn(a) \/ PowerOff(a) \/ DetectBoot(a) \/ WritePack(a)
               \/ WriteMeldLast(a) \/ WriteMeld(a) \/ WriteBoot(a) \/ WriteSettings(a)
      BY <2>1, <2>2 DEF PowerOn, PowerOff, DetectBoot, WritePack, WriteMeldLast, WriteMeld,
                  WriteBoot, WriteSettings
    <2>3. CASE Finish(a) \/ GetShipStatus(a) \/ SendPack(a) \/ WaitComplete(a) \/ BarExit(a)
               \/ StopContainerByName(a) \/ DeleteContainer(a) \/ SetDesiredStopped(a)
               \/ DeleteVolume(a) \/ DeleteContainerState(a)
      BY <2>3 DEF Finish, GetShipStatus, SendPack, WaitComplete, BarExit,
                  StopContainerByName, DeleteContainer, SetDesiredStopped, DeleteVolume,
                  DeleteContainerState
    <2>4. CASE RemoveUrbitConfig(a) \/ CutPier(a) \/ StoreFails(a) \/ WriteScript(a)
      BY <2>4 DEF RemoveUrbitConfig, CutPier, UpdateUrbitConfig, StoreFails, SaveFails,
                  WriteScript
    <2>5. CASE ContainerConfApply(a) \/ ContainerConfReset(a)
      BY <2>5 DEF ContainerConfApply, ContainerConfReset, StoreCand, UpdateUrbitConfig,
                  SaveFails
    <2>6. CASE ContainerConfLoad(a) \/ LoadUrbitConfig(a)
      BY <2>6 DEF ContainerConfLoad, LoadUrbitConfig, ReadUrbitConfig
    <2>7. CASE ContainerConfRead(a) \/ FindContainer(a) \/ KeepContainer(a)
               \/ RemoveContainer(a) \/ ContainerCreate(a) \/ ContainerStart(a)
               \/ UpdateContainerState(a)
      BY <2>7 DEF ContainerConfRead, FindContainer, KeepContainer, RemoveContainer,
                  ContainerCreate, ContainerStart, UpdateContainerState
    <2> QED
      BY <1>1, <2>2, <2>3, <2>4, <2>5, <2>6, <2>7 DEF Step
  <1>2. ASSUME NEW a \in Handlers, NEW o \in Ops, Begin(a, o)
        PROVE  Coherent'
    BY <1>2 DEF Begin
  <1>3. CASE TakeEvent \/ HandleEvent \/ ShipExits \/ NewRelease
    BY <1>3 DEF TakeEvent, HandleEvent, ShipExits, NewRelease
  <1>4. CASE Crash \/ Restart
    BY <1>4 DEF Crash, Restart
  <1>5. CASE UNCHANGED vars
    BY <1>5 DEF vars
  <1> QED
    BY <1>1, <1>2, <1>3, <1>4, <1>5 DEF Next

(* Memory and file hold the same pier config while the daemon is up, unless  *)
(* the last save of either failed half-way: whatever handlers interleave,   *)
(* fail or are killed, a save or a load that succeeds brings them together. *)
THEOREM CoherenceHolds == Spec => []Coherent
  <1>1. Init => Coherent
    BY Zenon DEF Init, Coherent
  <1> QED
    BY <1>1, CoherentStep, PTL DEF Spec
-----------------------------------------------------------------------------
(* Who stands where.                                                       *)

LoaderLabels == StartLabels \cup {"idle", "done", "reload", "cc_create", "gs_run", "gs_made"}

(* LoadUrbits calls StartContainer or CreateContainer and records the state. *)
LoaderControl ==
    /\ pc[Loader] \in LoaderLabels
    /\ ret[Loader] \in {"done", "gs_run", "gs_made"}
DownIdle ==
    daemon = "down" => /\ mem = Absent /\ gs = NoState
                       /\ \A a \in Actors : pc[a] = "idle"

LEMMA ActorKinds ==
    /\ Actors = Handlers \cup {EL, Loader}
    /\ EL \in Actors /\ Loader \in Actors /\ EL # Loader
    /\ EL \notin Handlers /\ Loader \notin Handlers
    /\ \A a \in Handlers : a \in Actors /\ a # EL /\ a # Loader
  BY ShipBootAssumption DEF Actors, EL, Loader

LEMMA Maps ==
    ASSUME IInv
    PROVE  /\ pc \in [Actors -> Labels] /\ ret \in [Actors -> RetLabels]
           /\ cand \in [Actors -> Conf] /\ snap \in [Actors -> Conf]
           /\ op \in [Actors -> Ops \cup {"none", "load"} \cup EventNames]
           /\ up \in [Actors -> BOOLEAN]
           /\ found \in [Actors -> {"none", "exited", "stale", "fresh"}]
  BY DEF IInv, TypeOK, RetLabels

(* A goroutine moves itself alone, while the daemon is up.                 *)
LEMMA OthersWait ==
    ASSUME IInv, NEW a \in Actors, Step(a)
    PROVE  /\ \A b \in Actors : b # a => /\ pc'[b] = pc[b] /\ ret'[b] = ret[b]
                                         /\ cand'[b] = cand[b] /\ snap'[b] = snap[b]
                                         /\ op'[b] = op[b]
           /\ daemon' = daemon /\ pc[a] # "idle"
  <1> USE Maps DEF Goto
  <1>1. CASE Finish(a)
    BY <1>1 DEF Finish
  <1>2. CASE PowerOn(a)
    BY <1>2 DEF PowerOn, CallStart, Store
  <1>3. CASE PowerOff(a)
    BY <1>3 DEF PowerOff, Store
  <1>4. CASE DetectBoot(a)
    BY <1>4 DEF DetectBoot, Store
  <1>5. CASE WriteSettings(a)
    BY <1>5 DEF WriteSettings, AfterWrite, Store, SettingLabels
  <1>6. CASE GetShipStatus(a)
    BY <1>6 DEF GetShipStatus
  <1>7. CASE SendPack(a)
    BY <1>7 DEF SendPack
  <1>8. CASE WritePack(a)
    BY <1>8 DEF WritePack, CallStart, Store
  <1>9. CASE WriteMeldLast(a)
    BY <1>9 DEF WriteMeldLast, Store
  <1>10. CASE WaitComplete(a)
    BY <1>10 DEF WaitComplete
  <1>11. CASE WriteMeld(a)
    BY <1>11 DEF WriteMeld, CallStart, Store
  <1>12. CASE WriteBoot(a)
    BY <1>12 DEF WriteBoot, CallStart, Store
  <1>13. CASE BarExit(a)
    BY <1>13 DEF BarExit
  <1>14. CASE StopContainerByName(a)
    BY <1>14 DEF StopContainerByName
  <1>15. CASE DeleteContainer(a)
    BY <1>15 DEF DeleteContainer, CallStart
  <1>16. CASE SetDesiredStopped(a)
    BY <1>16 DEF SetDesiredStopped
  <1>17. CASE RemoveUrbitConfig(a)
    BY <1>17 DEF RemoveUrbitConfig
  <1>18. CASE CutPier(a)
    BY <1>18 DEF CutPier
  <1>19. CASE DeleteVolume(a)
    BY <1>19 DEF DeleteVolume
  <1>20. CASE DeleteContainerState(a)
    BY <1>20 DEF DeleteContainerState
  <1>21. CASE ContainerConfRead(a)
    BY <1>21 DEF ContainerConfRead
  <1>22. CASE ContainerConfApply(a)
    BY <1>22 DEF ContainerConfApply
  <1>23. CASE ContainerConfReset(a)
    BY <1>23 DEF ContainerConfReset
  <1>24. CASE FindContainer(a)
    BY <1>24 DEF FindContainer
  <1>25. CASE KeepContainer(a)
    BY <1>25 DEF KeepContainer
  <1>26. CASE RemoveContainer(a)
    BY <1>26 DEF RemoveContainer
  <1>27. CASE ContainerCreate(a)
    BY <1>27 DEF ContainerCreate
  <1>28. CASE ContainerStart(a)
    BY <1>28 DEF ContainerStart
  <1>29. CASE LoadUrbitConfig(a)
    BY <1>29 DEF LoadUrbitConfig, CallStart
  <1>30. CASE UpdateContainerState(a)
    BY <1>30 DEF UpdateContainerState
  <1>31. CASE StoreFails(a)
    BY <1>31 DEF StoreFails, ConfWrites, SettingLabels
  <1>32. CASE ContainerConfLoad(a)
    BY <1>32 DEF ContainerConfLoad
  <1>33. CASE WriteScript(a)
    BY <1>33 DEF WriteScript
  <1> QED
    BY <1>1, <1>2, <1>3, <1>4, <1>5, <1>6, <1>7, <1>8, <1>9, <1>10, <1>11, <1>12, <1>13, <1>14, <1>15,
       <1>16, <1>17, <1>18, <1>19, <1>20, <1>21, <1>22, <1>23, <1>24, <1>25, <1>26, <1>27, <1>28, <1>29, <1>30,
       <1>31, <1>32, <1>33 DEF Step

(* A handler's own labels are reached by handlers.                         *)
LEMMA HandlerAt ==
    ASSUME IInv, LoaderControl, NEW a \in Actors,
           pc[a] \notin LoaderLabels \cup {"ev_write"}
    PROVE  a \in Handlers
  BY ActorKinds DEF IInv, LoopControl, LoaderControl, LoaderLabels
-----------------------------------------------------------------------------
LEMMA StepLoader ==
    ASSUME IInv, LoaderControl, NEW a \in Actors, Step(a)
    PROVE  LoaderControl'
  <1>1. CASE a # Loader
    BY <1>1, OthersWait, ActorKinds DEF LoaderControl
  <1>2. CASE a = Loader
    <2>1. /\ pc[a] \in LoaderLabels /\ ret[a] \in {"done", "gs_run", "gs_made"}
          /\ pc \in [Actors -> Labels] /\ ret \in [Actors -> RetLabels]
      BY <1>2, Maps DEF LoaderControl
    <2>2. \/ Finish(a) \/ ContainerConfRead(a) \/ ContainerConfApply(a) \/ ContainerConfLoad(a)
          \/ ContainerConfReset(a) \/ WriteScript(a) \/ FindContainer(a) \/ KeepContainer(a) \/ RemoveContainer(a)
          \/ ContainerCreate(a) \/ ContainerStart(a)
          \/ LoadUrbitConfig(a) \/ UpdateContainerState(a)
      BY <2>1 DEF Step, LoaderLabels, StartLabels, StoreFails, ConfWrites, SettingLabels, Store, PowerOn, PowerOff, DetectBoot,
                  WriteSettings, GetShipStatus, SendPack, WritePack, WriteMeldLast,
                  WaitComplete, WriteMeld, WriteBoot, BarExit,
                  StopContainerByName, DeleteContainer, SetDesiredStopped,
                  RemoveUrbitConfig, CutPier, DeleteVolume, DeleteContainerState
    <2> USE <1>2, <2>1 DEF LoaderControl, LoaderLabels, StartLabels, Goto, CallStart
    <2>3. CASE Finish(a)
      BY <2>3 DEF Finish
    <2>4. CASE \/ ContainerConfRead(a) \/ ContainerConfApply(a) \/ ContainerConfLoad(a)
               \/ ContainerConfReset(a) \/ WriteScript(a)
      BY <2>4 DEF ContainerConfRead, ContainerConfApply, ContainerConfLoad,
                  ContainerConfReset, WriteScript
    <2>5. CASE FindContainer(a) \/ KeepContainer(a) \/ RemoveContainer(a) \/ ContainerCreate(a)
      BY <2>5 DEF FindContainer, KeepContainer, RemoveContainer, ContainerCreate
    <2>6. CASE ContainerStart(a)
      BY <2>6 DEF ContainerStart
    <2>7. CASE LoadUrbitConfig(a) \/ UpdateContainerState(a)
      BY <2>7 DEF LoadUrbitConfig, UpdateContainerState
    <2> QED
      BY <2>2, <2>3, <2>4, <2>5, <2>6, <2>7
  <1> QED
    BY <1>1, <1>2

LEMMA StepUp ==
    ASSUME IInv, DownIdle, NEW a \in Actors, Step(a)
    PROVE  daemon = "up" /\ daemon' = "up" /\ DownIdle'
  BY OthersWait DEF IInv, TypeOK, DownIdle
-----------------------------------------------------------------------------
(* Edits.  The settings asked for are those of the config in memory, or of  *)
(* the file while the daemon is down, and of every copy that will be stored *)
(* and is not stale.                                                       *)
Kept == listed /\ ~Unlisting
CopyLabels == {"sc_apply", "sc_load", "sc_reset"}

WantKept ==
    Kept => /\ daemon = "up" => Settings(mem) = want
            /\ daemon = "down" => Settings(disk) = want
SnapKept ==
    Kept => \A a \in Handlers : pc[a] \notin {"idle", "done"} /\ a \notin stale.snap
                                    => Settings(snap[a]) = want
CandKept ==
    Kept => \A a \in Actors : pc[a] \in CopyLabels /\ a \notin stale.cand
                                    => Settings(cand[a]) = want

Copied == WantKept /\ SnapKept /\ CandKept
EditsInv == IInv /\ LoaderControl /\ DownIdle /\ Coherent /\ Copied

LEMMA SettingsOf ==
    /\ Settings(Absent) = Settings(ZeroConf) /\ Settings(Torn) = Settings(ZeroConf)
    /\ \A c \in Conf : /\ \A b : Settings([c EXCEPT !.boot = b]) = Settings(c)
                       /\ \A v : Settings([c EXCEPT !.ver = v]) = Settings(c)
  BY DEF Settings, Absent, Torn, ZeroConf, Conf

LEMMA UrbitSettings == Settings(UrbitConf) = Settings(mem)
  BY SettingsOf DEF UrbitConf

LEMMA StaleFields ==
    ASSUME IInv, NEW a
    PROVE  /\ [Held EXCEPT !.snap = @ \ {a}].snap = Held.snap \ {a}
           /\ [Held EXCEPT !.snap = @ \ {a}].cand = Held.cand
           /\ [Held EXCEPT !["snap"] = @ \ {a}].snap = Held.snap \ {a}
           /\ [Held EXCEPT !["snap"] = @ \ {a}].cand = Held.cand
           /\ [Held EXCEPT !["cand"] = @ \ {a}].cand = Held.cand \ {a}
           /\ [Held EXCEPT !["cand"] = @ \ {a}].snap = Held.snap
           /\ [stale EXCEPT !["snap"] = @ \ {a}].snap = stale.snap \ {a}
           /\ [stale EXCEPT !["snap"] = @ \ {a}].cand = stale.cand
           /\ [stale EXCEPT !["cand"] = @ \ {a}].cand = stale.cand \ {a}
           /\ [stale EXCEPT !["cand"] = @ \ {a}].snap = stale.snap
  <1>1. stale \in Copies /\ Held \in Copies
    BY HeldType DEF IInv, TypeOK, Copies
  <1> HIDE DEF Held
  <1> QED
    BY <1>1 DEF Copies

(* No step of a goroutine brings a ship back on the list.                  *)
LEMMA KeptBefore ==
    ASSUME IInv, NEW a \in Actors, Step(a), listed' = listed, pc[a] # "unlist", Kept'
    PROVE  Kept
  <1>1. Unlisting => Unlisting'
    BY OthersWait, ActorKinds DEF Unlisting
  <1> QED
    BY <1>1 DEF Kept

(* A step that stores nothing and takes no copy.                           *)
LEMMA SameEdits ==
    ASSUME EditsInv, NEW a \in Actors, Step(a), UNCHANGED <<mem, listed, want, stale>>,
           pc[a] # "unlist", pc'[a] \notin CopyLabels,
           pc'[a] \in {"idle", "done"} \/ (pc[a] # "done" /\ snap'[a] = snap[a])
    PROVE  Copied'
  <1> SUFFICES ASSUME Kept'
               PROVE  Copied'
    BY DEF Copied, WantKept, SnapKept, CandKept
  <1>1. Kept
    BY KeptBefore DEF EditsInv
  <1>2. daemon = "up" /\ daemon' = "up" /\ pc[a] # "idle"
    BY StepUp, OthersWait DEF EditsInv
  <1>3. \A b \in Actors : b # a => pc'[b] = pc[b] /\ snap'[b] = snap[b] /\ cand'[b] = cand[b]
    BY OthersWait DEF EditsInv
  <1>4. WantKept'
    BY <1>1, <1>2 DEF EditsInv, Copied, WantKept, Settings
  <1>5. SnapKept'
    BY <1>1, <1>2, <1>3, ActorKinds DEF EditsInv, Copied, SnapKept, Settings
  <1>6. CandKept'
    BY <1>1, <1>3 DEF EditsInv, Copied, CandKept, Settings
  <1> QED
    BY <1>4, <1>5, <1>6 DEF Copied

(* The settings become those that are stored, and all other copies stale.  *)
LEMMA AllStale ==
    ASSUME EditsInv, NEW a \in Actors, Step(a),
           Settings(mem') = want', Held.snap \ {a} \subseteq stale'.snap,
           Held.cand \ {a} \subseteq stale'.cand,
           \/ a \in stale'.snap \/ pc'[a] \in {"idle", "done"} \/ Settings(snap'[a]) = want',
           \/ a \in stale'.cand \/ pc'[a] \notin CopyLabels \/ Settings(cand'[a]) = want'
    PROVE  Copied'
  <1>1. daemon' = "up"
    BY StepUp DEF EditsInv
  <1>2. \A b \in Actors : b # a => pc'[b] = pc[b] /\ snap'[b] = snap[b] /\ cand'[b] = cand[b]
    BY OthersWait DEF EditsInv
  <1>3. WantKept'
    BY <1>1 DEF WantKept, Settings
  <1>4. ASSUME NEW b \in Handlers, pc'[b] \notin {"idle", "done"}, b \notin stale'.snap
        PROVE  Settings(snap'[b]) = want'
    <2>1. CASE b = a
      BY <1>4, <2>1
    <2>2. CASE b # a
      <3>1. b \in Held.snap
        BY <1>2, <1>4, <2>2, ActorKinds DEF Held
      <3> QED
        BY <1>4, <2>2, <3>1
    <2> QED
      BY <2>1, <2>2
  <1>5. ASSUME NEW b \in Actors, pc'[b] \in CopyLabels, b \notin stale'.cand
        PROVE  Settings(cand'[b]) = want'
    <2>1. CASE b = a
      BY <1>5, <2>1
    <2>2. CASE b # a
      <3>1. b \in Held.cand
        BY <1>2, <1>5, <2>2 DEF Held, CopyLabels
      <3> QED
        BY <1>5, <2>2, <3>1
    <2> QED
      BY <2>1, <2>2
  <1>6. SnapKept'
    BY <1>4 DEF SnapKept, Settings
  <1>7. CandKept'
    BY <1>5 DEF CandKept, Settings
  <1> QED
    BY <1>3, <1>6, <1>7 DEF Copied

LEMMA EditedSettings ==
    ASSUME IInv, NEW a \in Actors
    PROVE  /\ pc[a] \notin SettingLabels => Settings(Edited(a)) = Settings(snap[a])
           /\ pc[a] \in SettingLabels /\ Settings(snap[a]) = want
                => Settings(Edited(a)) = Asked(a)
  <1>1. snap[a] \in Conf /\ want \in Wants
    BY Maps DEF IInv, TypeOK, Wants
  <1>2. ASSUME pc[a] \notin SettingLabels
        PROVE  Settings(Edited(a)) = Settings(snap[a])
    <2>1. \/ \E b \in BootStatuses : Edited(a) = [snap[a] EXCEPT !.boot = b]
          \/ Edited(a) = snap[a]
      <3>1. CASE pc[a] = "w_detect"
        <4> DEFINE d == IF snap[a].boot # "ignore" THEN "ignore"
                        ELSE IF StatusUp THEN "boot" ELSE "noboot"
        <4>1. d \in BootStatuses
          BY DEF BootStatuses
        <4>2. Edited(a) = [snap[a] EXCEPT !.boot = d]
          BY <3>1 DEF Edited
        <4> QED
          BY <4>1, <4>2
      <3>2. CASE pc[a] # "w_detect"
        BY <1>2, <3>2 DEF Edited, SettingLabels, BootStatuses
      <3> QED
        BY <3>1, <3>2
    <2> QED
      BY <1>1, <2>1, SettingsOf
  <1>3. ASSUME pc[a] \in SettingLabels, Settings(snap[a]) = want
        PROVE  Settings(Edited(a)) = Asked(a)
    <2>1. CASE pc[a] = "w_net"
      BY <1>1, <1>3, <2>1 DEF Edited, Asked, Settings, Conf, Wants
    <2>2. CASE pc[a] = "w_args"
      BY <1>1, <1>3, <2>2 DEF Edited, Asked, Settings, Conf, Wants
    <2>3. CASE pc[a] = "w_web"
      BY <1>1, <1>3, <2>3 DEF Edited, Asked, Settings, Conf, Wants
    <2> QED
      BY <1>3, <2>1, <2>2, <2>3 DEF SettingLabels
  <1> QED
    BY <1>2, <1>3

(* A handler stores its snapshot, as edited, or memory alone changes.      *)
LEMMA StoreEdits ==
    ASSUME EditsInv, NEW a \in Actors, Step(a), pc[a] \in ConfWrites,
           mem' = Edited(a), listed' = listed, Account(a), pc'[a] \notin CopyLabels,
           snap'[a] = Edited(a) \/ pc'[a] = "done"
    PROVE  Copied'
  <1> SUFFICES ASSUME Kept'
               PROVE  Copied'
    BY DEF Copied, WantKept, SnapKept, CandKept
  <1>1. a \in Handlers /\ pc[a] \notin {"idle", "done", "unlist"}
    BY HandlerAt DEF EditsInv, ConfWrites, SettingLabels, LoaderLabels, StartLabels
  <1>2. Kept
    BY <1>1, KeptBefore DEF EditsInv
  <1>3. daemon = "up" /\ daemon' = "up"
    BY StepUp DEF EditsInv
  <1>4. \A b \in Actors : b # a => pc'[b] = pc[b] /\ snap'[b] = snap[b] /\ cand'[b] = cand[b]
    BY OthersWait DEF EditsInv
  <1>5. a \notin stale.snap => Settings(snap[a]) = want
    BY <1>1, <1>2 DEF EditsInv, Copied, SnapKept
  <1>6. CASE pc[a] \in SettingLabels /\ a \notin stale.snap
    <2>1. want' = Asked(a) /\ stale' = [Held EXCEPT !.snap = @ \ {a}]
      BY <1>6 DEF Account
    <2>2. Settings(mem') = want'
      BY <1>5, <1>6, <2>1, EditedSettings DEF EditsInv
    <2>3. stale'.snap = Held.snap \ {a} /\ stale'.cand = Held.cand
      BY <2>1, StaleFields DEF EditsInv
    <2>4. \/ pc'[a] \in {"idle", "done"} \/ Settings(snap'[a]) = want'
      BY <2>2
    <2> QED
      BY <2>2, <2>3, <2>4, AllStale
  <1>7. CASE ~(pc[a] \in SettingLabels /\ a \notin stale.snap) /\ a \in stale.snap
    <2>1. want' = Settings(Edited(a)) /\ stale' = [Held EXCEPT !["snap"] = @ \ {a}]
      BY <1>7 DEF Account, Stored
    <2>2. stale'.snap = Held.snap \ {a} /\ stale'.cand = Held.cand
      BY <2>1, StaleFields DEF EditsInv
    <2>3. \/ pc'[a] \in {"idle", "done"} \/ Settings(snap'[a]) = want'
      BY <2>1
    <2>4. Settings(mem') = want'
      BY <2>1
    <2> QED
      BY <2>2, <2>3, <2>4, AllStale
  <1>8. CASE pc[a] \notin SettingLabels /\ a \notin stale.snap
    <2>1. want' = want /\ stale' = stale
      BY <1>8 DEF Account, Stored
    <2>2. Settings(Edited(a)) = want
      BY <1>5, <1>8, EditedSettings DEF EditsInv
    <2>3. WantKept'
      BY <1>3, <2>1, <2>2 DEF WantKept, Settings
    <2>4. SnapKept'
      <3>1. ASSUME NEW b \in Handlers, pc'[b] \notin {"idle", "done"}, b \notin stale'.snap
            PROVE  Settings(snap'[b]) = want'
        <4>1. CASE b = a
          BY <2>1, <2>2, <3>1, <4>1
        <4>2. CASE b # a
          BY <1>2, <1>4, <2>1, <3>1, <4>2, ActorKinds DEF EditsInv, Copied, SnapKept
        <4> QED
          BY <4>1, <4>2
      <3> QED
        BY <3>1 DEF SnapKept, Settings
    <2>5. CandKept'
      BY <1>2, <1>4, <2>1 DEF EditsInv, Copied, CandKept, Settings
    <2> QED
      BY <2>3, <2>4, <2>5 DEF Copied
  <1> QED
    BY <1>6, <1>7, <1>8

(* urbitContainerConf stores its copy.                                     *)
LEMMA StoreCandEdits ==
    ASSUME EditsInv, NEW a \in Actors, Step(a), NEW c \in Conf, listed' = listed,
           pc[a] \in CopyLabels, Settings(c) = Settings(cand[a]),
           snap' = snap, cand' = cand,
           \/ mem' = c /\ Stored(a, "cand", c)
           \/ UNCHANGED <<mem, want, stale>>
    PROVE  Copied'
  <1> SUFFICES ASSUME Kept'
               PROVE  Copied'
    BY DEF Copied, WantKept, SnapKept, CandKept
  <1>1. pc[a] \notin {"idle", "done", "unlist"}
    BY DEF CopyLabels
  <1>2. Kept
    BY <1>1, KeptBefore DEF EditsInv
  <1>3. daemon = "up" /\ daemon' = "up"
    BY StepUp DEF EditsInv
  <1>4. \A b \in Actors : b # a => pc'[b] = pc[b]
    BY OthersWait DEF EditsInv
  <1>5. CASE mem' = c /\ Stored(a, "cand", c) /\ a \in stale.cand
    <2>1. want' = Settings(c) /\ stale' = [Held EXCEPT !["cand"] = @ \ {a}]
      BY <1>5 DEF Stored
    <2>2. stale'.cand = Held.cand \ {a} /\ stale'.snap = Held.snap
      BY <2>1, StaleFields DEF EditsInv
    <2>3. Settings(cand'[a]) = want' /\ Settings(mem') = want'
      BY <1>5, <2>1
    <2>4. a \in stale'.snap \/ a \notin Handlers
      BY <1>1, <2>2 DEF Held
    <2>5. CASE a \in stale'.snap
      BY <2>2, <2>3, <2>5, AllStale
    <2>6. CASE a \notin Handlers
      <3>1. WantKept'
        BY <1>3, <2>3 DEF WantKept, Settings
      <3>2. SnapKept'
        <4>1. ASSUME NEW b \in Handlers, pc'[b] \notin {"idle", "done"}, b \notin stale'.snap
              PROVE  FALSE
          BY <1>4, <2>2, <2>6, <4>1, ActorKinds DEF Held
        <4> QED
          BY <4>1 DEF SnapKept
      <3>3. CandKept'
        <4>1. ASSUME NEW b \in Actors, pc'[b] \in CopyLabels, b \notin stale'.cand
              PROVE  Settings(cand'[b]) = want'
          BY <1>4, <2>2, <2>3, <4>1 DEF Held, CopyLabels
        <4> QED
          BY <4>1 DEF CandKept, Settings
      <3> QED
        BY <3>1, <3>2, <3>3 DEF Copied
    <2> QED
      BY <2>4, <2>5, <2>6
  <1>6. CASE Settings(mem') = want /\ UNCHANGED <<want, stale>>
    <2>1. WantKept'
      BY <1>3, <1>6 DEF WantKept, Settings
    <2>2. SnapKept'
      BY <1>1, <1>2, <1>4, <1>6, ActorKinds DEF EditsInv, Copied, SnapKept, Settings
    <2>3. CandKept'
      BY <1>2, <1>4, <1>6 DEF EditsInv, Copied, CandKept, Settings
    <2> QED
      BY <2>1, <2>2, <2>3 DEF Copied
  <1>7. Settings(mem) = want
    BY <1>2, <1>3 DEF EditsInv, Copied, WantKept
  <1>8. CASE mem' = c /\ Stored(a, "cand", c) /\ a \notin stale.cand
    <2>1. Settings(cand[a]) = want
      BY <1>2, <1>8 DEF EditsInv, Copied, CandKept
    <2>2. UNCHANGED <<want, stale>>
      BY <1>8 DEF Stored
    <2> QED
      BY <1>6, <1>8, <2>1, <2>2
  <1>9. CASE UNCHANGED <<mem, want, stale>>
    BY <1>6, <1>7, <1>9
  <1> QED
    BY <1>5, <1>8, <1>9

(* The file is loaded: what only memory held is lost.                      *)
LEMMA LoadEdits ==
    ASSUME EditsInv, NEW a \in Actors, Step(a), UNCHANGED <<listed, snap, cand>>,
           pc[a] \notin {"idle", "done", "unlist"},
           pc'[a] \in CopyLabels => pc[a] \in CopyLabels,
           \/ ReadUrbitConfig
           \/ ~listed,
           IF Readable /\ listed /\ behind
           THEN want' = Settings(disk) /\ stale' = Held
           ELSE UNCHANGED <<want, stale>>
    PROVE  Copied'
  <1> SUFFICES ASSUME Kept'
               PROVE  Copied'
    BY DEF Copied, WantKept, SnapKept, CandKept
  <1>1. Kept /\ listed
    BY KeptBefore DEF EditsInv, Kept
  <1>2. daemon = "up" /\ daemon' = "up"
    BY StepUp DEF EditsInv
  <1>3. \A b \in Actors : b # a => pc'[b] = pc[b]
    BY OthersWait DEF EditsInv
  <1>4. CASE Readable /\ behind
    <2>1. Settings(mem') = want' /\ stale' = Held
      BY <1>1, <1>4 DEF ReadUrbitConfig
    <2>2. a \in stale'.cand \/ pc'[a] \notin CopyLabels
      BY <2>1 DEF Held, CopyLabels
    <2>3. \A b \in Handlers : pc'[b] \notin {"idle", "done"} => b \in stale'.snap
      BY <1>3, <2>1, ActorKinds DEF Held
    <2>4. \A b \in Actors : pc'[b] \in CopyLabels => b \in stale'.cand
      BY <1>3, <2>1, <2>2 DEF Held, CopyLabels
    <2>5. WantKept'
      BY <1>2, <2>1 DEF WantKept, Settings
    <2> QED
      BY <2>3, <2>4, <2>5 DEF Copied, SnapKept, CandKept
  <1>5. CASE ~(Readable /\ behind)
    <2>1. UNCHANGED <<want, stale>> /\ Settings(mem) = want
      BY <1>1, <1>2, <1>5 DEF EditsInv, Copied, WantKept
    <2>2. Settings(mem') = want
      <3>1. CASE Readable
        <4>1. mem = disk /\ mem' = disk
          BY <1>1, <1>2, <1>5, <3>1 DEF EditsInv, Coherent, ReadUrbitConfig
        <4> QED
          BY <2>1, <4>1
      <3>2. CASE ~Readable
        BY <1>1, <2>1, <3>2 DEF ReadUrbitConfig
      <3> QED
        BY <3>1, <3>2
    <2>3. WantKept'
      BY <1>2, <2>1, <2>2 DEF WantKept, Settings
    <2>4. SnapKept'
      BY <1>1, <1>3, <2>1, ActorKinds DEF EditsInv, Copied, SnapKept, Settings
    <2>5. CandKept'
      BY <1>1, <1>3, <2>1 DEF EditsInv, Copied, CandKept, Settings
    <2> QED
      BY <2>3, <2>4, <2>5 DEF Copied
  <1> QED
    BY <1>4, <1>5

LEMMA StepEdits ==
    ASSUME EditsInv, NEW a \in Actors, Step(a)
    PROVE  Copied'
  <1>0. /\ IInv /\ LoaderControl /\ pc \in [Actors -> Labels] /\ ret[a] \in RetLabels
        /\ snap \in [Actors -> Conf] /\ cand \in [Actors -> Conf]
        /\ snap[a] \in Conf /\ cand[a] \in Conf /\ latest \in 0..MaxVersion
        /\ pc[a] # "idle"
    <2>1. latest \in 1..MaxVersion
      BY DEF EditsInv, IInv, TypeOK
    <2>2. latest \in 0..MaxVersion
      BY <2>1, ShipBootAssumption
    <2> QED
      BY <2>2, OthersWait, Maps DEF EditsInv
  <1>1. ASSUME NEW l \in ConfWrites, Store(a, l), pc'[a] \notin CopyLabels
        PROVE  Copied'
    <2>1. snap'[a] = Edited(a) /\ mem' = Edited(a) /\ listed' = listed /\ pc[a] = l
      BY <1>0, <1>1 DEF Store, UpdateUrbitConfig
    <2> QED
      BY <1>1, <2>1, StoreEdits DEF Store
  <1>2. CASE \/ PowerOn(a) \/ PowerOff(a) \/ DetectBoot(a) \/ WritePack(a)
             \/ WriteMeldLast(a) \/ WriteMeld(a) \/ WriteBoot(a) \/ WriteSettings(a)
    <2>1. \E l \in ConfWrites : Store(a, l) /\ pc'[a] \in {"sc_conf", "exit", "done", "rm"}
      BY <1>0, <1>2 DEF PowerOn, PowerOff, DetectBoot, WritePack, WriteMeldLast, WriteMeld,
             WriteBoot, WriteSettings, AfterWrite, CallStart, Goto, ConfWrites, SettingLabels
    <2> QED
      BY <1>1, <2>1 DEF CopyLabels
  <1>3. CASE StoreFails(a)
    <2>1. /\ mem' = Edited(a) /\ listed' = listed /\ pc'[a] = "done"
          /\ pc[a] \in ConfWrites /\ Account(a)
      BY <1>0, <1>3 DEF StoreFails, SaveFails, Goto
    <2> QED
      BY <2>1, StoreEdits DEF CopyLabels
  <1>4. CASE Finish(a)
    <2>1. UNCHANGED <<mem, listed, want, stale>> /\ pc'[a] = "idle" /\ pc[a] = "done"
      BY <1>0, <1>4 DEF Finish, Goto, confVars
    <2> QED
      BY <2>1, SameEdits DEF CopyLabels
  <1>5. CASE GetShipStatus(a) \/ SendPack(a) \/ WaitComplete(a) \/ SetDesiredStopped(a)
             \/ DeleteVolume(a) \/ DeleteContainerState(a) \/ FindContainer(a)
             \/ UpdateContainerState(a) \/ WriteScript(a)
    <2>1. /\ UNCHANGED <<mem, listed, want, stale>> /\ snap' = snap
          /\ pc[a] \notin {"unlist", "done"} /\ pc'[a] \notin CopyLabels
      BY <1>0, <1>5 DEF GetShipStatus, SendPack, WaitComplete, SetDesiredStopped,
            DeleteVolume, DeleteContainerState, FindContainer, UpdateContainerState,
            WriteScript, Goto, confVars, CopyLabels
    <2> QED
      BY <2>1, SameEdits
  <1>6. CASE BarExit(a) \/ StopContainerByName(a)
    <2>1. AfterExit(op[a]) \in {"done", "w_pack", "rm"}
      BY <1>0, <1>6, ExitLabel DEF IInv, OpAtLabel, BarExit, StopContainerByName
    <2>2. /\ UNCHANGED <<mem, listed, want, stale>> /\ snap' = snap
          /\ pc[a] \notin {"unlist", "done"} /\ pc'[a] \notin CopyLabels
      BY <1>0, <1>6, <2>1 DEF BarExit, StopContainerByName, Goto, confVars, CopyLabels
    <2> QED
      BY <2>2, SameEdits
  <1>7. CASE DeleteContainer(a)
    <2>1. /\ UNCHANGED <<mem, listed, want, stale>> /\ snap' = snap
          /\ pc[a] \notin {"unlist", "done"} /\ pc'[a] \notin CopyLabels
      BY <1>0, <1>7 DEF DeleteContainer, CallStart, Goto, confVars, CopyLabels
    <2> QED
      BY <2>1, SameEdits
  <1>8. CASE KeepContainer(a) \/ RemoveContainer(a) \/ ContainerCreate(a) \/ ContainerStart(a)
    <2>1. /\ UNCHANGED <<mem, listed, want, stale>> /\ snap' = snap
          /\ pc[a] \notin {"unlist", "done"} /\ pc'[a] \notin CopyLabels
      BY <1>0, <1>8 DEF KeepContainer, RemoveContainer, ContainerCreate, ContainerStart,
            Goto, confVars, CopyLabels, RetLabels
    <2> QED
      BY <2>1, SameEdits
  <1>9. CASE RemoveUrbitConfig(a)
    <2>1. a \in Handlers /\ pc'[a] = "unlist"
      BY <1>0, <1>9, HandlerAt DEF RemoveUrbitConfig, Goto, LoaderLabels, StartLabels
    <2>2. ~Kept'
      BY <2>1 DEF Kept, Unlisting
    <2> QED
      BY <2>2 DEF Copied, WantKept, SnapKept, CandKept
  <1>10. CASE CutPier(a)
    BY <1>10 DEF CutPier, Copied, WantKept, SnapKept, CandKept, Kept
  <1>11. CASE ContainerConfRead(a)
    <2>1. /\ cand'[a] = UrbitConf /\ pc'[a] = "sc_apply" /\ pc[a] = "sc_conf"
          /\ UNCHANGED <<mem, listed, want, snap>>
          /\ stale' = [stale EXCEPT !["cand"] = @ \ {a}]
      BY <1>0, <1>11 DEF ContainerConfRead, Goto, Fresh, confVars
    <2>2. stale'.cand = stale.cand \ {a} /\ stale'.snap = stale.snap
      BY <1>0, <2>1, StaleFields
    <2> SUFFICES ASSUME Kept'
                 PROVE  Copied'
      BY DEF Copied, WantKept, SnapKept, CandKept
    <2>3. Kept
      BY <1>0, <2>1, KeptBefore
    <2>4. daemon = "up" /\ daemon' = "up"
      BY StepUp DEF EditsInv
    <2>5. Settings(mem) = want
      BY <2>3, <2>4 DEF EditsInv, Copied, WantKept
    <2>6. \A b \in Actors : b # a => pc'[b] = pc[b] /\ cand'[b] = cand[b]
      BY <1>0, OthersWait
    <2>7. WantKept'
      BY <2>1, <2>4, <2>5 DEF WantKept, Settings
    <2>8. SnapKept'
      BY <2>1, <2>2, <2>3, <2>6, ActorKinds DEF EditsInv, Copied, SnapKept, Settings
    <2>9. CandKept'
      <3>1. ASSUME NEW b \in Actors, pc'[b] \in CopyLabels, b \notin stale'.cand
            PROVE  Settings(cand'[b]) = want
        <4>1. CASE b = a
          BY <2>1, <2>5, <4>1, UrbitSettings
        <4>2. CASE b # a
          BY <2>2, <2>3, <2>6, <3>1, <4>2 DEF EditsInv, Copied, CandKept
        <4> QED
          BY <4>1, <4>2
      <3> QED
        BY <2>1, <3>1 DEF CandKept, Settings
    <2> QED
      BY <2>7, <2>8, <2>9 DEF Copied
  <1>12. CASE ContainerConfApply(a)
    <2> DEFINE c == [cand[a] EXCEPT !.ver = latest]
    <2>1. c \in Conf /\ Settings(c) = Settings(cand[a])
      BY <1>0, VersionUpdate, SettingsOf
    <2>2. /\ pc[a] \in CopyLabels /\ listed' = listed /\ snap' = snap /\ cand' = cand
          /\ \/ mem' = c /\ Stored(a, "cand", c)
             \/ UNCHANGED <<mem, want, stale>>
      BY <1>12 DEF ContainerConfApply, StoreCand, UpdateUrbitConfig, SaveFails, CopyLabels
    <2> HIDE DEF c
    <2> QED
      BY <2>1, <2>2, StoreCandEdits
  <1>13. CASE ContainerConfReset(a)
    <2> DEFINE c == [cand[a] EXCEPT !.boot = ResetBoot(@)]
    <2>1. c \in Conf /\ Settings(c) = Settings(cand[a])
      <3>1. cand[a].boot \in BootStatuses
        BY <1>0 DEF Conf
      <3>2. ResetBoot(cand[a].boot) \in BootStatuses
        BY <3>1 DEF ResetBoot, BootStatuses
      <3>3. c = [cand[a] EXCEPT !.boot = ResetBoot(cand[a].boot)]
        OBVIOUS
      <3> HIDE DEF c
      <3> QED
        BY <1>0, <3>2, <3>3, BootUpdate, SettingsOf
    <2>2. /\ pc[a] \in CopyLabels /\ listed' = listed /\ snap' = snap /\ cand' = cand
          /\ \/ mem' = c /\ Stored(a, "cand", c)
             \/ UNCHANGED <<mem, want, stale>>
      BY <1>13 DEF ContainerConfReset, StoreCand, UpdateUrbitConfig, SaveFails, CopyLabels
    <2> HIDE DEF c
    <2> QED
      BY <2>1, <2>2, StoreCandEdits
  <1>14. CASE ContainerConfLoad(a)
    <2>1. /\ pc[a] = "sc_load" /\ UNCHANGED <<listed, snap, cand>> /\ ReadUrbitConfig
          /\ IF Readable /\ behind
             THEN want' = Settings(disk) /\ stale' = Held
             ELSE UNCHANGED <<want, stale>>
      BY <1>14 DEF ContainerConfLoad
    <2>2. CASE ~listed
      BY <2>1, <2>2 DEF Copied, WantKept, SnapKept, CandKept, Kept
    <2>3. CASE listed
      BY <2>1, <2>3, LoadEdits DEF CopyLabels
    <2> QED
      BY <2>2, <2>3
  <1>15. CASE LoadUrbitConfig(a)
    <2>1. /\ pc[a] = "reload" /\ UNCHANGED <<listed, snap, cand>>
          /\ ReadUrbitConfig \/ ~listed
          /\ IF Readable /\ listed /\ behind
             THEN want' = Settings(disk) /\ stale' = Held
             ELSE UNCHANGED <<want, stale>>
          /\ pc'[a] \in {"sc_conf", "done"}
      BY <1>0, <1>15 DEF LoadUrbitConfig, CallStart, Goto
    <2> QED
      BY <2>1, LoadEdits DEF CopyLabels
  <1> QED
    BY <1>2, <1>3, <1>4, <1>5, <1>6, <1>7, <1>8, <1>9, <1>10, <1>11, <1>12, <1>13, <1>14, <1>15
       DEF Step

LEMMA BeginEdits ==
    ASSUME EditsInv, NEW a \in Handlers, NEW o \in Ops, Begin(a, o)
    PROVE  LoaderControl' /\ DownIdle' /\ Copied'
  <1>1. /\ a \in Actors /\ a # Loader /\ o \in AllOps /\ IInv
        /\ pc \in [Actors -> Labels] /\ snap \in [Actors -> Conf]
    BY ActorKinds, Maps, ShipBootAssumption DEF EditsInv
  <1>2. /\ daemon = "up" /\ UNCHANGED <<mem, listed, daemon, cand, ret, want>>
        /\ pc'[a] = Entry(o, UrbitConf) /\ snap'[a] = UrbitConf
        /\ \A b \in Actors : b # a => pc'[b] = pc[b] /\ snap'[b] = snap[b]
        /\ pc[a] = "idle"
        /\ stale' = [stale EXCEPT !["snap"] = @ \ {a}]
    BY <1>1 DEF Begin, Goto, Fresh, confVars
  <1>3. stale'.snap = stale.snap \ {a} /\ stale'.cand = stale.cand
    BY <1>1, <1>2, StaleFields
  <1>4. Entry(o, UrbitConf) \notin CopyLabels \cup {"unlist"}
    BY <1>1 DEF Entry, AllOps, CopyLabels
  <1>5. LoaderControl' /\ DownIdle'
    BY <1>1, <1>2, ActorKinds DEF EditsInv, LoaderControl, DownIdle
  <1> SUFFICES ASSUME Kept'
               PROVE  Copied'
    BY <1>5 DEF Copied, WantKept, SnapKept, CandKept
  <1>6. Kept
    BY <1>2, <1>4, ActorKinds DEF Kept, Unlisting
  <1>7. Settings(UrbitConf) = want /\ Settings(mem) = want
    BY <1>2, <1>6, UrbitSettings DEF EditsInv, Copied, WantKept
  <1>8. WantKept'
    BY <1>2, <1>7 DEF WantKept, Settings
  <1>9. SnapKept'
    <2>1. ASSUME NEW b \in Handlers, pc'[b] \notin {"idle", "done"}, b \notin stale'.snap
          PROVE  Settings(snap'[b]) = want
      <3>1. CASE b = a
        BY <1>2, <1>7, <3>1
      <3>2. CASE b # a
        BY <1>2, <1>3, <1>6, <2>1, <3>2, ActorKinds DEF EditsInv, Copied, SnapKept
      <3> QED
        BY <3>1, <3>2
    <2> QED
      BY <1>2, <2>1 DEF SnapKept, Settings
  <1>10. CandKept'
    BY <1>2, <1>3, <1>4, <1>6 DEF EditsInv, Copied, CandKept, Settings
  <1> QED
    BY <1>5, <1>8, <1>9, <1>10 DEF Copied

LEMMA LoopEdits ==
    ASSUME EditsInv, TakeEvent \/ HandleEvent
    PROVE  LoaderControl' /\ DownIdle' /\ Copied'
  <1>1. /\ pc \in [Actors -> Labels] /\ ret \in [Actors -> RetLabels] /\ EL \in Actors
    BY ActorKinds, Maps DEF EditsInv
  <1>2. /\ UNCHANGED <<mem, disk, listed, daemon, snap, cand, want, stale>>
        /\ \A b \in Actors : b # EL => pc'[b] = pc[b] /\ ret'[b] = ret[b]
        /\ pc'[EL] \notin CopyLabels /\ daemon = "up"
    <2>1. CASE TakeEvent
      BY <1>1, <2>1 DEF TakeEvent, Goto, confVars, CopyLabels
    <2>2. CASE HandleEvent
      <3>1. daemon = "up"
        BY <1>1, <2>2 DEF HandleEvent, EditsInv, DownIdle, IInv, TypeOK
      <3> QED
        BY <1>1, <2>2, <3>1 DEF HandleEvent, CallStart, Goto, confVars, CopyLabels
    <2> QED
      BY <2>1, <2>2
  <1>3. LoaderControl' /\ DownIdle'
    BY <1>2, ActorKinds DEF EditsInv, LoaderControl, DownIdle
  <1>4. Kept' => Kept
    BY <1>2, ActorKinds DEF Kept, Unlisting
  <1>5. WantKept' /\ SnapKept' /\ CandKept'
    BY <1>2, <1>4, ActorKinds DEF EditsInv, Copied, WantKept, SnapKept, CandKept, Settings
  <1> QED
    BY <1>3, <1>5 DEF Copied

(* A kill loses nothing that was saved.                                    *)
LEMMA CrashEdits ==
    ASSUME EditsInv, Crash
    PROVE  LoaderControl' /\ DownIdle' /\ Copied'
  <1>1. /\ daemon = "up" /\ daemon' = "down" /\ mem' = Absent /\ gs' = NoState
        /\ listed' = listed
        /\ \A b \in Actors : pc'[b] = "idle" /\ ret'[b] = "done"
        /\ want' = IF behind \/ disk' \in {Absent, Torn} \/ Unlisting
                   THEN Settings(disk') ELSE want
        /\ disk' = disk \/ disk' = Torn
    BY DEF Crash
  <1>2. LoaderControl' /\ DownIdle'
    BY <1>1, ActorKinds DEF LoaderControl, LoaderLabels, DownIdle
  <1>3. SnapKept' /\ CandKept'
    BY <1>1, ActorKinds DEF SnapKept, CandKept, CopyLabels
  <1>4. ASSUME listed
        PROVE  Settings(disk') = want'
    <2>1. CASE behind \/ disk' \in {Absent, Torn} \/ Unlisting
      BY <1>1, <2>1
    <2>2. CASE ~(behind \/ disk' \in {Absent, Torn} \/ Unlisting)
      <3>1. disk' = disk /\ want' = want /\ Kept
        BY <1>1, <1>4, <2>2 DEF Kept
      <3>2. mem = disk
        BY <1>1, <1>4, <2>2, <3>1 DEF EditsInv, Coherent, Readable
      <3> QED
        BY <1>1, <3>1, <3>2 DEF EditsInv, Copied, WantKept
    <2> QED
      BY <2>1, <2>2
  <1>5. WantKept'
    BY <1>1, <1>4 DEF WantKept, Kept, Settings
  <1> QED
    BY <1>2, <1>3, <1>5 DEF Copied

LEMMA RestartEdits ==
    ASSUME EditsInv, Restart
    PROVE  LoaderControl' /\ DownIdle' /\ Copied'
  <1>1. /\ daemon = "down" /\ daemon' = "up" /\ UNCHANGED <<listed, disk, want, ret>>
        /\ mem' = (IF Readable /\ listed THEN disk ELSE Absent)
        /\ \A b \in Actors : pc[b] = "idle"
        /\ pc'[Loader] = "reload" /\ \A b \in Actors : b # Loader => pc'[b] = "idle"
    BY Maps, ActorKinds DEF EditsInv, Restart, Goto, DownIdle
  <1>2. LoaderControl' /\ DownIdle'
    BY <1>1 DEF EditsInv, LoaderControl, LoaderLabels, DownIdle
  <1>3. SnapKept' /\ CandKept'
    BY <1>1, ActorKinds DEF SnapKept, CandKept, CopyLabels
  <1>4. ASSUME listed
        PROVE  Settings(mem') = want
    <2>1. Settings(disk) = want
      BY <1>1, <1>4, ActorKinds DEF EditsInv, Copied, WantKept, Kept, Unlisting
    <2>2. CASE Readable
      BY <1>1, <1>4, <2>1, <2>2
    <2>3. CASE ~Readable
      BY <1>1, <2>1, <2>3, SettingsOf DEF Readable
    <2> QED
      BY <2>2, <2>3
  <1>5. WantKept'
    BY <1>1, <1>4 DEF WantKept, Kept, Settings
  <1> QED
    BY <1>2, <1>3, <1>5 DEF Copied

LEMMA NextEdits == EditsInv /\ [Next]_vars => EditsInv'
  <1> SUFFICES ASSUME EditsInv, [Next]_vars
               PROVE  EditsInv'
    OBVIOUS
  <1>1. IInv' /\ Coherent'
    BY NextInv, CoherentStep DEF EditsInv
  <1> SUFFICES LoaderControl' /\ DownIdle' /\ Copied'
    BY <1>1 DEF EditsInv
  <1>2. CASE \E a \in Handlers, o \in Ops : Begin(a, o)
    BY <1>2, BeginEdits
  <1>3. CASE \E a \in Actors : Step(a)
    BY <1>3, StepLoader, StepUp, StepEdits DEF EditsInv
  <1>4. CASE TakeEvent \/ HandleEvent
    BY <1>4, LoopEdits
  <1>5. CASE ShipExits \/ NewRelease \/ UNCHANGED vars
    <2>1. UNCHANGED <<mem, disk, listed, gs, daemon, pc, ret, snap, cand, want, stale>>
      BY <1>5 DEF ShipExits, NewRelease, vars, confVars, actorVars
    <2> QED
      BY <2>1 DEF EditsInv, LoaderControl, DownIdle, Copied, WantKept, SnapKept, CandKept, Kept,
                  Unlisting, Settings
  <1>6. CASE Crash
    BY <1>6, CrashEdits
  <1>7. CASE Restart
    BY <1>7, RestartEdits
  <1> QED
    BY <1>2, <1>3, <1>4, <1>5, <1>6, <1>7 DEF Next

LEMMA InitEdits == Init => EditsInv
  <1> SUFFICES ASSUME Init
               PROVE  EditsInv
    OBVIOUS
  <1>1. /\ pc = [a \in Actors |-> IF a = Loader THEN "reload" ELSE "idle"]
        /\ ret = [a \in Actors |-> "done"] /\ daemon = "up"
        /\ want = Settings(mem) /\ disk = mem
    BY Zenon DEF Init
  <1>2. LoaderControl /\ DownIdle
    BY <1>1, ActorKinds DEF LoaderControl, LoaderLabels, DownIdle
  <1>3. WantKept /\ SnapKept /\ CandKept
    BY <1>1, ActorKinds DEF WantKept, SnapKept, CandKept, CopyLabels
  <1>4. Coherent
    BY <1>1 DEF Coherent
  <1> QED
    BY <1>2, <1>3, <1>4, InitInv DEF EditsInv, Copied

(* An edit is lost only to a goroutine that stores a copy of the config     *)
(* older than the edit, to a save that fails, or to a torn file             *)
(* (EditsKept): for any number of handlers, whatever they ask for and       *)
(* however they interleave with the event loop and with LoadUrbits, and     *)
(* across kills.                                                          *)
THEOREM EditsKeptHolds == Spec => []EditsKept
  <1>1. EditsInv => EditsKept
    BY ActorKinds DEF EditsInv, Copied, WantKept, EditsKept, Quiescent, Kept, Unlisting
  <1> QED
    BY <1>1, InitEdits, NextEdits, PTL DEF Spec
=============================================================================
