--------------------------- MODULE ShipSoloProofs ---------------------------
(***************************************************************************)
(* Proofs about ShipBoot when users act one at a time: one handler runs,   *)
(* and it begins once LoadUrbits has returned and docker's events are      *)
(* handled.  The event loop still runs next to it.                         *)
(***************************************************************************)
EXTENDS ShipBootProofs

OneAtATime ==
    /\ \A a, b \in Handlers : a = b
    /\ Awaited = {"loader", "events"}
-----------------------------------------------------------------------------
(* Who stands where.                                                       *)

CandLabels == {"sc_apply", "sc_load", "sc_reset", "sc_script", "sc_find", "sc_switch",
               "sc_create", "sc_start", "cc_create"}

LoaderFirst == \A a \in Handlers : pc[a] # "idle" => pc[Loader] = "idle"

Control == IInv /\ LoaderControl /\ LoaderFirst /\ DownIdle

LEMMA StepFirst ==
    ASSUME Control, OneAtATime, NEW a \in Actors, Step(a)
    PROVE  LoaderFirst' /\ DownIdle'
  <1>1. daemon = "up" /\ daemon' = daemon
    BY StepUp, OthersWait DEF Control
  <1>2. LoaderFirst'
    <2>1. ASSUME NEW b \in Handlers, pc'[b] # "idle"
          PROVE  pc'[Loader] = "idle"
      <3>1. CASE a = Loader
        BY <2>1, <3>1, OthersWait, ActorKinds DEF Control, LoaderFirst
      <3>2. CASE a # Loader
        <4>1. pc'[Loader] = pc[Loader]
          BY <3>2, OthersWait, ActorKinds DEF Control
        <4>2. CASE a = b
          BY <4>1, <4>2, OthersWait DEF Control, LoaderFirst
        <4>3. CASE a # b
          BY <2>1, <4>1, <4>3, OthersWait, ActorKinds DEF Control, LoaderFirst
        <4> QED
          BY <4>2, <4>3
      <3> QED
        BY <3>1, <3>2
    <2> QED
      BY <2>1 DEF LoaderFirst
  <1> QED
    BY <1>1, <1>2 DEF DownIdle

LEMMA BeginEffect ==
    ASSUME Control, OneAtATime, NEW a \in Handlers, NEW o \in Ops, Begin(a, o)
    PROVE  /\ daemon = "up" /\ listed /\ \A b \in Actors : pc[b] = "idle"
           /\ events = <<>>
           /\ a \in Actors /\ o \in AllOps
           /\ pc'[a] = Entry(o, UrbitConf) /\ snap'[a] = UrbitConf
           /\ \A b \in Actors : b # a => pc'[b] = pc[b] /\ snap'[b] = snap[b]
           /\ UNCHANGED <<mem, disk, listed, cont, events, script, vol, latest, gs, daemon,
                          cand, ret, up, found, held, want, fails, behind>>
  <1>1. /\ daemon = "up" /\ listed /\ pc[a] = "idle" /\ pc[Loader] = "idle"
        /\ pc[EL] = "idle" /\ events = <<>> /\ a \in Actors
    BY ActorKinds DEF Begin, OneAtATime
  <1>2. \A b \in Actors : pc[b] = "idle"
    BY <1>1, ActorKinds DEF OneAtATime
  <1>3. o \in AllOps
    BY ShipBootAssumption
  <1> QED
    BY <1>1, <1>2, <1>3, Maps DEF Control, Begin, Goto, confVars, dockVars

LEMMA BeginControl ==
    ASSUME Control, OneAtATime, NEW a \in Handlers, NEW o \in Ops, Begin(a, o)
    PROVE  Control'
  <1>1. IInv'
    BY BeginInv DEF Control
  <1>2. pc'[Loader] = "idle" /\ ret'[Loader] = ret[Loader] /\ daemon' = "up"
    BY BeginEffect, ActorKinds
  <1> QED
    BY <1>1, <1>2 DEF Control, LoaderControl, LoaderLabels, LoaderFirst, DownIdle

LEMMA NextControl ==
    ASSUME Control, OneAtATime, [Next]_vars
    PROVE  Control'
  <1>1. IInv'
    BY NextInv DEF Control
  <1> USE <1>1 DEF Control
  <1>2. CASE \E a \in Handlers, o \in Ops : Begin(a, o)
    BY <1>2, BeginControl
  <1>3. CASE \E a \in Actors : Step(a)
    BY <1>3, StepLoader, StepFirst
  <1>4. CASE TakeEvent \/ HandleEvent
    <2>1. /\ pc'[Loader] = pc[Loader] /\ ret'[Loader] = ret[Loader]
          /\ \A b \in Handlers : pc'[b] = pc[b]
          /\ daemon' = daemon /\ daemon = "up"
      <3>1. CASE TakeEvent
        BY <3>1, ActorKinds, Maps DEF TakeEvent, Goto, confVars
      <3>2. CASE HandleEvent
        <4>1. daemon = "up"
          BY <3>2, ActorKinds DEF HandleEvent, DownIdle, IInv, TypeOK
        <4>2. daemon' = daemon /\ ret'[Loader] = ret[Loader]
          BY <3>2, ActorKinds, Maps DEF HandleEvent, CallStart, Goto
        <4>3. \A b \in Actors : b # EL => pc'[b] = pc[b]
          BY <3>2, Maps DEF HandleEvent, CallStart, Goto
        <4> QED
          BY <4>1, <4>2, <4>3, ActorKinds
      <3> QED
        BY <1>4, <3>1, <3>2
    <2> QED
      BY <2>1 DEF LoaderControl, LoaderFirst, DownIdle
  <1>5. CASE ShipExits \/ NewRelease
    BY <1>5 DEF ShipExits, NewRelease, LoaderControl, LoaderFirst, DownIdle, confVars,
                dockVars, actorVars
  <1>6. CASE Crash
    BY <1>6, ActorKinds DEF Crash, LoaderControl, LoaderLabels, LoaderFirst, DownIdle
  <1>7. CASE Restart
    BY <1>7, ActorKinds, Maps
       DEF Restart, Goto, LoaderControl, LoaderLabels, LoaderFirst, DownIdle
  <1>8. CASE UNCHANGED vars
    BY <1>8 DEF vars, LoaderControl, LoaderFirst, DownIdle
  <1> QED
    BY <1>2, <1>3, <1>4, <1>5, <1>6, <1>7, <1>8 DEF Next

LEMMA InitControl == Init => Control
  <1> SUFFICES ASSUME Init
               PROVE  Control
    OBVIOUS
  <1>1. /\ pc = [a \in Actors |-> IF a = Loader THEN "reload" ELSE "idle"]
        /\ ret = [a \in Actors |-> "done"] /\ daemon = "up"
    BY Zenon DEF Init
  <1> QED
    BY <1>1, InitInv, ActorKinds
       DEF Control, LoaderControl, LoaderLabels, LoaderFirst, DownIdle
-----------------------------------------------------------------------------
(* While no write has failed, memory and file hold the same config, but for *)
(* a file that cannot be read at startup and a deleted ship, whose file     *)
(* nobody reads again.                                                      *)
Dead == /\ ~listed /\ gs = NoState
        /\ \A a \in Actors : pc[a] \in {"idle", "done", "reload"}

Agree ==
    /\ daemon = "up" => mem = disk \/ (mem = Absent /\ (disk = Torn \/ Dead))
    /\ Unlisting => mem = disk
    /\ ~behind

(* A step that neither touches the two copies nor cuts the pier.           *)
LEMMA SameAgree ==
    ASSUME Control, OneAtATime, Agree, NEW a \in Actors, Step(a),
           UNCHANGED <<mem, disk, listed, behind>>, pc'[a] # "unlist",
           Dead => gs' = gs /\ pc'[a] \in {"idle", "done", "reload"}
    PROVE  Agree'
  <1>1. Unlisting' => Unlisting
    BY OthersWait, ActorKinds DEF Unlisting, Control
  <1>2. Dead => Dead'
    BY OthersWait DEF Dead, Control
  <1>3. daemon' = daemon
    BY OthersWait DEF Control
  <1> QED
    BY <1>1, <1>2, <1>3 DEF Agree

LEMMA NotDead ==
    ASSUME Dead, NEW a \in Actors, pc[a] \notin {"idle", "done", "reload"}
    PROVE  FALSE
  BY DEF Dead

LEMMA StepAgree ==
    ASSUME Control, OneAtATime, Agree, NEW a \in Actors, Step(a), ~WriteFails
    PROVE  Agree'
  <1>0. IInv /\ daemon = "up" /\ pc \in [Actors -> Labels]
    BY OthersWait, Maps DEF Control, IInv, TypeOK, DownIdle
  <1>1. CASE \/ PowerOn(a) \/ PowerOff(a) \/ DetectBoot(a) \/ WritePack(a)
             \/ WriteMeldLast(a) \/ WriteMeld(a) \/ WriteBoot(a) \/ WriteSettings(a)
             \/ RemoveUrbitConfig(a)
    <2>1. mem' = disk' /\ behind' = FALSE
      BY <1>1 DEF PowerOn, PowerOff, DetectBoot, WritePack, WriteMeldLast, WriteMeld,
                  WriteBoot, WriteSettings, Store, UpdateUrbitConfig, SaveFails,
                  RemoveUrbitConfig
    <2> QED
      BY <2>1 DEF Agree
  <1>2. CASE GetShipStatus(a) \/ SendPack(a) \/ WaitComplete(a) \/ BarExit(a)
             \/ StopContainerByName(a) \/ DeleteContainer(a)
    <2>1. UNCHANGED <<mem, disk, listed, behind>> /\ pc'[a] # "unlist"
          /\ pc[a] \notin {"idle", "done", "reload"}
      <3>1. CASE GetShipStatus(a) \/ SendPack(a) \/ WaitComplete(a)
        BY <1>0, <3>1 DEF GetShipStatus, SendPack, WaitComplete, Goto, confVars
      <3>2. CASE BarExit(a) \/ StopContainerByName(a)
        <4>1. op[a] \in ExitOps
          BY <3>2 DEF Control, IInv, OpAtLabel, BarExit, StopContainerByName
        <4>2. AfterExit(op[a]) # "unlist"
          BY <4>1, ExitLabel
        <4> QED
          BY <1>0, <3>2, <4>2 DEF BarExit, StopContainerByName, Goto, confVars
      <3>3. CASE DeleteContainer(a)
        BY <1>0, <3>3 DEF DeleteContainer, CallStart, Goto, confVars
      <3> QED
        BY <1>2, <3>1, <3>2, <3>3
    <2> QED
      BY <2>1, SameAgree, NotDead
  <1>3. CASE SetDesiredStopped(a) \/ DeleteVolume(a) \/ DeleteContainerState(a)
             \/ ContainerConfRead(a) \/ FindContainer(a) \/ KeepContainer(a)
             \/ RemoveContainer(a) \/ ContainerCreate(a) \/ ContainerStart(a)
             \/ UpdateContainerState(a)
    <2>1. UNCHANGED <<mem, disk, listed, behind>> /\ pc'[a] # "unlist"
          /\ pc[a] \notin {"idle", "done", "reload"}
      <3>1. ret[a] # "unlist"
        BY Maps DEF Control, RetLabels
      <3>2. CASE SetDesiredStopped(a) \/ DeleteVolume(a) \/ DeleteContainerState(a)
                 \/ ContainerConfRead(a) \/ FindContainer(a) \/ UpdateContainerState(a)
        BY <1>0, <3>2 DEF SetDesiredStopped, DeleteVolume, DeleteContainerState,
              ContainerConfRead, FindContainer, UpdateContainerState, Goto, confVars
      <3>3. CASE KeepContainer(a) \/ RemoveContainer(a) \/ ContainerCreate(a) \/ ContainerStart(a)
        BY <1>0, <3>1, <3>3 DEF KeepContainer, RemoveContainer, ContainerCreate,
              ContainerStart, Goto, confVars
      <3> QED
        BY <1>3, <3>2, <3>3
    <2> QED
      BY <2>1, SameAgree, NotDead
  <1>4. CASE Finish(a)
    <2>1. UNCHANGED <<mem, disk, listed, gs, behind>> /\ pc'[a] = "idle"
      BY <1>0, <1>4 DEF Finish, Goto, confVars
    <2> QED
      BY <2>1, SameAgree
  <1>5. CASE CutPier(a)
    <2>1. a \in Handlers
      BY <1>5, HandlerAt DEF Control, CutPier, LoaderLabels, StartLabels
    <2>2. mem = disk
      BY <1>5, <2>1 DEF Agree, Unlisting, CutPier
    <2> QED
      BY <1>5, <2>2 DEF CutPier, Agree
  <1>6. CASE ContainerConfApply(a) \/ ContainerConfReset(a)
    <2>1. \/ mem' = disk' /\ behind' = FALSE
          \/ UNCHANGED <<mem, disk, behind>>
      BY <1>6 DEF ContainerConfApply, ContainerConfReset, StoreCand, UpdateUrbitConfig,
                  SaveFails
    <2>2. CASE mem' = disk' /\ behind' = FALSE
      BY <2>2 DEF Agree
    <2>3. CASE UNCHANGED <<mem, disk, behind>>
      <3>1. listed' = listed /\ pc'[a] # "unlist" /\ pc[a] \notin {"idle", "done", "reload"}
        BY <1>0, <1>6 DEF ContainerConfApply, ContainerConfReset, Goto
      <3> QED
        BY <2>3, <3>1, SameAgree, NotDead
    <2> QED
      BY <2>1, <2>2, <2>3
  <1>7. CASE ContainerConfLoad(a)
    <2>1. CASE Readable
      BY <1>7, <2>1 DEF ContainerConfLoad, ReadUrbitConfig, Agree
    <2>2. CASE ~Readable
      <3>1. UNCHANGED <<mem, disk, listed, behind>> /\ pc'[a] # "unlist" /\ pc[a] = "sc_load"
        BY <1>0, <1>7, <2>2 DEF ContainerConfLoad, ReadUrbitConfig, Goto
      <3> QED
        BY <3>1, SameAgree, NotDead
    <2> QED
      BY <2>1, <2>2
  <1>8. CASE LoadUrbitConfig(a)
    <2>1. CASE Readable /\ listed
      BY <1>8, <2>1 DEF LoadUrbitConfig, ReadUrbitConfig, Agree
    <2>2. CASE ~(Readable /\ listed)
      <3>1. UNCHANGED <<mem, disk, listed, gs, behind>> /\ pc'[a] = "done"
        BY <1>0, <1>8, <2>2 DEF LoadUrbitConfig, ReadUrbitConfig, Goto
      <3> QED
        BY <3>1, SameAgree
    <2> QED
      BY <2>1, <2>2
  <1>9. CASE WriteScript(a)
    <2>1. UNCHANGED <<mem, disk, listed, behind>> /\ pc'[a] # "unlist" /\ pc[a] = "sc_script"
      BY <1>0, <1>9 DEF WriteScript, Goto
    <2> QED
      BY <2>1, SameAgree, NotDead
  <1>10. CASE StoreFails(a)
    BY <1>10 DEF StoreFails, SaveFails
  <1> QED
    BY <1>1, <1>2, <1>3, <1>4, <1>5, <1>6, <1>7, <1>8, <1>9, <1>10 DEF Step

LEMMA NextAgree ==
    ASSUME Control, OneAtATime, Agree, [Next]_vars, ~WriteFails
    PROVE  Agree'
  <1>1. ASSUME NEW a \in Handlers, NEW o \in Ops, Begin(a, o)
        PROVE  Agree'
    <2>1. UNCHANGED <<mem, disk, daemon, behind>> /\ ~Dead /\ daemon = "up"
      BY <1>1, BeginEffect DEF Dead
    <2>2. ~Unlisting'
      <3>1. Entry(o, UrbitConf) # "unlist"
        <4>1. o \in AllOps
          BY <1>1, BeginEffect
        <4> QED
          BY <4>1 DEF Entry, AllOps
      <3>2. \A b \in Handlers : b = a
        BY DEF OneAtATime
      <3> QED
        BY <1>1, <3>1, <3>2, BeginEffect DEF Unlisting
    <2> QED
      BY <2>1, <2>2 DEF Agree
  <1>2. CASE \E a \in Actors : Step(a)
    BY <1>2, StepAgree
  <1>3. CASE TakeEvent
    <2>1. UNCHANGED <<mem, disk, listed, gs, daemon, behind>>
      BY <1>3 DEF TakeEvent, confVars
    <2>2. Dead => Dead'
      BY <1>3, <2>1 DEF Dead, TakeEvent
    <2>3. \A b \in Handlers : pc'[b] = pc[b]
      BY <1>3, ActorKinds, Maps DEF TakeEvent, Goto, Control
    <2> QED
      BY <2>1, <2>2, <2>3 DEF Agree, Unlisting
  <1>4. CASE HandleEvent
    <2>1. UNCHANGED <<mem, disk, listed, daemon, behind>> /\ pc[EL] = "ev_write"
      BY <1>4 DEF HandleEvent, confVars
    <2>2. ~Dead
      BY <2>1, NotDead, ActorKinds
    <2>3. \A b \in Handlers : pc'[b] = pc[b]
      BY <1>4, ActorKinds, Maps DEF HandleEvent, CallStart, Goto, Control
    <2> QED
      BY <2>1, <2>2, <2>3 DEF Agree, Unlisting
  <1>5. CASE ShipExits \/ NewRelease \/ UNCHANGED vars
    BY <1>5 DEF ShipExits, NewRelease, Agree, Unlisting, Dead, confVars, dockVars,
                actorVars, vars
  <1>6. CASE Crash
    BY <1>6, ActorKinds DEF Crash, Agree, Unlisting
  <1>7. CASE Restart
    <2>1. /\ gs' = NoState /\ listed' = listed /\ disk' = disk
          /\ \A b \in Actors : pc'[b] \in {"idle", "done", "reload"}
      BY <1>7, Maps DEF Restart, Goto, Control, DownIdle
    <2>2. ~Unlisting'
      BY <2>1, ActorKinds DEF Unlisting
    <2>3. CASE Readable /\ listed
      BY <1>7, <2>2, <2>3 DEF Restart, Agree
    <2>4. CASE ~listed
      <3>1. Dead' /\ mem' = Absent
        BY <1>7, <2>1, <2>4 DEF Restart, Dead
      <3> QED
        BY <1>7, <2>2, <3>1 DEF Agree, Restart
    <2>5. CASE ~Readable
      BY <1>7, <2>2, <2>5 DEF Restart, Agree, Readable
    <2> QED
      BY <2>3, <2>4, <2>5
  <1> QED
    BY <1>1, <1>2, <1>3, <1>4, <1>5, <1>6, <1>7 DEF Next

LEMMA InitAgree == Init => Agree
  <1> SUFFICES ASSUME Init
               PROVE  Agree
    OBVIOUS
  <1>1. disk = mem /\ behind = FALSE
    BY Zenon DEF Init
  <1> QED
    BY <1>1 DEF Agree
-----------------------------------------------------------------------------
(* One-shot statuses.  A pier marked to pack, meld or prep has a goroutine  *)
(* that is about to read the mark, or holds it, and resets it when it does. *)
OneShots == {"pack", "meld", "prep"}

Resets(a) ==
    \/ pc[a] = "reload" /\ listed
    \/ pc[a] = "sc_conf"
    \/ pc[a] \in CopyLabels /\ cand[a].boot \in OneShots

NoneForgotten == mem.boot \in OneShots => \E a \in Actors : Resets(a)

(* A snapshot that is stored with a changed setting has no such mark.      *)
SnapClean == \A a \in Handlers : pc[a] \in SettingLabels => snap[a].boot \notin OneShots

(* pack, which stores its snapshot after the reset, is not asked for.      *)
NeverPacks == \A a \in Actors : pc[a] \notin {"send", "w_last"} /\ ret[a] # "w_last"

OneShotInv == Control /\ Agree /\ NoneForgotten /\ SnapClean /\ NeverPacks

LEMMA AbsentBoot ==
    /\ Absent.boot = "absent" /\ Torn.boot = "torn" /\ ZeroConf.boot = ""
  BY DEF Absent, Torn, ZeroConf

(* Settings are stored first, or not at all.                               *)
LEMMA SettingsFirst ==
    ASSUME Control, NEW a \in Actors, Step(a)
    PROVE  pc'[a] \notin SettingLabels
  <1>0. pc \in [Actors -> Labels] /\ ret[a] \in RetLabels
    BY Maps DEF Control
  <1> USE <1>0 DEF Goto, SettingLabels, RetLabels
  <1>1. CASE Finish(a)
    BY <1>1 DEF Finish
  <1>2. CASE PowerOn(a)
    BY <1>2 DEF PowerOn, CallStart
  <1>3. CASE PowerOff(a)
    BY <1>3 DEF PowerOff
  <1>4. CASE DetectBoot(a)
    BY <1>4 DEF DetectBoot
  <1>5. CASE WriteSettings(a)
    BY <1>5 DEF WriteSettings, AfterWrite
  <1>6. CASE GetShipStatus(a)
    BY <1>6 DEF GetShipStatus
  <1>7. CASE SendPack(a)
    BY <1>7 DEF SendPack
  <1>8. CASE WritePack(a)
    BY <1>8 DEF WritePack, CallStart
  <1>9. CASE WriteMeldLast(a)
    BY <1>9 DEF WriteMeldLast
  <1>10. CASE WaitComplete(a)
    BY <1>10 DEF WaitComplete
  <1>11. CASE WriteMeld(a)
    BY <1>11 DEF WriteMeld, CallStart
  <1>12. CASE WriteBoot(a)
    BY <1>12 DEF WriteBoot, CallStart
  <1>13. CASE BarExit(a)
    <2>1. AfterExit(op[a]) \in {"done", "w_pack", "rm"}
      BY <1>13, ExitLabel DEF Control, IInv, OpAtLabel, BarExit
    <2> QED
      BY <1>13, <2>1 DEF BarExit
  <1>14. CASE StopContainerByName(a)
    <2>1. AfterExit(op[a]) \in {"done", "w_pack", "rm"}
      BY <1>14, ExitLabel DEF Control, IInv, OpAtLabel, StopContainerByName
    <2> QED
      BY <1>14, <2>1 DEF StopContainerByName
  <1>15. CASE DeleteContainer(a)
    BY <1>15 DEF DeleteContainer, CallStart
  <1>16. CASE SetDesiredStopped(a)
    BY <1>16 DEF SetDesiredStopped
  <1>17. CASE RemoveUrbitConfig(a)
    BY <1>17 DEF RemoveUrbitConfig
  <1>18. CASE CutPier(a)
    BY <1>18 DEF CutPier
  <1>19. CASE DeleteVolume(a)
    BY <1>19 DEF DeleteVolume
  <1>20. CASE DeleteContainerState(a)
    BY <1>20 DEF DeleteContainerState
  <1>21. CASE ContainerConfRead(a)
    BY <1>21 DEF ContainerConfRead
  <1>22. CASE ContainerConfApply(a)
    BY <1>22 DEF ContainerConfApply
  <1>23. CASE ContainerConfReset(a)
    BY <1>23 DEF ContainerConfReset
  <1>24. CASE FindContainer(a)
    BY <1>24 DEF FindContainer
  <1>25. CASE KeepContainer(a)
    BY <1>25 DEF KeepContainer
  <1>26. CASE RemoveContainer(a)
    BY <1>26 DEF RemoveContainer
  <1>27. CASE ContainerCreate(a)
    BY <1>27 DEF ContainerCreate
  <1>28. CASE ContainerStart(a)
    BY <1>28 DEF ContainerStart
  <1>29. CASE LoadUrbitConfig(a)
    BY <1>29 DEF LoadUrbitConfig, CallStart
  <1>30. CASE UpdateContainerState(a)
    BY <1>30 DEF UpdateContainerState
  <1>31. CASE StoreFails(a)
    BY <1>31 DEF StoreFails, ConfWrites, SettingLabels
  <1>32. CASE ContainerConfLoad(a)
    BY <1>32 DEF ContainerConfLoad
  <1>33. CASE WriteScript(a)
    BY <1>33 DEF WriteScript
  <1> QED
    BY <1>1, <1>2, <1>3, <1>4, <1>5, <1>6, <1>7, <1>8, <1>9, <1>10, <1>11, <1>12, <1>13, <1>14, <1>15,
       <1>16, <1>17, <1>18, <1>19, <1>20, <1>21, <1>22, <1>23, <1>24, <1>25, <1>26, <1>27, <1>28, <1>29, <1>30,
       <1>31, <1>32, <1>33 DEF Step

LEMMA StepNeverPacks ==
    ASSUME OneShotInv, "pack" \notin Ops, NEW a \in Actors, Step(a)
    PROVE  NeverPacks'
  <1>0. /\ pc \in [Actors -> Labels] /\ ret \in [Actors -> RetLabels]
        /\ op[a] # "pack" /\ ret[a] # "w_last" /\ pc[a] \notin {"send", "w_last"}
    <2>1. op[a] \in Ops \cup {"none", "load"} \cup EventNames
      BY Maps DEF OneShotInv, Control
    <2> QED
      BY <2>1, Maps DEF OneShotInv, Control, NeverPacks, EventNames
  <1>0a. pc'[a] \notin {"send", "w_last"} /\ ret'[a] # "w_last"
    <2> USE <1>0 DEF Goto, RetLabels
    <2>1. CASE Finish(a)
      BY <2>1 DEF Finish
    <2>2. CASE PowerOn(a)
      BY <2>2 DEF PowerOn, CallStart
    <2>3. CASE PowerOff(a)
      BY <2>3 DEF PowerOff
    <2>4. CASE DetectBoot(a)
      BY <2>4 DEF DetectBoot
    <2>5. CASE WriteSettings(a)
      BY <2>5 DEF WriteSettings, AfterWrite
    <2>6. CASE GetShipStatus(a)
      BY <2>6 DEF GetShipStatus
    <2>7. CASE SendPack(a)
      BY <2>7 DEF SendPack
    <2>8. CASE WritePack(a)
      BY <2>8 DEF WritePack, CallStart
    <2>9. CASE WriteMeldLast(a)
      BY <2>9 DEF WriteMeldLast
    <2>10. CASE WaitComplete(a)
      BY <2>10 DEF WaitComplete
    <2>11. CASE WriteMeld(a)
      BY <2>11 DEF WriteMeld, CallStart
    <2>12. CASE WriteBoot(a)
      BY <2>12 DEF WriteBoot, CallStart
    <2>13. CASE BarExit(a)
      <3>1. AfterExit(op[a]) \in {"done", "w_pack", "rm"}
        BY <2>13, ExitLabel DEF OneShotInv, Control, IInv, OpAtLabel, BarExit
      <3> QED
        BY <2>13, <3>1 DEF BarExit
    <2>14. CASE StopContainerByName(a)
      <3>1. AfterExit(op[a]) \in {"done", "w_pack", "rm"}
        BY <2>14, ExitLabel DEF OneShotInv, Control, IInv, OpAtLabel, StopContainerByName
      <3> QED
        BY <2>14, <3>1 DEF StopContainerByName
    <2>15. CASE DeleteContainer(a)
      BY <2>15 DEF DeleteContainer, CallStart
    <2>16. CASE SetDesiredStopped(a)
      BY <2>16 DEF SetDesiredStopped
    <2>17. CASE RemoveUrbitConfig(a)
      BY <2>17 DEF RemoveUrbitConfig
    <2>18. CASE CutPier(a)
      BY <2>18 DEF CutPier
    <2>19. CASE DeleteVolume(a)
      BY <2>19 DEF DeleteVolume
    <2>20. CASE DeleteContainerState(a)
      BY <2>20 DEF DeleteContainerState
    <2>21. CASE ContainerConfRead(a)
      BY <2>21 DEF ContainerConfRead
    <2>22. CASE ContainerConfApply(a)
      BY <2>22 DEF ContainerConfApply
    <2>23. CASE ContainerConfReset(a)
      BY <2>23 DEF ContainerConfReset
    <2>24. CASE FindContainer(a)
      BY <2>24 DEF FindContainer
    <2>25. CASE KeepContainer(a)
      BY <2>25 DEF KeepContainer
    <2>26. CASE RemoveContainer(a)
      BY <2>26 DEF RemoveContainer
    <2>27. CASE ContainerCreate(a)
      BY <2>27 DEF ContainerCreate
    <2>28. CASE ContainerStart(a)
      BY <2>28 DEF ContainerStart
    <2>29. CASE LoadUrbitConfig(a)
      BY <2>29 DEF LoadUrbitConfig, CallStart
    <2>30. CASE UpdateContainerState(a)
      BY <2>30 DEF UpdateContainerState
    <2>31. CASE StoreFails(a)
      BY <2>31 DEF StoreFails, ConfWrites, SettingLabels
    <2>32. CASE ContainerConfLoad(a)
      BY <2>32 DEF ContainerConfLoad
    <2>33. CASE WriteScript(a)
      BY <2>33 DEF WriteScript
    <2> QED
      BY <2>1, <2>2, <2>3, <2>4, <2>5, <2>6, <2>7, <2>8, <2>9, <2>10, <2>11, <2>12, <2>13, <2>14, <2>15,
         <2>16, <2>17, <2>18, <2>19, <2>20, <2>21, <2>22, <2>23, <2>24, <2>25, <2>26, <2>27, <2>28, <2>29, <2>30,
       <2>31, <2>32, <2>33 DEF Step
  <1> QED
    BY <1>0, <1>0a, OthersWait DEF OneShotInv, Control, NeverPacks

(* A step that leaves the marked config and a goroutine that resets it.    *)
LEMMA StillReset ==
    ASSUME OneShotInv, NEW a \in Actors, Step(a), mem' = mem, listed' = listed,
           mem.boot \in OneShots => ~Resets(a) \/ Resets(a)'
    PROVE  NoneForgotten'
  <1>1. ASSUME mem.boot \in OneShots
        PROVE  \E b \in Actors : Resets(b)'
    <2>1. PICK b \in Actors : Resets(b)
      BY <1>1 DEF OneShotInv, NoneForgotten
    <2>2. CASE b = a
      BY <1>1, <2>1, <2>2
    <2>3. CASE b # a
      BY <2>1, <2>3, OthersWait DEF Resets, OneShotInv, Control
    <2> QED
      BY <2>2, <2>3
  <1> QED
    BY <1>1 DEF NoneForgotten

LEMMA StepNoneForgotten ==
    ASSUME OneShotInv, OneAtATime, "pack" \notin Ops, NEW a \in Actors, Step(a),
           ~WriteFails
    PROVE  NoneForgotten'
  <1>0. /\ IInv /\ daemon = "up" /\ mem \in Conf /\ disk \in Conf
        /\ pc \in [Actors -> Labels] /\ cand \in [Actors -> Conf] /\ snap \in [Actors -> Conf]
        /\ ret \in [Actors -> RetLabels]
    BY OthersWait, Maps DEF OneShotInv, Control, IInv, TypeOK, DownIdle
  <1>1. CASE \/ PowerOn(a) \/ PowerOff(a) \/ DetectBoot(a) \/ WriteBoot(a)
    <2>1. mem'.boot \notin OneShots
      <3>1. mem' = Edited(a) /\ pc[a] \in {"w_on", "w_off", "w_detect", "w_boot"}
        BY <1>1 DEF PowerOn, PowerOff, DetectBoot, WriteBoot, Store, UpdateUrbitConfig
      <3>2. \A b : [snap[a] EXCEPT !.boot = b].boot = b
        BY <1>0 DEF Conf
      <3>3. \E b \in {"boot", "noboot", "ignore"} : Edited(a) = [snap[a] EXCEPT !.boot = b]
        <4>1. CASE pc[a] = "w_detect"
          <5> DEFINE d == IF snap[a].boot # "ignore" THEN "ignore"
                          ELSE IF StatusUp THEN "boot" ELSE "noboot"
          <5>1. d \in {"boot", "noboot", "ignore"}
            OBVIOUS
          <5>2. Edited(a) = [snap[a] EXCEPT !.boot = d]
            BY <4>1 DEF Edited
          <5> QED
            BY <5>1, <5>2
        <4>2. CASE pc[a] # "w_detect"
          BY <3>1, <4>2 DEF Edited
        <4> QED
          BY <4>1, <4>2
      <3> QED
        BY <3>1, <3>2, <3>3 DEF OneShots
    <2> QED
      BY <2>1 DEF NoneForgotten
  <1>2. CASE WritePack(a) \/ WriteMeld(a)
    <2>1. pc'[a] = "sc_conf"
      BY <1>0, <1>2 DEF WritePack, WriteMeld, CallStart, Goto
    <2> QED
      BY <2>1 DEF NoneForgotten, Resets
  <1>3. CASE WriteSettings(a)
    <2>1. a \in Handlers /\ pc[a] \in SettingLabels
      <3>1. pc[a] \in SettingLabels
        BY <1>3 DEF WriteSettings, Store
      <3> QED
        BY <3>1, HandlerAt DEF OneShotInv, Control, LoaderLabels, StartLabels, SettingLabels
    <2>2. snap[a].boot \notin OneShots
      BY <2>1 DEF OneShotInv, SnapClean
    <2>3. mem' = Edited(a)
      BY <1>3 DEF WriteSettings, Store, UpdateUrbitConfig
    <2>4. mem'.boot = snap[a].boot
      <3>1. /\ [snap[a] EXCEPT !.net = IF @ = "wireguard" THEN "bridge" ELSE "wireguard"].boot
                 = snap[a].boot
            /\ [snap[a] EXCEPT !.args = ~@].boot = snap[a].boot
            /\ [snap[a] EXCEPT !.web = ~@].boot = snap[a].boot
        BY <1>0 DEF Conf
      <3> QED
        BY <2>1, <2>3, <3>1 DEF Edited, SettingLabels
    <2> QED
      BY <2>2, <2>4 DEF NoneForgotten
  <1>4. CASE WriteMeldLast(a) \/ SendPack(a)
    BY <1>4 DEF WriteMeldLast, Store, SendPack, OneShotInv, NeverPacks
  <1>5. CASE RemoveUrbitConfig(a)
    BY <1>5, AbsentBoot DEF RemoveUrbitConfig, UpdateUrbitConfig, SaveFails, NoneForgotten, OneShots
  <1>6. CASE CutPier(a)
    <2>1. a \in Handlers /\ pc[a] = "unlist" /\ mem' = mem /\ pc'[a] = "rm_vol"
      BY <1>0, <1>6, HandlerAt
         DEF OneShotInv, Control, LoaderLabels, StartLabels, CutPier, Goto
    <2>2. ASSUME mem.boot \in OneShots
          PROVE  \E b \in Actors : Resets(b)'
      <3>1. PICK b \in Actors : Resets(b)
        BY <2>2 DEF OneShotInv, NoneForgotten
      <3>2. b # a
        BY <2>1, <3>1 DEF Resets, CopyLabels
      <3>3. pc[b] # "reload"
        <4>1. pc[Loader] = "idle"
          BY <2>1 DEF OneShotInv, Control, LoaderFirst
        <4>2. pc[EL] # "reload"
          BY DEF OneShotInv, Control, IInv, LoopControl, StartLabels
        <4> QED
          BY <2>1, <3>2, <4>1, <4>2, ActorKinds DEF OneAtATime
      <3> QED
        BY <3>1, <3>2, <3>3, OthersWait DEF Resets, OneShotInv, Control
    <2> QED
      BY <2>1, <2>2 DEF NoneForgotten
  <1>7. CASE ContainerConfRead(a)
    <2>1. ASSUME mem.boot \in OneShots
          PROVE  Resets(a)'
      <3>1. cand'[a] = mem /\ pc'[a] = "sc_apply"
        BY <1>0, <1>7, <2>1, AbsentBoot
           DEF ContainerConfRead, Goto, UrbitConf, OneShots
      <3> QED
        BY <2>1, <3>1 DEF Resets, CopyLabels
    <2>2. mem' = mem
      BY <1>7 DEF ContainerConfRead, confVars
    <2> QED
      BY <2>1, <2>2 DEF NoneForgotten
  <1>8. CASE ContainerConfApply(a)
    <2>1. pc'[a] = "sc_load" /\ pc[a] = "sc_apply" /\ cand' = cand /\ listed' = listed
      BY <1>0, <1>8 DEF ContainerConfApply, Goto
    <2>2. CASE cand[a].ver # latest
      <3>1. mem' = [cand[a] EXCEPT !.ver = latest]
        BY <1>8, <2>2 DEF ContainerConfApply, StoreCand, UpdateUrbitConfig, SaveFails
      <3>2. mem'.boot = cand[a].boot
        BY <1>0, <3>1 DEF Conf
      <3> QED
        BY <2>1, <3>2 DEF NoneForgotten, Resets, CopyLabels
    <2>3. CASE cand[a].ver = latest
      <3>1. mem' = mem
        BY <1>8, <2>3 DEF ContainerConfApply
      <3>2. Resets(a) => Resets(a)'
        BY <2>1 DEF Resets, CopyLabels
      <3> QED
        BY <2>1, <3>1, <3>2, StillReset
    <2> QED
      BY <2>2, <2>3
  <1>13. CASE ContainerConfLoad(a)
    <2>1. pc[a] = "sc_load" /\ cand' = cand /\ listed' = listed /\ ~Dead
      BY <1>13, NotDead DEF ContainerConfLoad
    <2>2. mem' = mem
      BY <1>0, <1>13, <2>1 DEF ContainerConfLoad, ReadUrbitConfig, OneShotInv, Agree, Readable
    <2>3. ASSUME mem.boot \in OneShots, Resets(a)
          PROVE  Resets(a)'
      <3>1. Readable
        BY <1>0, <2>1, <2>3, AbsentBoot DEF OneShotInv, Agree, Readable, OneShots
      <3>2. cand[a].boot \in OneShots
        BY <2>1, <2>3 DEF Resets
      <3>3. pc'[a] = "sc_reset"
        BY <1>0, <1>13, <3>1, <3>2 DEF ContainerConfLoad, Goto, Bootable, OneShots
      <3> QED
        BY <2>1, <3>2, <3>3 DEF Resets, CopyLabels
    <2> QED
      BY <2>1, <2>2, <2>3, StillReset
  <1>9. CASE ContainerConfReset(a)
    <2>1. CASE cand[a].boot # "boot"
      <3>1. mem' = [cand[a] EXCEPT !.boot = ResetBoot(cand[a].boot)]
        BY <1>9, <2>1 DEF ContainerConfReset, StoreCand, UpdateUrbitConfig, SaveFails
      <3>2. mem'.boot = ResetBoot(cand[a].boot)
        BY <1>0, <3>1 DEF Conf
      <3> QED
        BY <3>2 DEF ResetBoot, OneShots, NoneForgotten
    <2>2. CASE cand[a].boot = "boot"
      <3>1. mem' = mem /\ listed' = listed /\ pc[a] = "sc_reset"
        BY <1>9, <2>2 DEF ContainerConfReset
      <3>2. ~Resets(a)
        BY <2>2, <3>1 DEF Resets, OneShots
      <3> QED
        BY <3>1, <3>2, StillReset
    <2> QED
      BY <2>1, <2>2
  <1>14. CASE StoreFails(a)
    BY <1>14 DEF StoreFails, SaveFails
  <1>10. CASE LoadUrbitConfig(a)
    <2>1. CASE Readable /\ listed
      <3>1. pc'[a] = "sc_conf"
        BY <1>0, <1>10, <2>1 DEF LoadUrbitConfig, CallStart, Goto
      <3> QED
        BY <3>1 DEF NoneForgotten, Resets
    <2>2. CASE ~(Readable /\ listed)
      <3>1. mem' = mem /\ listed' = listed /\ pc[a] = "reload"
        BY <1>10, <2>2 DEF LoadUrbitConfig, ReadUrbitConfig
      <3>2. ASSUME mem.boot \in OneShots, Resets(a)
            PROVE  FALSE
        <4>1. listed
          BY <3>1, <3>2 DEF Resets, CopyLabels
        <4>2. mem = disk
          BY <1>0, <3>2, AbsentBoot DEF OneShotInv, Agree, OneShots
        <4>3. Readable
          BY <3>2, <4>2, AbsentBoot DEF Readable, OneShots
        <4> QED
          BY <2>2, <4>1, <4>3
      <3> QED
        BY <3>1, <3>2, StillReset
    <2> QED
      BY <2>1, <2>2
  <1>11. CASE Finish(a) \/ GetShipStatus(a) \/ WaitComplete(a) \/ BarExit(a)
              \/ StopContainerByName(a) \/ DeleteContainer(a) \/ SetDesiredStopped(a)
              \/ DeleteVolume(a) \/ DeleteContainerState(a) \/ FindContainer(a)
              \/ KeepContainer(a) \/ RemoveContainer(a) \/ ContainerCreate(a)
              \/ ContainerStart(a) \/ UpdateContainerState(a) \/ WriteScript(a)
    <2>1. /\ mem' = mem /\ listed' = listed
          /\ pc[a] \notin {"reload", "sc_conf"} \cup CopyLabels
      BY <1>11 DEF Finish, GetShipStatus, WaitComplete, BarExit, StopContainerByName,
            DeleteContainer, SetDesiredStopped, DeleteVolume, DeleteContainerState,
            FindContainer, KeepContainer, RemoveContainer, ContainerCreate, ContainerStart,
            UpdateContainerState, WriteScript, CopyLabels, confVars
    <2>2. ~Resets(a)
      BY <2>1 DEF Resets
    <2> QED
      BY <2>1, <2>2, StillReset
  <1> QED
    BY <1>1, <1>2, <1>3, <1>4, <1>5, <1>6, <1>7, <1>8, <1>9, <1>10, <1>11, <1>13, <1>14
       DEF Step

LEMMA NextOneShot ==
    ASSUME OneShotInv, OneAtATime, "pack" \notin Ops, [Next]_vars, ~WriteFails
    PROVE  OneShotInv'
  <1>1. Control' /\ Agree'
    BY NextControl, NextAgree DEF OneShotInv
  <1> SUFFICES NoneForgotten' /\ SnapClean' /\ NeverPacks'
    BY <1>1 DEF OneShotInv
  <1>2. ASSUME NEW a \in Handlers, NEW o \in Ops, Begin(a, o)
        PROVE  NoneForgotten' /\ SnapClean' /\ NeverPacks'
    <2>1. /\ \A b \in Actors : pc[b] = "idle"
          /\ mem' = mem /\ ret' = ret /\ snap'[a] = UrbitConf /\ o \in AllOps
          /\ pc'[a] = Entry(o, UrbitConf) /\ \A b \in Actors : b # a => pc'[b] = pc[b]
      BY <1>2, BeginEffect DEF OneShotInv
    <2>2. mem.boot \notin OneShots
      BY <2>1 DEF OneShotInv, NoneForgotten, Resets, CopyLabels
    <2>3. NoneForgotten'
      BY <2>1, <2>2 DEF NoneForgotten
    <2>4. SnapClean'
      <3>1. \A b \in Handlers : b = a
        BY DEF OneAtATime
      <3> QED
        BY <2>1, <2>2, <3>1, AbsentBoot DEF SnapClean, UrbitConf, OneShots
    <2>5. NeverPacks'
      <3>1. Entry(o, UrbitConf) \notin {"send", "w_last"}
        BY <2>1 DEF Entry, AllOps
      <3> QED
        BY <2>1, <3>1 DEF OneShotInv, NeverPacks
    <2> QED
      BY <2>3, <2>4, <2>5
  <1>3. ASSUME NEW a \in Actors, Step(a)
        PROVE  NoneForgotten' /\ SnapClean' /\ NeverPacks'
    <2>1. SnapClean'
      <3>1. \A b \in Actors : b # a => pc'[b] = pc[b] /\ snap'[b] = snap[b]
        BY <1>3, OthersWait DEF OneShotInv, Control
      <3>2. pc'[a] \notin SettingLabels
        BY <1>3, SettingsFirst DEF OneShotInv
      <3> QED
        BY <3>1, <3>2, ActorKinds DEF SnapClean, OneShotInv
    <2> QED
      BY <1>3, <2>1, StepNoneForgotten, StepNeverPacks
  <1>4. CASE TakeEvent \/ HandleEvent
    <2>1. /\ mem' = mem /\ listed' = listed /\ cand' = cand /\ snap' = snap
          /\ \A b \in Actors : b # EL => pc'[b] = pc[b] /\ ret'[b] = ret[b]
          /\ pc[EL] \in {"idle", "ev_write"}
          /\ pc'[EL] \notin {"send", "w_last"} /\ ret'[EL] # "w_last"
      <3>1. CASE TakeEvent
        BY <3>1, ActorKinds, Maps
           DEF TakeEvent, Goto, confVars, OneShotInv, Control, NeverPacks
      <3>2. CASE HandleEvent
        BY <3>2, ActorKinds, Maps
           DEF HandleEvent, CallStart, Goto, confVars, OneShotInv, Control, NeverPacks
      <3> QED
        BY <1>4, <3>1, <3>2
    <2>2. \A b \in Actors : Resets(b) => Resets(b)'
      BY <2>1 DEF Resets, CopyLabels
    <2>3. NoneForgotten'
      BY <2>1, <2>2 DEF OneShotInv, NoneForgotten
    <2> QED
      BY <2>1, <2>3, ActorKinds DEF OneShotInv, SnapClean, NeverPacks
  <1>5. CASE ShipExits \/ NewRelease \/ UNCHANGED vars
    BY <1>5 DEF ShipExits, NewRelease, vars, confVars, dockVars, actorVars, OneShotInv,
                NoneForgotten, Resets, SnapClean, NeverPacks
  <1>6. CASE Crash
    <2>1. mem' = Absent /\ \A b \in Actors : pc'[b] = "idle" /\ ret'[b] = "done"
      BY <1>6 DEF Crash
    <2> QED
      BY <2>1, AbsentBoot, ActorKinds
         DEF NoneForgotten, OneShots, SnapClean, SettingLabels, NeverPacks
  <1>7. CASE Restart
    <2>1. /\ pc'[Loader] = "reload" /\ \A b \in Actors : b # Loader => pc'[b] = pc[b]
          /\ ret' = ret /\ snap' = snap /\ listed' = listed
      BY <1>7, ActorKinds, Maps DEF Restart, Goto, OneShotInv, Control
    <2>2. NoneForgotten'
      <3>1. CASE Readable /\ listed
        BY <2>1, <3>1, ActorKinds DEF NoneForgotten, Resets
      <3>2. CASE ~(Readable /\ listed)
        BY <1>7, <3>2, AbsentBoot DEF Restart, NoneForgotten, OneShots
      <3> QED
        BY <3>1, <3>2
    <2> QED
      BY <2>1, <2>2, ActorKinds DEF SnapClean, NeverPacks, OneShotInv
  <1> QED
    BY <1>2, <1>3, <1>4, <1>5, <1>6, <1>7 DEF Next

LEMMA InitOneShot == Init => OneShotInv
  <1> SUFFICES ASSUME Init
               PROVE  OneShotInv
    OBVIOUS
  <1>2. \A a \in Actors : a = Loader => Resets(a)
    <2>1. /\ pc = [a \in Actors |-> IF a = Loader THEN "reload" ELSE "idle"]
          /\ listed = TRUE
      BY Zenon DEF Init
    <2> QED
      BY <2>1 DEF Resets
  <1>1. /\ pc = [a \in Actors |-> IF a = Loader THEN "reload" ELSE "idle"]
        /\ ret = [a \in Actors |-> "done"]
    BY Zenon DEF Init
  <1> QED
    BY <1>1, <1>2, InitControl, InitAgree, ActorKinds
       DEF OneShotInv, NoneForgotten, OneShots, SnapClean, SettingLabels, NeverPacks

(* The failures of writes are counted.                                     *)
LEMMA FailsGrow == [Next]_vars => fails' = fails \/ WriteFails
  <1> SUFFICES ASSUME [Next]_vars
               PROVE  fails' = fails \/ WriteFails
    OBVIOUS
  <1>1. ASSUME NEW a \in Actors, Step(a)
        PROVE  fails' = fails \/ WriteFails
    <2>1. CASE \/ PowerOn(a) \/ PowerOff(a) \/ DetectBoot(a) \/ WritePack(a)
               \/ WriteMeldLast(a) \/ WriteMeld(a) \/ WriteBoot(a) \/ WriteSettings(a)
               \/ StoreFails(a) \/ RemoveUrbitConfig(a)
      BY <2>1 DEF PowerOn, PowerOff, DetectBoot, WritePack, WriteMeldLast, WriteMeld,
            WriteBoot, WriteSettings, Store, StoreFails, UpdateUrbitConfig, SaveFails,
            RemoveUrbitConfig
    <2>2. CASE Finish(a) \/ GetShipStatus(a) \/ SendPack(a) \/ WaitComplete(a) \/ BarExit(a)
               \/ StopContainerByName(a) \/ DeleteContainer(a) \/ SetDesiredStopped(a)
               \/ CutPier(a) \/ DeleteVolume(a) \/ DeleteContainerState(a)
      BY <2>2 DEF Finish, GetShipStatus, SendPack, WaitComplete, BarExit,
            StopContainerByName, DeleteContainer, SetDesiredStopped, CutPier, DeleteVolume,
            DeleteContainerState, confVars
    <2>3. CASE \/ ContainerConfRead(a) \/ ContainerConfApply(a) \/ ContainerConfLoad(a)
               \/ ContainerConfReset(a) \/ WriteScript(a)
      BY <2>3 DEF ContainerConfRead, ContainerConfApply, ContainerConfLoad,
            ContainerConfReset, WriteScript, StoreCand, UpdateUrbitConfig, SaveFails, confVars
    <2>4. CASE FindContainer(a) \/ KeepContainer(a) \/ RemoveContainer(a) \/ ContainerCreate(a)
               \/ ContainerStart(a) \/ LoadUrbitConfig(a) \/ UpdateContainerState(a)
      BY <2>4 DEF FindContainer, KeepContainer, RemoveContainer, ContainerCreate,
            ContainerStart, LoadUrbitConfig, UpdateContainerState, confVars
    <2> QED
      BY <1>1, <2>1, <2>2, <2>3, <2>4 DEF Step
  <1>2. CASE \E a \in Handlers, o \in Ops : Begin(a, o)
    BY <1>2 DEF Begin, confVars
  <1>3. CASE TakeEvent \/ HandleEvent \/ ShipExits \/ NewRelease \/ Crash \/ Restart
    BY <1>3 DEF TakeEvent, HandleEvent, ShipExits, NewRelease, Crash, Restart, confVars
  <1>4. CASE UNCHANGED vars
    BY <1>4 DEF vars
  <1> QED
    BY <1>1, <1>2, <1>3, <1>4 DEF Next

OneShotUnlessFailed == Control /\ (fails = 0 => OneShotInv)

(* pack, meld and prep are one-shot (NoTransientLeft): with users who act   *)
(* one at a time and never ask for pack, the mark of the config is gone     *)
(* once all has returned, after failing calls, kills and torn files as      *)
(* well, unless a write of the config or of the script has failed.          *)
THEOREM NoTransientLeftHolds ==
    ASSUME OneAtATime, "pack" \notin Ops
    PROVE  Spec => []NoTransientLeft
  <1>1. Init => OneShotUnlessFailed
    BY InitOneShot DEF OneShotUnlessFailed, OneShotInv
  <1>2. OneShotUnlessFailed /\ [Next]_vars => OneShotUnlessFailed'
    <2> SUFFICES ASSUME OneShotUnlessFailed, [Next]_vars
                 PROVE  OneShotUnlessFailed'
      OBVIOUS
    <2>1. Control'
      BY NextControl DEF OneShotUnlessFailed
    <2>2. ASSUME fails' = 0
          PROVE  OneShotInv'
      <3>1. fails \in Nat
        <4>1. fails \in 0..MaxFails
          BY DEF OneShotUnlessFailed, Control, IInv, TypeOK
        <4> QED
          BY <4>1, ShipBootAssumption
      <3>2. ~WriteFails
        BY <2>2, <3>1 DEF WriteFails
      <3>3. OneShotInv
        BY <2>2, <3>2, FailsGrow DEF OneShotUnlessFailed
      <3> QED
        BY <3>2, <3>3, NextOneShot
    <2> QED
      BY <2>1, <2>2 DEF OneShotUnlessFailed
  <1>3. OneShotUnlessFailed => NoTransientLeft
    BY DEF OneShotUnlessFailed, OneShotInv, NoneForgotten, NoTransientLeft, Quiescent, Resets,
           OneShots, CopyLabels
  <1> QED
    BY <1>1, <1>2, <1>3, PTL DEF Spec
-----------------------------------------------------------------------------
(* The event loop neither starts the ship nor is about to.                 *)
Calm ==
    /\ pc[EL] \notin StartLabels
    /\ pc[EL] = "ev_write" => op[EL] # "stop"
    /\ \A i \in DOMAIN events : events[i] # "stop"

LEMMA EmitCalm ==
    ASSUME events \in Seq(EventNames), \A i \in DOMAIN events : events[i] # "stop",
           NEW e \in {"die", "start"}, Emit(<<e>>)
    PROVE  \A i \in DOMAIN events' : events'[i] # "stop"
  <1>1. events' = events \o <<e>> /\ <<e>> \in Seq(EventNames) /\ Len(<<e>>) = 1
    BY EventSeqs DEF Emit
  <1>2. /\ Len(events') = Len(events) + 1 /\ Len(events) \in Nat
        /\ \A i \in 1..Len(events') :
             events'[i] = IF i <= Len(events) THEN events[i] ELSE <<e>>[i - Len(events)]
    BY <1>1, EventSeqs, ConcatProperties, LenProperties
  <1>3. events' \in Seq(EventNames)
    BY <1>1, ConcatProperties
  <1>4. DOMAIN events' = 1..Len(events') /\ DOMAIN events = 1..Len(events)
    BY <1>3, LenProperties
  <1>5. ASSUME NEW i \in 1..Len(events')
        PROVE  events'[i] # "stop"
    <2>1. CASE i <= Len(events)
      <3>1. i \in 1..Len(events)
        BY <1>2, <2>1
      <3> QED
        BY <1>2, <1>4, <2>1, <3>1
    <2>2. CASE ~(i <= Len(events))
      <3>1. i - Len(events) = 1
        BY <1>2, <2>2
      <3> QED
        BY <1>2, <2>2, <3>1
    <2> QED
      BY <2>1, <2>2
  <1> QED
    BY <1>4, <1>5

(* Next to a handler that stands before its first write, only the loop and *)
(* the ship do something, and neither asks for a start.                    *)
LEMMA LoopCalm ==
    ASSUME Control, Calm, TakeEvent \/ HandleEvent \/ ShipExits
    PROVE  Calm'
  <1>0. /\ events \in Seq(EventNames) /\ pc \in [Actors -> Labels] /\ EL \in Actors
        /\ op \in [Actors -> Ops \cup {"none", "load"} \cup EventNames]
    BY Maps, ActorKinds DEF Control, IInv, TypeOK
  <1>1. CASE TakeEvent
    <2>1. events # <<>> /\ events' = Tail(events)
      BY <1>1 DEF TakeEvent
    <2>2. /\ Len(Tail(events)) = Len(events) - 1 /\ Head(events) = events[1]
          /\ \A i \in 1..Len(Tail(events)) : Tail(events)[i] = events[i + 1]
          /\ Len(events) \in Nat /\ Len(events) # 0 /\ Tail(events) \in Seq(EventNames)
      BY <1>0, <2>1, HeadTailProperties, LenProperties, EmptySeq
    <2>3. DOMAIN events = 1..Len(events) /\ DOMAIN events' = 1..Len(Tail(events))
      BY <1>0, <2>1, <2>2, LenProperties
    <2>4. Head(events) # "stop"
      <3>1. 1 \in DOMAIN events
        BY <2>2, <2>3
      <3> QED
        BY <2>2, <3>1 DEF Calm
    <2>5. ASSUME NEW i \in DOMAIN events'
          PROVE  events'[i] # "stop"
      <3>1. i \in 1..Len(Tail(events)) /\ i + 1 \in DOMAIN events
        BY <2>2, <2>3
      <3> QED
        BY <2>1, <2>2, <3>1 DEF Calm
    <2>6. pc'[EL] \notin StartLabels
      BY <1>0, <1>1 DEF TakeEvent, Goto, Calm, StartLabels
    <2>7. pc'[EL] = "ev_write" => op'[EL] # "stop"
      BY <1>0, <1>1, <2>4 DEF TakeEvent, Goto, Calm
    <2> QED
      BY <2>5, <2>6, <2>7 DEF Calm
  <1>2. CASE HandleEvent
    <2>1. pc[EL] = "ev_write" /\ op[EL] # "stop" /\ events' = events
      BY <1>2 DEF HandleEvent, Calm, dockVars
    <2>2. ~Restarts(op[EL], held)
      BY <2>1 DEF Restarts
    <2>3. pc'[EL] = "done"
      BY <1>0, <1>2, <2>2 DEF HandleEvent, Goto
    <2> QED
      BY <2>1, <2>3 DEF Calm, StartLabels
  <1>3. CASE ShipExits
    <2>1. pc' = pc /\ op' = op /\ Emit(<<"die">>)
      BY <1>3 DEF ShipExits, actorVars
    <2> QED
      BY <1>0, <2>1, EmitCalm DEF Calm
  <1> QED
    BY <1>1, <1>2, <1>3

-----------------------------------------------------------------------------
(* Container and config.  Without kills, and when |exit does not fail, the *)
(* loop is never told of a stop, and next to it one goroutine is at work.  *)
Steadily ==
    /\ OneAtATime /\ "pack" \notin Ops /\ "prep" \notin Statuses
    /\ ~Crashes /\ "click" \notin Faults /\ MaxFails = 0

Waits == {"wait_pack", "wait_meld"}
ScriptLabels == {"sc_find", "sc_switch", "sc_create", "sc_start", "cc_create"}
DeleteLabels == {"rm_conf", "unlist", "rm_vol", "rm_gs"}
Workers == Actors \ {EL}

Turn(a) == \A b \in Workers : b # a => pc[b] = "idle"

NoStale == stale.snap = {} /\ stale.cand = {}

(* A copy has the boot status of the config, if there is one.              *)
SameBoot(c) == c.boot = mem.boot \/ {c.boot, mem.boot} \subseteq {"", "absent"}

(* The config it holds is the one stored, and it knows what mark that has. *)
ConfigOf(a) ==
    /\ mem = disk
    /\ mem.boot \in OneShots => pc[a] = "sc_conf" \/ pc[a] \in CopyLabels
    /\ pc[a] = "sc_conf" => (ret[a] \in Waits <=> mem.boot \in OneShots)
    /\ pc[a] \in CopyLabels => SameBoot(cand[a])
    /\ pc[a] \in CandLabels => /\ ret[a] \in Waits <=> cand[a].boot \in OneShots
                               /\ Settings(cand[a]) = want
                               /\ pc[a] \notin CopyLabels /\ cand[a].boot = "boot"
                                    => mem.boot = "boot"
    /\ pc[a] \in ScriptLabels => script = cand[a].boot /\ script \in Bootable
    /\ pc[a] \in SettingLabels => SameBoot(snap[a])

(* pack-meld, until its meld has ended. *)
Melding(a) ==
    \/ pc[a] \in {"w_pack", "w_meld"} \cup Waits
    \/ pc[a] \in StartLabels /\ ret[a] \in Waits

(* The container is as the config wants it, or the worker sees to it.      *)
DockerOf(a) ==
    /\ pc[a] = "stop" => ~Running
    /\ Running /\ cont.run # "boot" => pc[a] \in Waits
    /\ cont.st # "none" => \/ cont.net = want.net /\ cont.args = want.args
                           \/ pc[a] = "rm"
    /\ Melding(a) /\ Running => Departing
    /\ mem.boot = "noboot" /\ Running => Departing \/ pc[a] = "exit"
    /\ pc[a] \in DeleteLabels \/ ~listed => cont.st = "none"
    /\ ~listed => pc[a] \in {"rm_vol", "rm_gs", "done", "idle"}

SteadyInv ==
    /\ OneShotInv /\ EditsInv
    /\ daemon = "up" /\ Calm /\ NoStale
    /\ \E a \in Workers : Turn(a) /\ ConfigOf(a) /\ DockerOf(a)

LEMMA WorkerFacts ==
    /\ Workers = Handlers \cup {Loader}
    /\ \A a \in Workers : a \in Actors /\ a # EL
  BY ActorKinds DEF Workers

LEMMA TurnFacts ==
    ASSUME SteadyInv, NEW a \in Workers, Step(a)
    PROVE  /\ IInv /\ pc[a] # "idle" /\ daemon' = "up"
           /\ pc \in [Actors -> Labels] /\ ret \in [Actors -> RetLabels]
           /\ snap \in [Actors -> Conf] /\ cand \in [Actors -> Conf]
           /\ snap[a] \in Conf /\ cand[a] \in Conf /\ ret[a] \in RetLabels
           /\ mem \in Conf /\ disk \in Conf /\ cont \in Container
           /\ pc[a] \notin {"send", "w_last"} /\ ret[a] # "w_last"
           /\ op[a] # "pack" \/ "pack" \in Ops
  <1>1. Step(a) /\ a \in Actors
    BY WorkerFacts
  <1>2. op[a] \in Ops \cup {"none", "load"} \cup EventNames
    BY <1>1, Maps DEF SteadyInv, EditsInv
  <1> QED
    BY <1>1, <1>2, Maps, OthersWait
       DEF SteadyInv, OneShotInv, Control, IInv, TypeOK, NeverPacks, EventNames

(* The one whose turn it is goes on alone.                                 *)
LEMMA TurnStays ==
    ASSUME SteadyInv, NEW a \in Workers, Turn(a), Step(a)
    PROVE  Turn(a)' /\ \A b \in Workers : b # a => pc'[b] = "idle"
  BY OthersWait, WorkerFacts DEF Turn, SteadyInv, OneShotInv, Control

LEMMA NoWriteFails == ASSUME Steadily, IInv PROVE ~WriteFails /\ fails = 0
  <1>1. fails \in 0..MaxFails /\ MaxFails = 0
    BY DEF IInv, TypeOK, Steadily
  <1>2. fails = 0
    BY <1>1
  <1> QED
    BY <1>1, <1>2 DEF WriteFails

(* No copy of the config is ever stale, so that the settings asked for      *)
(* change when they are asked for alone.                                   *)
LEMMA WantStays ==
    ASSUME SteadyInv, Steadily, NEW a \in Workers, Turn(a), Step(a)
    PROVE  /\ NoStale'
           /\ ~WriteSettings(a) => want' = want
  <1>0. /\ ~WriteFails /\ ~behind /\ a \in Actors /\ NoStale /\ IInv
        /\ a \notin stale["snap"] /\ a \notin stale["cand"]
    BY TurnFacts, WorkerFacts, NoWriteFails DEF SteadyInv, NoStale, OneShotInv, Agree
  <1>1. SUFFICES \/ want' = want /\ stale' = stale
                 \/ WriteSettings(a) /\ NoStale'
                 \/ want' = want /\ NoStale'
    BY <1>0 DEF NoStale
  <1>2. CASE \/ PowerOn(a) \/ PowerOff(a) \/ DetectBoot(a) \/ WritePack(a)
             \/ WriteMeldLast(a) \/ WriteMeld(a) \/ WriteBoot(a)
    <2>1. Account(a) /\ pc[a] \notin SettingLabels
      BY <1>2 DEF PowerOn, PowerOff, DetectBoot, WritePack, WriteMeldLast, WriteMeld, WriteBoot,
                  Store, SettingLabels
    <2> QED
      BY <1>0, <2>1 DEF Account, Stored
  <1>3. CASE WriteSettings(a)
    <2>1. Account(a) /\ pc[a] \in SettingLabels
      BY <1>3 DEF WriteSettings, Store
    <2>2. stale' = [Held EXCEPT !.snap = @ \ {a}]
      BY <1>0, <2>1 DEF Account, NoStale
    <2>3. stale'.snap = Held.snap \ {a} /\ stale'.cand = Held.cand
      BY <1>0, <2>2, StaleFields
    <2>4. Held.snap \ {a} = {}
      BY WorkerFacts DEF Held, Turn
    <2>5. Held.cand = {}
      <3>1. \A b \in Actors : pc[b] \notin CopyLabels
        BY <2>1, WorkerFacts, ActorKinds
           DEF Turn, SteadyInv, Calm, StartLabels, CopyLabels, SettingLabels
      <3> QED
        BY <3>1 DEF Held, CopyLabels
    <2> QED
      BY <1>3, <2>3, <2>4, <2>5 DEF NoStale
  <1>4. CASE StoreFails(a)
    BY <1>0, <1>4 DEF StoreFails, SaveFails
  <1>5. CASE Finish(a) \/ GetShipStatus(a) \/ SendPack(a) \/ WaitComplete(a) \/ BarExit(a)
             \/ StopContainerByName(a) \/ DeleteContainer(a) \/ SetDesiredStopped(a)
             \/ RemoveUrbitConfig(a) \/ CutPier(a) \/ DeleteVolume(a)
             \/ DeleteContainerState(a)
    BY <1>5 DEF Finish, GetShipStatus, SendPack, WaitComplete, BarExit,
          StopContainerByName, DeleteContainer, SetDesiredStopped, RemoveUrbitConfig, CutPier,
          DeleteVolume, DeleteContainerState
  <1>6. CASE FindContainer(a) \/ KeepContainer(a) \/ RemoveContainer(a) \/ ContainerCreate(a)
             \/ ContainerStart(a) \/ UpdateContainerState(a) \/ WriteScript(a)
    BY <1>6 DEF FindContainer, KeepContainer, RemoveContainer, ContainerCreate,
          ContainerStart, UpdateContainerState, WriteScript
  <1>7. CASE ContainerConfRead(a)
    <2>1. want' = want /\ stale' = [stale EXCEPT !["cand"] = @ \ {a}]
      BY <1>7 DEF ContainerConfRead, Fresh
    <2>2. stale'.snap = stale.snap /\ stale'.cand = stale.cand \ {a}
      BY <1>0, <2>1, StaleFields
    <2> QED
      BY <1>0, <2>1, <2>2 DEF NoStale
  <1>8. CASE ContainerConfApply(a) \/ ContainerConfReset(a)
    BY <1>0, <1>8 DEF ContainerConfApply, ContainerConfReset, StoreCand, Stored
  <1>9. CASE ContainerConfLoad(a) \/ LoadUrbitConfig(a)
    BY <1>0, <1>9 DEF ContainerConfLoad, LoadUrbitConfig
  <1> QED
    BY <1>2, <1>3, <1>4, <1>5, <1>6, <1>7, <1>8, <1>9 DEF Step

(* What a handler stores.                                                  *)
LEMMA StoredBoot ==
    ASSUME IInv, NEW a \in Actors
    PROVE  /\ pc[a] \in {"w_on", "w_boot"} => Edited(a).boot = "boot"
           /\ pc[a] = "w_off" => Edited(a).boot = "noboot"
           /\ pc[a] = "w_pack" => Edited(a).boot = "pack"
           /\ pc[a] = "w_meld" => Edited(a).boot = "meld"
           /\ pc[a] = "w_detect" => /\ Edited(a).boot \in {"ignore", "boot", "noboot"}
                                    /\ Edited(a).boot = "noboot" => ~Running
           /\ pc[a] \in SettingLabels => Edited(a).boot = snap[a].boot
  <1>1. snap[a] \in Conf
    BY Maps
  <1>2. \A b : [snap[a] EXCEPT !.boot = b].boot = b
    BY <1>1 DEF Conf
  <1>3. /\ [snap[a] EXCEPT !.net = IF @ = "wireguard" THEN "bridge" ELSE "wireguard"].boot
             = snap[a].boot
        /\ [snap[a] EXCEPT !.args = ~@].boot = snap[a].boot
        /\ [snap[a] EXCEPT !.web = ~@].boot = snap[a].boot
    BY <1>1 DEF Conf
  <1>4. CASE pc[a] = "w_detect"
    <2> DEFINE d == IF snap[a].boot # "ignore" THEN "ignore"
                    ELSE IF StatusUp THEN "boot" ELSE "noboot"
    <2>1. Edited(a) = [snap[a] EXCEPT !.boot = d]
      BY <1>4 DEF Edited
    <2>2. Edited(a).boot = d
      BY <1>2, <2>1
    <2> QED
      BY <1>4, <2>2 DEF StatusUp, SettingLabels
  <1>5. CASE pc[a] \in SettingLabels
    BY <1>3, <1>5 DEF Edited, SettingLabels
  <1>6. CASE pc[a] \in {"w_on", "w_boot", "w_off", "w_pack", "w_meld"}
    BY <1>2, <1>6 DEF Edited, SettingLabels
  <1> QED
    BY <1>4, <1>5, <1>6

(* A step that leaves config and script alone.                             *)
LEMMA ConfigStays ==
    ASSUME SteadyInv, NEW a \in Workers, Step(a), ConfigOf(a),
           UNCHANGED <<mem, disk, want, script>>,
           cand'[a] = cand[a] \/ pc'[a] = "idle", ret'[a] = ret[a] \/ pc'[a] = "idle",
           pc'[a] # "sc_conf" /\ pc'[a] \notin CopyLabels,
           pc'[a] \in CandLabels => pc[a] \in ScriptLabels /\ pc'[a] \in ScriptLabels,
           pc[a] # "sc_conf" /\ pc[a] \notin CopyLabels
    PROVE  ConfigOf(a)'
  <1>1. pc'[a] \notin SettingLabels
    BY SettingsFirst, WorkerFacts DEF SteadyInv, OneShotInv
  <1>2. pc'[a] \in ScriptLabels => pc[a] \in ScriptLabels /\ pc[a] \in CandLabels
    BY DEF ScriptLabels, CandLabels, CopyLabels
  <1> QED
    BY <1>1, <1>2 DEF ConfigOf, ScriptLabels, CandLabels, CopyLabels

(* A handler's write: everything but the boot status is as it was.         *)
LEMMA WriteConfig ==
    ASSUME SteadyInv, NEW a \in Workers, Step(a), mem' = disk',
           pc'[a] \notin CandLabels,
           mem'.boot \in OneShots => pc'[a] = "sc_conf",
           pc'[a] = "sc_conf" => (ret'[a] \in Waits <=> mem'.boot \in OneShots)
    PROVE  ConfigOf(a)'
  <1>1. pc'[a] \notin SettingLabels
    BY SettingsFirst, WorkerFacts DEF SteadyInv, OneShotInv
  <1> QED
    BY <1>1 DEF ConfigOf, ScriptLabels, CandLabels, CopyLabels

LEMMA StoreConfig ==
    ASSUME SteadyInv, Steadily, NEW a \in Workers, Turn(a), Step(a), ConfigOf(a),
           \/ PowerOn(a) \/ PowerOff(a) \/ DetectBoot(a) \/ WriteBoot(a)
           \/ WritePack(a) \/ WriteMeld(a) \/ WriteSettings(a) \/ RemoveUrbitConfig(a)
    PROVE  ConfigOf(a)'
  <1>0. /\ pc \in [Actors -> Labels] /\ ret \in [Actors -> RetLabels] /\ a \in Actors
        /\ snap[a] \in Conf /\ op[a] # "pack" /\ mem \in Conf /\ IInv
    BY TurnFacts, WorkerFacts DEF Steadily
  <1>1. ASSUME NEW l, Store(a, l)
        PROVE  mem' = Edited(a) /\ mem' = disk' /\ pc[a] = l
    BY <1>1 DEF Store, UpdateUrbitConfig
  <1>2. CASE PowerOn(a) \/ WriteBoot(a)
    <2>1. mem' = Edited(a) /\ mem' = disk' /\ pc[a] \in {"w_on", "w_boot"}
          /\ pc'[a] = "sc_conf" /\ ret'[a] = "done"
      BY <1>0, <1>1, <1>2 DEF PowerOn, WriteBoot, CallStart, Goto
    <2>2. mem'.boot = "boot"
      BY <1>0, <2>1, StoredBoot
    <2> QED
      BY <2>1, <2>2, WriteConfig DEF OneShots, Waits, CandLabels
  <1>3. CASE WritePack(a) \/ WriteMeld(a)
    <2>1. mem' = Edited(a) /\ mem' = disk' /\ pc[a] \in {"w_pack", "w_meld"}
          /\ pc'[a] = "sc_conf" /\ ret'[a] \in Waits
      BY <1>0, <1>1, <1>3 DEF WritePack, WriteMeld, CallStart, Goto, Waits
    <2>2. mem'.boot \in OneShots
      BY <1>0, <2>1, StoredBoot DEF OneShots
    <2> QED
      BY <2>1, <2>2, WriteConfig DEF CandLabels
  <1>5. CASE PowerOff(a) \/ DetectBoot(a)
    <2>1. mem' = Edited(a) /\ mem' = disk' /\ pc'[a] \in {"exit", "done"}
          /\ pc[a] \in {"w_off", "w_detect"}
      BY <1>0, <1>1, <1>5 DEF PowerOff, DetectBoot, Goto
    <2>2. mem'.boot \notin OneShots
      BY <1>0, <2>1, StoredBoot DEF OneShots
    <2> QED
      BY <2>1, <2>2, WriteConfig DEF CandLabels
  <1>6. CASE WriteSettings(a)
    <2>1. pc[a] \in SettingLabels /\ pc'[a] \in {"done", "rm"} /\ mem' = disk'
          /\ mem' = Edited(a)
      BY <1>0, <1>1, <1>6 DEF WriteSettings, AfterWrite, Goto
    <2>2. mem'.boot = snap[a].boot
      BY <1>0, <2>1, StoredBoot
    <2>3. mem'.boot \notin OneShots
      BY <2>1, <2>2 DEF ConfigOf, SameBoot, SettingLabels, OneShots, CopyLabels
    <2> QED
      BY <2>1, <2>3, WriteConfig DEF CandLabels
  <1>7. CASE RemoveUrbitConfig(a)
    <2>1. mem' = Absent /\ mem' = disk' /\ pc'[a] = "unlist"
      BY <1>0, <1>7, NoWriteFails DEF RemoveUrbitConfig, UpdateUrbitConfig, SaveFails, Goto
    <2> QED
      BY <2>1, AbsentBoot, WriteConfig DEF OneShots, CandLabels
  <1> QED
    BY <1>2, <1>3, <1>5, <1>6, <1>7

LEMMA ContainerConfConfig ==
    ASSUME SteadyInv, Steadily, NEW a \in Workers, Turn(a), Step(a), ConfigOf(a), DockerOf(a),
           \/ ContainerConfRead(a) \/ ContainerConfApply(a) \/ ContainerConfLoad(a)
           \/ ContainerConfReset(a) \/ WriteScript(a)
    PROVE  ConfigOf(a)'
  <1>0. /\ pc \in [Actors -> Labels] /\ cand \in [Actors -> Conf] /\ a \in Actors
        /\ cand[a] \in Conf /\ mem \in Conf /\ IInv /\ mem = disk
        /\ ~WriteFails /\ daemon = "up"
    BY TurnFacts, WorkerFacts, NoWriteFails DEF ConfigOf, SteadyInv
  <1>1. want' = want
    <2>1. ~WriteSettings(a)
      BY DEF ContainerConfRead, ContainerConfApply, ContainerConfLoad, ContainerConfReset,
             WriteScript, WriteSettings, SettingLabels, Store
    <2> QED
      BY <2>1, WantStays
  <1>2. CASE ContainerConfRead(a)
    <2>1. /\ UNCHANGED <<mem, disk, script, ret>> /\ cand'[a] = UrbitConf
          /\ pc[a] = "sc_conf" /\ pc'[a] = "sc_apply"
      BY <1>0, <1>2 DEF ContainerConfRead, Goto, confVars, dockVars
    <2>2. Settings(UrbitConf) = want
      <3>1. listed
        BY <2>1 DEF DockerOf
      <3>2. ~Unlisting
        BY <2>1, WorkerFacts DEF Unlisting, Turn
      <3> QED
        BY <1>0, <3>1, <3>2, UrbitSettings DEF SteadyInv, EditsInv, Copied, WantKept, Kept
    <2>3. SameBoot(UrbitConf)
      BY AbsentBoot DEF SameBoot, UrbitConf
    <2>4. UrbitConf.boot \in OneShots <=> mem.boot \in OneShots
      BY <2>3 DEF SameBoot, OneShots
    <2> QED
      BY <1>0, <1>1, <2>1, <2>2, <2>3, <2>4
         DEF ConfigOf, SameBoot, CandLabels, CopyLabels, ScriptLabels, SettingLabels
  <1>3. CASE ContainerConfApply(a)
    <2>0. /\ pc[a] = "sc_apply" /\ cand' = cand /\ ret' = ret /\ script' = script
          /\ pc'[a] = "sc_load" /\ SameBoot(cand[a])
          /\ ret[a] \in Waits <=> cand[a].boot \in OneShots
          /\ Settings(cand[a]) = want
      BY <1>0, <1>3 DEF ContainerConfApply, ConfigOf, CandLabels, CopyLabels, Goto, dockVars
    <2>1. mem' = disk' /\ (mem' = mem \/ mem'.boot = cand[a].boot)
      <3>1. CASE cand[a].ver # latest
        BY <1>0, <1>3, <3>1 DEF ContainerConfApply, StoreCand, UpdateUrbitConfig, SaveFails, Conf
      <3>2. CASE cand[a].ver = latest
        BY <1>0, <1>3, <3>2 DEF ContainerConfApply
      <3> QED
        BY <3>1, <3>2
    <2> QED
      BY <1>1, <2>0, <2>1
         DEF ConfigOf, SameBoot, CandLabels, CopyLabels, ScriptLabels, SettingLabels
  <1>4. CASE ContainerConfLoad(a)
    <2>0. /\ pc[a] = "sc_load" /\ cand' = cand /\ ret' = ret /\ script' = script
          /\ disk' = disk /\ SameBoot(cand[a])
          /\ ret[a] \in Waits <=> cand[a].boot \in OneShots
          /\ Settings(cand[a]) = want
      BY <1>4 DEF ContainerConfLoad, ConfigOf, CandLabels, CopyLabels, dockVars
    <2>1. mem' = mem
      BY <1>0, <1>4 DEF ContainerConfLoad, ReadUrbitConfig
    <2>2. pc'[a] = "sc_reset" \/ (pc'[a] = "done" /\ ~(Readable /\ cand[a].boot \in Bootable))
      BY <1>0, <1>4 DEF ContainerConfLoad, Goto
    <2>3. ASSUME mem.boot \in OneShots
          PROVE  pc'[a] = "sc_reset"
      <3>1. Readable
        BY <1>0, <2>3, AbsentBoot DEF Readable, OneShots
      <3>2. cand[a].boot \in Bootable
        BY <2>0, <2>3 DEF SameBoot, OneShots, Bootable
      <3> QED
        BY <2>2, <3>1, <3>2
    <2> QED
      BY <1>0, <1>1, <2>0, <2>1, <2>2, <2>3
         DEF ConfigOf, SameBoot, CandLabels, CopyLabels, ScriptLabels, SettingLabels
  <1>5. CASE ContainerConfReset(a)
    <2>0. /\ pc[a] = "sc_reset" /\ cand' = cand /\ ret' = ret /\ SameBoot(cand[a])
          /\ pc'[a] = "sc_script"
          /\ ret[a] \in Waits <=> cand[a].boot \in OneShots
          /\ Settings(cand[a]) = want /\ cand[a].boot \in Bootable
      BY <1>0, <1>5 DEF ContainerConfReset, ConfigOf, CandLabels, CopyLabels, IInv, OpAtLabel, Goto
    <2>1. mem' = disk' /\ mem'.boot \in {"boot", "noboot"}
          /\ (cand[a].boot = "boot" => mem'.boot = "boot")
      <3>1. CASE cand[a].boot = "boot"
        <4>1. mem' = mem /\ disk' = disk
          BY <1>5, <3>1 DEF ContainerConfReset
        <4>2. mem.boot = "boot"
          BY <2>0, <3>1 DEF SameBoot
        <4> QED
          BY <1>0, <4>1, <4>2
      <3>2. CASE cand[a].boot # "boot"
        <4>1. mem' = disk' /\ mem' = [cand[a] EXCEPT !.boot = ResetBoot(cand[a].boot)]
          BY <1>0, <1>5, <3>2 DEF ContainerConfReset, StoreCand, UpdateUrbitConfig, SaveFails
        <4>2. ResetBoot(cand[a].boot) \in {"boot", "noboot"}
          BY <2>0, <3>2 DEF ResetBoot, Bootable
        <4> QED
          BY <1>0, <3>2, <4>1, <4>2 DEF Conf
      <3> QED
        BY <3>1, <3>2
    <2> QED
      BY <1>1, <2>0, <2>1
         DEF ConfigOf, CandLabels, CopyLabels, ScriptLabels, SettingLabels, OneShots
  <1>6. CASE WriteScript(a)
    <2>0. /\ pc[a] = "sc_script" /\ UNCHANGED <<mem, disk, cand, ret>>
          /\ ret[a] \in Waits <=> cand[a].boot \in OneShots
          /\ Settings(cand[a]) = want /\ mem.boot \notin OneShots
          /\ cand[a].boot = "boot" => mem.boot = "boot"
          /\ cand[a].boot \in Bootable
      BY <1>0, <1>6 DEF WriteScript, ConfigOf, CandLabels, CopyLabels, IInv, OpAtLabel
    <2>1. \/ pc'[a] = "done"
          \/ pc'[a] \in {"cc_create", "sc_find"} /\ script' = cand[a].boot
      BY <1>0, <1>6 DEF WriteScript, Goto, ScriptFor
    <2> QED
      BY <1>0, <1>1, <2>0, <2>1
         DEF ConfigOf, CandLabels, CopyLabels, ScriptLabels, SettingLabels
  <1> QED
    BY <1>2, <1>3, <1>4, <1>5, <1>6

LEMMA OtherConfig ==
    ASSUME SteadyInv, Steadily, NEW a \in Workers, Turn(a), Step(a), ConfigOf(a),
           ~(\/ PowerOn(a) \/ PowerOff(a) \/ DetectBoot(a) \/ WriteBoot(a)
             \/ WritePack(a) \/ WriteMeld(a) \/ WriteSettings(a) \/ RemoveUrbitConfig(a)
             \/ ContainerConfRead(a) \/ ContainerConfApply(a) \/ ContainerConfLoad(a)
             \/ ContainerConfReset(a) \/ WriteScript(a))
    PROVE  ConfigOf(a)'
  <1>0. /\ pc \in [Actors -> Labels] /\ ret \in [Actors -> RetLabels] /\ a \in Actors
        /\ cand \in [Actors -> Conf] /\ IInv /\ ret[a] \in RetLabels
        /\ pc[a] \notin {"send", "w_last"} /\ op[a] # "pack" /\ want' = want
        /\ ~WriteFails
    BY TurnFacts, WorkerFacts, WantStays, NoWriteFails DEF Steadily
  <1>1. CASE Finish(a)
    <2>1. UNCHANGED <<mem, disk, want, script>> /\ pc[a] = "done" /\ pc'[a] = "idle"
      BY <1>0, <1>1 DEF Finish, Goto, confVars, dockVars
    <2> QED
      BY <2>1, ConfigStays DEF CandLabels, CopyLabels
  <1>2. CASE SendPack(a) \/ WriteMeldLast(a)
    BY <1>0, <1>2 DEF SendPack, WriteMeldLast, Store
  <1>7. CASE StoreFails(a)
    BY <1>0, <1>7 DEF StoreFails, SaveFails
  <1>3. CASE DeleteContainer(a)
    <2>1. UNCHANGED <<mem, disk, want, script, cand>> /\ pc[a] = "rm"
          /\ mem = disk /\ mem.boot \notin OneShots
      BY <1>0, <1>3 DEF DeleteContainer, confVars, ConfigOf, CopyLabels
    <2>2. \/ pc'[a] \in {"done", "rm_conf", "reload"}
          \/ pc'[a] = "sc_conf" /\ ret'[a] = "done"
      BY <1>0, <1>3 DEF DeleteContainer, CallStart, Goto
    <2> QED
      BY <1>0, <2>1, <2>2 DEF ConfigOf, Waits, CandLabels, CopyLabels, ScriptLabels, SettingLabels
  <1>4. CASE LoadUrbitConfig(a)
    <2>1. mem = disk /\ mem.boot \notin OneShots
      BY <1>4 DEF LoadUrbitConfig, ConfigOf, CopyLabels
    <2>2. UNCHANGED <<mem, disk>>
      BY <1>4, <2>1 DEF LoadUrbitConfig, ReadUrbitConfig
    <2>3. \/ pc'[a] = "done"
          \/ pc'[a] = "sc_conf" /\ ret'[a] \in {"gs_made", "gs_run"}
      BY <1>0, <1>4 DEF LoadUrbitConfig, CallStart, Goto
    <2> QED
      BY <1>0, <2>1, <2>2, <2>3 DEF ConfigOf, Waits, CandLabels, CopyLabels, ScriptLabels, SettingLabels
  <1>5. CASE GetShipStatus(a) \/ WaitComplete(a) \/ BarExit(a) \/ StopContainerByName(a)
             \/ SetDesiredStopped(a) \/ CutPier(a) \/ DeleteVolume(a)
             \/ DeleteContainerState(a) \/ UpdateContainerState(a)
    <2>1. /\ UNCHANGED <<mem, disk, want, script, cand, ret>>
          /\ pc[a] # "sc_conf" /\ pc[a] \notin CopyLabels
      BY <1>0, <1>5 DEF GetShipStatus, WaitComplete, BarExit, StopContainerByName,
            SetDesiredStopped, CutPier, DeleteVolume, DeleteContainerState,
            UpdateContainerState, CopyLabels, confVars, dockVars
    <2>2. pc'[a] \notin CandLabels \cup {"sc_conf"}
      <3>1. CASE BarExit(a) \/ StopContainerByName(a)
        <4>1. AfterExit(op[a]) \in {"done", "w_pack", "rm"}
          BY <1>0, <3>1, ExitLabel DEF IInv, OpAtLabel, BarExit, StopContainerByName
        <4> QED
          BY <1>0, <3>1, <4>1 DEF BarExit, StopContainerByName, Goto, CandLabels
      <3>2. CASE GetShipStatus(a) \/ WaitComplete(a) \/ SetDesiredStopped(a) \/ CutPier(a)
                 \/ DeleteVolume(a) \/ DeleteContainerState(a) \/ UpdateContainerState(a)
        BY <1>0, <3>2 DEF GetShipStatus, WaitComplete, SetDesiredStopped, CutPier,
              DeleteVolume, DeleteContainerState, UpdateContainerState, Goto, CandLabels
      <3> QED
        BY <1>5, <3>1, <3>2
    <2> QED
      BY <2>1, <2>2, ConfigStays DEF CandLabels, CopyLabels
  <1>6. CASE FindContainer(a) \/ KeepContainer(a) \/ RemoveContainer(a) \/ ContainerCreate(a)
             \/ ContainerStart(a)
    <2>1. /\ UNCHANGED <<mem, disk, want, script, cand, ret>> /\ pc[a] \in ScriptLabels
      BY <1>0, <1>6 DEF FindContainer, KeepContainer, RemoveContainer, ContainerCreate,
            ContainerStart, confVars, dockVars, ScriptLabels
    <2>2. /\ pc'[a] # "sc_conf" /\ pc'[a] \notin CopyLabels
          /\ pc'[a] \in CandLabels => pc'[a] \in ScriptLabels
      BY <1>0, <1>6 DEF FindContainer, KeepContainer, RemoveContainer, ContainerCreate,
            ContainerStart, Goto, RetLabels, CopyLabels, CandLabels, ScriptLabels
    <2> QED
      BY <2>1, <2>2, ConfigStays DEF ScriptLabels, CopyLabels
  <1> QED
    BY <1>1, <1>2, <1>3, <1>4, <1>5, <1>6, <1>7 DEF Step

(* A step that leaves the container alone, and what is wanted of it.       *)
LEMMA DockerStays ==
    ASSUME NEW a \in Workers, DockerOf(a), UNCHANGED <<cont, listed>>,
           want'.net = want.net /\ want'.args = want.args,
           pc'[a] = "stop" => ~Running,
           Running /\ cont.run # "boot" => pc'[a] \in Waits,
           pc[a] # "rm",
           Melding(a)' => Melding(a) \/ ~Running,
           mem'.boot = "noboot" => \/ mem.boot = "noboot" /\ pc[a] # "exit"
                                   \/ pc'[a] = "exit" \/ ~Running \/ Departing,
           pc'[a] \in DeleteLabels => pc[a] \in DeleteLabels,
           ~listed => pc'[a] \in {"rm_vol", "rm_gs", "done", "idle"}
    PROVE  DockerOf(a)'
  <1>1. Running' <=> Running
    BY DEF Running
  <1>2. Departing' <=> Departing
    BY DEF Departing, Running
  <1> QED
    BY <1>1, <1>2 DEF DockerOf

LEMMA StoreDocker ==
    ASSUME SteadyInv, Steadily, NEW a \in Workers, Turn(a), Step(a), ConfigOf(a), DockerOf(a),
           \/ PowerOn(a) \/ PowerOff(a) \/ DetectBoot(a) \/ WriteBoot(a)
           \/ WritePack(a) \/ WriteMeld(a)
    PROVE  DockerOf(a)'
  <1>0. /\ pc \in [Actors -> Labels] /\ ret \in [Actors -> RetLabels] /\ a \in Actors
        /\ op[a] # "pack" /\ IInv
    BY TurnFacts, WorkerFacts DEF Steadily
  <1>1. /\ UNCHANGED <<cont, listed>> /\ mem' = Edited(a)
        /\ pc[a] \in {"w_on", "w_off", "w_detect", "w_boot", "w_pack", "w_meld"}
      BY DEF PowerOn, PowerOff, DetectBoot, WriteBoot, WritePack, WriteMeld,
             Store, dockVars, UpdateUrbitConfig
  <1>2. want' = want
    <2>1. ~WriteSettings(a)
      BY <1>1 DEF WriteSettings, SettingLabels, Store
    <2> QED
      BY <2>1, WantStays
  <1>3. pc[a] \notin Waits \cup StartLabels \cup DeleteLabels
        /\ ~(Running /\ cont.run # "boot") /\ listed
    BY <1>1 DEF DockerOf, Waits, StartLabels, DeleteLabels
  <1>4. CASE PowerOn(a) \/ WriteBoot(a)
    <2>0. pc[a] \in {"w_on", "w_boot"} /\ pc'[a] = "sc_conf" /\ ret'[a] = "done"
      BY <1>0, <1>4 DEF PowerOn, WriteBoot, CallStart, Goto, Store
    <2>1. mem'.boot = "boot"
      BY <1>0, <1>1, <2>0, StoredBoot
    <2> QED
      BY <1>1, <1>2, <1>3, <2>0, <2>1, DockerStays DEF Melding, Waits, DeleteLabels
  <1>5. CASE WritePack(a) \/ WriteMeld(a)
    <2>0. pc[a] \in {"w_pack", "w_meld"} /\ pc'[a] = "sc_conf" /\ Melding(a)
      BY <1>0, <1>5 DEF WritePack, WriteMeld, CallStart, Goto, Store, Melding
    <2>1. mem'.boot \in {"pack", "meld"}
      BY <1>0, <1>1, <2>0, StoredBoot
    <2> QED
      BY <1>1, <1>2, <1>3, <2>0, <2>1, DockerStays DEF DeleteLabels
  <1>6. CASE PowerOff(a)
    <2>1. pc'[a] = "exit"
      BY <1>0, <1>6 DEF PowerOff, Goto
    <2> QED
      BY <1>1, <1>2, <1>3, <2>1, DockerStays DEF Melding, Waits, DeleteLabels, StartLabels
  <1>7. CASE DetectBoot(a)
    <2>1. pc'[a] = "done" /\ pc[a] = "w_detect"
      BY <1>0, <1>7 DEF DetectBoot, Goto, Store
    <2>2. mem'.boot = "noboot" => ~Running
      BY <1>0, <1>1, <2>1, StoredBoot
    <2> QED
      BY <1>1, <1>2, <1>3, <2>1, <2>2, DockerStays DEF Melding, Waits, DeleteLabels, StartLabels
  <1> QED
    BY <1>4, <1>5, <1>6, <1>7

LEMMA SettingsDocker ==
    ASSUME SteadyInv, Steadily, NEW a \in Workers, Turn(a), Step(a), ConfigOf(a), DockerOf(a),
           WriteSettings(a)
    PROVE  DockerOf(a)'
  <1>0. /\ pc \in [Actors -> Labels] /\ a \in Actors /\ want \in Wants
        /\ IInv /\ a \notin stale["snap"]
    BY TurnFacts, WorkerFacts DEF IInv, TypeOK, Wants, SteadyInv, NoStale
  <1>1. /\ pc[a] \in SettingLabels /\ UNCHANGED <<cont, listed>>
        /\ pc'[a] = IF pc[a] = "w_web" THEN "done" ELSE "rm"
        /\ mem' = Edited(a) /\ Account(a)
    BY <1>0 DEF WriteSettings, AfterWrite, Goto, SettingLabels, Store, UpdateUrbitConfig, dockVars
  <1>2. pc[a] = "w_web" => want'.net = want.net /\ want'.args = want.args
    <2>1. ASSUME pc[a] = "w_web"
          PROVE  \E c : want' = [want EXCEPT !.web = c]
      BY <1>0, <1>1, <2>1 DEF Account, Asked
    <2> QED
      BY <1>0, <2>1 DEF Wants
  <1>3. mem'.boot = snap[a].boot /\ SameBoot(snap[a])
    BY <1>0, <1>1, StoredBoot DEF ConfigOf
  <1>4. mem'.boot = "noboot" => mem.boot = "noboot"
    BY <1>3 DEF SameBoot
  <1>5. /\ (Running' <=> Running) /\ (Departing' <=> Departing)
    BY <1>1 DEF Running, Departing
  <1>6. ~(Running /\ cont.run # "boot") /\ listed /\ pc[a] # "rm" /\ pc[a] # "exit"
    BY <1>1 DEF DockerOf, SettingLabels, Waits
  <1> QED
    BY <1>1, <1>2, <1>4, <1>5, <1>6
       DEF DockerOf, Melding, StartLabels, Waits, DeleteLabels

LEMMA ConfDocker ==
    ASSUME SteadyInv, Steadily, NEW a \in Workers, Turn(a), Step(a), ConfigOf(a), DockerOf(a),
           \/ ContainerConfRead(a) \/ ContainerConfApply(a) \/ ContainerConfLoad(a)
           \/ ContainerConfReset(a) \/ WriteScript(a)
    PROVE  DockerOf(a)'
  <1>0. /\ pc \in [Actors -> Labels] /\ ret \in [Actors -> RetLabels] /\ a \in Actors
        /\ cand[a] \in Conf /\ IInv /\ mem = disk /\ ~WriteFails
    BY TurnFacts, WorkerFacts, NoWriteFails DEF ConfigOf
  <1>1. /\ UNCHANGED <<cont, listed, ret>>
        /\ pc[a] \in {"sc_conf", "sc_apply", "sc_load", "sc_reset", "sc_script"}
    BY DEF ContainerConfRead, ContainerConfApply, ContainerConfLoad, ContainerConfReset,
           WriteScript, confVars, dockVars
  <1>2. pc'[a] \in {"sc_apply", "sc_load", "sc_reset", "sc_script", "sc_find", "cc_create",
                    "done"}
    BY <1>0 DEF ContainerConfRead, ContainerConfApply, ContainerConfLoad, ContainerConfReset,
                WriteScript, Goto
  <1>3. pc[a] \notin Waits /\ listed /\ ~(Running /\ cont.run # "boot")
    BY <1>1 DEF DockerOf, Waits
  <1>4. Melding(a)' => Melding(a)
    BY <1>1, <1>2 DEF Melding, StartLabels, Waits
  <1>6. want' = want
    <2>1. ~WriteSettings(a)
      BY <1>1 DEF WriteSettings, SettingLabels, Store
    <2> QED
      BY <2>1, WantStays
  <1>5. mem'.boot = "noboot" => mem.boot = "noboot" \/ ~Running \/ Departing
    <2>1. CASE ContainerConfRead(a) \/ WriteScript(a)
      BY <2>1 DEF ContainerConfRead, WriteScript, confVars
    <2>4. CASE ContainerConfLoad(a)
      BY <1>0, <2>4 DEF ContainerConfLoad, ReadUrbitConfig
    <2>2. CASE ContainerConfApply(a)
      <3>1. mem' = mem \/ mem'.boot = cand[a].boot
        <4>1. CASE cand[a].ver # latest
          BY <1>0, <2>2, <4>1
             DEF ContainerConfApply, StoreCand, UpdateUrbitConfig, SaveFails, Conf
        <4>2. CASE cand[a].ver = latest
          BY <2>2, <4>2 DEF ContainerConfApply
        <4> QED
          BY <4>1, <4>2
      <3>2. SameBoot(cand[a])
        BY <2>2 DEF ConfigOf, ContainerConfApply, CopyLabels
      <3> QED
        BY <3>1, <3>2 DEF SameBoot
    <2>3. CASE ContainerConfReset(a)
      <3>1. CASE cand[a].boot = "boot"
        BY <2>3, <3>1 DEF ContainerConfReset
      <3>2. CASE cand[a].boot # "boot"
        <4>1. cand[a].boot \in Bootable /\ pc[a] = "sc_reset"
          BY <1>0, <2>3 DEF ContainerConfReset, IInv, OpAtLabel
        <4>2. cand[a].boot \in OneShots
          BY <3>2, <4>1 DEF Bootable, OneShots
        <4>3. ret[a] \in Waits
          BY <4>1, <4>2 DEF ConfigOf, CandLabels
        <4> QED
          BY <4>1, <4>3 DEF DockerOf, Melding, StartLabels
      <3> QED
        BY <3>1, <3>2
    <2> QED
      BY <2>1, <2>2, <2>3, <2>4
  <1> QED
    BY <1>1, <1>2, <1>3, <1>4, <1>5, <1>6, DockerStays DEF DeleteLabels

LEMMA CalmDocker ==
    ASSUME SteadyInv, Steadily, NEW a \in Workers, Turn(a), Step(a), ConfigOf(a), DockerOf(a),
           \/ Finish(a) \/ GetShipStatus(a) \/ WaitComplete(a) \/ SetDesiredStopped(a)
           \/ RemoveUrbitConfig(a) \/ DeleteVolume(a) \/ DeleteContainerState(a)
           \/ FindContainer(a) \/ KeepContainer(a) \/ LoadUrbitConfig(a)
           \/ UpdateContainerState(a)
    PROVE  DockerOf(a)'
  <1>0. /\ pc \in [Actors -> Labels] /\ ret \in [Actors -> RetLabels] /\ a \in Actors
        /\ ret[a] \in RetLabels /\ ret[a] # "w_last"
        /\ op[a] # "pack" /\ ~WriteFails /\ mem = disk
    BY TurnFacts, WorkerFacts, NoWriteFails DEF Steadily, ConfigOf
  <1>1. UNCHANGED <<cont, listed, want>>
    <2>1. UNCHANGED <<cont, listed>>
      BY DEF Finish, GetShipStatus, WaitComplete, SetDesiredStopped, RemoveUrbitConfig,
           DeleteVolume, DeleteContainerState, FindContainer, KeepContainer,
           LoadUrbitConfig, UpdateContainerState, confVars, dockVars
    <2>2. pc[a] \notin SettingLabels
      BY DEF Finish, GetShipStatus, WaitComplete, SetDesiredStopped, RemoveUrbitConfig,
           DeleteVolume, DeleteContainerState, FindContainer, KeepContainer,
           LoadUrbitConfig, UpdateContainerState, SettingLabels
    <2>3. ~WriteSettings(a)
      BY <2>2 DEF WriteSettings, Store
    <2> QED
      BY <2>1, <2>3, WantStays
  <1>2. CASE Finish(a)
    <2>1. pc[a] = "done" /\ pc'[a] = "idle" /\ mem' = mem
      BY <1>0, <1>2 DEF Finish, Goto, confVars
    <2>2. ~(Running /\ cont.run # "boot")
      BY <2>1 DEF DockerOf, Waits
    <2> QED
      BY <1>1, <2>1, <2>2, DockerStays DEF Melding, StartLabels, Waits, DeleteLabels
  <1>3. CASE GetShipStatus(a)
    <2>1. /\ pc[a] = "status" /\ mem' = mem /\ ret' = ret
          /\ pc'[a] \in {"reload", "exit", "rm"} \/ (pc'[a] = "w_pack" /\ ~Running)
      BY <1>0, <1>3 DEF GetShipStatus, Goto, confVars, StatusUp
    <2>2. ~(Running /\ cont.run # "boot") /\ listed
      BY <2>1 DEF DockerOf, Waits
    <2> QED
      BY <1>1, <2>1, <2>2, DockerStays DEF Melding, StartLabels, Waits, DeleteLabels
  <1>4. CASE WaitComplete(a)
    <2>1. /\ pc[a] \in Waits /\ mem' = mem /\ ~Running
          /\ pc'[a] \in {"w_meld", "w_boot", "done"}
      BY <1>0, <1>4 DEF WaitComplete, Goto, confVars, StatusUp, Waits
    <2>2. listed /\ pc[a] # "rm"
      BY <2>1 DEF DockerOf, Waits
    <2> QED
      BY <1>1, <2>1, <2>2, DockerStays DEF DeleteLabels
  <1>5. CASE SetDesiredStopped(a)
    <2>1. pc[a] = "gs_stop" /\ pc'[a] = "exit" /\ mem' = mem
      BY <1>0, <1>5 DEF SetDesiredStopped, Goto, confVars
    <2>2. ~(Running /\ cont.run # "boot") /\ listed
      BY <2>1 DEF DockerOf, Waits
    <2> QED
      BY <1>1, <2>1, <2>2, DockerStays DEF Melding, StartLabels, Waits, DeleteLabels
  <1>6. CASE RemoveUrbitConfig(a)
    <2>1. pc[a] = "rm_conf" /\ pc'[a] = "unlist" /\ mem' = Absent
      BY <1>0, <1>6 DEF RemoveUrbitConfig, UpdateUrbitConfig, SaveFails, Goto
    <2>2. ~(Running /\ cont.run # "boot") /\ listed
      BY <2>1 DEF DockerOf, Waits
    <2> QED
      BY <1>1, <2>1, <2>2, AbsentBoot, DockerStays
         DEF Melding, StartLabels, Waits, DeleteLabels
  <1>7. CASE DeleteVolume(a) \/ DeleteContainerState(a)
    <2>1. /\ pc[a] \in {"rm_vol", "rm_gs"} /\ pc'[a] \in {"done", "rm_gs"} /\ mem' = mem
      BY <1>0, <1>7 DEF DeleteVolume, DeleteContainerState, Goto, confVars
    <2>2. ~(Running /\ cont.run # "boot")
      BY <2>1 DEF DockerOf, Waits
    <2> QED
      BY <1>1, <2>1, <2>2, DockerStays DEF Melding, StartLabels, Waits, DeleteLabels
  <1>8. CASE FindContainer(a)
    <2>1. /\ pc[a] = "sc_find" /\ pc'[a] \in {"sc_create", "sc_switch"}
          /\ mem' = mem /\ ret' = ret
      BY <1>0, <1>8 DEF FindContainer, Goto, confVars
    <2>2. ~(Running /\ cont.run # "boot") /\ listed
      BY <2>1 DEF DockerOf, Waits
    <2> QED
      BY <1>1, <2>1, <2>2, DockerStays DEF Melding, StartLabels, Waits, DeleteLabels
  <1>9. CASE KeepContainer(a)
    <2>1. /\ pc[a] = "sc_switch" /\ pc'[a] \in {"done", ret[a]} /\ mem' = mem /\ ret' = ret
      BY <1>0, <1>9 DEF KeepContainer, Goto, confVars
    <2>2. ~(Running /\ cont.run # "boot") /\ listed
      BY <2>1 DEF DockerOf, Waits
    <2>3. pc'[a] \in Waits \cup {"done", "gs_run", "gs_made"}
      BY <1>0, <2>1 DEF RetLabels, Waits
    <2>4. Melding(a)' => Melding(a)
      BY <1>0, <2>1, <2>3 DEF Melding, StartLabels, Waits, RetLabels
    <2> QED
      BY <1>1, <2>1, <2>2, <2>3, <2>4, DockerStays DEF Waits, DeleteLabels
  <1>10. CASE LoadUrbitConfig(a)
    <2>1. /\ pc[a] = "reload" /\ mem' = mem
          /\ pc'[a] = "done" \/ (pc'[a] = "sc_conf" /\ ret'[a] \in {"gs_made", "gs_run"})
      BY <1>0, <1>10 DEF LoadUrbitConfig, ReadUrbitConfig, CallStart, Goto
    <2>2. ~(Running /\ cont.run # "boot") /\ listed
      BY <2>1 DEF DockerOf, Waits
    <2> QED
      BY <1>1, <2>1, <2>2, DockerStays DEF Melding, StartLabels, Waits, DeleteLabels
  <1>11. CASE UpdateContainerState(a)
    <2>1. pc[a] \in {"gs_run", "gs_made"} /\ pc'[a] = "done" /\ mem' = mem
      BY <1>0, <1>11 DEF UpdateContainerState, Goto, confVars
    <2>2. ~(Running /\ cont.run # "boot")
      BY <2>1 DEF DockerOf, Waits
    <2> QED
      BY <1>1, <2>1, <2>2, DockerStays DEF Melding, StartLabels, Waits, DeleteLabels
  <1> QED
    BY <1>2, <1>3, <1>4, <1>5, <1>6, <1>7, <1>8, <1>9, <1>10, <1>11

(* The container goes down, or away, or is made anew: it does not run.     *)
LEMMA DownDocker ==
    ASSUME NEW a \in Workers, listed', ~Running',
           cont'.st # "none" => cont'.net = want'.net /\ cont'.args = want'.args,
           pc'[a] \in DeleteLabels => cont'.st = "none"
    PROVE  DockerOf(a)'
  BY DEF DockerOf

LEMMA ChangeDocker ==
    ASSUME SteadyInv, Steadily, NEW a \in Workers, Turn(a), Step(a), ConfigOf(a), DockerOf(a),
           \/ BarExit(a) \/ StopContainerByName(a) \/ DeleteContainer(a) \/ CutPier(a)
           \/ RemoveContainer(a) \/ ContainerCreate(a) \/ ContainerStart(a)
    PROVE  DockerOf(a)'
  <1>0. /\ pc \in [Actors -> Labels] /\ ret \in [Actors -> RetLabels] /\ a \in Actors
        /\ ret[a] \in RetLabels /\ ret[a] # "w_last" /\ IInv /\ cont \in Container
        /\ op[a] # "pack" /\ cand[a] \in Conf
    BY TurnFacts, WorkerFacts DEF Steadily
  <1>1. CASE BarExit(a)
    <2>1. /\ pc[a] = "exit" /\ UNCHANGED <<mem, listed, want, ret>>
          /\ op[a] \in ExitOps
      BY <1>0, <1>1 DEF BarExit, confVars, IInv, OpAtLabel
    <2>2. AfterExit(op[a]) \in {"done", "w_pack", "rm"}
      BY <2>1, ExitLabel
    <2>3. /\ ~(Running /\ cont.run # "boot") /\ listed
          /\ cont.st # "none" => cont.net = want.net /\ cont.args = want.args
      BY <2>1 DEF DockerOf, Waits
    <2>4. CASE ClickReaches /\ cont' = [cont EXCEPT !.leaving = TRUE]
                            /\ Goto(a, AfterExit(op[a]))
      <3>1. /\ cont'.st = cont.st /\ cont'.run = cont.run /\ cont'.leaving
            /\ cont'.net = cont.net /\ cont'.args = cont.args
        BY <1>0, <2>4 DEF Container
      <3>2. pc'[a] \in {"done", "w_pack", "rm"}
        BY <1>0, <2>2, <2>4 DEF Goto
      <3>3. Running' => Departing'
        BY <3>1 DEF Running, Departing
      <3> QED
        BY <2>1, <2>3, <3>1, <3>2, <3>3 DEF DockerOf, Running, DeleteLabels
    <2>5. CASE ~ClickReaches
      <3>1. ~Running /\ cont' = cont
        BY <1>1, <2>3, <2>5 DEF ClickReaches, BarExit
      <3>2. pc'[a] \in {"rm", "stop"}
        BY <1>0, <1>1, <2>5 DEF BarExit, Goto, Steadily
      <3> QED
        BY <2>1, <2>3, <3>1, <3>2, DownDocker DEF Running, DeleteLabels
    <2> QED
      BY <1>1, <2>4, <2>5 DEF BarExit, Steadily
  <1>2. CASE StopContainerByName(a)
    <2>1. /\ pc[a] = "stop" /\ UNCHANGED <<mem, listed, want, ret>>
          /\ op[a] \in ExitOps
      BY <1>0, <1>2 DEF StopContainerByName, confVars, IInv, OpAtLabel
    <2>2. AfterExit(op[a]) \in {"done", "w_pack", "rm"}
      BY <2>1, ExitLabel
    <2>3. /\ ~Running /\ listed
          /\ cont.st # "none" => cont.net = want.net /\ cont.args = want.args
      BY <2>1 DEF DockerOf
    <2>4. cont' = cont
      BY <1>2, <2>3 DEF StopContainerByName
    <2>5. pc'[a] \in {"done", "w_pack", "rm"}
      BY <1>0, <1>2, <2>2 DEF StopContainerByName, Goto
    <2> QED
      BY <2>1, <2>3, <2>4, <2>5, DownDocker DEF Running, DeleteLabels
  <1>3. CASE DeleteContainer(a)
    <2>1. pc[a] = "rm" /\ listed' = listed /\ cont' = NoContainer
      BY <1>3 DEF DeleteContainer, confVars
    <2>2. listed /\ cont'.st = "none"
      BY <2>1 DEF DockerOf, NoContainer
    <2> QED
      BY <2>1, <2>2, DownDocker DEF Running
  <1>4. CASE CutPier(a)
    <2>1. pc[a] = "unlist" /\ pc'[a] = "rm_vol" /\ UNCHANGED <<mem, cont, want>>
      BY <1>0, <1>4 DEF CutPier, Goto, dockVars
    <2>2. cont.st = "none"
      BY <2>1 DEF DockerOf, DeleteLabels
    <2> QED
      BY <2>1, <2>2 DEF DockerOf, Running
  <1>5. CASE RemoveContainer(a)
    <2>1. /\ pc[a] = "sc_switch" /\ listed' = listed /\ cont' = NoContainer
          /\ pc'[a] \in {"done", "sc_create"}
      BY <1>0, <1>5 DEF RemoveContainer, Goto, confVars
    <2>2. listed /\ cont'.st = "none"
      BY <2>1 DEF DockerOf, NoContainer
    <2> QED
      BY <2>1, <2>2, DownDocker DEF Running, DeleteLabels
  <1>6. CASE ContainerCreate(a)
    <2>1. pc[a] \in {"sc_create", "cc_create"} /\ UNCHANGED <<mem, listed, want, ret>>
      BY <1>6 DEF ContainerCreate, confVars
    <2>2. /\ ~(Running /\ cont.run # "boot") /\ listed
          /\ cont.st # "none" => cont.net = want.net /\ cont.args = want.args
      BY <2>1 DEF DockerOf, Waits
    <2>3. CASE cont' = cont /\ pc'[a] = "done"
      BY <2>1, <2>2, <2>3, DockerStays DEF Melding, StartLabels, Waits, DeleteLabels
    <2>4. CASE cont' = NewContainer(cand[a]) /\ pc'[a] \in {ret[a], "sc_start"}
      <3>1. Settings(cand[a]) = want
        BY <2>1 DEF ConfigOf, CandLabels
      <3>2. cont'.st = "created" /\ cont'.net = want.net /\ cont'.args = want.args
        BY <2>4, <3>1 DEF NewContainer, Settings
      <3>3. pc'[a] \notin DeleteLabels
        BY <1>0, <2>4 DEF RetLabels, DeleteLabels
      <3> QED
        BY <2>1, <2>2, <2>4, <3>2, <3>3, DownDocker DEF Running
    <2> QED
      BY <1>0, <1>6, <2>3, <2>4 DEF ContainerCreate, Goto
  <1>7. CASE ContainerStart(a)
    <2>1. pc[a] = "sc_start" /\ UNCHANGED <<mem, listed, want, ret>>
      BY <1>7 DEF ContainerStart, confVars
    <2>2. /\ ~(Running /\ cont.run # "boot") /\ listed
          /\ cont.st # "none" => cont.net = want.net /\ cont.args = want.args
      BY <2>1 DEF DockerOf, Waits
    <2>3. ret[a] \in Waits \cup {"done", "gs_run", "gs_made"}
      BY <1>0 DEF RetLabels, Waits
    <2>4. CASE cont' = cont /\ pc'[a] \in {ret[a], "done"}
      <3>1. Melding(a)' => Melding(a)
        BY <1>0, <2>1, <2>3, <2>4 DEF Melding, StartLabels, Waits
      <3> QED
        BY <2>1, <2>2, <2>3, <2>4, <3>1, DockerStays DEF Waits, DeleteLabels
    <2>5. CASE /\ cont.st \in {"created", "exited"} /\ pc'[a] = ret[a]
               /\ cont' = [cont EXCEPT !.st = "running", !.run = script, !.leaving = FALSE]
      <3>1. /\ cont'.st = "running" /\ cont'.run = script
            /\ cont'.net = want.net /\ cont'.args = want.args
        BY <1>0, <2>2, <2>5 DEF Container
      <3>2. /\ script = cand[a].boot /\ (ret[a] \in Waits <=> cand[a].boot \in OneShots)
            /\ (cand[a].boot = "boot" => mem.boot = "boot")
        BY <2>1 DEF ConfigOf, ScriptLabels, CandLabels, CopyLabels
      <3>3. script \in Bootable
        BY <2>1 DEF ConfigOf, ScriptLabels
      <3>4. CASE script = "boot"
        <4>1. ret[a] \notin Waits /\ mem'.boot = "boot"
          BY <2>1, <3>2, <3>4 DEF OneShots
        <4>2. ~Melding(a)'
          BY <2>3, <2>5, <4>1 DEF Melding, StartLabels, Waits
        <4> QED
          BY <2>1, <2>2, <2>3, <2>5, <3>1, <3>4, <4>1, <4>2
             DEF DockerOf, DeleteLabels, Waits
      <3>5. CASE script \in OneShots
        <4>1. Departing' /\ ret[a] \in Waits
          BY <3>1, <3>2, <3>5 DEF Departing, Running, OneShots
        <4> QED
          BY <2>1, <2>2, <2>5, <3>1, <4>1 DEF DockerOf, DeleteLabels, Waits
      <3> QED
        BY <3>3, <3>4, <3>5 DEF Bootable, OneShots
    <2> QED
      BY <1>0, <1>7, <2>4, <2>5 DEF ContainerStart, Goto
  <1> QED
    BY <1>1, <1>2, <1>3, <1>4, <1>5, <1>6, <1>7

(* The loop is not told of a stop: no ship is stopped while it runs.       *)
LEMMA WorkerCalm ==
    ASSUME SteadyInv, NEW a \in Workers, Step(a), DockerOf(a)
    PROVE  Calm'
  <1>0. a \in Actors /\ a # EL /\ pc'[EL] = pc[EL] /\ op'[EL] = op[EL]
    BY WorkerFacts, ActorKinds, OthersWait DEF SteadyInv, OneShotInv, Control
  <1>1. \/ events' = events \/ Emit(<<"die">>) \/ Emit(<<"start">>)
    <2>1. CASE BarExit(a) \/ DeleteContainer(a) \/ RemoveContainer(a) \/ ContainerCreate(a)
               \/ ContainerStart(a) \/ StoreFails(a)
      BY <2>1 DEF BarExit, DeleteContainer, RemoveContainer, ContainerCreate, ContainerStart,
                  EmitDie, StoreFails, dockVars
    <2>2. CASE StopContainerByName(a)
      <3>1. ~Running
        BY <2>2 DEF StopContainerByName, DockerOf
      <3> QED
        BY <2>2, <3>1 DEF StopContainerByName
    <2>3. CASE \/ PowerOn(a) \/ PowerOff(a) \/ DetectBoot(a) \/ WriteSettings(a)
               \/ WritePack(a) \/ WriteMeldLast(a) \/ WriteMeld(a) \/ WriteBoot(a)
      BY <2>3 DEF PowerOn, PowerOff, DetectBoot, WriteSettings, WritePack, WriteMeldLast,
                  WriteMeld, WriteBoot, Store, dockVars
    <2>4. CASE Finish(a) \/ GetShipStatus(a) \/ SendPack(a) \/ WaitComplete(a)
               \/ SetDesiredStopped(a) \/ RemoveUrbitConfig(a) \/ CutPier(a)
               \/ DeleteVolume(a) \/ DeleteContainerState(a) \/ ContainerConfRead(a)
               \/ ContainerConfApply(a) \/ ContainerConfLoad(a) \/ ContainerConfReset(a)
               \/ WriteScript(a) \/ FindContainer(a)
               \/ KeepContainer(a) \/ LoadUrbitConfig(a) \/ UpdateContainerState(a)
      BY <2>4 DEF Finish, GetShipStatus, SendPack, WaitComplete, SetDesiredStopped,
                  RemoveUrbitConfig, CutPier, DeleteVolume, DeleteContainerState,
                  ContainerConfRead, ContainerConfApply, ContainerConfLoad,
                  ContainerConfReset, WriteScript, FindContainer,
                  KeepContainer, LoadUrbitConfig, UpdateContainerState, dockVars
    <2> QED
      BY <2>1, <2>2, <2>3, <2>4 DEF Step
  <1>2. events \in Seq(EventNames) /\ \A i \in DOMAIN events : events[i] # "stop"
    BY TurnFacts DEF IInv, TypeOK, SteadyInv, Calm
  <1>3. \A i \in DOMAIN events' : events'[i] # "stop"
    BY <1>1, <1>2, EmitCalm
  <1> QED
    BY <1>0, <1>3 DEF SteadyInv, Calm

LEMMA WorkerStep ==
    ASSUME SteadyInv, Steadily, NEW a \in Workers, Turn(a), ConfigOf(a), DockerOf(a), Step(a)
    PROVE  Turn(a)' /\ ConfigOf(a)' /\ DockerOf(a)'
  <1>1. Turn(a)'
    BY TurnStays
  <1>2. ConfigOf(a)'
    BY StoreConfig, ContainerConfConfig, OtherConfig
  <1>3. DockerOf(a)'
    <2>1. ~SendPack(a) /\ ~WriteMeldLast(a) /\ ~StoreFails(a)
      BY TurnFacts, NoWriteFails DEF SendPack, WriteMeldLast, Store, StoreFails, SaveFails
    <2> QED
      BY <2>1, StoreDocker, SettingsDocker, ConfDocker, CalmDocker, ChangeDocker DEF Step
  <1> QED
    BY <1>1, <1>2, <1>3

(* What the loop, the ship and the version server do leaves the turn where *)
(* it is.                                                                  *)
LEMMA TurnUnmoved ==
    ASSUME NEW a \in Workers, Turn(a), ConfigOf(a), DockerOf(a),
           UNCHANGED <<mem, disk, script, want, listed>>,
           \A b \in Workers : /\ pc'[b] = pc[b] /\ ret'[b] = ret[b]
                              /\ cand'[b] = cand[b] /\ snap'[b] = snap[b],
           cont' = cont \/ (cont'.st = "exited" /\ cont'.net = cont.net
                            /\ cont'.args = cont.args /\ cont.st # "none")
    PROVE  Turn(a)' /\ ConfigOf(a)' /\ DockerOf(a)'
  <1>1. Turn(a)'
    BY DEF Turn
  <1>2. ConfigOf(a)'
    BY DEF ConfigOf, SameBoot
  <1>3. DockerOf(a)'
    <2>1. CASE cont' = cont
      BY <2>1 DEF DockerOf, Running, Departing, Melding
    <2>2. CASE cont'.st = "exited" /\ cont'.net = cont.net /\ cont'.args = cont.args
               /\ cont.st # "none"
      <3>1. ~Running'
        BY <2>2 DEF Running
      <3> QED
        BY <2>2, <3>1 DEF DockerOf
    <2> QED
      BY <2>1, <2>2
  <1> QED
    BY <1>1, <1>2, <1>3

LEMMA NextSteady ==
    ASSUME SteadyInv, Steadily, [Next]_vars
    PROVE  SteadyInv'
  <1>1. OneShotInv' /\ EditsInv'
    BY NextOneShot, NextEdits, NoWriteFails
       DEF SteadyInv, Steadily, OneShotInv, Control
  <1>2. /\ NoStale /\ IInv /\ Control /\ daemon = "up" /\ Calm /\ cont \in Container
        /\ events \in Seq(EventNames)
    BY DEF SteadyInv, OneShotInv, Control, IInv, TypeOK
  <1>3. PICK a \in Workers : Turn(a) /\ ConfigOf(a) /\ DockerOf(a)
    BY DEF SteadyInv
  <1> SUFFICES /\ daemon' = "up" /\ Calm' /\ NoStale'
               /\ \E b \in Workers : Turn(b)' /\ ConfigOf(b)' /\ DockerOf(b)'
    BY <1>1 DEF SteadyInv
  <1>4. ASSUME NEW h \in Handlers, NEW o \in Ops, Begin(h, o)
        PROVE  /\ daemon' = "up" /\ Calm' /\ NoStale'
               /\ \E b \in Workers : Turn(b)' /\ ConfigOf(b)' /\ DockerOf(b)'
    <2>1. /\ listed /\ \A b \in Actors : pc[b] = "idle"
          /\ events = <<>> /\ h \in Actors /\ o \in AllOps
          /\ pc'[h] = Entry(o, UrbitConf) /\ snap'[h] = UrbitConf
          /\ \A b \in Actors : b # h => pc'[b] = pc[b]
          /\ UNCHANGED <<mem, disk, listed, cont, events, script, daemon, want>>
      BY <1>2, <1>4, BeginEffect DEF Steadily
    <2>2. h \in Workers /\ a \in Actors
      BY WorkerFacts
    <2>3. pc'[h] \in {"w_on", "w_off", "done", "w_detect", "w_net", "w_args", "rm", "w_web",
                      "status", "gs_stop"}
      BY <2>1 DEF Entry, AllOps
    <2>4. Turn(h)'
      BY <2>1, <2>2, WorkerFacts DEF Turn
    <2>5. ConfigOf(h)'
      <3>1. mem = disk /\ mem.boot \notin OneShots
        BY <1>3, <2>1, <2>2 DEF ConfigOf, CopyLabels
      <3>2. SameBoot(snap[h])'
        BY <2>1, AbsentBoot DEF UrbitConf, SameBoot
      <3>3. /\ pc'[h] # "sc_conf" /\ pc'[h] \notin CopyLabels /\ pc'[h] \notin CandLabels
            /\ pc'[h] \notin ScriptLabels
        BY <2>3 DEF CandLabels, CopyLabels, ScriptLabels
      <3> QED
        BY <2>1, <3>1, <3>2, <3>3 DEF ConfigOf
    <2>6. DockerOf(h)'
      <3>1. /\ ~(Running /\ cont.run # "boot")
            /\ cont.st # "none" => cont.net = want.net /\ cont.args = want.args
            /\ mem.boot = "noboot" /\ Running => Departing
        BY <1>3, <2>1, <2>2 DEF DockerOf, Waits
      <3>2. (Running' <=> Running) /\ (Departing' <=> Departing)
        BY <2>1 DEF Running, Departing
      <3> QED
        BY <2>1, <2>3, <3>1, <3>2 DEF DockerOf, Melding, StartLabels, Waits, DeleteLabels
    <2>7. Calm'
      <3>1. pc'[EL] = "idle" /\ events' = <<>>
        BY <2>1, ActorKinds
      <3>2. DOMAIN events' = {}
        BY <3>1
      <3> QED
        BY <3>1, <3>2 DEF Calm, StartLabels
    <2>8. NoStale'
      <3>1. stale' = [stale EXCEPT !["snap"] = @ \ {h}] /\ stale \in Copies
        BY <1>2, <1>4 DEF Begin, Fresh, IInv, TypeOK, Copies
      <3>2. stale'.snap = stale.snap \ {h} /\ stale'.cand = stale.cand
        BY <3>1 DEF Copies
      <3> QED
        BY <1>2, <3>2 DEF NoStale
    <2> QED
      BY <1>2, <2>1, <2>2, <2>4, <2>5, <2>6, <2>7, <2>8
  <1>5. ASSUME NEW b \in Actors, Step(b)
        PROVE  /\ daemon' = "up" /\ Calm' /\ NoStale'
               /\ \E c \in Workers : Turn(c)' /\ ConfigOf(c)' /\ DockerOf(c)'
    <2>1. daemon' = "up" /\ pc[b] # "idle"
      BY <1>2, <1>5, OthersWait
    <2>2. CASE b # EL
      <3>1. b = a
        BY <1>3, <2>1, <2>2 DEF Turn, Workers
      <3>2. Turn(a)' /\ ConfigOf(a)' /\ DockerOf(a)' /\ Calm' /\ NoStale'
        BY <1>3, <1>5, <3>1, WorkerStep, WorkerCalm, WantStays
      <3> QED
        BY <2>1, <3>2
    <2>3. CASE b = EL
      <3>1. pc[EL] \in {"done", "ev_write"}
        BY <1>2, <2>1, <2>3 DEF IInv, LoopControl, Calm
      <3>2. Finish(EL)
        BY <1>5, <2>3, <3>1 DEF Step, PowerOn, PowerOff, DetectBoot, WriteSettings,
          GetShipStatus, SendPack, WritePack, WriteMeldLast, WaitComplete, WriteMeld,
          WriteBoot, BarExit, StopContainerByName, DeleteContainer,
          StoreFails, ConfWrites, SettingLabels, Store, ContainerConfLoad, WriteScript,
          SetDesiredStopped, RemoveUrbitConfig, CutPier, DeleteVolume, DeleteContainerState,
          ContainerConfRead, ContainerConfApply, ContainerConfReset, FindContainer,
          KeepContainer, RemoveContainer, ContainerCreate, ContainerStart, LoadUrbitConfig,
          UpdateContainerState
      <3>3. /\ UNCHANGED <<mem, disk, script, want, listed, cont, events, stale>>
            /\ pc'[EL] = "idle"
        BY <1>2, <3>2, Maps, ActorKinds DEF Finish, Goto, confVars, dockVars
      <3>4. \A c \in Workers : /\ pc'[c] = pc[c] /\ ret'[c] = ret[c]
                               /\ cand'[c] = cand[c] /\ snap'[c] = snap[c]
        BY <1>2, <1>5, <2>3, OthersWait, WorkerFacts
      <3>5. Turn(a)' /\ ConfigOf(a)' /\ DockerOf(a)'
        BY <1>3, <3>3, <3>4, TurnUnmoved
      <3>6. Calm'
        BY <1>2, <3>3 DEF Calm, StartLabels
      <3>7. NoStale'
        BY <1>2, <3>3 DEF NoStale
      <3> QED
        BY <2>1, <3>5, <3>6, <3>7
    <2> QED
      BY <2>2, <2>3
  <1>6. CASE TakeEvent \/ HandleEvent
    <2>1. /\ UNCHANGED <<mem, disk, script, want, listed, cont, daemon, cand, snap, stale>>
          /\ \A c \in Actors : c # EL => pc'[c] = pc[c] /\ ret'[c] = ret[c]
      <3>1. CASE TakeEvent
        BY <1>2, <3>1, Maps DEF TakeEvent, Goto, confVars
      <3>2. CASE HandleEvent
        BY <1>2, <3>2, Maps DEF HandleEvent, CallStart, Goto, confVars, dockVars
      <3> QED
        BY <1>6, <3>1, <3>2
    <2>2. Turn(a)' /\ ConfigOf(a)' /\ DockerOf(a)'
      BY <1>3, <2>1, TurnUnmoved, WorkerFacts
    <2>3. Calm'
      BY <1>2, <1>6, LoopCalm
    <2> QED
      BY <1>2, <2>1, <2>2, <2>3 DEF NoStale
  <1>7. CASE ShipExits
    <2>1. /\ UNCHANGED <<mem, disk, script, want, listed, daemon, pc, ret, cand, snap, stale>>
          /\ cont' = [cont EXCEPT !.st = "exited", !.leaving = FALSE] /\ cont.st = "running"
      BY <1>7 DEF ShipExits, Running, confVars, actorVars
    <2>2. cont'.st = "exited" /\ cont'.net = cont.net /\ cont'.args = cont.args
      BY <1>2, <2>1 DEF Container
    <2>3. Turn(a)' /\ ConfigOf(a)' /\ DockerOf(a)'
      BY <1>3, <2>1, <2>2, TurnUnmoved
    <2>4. Calm'
      BY <1>2, <1>7, LoopCalm
    <2> QED
      BY <1>2, <2>1, <2>3, <2>4 DEF NoStale
  <1>8. CASE NewRelease \/ UNCHANGED vars
    <2>1. UNCHANGED <<mem, disk, script, want, listed, cont, daemon, pc, ret, cand, snap,
                      op, events, stale>>
      BY <1>8 DEF NewRelease, vars, confVars, dockVars, actorVars
    <2>2. Turn(a)' /\ ConfigOf(a)' /\ DockerOf(a)'
      BY <1>3, <2>1, TurnUnmoved
    <2> QED
      BY <1>2, <2>1, <2>2 DEF Calm, NoStale
  <1>9. ~Crash /\ ~Restart
    BY <1>2 DEF Crash, Restart, Steadily
  <1> QED
    BY <1>4, <1>5, <1>6, <1>7, <1>8, <1>9 DEF Next

LEMMA InitSteady == ASSUME Steadily PROVE Init => SteadyInv
  <1> SUFFICES ASSUME Init, Steadily
               PROVE  SteadyInv
    OBVIOUS
  <1>1. /\ pc = [a \in Actors |-> IF a = Loader THEN "reload" ELSE "idle"]
        /\ ret = [a \in Actors |-> "done"] /\ daemon = "up" /\ events = <<>>
        /\ disk = mem /\ want = Settings(mem) /\ listed = TRUE /\ script = "boot"
        /\ stale = [snap |-> {}, cand |-> {}] /\ mem.boot \in Statuses
    BY Zenon DEF Init
  <1>8. mem.boot \notin OneShots
    BY <1>1, ShipBootAssumption DEF Steadily, OneShots
  <1>9. NoStale
    BY <1>1 DEF NoStale
  <1>2. /\ cont.st # "none" => cont.net = mem.net /\ cont.args = mem.args
        /\ Running => cont.run = "boot"
        /\ mem.boot = "noboot" => ~Running
    <2>1. CASE cont = NoContainer
      BY <2>1 DEF NoContainer, Running
    <2>2. CASE \E s \in IF mem.boot = "noboot" THEN {"exited"} ELSE {"exited", "running"} :
                 cont = [NewContainer(mem) EXCEPT !.st = s, !.run = "boot"]
      <3>1. PICK s \in IF mem.boot = "noboot" THEN {"exited"} ELSE {"exited", "running"} :
                 cont = [NewContainer(mem) EXCEPT !.st = s, !.run = "boot"]
        BY <2>2
      <3>2. cont.st = s /\ cont.run = "boot" /\ cont.net = mem.net /\ cont.args = mem.args
        BY <3>1 DEF NewContainer
      <3> QED
        BY <3>1, <3>2 DEF Running
    <2>3. \/ cont = NoContainer
          \/ \E s \in IF mem.boot = "noboot" THEN {"exited"} ELSE {"exited", "running"} :
                 cont = [NewContainer(mem) EXCEPT !.st = s, !.run = "boot"]
      BY Zenon DEF Init
    <2> QED
      BY <2>1, <2>2, <2>3
  <1>3. Loader \in Workers /\ Loader \in Actors /\ EL \in Actors /\ Loader # EL
    BY WorkerFacts, ActorKinds
  <1>4. Turn(Loader)
    BY <1>1, WorkerFacts DEF Turn
  <1>5. ConfigOf(Loader)
    BY <1>1, <1>3, <1>8 DEF ConfigOf, CandLabels, CopyLabels, ScriptLabels, SettingLabels
  <1>6. DockerOf(Loader)
    BY <1>1, <1>2, <1>3 DEF DockerOf, Settings, Melding, Waits, StartLabels, DeleteLabels
  <1>7. Calm
    <2>1. DOMAIN events = {}
      BY <1>1
    <2> QED
      BY <1>1, <1>3, <2>1 DEF Calm, StartLabels
  <1> QED
    BY <1>1, <1>3, <1>4, <1>5, <1>6, <1>7, <1>9, InitOneShot, InitEdits DEF SteadyInv

LEMMA SteadyAlways == ASSUME Steadily PROVE Spec => []SteadyInv
  <1>1. Init => SteadyInv
    BY InitSteady
  <1>2. SteadyInv /\ [Next]_vars => SteadyInv'
    BY NextSteady
  <1> QED
    BY <1>1, <1>2, PTL DEF Spec

LEMMA AtRest ==
    ASSUME SteadyInv, Quiescent
    PROVE  \E a \in Workers : pc[a] = "idle" /\ ConfigOf(a) /\ DockerOf(a)
  BY WorkerFacts DEF SteadyInv, Quiescent

(* A ship runs the script of the config that StartContainer read, and when *)
(* all has returned a running container has the network and arguments of   *)
(* the config (RunsAsConfigured): no two goroutines are inside             *)
(* StartContainer, and every change of those settings recreates it.        *)
THEOREM RunsAsConfiguredHolds == ASSUME Steadily PROVE Spec => []RunsAsConfigured
  <1>1. SteadyInv => RunsAsConfigured
    <2> SUFFICES ASSUME SteadyInv
                 PROVE  RunsAsConfigured
      OBVIOUS
    <2>1. ASSUME NEW b \in Actors, pc[b] = "sc_start"
          PROVE  script = cand[b].boot
      <3>1. PICK a \in Workers : Turn(a) /\ ConfigOf(a) /\ DockerOf(a)
        BY DEF SteadyInv
      <3>2. b # EL
        BY <2>1 DEF SteadyInv, Calm, StartLabels
      <3>3. b = a
        BY <2>1, <3>1, <3>2 DEF Turn, Workers
      <3> QED
        BY <2>1, <3>1, <3>3 DEF ConfigOf, ScriptLabels
    <2>2. ASSUME Quiescent, Running
          PROVE  cont.net = mem.net /\ cont.args = mem.args
      <3>1. PICK a \in Workers : pc[a] = "idle" /\ ConfigOf(a) /\ DockerOf(a)
        BY <2>2, AtRest
      <3>2. cont.st # "none"
        BY <2>2 DEF Running
      <3>3. listed /\ cont.net = want.net /\ cont.args = want.args
        BY <3>1, <3>2 DEF DockerOf
      <3>4. ~Unlisting /\ mem = disk
        BY <2>2, <3>1, ActorKinds DEF Quiescent, Unlisting, ConfigOf
      <3>5. Settings(mem) = want
        BY <2>2, <3>3, <3>4 DEF SteadyInv, EditsInv, Copied, WantKept, Kept, Quiescent
      <3> QED
        BY <3>3, <3>5 DEF Settings
    <2> QED
      BY <2>1, <2>2 DEF RunsAsConfigured
  <1> QED
    BY <1>1, SteadyAlways, PTL

(* A ship switched off is down, or told to go down, when all has returned  *)
(* (OffIsOff), whatever was asked of it before and however often it died.  *)
THEOREM OffIsOffHolds == ASSUME Steadily PROVE Spec => []OffIsOff
  <1>1. SteadyInv => OffIsOff
    <2> SUFFICES ASSUME SteadyInv, Quiescent, mem.boot = "noboot", Running
                 PROVE  Departing
      BY DEF OffIsOff
    <2>1. PICK a \in Workers : pc[a] = "idle" /\ ConfigOf(a) /\ DockerOf(a)
      BY AtRest
    <2> QED
      BY <2>1 DEF DockerOf
  <1> QED
    BY <1>1, SteadyAlways, PTL

(* A deleted ship has no container when all has returned (DeletedIsGone):  *)
(* neither the event loop nor a deletion that ends early leaves one.       *)
THEOREM DeletedIsGoneHolds == ASSUME Steadily PROVE Spec => []DeletedIsGone
  <1>1. SteadyInv => DeletedIsGone
    <2> SUFFICES ASSUME SteadyInv, Quiescent, ~listed
                 PROVE  cont.st = "none"
      BY DEF DeletedIsGone
    <2>1. PICK a \in Workers : pc[a] = "idle" /\ ConfigOf(a) /\ DockerOf(a)
      BY AtRest
    <2> QED
      BY <2>1 DEF DockerOf
  <1> QED
    BY <1>1, SteadyAlways, PTL
=============================================================================
