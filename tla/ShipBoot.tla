------------------------------ MODULE ShipBoot ------------------------------
(***************************************************************************)
(* One Urbit ship under the daemon: its pier config in memory and on disk, *)
(* its docker container, the docker event loop that compares the actual    *)
(* with the desired state, LoadUrbits at startup, and the handlers of the  *)
(* "urbit" websocket actions.  Every handler reads the pier config once,   *)
(* when it begins, and later writes that whole snapshot back.              *)
(***************************************************************************)
EXTENDS Naturals, Sequences

CONSTANTS
    Handlers,      \* goroutines running UrbitHandler or a scheduled pack
    Ops,           \* the actions users may ask for in this instance
    Faults,        \* calls that may fail: "click", "start"
    Statuses,      \* boot statuses of the pier file when the daemon first starts:
                   \* no action sets "prep", urbitContainerConf knows it all the same
    Awaited,       \* SUBSET {"loader", "events"}: users act only once LoadUrbits
                   \* has returned, only once docker's events are handled
    Crashes,       \* whether the daemon may be killed and started again
    TornWrites,    \* whether a kill may interrupt the writing of a pier file
    WgRegistered,  \* conf.WgRegistered: a StarTram registration exists
    MaxFails,      \* bound on the writes of files that fail
    MaxVersion,    \* bound on the image releases seen by the version server
    MaxEvents      \* bound on the docker events waiting in eventBus

EL == "events"     \* the goroutine DockerSubscriptionHandler
Loader == "loader" \* the goroutine that runs LoadUrbits at startup
Actors == Handlers \cup {EL, Loader}

AllOps == {"toggle-power", "toggle-boot-status", "toggle-network",
           "toggle-devmode", "loom", "rebuild-container", "edit", "pack",
           "pack-meld", "export-ship", "delete-ship", "restart-startram"}

ASSUME ShipBootAssumption ==
    /\ EL \notin Handlers /\ Loader \notin Handlers
    /\ Ops \subseteq AllOps
    /\ Faults \subseteq {"click", "start"}
    /\ Statuses \subseteq {"boot", "noboot", "ignore", "prep"}
    /\ Awaited \subseteq {"loader", "events"}
    /\ {Crashes, TornWrites, WgRegistered} \subseteq BOOLEAN
    /\ MaxFails \in Nat /\ MaxVersion \in Nat \ {0} /\ MaxEvents \in Nat \ {0, 1}

VARIABLES
    mem, disk,     \* UrbitsConfig[patp] and settings/pier/<patp>.json
    listed, vol,   \* the ship is in conf.Piers; its docker volume exists
    latest,        \* image release in config.VersionInfo
    script,        \* content of start_urbit.sh in the volume
    cont,          \* the docker container of that name
    events,        \* eventBus
    gs,            \* GSContainers[patp]
    daemon,        \* the goseg process: "up" or "down"
    op, pc,        \* what each actor runs and where it stands
    snap,          \* the shipConf local of the handler
    cand,          \* the shipConf local of urbitContainerConf
    ret,           \* where StartContainer returns to
    up,            \* the isRunning local
    found,         \* what FindContainer returned
    held,          \* the containerState local of the event loop
    want,          \* history: the settings users last asked for
    fails,         \* history: how many writes of a file failed
    behind,        \* history: the pier file is behind memory since a save failed
    stale          \* history: the copies of the config that are older than an edit

confVars == <<mem, disk, listed, fails, behind>>
dockVars == <<cont, events, script, vol>>
actorVars == <<op, pc, snap, cand, ret, up, found, held>>
vars == <<mem, disk, listed, vol, latest, script, cont, events, gs, daemon,
          op, pc, snap, cand, ret, up, found, held, want, fails, behind, stale>>
-----------------------------------------------------------------------------
(* Pier configs. args stands for LoomSize and DevMode, which reach the     *)
(* container's command line; web for the settings that do not.             *)

BootStatuses ==
    {"", "boot", "noboot", "pack", "meld", "prep", "ignore", "absent", "torn"}

Conf == [boot : BootStatuses,
         net : {"", "bridge", "wireguard"}, args : BOOLEAN, web : BOOLEAN,
         ver : 0..MaxVersion]

ZeroConf == [boot |-> "", net |-> "", args |-> FALSE, web |-> FALSE, ver |-> 0]
Absent == [ZeroConf EXCEPT !.boot = "absent"]  \* no map entry, or no file
Torn == [ZeroConf EXCEPT !.boot = "torn"]      \* file truncated by os.Create

UrbitConf == IF mem = Absent THEN ZeroConf ELSE mem
Readable == disk \notin {Absent, Torn}

UpdateInMemory(c) == mem' = c /\ behind' = FALSE /\ UNCHANGED <<disk, fails>> \* mutant
UpdateOnDisk(c) == disk' = c /\ behind' = FALSE /\ UNCHANGED <<mem, fails>>   \* mutant
UpdateUrbitConfig(c) == mem' = c /\ disk' = c /\ behind' = FALSE /\ UNCHANGED fails

(* Memory is set first; then os.Create may fail, which leaves the file, or   *)
(* Encode, which leaves it truncated.                                        *)
WriteFails == fails < MaxFails /\ fails' = fails + 1
SaveFails(c) ==
    /\ WriteFails /\ behind' = TRUE
    /\ mem' = c /\ disk' \in {disk, Torn}

(* An unreadable file leaves the map entry as it is.                         *)
ReadUrbitConfig ==
    IF Readable THEN mem' = disk /\ behind' = FALSE ELSE UNCHANGED <<mem, behind>>

Settings(c) == [net |-> c.net, args |-> c.args, web |-> c.web]

State == [desired : {"absent", "", "running", "stopped", "died"},
          actual : {"", "running", "stopped", "died"}]
NoState == [desired |-> "absent", actual |-> ""]

Container == [st : {"none", "created", "running", "exited"},
              run : {"", "boot", "pack", "meld", "prep"}, leaving : BOOLEAN,
              img : 0..MaxVersion, net : {"", "bridge", "wireguard"},
              args : BOOLEAN]
NoContainer == [st |-> "none", run |-> "", leaving |-> FALSE, img |-> 0,
                net |-> "", args |-> FALSE]

Running == cont.st = "running"
StatusUp == Running      \* strings.Contains(status, "Up")

EventNames == {"start", "die", "stop"}
Room(n) == Len(events) + n <= MaxEvents
Emit(s) == events' = events \o s
EmitDie == IF Running THEN Room(1) /\ Emit(<<"die">>) ELSE UNCHANGED events

Goto(a, l) == pc' = [pc EXCEPT ![a] = l]

Labels == {"idle", "done", "w_on", "w_off", "w_detect", "w_net", "w_args", "w_web",
           "status", "send", "w_pack", "w_last", "wait_pack", "w_meld", "wait_meld",
           "w_boot", "exit", "stop", "rm", "gs_stop", "rm_conf", "unlist", "rm_vol",
           "rm_gs", "sc_conf", "sc_apply", "sc_load", "sc_reset", "sc_script",
           "sc_find", "sc_switch", "sc_create", "sc_start", "cc_create", "reload", "gs_run", "gs_made", "ev_write"}

(* Enter StartContainer; on success it returns to label l, on error to "done". *)
CallStart(a, l) == Goto(a, "sc_conf") /\ ret' = [ret EXCEPT ![a] = l]
-----------------------------------------------------------------------------
(* History: which of the copies that will be stored are older than the      *)
(* settings, because an edit, or the store of such a copy, came after them.  *)

Held ==
    [snap |-> {b \in Handlers : pc[b] \notin {"idle", "done"}},
     cand |-> {b \in Actors : pc[b] \in {"sc_apply", "sc_load", "sc_reset"}}]

Fresh(a, copy) == stale' = [stale EXCEPT ![copy] = @ \ {a}]

(* a stores its copy c; if it is stale the settings are c's from then on.    *)
Stored(a, copy, c) ==
    IF a \in stale[copy]
    THEN /\ want' = Settings(c)
         /\ stale' = [Held EXCEPT ![copy] = @ \ {a}]
    ELSE UNCHANGED <<want, stale>>
-----------------------------------------------------------------------------
(* UrbitHandler: read the snapshot, choose the branch.                     *)

Entry(o, c) ==
    CASE o = "toggle-power" /\ c.boot = "noboot" -> "w_on"
      [] o = "toggle-power" /\ c.boot = "boot" -> "w_off"
      [] o = "toggle-power" -> "done"
      [] o = "toggle-boot-status" -> "w_detect"
      [] o = "toggle-network" ->
            IF c.net = "wireguard" \/ WgRegistered THEN "w_net" ELSE "done"
      [] o \in {"toggle-devmode", "loom"} -> "w_args"
      [] o = "rebuild-container" -> "rm"
      [] o = "edit" -> "w_web"
      [] o \in {"pack", "pack-meld", "restart-startram"} -> "status"
      [] o = "export-ship" -> "w_off"
      [] o = "delete-ship" -> "gs_stop"

Begin(a, o) ==
    /\ daemon = "up" /\ pc[a] = "idle" /\ o \in Ops /\ listed
    /\ "loader" \in Awaited => pc[Loader] = "idle"
    /\ "events" \in Awaited => pc[EL] = "idle" /\ events = <<>>
    /\ op' = [op EXCEPT ![a] = o]
    /\ snap' = [snap EXCEPT ![a] = UrbitConf]
    /\ Goto(a, Entry(o, UrbitConf))
    /\ Fresh(a, "snap")
    /\ UNCHANGED <<confVars, dockVars, latest, gs, daemon, cand, ret, up,
                   found, held, want>>

Finish(a) ==         \* the goroutine ends and its locals with it
    /\ pc[a] = "done"
    /\ Goto(a, "idle")
    /\ op' = [op EXCEPT ![a] = "none"]
    /\ snap' = [snap EXCEPT ![a] = ZeroConf]
    /\ cand' = [cand EXCEPT ![a] = ZeroConf]
    /\ ret' = [ret EXCEPT ![a] = "done"]
    /\ up' = [up EXCEPT ![a] = FALSE]
    /\ found' = [found EXCEPT ![a] = "none"]
    /\ held' = IF a = EL THEN NoState ELSE held
    /\ UNCHANGED <<confVars, dockVars, latest, gs, daemon, want, stale>>

(* A handler changes a field of its snapshot and stores the whole snapshot. *)
SettingLabels == {"w_net", "w_args", "w_web"}
ConfWrites == SettingLabels \cup
    {"w_on", "w_off", "w_detect", "w_pack", "w_meld", "w_boot", "w_last"}

Edited(a) ==
    CASE pc[a] \in {"w_on", "w_boot"} -> [snap[a] EXCEPT !.boot = "boot"]
      [] pc[a] = "w_off" -> [snap[a] EXCEPT !.boot = "noboot"]
      [] pc[a] = "w_pack" -> [snap[a] EXCEPT !.boot = "pack"]
      [] pc[a] = "w_meld" -> [snap[a] EXCEPT !.boot = "meld"]
      [] pc[a] = "w_detect" ->
            [snap[a] EXCEPT !.boot = IF @ # "ignore" THEN "ignore"
                                     ELSE IF StatusUp THEN "boot" ELSE "noboot"]
      [] pc[a] = "w_net" ->
            [snap[a] EXCEPT !.net = IF @ = "wireguard" THEN "bridge" ELSE "wireguard"]
      [] pc[a] = "w_args" -> [snap[a] EXCEPT !.args = ~@]
      [] pc[a] = "w_web" -> [snap[a] EXCEPT !.web = ~@]
      [] OTHER -> snap[a]            \* MeldLast, which the model does not keep

Asked(a) ==
    CASE pc[a] = "w_net" -> [want EXCEPT !.net = Edited(a).net]
      [] pc[a] = "w_args" -> [want EXCEPT !.args = Edited(a).args]
      [] pc[a] = "w_web" -> [want EXCEPT !.web = Edited(a).web]

(* An edit makes the copies that others hold stale.                         *)
Account(a) ==
    IF pc[a] \in SettingLabels /\ a \notin stale.snap
    THEN want' = Asked(a) /\ stale' = [Held EXCEPT !.snap = @ \ {a}]
    ELSE Stored(a, "snap", Edited(a))

Store(a, label) ==
    /\ pc[a] = label
    /\ UpdateUrbitConfig(Edited(a))
    /\ snap' = [snap EXCEPT ![a] = Edited(a)]
    /\ Account(a)
    /\ UNCHANGED <<listed, dockVars, latest, gs, daemon, op, cand, up, found, held>>

StoreFails(a) ==     \* every branch returns the error
    /\ pc[a] \in ConfWrites
    /\ SaveFails(Edited(a))
    /\ Account(a)
    /\ Goto(a, "done")
    /\ UNCHANGED <<listed, dockVars, latest, gs, daemon, op, snap, cand, ret, up,
                   found, held>>

PowerOn(a) == Store(a, "w_on") /\ CallStart(a, "done")
WritePack(a) ==
    Store(a, "w_pack") /\ CallStart(a, IF op[a] = "pack" THEN "w_last" ELSE "wait_pack")
WriteMeld(a) == Store(a, "w_meld") /\ CallStart(a, "wait_meld")
WriteBootOnly(a) == Store(a, "w_boot") /\ Goto(a, "done") /\ UNCHANGED ret  \* mutant
WriteBoot(a) == Store(a, "w_boot") /\ CallStart(a, "done")

PowerOff(a) ==       \* toggle-power on a booted ship, and export-ship
    Store(a, "w_off") /\ Goto(a, "exit") /\ UNCHANGED ret

DetectBoot(a) ==     \* toggle-boot-status
    Store(a, "w_detect") /\ Goto(a, "done") /\ UNCHANGED ret

AfterWriteNothing(l) == "done"   \* mutant: the container is not recreated
AfterWrite(l) == IF l = "w_web" THEN "done" ELSE "rm"

WriteSettings(a) ==
    \E l \in SettingLabels : Store(a, l) /\ Goto(a, AfterWrite(l)) /\ UNCHANGED ret
-----------------------------------------------------------------------------
(* pack, pack-meld and the StarTram restart look at docker first.          *)

GetShipStatus(a) ==
    /\ pc[a] = "status"
    /\ up' = [up EXCEPT ![a] = StatusUp]
    /\ Goto(a, CASE op[a] = "restart-startram" ->
                        IF UrbitConf.net # "wireguard" THEN "reload"
                        ELSE IF StatusUp THEN "exit" ELSE "rm"
                 [] op[a] = "pack" -> IF StatusUp THEN "send" ELSE "w_pack"
                 [] OTHER -> IF StatusUp THEN "exit" ELSE "w_pack")
    /\ UNCHANGED <<confVars, dockVars, latest, gs, daemon, op, snap, cand, ret,
                   found, held, want, stale>>

ClickReaches == Running /\ cont.run = "boot"

SendPack(a) ==
    /\ pc[a] = "send"
    /\ \/ ClickReaches /\ Goto(a, "w_last")
       \/ (~ClickReaches \/ "click" \in Faults) /\ Goto(a, "done")
    /\ UNCHANGED <<confVars, dockVars, latest, gs, daemon, op, snap, cand, ret,
                   up, found, held, want, stale>>

WriteMeldLast(a) ==  \* MeldLast is set in the snapshot, which is stored whole
    Store(a, "w_last") /\ Goto(a, "done") /\ UNCHANGED ret

WaitComplete(a) ==
    /\ pc[a] \in {"wait_pack", "wait_meld"}
    /\ ~StatusUp
    /\ Goto(a, IF pc[a] = "wait_pack" THEN "w_meld"
               ELSE IF up[a] THEN "w_boot" ELSE "done")
    /\ UNCHANGED <<confVars, dockVars, latest, gs, daemon, op, snap, cand, ret,
                   up, found, held, want, stale>>

AfterExitUnremoved(o) ==           \* mutant: delete-ship keeps the container
    CASE o \in {"toggle-power", "export-ship"} -> "done"
      [] o = "pack-meld" -> "w_pack"
      [] o = "restart-startram" -> "rm"
      [] o = "delete-ship" -> "rm_conf"

AfterExit(o) ==
    CASE o \in {"toggle-power", "export-ship"} -> "done"
      [] o = "pack-meld" -> "w_pack"
      [] o \in {"delete-ship", "restart-startram"} -> "rm"

(* |exit is acknowledged before the ship has gone down. *)
BarExit(a) ==
    /\ pc[a] = "exit"
    /\ \/ /\ ClickReaches
          /\ cont' = [cont EXCEPT !.leaving = TRUE]
          /\ Goto(a, AfterExit(op[a]))
       \/ /\ ~ClickReaches \/ "click" \in Faults
          /\ Goto(a, IF op[a] = "restart-startram" THEN "rm" ELSE "stop")
          /\ UNCHANGED cont
    /\ UNCHANGED <<confVars, events, script, vol, latest, gs, daemon, op, snap,
                   cand, ret, up, found, held, want, stale>>

StopContainerByName(a) ==
    /\ pc[a] = "stop"
    /\ IF Running
       THEN /\ Room(2) /\ Emit(<<"die", "stop">>)
            /\ cont' = [cont EXCEPT !.st = "exited", !.leaving = FALSE]
       ELSE UNCHANGED <<events, cont>>
    /\ Goto(a, IF cont.st = "none" /\ op[a] \in {"export-ship", "delete-ship"}
               THEN "done" ELSE AfterExit(op[a]))
    /\ UNCHANGED <<confVars, script, vol, latest, gs, daemon, op, snap, cand,
                   ret, up, found, held, want, stale>>

DeleteContainer(a) ==
    /\ pc[a] = "rm"
    /\ EmitDie
    /\ cont' = NoContainer
    /\ CASE op[a] = "delete-ship" ->
              Goto(a, IF cont.st = "none" THEN "done" ELSE "rm_conf") /\ UNCHANGED ret
         [] op[a] = "restart-startram" -> Goto(a, "reload") /\ UNCHANGED ret
         [] op[a] \in {"loom", "toggle-network"} /\ snap[a].boot # "boot" ->
              Goto(a, "done") /\ UNCHANGED ret
         [] OTHER -> CallStart(a, "done")
    /\ UNCHANGED <<confVars, script, vol, latest, gs, daemon, op, snap, cand, up,
                   found, held, want, stale>>
-----------------------------------------------------------------------------
(* delete-ship, the part that only it has.                                 *)

SetDesiredStopped(a) ==
    /\ pc[a] = "gs_stop"
    /\ gs' = [gs EXCEPT !.desired = "stopped"]
    /\ Goto(a, "exit")
    /\ UNCHANGED <<confVars, dockVars, latest, daemon, op, snap, cand, ret, up,
                   found, held, want, stale>>

RemoveUrbitConfig(a) ==   \* an error of os.Remove is only logged
    /\ pc[a] = "rm_conf"
    /\ \/ UpdateUrbitConfig(Absent)
       \/ SaveFails(Absent) /\ UNCHANGED disk
    /\ Goto(a, "unlist")
    /\ UNCHANGED <<listed, dockVars, latest, gs, daemon, op, snap, cand, ret, up,
                   found, held, want, stale>>

CutPier(a) ==
    /\ pc[a] = "unlist"
    /\ listed' = FALSE
    /\ Goto(a, "rm_vol")
    /\ UNCHANGED <<mem, disk, fails, behind, dockVars, latest, gs, daemon, op, snap, cand, ret,
                   up, found, held, want, stale>>

DeleteVolume(a) ==   \* docker refuses while a container uses the volume
    /\ pc[a] = "rm_vol"
    /\ vol' = (vol /\ cont.st # "none")
    /\ Goto(a, IF cont.st # "none" \/ ~vol THEN "done" ELSE "rm_gs")
    /\ UNCHANGED <<confVars, cont, events, script, latest, gs, daemon, op, snap,
                   cand, ret, up, found, held, want, stale>>

DeleteContainerState(a) ==
    /\ pc[a] = "rm_gs"
    /\ gs' = NoState
    /\ Goto(a, "done")
    /\ UNCHANGED <<confVars, dockVars, latest, daemon, op, snap, cand, ret, up,
                   found, held, want, stale>>
-----------------------------------------------------------------------------
(* StartContainer and CreateContainer; urbitContainerConf comes first.     *)

BootableAll == {"boot", "pack", "meld", "prep", "noboot"}  \* mutant: none refused
Bootable == {"boot", "pack", "meld", "prep"}

ContainerConfRead(a) ==
    /\ pc[a] = "sc_conf"
    /\ cand' = [cand EXCEPT ![a] = UrbitConf]
    /\ Goto(a, "sc_apply")
    /\ Fresh(a, "cand")
    /\ UNCHANGED <<confVars, dockVars, latest, gs, daemon, op, snap, ret, up,
                   found, held, want>>

(* urbitContainerConf stores its copy, and only logs an error of the store.  *)
StoreCand(a, c) ==
    /\ UpdateUrbitConfig(c) \/ SaveFails(c)
    /\ Stored(a, "cand", c)

(* Store the new image hashes.                                               *)
ContainerConfApply(a) ==
    /\ pc[a] = "sc_apply"
    /\ IF cand[a].ver # latest
       THEN StoreCand(a, [cand[a] EXCEPT !.ver = latest])
       ELSE UNCHANGED <<mem, disk, fails, behind, want, stale>>
    /\ Goto(a, "sc_load")
    /\ UNCHANGED <<listed, dockVars, latest, gs, daemon, op, snap, cand, ret, up,
                   found, held>>

(* Reload from disk, refuse what is not bootable.  An edit that only reached  *)
(* memory is gone then.                                                       *)
ContainerConfLoad(a) ==
    /\ pc[a] = "sc_load"
    /\ ReadUrbitConfig
    /\ IF Readable /\ behind
       THEN want' = Settings(disk) /\ stale' = Held
       ELSE UNCHANGED <<want, stale>>
    /\ Goto(a, IF Readable /\ cand[a].boot \in Bootable THEN "sc_reset" ELSE "done")
    /\ UNCHANGED <<disk, listed, fails, dockVars, latest, gs, daemon, op, snap, cand,
                   ret, up, found, held>>

ResetNothing(b) == b     \* mutant: the one-shot status stays

(* A one-shot status is reset in a second write of the same snapshot.        *)
ResetBoot(b) ==
    CASE b \in {"pack", "meld"} -> "noboot"
      [] b = "prep" -> "boot"
      [] OTHER -> b

ContainerConfReset(a) ==
    /\ pc[a] = "sc_reset"
    /\ IF cand[a].boot # "boot"
       THEN StoreCand(a, [cand[a] EXCEPT !.boot = ResetBoot(@)])
       ELSE UNCHANGED <<mem, disk, fails, behind, want, stale>>
    /\ Goto(a, "sc_script")
    /\ UNCHANGED <<listed, dockVars, latest, gs, daemon, op, snap, cand, ret, up,
                   found, held>>

ScriptAfterReset(b) == ResetBoot(b)  \* mutant: the script follows the new status
ScriptFor(b) == b        \* StartScript, PackScript, MeldScript or PrepScript

(* The volume's directory may be gone, or WriteFile fail half-way.            *)
WriteScript(a) ==
    /\ pc[a] = "sc_script"
    /\ \/ /\ vol /\ script' = ScriptFor(cand[a].boot)
          /\ Goto(a, IF ret[a] = "gs_made" THEN "cc_create" ELSE "sc_find")
          /\ UNCHANGED fails
       \/ /\ ~vol /\ Goto(a, "done") /\ UNCHANGED <<script, fails>>
       \/ /\ vol /\ WriteFails
          /\ Goto(a, "done") /\ script' \in {script, ""}
    /\ UNCHANGED <<mem, disk, listed, behind, vol, cont, events, latest, gs, daemon, op, snap, cand,
                   ret, up, found, held, want, stale>>

FindContainer(a) ==
    /\ pc[a] = "sc_find"
    /\ found' = [found EXCEPT ![a] =
          CASE cont.st \in {"none", "exited"} -> cont.st
            [] OTHER -> IF cont.img # latest THEN "stale" ELSE "fresh"]
    /\ Goto(a, IF cont.st = "none" THEN "sc_create" ELSE "sc_switch")
    /\ UNCHANGED <<confVars, dockVars, latest, gs, daemon, op, snap, cand, ret,
                   up, held, want, stale>>

NewContainer(c) ==
    [st |-> "created", run |-> "", leaving |-> FALSE, img |-> latest,
     net |-> c.net, args |-> c.args]

KeepContainer(a) ==  \* the default case with a matching digest: only inspected
    /\ pc[a] = "sc_switch" /\ found[a] = "fresh"
    /\ Goto(a, IF cont.st = "none" THEN "done" ELSE ret[a])
    /\ UNCHANGED <<confVars, dockVars, latest, gs, daemon, op, snap, cand, ret,
                   up, found, held, want, stale>>

RemoveContainer(a) ==  \* of a container found exited, an error ends the call
    /\ pc[a] = "sc_switch" /\ found[a] \in {"exited", "stale"}
    /\ EmitDie
    /\ cont' = NoContainer
    /\ Goto(a, IF found[a] = "exited" /\ cont.st = "none" THEN "done" ELSE "sc_create")
    /\ UNCHANGED <<confVars, script, vol, latest, gs, daemon, op, snap, cand, ret, up,
                   found, held, want, stale>>

(* ContainerCreate fails when the name is taken; a volume is made as needed.  *)
ContainerCreate(a) ==
    /\ pc[a] \in {"sc_create", "cc_create"}
    /\ \/ /\ cont.st = "none"
          /\ cont' = NewContainer(cand[a]) /\ vol' = TRUE
          /\ Goto(a, IF pc[a] = "sc_create" THEN "sc_start" ELSE ret[a])
       \/ /\ cont.st # "none" \/ "start" \in Faults
          /\ Goto(a, "done") /\ UNCHANGED <<cont, vol>>
    /\ UNCHANGED <<confVars, events, script, latest, gs, daemon, op, snap, cand,
                   ret, up, found, held, want, stale>>

ContainerStart(a) ==
    /\ pc[a] = "sc_start"
    /\ \/ /\ cont.st \in {"created", "exited"} /\ Room(1)
          /\ cont' = [cont EXCEPT !.st = "running", !.run = script, !.leaving = FALSE]
          /\ Emit(<<"start">>)
          /\ Goto(a, ret[a])
       \/ Running /\ Goto(a, ret[a]) /\ UNCHANGED <<cont, events>>
       \/ /\ cont.st = "none" \/ "start" \in Faults
          /\ Goto(a, "done") /\ UNCHANGED <<cont, events>>
    /\ UNCHANGED <<confVars, script, vol, latest, gs, daemon, op, snap, cand, ret,
                   up, found, held, want, stale>>
-----------------------------------------------------------------------------
(* LoadUrbits: at startup, and after StarTram was restarted.               *)

LoadUrbitConfig(a) ==
    /\ pc[a] = "reload"
    /\ IF listed THEN ReadUrbitConfig ELSE UNCHANGED <<mem, behind>>
    /\ IF Readable /\ listed /\ behind
       THEN want' = Settings(disk) /\ stale' = Held
       ELSE UNCHANGED <<want, stale>>
    /\ IF ~Readable \/ ~listed
       THEN Goto(a, "done") /\ UNCHANGED ret
       ELSE CallStart(a, IF disk.boot = "noboot" THEN "gs_made" ELSE "gs_run")
    /\ UNCHANGED <<disk, listed, fails, dockVars, latest, gs, daemon, op, snap, cand, up,
                   found, held>>

UpdateContainerState(a) ==
    /\ pc[a] \in {"gs_run", "gs_made"}
    /\ gs' = [desired |-> IF pc[a] = "gs_run" THEN "running" ELSE "stopped",
              actual |-> IF Running THEN "running" ELSE "stopped"]
    /\ Goto(a, "done")
    /\ UNCHANGED <<confVars, dockVars, latest, daemon, op, snap, cand, ret, up,
                   found, held, want, stale>>
-----------------------------------------------------------------------------
(* DockerSubscriptionHandler.                                              *)

Restarts(e, s) == e = "stop" /\ s.desired # "stopped"

TakeEvent ==
    /\ daemon = "up" /\ pc[EL] = "idle" /\ events # <<>>
    /\ events' = Tail(events)
    /\ IF gs = NoState
       THEN UNCHANGED <<op, pc, held>>
       ELSE /\ op' = [op EXCEPT ![EL] = Head(events)]
            /\ held' = gs
            /\ Goto(EL, "ev_write")
    /\ UNCHANGED <<confVars, cont, script, vol, latest, gs, daemon, snap, cand,
                   ret, up, found, want, stale>>

HandleEvent ==
    /\ pc[EL] = "ev_write"
    /\ gs' = CASE op[EL] = "stop" -> [held EXCEPT !.actual = "stopped"]
               [] op[EL] = "start" -> [held EXCEPT !.actual = "running"]
               [] op[EL] = "die" -> [desired |-> "died", actual |-> "died"]
    /\ IF Restarts(op[EL], held)
       THEN CallStart(EL, "done")
       ELSE Goto(EL, "done") /\ UNCHANGED ret
    /\ UNCHANGED <<confVars, dockVars, latest, daemon, op, snap, cand, up, found,
                   held, want, stale>>
-----------------------------------------------------------------------------
(* The ship itself, the version server, and the daemon's own failures.     *)

ShipExits ==         \* |exit, a finished pack or meld, or a crash of the ship
    /\ Running /\ Room(1)
    /\ Emit(<<"die">>)
    /\ cont' = [cont EXCEPT !.st = "exited", !.leaving = FALSE]
    /\ UNCHANGED <<confVars, script, vol, latest, gs, daemon, actorVars, want, stale>>

NewRelease ==
    /\ latest < MaxVersion
    /\ latest' = latest + 1
    /\ UNCHANGED <<confVars, dockVars, gs, daemon, actorVars, want, stale>>

Writing(a) ==
    \/ pc[a] \in ConfWrites
    \/ pc[a] = "sc_apply" /\ cand[a].ver # latest
    \/ pc[a] = "sc_reset" /\ cand[a].boot # "boot"

(* What a kill loses: an edit that only reached memory, the settings of a    *)
(* file that cannot be read, those of a ship that was being deleted.         *)
Unlisting == \E a \in Handlers : pc[a] = "unlist"

Crash ==             \* a writer between os.Create and Encode leaves the file empty
    /\ Crashes /\ daemon = "up"
    /\ daemon' = "down"
    /\ \/ UNCHANGED disk
       \/ TornWrites /\ disk' = Torn /\ \E a \in Actors : Writing(a)
    /\ want' = IF behind \/ disk' \in {Absent, Torn} \/ Unlisting
               THEN Settings(disk') ELSE want
    /\ stale' = [snap |-> {}, cand |-> {}]
    /\ mem' = Absent
    /\ gs' = NoState
    /\ events' = <<>>
    /\ pc' = [a \in Actors |-> "idle"] /\ op' = [a \in Actors |-> "none"]
    /\ snap' = [a \in Actors |-> ZeroConf] /\ cand' = [a \in Actors |-> ZeroConf]
    /\ ret' = [a \in Actors |-> "done"] /\ up' = [a \in Actors |-> FALSE]
    /\ found' = [a \in Actors |-> "none"] /\ held' = NoState
    /\ UNCHANGED <<listed, cont, script, vol, latest, fails, behind>>

Restart ==           \* the broadcast package loads the piers, then LoadUrbits runs
    /\ daemon = "down"
    /\ daemon' = "up"
    /\ mem' = (IF Readable /\ listed THEN disk ELSE Absent) /\ behind' = FALSE
    /\ events' = <<>>
    /\ op' = [op EXCEPT ![Loader] = "load"]
    /\ Goto(Loader, "reload")
    /\ UNCHANGED <<disk, listed, fails, cont, script, vol, latest, gs, snap, cand, ret,
                   up, found, held, want, stale>>
-----------------------------------------------------------------------------
Init ==
    /\ mem \in {c \in Conf : /\ c.boot \in Statuses
                             /\ c.net = "bridge" /\ ~c.args /\ ~c.web
                             /\ c.ver \in {0, 1}}
    /\ disk = mem /\ listed = TRUE /\ vol = TRUE /\ latest = 1
    /\ script = "boot"
    /\ cont \in {NoContainer} \cup
                {[NewContainer(mem) EXCEPT !.st = s, !.run = "boot"] :
                    s \in IF mem.boot = "noboot" THEN {"exited"}
                          ELSE {"exited", "running"}}
    /\ events = <<>>
    /\ gs = NoState
    /\ daemon = "up"
    /\ op = [a \in Actors |-> IF a = Loader THEN "load" ELSE "none"]
    /\ pc = [a \in Actors |-> IF a = Loader THEN "reload" ELSE "idle"]
    /\ snap = [a \in Actors |-> ZeroConf]
    /\ cand = [a \in Actors |-> ZeroConf]
    /\ ret = [a \in Actors |-> "done"]
    /\ up = [a \in Actors |-> FALSE]
    /\ found = [a \in Actors |-> "none"]
    /\ held = NoState
    /\ want = Settings(mem)
    /\ fails = 0 /\ behind = FALSE /\ stale = [snap |-> {}, cand |-> {}]

Step(a) ==
    \/ Finish(a)
    \/ StoreFails(a)
    \/ PowerOn(a) \/ PowerOff(a) \/ DetectBoot(a) \/ WriteSettings(a)
    \/ GetShipStatus(a) \/ SendPack(a) \/ WritePack(a) \/ WriteMeldLast(a)
    \/ WaitComplete(a) \/ WriteMeld(a) \/ WriteBoot(a)
    \/ BarExit(a) \/ StopContainerByName(a) \/ DeleteContainer(a)
    \/ SetDesiredStopped(a) \/ RemoveUrbitConfig(a) \/ CutPier(a)
    \/ DeleteVolume(a) \/ DeleteContainerState(a)
    \/ ContainerConfRead(a) \/ ContainerConfApply(a) \/ ContainerConfLoad(a)
    \/ ContainerConfReset(a) \/ WriteScript(a)
    \/ FindContainer(a) \/ KeepContainer(a) \/ RemoveContainer(a)
    \/ ContainerCreate(a) \/ ContainerStart(a)
    \/ LoadUrbitConfig(a) \/ UpdateContainerState(a)

Next ==
    \/ \E a \in Handlers, o \in Ops : Begin(a, o)
    \/ \E a \in Actors : Step(a)
    \/ TakeEvent \/ HandleEvent
    \/ ShipExits \/ NewRelease
    \/ Crash \/ Restart

Spec == Init /\ [][Next]_vars

(* Goroutines are scheduled, events are delivered, and a ship told to exit *)
(* or running a pack or meld script goes down.  Users ask for nothing.     *)
Departing == Running /\ (cont.leaving \/ cont.run \in {"pack", "meld", "prep"})

FairSpec ==
    /\ Spec
    /\ \A a \in Actors : WF_vars(Step(a))
    /\ WF_vars(TakeEvent) /\ WF_vars(HandleEvent)
    /\ WF_vars(Departing /\ ShipExits)
-----------------------------------------------------------------------------
TypeOK ==
    /\ mem \in Conf /\ disk \in Conf
    /\ listed \in BOOLEAN /\ vol \in BOOLEAN
    /\ latest \in 1..MaxVersion
    /\ script \in Bootable \cup {""}
    /\ cont \in Container
    /\ events \in Seq(EventNames) /\ Len(events) <= MaxEvents
    /\ gs \in State /\ held \in State
    /\ daemon \in {"up", "down"}
    /\ op \in [Actors -> Ops \cup {"none", "load"} \cup EventNames]
    /\ pc \in [Actors -> Labels]
    /\ snap \in [Actors -> Conf] /\ cand \in [Actors -> Conf]
    /\ ret \in [Actors -> {"done", "w_last", "wait_pack", "wait_meld", "gs_run", "gs_made"}]
    /\ up \in [Actors -> BOOLEAN]
    /\ found \in [Actors -> {"none", "exited", "stale", "fresh"}]
    /\ want \in [net : {"", "bridge", "wireguard"}, args : BOOLEAN, web : BOOLEAN]
    /\ fails \in 0..MaxFails /\ behind \in BOOLEAN
    /\ stale \in [snap : SUBSET Handlers, cand : SUBSET Actors]

(* The in-memory config and its json file part only when a save fails, and    *)
(* until the next save or load that succeeds; whoever stores or loads, and in   *)
(* whatever order.  An unreadable file, and that of a ship off the list, leave *)
(* no entry at the start.                                                     *)
Coherent ==
    daemon = "up" => \/ mem = disk \/ behind
                     \/ mem = Absent /\ ~(Readable /\ listed)

Quiescent == daemon = "up" /\ events = <<>> /\ \A a \in Actors : pc[a] = "idle"

(* pack, meld and prep are one-shot: once everything has returned, no ship is *)
(* left marked to pack, meld or prep at its next start, unless a save failed.   *)
NoTransientLeft ==
    Quiescent /\ fails = 0 => mem.boot \notin {"pack", "meld", "prep"}

(* An edit is lost only to a goroutine that stores a copy of the config which  *)
(* it read before the edit: no other step of the handlers, the event loop or   *)
(* LoadUrbits undoes it, nor a kill once its save has returned.                 *)
EditsKept == Quiescent /\ listed => Settings(mem) = want

(* A ship runs as it is configured: StartContainer runs the script it chose, *)
(* not one another caller wrote, and once everything has returned a running  *)
(* container has the network and arguments the configuration asks for.       *)
RunsAsConfigured ==
    /\ \A a \in Actors : pc[a] = "sc_start" => script = cand[a].boot
    /\ Quiescent /\ Running => cont.net = mem.net /\ cont.args = mem.args

(* A ship switched off is down or going down once everything has returned.   *)
OffIsOff == Quiescent /\ mem.boot = "noboot" => ~Running \/ Departing

(* A deleted ship has no container once everything has returned.             *)
DeletedIsGone == Quiescent /\ ~listed => cont.st = "none"

(* pack-meld returns, and brings a ship that was running back up on its boot *)
(* script: the waits for the ship to go down do end.                         *)
PackMeldRestores ==
    \A a \in Handlers :
        (pc[a] = "w_pack" /\ op[a] = "pack-meld" /\ up[a])
            ~> \/ Running /\ cont.run = "boot" /\ mem.boot = "boot"
               \/ daemon = "down"
=============================================================================
