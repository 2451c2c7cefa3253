------------------------------- MODULE Remote -------------------------------
(***************************************************************************)
(* Remote access (StarTram): the wireguard container, the registration of  *)
(* the device and of its ships at a server, and the network each ship is   *)
(* on.                                                                     *)
(*                                                                         *)
(* Four kinds of goroutine share this state: the StarTram and network      *)
(* handlers that users start, DockerSubscriptionHandler, RectifyUrbit, and *)
(* main at startup.  Each is a record with a program counter.  The life of *)
(* a ship's own container is modelled in ShipBoot; here it only has a      *)
(* network, which is lost with the wireguard container it joined.          *)
(***************************************************************************)
EXTENDS Integers, Sequences, FiniteSets

CONSTANTS
  Ships,      \* the ships of the device, all with boot status "boot"
  Endpoints,  \* API servers
  NoEndpoint, \* StartramConfig before anything was retrieved
  NoShip,     \* no ship
  Handlers,   \* goroutines of user actions
  Ops,        \* actions users may ask for in this instance
  Faults,     \* calls that may fail: "register", "service", "timeout"
  Crashes,    \* BOOLEAN: the daemon may be killed and restarted
  MaxBus,     \* bound: a poll of the registration waits for a shorter EventBus
  MaxEvents   \* bound: users wait while this many docker events are queued

EL == "events"      \* DockerSubscriptionHandler
RU == "rectify"     \* RectifyUrbit
Main == "main"      \* LoadWireguard and LoadUrbits at startup
Actors == Handlers \cup {EL, RU, Main}

\* actions that reach the server, and those that do not
ServerOps == {"register", "endpoint", "cancel"}
LocalOps == {"toggle", "restart", "toggle-network"}

ASSUME RemoteAssumption ==
  /\ {EL, RU, Main} \cap Handlers = {}
  /\ NoShip \notin Ships /\ NoEndpoint \notin Endpoints
  /\ Ops \subseteq ServerOps \cup LocalOps
  /\ Faults \subseteq {"register", "service", "timeout"}
  /\ Crashes \in BOOLEAN /\ {MaxBus, MaxEvents} \subseteq Nat \ {0}

VARIABLES
  conf,    \* the StarTram settings of the system configuration
  pier,    \* of each pier file: the network, and whose ports it holds
  blob,    \* config.StartramConfig, what the server last answered
  file,    \* the key pair of wg0.conf
  tunnel,  \* docker's wireguard container and the key it was started with
  net,     \* docker's containers of the ships: the network, or none
  gs,      \* GetContainerState()["wireguard"]
  events,  \* eventBus: docker's events of the wireguard container
  bus,     \* startram.EventBus, without the events that only inform the user
  server,  \* what each API server holds for this device
  act,     \* the goroutines
  missed,  \* history: docker's last events were not heard or not heeded
  killed,  \* history: the daemon was killed while something was under way
  gaveUp   \* history: a registration was given up before wg0.conf was written

vars == <<conf, pier, blob, file, tunnel, net, gs, events, bus, server, act,
          missed, killed, gaveUp>>
dockVars == <<tunnel, net, events>>
startramVars == <<blob, bus, server>>
histVars == <<missed, killed, gaveUp>>

\* A wireguard key pair is named by what it is to the configuration's: the same,
\* or an earlier one.  "mixed" is one pair's server part with another's private key
KeyPairs == {"none", "current", "old"}
Networks == {"bridge", "wireguard"}
Statuses == {"none", "creating", "ok"}
Unknown == [desired |-> "unknown", actual |-> "unknown"]
NoSubs == [s \in Ships |-> "none"]
NoBlob == [key |-> "none", from |-> NoEndpoint, subs |-> NoSubs]
NoPier == [net |-> "bridge", ports |-> NoEndpoint]

Idle == [at |-> "idle", op |-> "none", todo |-> {}, ship |-> NoShip,
         snap |-> NoPier, seen |-> "none", root |-> NoEndpoint, ret |-> "idle"]

At(a, label) == act[a].at = label
Goto(a, label) == act' = [act EXCEPT ![a].at = label]
Finish(a) == act' = [act EXCEPT ![a] = Idle]
Running == tunnel.st = "running"
-----------------------------------------------------------------------------
\* Docker

\* the ships' networks once the wireguard container has gone down
Lost == [s \in Ships |-> IF net[s] = "wireguard" THEN "lost" ELSE net[s]]

Started == [st |-> "running", key |-> file]

\* StartContainer of a ship: a container that exists is kept, whatever its
\* state; a new one cannot start without the wireguard container it is to join
Joined(s) ==
  IF net[s] # "none" THEN net[s]
  ELSE IF pier[s].net = "bridge" THEN "bridge"
  ELSE IF Running THEN "wireguard" ELSE "created"

StopTunnel == /\ tunnel' = [tunnel EXCEPT !.st = "exited"]
              /\ net' = Lost
              /\ events' = events \o <<"die", "stop">>

\* StartContainer("wireguard"): FindContainer, then create, replace or keep
StartContainer(a, ret) == act' = [act EXCEPT ![a].at = "find", ![a].ret = ret]

FindContainer(a) ==
  /\ At(a, "find")
  /\ act' = [act EXCEPT ![a].seen = tunnel.st, ![a].at = "apply"]
  /\ UNCHANGED <<conf, pier, file, dockVars, startramVars, gs, histVars>>

Returned(a, st) ==
  act' = [act EXCEPT ![a] = IF @.ret = "idle" THEN Idle
                            ELSE [@ EXCEPT !.at = act[a].ret, !.seen = st]]

KeepTunnel(a) ==
  /\ At(a, "apply") /\ act[a].seen = "running"
  /\ Returned(a, tunnel.st)
  /\ UNCHANGED <<conf, pier, file, dockVars, startramVars, gs, histVars>>

CreateTunnel(a) ==
  /\ At(a, "apply") /\ act[a].seen = "none" /\ tunnel.st = "none"
  /\ tunnel' = Started /\ events' = Append(events, "start")
  /\ Returned(a, "running")
  /\ UNCHANGED <<conf, pier, file, net, startramVars, gs, histVars>>

\* someone else created it: LoadWireguard returns the error, others log it
CreateTunnelFails(a) ==
  /\ At(a, "apply") /\ act[a].seen = "none" /\ tunnel.st # "none"
  /\ IF act[a].ret = "known" THEN Finish(a) ELSE Returned(a, "none")
  /\ UNCHANGED <<conf, pier, file, dockVars, startramVars, gs, histVars>>

\* the exited container is removed by force, also when it runs again by now
ReplaceTunnel(a) ==
  /\ At(a, "apply") /\ act[a].seen = "exited"
  /\ tunnel' = Started
  /\ net' = Lost
  /\ events' = events \o (IF Running THEN <<"die", "start">> ELSE <<"start">>)
  /\ Returned(a, "running")
  /\ UNCHANGED <<conf, pier, file, startramVars, gs, histVars>>
-----------------------------------------------------------------------------
\* The API server and the goroutine that digests its answers

Served == server[conf.endpoint].key = "current"

\* SvcCreate and SvcDelete at the endpoint and with the key of the moment
SvcCreated(s) ==
  IF Served /\ server[conf.endpoint].svc[s] = "none"
  THEN [server EXCEPT ![conf.endpoint].svc[s] = "creating"] ELSE server
SvcDeleted(s) ==
  IF Served THEN [server EXCEPT ![conf.endpoint].svc[s] = "none"] ELSE server

\* the answer to a retrieve when the server's records are srv
Answer(srv) == [key |-> "current", from |-> conf.endpoint,
                subs |-> srv[conf.endpoint].svc]

\* mutant of Retrieved: RectifyUrbit is not told
RetrievedQuietly(srv) ==
  IF Served THEN /\ blob' = Answer(srv)
                 /\ conf' = [conf EXCEPT !.reg = TRUE]
                 /\ UNCHANGED bus
  ELSE UNCHANGED <<blob, conf, bus>>

\* mutant of Retrieved: the answer is returned but not kept
RetrievedUnkept(srv) ==
  IF Served THEN /\ conf' = [conf EXCEPT !.reg = TRUE]
                 /\ bus' = Append(bus, "retrieve")
                 /\ UNCHANGED blob
  ELSE UNCHANGED <<blob, conf, bus>>

\* Retrieve: when the server has no record, it returns before it would clear
\* wgRegistered
Retrieved(srv) ==
  IF Served THEN /\ blob' = Answer(srv)
                 /\ conf' = [conf EXCEPT !.reg = TRUE]
                 /\ bus' = Append(bus, "retrieve")
  ELSE UNCHANGED <<blob, conf, bus>>

\* the server has set a service up
ServiceReady(e, s) ==
  /\ server[e].svc[s] = "creating"
  /\ server' = [server EXCEPT ![e].svc[s] = "ok"]
  /\ UNCHANGED <<conf, pier, blob, file, dockVars, gs, bus, act, histVars>>

\* RectifyUrbit takes an event; the endpoint is read once for all ships
TakeEvent ==
  /\ At(RU, "idle") /\ bus # <<>>
  /\ bus' = Tail(bus)
  /\ act' = [act EXCEPT ![RU] =
       IF Head(bus) = "retrieve"
       THEN [Idle EXCEPT !.at = "ship", !.todo = Ships, !.root = conf.endpoint]
       ELSE [Idle EXCEPT !.at = "complete", !.seen = gs.actual]]
  /\ UNCHANGED <<conf, pier, blob, file, dockVars, gs, server, histVars>>

\* "complete": what the event loop or LoadWireguard last knew becomes wgOn
Complete ==
  /\ At(RU, "complete")
  /\ conf' = IF act[RU].seen = "unknown" THEN conf
             ELSE [conf EXCEPT !.on = (act[RU].seen = "running")]
  /\ missed' = (missed /\ act[RU].seen = "unknown")
  /\ Finish(RU)
  /\ UNCHANGED <<pier, file, dockVars, startramVars, gs, killed, gaveUp>>

\* "retrieve", for one ship: its config is copied, and the copy gets the ports
\* of the last answer when the service is up
ReadShip(s) ==
  /\ At(RU, "ship") /\ s \in act[RU].todo
  /\ LET modified == blob.subs[s] = "ok" /\ pier[s].ports # blob.from
         found == blob.subs[s] # "none" /\ blob.from = act[RU].root
     IN act' = [act EXCEPT ![RU] =
          [@ EXCEPT !.ship = s,
                    !.snap = IF modified THEN [pier[s] EXCEPT !.ports = blob.from]
                             ELSE pier[s],
                    !.seen = IF modified THEN "modified" ELSE "same",
                    !.at = IF found THEN "store" ELSE "missing"]]
  /\ UNCHANGED <<conf, pier, file, dockVars, startramVars, gs, histVars>>

\* "Registering missing StarTram service"
CreateMissing ==
  /\ At(RU, "missing")
  /\ server' = SvcCreated(act[RU].ship)
  /\ Goto(RU, "store")
  /\ UNCHANGED <<conf, pier, blob, file, dockVars, gs, bus, histVars>>

\* a modified copy is stored over whatever the pier file holds by now
StoreShip ==
  /\ At(RU, "store")
  /\ LET s == act[RU].ship
     IN /\ pier' = IF act[RU].seen = "modified"
                   THEN [pier EXCEPT ![s] = act[RU].snap] ELSE pier
        /\ act' = [act EXCEPT ![RU] =
             IF @.todo = {s} THEN Idle
             ELSE [Idle EXCEPT !.at = "ship", !.todo = act[RU].todo \ {s},
                         !.root = act[RU].root]]
  /\ UNCHANGED <<conf, file, dockVars, startramVars, gs, histVars>>
-----------------------------------------------------------------------------
\* DockerSubscriptionHandler

\* events of a container that nobody stored a state of are ignored
TakeDockerEvent ==
  /\ At(EL, "idle") /\ events # <<>>
  /\ events' = Tail(events)
  /\ LET e == Head(events)
         known == gs # Unknown
     IN /\ gs' = IF ~known THEN gs
                 ELSE CASE e = "stop" -> [gs EXCEPT !.actual = "stopped"]
                        [] e = "start" -> [gs EXCEPT !.actual = "running"]
                        [] e = "die" -> [desired |-> "died", actual |-> "died"]
        /\ conf' = IF known /\ e = "start" THEN [conf EXCEPT !.on = TRUE] ELSE conf
        /\ act' = [act EXCEPT ![EL] =
             IF ~known THEN Idle
             ELSE IF e = "stop" /\ gs.desired # "stopped"
             THEN [Idle EXCEPT !.at = "find", !.ret = "announce"]
             ELSE [Idle EXCEPT !.at = "announce", !.seen = e]]
        /\ missed' = (missed \/ ~known)
  /\ UNCHANGED <<pier, file, tunnel, net, startramVars, killed, gaveUp>>

\* mutant of MakeBroadcast: a death leaves wgOn as it was
MakeBroadcastStart ==
  /\ At(EL, "announce")
  /\ conf' = [conf EXCEPT !.on = @ \/ act[EL].seen = "start"]
  /\ missed' = FALSE
  /\ Finish(EL)
  /\ UNCHANGED <<pier, file, dockVars, startramVars, gs, killed, gaveUp>>

\* makeBroadcast: wgOn becomes whether the event was "start"
MakeBroadcast ==
  /\ At(EL, "announce")
  /\ conf' = [conf EXCEPT !.on = (act[EL].seen = "start")]
  /\ missed' = FALSE
  /\ Finish(EL)
  /\ UNCHANGED <<pier, file, dockVars, startramVars, gs, killed, gaveUp>>
-----------------------------------------------------------------------------
\* What users ask for

Settled == (\A a \in Actors : At(a, "idle")) /\ events = <<>> /\ bus = <<>>

\* bound: nothing is asked for while the server's answers are digested or an
\* action that reaches the server runs, and such an action only at rest
MayBegin(op) ==
  /\ At(Main, "idle") /\ At(RU, "idle") /\ bus = <<>> /\ Len(events) < MaxEvents
  /\ \A h \in Handlers : act[h].op \notin ServerOps
  /\ op \in ServerOps => Settled

RemoteShips == {s \in Ships : pier[s].net = "wireguard"}

\* where the handler of op begins; Conf() is read on the way in.  With StarTram
\* off there is nothing to restart
Entries(op) ==
  CASE op = "toggle" -> {[Idle EXCEPT !.at = IF conf.on THEN "off" ELSE "on",
                                      !.todo = Ships]}
    [] op = "restart" -> IF conf.on THEN {[Idle EXCEPT !.at = "rstop", !.todo = RemoteShips]}
                         ELSE {}
    [] op = "toggle-network" -> {[Idle EXCEPT !.at = "network", !.ship = s] : s \in Ships}
    [] op = "register" -> {[Idle EXCEPT !.at = "rkey"]}
    [] op = "endpoint" -> {[Idle EXCEPT !.at = IF conf.on THEN "estop" ELSE "delete",
                                        !.todo = IF conf.reg THEN Ships ELSE {}]}
    [] op = "cancel" -> {[Idle EXCEPT !.at = "delete", !.todo = t] :
                           t \in {{}, {s \in Ships : blob.subs[s] # "none"}}}

Begin(h) ==
  /\ At(h, "idle")
  /\ \E op \in Ops :
       /\ MayBegin(op)
       /\ \E e \in Entries(op) : act' = [act EXCEPT ![h] = [e EXCEPT !.op = op]]
  /\ UNCHANGED <<conf, pier, file, dockVars, startramVars, gs, histVars>>
-----------------------------------------------------------------------------
\* UrbitHandler, toggle-network

ReadNetwork(h) ==
  /\ At(h, "network")
  /\ LET now == pier[act[h].ship]
         new == IF now.net = "wireguard" THEN "bridge" ELSE "wireguard"
     IN IF new = "bridge" \/ conf.reg
        THEN act' = [act EXCEPT ![h].snap = [now EXCEPT !.net = new],
                                ![h].at = "nstore"]
        ELSE Returned(h, "none")
  /\ UNCHANGED <<conf, pier, file, dockVars, startramVars, gs, histVars>>

StoreNetwork(h) ==
  /\ At(h, "nstore")
  /\ pier' = [pier EXCEPT ![act[h].ship] = act[h].snap]
  /\ Goto(h, "ndelete")
  /\ UNCHANGED <<conf, file, dockVars, startramVars, gs, histVars>>

\* mutant of DeleteShip: the container is kept
DeleteShipNot(h) ==
  /\ At(h, "ndelete")
  /\ Goto(h, "nstart")
  /\ UNCHANGED <<conf, pier, file, dockVars, startramVars, gs, histVars>>

DeleteShip(h) ==
  /\ At(h, "ndelete")
  /\ net' = [net EXCEPT ![act[h].ship] = "none"]
  /\ Goto(h, "nstart")
  /\ UNCHANGED <<conf, pier, file, tunnel, events, startramVars, gs, histVars>>

StartShip(h) ==
  /\ At(h, "nstart")
  /\ net' = [net EXCEPT ![act[h].ship] = Joined(act[h].ship)]
  /\ Returned(h, "none")
  /\ UNCHANGED <<conf, pier, file, tunnel, events, startramVars, gs, histVars>>

\* LoadUrbits, in main and in a restart of StarTram
LoadShip(a, s) ==
  /\ At(a, "load") /\ s \in act[a].todo
  /\ net' = [net EXCEPT ![s] = Joined(s)]
  /\ act' = [act EXCEPT ![a] = IF @.todo = {s} THEN Idle
                               ELSE [@ EXCEPT !.todo = act[a].todo \ {s}]]
  /\ UNCHANGED <<conf, pier, file, tunnel, events, startramVars, gs, histVars>>
-----------------------------------------------------------------------------
\* handleStartramToggle and handleStartramRestart

TurnOn(h) ==
  /\ At(h, "on")
  /\ conf' = [conf EXCEPT !.on = TRUE]
  /\ StartContainer(h, "idle")
  /\ UNCHANGED <<pier, file, dockVars, startramVars, gs, histVars>>

TurnOff(h) ==
  /\ At(h, "off")
  /\ conf' = [conf EXCEPT !.on = FALSE]
  /\ Goto(h, "stop")
  /\ UNCHANGED <<pier, file, dockVars, startramVars, gs, histVars>>

\* StopContainerByName; a missing container ends an endpoint change only
StopWireguard(h) ==
  /\ act[h].at \in {"stop", "estop"}
  /\ IF Running THEN StopTunnel ELSE UNCHANGED dockVars
  /\ IF At(h, "stop") THEN Goto(h, "ships")
     ELSE IF tunnel.st = "none" THEN Finish(h) ELSE Goto(h, "delete")
  /\ UNCHANGED <<conf, pier, file, startramVars, gs, histVars>>

\* the ships that are remote go back to local, one by one
LocalShip(h, s) ==
  /\ At(h, "ships") /\ s \in act[h].todo
  /\ act' = [act EXCEPT ![h] =
       IF pier[s].net = "wireguard"
       THEN [@ EXCEPT !.todo = act[h].todo \ {s}, !.ship = s, !.at = "network",
                      !.ret = "ships"]
       ELSE [@ EXCEPT !.todo = act[h].todo \ {s}]]
  /\ UNCHANGED <<conf, pier, file, dockVars, startramVars, gs, histVars>>

ShipsLocal(h) ==
  /\ At(h, "ships") /\ act[h].todo = {}
  /\ Finish(h)
  /\ UNCHANGED <<conf, pier, file, dockVars, startramVars, gs, histVars>>

\* RestartContainer finds running containers only
RestartStops(h) ==
  /\ At(h, "rstop")
  /\ IF Running THEN StopTunnel /\ Goto(h, "rstart")
     ELSE UNCHANGED dockVars /\ Goto(h, "drop")
  /\ UNCHANGED <<conf, pier, file, startramVars, gs, histVars>>

RestartStarts(h) ==
  /\ At(h, "rstart")
  /\ IF Running THEN UNCHANGED <<tunnel, events>>
     ELSE tunnel' = Started /\ events' = Append(events, "start")
  /\ Goto(h, "drop")
  /\ UNCHANGED <<conf, pier, file, net, startramVars, gs, histVars>>

DropShip(h, s) ==
  /\ At(h, "drop") /\ s \in act[h].todo
  /\ net' = [net EXCEPT ![s] = "none"]
  /\ act' = [act EXCEPT ![h].todo = @ \ {s}]
  /\ UNCHANGED <<conf, pier, file, tunnel, events, startramVars, gs, histVars>>

LoadAgain(h) ==
  /\ At(h, "drop") /\ act[h].todo = {}
  /\ act' = [act EXCEPT ![h].at = "load", ![h].todo = Ships]
  /\ UNCHANGED <<conf, pier, file, dockVars, startramVars, gs, histVars>>
-----------------------------------------------------------------------------
\* handleStartramRegister, handleStartramEndpoint, handleStartramCancel

\* what a pair is called once another is the current one
Aged(k) == IF k = "current" THEN "old" ELSE k

CycleWgKey(h) ==
  /\ act[h].at \in {"rkey", "ekey", "ckey"}
  /\ blob' = [blob EXCEPT !.key = Aged(@)]
  /\ file' = Aged(file)
  /\ tunnel' = [tunnel EXCEPT !.key = Aged(@)]
  /\ server' = [e \in Endpoints |-> [server[e] EXCEPT !.key = Aged(@)]]
  /\ IF At(h, "ckey") THEN Finish(h)
     ELSE Goto(h, IF At(h, "rkey") THEN "post" ELSE "set")
  /\ UNCHANGED <<conf, pier, net, events, bus, gs, histVars>>

\* Register; the server may know the services of the registration code
PostRegister(h) ==
  /\ At(h, "post")
  /\ \E svc \in {server[conf.endpoint].svc, NoSubs} :
       server' = [server EXCEPT ![conf.endpoint] = [key |-> "current", svc |-> svc]]
  /\ conf' = [conf EXCEPT !.reg = TRUE]
  /\ act' = [act EXCEPT ![h].at = "get", ![h].todo = Ships, ![h].ret = "create"]
  /\ UNCHANGED <<pier, blob, file, dockVars, gs, bus, histVars>>

RegisterFails(h) ==
  /\ At(h, "post") /\ "register" \in Faults
  /\ conf' = [conf EXCEPT !.reg = FALSE]
  /\ Finish(h)
  /\ UNCHANGED <<pier, file, dockVars, startramVars, gs, histVars>>

\* Retrieve, after Register or after SvcDelete, whose errors are only logged
GetAnswer(h) ==
  /\ At(h, "get")
  /\ Retrieved(server)
  /\ IF Served \/ act[h].ret = "delete" THEN Returned(h, "none") ELSE Finish(h)
  /\ UNCHANGED <<pier, file, dockVars, gs, server, histVars>>

\* RegisterExistingShips; an error is logged and the next ship is taken
CreateService(h, s) ==
  /\ At(h, "create") /\ s \in act[h].todo
  /\ \/ server' = SvcCreated(s)
     \/ "service" \in Faults /\ UNCHANGED server
  /\ act' = [act EXCEPT ![h].todo = @ \ {s},
                        ![h].at = IF act[h].todo = {s} THEN "poll" ELSE "create"]
  /\ UNCHANGED <<conf, pier, blob, file, dockVars, gs, bus, histVars>>

Listed == {s \in Ships : server[conf.endpoint].svc[s] # "none"}
ReadyNow(s) == server[conf.endpoint].svc[s] = "ok"

\* backoffRetrieve looks at the first subdomain that the answer lists
PollEnds(h) ==
  /\ At(h, "poll")
  /\ \E s \in Listed : ReadyNow(s)
  /\ Retrieved(server)
  /\ Goto(h, "wgconf")
  /\ UNCHANGED <<pier, file, dockVars, gs, server, histVars>>

PollFails == Listed = {} \/ \E s \in Listed : ~ReadyNow(s)

PollAgain(h) ==
  /\ At(h, "poll") /\ Len(bus) < MaxBus
  /\ PollFails
  /\ Retrieved(server)
  /\ UNCHANGED <<pier, file, dockVars, gs, server, act, histVars>>

\* after five minutes the registration is given up, although the server made it
PollTimesOut(h) ==
  /\ At(h, "poll") /\ "timeout" \in Faults
  /\ PollFails
  /\ Retrieved(server)
  /\ gaveUp' = TRUE
  /\ Finish(h)
  /\ UNCHANGED <<pier, file, dockVars, gs, server, missed, killed>>

\* mutant of WriteWgConf: an existing file is kept
WriteWgConfOnce(a) ==
  /\ At(a, "wgconf")
  /\ file' = IF file # "none" THEN file ELSE blob.key
  /\ gaveUp' = FALSE
  /\ StartContainer(a, "known")
  /\ UNCHANGED <<conf, pier, dockVars, startramVars, gs, missed, killed>>

\* LoadWireguard: the server's answer with our private key put in
WriteWgConf(a) ==
  /\ At(a, "wgconf")
  /\ file' = IF blob.key = "old" THEN "mixed" ELSE blob.key
  /\ gaveUp' = FALSE
  /\ StartContainer(a, "known")
  /\ UNCHANGED <<conf, pier, dockVars, startramVars, gs, missed, killed>>

StoreState(a) ==
  /\ At(a, "known")
  /\ gs' = [desired |-> "running", actual |-> act[a].seen]
  /\ IF a = Main
     THEN UNCHANGED bus /\ act' = [act EXCEPT ![a] =
                                     [Idle EXCEPT !.at = "load", !.todo = Ships]]
     ELSE bus' = Append(bus, "complete") /\ Finish(a)
  /\ UNCHANGED <<conf, pier, blob, file, dockVars, server, histVars>>

\* SvcDelete of one ship's services, in an endpoint change and a cancellation
DeleteService(h, s) ==
  /\ At(h, "delete") /\ s \in act[h].todo
  /\ server' = SvcDeleted(s)
  /\ act' = [act EXCEPT ![h].todo = @ \ {s}, ![h].ret = "delete",
                        ![h].at = IF Served THEN "get" ELSE "delete"]
  /\ UNCHANGED <<conf, pier, blob, file, dockVars, gs, bus, histVars>>

ServicesDeleted(h) ==
  /\ At(h, "delete") /\ act[h].todo = {}
  /\ Goto(h, IF act[h].op = "endpoint" THEN "ekey" ELSE "cancel")
  /\ UNCHANGED <<conf, pier, file, dockVars, startramVars, gs, histVars>>

SetEndpoint(h) ==
  /\ At(h, "set")
  /\ \E e \in Endpoints : conf' = [conf EXCEPT !.endpoint = e, !.reg = FALSE]
  /\ Finish(h)
  /\ UNCHANGED <<pier, file, dockVars, startramVars, gs, histVars>>

\* CancelSub: an error ends the handler; the server may forget the device
CancelSub(h) ==
  /\ At(h, "cancel")
  /\ \/ UNCHANGED server /\ Finish(h)
     \/ /\ \E k \in {"none", server[conf.endpoint].key} :
             server' = [server EXCEPT ![conf.endpoint].key = k]
        /\ Goto(h, "ckey")
  /\ UNCHANGED <<conf, pier, blob, file, dockVars, gs, bus, histVars>>
-----------------------------------------------------------------------------
\* The surroundings

\* bound: the wireguard container dies by itself only while nothing goes on
TunnelDies ==
  /\ Settled /\ Running
  /\ tunnel' = [tunnel EXCEPT !.st = "exited"]
  /\ net' = Lost
  /\ events' = <<"die">>
  /\ UNCHANGED <<conf, pier, file, startramVars, gs, act, histVars>>

\* main: Retrieve and LoadWireguard when registered, then LoadUrbits
Startup(reg) ==
  [a \in Actors |->
    IF a # Main THEN Idle
    ELSE IF reg THEN [Idle EXCEPT !.at = "wgconf"]
    ELSE [Idle EXCEPT !.at = "load", !.todo = Ships]]

\* docker and the server go on while the daemon is down; it hears no events
Restart ==
  /\ Crashes
  /\ killed' = (killed \/ ~Settled) /\ missed' = (missed \/ ~Settled)
  /\ act' = Startup(conf.reg)
  /\ gs' = Unknown /\ events' = <<>>
  /\ blob' = IF conf.reg /\ Served THEN Answer(server) ELSE NoBlob
  /\ bus' = IF conf.reg /\ Served THEN <<"retrieve">> ELSE <<>>
  /\ UNCHANGED <<conf, pier, file, tunnel, net, server, gaveUp>>

\* the daemon starts on a device without StarTram, or registered and set up
StartsWith(reg, on, e) ==
  /\ on => reg
  /\ conf = [on |-> on, reg |-> reg, endpoint |-> e]
  /\ pier \in [Ships -> [net : IF reg THEN Networks ELSE {"bridge"},
                         ports : {IF reg THEN e ELSE NoEndpoint}]]
  /\ file = IF reg THEN "current" ELSE "none"
  /\ tunnel = [st |-> IF on THEN "running" ELSE IF reg THEN "exited" ELSE "none",
               key |-> IF on THEN "current" ELSE "none"]
  /\ net = [s \in Ships |-> IF pier[s].net = "bridge" THEN "bridge"
                            ELSE IF on THEN "wireguard" ELSE "created"]
  /\ server = [x \in Endpoints |->
                 IF reg /\ x = e THEN [key |-> "current", svc |-> [s \in Ships |-> "ok"]]
                 ELSE [key |-> "none", svc |-> NoSubs]]
  /\ blob = IF reg THEN Answer(server) ELSE NoBlob
  /\ bus = IF reg THEN <<"retrieve">> ELSE <<>>
  /\ gs = Unknown /\ events = <<>> /\ act = Startup(reg)
  /\ missed = FALSE /\ killed = FALSE /\ gaveUp = FALSE

Init == \E reg \in BOOLEAN, on \in BOOLEAN, e \in Endpoints : StartsWith(reg, on, e)

HandlerStep(h) ==
  \/ Begin(h) \/ ReadNetwork(h) \/ StoreNetwork(h) \/ DeleteShip(h) \/ StartShip(h)
  \/ TurnOn(h) \/ TurnOff(h) \/ StopWireguard(h) \/ ShipsLocal(h)
  \/ RestartStops(h) \/ RestartStarts(h) \/ LoadAgain(h)
  \/ CycleWgKey(h) \/ PostRegister(h) \/ RegisterFails(h) \/ GetAnswer(h)
  \/ PollEnds(h) \/ PollAgain(h) \/ PollTimesOut(h)
  \/ ServicesDeleted(h) \/ SetEndpoint(h) \/ CancelSub(h)
  \/ \E s \in Ships : LocalShip(h, s) \/ DropShip(h, s) \/ CreateService(h, s)
                      \/ DeleteService(h, s)

\* LoadWireguard, LoadUrbits and StartContainer, whoever calls them
SharedStep(a) ==
  \/ FindContainer(a) \/ KeepTunnel(a) \/ CreateTunnel(a) \/ CreateTunnelFails(a)
  \/ ReplaceTunnel(a) \/ WriteWgConf(a) \/ StoreState(a)
  \/ \E s \in Ships : LoadShip(a, s)

RectifyStep ==
  TakeEvent \/ Complete \/ CreateMissing \/ StoreShip \/ \E s \in Ships : ReadShip(s)

Next ==
  \/ \E h \in Handlers : HandlerStep(h)
  \/ \E a \in Actors : SharedStep(a)
  \/ RectifyStep \/ TakeDockerEvent \/ MakeBroadcast
  \/ \E e \in Endpoints, s \in Ships : ServiceReady(e, s)
  \/ TunnelDies \/ Restart

Spec == Init /\ [][Next]_vars
-----------------------------------------------------------------------------
\* Properties

Labels == {"idle", "find", "apply", "known", "wgconf", "load", "announce", "ship",
           "missing", "store", "complete", "off", "on", "stop", "ships", "rstop",
           "rstart", "drop", "network", "nstore", "ndelete", "nstart", "rkey",
           "post", "get", "create", "poll", "estop", "delete", "ekey", "set",
           "cancel", "ckey"}
Piers == [net : Networks, ports : Endpoints \cup {NoEndpoint}]
Subs == [Ships -> Statuses]
Seen == {"none", "running", "exited", "start", "stop", "die", "stopped", "died",
         "unknown", "same", "modified"}
Goroutines ==
  [at : Labels, op : {"none"} \cup ServerOps \cup LocalOps, todo : SUBSET Ships,
   ship : Ships \cup {NoShip}, snap : Piers, seen : Seen,
   root : Endpoints \cup {NoEndpoint},
   ret : {"idle", "known", "announce", "ships", "create", "delete"}]

\* The state has its types: in particular wg0.conf is empty or made for one key
\* pair, never the server's part for one key with the private half of another.
TypeOK ==
  /\ conf \in [on : BOOLEAN, reg : BOOLEAN, endpoint : Endpoints]
  /\ pier \in [Ships -> Piers]
  /\ blob \in [key : KeyPairs, from : Endpoints \cup {NoEndpoint}, subs : Subs]
  /\ file \in KeyPairs
  /\ tunnel \in [st : {"none", "running", "exited"}, key : KeyPairs]
  /\ net \in [Ships -> Networks \cup {"none", "created", "lost"}]
  /\ gs \in {Unknown} \cup [desired : {"running", "died"},
                            actual : {"running", "stopped", "died", "exited"}]
  /\ events \in Seq({"start", "stop", "die"})
  /\ bus \in Seq({"retrieve", "complete"})
  /\ server \in [Endpoints -> [key : KeyPairs, svc : Subs]]
  /\ act \in [Actors -> Goroutines]
  /\ {missed, killed, gaveUp} \subseteq BOOLEAN

\* wgOn is written by the toggle, by the event loop twice and by RectifyUrbit,
\* all from what each of them saw earlier.  Once everyone is done, it says
\* whether the container runs, unless docker's last events came while no state
\* of the container was kept or were lost in a kill.
SwitchMatchesTunnel == Settled /\ gs # Unknown /\ ~missed => (conf.on <=> Running)

\* After any sequence of registrations, changes of endpoint, cancellations and
\* kills of the daemon, wg0.conf belongs to the key pair under which the server
\* knows the device, whenever it knows it and no registration was given up.
KeysAgree == Settled /\ conf.reg /\ Served /\ ~gaveUp => file = "current"

\* A ship whose service could not be created, or was deleted by a change that
\* then failed, is found by RectifyUrbit and has a service in the end.
EveryShipHasService ==
  Settled /\ conf.reg /\ Served =>
    \A s \in Ships : server[conf.endpoint].svc[s] # "none"

\* A ship that the configuration calls local is reachable locally, and no ship
\* is on a tunnel that does not run or that its configuration does not name.
NetworkMatches ==
  Settled /\ ~killed =>
    \A s \in Ships : /\ pier[s].net = "bridge" <=> net[s] = "bridge"
                     /\ net[s] = "wireguard" => Running
=============================================================================
