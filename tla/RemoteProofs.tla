--------------------------- MODULE RemoteProofs ---------------------------
(***************************************************************************)
(* Proofs about Remote, for any ships, endpoints, handlers and faults: the *)
(* types, and that keys, services, the switch and the networks agree once  *)
(* everything has settled.                                                 *)
(***************************************************************************)
EXTENDS Remote, SequenceTheorems, TLAPS

-----------------------------------------------------------------------------
(* Types, and where each goroutine can be                                  *)

\* TypeOK but for what the values of file and gs owe to the order of the steps.
Typed ==
  /\ conf \in [on : BOOLEAN, reg : BOOLEAN, endpoint : Endpoints]
  /\ pier \in [Ships -> Piers]
  /\ blob \in [key : KeyPairs, from : Endpoints \cup {NoEndpoint}, subs : Subs]
  /\ file \in KeyPairs \cup {"mixed"}
  /\ tunnel \in [st : {"none", "running", "exited"}, key : KeyPairs \cup {"mixed"}]
  /\ net \in [Ships -> Networks \cup {"none", "created", "lost"}]
  /\ gs \in [desired : {"unknown", "running", "died"}, actual : Seen]
  /\ events \in Seq({"start", "stop", "die"})
  /\ bus \in Seq({"retrieve", "complete"})
  /\ server \in [Endpoints -> [key : KeyPairs, svc : Subs]]
  /\ act \in [Actors -> Goroutines]
  /\ missed \in BOOLEAN /\ killed \in BOOLEAN /\ gaveUp \in BOOLEAN

NetSpots == {"network", "nstore", "ndelete", "nstart"}

\* The handler of each operation keeps to its own code.
Lane(r) ==
  /\ r.at \in NetSpots => r.ship \in Ships
  /\ \/ r.op = "none" /\ r.at = "idle"
     \/ /\ r.op = "toggle"
        /\ \/ r.at \in {"on", "off", "stop", "ships"}
           \/ r.at \in {"find", "apply"} /\ r.ret = "idle"
           \/ r.at \in NetSpots /\ r.ret = "ships"
     \/ r.op = "restart" /\ r.at \in {"rstop", "rstart", "drop", "load"}
     \/ r.op = "toggle-network" /\ r.at \in NetSpots /\ r.ret = "idle"
     \/ /\ r.op = "register"
        /\ \/ r.at \in {"rkey", "post", "create", "poll", "wgconf", "known"}
           \/ r.at = "get" /\ r.ret = "create"
           \/ r.at \in {"find", "apply"} /\ r.ret = "known"
     \/ /\ r.op = "endpoint"
        /\ r.at \in {"estop", "delete", "ekey", "set"} \/ (r.at = "get" /\ r.ret = "delete")
     \/ /\ r.op = "cancel"
        /\ r.at \in {"delete", "cancel", "ckey"} \/ (r.at = "get" /\ r.ret = "delete")
MainLane(r) == r.at \in {"idle", "wgconf", "known", "load"}
                 \/ (r.at \in {"find", "apply"} /\ r.ret = "known")
LoopLane(r) == r.at \in {"idle", "announce"}
                 \/ (r.at \in {"find", "apply"} /\ r.ret = "announce")
RectifyLane(r) == r.at \in {"idle", "complete", "ship"}
                    \/ (r.at \in {"missing", "store"} /\ r.ship \in r.todo)
Lanes == /\ \A h \in Handlers : Lane(act[h])
         /\ MainLane(act[Main]) /\ LoopLane(act[EL]) /\ RectifyLane(act[RU])

\* An action that reaches the server runs alone, and so does the startup.
Alone ==
  /\ \A h \in Handlers : act[h].op \in ServerOps =>
       At(Main, "idle") /\ \A g \in Handlers : g # h => At(g, "idle")
  /\ ~At(Main, "idle") => \A h \in Handlers : At(h, "idle")

\* The answers of the server are digested while nobody acts locally.
Digest == bus # <<>> \/ ~At(RU, "idle") => \A h \in Handlers : act[h].op \notin LocalOps

Base == Typed /\ Lanes /\ Alone /\ Digest

-----------------------------------------------------------------------------
(* Keys                                                                    *)

\* A handler between a registration and the file that it leads to.
Registered(r) == r.at \in {"create", "poll", "wgconf"} \/ (r.at = "get" /\ r.ret = "create")

KeysOk ==
  /\ \A e \in Endpoints : server[e].key = "current" => e = conf.endpoint /\ conf.reg
  /\ \A h \in Handlers : act[h].at \in {"post", "set"} =>
       \A e \in Endpoints : server[e].key # "current"
  /\ \A h \in Handlers : Registered(act[h]) =>
       server[conf.endpoint].key = "current" /\ (act[h].at # "get" => blob.key = "current")
  /\ At(Main, "wgconf") => blob.key # "old" /\ (Served => blob.key = "current")
  /\ Served /\ ~gaveUp =>
       file = "current" \/ At(Main, "wgconf") \/ \E h \in Handlers : Registered(act[h])
  /\ file # "mixed" /\ tunnel.key # "mixed"

-----------------------------------------------------------------------------
(* Services                                                                *)

Inside(x, q) == \E i \in 1..Len(q) : q[i] = x

\* RectifyUrbit will still look at ship s.
Noted(s) ==
  \/ Inside("retrieve", bus)
  \/ At(RU, "ship") /\ s \in act[RU].todo
  \/ act[RU].at \in {"missing", "store"} /\ s \in act[RU].todo \ {act[RU].ship}
  \/ At(RU, "missing") /\ s = act[RU].ship
Asking == \E h \in Handlers : At(h, "get")
ServicesOk ==
  Served /\ ~Asking => \A s \in Ships : server[conf.endpoint].svc[s] = "none" =>
                                          blob.subs[s] = "none" /\ Noted(s)

-----------------------------------------------------------------------------
(* The switch                                                              *)

Latest(q) == q[Len(q)]

\* The tunnel is being started by main or by a registration, or was just now.
Announced == Inside("complete", bus) \/ At(RU, "complete")
Starting == ~At(Main, "idle") \/ Announced \/ \E h \in Handlers : act[h].op = "register"
StartOk ==
  /\ Announced => /\ \A a \in Handlers \cup {Main} : At(a, "idle")
                  /\ Running /\ gs.actual = "running"
                  /\ At(RU, "complete") => act[RU].seen = "running"
  /\ Starting => /\ \A i \in 1..Len(events) : events[i] = "start"
                 /\ act[EL].at \in {"idle", "announce"}
                 /\ At(EL, "announce") => act[EL].seen = "start"
  /\ \A a \in Handlers \cup {Main} :
       /\ At(a, "apply") /\ act[a].ret = "known" => act[a].seen = tunnel.st
       /\ At(a, "known") => act[a].seen = "running" /\ Running

\* What docker said last is how the tunnel is.
Heard ==
  /\ events # <<>> => (Latest(events) = "start" <=> Running)
  /\ events = <<>> => /\ At(EL, "announce") => (act[EL].seen = "start" <=> Running)
                      /\ act[EL].at \in {"find", "apply"} => ~Running
                      /\ At(EL, "apply") => act[EL].seen # "running"
  /\ ~At(EL, "idle") => gs # Unknown

\* Who found no tunnel, when there is one by now.
Known ==
  /\ gs = Unknown \/ (gs.desired \in {"running", "died"} /\
                      gs.actual \in {"running", "stopped", "died"} /\ tunnel.st # "none")
  /\ \A h \in Handlers : At(h, "apply") /\ act[h].seen = "none" /\ tunnel.st # "none" =>
       gs = Unknown /\ (missed \/ events # <<>>)

TurningOn(r) == r.at = "find" \/ (r.at = "apply" /\ r.seen # "running")
Switched ==
  ~missed /\ events = <<>> /\ At(EL, "idle") =>
    \/ conf.on <=> Running
    \/ conf.on /\ \E h \in Handlers : act[h].ret = "idle" /\ TurningOn(act[h])
    \/ ~conf.on /\ \E h \in Handlers : At(h, "stop")
SwitchOk == StartOk /\ Heard /\ Known /\ Switched

-----------------------------------------------------------------------------
(* Networks                                                                *)

Matches(s) == pier[s].net = "bridge" <=> net[s] = "bridge"
Remade(s) ==
  \/ \E h \in Handlers : At(h, "ndelete") /\ act[h].ship = s
  \/ /\ net[s] = "none"
     /\ \/ \E h \in Handlers : At(h, "drop") \/ (At(h, "nstart") /\ act[h].ship = s)
        \/ \E a \in Handlers \cup {Main} : At(a, "load") /\ s \in act[a].todo
NetOk ==
  /\ \A s \in Ships : net[s] = "wireguard" => Running
  /\ act[RU].at \in {"missing", "store"} => act[RU].snap.net = pier[act[RU].ship].net
  /\ ~killed => \A s \in Ships : Matches(s) \/ Remade(s)

-----------------------------------------------------------------------------
(* Goroutines                                                              *)

LEMMA Who ==
  /\ \A h \in Handlers : h \in Actors /\ h # EL /\ h # RU /\ h # Main
  /\ EL \in Actors /\ RU \in Actors /\ Main \in Actors
  /\ EL # RU /\ EL # Main /\ RU # Main
  /\ Actors = Handlers \cup {EL, RU, Main}
BY RemoteAssumption DEF Actors, EL, RU, Main

LEMMA IdleOf ==
  /\ NoPier \in Piers /\ Idle \in Goroutines
  /\ Idle.at = "idle" /\ Idle.op = "none" /\ Idle.todo = {} /\ Idle.ret = "idle"
  /\ Idle.seen = "none"
BY DEF Idle, NoPier, Goroutines, Piers, Networks, Labels, Seen

Others(a) == \A b \in Actors : b # a => act'[b] = act[b]
Keeps(a) == /\ act'[a].op = act[a].op /\ act'[a].ret = act[a].ret
            /\ act'[a].ship = act[a].ship /\ act'[a].todo = act[a].todo
            /\ act'[a].snap = act[a].snap
Works(a) == act' \in [Actors -> Goroutines] /\ Others(a)

LEMMA Puts ==
  ASSUME Typed, NEW a \in Actors, NEW r \in Goroutines, act' = [act EXCEPT ![a] = r]
  PROVE  Works(a) /\ act'[a] = r
BY DEF Works, Others, Typed

LEMMA GotoDoes ==
  ASSUME Typed, NEW a \in Actors, NEW l \in Labels, Goto(a, l)
  PROVE  Works(a) /\ act'[a].at = l /\ Keeps(a) /\ act'[a].seen = act[a].seen
<1> DEFINE r == [act[a] EXCEPT !.at = l]
<1>1. act[a] \in Goroutines
  BY DEF Typed
<1>2. /\ r \in Goroutines /\ r.at = l /\ r.op = act[a].op /\ r.ret = act[a].ret
      /\ r.ship = act[a].ship /\ r.todo = act[a].todo /\ r.snap = act[a].snap
      /\ r.seen = act[a].seen
  BY <1>1 DEF Goroutines
<1>3. act' = [act EXCEPT ![a] = r]
  BY DEF Goto
<1> HIDE DEF r
<1> QED
  BY <1>2, <1>3, Puts DEF Keeps

LEMMA FinishDoes ==
  ASSUME Typed, NEW a \in Actors, Finish(a)
  PROVE  Works(a) /\ act'[a] = Idle
BY Puts, IdleOf DEF Finish

LEMMA StartContainerDoes ==
  ASSUME Typed, NEW a \in Actors, NEW ret \in {"idle", "known"}, StartContainer(a, ret)
  PROVE  /\ Works(a) /\ act'[a].at = "find" /\ act'[a].ret = ret
         /\ act'[a].op = act[a].op
<1> DEFINE r == [act[a] EXCEPT !.at = "find", !.ret = ret]
<1>1. act[a] \in Goroutines
  BY DEF Typed
<1>2. r \in Goroutines /\ r.at = "find" /\ r.op = act[a].op /\ r.ret = ret
  BY <1>1 DEF Goroutines, Labels
<1>3. act' = [act EXCEPT ![a] = r]
  BY DEF StartContainer
<1> HIDE DEF r
<1> QED
  BY <1>2, <1>3, Puts

\* Where StartContainer, a step of the network handler or a retrieve goes back to.
LEMMA ReturnedDoes ==
  ASSUME Typed, NEW a \in Actors, NEW st \in Seen, Returned(a, st)
  PROVE  /\ Works(a)
         /\ act[a].ret = "idle" => act'[a] = Idle
         /\ act[a].ret # "idle" => Keeps(a) /\ act'[a].at = act[a].ret /\ act'[a].seen = st
<1>1. act[a] \in Goroutines
  BY DEF Typed
<1>2. CASE act[a].ret = "idle"
  BY <1>2, Puts, IdleOf DEF Returned
<1>3. CASE act[a].ret # "idle"
  <2> DEFINE r == [act[a] EXCEPT !.at = act[a].ret, !.seen = st]
  <2>0. act[a].ret \in Labels
    BY <1>1 DEF Goroutines, Labels
  <2>1. /\ r \in Goroutines /\ r.at = act[a].ret /\ r.op = act[a].op /\ r.ret = act[a].ret
        /\ r.ship = act[a].ship /\ r.todo = act[a].todo /\ r.snap = act[a].snap
        /\ r.seen = st
    BY <1>1, <2>0 DEF Goroutines
  <2>2. act' = [act EXCEPT ![a] = r]
    BY <1>3 DEF Returned
  <2> HIDE DEF r
  <2> QED
    BY <1>3, <2>1, <2>2, Puts DEF Keeps
<1> QED
  BY <1>2, <1>3

-----------------------------------------------------------------------------
(* Lanes                                                                   *)

LEMMA IdleLane == Lane(Idle) /\ MainLane(Idle) /\ LoopLane(Idle) /\ RectifyLane(Idle)
BY IdleOf DEF Lane, MainLane, LoopLane, RectifyLane, NetSpots

\* A handler is idle exactly when it has no operation.
LEMMA IdleOp ==
  ASSUME NEW r, Lane(r)
  PROVE  r.at = "idle" <=> r.op = "none"
BY DEF Lane, NetSpots

\* A handler's step, other than one that begins an operation.
LEMMA HandlerBase ==
  ASSUME Base, Typed', NEW h \in Handlers, Others(h), ~At(h, "idle"), Lane(act'[h]),
         act'[h].op = act[h].op \/ act'[h] = Idle,
         bus' = bus \/ act[h].op \in ServerOps
  PROVE  Base'
<1> USE Who
<1>1. Lane(act[h]) /\ act[h].op # "none"
  BY IdleOp DEF Base, Lanes, At
<1>2. \A b \in Actors : b # h => act'[b] = act[b]
  BY DEF Others
<1>3. Lanes'
  BY <1>2 DEF Base, Lanes
<1>4. At(Main, "idle")
  BY DEF Base, Alone
<1>5. Alone'
  <2>1. At(Main, "idle")'
    BY <1>2, <1>4 DEF At
  <2>2. ASSUME NEW g \in Handlers, act'[g].op \in ServerOps, NEW f \in Handlers, f # g
        PROVE  At(f, "idle")'
    <3>1. act[g].op \in ServerOps
      BY <1>2, <2>2, IdleOf DEF ServerOps
    <3>2. At(f, "idle")
      BY <2>2, <3>1 DEF Base, Alone
    <3>3. f # h
      BY <3>2
    <3> QED
      BY <1>2, <3>2, <3>3 DEF At
  <2> QED
    BY <2>1, <2>2 DEF Alone
<1>6. Digest'
  <2>1. CASE bus' = bus
    BY <1>2, <2>1, IdleOf DEF Base, Digest, At, LocalOps
  <2>2. CASE act[h].op \in ServerOps
    <3>1. ASSUME NEW g \in Handlers, g # h
          PROVE  act'[g].op = "none"
      <4>1. At(g, "idle")
        BY <2>2, <3>1 DEF Base, Alone
      <4>2. act[g].op = "none"
        BY <4>1, IdleOp DEF Base, Lanes, At
      <4> QED
        BY <1>2, <3>1, <4>2
    <3>2. act'[h].op \notin LocalOps
      BY <2>2, IdleOf DEF ServerOps, LocalOps
    <3> QED
      BY <3>1, <3>2 DEF Digest, LocalOps
  <2> QED
    BY <2>1, <2>2
<1> QED
  BY <1>3, <1>5, <1>6 DEF Base

\* A step of main or of one of the two loops.
LEMMA LoopBase ==
  ASSUME Base, Typed', NEW a \in {EL, RU, Main}, Others(a),
         a = Main => ~At(Main, "idle") /\ MainLane(act'[Main]),
         a = EL => LoopLane(act'[EL]),
         a = RU => RectifyLane(act'[RU]),
         bus' # <<>> \/ ~At(RU, "idle")' => bus # <<>> \/ ~At(RU, "idle")
  PROVE  Base'
<1> USE Who
<1>1. \A b \in Actors : b # a => act'[b] = act[b]
  BY DEF Others
<1>2. \A h \in Handlers : act'[h] = act[h]
  BY <1>1
<1>3. Lanes'
  BY <1>1, <1>2 DEF Base, Lanes
<1>4. Alone'
  BY <1>1, <1>2 DEF Base, Alone, At
<1>5. Digest'
  BY <1>2 DEF Base, Digest
<1> QED
  BY <1>3, <1>4, <1>5 DEF Base


-----------------------------------------------------------------------------
(* What each step does                                                     *)

\* A goroutine in StartContainer: a handler, the event loop or main.
LEMMA SharedBase ==
  ASSUME Base, Typed', NEW a \in Actors, Others(a), ~At(a, "idle"), bus' = bus,
         a \in Handlers => Lane(act'[a]) /\ (act'[a].op = act[a].op \/ act'[a] = Idle),
         a = Main => MainLane(act'[Main]),
         a = EL => LoopLane(act'[EL]),
         a # RU
  PROVE  Base'
<1>1. CASE a \in Handlers
  BY <1>1, HandlerBase
<1>2. CASE a \in {EL, Main}
  <2>1. act'[RU] = act[RU]
    BY <1>2, Who DEF Others
  <2> QED
    BY <1>2, <2>1, LoopBase, Who DEF At
<1> QED
  BY <1>1, <1>2, Who

LEMMA StartLanes ==
  ASSUME Base, NEW a \in Actors, act[a].at \in {"find", "apply"}
  PROVE  /\ a # RU /\ ~At(a, "idle") /\ act[a] \in Goroutines
         /\ a \in Handlers => /\ act[a].op \in {"toggle", "register"}
                              /\ act[a].op = "toggle" <=> act[a].ret = "idle"
                              /\ act[a].op = "register" <=> act[a].ret = "known"
         /\ a = Main => act[a].ret = "known"
         /\ a = EL => act[a].ret = "announce"
<1>1. a # RU
  BY DEF Base, Lanes, RectifyLane
<1>2. ~At(a, "idle") /\ act[a] \in Goroutines
  BY DEF At, Base, Typed
<1>3. a \in Handlers => Lane(act[a])
  BY DEF Base, Lanes
<1>4. a = Main => act[a].ret = "known"
  BY DEF Base, Lanes, MainLane
<1>5. a = EL => act[a].ret = "announce"
  BY DEF Base, Lanes, LoopLane
<1> QED
  BY <1>1, <1>2, <1>3, <1>4, <1>5 DEF Lane, NetSpots

\* Where StartContainer leaves the one who called it.
Back(a, st) ==
  /\ act[a].ret = "idle" => act'[a] = Idle
  /\ act[a].ret # "idle" => Keeps(a) /\ act'[a].at = act[a].ret /\ act'[a].seen = st

LEMMA BackBase ==
  ASSUME Base, Typed', NEW a \in Actors, At(a, "apply"), Others(a), bus' = bus, NEW st,
         Back(a, st)
  PROVE  Base'
<1>1. act[a].at \in {"find", "apply"}
  BY DEF At
<1>2. a \in Handlers => Lane(act'[a]) /\ (act'[a].op = act[a].op \/ act'[a] = Idle)
  BY <1>1, StartLanes, IdleLane DEF Back, Keeps, Lane, NetSpots
<1>3. a = Main => MainLane(act'[a])
  BY <1>1, StartLanes DEF Back, Keeps, MainLane
<1>4. a = EL => LoopLane(act'[a])
  BY <1>1, StartLanes DEF Back, Keeps, LoopLane
<1> QED
  BY <1>1, <1>2, <1>3, <1>4, StartLanes, SharedBase

LEMMA FindContainerDoes ==
  ASSUME Base, NEW a \in Actors, FindContainer(a)
  PROVE  /\ Base' /\ Others(a) /\ Keeps(a)
         /\ act'[a].at = "apply" /\ act'[a].seen = tunnel.st
<1> DEFINE r == [act[a] EXCEPT !.seen = tunnel.st, !.at = "apply"]
<1>1. act[a].at \in {"find", "apply"} /\ act[a] \in Goroutines /\ tunnel.st \in Seen /\ Typed
  BY DEF FindContainer, At, Base, Typed, Seen
<1>2. /\ r \in Goroutines /\ r.at = "apply" /\ r.op = act[a].op /\ r.ret = act[a].ret
      /\ r.ship = act[a].ship /\ r.todo = act[a].todo /\ r.snap = act[a].snap
      /\ r.seen = tunnel.st
  BY <1>1 DEF Goroutines, Labels
<1>3. act' = [act EXCEPT ![a] = r]
  BY DEF FindContainer
<1> HIDE DEF r
<1>4. Works(a) /\ act'[a].at = "apply" /\ Keeps(a) /\ act'[a].seen = tunnel.st
  BY <1>1, <1>2, <1>3, Puts DEF Keeps
<1>5. Typed' /\ Others(a) /\ bus' = bus
  BY <1>1, <1>4 DEF Typed, FindContainer, dockVars, startramVars, histVars, Works
<1>6. a \in Handlers => Lane(act'[a]) /\ (act'[a].op = act[a].op \/ act'[a] = Idle)
  BY <1>1, <1>4, StartLanes DEF Keeps, Lane, NetSpots
<1>7. a = Main => MainLane(act'[a])
  BY <1>1, <1>4, StartLanes DEF Keeps, MainLane
<1>8. a = EL => LoopLane(act'[a])
  BY <1>1, <1>4, StartLanes DEF Keeps, LoopLane
<1>9. Base'
  BY <1>1, <1>5, <1>6, <1>7, <1>8, SharedBase, StartLanes
<1> QED
  BY <1>4, <1>5, <1>9

LEMMA KeepTunnelDoes ==
  ASSUME Base, NEW a \in Actors, KeepTunnel(a)
  PROVE  Base' /\ Others(a) /\ Back(a, tunnel.st)
<1>1. tunnel.st \in Seen /\ Typed /\ At(a, "apply")
  BY DEF Base, Typed, Seen, KeepTunnel
<1>2. Works(a) /\ Back(a, tunnel.st)
  BY <1>1, ReturnedDoes DEF Back, KeepTunnel
<1>3. Typed' /\ Others(a) /\ bus' = bus
  BY <1>1, <1>2 DEF Typed, KeepTunnel, dockVars, startramVars, histVars, Works
<1> QED
  BY <1>1, <1>2, <1>3, BackBase

\* The tunnel as it starts, and docker's news of it.
LEMMA StartedOf ==
  ASSUME Typed
  PROVE  /\ Started \in [st : {"none", "running", "exited"}, key : KeyPairs \cup {"mixed"}]
         /\ Started.st = "running" /\ Started.key = file
         /\ events \in Seq({"start", "stop", "die"})
         /\ Append(events, "start") \in Seq({"start", "stop", "die"})
         /\ events \o <<"die", "stop">> \in Seq({"start", "stop", "die"})
         /\ events \o <<"die", "start">> \in Seq({"start", "stop", "die"})
<1>1. events \in Seq({"start", "stop", "die"}) /\ file \in KeyPairs \cup {"mixed"}
  BY DEF Typed
<1>2. <<"die", "stop">> \in Seq({"start", "stop", "die"})
      /\ <<"die", "start">> \in Seq({"start", "stop", "die"})
  OBVIOUS
<1> QED
  BY <1>1, <1>2, ConcatProperties, AppendProperties DEF Started

LEMMA LostOf ==
  ASSUME Typed
  PROVE  /\ Lost \in [Ships -> Networks \cup {"none", "created", "lost"}]
         /\ \A s \in Ships : /\ Lost[s] # "wireguard"
                             /\ Lost[s] = "bridge" <=> net[s] = "bridge"
                             /\ Lost[s] = "none" <=> net[s] = "none"
BY DEF Typed, Lost, Networks

LEMMA CreateTunnelDoes ==
  ASSUME Base, NEW a \in Actors, CreateTunnel(a)
  PROVE  Base' /\ Others(a) /\ Back(a, "running")
<1>1. "running" \in Seen /\ Typed /\ At(a, "apply")
  BY DEF Base, Seen, CreateTunnel
<1>2. Works(a) /\ Back(a, "running")
  BY <1>1, ReturnedDoes DEF Back, CreateTunnel
<1>3. Typed' /\ Others(a) /\ bus' = bus
  BY <1>1, <1>2, StartedOf DEF Typed, CreateTunnel, startramVars, histVars, Works
<1> QED
  BY <1>1, <1>2, <1>3, BackBase

LEMMA CreateTunnelFailsDoes ==
  ASSUME Base, NEW a \in Actors, CreateTunnelFails(a)
  PROVE  /\ Base' /\ Others(a)
         /\ act[a].ret = "known" => act'[a] = Idle
         /\ act[a].ret # "known" => Back(a, "none")
<1>1. "none" \in Seen /\ Typed /\ At(a, "apply") /\ act[a].at \in {"find", "apply"}
  BY DEF Base, Seen, CreateTunnelFails, At
<1>2. CASE act[a].ret = "known"
  <2>1. Works(a) /\ act'[a] = Idle
    BY <1>1, <1>2, FinishDoes DEF CreateTunnelFails
  <2>2. Typed' /\ Others(a) /\ bus' = bus
    BY <1>1, <2>1 DEF Typed, CreateTunnelFails, dockVars, startramVars, histVars, Works
  <2>3. Base'
    BY <1>1, <2>1, <2>2, SharedBase, StartLanes, IdleLane
  <2> QED
    BY <1>2, <2>1, <2>2, <2>3
<1>3. CASE act[a].ret # "known"
  <2>1. Works(a) /\ Back(a, "none")
    BY <1>1, <1>3, ReturnedDoes DEF Back, CreateTunnelFails
  <2>2. Typed' /\ Others(a) /\ bus' = bus
    BY <1>1, <2>1 DEF Typed, CreateTunnelFails, dockVars, startramVars, histVars, Works
  <2> QED
    BY <1>1, <1>3, <2>1, <2>2, BackBase
<1> QED
  BY <1>2, <1>3

LEMMA ReplaceTunnelDoes ==
  ASSUME Base, NEW a \in Actors, ReplaceTunnel(a)
  PROVE  Base' /\ Others(a) /\ Back(a, "running")
<1>1. "running" \in Seen /\ Typed /\ At(a, "apply")
  BY DEF Base, Seen, ReplaceTunnel
<1>2. Works(a) /\ Back(a, "running")
  BY <1>1, ReturnedDoes DEF Back, ReplaceTunnel
<1>3. events' \in Seq({"start", "stop", "die"})
  <2>1. CASE Running
    BY <1>1, <2>1, StartedOf DEF ReplaceTunnel
  <2>2. CASE ~Running
    <3>1. events' = events \o <<"start">>
      BY <2>2 DEF ReplaceTunnel
    <3>2. <<"start">> \in Seq({"start", "stop", "die"})
      OBVIOUS
    <3> QED
      BY <1>1, <3>1, <3>2, StartedOf, ConcatProperties
  <2> QED
    BY <2>1, <2>2
<1>4. tunnel' = Started /\ net' = Lost
  BY DEF ReplaceTunnel
<1>5. Typed' /\ Others(a) /\ bus' = bus
  BY <1>1, <1>2, <1>3, <1>4, StartedOf, LostOf DEF Typed, ReplaceTunnel, startramVars, histVars, Works
<1> QED
  BY <1>1, <1>2, <1>5, BackBase


LEMMA WriteWgConfDoes ==
  ASSUME Base, NEW a \in Actors, WriteWgConf(a)
  PROVE  /\ Base' /\ Others(a) /\ a # RU /\ a # EL
         /\ act'[a].at = "find" /\ act'[a].ret = "known" /\ act'[a].op = act[a].op
<1>1. At(a, "wgconf") /\ Typed
  BY DEF WriteWgConf, Base
<1>2. /\ Works(a) /\ act'[a].at = "find" /\ act'[a].ret = "known"
      /\ act'[a].op = act[a].op
  BY <1>1, StartContainerDoes DEF WriteWgConf
<1>3. file' \in KeyPairs \cup {"mixed"}
  BY <1>1 DEF WriteWgConf, Typed
<1>4. Typed' /\ Others(a) /\ bus' = bus
  BY <1>1, <1>2, <1>3 DEF Typed, WriteWgConf, dockVars, startramVars, Works
<1>5. a # RU /\ a # EL /\ ~At(a, "idle")
  BY <1>1 DEF Base, Lanes, RectifyLane, LoopLane, At
<1>6. a \in Handlers => Lane(act'[a])
  BY <1>1, <1>2 DEF Base, Lanes, Lane, At, NetSpots
<1>7. MainLane(act'[a])
  BY <1>2 DEF MainLane
<1>8. Base'
  BY <1>2, <1>4, <1>5, <1>6, <1>7, SharedBase
<1> QED
  BY <1>2, <1>4, <1>5, <1>8

LEMMA AppendBus ==
  ASSUME Typed, NEW x \in {"retrieve", "complete"}
  PROVE  Append(bus, x) \in Seq({"retrieve", "complete"}) /\ Append(bus, x) # <<>>
<1>1. bus \in Seq({"retrieve", "complete"})
  BY DEF Typed
<1>2. Append(bus, x) \in Seq({"retrieve", "complete"}) /\ Len(Append(bus, x)) = Len(bus) + 1
      /\ Len(bus) \in Nat
  BY <1>1, AppendProperties
<1> QED
  BY <1>2

LEMMA StoreStateDoes ==
  ASSUME Base, NEW a \in Actors, StoreState(a)
  PROVE  /\ Base' /\ Others(a)
         /\ a = Main => bus' = bus /\ act'[a].at = "load" /\ act'[a].todo = Ships
         /\ a # Main => /\ a \in Handlers /\ act[a].op = "register"
                        /\ bus' = Append(bus, "complete") /\ act'[a] = Idle
<1>1. At(a, "known") /\ Typed /\ act[a] \in Goroutines
  BY DEF StoreState, Base, Typed
<1>2. a # RU /\ a # EL /\ ~At(a, "idle")
  BY <1>1 DEF Base, Lanes, RectifyLane, LoopLane, At
<1>3. gs' \in [desired : {"unknown", "running", "died"}, actual : Seen]
  BY <1>1 DEF StoreState, Goroutines
<1>4. CASE a = Main
  <2> DEFINE r == [Idle EXCEPT !.at = "load", !.todo = Ships]
  <2>1. r \in Goroutines /\ r.at = "load" /\ r.todo = Ships
    BY IdleOf DEF Goroutines, Labels
  <2>2. act' = [act EXCEPT ![a] = r] /\ bus' = bus
    BY <1>4 DEF StoreState
  <2> HIDE DEF r
  <2>3. Works(a) /\ act'[a].at = "load" /\ act'[a].todo = Ships
    BY <1>1, <2>1, <2>2, Puts
  <2>4. Typed' /\ Others(a)
    BY <1>1, <1>3, <2>2, <2>3 DEF Typed, StoreState, dockVars, histVars, Works
  <2>5. MainLane(act'[a])
    BY <2>3 DEF MainLane
  <2>6. Base'
    BY <1>2, <1>4, <2>2, <2>4, <2>5, SharedBase, Who
  <2> QED
    BY <1>4, <2>2, <2>3, <2>4, <2>6
<1>5. CASE a # Main
  <2>1. a \in Handlers
    BY <1>2, <1>5, Who
  <2>2. act[a].op = "register"
    BY <1>1, <2>1 DEF Base, Lanes, Lane, At, NetSpots
  <2>3. Works(a) /\ act'[a] = Idle /\ bus' = Append(bus, "complete")
    BY <1>1, <1>5, FinishDoes DEF StoreState
  <2>4. bus' \in Seq({"retrieve", "complete"})
    BY <1>1, <2>3, AppendBus
  <2>5. Typed' /\ Others(a)
    BY <1>1, <1>3, <2>3, <2>4 DEF Typed, StoreState, dockVars, histVars, Works
  <2>6. Base'
    BY <1>2, <2>1, <2>2, <2>3, <2>5, HandlerBase, IdleLane DEF ServerOps
  <2> QED
    BY <1>5, <2>1, <2>2, <2>3, <2>5, <2>6
<1> QED
  BY <1>4, <1>5

LEMMA JoinedOf ==
  ASSUME Typed, NEW s \in Ships
  PROVE  /\ Joined(s) \in Networks \cup {"none", "created", "lost"} /\ Joined(s) # "none"
         /\ net[s] # "none" => Joined(s) = net[s]
         /\ net[s] = "none" => (Joined(s) = "bridge" <=> pier[s].net = "bridge")
         /\ Joined(s) = "wireguard" => net[s] = "wireguard" \/ Running
BY DEF Typed, Joined, Networks

LEMMA LoadShipDoes ==
  ASSUME Base, NEW a \in Actors, NEW s \in Ships, LoadShip(a, s)
  PROVE  /\ Base' /\ Others(a) /\ a \in Handlers \cup {Main}
         /\ At(a, "load") /\ act'[a].at \in {"load", "idle"}
         /\ act[a].todo # {s} => /\ act'[a].at = "load" /\ act'[a].todo = act[a].todo \ {s}
                                 /\ act'[a].op = act[a].op
         /\ act[a].todo = {s} => act'[a] = Idle
<1>1. At(a, "load") /\ Typed /\ act[a] \in Goroutines
  BY DEF LoadShip, Base, Typed
<1>2. a # RU /\ a # EL /\ ~At(a, "idle")
  BY <1>1 DEF Base, Lanes, RectifyLane, LoopLane, At
<1>3. net' \in [Ships -> Networks \cup {"none", "created", "lost"}]
  BY <1>1, JoinedOf DEF LoadShip, Typed
<1>4. CASE act[a].todo = {s}
  <2>1. act' = [act EXCEPT ![a] = Idle]
    BY <1>4 DEF LoadShip
  <2>2. Works(a) /\ act'[a] = Idle
    BY <1>1, <2>1, Puts, IdleOf
  <2>3. Typed' /\ Others(a) /\ bus' = bus
    BY <1>1, <1>3, <2>2 DEF Typed, LoadShip, startramVars, histVars, Works
  <2>4. Base'
    BY <1>2, <2>2, <2>3, SharedBase, IdleLane
  <2> QED
    BY <1>1, <1>2, <1>4, <2>2, <2>3, <2>4, Who, IdleOf
<1>5. CASE act[a].todo # {s}
  <2> DEFINE r == [act[a] EXCEPT !.todo = act[a].todo \ {s}]
  <2>1. act' = [act EXCEPT ![a] = r]
    BY <1>5 DEF LoadShip
  <2>2. /\ r \in Goroutines /\ r.at = act[a].at /\ r.op = act[a].op
        /\ r.todo = act[a].todo \ {s}
    BY <1>1 DEF Goroutines
  <2> HIDE DEF r
  <2>3. /\ Works(a) /\ act'[a].at = "load" /\ act'[a].op = act[a].op
        /\ act'[a].todo = act[a].todo \ {s}
    BY <1>1, <2>1, <2>2, Puts DEF At
  <2>4. Typed' /\ Others(a) /\ bus' = bus
    BY <1>1, <1>3, <2>3 DEF Typed, LoadShip, startramVars, histVars, Works
  <2>5. (a \in Handlers => Lane(act'[a])) /\ MainLane(act'[a])
    BY <1>1, <2>3 DEF Base, Lanes, Lane, MainLane, At, NetSpots
  <2>6. Base'
    BY <1>2, <2>3, <2>4, <2>5, SharedBase
  <2> QED
    BY <1>1, <1>2, <1>5, <2>3, <2>4, <2>6, Who
<1> QED
  BY <1>4, <1>5

-----------------------------------------------------------------------------
(* RectifyUrbit and the event loop                                         *)

LEMMA TailBus ==
  ASSUME Typed, bus # <<>>
  PROVE  /\ Tail(bus) \in Seq({"retrieve", "complete"})
         /\ Head(bus) \in {"retrieve", "complete"}
<1>1. bus \in Seq({"retrieve", "complete"})
  BY DEF Typed
<1> QED
  BY <1>1, HeadTailProperties

LEMMA TakeEventDoes ==
  ASSUME Base, TakeEvent
  PROVE  /\ Base' /\ Others(RU) /\ At(RU, "idle") /\ bus # <<>> /\ bus' = Tail(bus)
         /\ Head(bus) = "retrieve" => act'[RU].at = "ship" /\ act'[RU].todo = Ships
         /\ Head(bus) # "retrieve" => act'[RU].at = "complete" /\ act'[RU].seen = gs.actual
<1> USE Who
<1>1. At(RU, "idle") /\ bus # <<>> /\ Typed /\ gs.actual \in Seen /\ conf.endpoint \in Endpoints
  BY DEF TakeEvent, Base, Typed
<1>2. bus' = Tail(bus) /\ bus' \in Seq({"retrieve", "complete"})
  BY <1>1, TailBus DEF TakeEvent
<1>3. CASE Head(bus) = "retrieve"
  <2> DEFINE r == [Idle EXCEPT !.at = "ship", !.todo = Ships, !.root = conf.endpoint]
  <2>1. act' = [act EXCEPT ![RU] = r]
    BY <1>3 DEF TakeEvent
  <2>2. r \in Goroutines /\ r.at = "ship" /\ r.todo = Ships
    BY <1>1, IdleOf DEF Goroutines, Labels
  <2> HIDE DEF r
  <2>3. Works(RU) /\ act'[RU].at = "ship" /\ act'[RU].todo = Ships
    BY <1>1, <2>1, <2>2, Puts
  <2>4. Typed' /\ Others(RU)
    BY <1>1, <1>2, <2>3 DEF Typed, TakeEvent, dockVars, histVars, Works
  <2>5. Base'
    BY <1>1, <2>3, <2>4, LoopBase DEF RectifyLane
  <2> QED
    BY <1>1, <1>2, <1>3, <2>3, <2>4, <2>5
<1>4. CASE Head(bus) # "retrieve"
  <2> DEFINE r == [Idle EXCEPT !.at = "complete", !.seen = gs.actual]
  <2>1. act' = [act EXCEPT ![RU] = r]
    BY <1>4 DEF TakeEvent
  <2>2. r \in Goroutines /\ r.at = "complete" /\ r.seen = gs.actual
    BY <1>1, IdleOf DEF Goroutines, Labels
  <2> HIDE DEF r
  <2>3. Works(RU) /\ act'[RU].at = "complete" /\ act'[RU].seen = gs.actual
    BY <1>1, <2>1, <2>2, Puts
  <2>4. Typed' /\ Others(RU)
    BY <1>1, <1>2, <2>3 DEF Typed, TakeEvent, dockVars, histVars, Works
  <2>5. Base'
    BY <1>1, <2>3, <2>4, LoopBase DEF RectifyLane
  <2> QED
    BY <1>1, <1>2, <1>4, <2>3, <2>4, <2>5
<1> QED
  BY <1>3, <1>4

LEMMA CompleteDoes ==
  ASSUME Base, Complete
  PROVE  Base' /\ Others(RU) /\ At(RU, "complete") /\ act'[RU] = Idle
<1> USE Who
<1>1. At(RU, "complete") /\ ~At(RU, "idle") /\ Typed
  BY DEF Complete, At, Base
<1>2. Works(RU) /\ act'[RU] = Idle
  BY <1>1, FinishDoes DEF Complete
<1>3. conf' \in [on : BOOLEAN, reg : BOOLEAN, endpoint : Endpoints]
  <2> DEFINE b == act[RU].seen = "running"
  <2>1. b \in BOOLEAN /\ (conf' = conf \/ conf' = [conf EXCEPT !.on = b])
    BY DEF Complete
  <2> HIDE DEF b
  <2> QED
    BY <1>1, <2>1 DEF Typed
<1>4. missed' \in BOOLEAN
  BY DEF Complete
<1>5. Typed' /\ Others(RU)
  BY <1>1, <1>2, <1>3, <1>4 DEF Typed, Complete, dockVars, startramVars, Works
<1>6. Base'
  BY <1>1, <1>2, <1>5, LoopBase, IdleLane
<1> QED
  BY <1>1, <1>2, <1>5, <1>6

LEMMA ReadShipDoes ==
  ASSUME Base, NEW s \in Ships, ReadShip(s)
  PROVE  /\ Base' /\ Others(RU) /\ At(RU, "ship") /\ s \in act[RU].todo
         /\ act'[RU].todo = act[RU].todo /\ act'[RU].ship = s
         /\ act'[RU].snap.net = pier[s].net
         /\ act'[RU].at \in {"missing", "store"}
         /\ blob.subs[s] = "none" => act'[RU].at = "missing"
<1> USE Who
<1> DEFINE modified == blob.subs[s] = "ok" /\ pier[s].ports # blob.from
           found == blob.subs[s] # "none" /\ blob.from = act[RU].root
           snap == IF modified THEN [pier[s] EXCEPT !.ports = blob.from] ELSE pier[s]
           seen == IF modified THEN "modified" ELSE "same"
           at == IF found THEN "store" ELSE "missing"
           r == [act[RU] EXCEPT !.ship = s, !.snap = snap, !.seen = seen, !.at = at]
<1>1. /\ At(RU, "ship") /\ ~At(RU, "idle") /\ s \in act[RU].todo /\ Typed
      /\ act[RU] \in Goroutines /\ pier[s] \in Piers
      /\ blob.from \in Endpoints \cup {NoEndpoint}
  BY DEF ReadShip, At, Base, Typed
<1>2. snap \in Piers /\ snap.net = pier[s].net
  <2> DEFINE p == [pier[s] EXCEPT !.ports = blob.from]
  <2>1. p \in Piers /\ p.net = pier[s].net
    BY <1>1 DEF Piers
  <2> QED
    BY <1>1, <2>1
<1>3. /\ seen \in Seen /\ at \in {"missing", "store"} /\ at \in Labels
      /\ blob.subs[s] = "none" => at = "missing"
  BY DEF Seen, Labels
<1>4. act' = [act EXCEPT ![RU] = r]
  BY DEF ReadShip
<1> HIDE DEF snap, seen, at
<1>5. /\ r \in Goroutines /\ r.ship = s /\ r.snap = snap /\ r.at = at
      /\ r.todo = act[RU].todo
  BY <1>1, <1>2, <1>3 DEF Goroutines
<1> HIDE DEF r
<1>6. /\ Works(RU) /\ act'[RU].ship = s /\ act'[RU].snap = snap /\ act'[RU].at = at
      /\ act'[RU].todo = act[RU].todo
  BY <1>1, <1>4, <1>5, Puts
<1>7. Typed' /\ Others(RU) /\ bus' = bus
  BY <1>1, <1>6 DEF Typed, ReadShip, dockVars, startramVars, histVars, Works
<1>8. Base'
  BY <1>1, <1>3, <1>6, <1>7, LoopBase DEF RectifyLane
<1> QED
  BY <1>1, <1>2, <1>3, <1>6, <1>7, <1>8


LEMMA ServiceMade ==
  ASSUME Typed, NEW s \in Ships
  PROVE  /\ SvcCreated(s) \in [Endpoints -> [key : KeyPairs, svc : Subs]]
         /\ \A e \in Endpoints : /\ SvcCreated(s)[e].key = server[e].key
              /\ \A t \in Ships : SvcCreated(s)[e].svc[t] = "none" =>
                   server[e].svc[t] = "none" /\ ~(t = s /\ e = conf.endpoint /\ Served)
<1> DEFINE c == conf.endpoint
           svc == [server[c].svc EXCEPT ![s] = "creating"]
           x == [server[c] EXCEPT !.svc = svc]
<1>1. /\ c \in Endpoints /\ server \in [Endpoints -> [key : KeyPairs, svc : Subs]]
      /\ server[c] \in [key : KeyPairs, svc : Subs] /\ server[c].svc \in Subs
  BY DEF Typed
<1>2. CASE Served /\ server[c].svc[s] = "none"
  <2>1. SvcCreated(s) = [server EXCEPT ![c] = x]
    BY <1>2 DEF SvcCreated
  <2>2. svc \in Subs /\ svc[s] = "creating" /\ \A t \in Ships \ {s} : svc[t] = server[c].svc[t]
    BY <1>1 DEF Subs, Statuses
  <2> HIDE DEF svc
  <2>3. x \in [key : KeyPairs, svc : Subs] /\ x.key = server[c].key /\ x.svc = svc
    BY <1>1, <2>2
  <2> HIDE DEF x, c
  <2>4. SvcCreated(s) \in [Endpoints -> [key : KeyPairs, svc : Subs]] /\ SvcCreated(s)[c] = x
        /\ \A e \in Endpoints : e # c => SvcCreated(s)[e] = server[e]
    BY <1>1, <2>1, <2>3
  <2> QED
    BY <1>1, <2>2, <2>3, <2>4 DEF c
<1>3. CASE ~(Served /\ server[c].svc[s] = "none")
  BY <1>1, <1>3 DEF SvcCreated
<1> QED
  BY <1>2, <1>3

LEMMA CreateMissingDoes ==
  ASSUME Base, CreateMissing
  PROVE  /\ Base' /\ Others(RU) /\ Keeps(RU) /\ At(RU, "missing") /\ act'[RU].at = "store"
         /\ act[RU].ship \in act[RU].todo /\ act[RU].ship \in Ships
<1> USE Who
<1>1. /\ At(RU, "missing") /\ ~At(RU, "idle") /\ Typed /\ act[RU] \in Goroutines
      /\ act[RU].ship \in act[RU].todo
  BY DEF CreateMissing, At, Base, Typed, Lanes, RectifyLane
<1>2. act[RU].ship \in Ships
  BY <1>1 DEF Goroutines
<1>3. Works(RU) /\ act'[RU].at = "store" /\ Keeps(RU)
  BY <1>1, GotoDoes DEF CreateMissing, Labels
<1>4. server' \in [Endpoints -> [key : KeyPairs, svc : Subs]]
  BY <1>1, <1>2, ServiceMade DEF CreateMissing
<1>5. Typed' /\ Others(RU) /\ bus' = bus
  BY <1>1, <1>3, <1>4 DEF Typed, CreateMissing, dockVars, histVars, Works
<1>6. Base'
  BY <1>1, <1>3, <1>5, LoopBase DEF RectifyLane, Keeps
<1> QED
  BY <1>1, <1>2, <1>3, <1>5, <1>6

LEMMA StoreShipDoes ==
  ASSUME Base, StoreShip
  PROVE  /\ Base' /\ Others(RU) /\ At(RU, "store") /\ act[RU].ship \in Ships
         /\ pier' = pier \/ pier' = [pier EXCEPT ![act[RU].ship] = act[RU].snap]
         /\ act[RU].todo = {act[RU].ship} => act'[RU] = Idle
         /\ act[RU].todo # {act[RU].ship} =>
              act'[RU].at = "ship" /\ act'[RU].todo = act[RU].todo \ {act[RU].ship}
<1> USE Who
<1> DEFINE s == act[RU].ship
<1>1. /\ At(RU, "store") /\ ~At(RU, "idle") /\ Typed /\ act[RU] \in Goroutines
      /\ act[RU].ship \in act[RU].todo
  BY DEF StoreShip, At, Base, Typed, Lanes, RectifyLane
<1>2. s \in Ships /\ act[RU].snap \in Piers /\ act[RU].root \in Endpoints \cup {NoEndpoint}
      /\ act[RU].todo \subseteq Ships
  BY <1>1 DEF Goroutines
<1>3. pier' = pier \/ pier' = [pier EXCEPT ![s] = act[RU].snap]
  BY DEF StoreShip
<1>4. pier' \in [Ships -> Piers]
  BY <1>1, <1>2, <1>3 DEF Typed
<1>5. CASE act[RU].todo = {s}
  <2>1. act' = [act EXCEPT ![RU] = Idle]
    BY <1>5 DEF StoreShip
  <2>2. Works(RU) /\ act'[RU] = Idle
    BY <1>1, <2>1, Puts, IdleOf
  <2>3. Typed' /\ Others(RU) /\ bus' = bus
    BY <1>1, <1>4, <2>2 DEF Typed, StoreShip, dockVars, startramVars, histVars, Works
  <2>4. Base'
    BY <1>1, <2>2, <2>3, LoopBase, IdleLane
  <2> QED
    BY <1>1, <1>2, <1>3, <1>5, <2>2, <2>3, <2>4
<1>6. CASE act[RU].todo # {s}
  <2> DEFINE r == [Idle EXCEPT !.at = "ship", !.todo = act[RU].todo \ {s},
                               !.root = act[RU].root]
  <2>1. act' = [act EXCEPT ![RU] = r]
    BY <1>6 DEF StoreShip
  <2>2. r \in Goroutines /\ r.at = "ship" /\ r.todo = act[RU].todo \ {s}
    BY <1>2, IdleOf DEF Goroutines, Labels
  <2> HIDE DEF r
  <2>3. Works(RU) /\ act'[RU].at = "ship" /\ act'[RU].todo = act[RU].todo \ {s}
    BY <1>1, <2>1, <2>2, Puts
  <2>4. Typed' /\ Others(RU) /\ bus' = bus
    BY <1>1, <1>4, <2>3 DEF Typed, StoreShip, dockVars, startramVars, histVars, Works
  <2>5. Base'
    BY <1>1, <2>3, <2>4, LoopBase DEF RectifyLane
  <2> QED
    BY <1>1, <1>2, <1>3, <1>6, <2>3, <2>4, <2>5
<1> QED
  BY <1>5, <1>6

LEMMA TakeDockerEventDoes ==
  ASSUME Base, TakeDockerEvent
  PROVE  /\ Base' /\ Others(EL) /\ At(EL, "idle") /\ events # <<>> /\ events' = Tail(events)
         /\ gs = Unknown => /\ act'[EL] = Idle /\ missed' = TRUE /\ UNCHANGED <<gs, conf>>
         /\ gs # Unknown =>
              /\ missed' = missed
              /\ \/ /\ Head(events) = "stop"
                    /\ gs' = [gs EXCEPT !.actual = "stopped"] /\ conf' = conf
                    /\ act'[EL].at = "find"
                 \/ /\ Head(events) = "start"
                    /\ gs' = [gs EXCEPT !.actual = "running"]
                    /\ conf' = [conf EXCEPT !.on = TRUE]
                    /\ act'[EL].at = "announce" /\ act'[EL].seen = "start"
                 \/ /\ Head(events) = "die" /\ gs' = [desired |-> "died", actual |-> "died"]
                    /\ conf' = conf
                    /\ act'[EL].at = "announce" /\ act'[EL].seen = "die"
<1> USE Who
<1> DEFINE e == Head(events)
<1>1. /\ At(EL, "idle") /\ events # <<>> /\ Typed /\ events' = Tail(events)
      /\ events \in Seq({"start", "stop", "die"})
      /\ conf \in [on : BOOLEAN, reg : BOOLEAN, endpoint : Endpoints]
      /\ gs \in [desired : {"unknown", "running", "died"}, actual : Seen]
  BY DEF TakeDockerEvent, Base, Typed
<1>2. e \in {"start", "stop", "die"} /\ events' \in Seq({"start", "stop", "die"})
  BY <1>1, HeadTailProperties
<1>3. bus' = bus /\ At(EL, "idle")
  BY <1>1 DEF TakeDockerEvent, startramVars
<1>4. ASSUME Works(EL), gs' \in [desired : {"unknown", "running", "died"}, actual : Seen],
             conf' \in [on : BOOLEAN, reg : BOOLEAN, endpoint : Endpoints],
             LoopLane(act'[EL]), missed' \in BOOLEAN
      PROVE  Base' /\ Others(EL)
  <2>1. Typed'
    BY <1>1, <1>2, <1>4 DEF Typed, TakeDockerEvent, startramVars, Works
  <2>2. Others(EL) /\ act'[RU] = act[RU]
    BY <1>4 DEF Works, Others
  <2>3. Base'
    BY <1>3, <1>4, <2>1, <2>2, LoopBase DEF At
  <2> QED
    BY <2>2, <2>3
<1>5. CASE gs = Unknown
  <2>1. gs' = gs /\ conf' = conf /\ act' = [act EXCEPT ![EL] = Idle] /\ missed' = TRUE
    BY <1>5 DEF TakeDockerEvent
  <2>2. Works(EL) /\ act'[EL] = Idle
    BY <1>1, <2>1, Puts, IdleOf
  <2>3. Base' /\ Others(EL)
    BY <1>1, <1>4, <2>1, <2>2, IdleLane
  <2> QED
    BY <1>1, <1>5, <2>1, <2>2, <2>3
<1>6. CASE gs # Unknown
  <2>1. missed' = missed /\ missed' \in BOOLEAN
    BY <1>1, <1>6 DEF TakeDockerEvent, Typed
  <2>2. ASSUME NEW x \in {"start", "stop", "die"},
               act' = [act EXCEPT ![EL] = [Idle EXCEPT !.at = "announce", !.seen = x]]
        PROVE  Works(EL) /\ act'[EL].at = "announce" /\ act'[EL].seen = x /\ LoopLane(act'[EL])
    <3> DEFINE r == [Idle EXCEPT !.at = "announce", !.seen = x]
    <3>1. r \in Goroutines /\ r.at = "announce" /\ r.seen = x
      BY IdleOf DEF Goroutines, Labels, Seen
    <3> HIDE DEF r
    <3> QED
      BY <1>1, <2>2, <3>1, Puts DEF LoopLane, r
  <2>3. CASE e = "stop"
    <3> DEFINE g == [gs EXCEPT !.actual = "stopped"]
    <3>1. gs' = g /\ conf' = conf
      BY <1>6, <2>3 DEF TakeDockerEvent
    <3>2. g \in [desired : {"unknown", "running", "died"}, actual : Seen]
      BY <1>1 DEF Seen
    <3>3. CASE gs'.desired # "stopped"
      <4> DEFINE r == [Idle EXCEPT !.at = "find", !.ret = "announce"]
      <4>1. act' = [act EXCEPT ![EL] = r]
        BY <1>1, <1>6, <2>3, <3>1, <3>3 DEF TakeDockerEvent
      <4>2. r \in Goroutines /\ r.at = "find" /\ r.ret = "announce"
        BY IdleOf DEF Goroutines, Labels
      <4> HIDE DEF r
      <4>3. Works(EL) /\ act'[EL].at = "find" /\ LoopLane(act'[EL])
        BY <1>1, <4>1, <4>2, Puts DEF LoopLane
      <4>4. Base' /\ Others(EL)
        BY <1>1, <1>4, <2>1, <3>1, <3>2, <4>3
      <4> QED
        BY <1>1, <1>6, <2>1, <2>3, <3>1, <4>3, <4>4
    <3>4. CASE gs'.desired = "stopped"
      <4>1. FALSE
        BY <3>1, <3>2, <3>4
      <4> QED
        BY <4>1
    <3> QED
      BY <3>3, <3>4
  <2>4. CASE e = "start"
    <3> DEFINE g == [gs EXCEPT !.actual = "running"]
               c == [conf EXCEPT !.on = TRUE]
    <3>1. gs' = g /\ conf' = c
          /\ act' = [act EXCEPT ![EL] = [Idle EXCEPT !.at = "announce", !.seen = "start"]]
      BY <1>6, <2>4 DEF TakeDockerEvent
    <3>2. g \in [desired : {"unknown", "running", "died"}, actual : Seen]
          /\ c \in [on : BOOLEAN, reg : BOOLEAN, endpoint : Endpoints]
      BY <1>1 DEF Seen
    <3>3. Works(EL) /\ act'[EL].at = "announce" /\ act'[EL].seen = "start" /\ LoopLane(act'[EL])
      BY <2>2, <3>1
    <3>4. Base' /\ Others(EL)
      BY <1>4, <2>1, <3>1, <3>2, <3>3
    <3> QED
      BY <1>1, <1>6, <2>1, <2>4, <3>1, <3>3, <3>4
  <2>5. CASE e = "die"
    <3>1. gs' = [desired |-> "died", actual |-> "died"] /\ conf' = conf
          /\ act' = [act EXCEPT ![EL] = [Idle EXCEPT !.at = "announce", !.seen = "die"]]
      BY <1>6, <2>5 DEF TakeDockerEvent
    <3>2. gs' \in [desired : {"unknown", "running", "died"}, actual : Seen]
      BY <3>1 DEF Seen
    <3>3. Works(EL) /\ act'[EL].at = "announce" /\ act'[EL].seen = "die" /\ LoopLane(act'[EL])
      BY <2>2, <3>1
    <3>4. Base' /\ Others(EL)
      BY <1>1, <1>4, <2>1, <3>1, <3>2, <3>3
    <3> QED
      BY <1>1, <1>6, <2>1, <2>5, <3>1, <3>3, <3>4
  <2> QED
    BY <1>2, <2>3, <2>4, <2>5
<1> QED
  BY <1>5, <1>6

LEMMA MakeBroadcastDoes ==
  ASSUME Base, MakeBroadcast
  PROVE  /\ Base' /\ Others(EL) /\ At(EL, "announce") /\ act'[EL] = Idle
         /\ conf'.on = (act[EL].seen = "start")
         /\ conf'.reg = conf.reg /\ conf'.endpoint = conf.endpoint
<1> USE Who
<1> DEFINE b == act[EL].seen = "start"
           c == [conf EXCEPT !.on = b]
<1>1. /\ At(EL, "announce") /\ ~At(EL, "idle") /\ Typed
      /\ conf \in [on : BOOLEAN, reg : BOOLEAN, endpoint : Endpoints]
  BY DEF MakeBroadcast, At, Base, Typed
<1>2. Works(EL) /\ act'[EL] = Idle
  BY <1>1, FinishDoes DEF MakeBroadcast
<1>3. b \in BOOLEAN /\ conf' = c
  BY DEF MakeBroadcast
<1> HIDE DEF b
<1>4. /\ conf' \in [on : BOOLEAN, reg : BOOLEAN, endpoint : Endpoints]
      /\ conf'.on = b /\ conf'.reg = conf.reg /\ conf'.endpoint = conf.endpoint
  BY <1>1, <1>3
<1>5. Typed' /\ Others(EL) /\ bus' = bus
  BY <1>1, <1>2, <1>4 DEF Typed, MakeBroadcast, dockVars, startramVars, Works
<1>6. act'[RU] = act[RU]
  BY <1>5 DEF Others
<1>7. Base'
  BY <1>1, <1>2, <1>5, <1>6, LoopBase, IdleLane DEF At
<1> QED
  BY <1>1, <1>2, <1>4, <1>5, <1>7 DEF b


-----------------------------------------------------------------------------
(* Handlers                                                                *)

LEMMA BeginDoes ==
  ASSUME Base, NEW h \in Handlers, Begin(h)
  PROVE  /\ Base' /\ Others(h) /\ At(h, "idle")
         /\ At(Main, "idle") /\ At(RU, "idle") /\ bus = <<>>
         /\ act'[h].op \in ServerOps => Settled
         /\ act'[h].at \in {"on", "off", "rstop", "network", "rkey", "estop", "delete"}
<1> USE Who
<1>1. PICK op \in Ops : /\ MayBegin(op)
                        /\ \E e \in Entries(op) : act' = [act EXCEPT ![h] = [e EXCEPT !.op = op]]
  BY DEF Begin
<1>2. PICK e \in Entries(op) : act' = [act EXCEPT ![h] = [e EXCEPT !.op = op]]
  BY <1>1
<1>3. op \in ServerOps \cup LocalOps /\ Typed /\ At(h, "idle")
  BY RemoteAssumption DEF Base, Begin
<1> DEFINE r == [e EXCEPT !.op = op]
           Good == /\ r \in Goroutines /\ r.op = op /\ Lane(r)
                   /\ r.at \in {"on", "off", "rstop", "network", "rkey", "estop", "delete"}
<1>4. Good
  <2> DEFINE G(x) == /\ x \in Goroutines /\ x.ret = "idle"
  <2>1. ASSUME NEW l \in Labels, NEW t \in SUBSET Ships, e = [Idle EXCEPT !.at = l, !.todo = t]
        PROVE  /\ r \in Goroutines /\ r.at = l /\ r.op = op /\ r.ret = "idle"
    <3>1. e \in Goroutines /\ e.at = l /\ e.ret = "idle"
      BY <2>1, IdleOf DEF Goroutines
    <3> QED
      BY <1>3, <3>1 DEF Goroutines
  <2>2. CASE op = "toggle"
    <3>1. PICK l \in {"on", "off"} : e = [Idle EXCEPT !.at = l, !.todo = Ships]
      BY <1>2, <2>2 DEF Entries
    <3>2. l \in Labels /\ Ships \in SUBSET Ships
      BY DEF Labels
    <3>3. r \in Goroutines /\ r.at = l /\ r.op = op
      BY <2>1, <3>1, <3>2
    <3> QED
      BY <2>2, <3>3 DEF Lane, NetSpots
  <2>3. CASE op = "restart"
    <3>1. e = [Idle EXCEPT !.at = "rstop", !.todo = RemoteShips] /\ RemoteShips \in SUBSET Ships
      BY <1>2, <2>3 DEF Entries, RemoteShips
    <3>2. r \in Goroutines /\ r.at = "rstop" /\ r.op = op
      BY <2>1, <3>1 DEF Labels
    <3> QED
      BY <2>3, <3>2 DEF Lane, NetSpots
  <2>4. CASE op = "toggle-network"
    <3>1. PICK s \in Ships : e = [Idle EXCEPT !.at = "network", !.ship = s]
      BY <1>2, <2>4 DEF Entries
    <3>2. e \in Goroutines /\ e.at = "network" /\ e.ret = "idle" /\ e.ship = s
      BY <3>1, IdleOf DEF Goroutines, Labels
    <3>3. r \in Goroutines /\ r.at = "network" /\ r.op = op /\ r.ret = "idle" /\ r.ship = s
      BY <1>3, <3>2 DEF Goroutines
    <3> QED
      BY <2>4, <3>3 DEF Lane, NetSpots
  <2>5. CASE op = "register"
    <3>1. e = [Idle EXCEPT !.at = "rkey"]
      BY <1>2, <2>5 DEF Entries
    <3>2. e \in Goroutines /\ e.at = "rkey"
      BY <3>1, IdleOf DEF Goroutines, Labels
    <3>3. r \in Goroutines /\ r.at = "rkey" /\ r.op = op
      BY <1>3, <3>2 DEF Goroutines
    <3> QED
      BY <2>5, <3>3 DEF Lane, NetSpots
  <2>6. CASE op = "endpoint"
    <3>1. PICK l \in {"estop", "delete"}, t \in {Ships, {}} :
            e = [Idle EXCEPT !.at = l, !.todo = t]
      BY <1>2, <2>6 DEF Entries
    <3>2. r \in Goroutines /\ r.at = l /\ r.op = op
      BY <2>1, <3>1 DEF Labels
    <3> QED
      BY <2>6, <3>1, <3>2 DEF Lane, NetSpots
  <2>7. CASE op = "cancel"
    <3>1. PICK t \in {{}, {s \in Ships : blob.subs[s] # "none"}} :
            e = [Idle EXCEPT !.at = "delete", !.todo = t]
      BY <1>2, <2>7 DEF Entries
    <3>2. r \in Goroutines /\ r.at = "delete" /\ r.op = op
      BY <2>1, <3>1 DEF Labels
    <3> QED
      BY <2>7, <3>2 DEF Lane, NetSpots
  <2> QED
    BY <1>3, <2>2, <2>3, <2>4, <2>5, <2>6, <2>7 DEF ServerOps, LocalOps
<1>5. act' = [act EXCEPT ![h] = r]
  BY <1>2
<1> HIDE DEF r
<1>6. Works(h) /\ act'[h] = r
  BY <1>3, <1>4, <1>5, Puts
<1>7. Typed' /\ Others(h) /\ bus' = bus
  BY <1>3, <1>6 DEF Typed, Begin, dockVars, startramVars, histVars, Works
<1>8. /\ At(Main, "idle") /\ At(RU, "idle") /\ bus = <<>>
      /\ \A g \in Handlers : act[g].op \notin ServerOps
      /\ op \in ServerOps => Settled
  BY <1>1 DEF MayBegin
<1>9. \A b \in Actors : b # h => act'[b] = act[b]
  BY <1>7 DEF Others
<1>10. Lanes'
  BY <1>4, <1>6, <1>9 DEF Base, Lanes
<1>11. Alone'
  <2>1. At(Main, "idle")'
    BY <1>8, <1>9 DEF At
  <2>2. ASSUME NEW g \in Handlers, act'[g].op \in ServerOps, NEW f \in Handlers, f # g
        PROVE  At(f, "idle")'
    <3>1. g = h
      BY <1>8, <1>9, <2>2
    <3>2. Settled
      BY <1>4, <1>6, <1>8, <2>2, <3>1
    <3> QED
      BY <1>9, <2>2, <3>1, <3>2 DEF Settled, At
  <2> QED
    BY <2>1, <2>2 DEF Alone
<1>12. Digest'
  BY <1>7, <1>8, <1>9 DEF Digest, At
<1>13. Base'
  BY <1>7, <1>10, <1>11, <1>12 DEF Base
<1> QED
  BY <1>3, <1>4, <1>6, <1>7, <1>8, <1>13

\* The operation that a label belongs to.
LEMMA LaneOf ==
  ASSUME Base, NEW h \in Handlers
  PROVE  /\ h \in Actors /\ act[h] \in Goroutines /\ Typed
         /\ act[h].op \in {"none"} \cup ServerOps \cup LocalOps
         /\ act[h].at \in NetSpots =>
              /\ act[h].ship \in Ships
              /\ \/ act[h].op = "toggle-network" /\ act[h].ret = "idle"
                 \/ act[h].op = "toggle" /\ act[h].ret = "ships"
         /\ act[h].at \in {"on", "off", "stop", "ships"} => act[h].op = "toggle"
         /\ act[h].at \in {"rstop", "rstart", "drop", "load"} => act[h].op = "restart"
         /\ act[h].at \in {"rkey", "post", "create", "poll", "wgconf", "known"} =>
              act[h].op = "register"
         /\ act[h].at = "get" =>
              \/ act[h].op = "register" /\ act[h].ret = "create"
              \/ act[h].op \in {"endpoint", "cancel"} /\ act[h].ret = "delete"
         /\ act[h].at \in {"estop", "ekey", "set"} => act[h].op = "endpoint"
         /\ act[h].at \in {"cancel", "ckey"} => act[h].op = "cancel"
         /\ act[h].at = "delete" => act[h].op \in {"endpoint", "cancel"}
<1>1. Lane(act[h]) /\ act[h] \in Goroutines /\ Typed /\ h \in Actors
  BY Who DEF Base, Lanes, Typed
<1>2. act[h].op \in {"none"} \cup ServerOps \cup LocalOps
  BY <1>1 DEF Goroutines
<1>3. /\ act[h].at \in NetSpots =>
           /\ act[h].ship \in Ships
           /\ \/ act[h].op = "toggle-network" /\ act[h].ret = "idle"
              \/ act[h].op = "toggle" /\ act[h].ret = "ships"
      /\ act[h].at \in {"on", "off", "stop", "ships"} => act[h].op = "toggle"
      /\ act[h].at \in {"rstop", "rstart", "drop", "load"} => act[h].op = "restart"
  BY <1>1 DEF Lane, NetSpots
<1>4. /\ act[h].at \in {"rkey", "post", "create", "poll", "wgconf", "known"} =>
           act[h].op = "register"
      /\ act[h].at = "get" =>
           \/ act[h].op = "register" /\ act[h].ret = "create"
           \/ act[h].op \in {"endpoint", "cancel"} /\ act[h].ret = "delete"
      /\ act[h].at \in {"estop", "ekey", "set"} => act[h].op = "endpoint"
      /\ act[h].at \in {"cancel", "ckey"} => act[h].op = "cancel"
      /\ act[h].at = "delete" => act[h].op \in {"endpoint", "cancel"}
  BY <1>1 DEF Lane, NetSpots
<1> QED
  BY <1>1, <1>2, <1>3, <1>4

LEMMA ReadNetworkDoes ==
  ASSUME Base, NEW h \in Handlers, ReadNetwork(h)
  PROVE  /\ Base' /\ Others(h) /\ At(h, "network") /\ act[h].op \in LocalOps
         /\ act'[h].at \in {"idle", "ships", "nstore"}
<1>0. h \in Actors /\ act[h] \in Goroutines /\ Typed
  BY LaneOf
<1>1. At(h, "network") /\ ~At(h, "idle") /\ act[h].at \in NetSpots
  BY DEF ReadNetwork, At, NetSpots
<1>1a. act[h].ret = "idle" \/ (act[h].op = "toggle" /\ act[h].ret = "ships")
  BY <1>1, LaneOf
<1>2. act[h].op \in LocalOps
  BY <1>1, LaneOf DEF LocalOps
<1> DEFINE now == pier[act[h].ship]
           new == IF now.net = "wireguard" THEN "bridge" ELSE "wireguard"
<1>3. now \in Piers /\ new \in Networks
  BY <1>0, <1>1, LaneOf DEF Typed, Networks
<1>4. CASE new = "bridge" \/ conf.reg
  <2> DEFINE snap == [now EXCEPT !.net = new]
             r == [act[h] EXCEPT !.snap = snap, !.at = "nstore"]
  <2>1. act' = [act EXCEPT ![h].snap = snap, ![h].at = "nstore"]
    BY <1>4 DEF ReadNetwork
  <2>2. snap \in Piers
    BY <1>3 DEF Piers
  <2> HIDE DEF snap
  <2>3. act' = [act EXCEPT ![h] = r]
    BY <2>1
  <2>4. /\ r \in Goroutines /\ r.at = "nstore" /\ r.op = act[h].op /\ r.ret = act[h].ret
        /\ r.ship = act[h].ship
    BY <1>0, <2>2 DEF Goroutines, Labels
  <2> HIDE DEF r
  <2>5. Works(h) /\ act'[h] = r
    BY <2>3, <2>4, Puts, LaneOf
  <2>6. Typed' /\ Others(h) /\ bus' = bus
    BY <2>5, <1>0 DEF Typed, ReadNetwork, dockVars, startramVars, histVars, Works
  <2>7. Lane(act'[h])
    BY <1>1, <2>4, <2>5, LaneOf DEF Lane, NetSpots
  <2>8. Base'
    BY <1>1, <2>4, <2>5, <2>6, <2>7, HandlerBase
  <2> QED
    BY <1>1, <1>2, <2>4, <2>5, <2>6, <2>8
<1>5. CASE ~(new = "bridge" \/ conf.reg)
  <2>1. Returned(h, "none")
    BY <1>5 DEF ReadNetwork
  <2>2. "none" \in Seen
    BY DEF Seen
  <2>3. /\ Works(h)
        /\ act[h].ret = "idle" => act'[h] = Idle
        /\ act[h].ret # "idle" => Keeps(h) /\ act'[h].at = act[h].ret
    BY <2>1, <2>2, ReturnedDoes, LaneOf
  <2>4. Typed' /\ Others(h) /\ bus' = bus
    BY <2>3, <1>0 DEF Typed, ReadNetwork, dockVars, startramVars, histVars, Works
  <2>5. /\ act'[h] = Idle \/ (act[h].op = "toggle" /\ act'[h].op = "toggle" /\ act'[h].at = "ships")
    BY <1>1, <1>1a, <2>3 DEF Keeps
  <2>6. Lane(act'[h]) /\ (act'[h].op = act[h].op \/ act'[h] = Idle)
    BY <2>5, IdleLane DEF Lane, NetSpots
  <2>7. Base'
    BY <1>1, <2>4, <2>6, HandlerBase
  <2> QED
    BY <1>1, <1>2, <2>4, <2>5, <2>7, IdleOf
<1> QED
  BY <1>4, <1>5

LEMMA StoreNetworkDoes ==
  ASSUME Base, NEW h \in Handlers, StoreNetwork(h)
  PROVE  /\ Base' /\ Others(h) /\ Keeps(h) /\ At(h, "nstore") /\ act[h].op \in LocalOps
         /\ act[h].ship \in Ships /\ act'[h].at = "ndelete"
<1>0. h \in Actors /\ act[h] \in Goroutines /\ Typed
  BY LaneOf
<1>1. At(h, "nstore") /\ ~At(h, "idle") /\ act[h].at \in NetSpots
  BY DEF StoreNetwork, At, NetSpots
<1>2. act[h].op \in LocalOps /\ act[h].ship \in Ships
  BY <1>1, LaneOf DEF LocalOps
<1>3. Works(h) /\ act'[h].at = "ndelete" /\ Keeps(h)
  BY GotoDoes, LaneOf DEF StoreNetwork, Labels
<1>4. act[h].snap \in Piers
  BY LaneOf DEF Goroutines
<1>5. pier' \in [Ships -> Piers]
  BY <1>4, <1>0 DEF StoreNetwork, Typed
<1>6. Typed' /\ Others(h) /\ bus' = bus
  BY <1>3, <1>5, <1>0 DEF Typed, StoreNetwork, dockVars, startramVars, histVars, Works
<1>7. Lane(act'[h]) /\ act'[h].op = act[h].op
  BY <1>1, <1>3, LaneOf DEF Lane, NetSpots, Keeps
<1>8. Base'
  BY <1>1, <1>6, <1>7, HandlerBase
<1> QED
  BY <1>1, <1>2, <1>3, <1>6, <1>8

LEMMA DeleteShipDoes ==
  ASSUME Base, NEW h \in Handlers, DeleteShip(h)
  PROVE  /\ Base' /\ Others(h) /\ Keeps(h) /\ At(h, "ndelete") /\ act[h].op \in LocalOps
         /\ act[h].ship \in Ships /\ act'[h].at = "nstart"
<1>0. h \in Actors /\ act[h] \in Goroutines /\ Typed
  BY LaneOf
<1>1. At(h, "ndelete") /\ ~At(h, "idle") /\ act[h].at \in NetSpots
  BY DEF DeleteShip, At, NetSpots
<1>2. act[h].op \in LocalOps /\ act[h].ship \in Ships
  BY <1>1, LaneOf DEF LocalOps
<1>3. Works(h) /\ act'[h].at = "nstart" /\ Keeps(h)
  BY GotoDoes, LaneOf DEF DeleteShip, Labels
<1>4. net' \in [Ships -> Networks \cup {"none", "created", "lost"}]
  BY <1>0 DEF DeleteShip, Typed
<1>5. Typed' /\ Others(h) /\ bus' = bus
  BY <1>3, <1>4, <1>0 DEF Typed, DeleteShip, startramVars, histVars, Works
<1>6. Lane(act'[h]) /\ act'[h].op = act[h].op
  BY <1>1, <1>3, LaneOf DEF Lane, NetSpots, Keeps
<1>7. Base'
  BY <1>1, <1>5, <1>6, HandlerBase
<1> QED
  BY <1>1, <1>2, <1>3, <1>5, <1>7

LEMMA StartShipDoes ==
  ASSUME Base, NEW h \in Handlers, StartShip(h)
  PROVE  /\ Base' /\ Others(h) /\ At(h, "nstart") /\ act[h].op \in LocalOps
         /\ act[h].ship \in Ships /\ act'[h].at \in {"idle", "ships"}
<1>0. h \in Actors /\ act[h] \in Goroutines /\ Typed
  BY LaneOf
<1>1. At(h, "nstart") /\ ~At(h, "idle") /\ act[h].at \in NetSpots
  BY DEF StartShip, At, NetSpots
<1>1a. act[h].ret = "idle" \/ (act[h].op = "toggle" /\ act[h].ret = "ships")
  BY <1>1, LaneOf
<1>2. act[h].op \in LocalOps /\ act[h].ship \in Ships
  BY <1>1, LaneOf DEF LocalOps
<1>3. "none" \in Seen
  BY DEF Seen
<1>4. /\ Works(h)
      /\ act[h].ret = "idle" => act'[h] = Idle
      /\ act[h].ret # "idle" => Keeps(h) /\ act'[h].at = act[h].ret
  BY <1>3, ReturnedDoes, LaneOf DEF StartShip
<1>5. act'[h] = Idle \/ (act[h].op = "toggle" /\ act'[h].op = "toggle" /\ act'[h].at = "ships")
  BY <1>1, <1>1a, <1>4 DEF Keeps
<1>6. net' \in [Ships -> Networks \cup {"none", "created", "lost"}]
  BY <1>2, JoinedOf, <1>0 DEF StartShip, Typed
<1>7. Typed' /\ Others(h) /\ bus' = bus
  BY <1>4, <1>6, <1>0 DEF Typed, StartShip, startramVars, histVars, Works
<1>8. Lane(act'[h]) /\ (act'[h].op = act[h].op \/ act'[h] = Idle)
  BY <1>5, IdleLane DEF Lane, NetSpots
<1>9. Base'
  BY <1>1, <1>7, <1>8, HandlerBase
<1> QED
  BY <1>1, <1>2, <1>5, <1>7, <1>9, IdleOf


Confs == [on : BOOLEAN, reg : BOOLEAN, endpoint : Endpoints]

LEMMA SwitchTo ==
  ASSUME Typed, NEW b \in BOOLEAN, conf' = [conf EXCEPT !.on = b]
  PROVE  conf' \in Confs /\ conf'.on = b /\ conf'.reg = conf.reg
         /\ conf'.endpoint = conf.endpoint
<1>1. conf \in Confs
  BY DEF Typed, Confs
<1> QED
  BY <1>1 DEF Confs

LEMMA TurnOnDoes ==
  ASSUME Base, NEW h \in Handlers, TurnOn(h)
  PROVE  /\ Base' /\ Others(h) /\ At(h, "on") /\ act[h].op = "toggle"
         /\ act'[h].at = "find" /\ act'[h].ret = "idle" /\ act'[h].op = "toggle"
<1>1. At(h, "on") /\ ~At(h, "idle") /\ act[h].op = "toggle" /\ h \in Actors /\ Typed
  BY LaneOf DEF TurnOn, At
<1>2. Works(h) /\ act'[h].at = "find" /\ act'[h].ret = "idle" /\ act'[h].op = act[h].op
  BY <1>1, StartContainerDoes DEF TurnOn
<1>3. conf' \in Confs
  BY <1>1, SwitchTo DEF TurnOn
<1>4. Typed' /\ Others(h) /\ bus' = bus
  BY <1>1, <1>2, <1>3 DEF Typed, TurnOn, dockVars, startramVars, histVars, Works, Confs
<1>5. Lane(act'[h])
  BY <1>1, <1>2 DEF Lane, NetSpots
<1>6. Base'
  BY <1>1, <1>2, <1>4, <1>5, HandlerBase
<1> QED
  BY <1>1, <1>2, <1>4, <1>6

LEMMA TurnOffDoes ==
  ASSUME Base, NEW h \in Handlers, TurnOff(h)
  PROVE  /\ Base' /\ Others(h) /\ Keeps(h) /\ At(h, "off") /\ act[h].op = "toggle"
         /\ act'[h].at = "stop"
<1>1. At(h, "off") /\ ~At(h, "idle") /\ act[h].op = "toggle" /\ h \in Actors /\ Typed
  BY LaneOf DEF TurnOff, At
<1>2. Works(h) /\ act'[h].at = "stop" /\ Keeps(h)
  BY <1>1, GotoDoes DEF TurnOff, Labels
<1>3. conf' \in Confs
  BY <1>1, SwitchTo DEF TurnOff
<1>4. Typed' /\ Others(h) /\ bus' = bus
  BY <1>1, <1>2, <1>3 DEF Typed, TurnOff, dockVars, startramVars, histVars, Works, Confs
<1>5. Lane(act'[h]) /\ act'[h].op = act[h].op
  BY <1>1, <1>2 DEF Lane, NetSpots, Keeps
<1>6. Base'
  BY <1>1, <1>4, <1>5, HandlerBase
<1> QED
  BY <1>1, <1>2, <1>4, <1>6

LEMMA StopTunnelOf ==
  ASSUME Typed, StopTunnel
  PROVE  /\ tunnel' \in [st : {"none", "running", "exited"}, key : KeyPairs \cup {"mixed"}]
         /\ tunnel'.st = "exited" /\ tunnel'.key = tunnel.key
         /\ net' \in [Ships -> Networks \cup {"none", "created", "lost"}]
         /\ events' \in Seq({"start", "stop", "die"})
BY StartedOf, LostOf DEF StopTunnel, Typed

LEMMA StopWireguardDoes ==
  ASSUME Base, NEW h \in Handlers, StopWireguard(h)
  PROVE  /\ Base' /\ Others(h) /\ act[h].op \in {"toggle", "endpoint"}
         /\ act[h].at \in {"stop", "estop"}
         /\ act'[h].at \in {"ships", "delete", "idle"}
         /\ act'[h].op = act[h].op \/ act'[h] = Idle
<1>1. act[h].at \in {"stop", "estop"} /\ ~At(h, "idle") /\ h \in Actors /\ Typed
  BY LaneOf DEF StopWireguard, At
<1>2. /\ act[h].at = "stop" => act[h].op = "toggle"
      /\ act[h].at = "estop" => act[h].op = "endpoint"
  BY LaneOf
<1>3. /\ tunnel' \in [st : {"none", "running", "exited"}, key : KeyPairs \cup {"mixed"}]
      /\ net' \in [Ships -> Networks \cup {"none", "created", "lost"}]
      /\ events' \in Seq({"start", "stop", "die"})
  <2>1. CASE Running
    BY <1>1, <2>1, StopTunnelOf DEF StopWireguard
  <2>2. CASE ~Running
    BY <1>1, <2>2 DEF StopWireguard, dockVars, Typed
  <2> QED
    BY <2>1, <2>2
<1>4. /\ Works(h)
      /\ \/ act[h].at = "stop" /\ act'[h].at = "ships" /\ act'[h].op = act[h].op
         \/ act[h].at = "estop" /\ act'[h].at = "delete" /\ act'[h].op = act[h].op
         \/ act'[h] = Idle
  <2>1. CASE At(h, "stop")
    <3>1. Goto(h, "ships")
      BY <2>1 DEF StopWireguard
    <3> QED
      BY <1>1, <2>1, <3>1, GotoDoes DEF Labels, Keeps, At
  <2>2. CASE ~At(h, "stop") /\ tunnel.st = "none"
    <3>1. Finish(h)
      BY <2>2 DEF StopWireguard
    <3> QED
      BY <1>1, <3>1, FinishDoes
  <2>3. CASE ~At(h, "stop") /\ tunnel.st # "none"
    <3>1. Goto(h, "delete") /\ act[h].at = "estop"
      BY <1>1, <2>3 DEF StopWireguard, At
    <3> QED
      BY <1>1, <3>1, GotoDoes DEF Labels, Keeps
  <2> QED
    BY <2>1, <2>2, <2>3
<1>5. Typed' /\ Others(h) /\ bus' = bus
  BY <1>1, <1>3, <1>4 DEF Typed, StopWireguard, startramVars, histVars, Works
<1>6. Lane(act'[h]) /\ (act'[h].op = act[h].op \/ act'[h] = Idle)
  BY <1>2, <1>4, IdleLane DEF Lane, NetSpots
<1>7. Base'
  BY <1>1, <1>5, <1>6, HandlerBase
<1> QED
  BY <1>1, <1>2, <1>4, <1>5, <1>6, <1>7, IdleOf

LEMMA LocalShipDoes ==
  ASSUME Base, NEW h \in Handlers, NEW s \in Ships, LocalShip(h, s)
  PROVE  /\ Base' /\ Others(h) /\ At(h, "ships") /\ act[h].op = "toggle"
         /\ act'[h].at \in {"ships", "network"}
<1>1. /\ At(h, "ships") /\ ~At(h, "idle") /\ act[h].op = "toggle" /\ h \in Actors
      /\ Typed /\ act[h] \in Goroutines
  BY LaneOf DEF LocalShip, At
<1> DEFINE r1 == [act[h] EXCEPT !.todo = act[h].todo \ {s}, !.ship = s, !.at = "network",
                                !.ret = "ships"]
           r2 == [act[h] EXCEPT !.todo = act[h].todo \ {s}]
<1>2. act' = [act EXCEPT ![h] = r1] \/ act' = [act EXCEPT ![h] = r2]
  BY DEF LocalShip
<1>3. r1 \in Goroutines /\ r1.at = "network" /\ r1.op = act[h].op /\ r1.ret = "ships"
      /\ r1.ship = s
  BY <1>1 DEF Goroutines, Labels
<1>4. r2 \in Goroutines /\ r2.at = act[h].at /\ r2.op = act[h].op
  BY <1>1 DEF Goroutines
<1> HIDE DEF r1, r2
<1>5. Works(h) /\ (act'[h] = r1 \/ act'[h] = r2)
  BY <1>1, <1>2, <1>3, <1>4, Puts
<1>6. Typed' /\ Others(h) /\ bus' = bus
  BY <1>1, <1>5 DEF Typed, LocalShip, dockVars, startramVars, histVars, Works
<1>7. Lane(act'[h]) /\ act'[h].op = act[h].op /\ act'[h].at \in {"ships", "network"}
  BY <1>1, <1>3, <1>4, <1>5 DEF Lane, NetSpots, At
<1>8. Base'
  BY <1>1, <1>6, <1>7, HandlerBase
<1> QED
  BY <1>1, <1>6, <1>7, <1>8

LEMMA ShipsLocalDoes ==
  ASSUME Base, NEW h \in Handlers, ShipsLocal(h)
  PROVE  Base' /\ Others(h) /\ At(h, "ships") /\ act[h].op = "toggle" /\ act'[h] = Idle
<1>1. At(h, "ships") /\ ~At(h, "idle") /\ act[h].op = "toggle" /\ h \in Actors /\ Typed
  BY LaneOf DEF ShipsLocal, At
<1>2. Works(h) /\ act'[h] = Idle
  BY <1>1, FinishDoes DEF ShipsLocal
<1>3. Typed' /\ Others(h) /\ bus' = bus
  BY <1>1, <1>2 DEF Typed, ShipsLocal, dockVars, startramVars, histVars, Works
<1>4. Base'
  BY <1>1, <1>2, <1>3, IdleLane, HandlerBase
<1> QED
  BY <1>1, <1>2, <1>3, <1>4

LEMMA RestartStopsDoes ==
  ASSUME Base, NEW h \in Handlers, RestartStops(h)
  PROVE  /\ Base' /\ Others(h) /\ Keeps(h) /\ At(h, "rstop") /\ act[h].op = "restart"
         /\ act'[h].at \in {"rstart", "drop"}
<1>1. At(h, "rstop") /\ ~At(h, "idle") /\ act[h].op = "restart" /\ h \in Actors /\ Typed
  BY LaneOf DEF RestartStops, At
<1>2. /\ tunnel' \in [st : {"none", "running", "exited"}, key : KeyPairs \cup {"mixed"}]
      /\ net' \in [Ships -> Networks \cup {"none", "created", "lost"}]
      /\ events' \in Seq({"start", "stop", "die"})
  <2>1. CASE Running
    BY <1>1, <2>1, StopTunnelOf DEF RestartStops
  <2>2. CASE ~Running
    BY <1>1, <2>2 DEF RestartStops, dockVars, Typed
  <2> QED
    BY <2>1, <2>2
<1>3. Works(h) /\ act'[h].at \in {"rstart", "drop"} /\ Keeps(h)
  BY <1>1, GotoDoes DEF RestartStops, Labels
<1>4. Typed' /\ Others(h) /\ bus' = bus
  BY <1>1, <1>2, <1>3 DEF Typed, RestartStops, startramVars, histVars, Works
<1>5. Lane(act'[h]) /\ act'[h].op = act[h].op
  BY <1>1, <1>3 DEF Lane, NetSpots, Keeps
<1>6. Base'
  BY <1>1, <1>4, <1>5, HandlerBase
<1> QED
  BY <1>1, <1>3, <1>4, <1>6

LEMMA RestartStartsDoes ==
  ASSUME Base, NEW h \in Handlers, RestartStarts(h)
  PROVE  /\ Base' /\ Others(h) /\ Keeps(h) /\ At(h, "rstart") /\ act[h].op = "restart"
         /\ act'[h].at = "drop"
<1>1. At(h, "rstart") /\ ~At(h, "idle") /\ act[h].op = "restart" /\ h \in Actors /\ Typed
  BY LaneOf DEF RestartStarts, At
<1>2. /\ tunnel' \in [st : {"none", "running", "exited"}, key : KeyPairs \cup {"mixed"}]
      /\ events' \in Seq({"start", "stop", "die"})
  BY <1>1, StartedOf DEF RestartStarts, Typed
<1>3. Works(h) /\ act'[h].at = "drop" /\ Keeps(h)
  BY <1>1, GotoDoes DEF RestartStarts, Labels
<1>4. Typed' /\ Others(h) /\ bus' = bus
  BY <1>1, <1>2, <1>3 DEF Typed, RestartStarts, startramVars, histVars, Works
<1>5. Lane(act'[h]) /\ act'[h].op = act[h].op
  BY <1>1, <1>3 DEF Lane, NetSpots, Keeps
<1>6. Base'
  BY <1>1, <1>4, <1>5, HandlerBase
<1> QED
  BY <1>1, <1>3, <1>4, <1>6

LEMMA DropShipDoes ==
  ASSUME Base, NEW h \in Handlers, NEW s \in Ships, DropShip(h, s)
  PROVE  /\ Base' /\ Others(h) /\ At(h, "drop") /\ act[h].op = "restart"
         /\ act'[h].at = "drop"
<1>1. /\ At(h, "drop") /\ ~At(h, "idle") /\ act[h].op = "restart" /\ h \in Actors
      /\ Typed /\ act[h] \in Goroutines
  BY LaneOf DEF DropShip, At
<1> DEFINE r == [act[h] EXCEPT !.todo = act[h].todo \ {s}]
<1>2. act' = [act EXCEPT ![h] = r]
  BY DEF DropShip
<1>3. r \in Goroutines /\ r.at = act[h].at /\ r.op = act[h].op
  BY <1>1 DEF Goroutines
<1> HIDE DEF r
<1>4. Works(h) /\ act'[h] = r
  BY <1>1, <1>2, <1>3, Puts
<1>5. net' \in [Ships -> Networks \cup {"none", "created", "lost"}]
  BY <1>1 DEF Typed, DropShip
<1>6. Typed' /\ Others(h) /\ bus' = bus
  BY <1>1, <1>4, <1>5 DEF Typed, DropShip, startramVars, histVars, Works
<1>7. Lane(act'[h]) /\ act'[h].op = act[h].op /\ act'[h].at = "drop"
  BY <1>1, <1>3, <1>4 DEF Lane, NetSpots, At
<1>8. Base'
  BY <1>1, <1>6, <1>7, HandlerBase
<1> QED
  BY <1>1, <1>6, <1>7, <1>8

LEMMA LoadAgainDoes ==
  ASSUME Base, NEW h \in Handlers, LoadAgain(h)
  PROVE  /\ Base' /\ Others(h) /\ At(h, "drop") /\ act[h].op = "restart"
         /\ act'[h].at = "load" /\ act'[h].todo = Ships
<1>1. /\ At(h, "drop") /\ ~At(h, "idle") /\ act[h].op = "restart" /\ h \in Actors
      /\ Typed /\ act[h] \in Goroutines
  BY LaneOf DEF LoadAgain, At
<1> DEFINE r == [act[h] EXCEPT !.at = "load", !.todo = Ships]
<1>2. act' = [act EXCEPT ![h] = r]
  BY DEF LoadAgain
<1>3. r \in Goroutines /\ r.at = "load" /\ r.op = act[h].op /\ r.todo = Ships
  BY <1>1 DEF Goroutines, Labels
<1> HIDE DEF r
<1>4. Works(h) /\ act'[h] = r
  BY <1>1, <1>2, <1>3, Puts
<1>5. Typed' /\ Others(h) /\ bus' = bus
  BY <1>1, <1>4 DEF Typed, LoadAgain, dockVars, startramVars, histVars, Works
<1>6. Lane(act'[h]) /\ act'[h].op = act[h].op
  BY <1>1, <1>3, <1>4 DEF Lane, NetSpots
<1>7. Base'
  BY <1>1, <1>5, <1>6, HandlerBase
<1> QED
  BY <1>1, <1>3, <1>4, <1>5, <1>7


-----------------------------------------------------------------------------
(* Handlers that reach the server                                          *)

Records == [key : KeyPairs, svc : Subs]
Answers == [key : KeyPairs, from : Endpoints \cup {NoEndpoint}, subs : Subs]
Tunnels == [st : {"none", "running", "exited"}, key : KeyPairs \cup {"mixed"}]

LEMMA AgedOf ==
  /\ \A k \in KeyPairs : Aged(k) \in KeyPairs
  /\ \A k \in KeyPairs \cup {"mixed"} : Aged(k) \in KeyPairs \cup {"mixed"}
  /\ \A k : Aged(k) # "current" /\ (k # "mixed" => Aged(k) # "mixed")
BY DEF Aged, KeyPairs

LEMMA CycleWgKeyDoes ==
  ASSUME Base, NEW h \in Handlers, CycleWgKey(h)
  PROVE  /\ Base' /\ Others(h) /\ act[h].op \in ServerOps
         /\ act[h].at \in {"rkey", "ekey", "ckey"}
         /\ act[h].at = "rkey" => act'[h].at = "post"
         /\ act[h].at = "ekey" => act'[h].at = "set"
         /\ act[h].at = "ckey" => act'[h] = Idle
         /\ blob'.key # "current" /\ file' = Aged(file)
         /\ tunnel'.st = tunnel.st /\ tunnel'.key = Aged(tunnel.key)
         /\ \A e \in Endpoints : server'[e].key # "current" /\ server'[e].svc = server[e].svc
<1>1. /\ act[h].at \in {"rkey", "ekey", "ckey"} /\ ~At(h, "idle") /\ h \in Actors /\ Typed
      /\ act[h] \in Goroutines
  BY LaneOf DEF CycleWgKey, At
<1>2. /\ act[h].at = "rkey" => act[h].op = "register"
      /\ act[h].at = "ekey" => act[h].op = "endpoint"
      /\ act[h].at = "ckey" => act[h].op = "cancel"
  BY LaneOf
<1>3. /\ Works(h)
      /\ \/ act[h].at = "rkey" /\ act'[h].at = "post" /\ act'[h].op = act[h].op
         \/ act[h].at = "ekey" /\ act'[h].at = "set" /\ act'[h].op = act[h].op
         \/ act[h].at = "ckey" /\ act'[h] = Idle
  <2>1. CASE act[h].at = "ckey"
    <3>1. Finish(h)
      BY <2>1 DEF CycleWgKey, At
    <3> QED
      BY <1>1, <2>1, <3>1, FinishDoes
  <2>2. CASE act[h].at = "rkey"
    <3>1. Goto(h, "post")
      BY <2>2 DEF CycleWgKey, At
    <3> QED
      BY <1>1, <2>2, <3>1, GotoDoes DEF Labels, Keeps
  <2>3. CASE act[h].at = "ekey"
    <3>1. Goto(h, "set")
      BY <2>3 DEF CycleWgKey, At
    <3> QED
      BY <1>1, <2>3, <3>1, GotoDoes DEF Labels, Keeps
  <2> QED
    BY <1>1, <2>1, <2>2, <2>3
<1>4. blob' \in Answers /\ blob'.key # "current"
  <2> DEFINE k == Aged(blob.key)
  <2>1. blob \in Answers
    BY <1>1 DEF Typed, Answers
  <2>2. k \in KeyPairs /\ k # "current"
    BY <2>1, AgedOf DEF Answers
  <2>3. blob' = [blob EXCEPT !.key = k]
    BY DEF CycleWgKey
  <2> HIDE DEF k
  <2> QED
    BY <2>1, <2>2, <2>3 DEF Answers
<1>5. tunnel' \in Tunnels /\ tunnel'.st = tunnel.st /\ tunnel'.key = Aged(tunnel.key)
  <2> DEFINE k == Aged(tunnel.key)
  <2>1. tunnel \in Tunnels
    BY <1>1 DEF Typed, Tunnels
  <2>2. k \in KeyPairs \cup {"mixed"}
    BY <2>1, AgedOf DEF Tunnels
  <2>3. tunnel' = [tunnel EXCEPT !.key = k]
    BY DEF CycleWgKey
  <2> HIDE DEF k
  <2>4. tunnel' \in Tunnels /\ tunnel'.st = tunnel.st /\ tunnel'.key = k
    BY <2>1, <2>2, <2>3 DEF Tunnels
  <2> QED
    BY <2>4 DEF k
<1>6. /\ server' \in [Endpoints -> Records]
      /\ \A e \in Endpoints : server'[e].key # "current" /\ server'[e].svc = server[e].svc
  <2> DEFINE r(e) == [server[e] EXCEPT !.key = Aged(server[e].key)]
  <2>1. server' = [e \in Endpoints |-> r(e)]
    BY DEF CycleWgKey
  <2>2. ASSUME NEW e \in Endpoints
        PROVE  r(e) \in Records /\ r(e).key # "current" /\ r(e).svc = server[e].svc
    <3> DEFINE k == Aged(server[e].key)
    <3>1. server[e] \in Records
      BY <1>1 DEF Typed, Records
    <3>2. k \in KeyPairs /\ k # "current"
      BY <3>1, AgedOf DEF Records
    <3> HIDE DEF k
    <3>3. r(e) = [server[e] EXCEPT !.key = k]
      BY DEF k
    <3> QED
      BY <3>1, <3>2, <3>3 DEF Records
  <2> HIDE DEF r
  <2> QED
    BY <2>1, <2>2
<1>7. file' = Aged(file) /\ file' \in KeyPairs \cup {"mixed"}
  BY <1>1, AgedOf DEF CycleWgKey, Typed
<1>8. Typed' /\ Others(h) /\ bus' = bus
  BY <1>1, <1>3, <1>4, <1>5, <1>6, <1>7
  DEF Typed, CycleWgKey, histVars, Works, Answers, Tunnels, Records
<1>9. Lane(act'[h]) /\ (act'[h].op = act[h].op \/ act'[h] = Idle)
  BY <1>2, <1>3, IdleLane DEF Lane, NetSpots
<1>10. Base'
  BY <1>1, <1>8, <1>9, HandlerBase
<1> QED
  BY <1>1, <1>2, <1>3, <1>4, <1>5, <1>6, <1>7, <1>8, <1>10 DEF ServerOps

LEMMA RegisteredAs ==
  ASSUME Typed, NEW b \in BOOLEAN, conf' = [conf EXCEPT !.reg = b]
  PROVE  conf' \in Confs /\ conf'.reg = b /\ conf'.on = conf.on
         /\ conf'.endpoint = conf.endpoint
<1>1. conf \in Confs
  BY DEF Typed, Confs
<1> QED
  BY <1>1 DEF Confs

LEMMA PostRegisterDoes ==
  ASSUME Base, NEW h \in Handlers, PostRegister(h)
  PROVE  /\ Base' /\ Others(h) /\ At(h, "post") /\ act[h].op = "register"
         /\ act'[h].at = "get" /\ act'[h].ret = "create" /\ act'[h].op = "register"
         /\ conf'.reg = TRUE /\ conf'.on = conf.on /\ conf'.endpoint = conf.endpoint
         /\ server'[conf.endpoint].key = "current"
         /\ \A e \in Endpoints : e # conf.endpoint => server'[e] = server[e]
<1>1. /\ At(h, "post") /\ ~At(h, "idle") /\ act[h].op = "register" /\ h \in Actors
      /\ Typed /\ act[h] \in Goroutines
  BY LaneOf DEF PostRegister, At
<1>2. /\ conf' \in Confs /\ conf'.reg = TRUE /\ conf'.on = conf.on
      /\ conf'.endpoint = conf.endpoint /\ conf.endpoint \in Endpoints
  BY <1>1, RegisteredAs DEF PostRegister, Confs
<1>3. /\ server' \in [Endpoints -> Records] /\ server'[conf.endpoint].key = "current"
      /\ \A e \in Endpoints : e # conf.endpoint => server'[e] = server[e]
  <2>1. server \in [Endpoints -> Records] /\ server[conf.endpoint].svc \in Subs
    BY <1>1, <1>2 DEF Typed, Records
  <2>2. NoSubs \in Subs
    BY DEF NoSubs, Subs, Statuses
  <2>3. PICK svc \in Subs :
          server' = [server EXCEPT ![conf.endpoint] = [key |-> "current", svc |-> svc]]
    BY <2>1, <2>2 DEF PostRegister
  <2>4. [key |-> "current", svc |-> svc] \in Records
    BY DEF Records, KeyPairs
  <2> QED
    BY <1>2, <2>1, <2>3, <2>4
<1> DEFINE r == [act[h] EXCEPT !.at = "get", !.todo = Ships, !.ret = "create"]
<1>4. act' = [act EXCEPT ![h] = r]
  BY DEF PostRegister
<1>5. r \in Goroutines /\ r.at = "get" /\ r.ret = "create" /\ r.op = act[h].op
  BY <1>1 DEF Goroutines, Labels
<1> HIDE DEF r
<1>6. Works(h) /\ act'[h] = r
  BY <1>1, <1>4, <1>5, Puts
<1>7. Typed' /\ Others(h) /\ bus' = bus
  BY <1>1, <1>2, <1>3, <1>6 DEF Typed, PostRegister, dockVars, histVars, Works, Confs, Records
<1>8. Lane(act'[h]) /\ act'[h].op = act[h].op
  BY <1>1, <1>5, <1>6 DEF Lane, NetSpots
<1>9. Base'
  BY <1>1, <1>7, <1>8, HandlerBase
<1> QED
  BY <1>1, <1>2, <1>3, <1>5, <1>6, <1>7, <1>9

LEMMA RegisterFailsDoes ==
  ASSUME Base, NEW h \in Handlers, RegisterFails(h)
  PROVE  /\ Base' /\ Others(h) /\ At(h, "post") /\ act[h].op = "register" /\ act'[h] = Idle
         /\ conf'.on = conf.on /\ conf'.endpoint = conf.endpoint
<1>1. /\ At(h, "post") /\ ~At(h, "idle") /\ act[h].op = "register" /\ h \in Actors /\ Typed
  BY LaneOf DEF RegisterFails, At
<1>2. conf' \in Confs /\ conf'.on = conf.on /\ conf'.endpoint = conf.endpoint
  BY <1>1, RegisteredAs DEF RegisterFails
<1>3. Works(h) /\ act'[h] = Idle
  BY <1>1, FinishDoes DEF RegisterFails
<1>4. Typed' /\ Others(h) /\ bus' = bus
  BY <1>1, <1>2, <1>3 DEF Typed, RegisterFails, dockVars, startramVars, histVars, Works, Confs
<1>5. Base'
  BY <1>1, <1>3, <1>4, IdleLane, HandlerBase
<1> QED
  BY <1>1, <1>2, <1>3, <1>4, <1>5

\* What a retrieve leaves behind.
LEMMA AnswerOf ==
  ASSUME Typed
  PROVE  /\ Answer(server) \in Answers /\ Answer(server).key = "current"
         /\ Answer(server).subs = server[conf.endpoint].svc
BY DEF Typed, Answer, Answers, KeyPairs

Fetched == /\ blob'.key = "current" /\ blob'.subs = server[conf.endpoint].svc
           /\ conf'.reg = TRUE /\ bus' = Append(bus, "retrieve")

LEMMA RetrievedDoes ==
  ASSUME Typed, Retrieved(server)
  PROVE  /\ conf' \in Confs /\ conf'.on = conf.on /\ conf'.endpoint = conf.endpoint
         /\ blob' \in Answers /\ bus' \in Seq({"retrieve", "complete"})
         /\ Served => Fetched
         /\ ~Served => UNCHANGED <<blob, conf, bus>>
<1>1. CASE Served
  BY <1>1, AnswerOf, RegisteredAs, AppendBus DEF Retrieved, Fetched
<1>2. CASE ~Served
  BY <1>2 DEF Retrieved, Typed, Confs, Answers
<1> QED
  BY <1>1, <1>2

LEMMA GetAnswerDoes ==
  ASSUME Base, NEW h \in Handlers, GetAnswer(h)
  PROVE  /\ Base' /\ Others(h) /\ At(h, "get") /\ act[h].op \in ServerOps
         /\ act[h].ret \in {"create", "delete"}
         /\ Retrieved(server) /\ conf'.on = conf.on /\ conf'.endpoint = conf.endpoint
         /\ \/ act'[h] = Idle /\ ~Served
            \/ act'[h].at = act[h].ret /\ act'[h].op = act[h].op /\ act'[h].ret = act[h].ret
<1>1. At(h, "get") /\ ~At(h, "idle") /\ h \in Actors /\ Typed
  BY LaneOf DEF GetAnswer, At
<1>2. \/ act[h].op = "register" /\ act[h].ret = "create"
      \/ act[h].op \in {"endpoint", "cancel"} /\ act[h].ret = "delete"
  BY <1>1, LaneOf DEF At
<1>3. /\ conf' \in Confs /\ conf'.on = conf.on /\ conf'.endpoint = conf.endpoint
      /\ blob' \in Answers /\ bus' \in Seq({"retrieve", "complete"}) /\ Retrieved(server)
  BY <1>1, RetrievedDoes DEF GetAnswer
<1>4. /\ Works(h)
      /\ \/ act'[h] = Idle /\ ~Served
         \/ act'[h].at = act[h].ret /\ act'[h].op = act[h].op /\ act'[h].ret = act[h].ret
  <2>1. CASE Served \/ act[h].ret = "delete"
    <3>1. Returned(h, "none") /\ "none" \in Seen
      BY <2>1 DEF GetAnswer, Seen
    <3> QED
      BY <1>1, <1>2, <3>1, ReturnedDoes DEF Keeps
  <2>2. CASE ~(Served \/ act[h].ret = "delete")
    <3>1. Finish(h)
      BY <2>2 DEF GetAnswer
    <3> QED
      BY <1>1, <2>2, <3>1, FinishDoes
  <2> QED
    BY <2>1, <2>2
<1>5. Typed' /\ Others(h)
  BY <1>1, <1>3, <1>4 DEF Typed, GetAnswer, dockVars, histVars, Works, Confs, Answers
<1>6. Lane(act'[h]) /\ (act'[h].op = act[h].op \/ act'[h] = Idle)
  BY <1>2, <1>4, IdleLane DEF Lane, NetSpots
<1>7. act[h].op \in ServerOps
  BY <1>2 DEF ServerOps
<1>8. Base'
  BY <1>1, <1>5, <1>6, <1>7, HandlerBase
<1> QED
  BY <1>1, <1>2, <1>3, <1>4, <1>5, <1>7, <1>8

LEMMA CreateServiceDoes ==
  ASSUME Base, NEW h \in Handlers, NEW s \in Ships, CreateService(h, s)
  PROVE  /\ Base' /\ Others(h) /\ At(h, "create") /\ act[h].op = "register"
         /\ act'[h].at \in {"create", "poll"} /\ act'[h].op = "register"
<1>1. /\ At(h, "create") /\ ~At(h, "idle") /\ act[h].op = "register" /\ h \in Actors
      /\ Typed /\ act[h] \in Goroutines
  BY LaneOf DEF CreateService, At
<1> DEFINE at == IF act[h].todo = {s} THEN "poll" ELSE "create"
           r == [act[h] EXCEPT !.todo = act[h].todo \ {s}, !.at = at]
<1>2. act' = [act EXCEPT ![h] = r]
  BY DEF CreateService
<1>3. at \in {"create", "poll"} /\ at \in Labels
  BY DEF Labels
<1> HIDE DEF at
<1>4. r \in Goroutines /\ r.at = at /\ r.op = act[h].op
  BY <1>1, <1>3 DEF Goroutines
<1> HIDE DEF r
<1>5. Works(h) /\ act'[h] = r
  BY <1>1, <1>2, <1>4, Puts
<1>6. server' \in [Endpoints -> Records]
  BY <1>1, ServiceMade DEF CreateService, Typed, Records
<1>7. Typed' /\ Others(h) /\ bus' = bus
  BY <1>1, <1>5, <1>6 DEF Typed, CreateService, dockVars, histVars, Works, Records
<1>8. Lane(act'[h]) /\ act'[h].op = act[h].op
  BY <1>1, <1>3, <1>4, <1>5 DEF Lane, NetSpots
<1>9. Base'
  BY <1>1, <1>7, <1>8, HandlerBase
<1> QED
  BY <1>1, <1>3, <1>4, <1>5, <1>7, <1>9


LEMMA PollEndsDoes ==
  ASSUME Base, NEW h \in Handlers, PollEnds(h)
  PROVE  /\ Base' /\ Others(h) /\ At(h, "poll") /\ act[h].op = "register"
         /\ act'[h].at = "wgconf" /\ act'[h].op = "register"
         /\ Retrieved(server) /\ conf'.on = conf.on /\ conf'.endpoint = conf.endpoint
<1>1. At(h, "poll") /\ ~At(h, "idle") /\ act[h].op = "register" /\ h \in Actors /\ Typed
  BY LaneOf DEF PollEnds, At
<1>2. /\ conf' \in Confs /\ conf'.on = conf.on /\ conf'.endpoint = conf.endpoint
      /\ blob' \in Answers /\ bus' \in Seq({"retrieve", "complete"}) /\ Retrieved(server)
  BY <1>1, RetrievedDoes DEF PollEnds
<1>3. Works(h) /\ act'[h].at = "wgconf" /\ Keeps(h)
  BY <1>1, GotoDoes DEF PollEnds, Labels
<1>4. Typed' /\ Others(h)
  BY <1>1, <1>2, <1>3 DEF Typed, PollEnds, dockVars, histVars, Works, Confs, Answers
<1>5. Lane(act'[h]) /\ act'[h].op = act[h].op
  BY <1>1, <1>3 DEF Lane, NetSpots, Keeps
<1>6. Base'
  BY <1>1, <1>4, <1>5, HandlerBase DEF ServerOps
<1> QED
  BY <1>1, <1>2, <1>3, <1>4, <1>5, <1>6

LEMMA PollAgainDoes ==
  ASSUME Base, NEW h \in Handlers, PollAgain(h)
  PROVE  /\ Base' /\ act' = act /\ At(h, "poll") /\ act[h].op = "register"
         /\ Retrieved(server) /\ conf'.on = conf.on /\ conf'.endpoint = conf.endpoint
<1>1. At(h, "poll") /\ ~At(h, "idle") /\ act[h].op = "register" /\ h \in Actors /\ Typed
  BY LaneOf DEF PollAgain, At
<1>2. /\ conf' \in Confs /\ conf'.on = conf.on /\ conf'.endpoint = conf.endpoint
      /\ blob' \in Answers /\ bus' \in Seq({"retrieve", "complete"}) /\ Retrieved(server)
  BY <1>1, RetrievedDoes DEF PollAgain
<1>3. act' = act
  BY DEF PollAgain
<1>4. Typed' /\ Others(h)
  BY <1>1, <1>2, <1>3 DEF Typed, PollAgain, dockVars, histVars, Others, Confs, Answers
<1>5. Lane(act'[h]) /\ act'[h].op = act[h].op
  BY <1>3 DEF Base, Lanes
<1>6. Base'
  BY <1>1, <1>4, <1>5, HandlerBase DEF ServerOps
<1> QED
  BY <1>1, <1>2, <1>3, <1>6

LEMMA PollTimesOutDoes ==
  ASSUME Base, NEW h \in Handlers, PollTimesOut(h)
  PROVE  /\ Base' /\ Others(h) /\ At(h, "poll") /\ act[h].op = "register"
         /\ act'[h] = Idle
         /\ Retrieved(server) /\ conf'.on = conf.on /\ conf'.endpoint = conf.endpoint
<1>1. At(h, "poll") /\ ~At(h, "idle") /\ act[h].op = "register" /\ h \in Actors /\ Typed
  BY LaneOf DEF PollTimesOut, At
<1>2. /\ conf' \in Confs /\ conf'.on = conf.on /\ conf'.endpoint = conf.endpoint
      /\ blob' \in Answers /\ bus' \in Seq({"retrieve", "complete"}) /\ Retrieved(server)
  BY <1>1, RetrievedDoes DEF PollTimesOut
<1>3. Works(h) /\ act'[h] = Idle
  BY <1>1, FinishDoes DEF PollTimesOut
<1>4. Typed' /\ Others(h)
  BY <1>1, <1>2, <1>3 DEF Typed, PollTimesOut, dockVars, Works, Confs, Answers
<1>5. Base'
  BY <1>1, <1>3, <1>4, IdleLane, HandlerBase DEF ServerOps
<1> QED
  BY <1>1, <1>2, <1>3, <1>4, <1>5

LEMMA ServiceGone ==
  ASSUME Typed, NEW s \in Ships
  PROVE  /\ SvcDeleted(s) \in [Endpoints -> Records]
         /\ \A e \in Endpoints : SvcDeleted(s)[e].key = server[e].key
         /\ ~Served => SvcDeleted(s) = server
<1> DEFINE c == conf.endpoint
           svc == [server[c].svc EXCEPT ![s] = "none"]
           x == [server[c] EXCEPT !.svc = svc]
<1>1. /\ c \in Endpoints /\ server \in [Endpoints -> Records]
      /\ server[c] \in Records /\ server[c].svc \in Subs
  BY DEF Typed, Records
<1>2. CASE Served
  <2>1. SvcDeleted(s) = [server EXCEPT ![c] = x]
    BY <1>2 DEF SvcDeleted
  <2>2. svc \in Subs
    BY <1>1 DEF Subs, Statuses
  <2> HIDE DEF svc
  <2>3. x \in Records /\ x.key = server[c].key
    BY <1>1, <2>2 DEF Records
  <2> HIDE DEF x, c
  <2> QED
    BY <1>1, <1>2, <2>1, <2>3
<1>3. CASE ~Served
  BY <1>1, <1>3 DEF SvcDeleted
<1> QED
  BY <1>2, <1>3

LEMMA DeleteServiceDoes ==
  ASSUME Base, NEW h \in Handlers, NEW s \in Ships, DeleteService(h, s)
  PROVE  /\ Base' /\ Others(h) /\ At(h, "delete") /\ act[h].op \in {"endpoint", "cancel"}
         /\ act'[h].op = act[h].op /\ act'[h].ret = "delete"
         /\ Served => act'[h].at = "get"
         /\ ~Served => act'[h].at = "delete" /\ server' = server
         /\ \A e \in Endpoints : server'[e].key = server[e].key
<1>1. /\ At(h, "delete") /\ ~At(h, "idle") /\ act[h].op \in {"endpoint", "cancel"}
      /\ h \in Actors /\ Typed /\ act[h] \in Goroutines
  BY LaneOf DEF DeleteService, At
<1> DEFINE at == IF Served THEN "get" ELSE "delete"
           r == [act[h] EXCEPT !.todo = act[h].todo \ {s}, !.ret = "delete", !.at = at]
<1>2. act' = [act EXCEPT ![h] = r]
  BY DEF DeleteService
<1>3. /\ at \in {"get", "delete"} /\ at \in Labels
      /\ Served => at = "get"
      /\ ~Served => at = "delete"
  BY DEF Labels
<1> HIDE DEF at
<1>4. r \in Goroutines /\ r.at = at /\ r.op = act[h].op /\ r.ret = "delete"
  BY <1>1, <1>3 DEF Goroutines
<1> HIDE DEF r
<1>5. Works(h) /\ act'[h] = r
  BY <1>1, <1>2, <1>4, Puts
<1>6. /\ server' \in [Endpoints -> Records]
      /\ \A e \in Endpoints : server'[e].key = server[e].key
      /\ ~Served => server' = server
  BY <1>1, ServiceGone DEF DeleteService
<1>7. Typed' /\ Others(h) /\ bus' = bus
  BY <1>1, <1>5, <1>6 DEF Typed, DeleteService, dockVars, histVars, Works, Records
<1>8. Lane(act'[h]) /\ act'[h].op = act[h].op
  BY <1>1, <1>3, <1>4, <1>5 DEF Lane, NetSpots
<1>9. Base'
  BY <1>1, <1>7, <1>8, HandlerBase
<1> QED
  BY <1>1, <1>3, <1>4, <1>5, <1>6, <1>7, <1>9

LEMMA ServicesDeletedDoes ==
  ASSUME Base, NEW h \in Handlers, ServicesDeleted(h)
  PROVE  /\ Base' /\ Others(h) /\ At(h, "delete") /\ act[h].op \in {"endpoint", "cancel"}
         /\ act'[h].op = act[h].op /\ act'[h].at \in {"ekey", "cancel"}
<1>1. /\ At(h, "delete") /\ ~At(h, "idle") /\ act[h].op \in {"endpoint", "cancel"}
      /\ h \in Actors /\ Typed
  BY LaneOf DEF ServicesDeleted, At
<1>2. CASE act[h].op = "endpoint"
  <2>1. Goto(h, "ekey")
    BY <1>2 DEF ServicesDeleted
  <2>2. Works(h) /\ act'[h].at = "ekey" /\ Keeps(h)
    BY <1>1, <2>1, GotoDoes DEF Labels
  <2>3. Typed' /\ Others(h) /\ bus' = bus
    BY <1>1, <2>2 DEF Typed, ServicesDeleted, dockVars, startramVars, histVars, Works
  <2>4. Lane(act'[h]) /\ act'[h].op = act[h].op
    BY <1>2, <2>2 DEF Lane, NetSpots, Keeps
  <2>5. Base'
    BY <1>1, <2>3, <2>4, HandlerBase
  <2> QED
    BY <1>1, <2>2, <2>3, <2>4, <2>5
<1>3. CASE act[h].op # "endpoint"
  <2>1. Goto(h, "cancel")
    BY <1>3 DEF ServicesDeleted
  <2>2. Works(h) /\ act'[h].at = "cancel" /\ Keeps(h)
    BY <1>1, <2>1, GotoDoes DEF Labels
  <2>3. Typed' /\ Others(h) /\ bus' = bus
    BY <1>1, <2>2 DEF Typed, ServicesDeleted, dockVars, startramVars, histVars, Works
  <2>4. Lane(act'[h]) /\ act'[h].op = act[h].op
    BY <1>1, <1>3, <2>2 DEF Lane, NetSpots, Keeps
  <2>5. Base'
    BY <1>1, <2>3, <2>4, HandlerBase
  <2> QED
    BY <1>1, <2>2, <2>3, <2>4, <2>5
<1> QED
  BY <1>2, <1>3

LEMMA SetEndpointDoes ==
  ASSUME Base, NEW h \in Handlers, SetEndpoint(h)
  PROVE  /\ Base' /\ Others(h) /\ At(h, "set") /\ act[h].op = "endpoint" /\ act'[h] = Idle
         /\ conf'.on = conf.on /\ conf'.endpoint \in Endpoints
<1>1. At(h, "set") /\ ~At(h, "idle") /\ act[h].op = "endpoint" /\ h \in Actors /\ Typed
  BY LaneOf DEF SetEndpoint, At
<1>2. conf' \in Confs /\ conf'.on = conf.on
  <2>1. PICK e \in Endpoints : conf' = [conf EXCEPT !.endpoint = e, !.reg = FALSE]
    BY DEF SetEndpoint
  <2>2. conf \in Confs
    BY <1>1 DEF Typed, Confs
  <2> QED
    BY <2>1, <2>2 DEF Confs
<1>3. Works(h) /\ act'[h] = Idle
  BY <1>1, FinishDoes DEF SetEndpoint
<1>4. Typed' /\ Others(h) /\ bus' = bus
  BY <1>1, <1>2, <1>3 DEF Typed, SetEndpoint, dockVars, startramVars, histVars, Works, Confs
<1>5. Base'
  BY <1>1, <1>3, <1>4, IdleLane, HandlerBase
<1> QED
  BY <1>1, <1>2, <1>3, <1>4, <1>5 DEF Confs

LEMMA CancelSubDoes ==
  ASSUME Base, NEW h \in Handlers, CancelSub(h)
  PROVE  /\ Base' /\ Others(h) /\ At(h, "cancel") /\ act[h].op = "cancel"
         /\ act'[h] = Idle \/ (act'[h].at = "ckey" /\ act'[h].op = "cancel")
         /\ \A e \in Endpoints : /\ server'[e].svc = server[e].svc
                                 /\ server'[e].key \in {"none", server[e].key}
<1>1. At(h, "cancel") /\ ~At(h, "idle") /\ act[h].op = "cancel" /\ h \in Actors /\ Typed
  BY LaneOf DEF CancelSub, At
<1>2. server \in [Endpoints -> Records] /\ conf.endpoint \in Endpoints
  BY <1>1 DEF Typed, Records
<1>3. CASE UNCHANGED server /\ Finish(h)
  <2>1. Works(h) /\ act'[h] = Idle
    BY <1>1, <1>3, FinishDoes
  <2>2. Typed' /\ Others(h) /\ bus' = bus
    BY <1>1, <1>3, <2>1 DEF Typed, CancelSub, dockVars, histVars, Works
  <2>3. Base'
    BY <1>1, <2>1, <2>2, IdleLane, HandlerBase
  <2> QED
    BY <1>1, <1>3, <2>1, <2>2, <2>3
<1>4. CASE /\ \E k \in {"none", server[conf.endpoint].key} :
                server' = [server EXCEPT ![conf.endpoint].key = k]
           /\ Goto(h, "ckey")
  <2>1. PICK k \in {"none", server[conf.endpoint].key} :
          server' = [server EXCEPT ![conf.endpoint].key = k]
    BY <1>4
  <2> DEFINE x == [server[conf.endpoint] EXCEPT !.key = k]
  <2>2. /\ x \in Records /\ x.key = k /\ x.svc = server[conf.endpoint].svc
    BY <1>2, <2>1 DEF Records, KeyPairs
  <2>3. server' = [server EXCEPT ![conf.endpoint] = x]
    BY <2>1
  <2> HIDE DEF x
  <2>4. /\ server' \in [Endpoints -> Records]
        /\ \A e \in Endpoints : /\ server'[e].svc = server[e].svc
                                /\ server'[e].key \in {"none", server[e].key}
    BY <1>2, <2>1, <2>2, <2>3
  <2>5. Works(h) /\ act'[h].at = "ckey" /\ Keeps(h)
    BY <1>1, <1>4, GotoDoes DEF Labels
  <2>6. Typed' /\ Others(h) /\ bus' = bus
    BY <1>1, <2>4, <2>5 DEF Typed, CancelSub, dockVars, histVars, Works, Records
  <2>7. Lane(act'[h]) /\ act'[h].op = act[h].op
    BY <1>1, <2>5 DEF Lane, NetSpots, Keeps
  <2>8. Base'
    BY <1>1, <2>6, <2>7, HandlerBase
  <2> QED
    BY <1>1, <2>4, <2>5, <2>6, <2>7, <2>8
<1> QED
  BY <1>3, <1>4 DEF CancelSub

-----------------------------------------------------------------------------
(* The surroundings                                                        *)

LEMMA ServiceReadyDoes ==
  ASSUME Base, NEW e \in Endpoints, NEW s \in Ships, ServiceReady(e, s)
  PROVE  /\ Base' /\ act' = act
         /\ \A x \in Endpoints : /\ server'[x].key = server[x].key
              /\ \A t \in Ships : server'[x].svc[t] = "none" => server[x].svc[t] = "none"
<1> DEFINE svc == [server[e].svc EXCEPT ![s] = "ok"]
           x == [server[e] EXCEPT !.svc = svc]
<1>1. /\ server \in [Endpoints -> Records] /\ server[e] \in Records
      /\ server[e].svc \in Subs /\ Typed
  BY DEF Base, Typed, Records
<1>2. svc \in Subs /\ \A t \in Ships : svc[t] = "none" => server[e].svc[t] = "none"
  BY <1>1 DEF Subs, Statuses
<1>3. server' = [server EXCEPT ![e] = x]
  BY DEF ServiceReady
<1> HIDE DEF svc
<1>4. x \in Records /\ x.key = server[e].key /\ x.svc = svc
  BY <1>1, <1>2 DEF Records
<1> HIDE DEF x
<1>5. /\ server' \in [Endpoints -> Records]
      /\ \A y \in Endpoints : /\ server'[y].key = server[y].key
              /\ \A t \in Ships : server'[y].svc[t] = "none" => server[y].svc[t] = "none"
  BY <1>1, <1>2, <1>3, <1>4
<1>6. Typed' /\ act' = act /\ bus' = bus
  BY <1>1, <1>5 DEF Typed, ServiceReady, dockVars, histVars, Records
<1> QED
  BY <1>5, <1>6 DEF Base, Lanes, Alone, Digest, At

LEMMA TunnelDiesDoes ==
  ASSUME Base, TunnelDies
  PROVE  /\ Base' /\ act' = act /\ tunnel'.st = "exited" /\ tunnel'.key = tunnel.key
<1> DEFINE t == [tunnel EXCEPT !.st = "exited"]
<1>1. Typed /\ tunnel \in Tunnels
  BY DEF Base, Typed, Tunnels
<1>2. t \in Tunnels /\ t.st = "exited" /\ t.key = tunnel.key /\ tunnel' = t
  BY <1>1 DEF Tunnels, TunnelDies
<1>3. events' \in Seq({"start", "stop", "die"})
  <2>1. events' = <<"die">>
    BY DEF TunnelDies
  <2> QED
    BY <2>1
<1>4. Typed' /\ act' = act /\ bus' = bus
  BY <1>1, <1>2, <1>3, LostOf DEF Typed, TunnelDies, startramVars, histVars, Tunnels
<1> QED
  BY <1>2, <1>4 DEF Base, Lanes, Alone, Digest, At

LEMMA StartupOf ==
  ASSUME NEW reg \in BOOLEAN
  PROVE  /\ Startup(reg) \in [Actors -> Goroutines]
         /\ \A a \in Actors : a # Main => Startup(reg)[a] = Idle
         /\ reg => Startup(reg)[Main].at = "wgconf"
         /\ ~reg => Startup(reg)[Main].at = "load" /\ Startup(reg)[Main].todo = Ships
<1> DEFINE m == IF reg THEN [Idle EXCEPT !.at = "wgconf"]
                ELSE [Idle EXCEPT !.at = "load", !.todo = Ships]
<1>1. /\ m \in Goroutines
      /\ reg => m.at = "wgconf"
      /\ ~reg => m.at = "load" /\ m.todo = Ships
  BY IdleOf DEF Goroutines, Labels
<1>2. Startup(reg) = [a \in Actors |-> IF a # Main THEN Idle ELSE m]
  BY DEF Startup
<1> HIDE DEF m
<1> QED
  BY <1>1, <1>2, IdleOf, Who

\* All but main is idle.
LEMMA FreshBase ==
  ASSUME Typed, \A a \in Actors : a # Main => act[a] = Idle, MainLane(act[Main])
  PROVE  Base
<1> USE Who
<1>1. Lanes
  BY IdleLane DEF Lanes
<1>2. Alone /\ Digest
  BY IdleOf DEF Alone, Digest, At, ServerOps, LocalOps
<1> QED
  BY <1>1, <1>2 DEF Base

LEMMA RestartDoes ==
  ASSUME Base, Restart
  PROVE  /\ Base'
         /\ \A a \in Actors : a # Main => act'[a] = Idle
         /\ conf.reg => act'[Main].at = "wgconf"
         /\ ~conf.reg => act'[Main].at = "load" /\ act'[Main].todo = Ships
         /\ conf.reg /\ Served => /\ blob'.key = "current" /\ bus' = <<"retrieve">>
                                  /\ blob'.subs = server[conf.endpoint].svc
         /\ ~(conf.reg /\ Served) => blob'.key = "none" /\ bus' = <<>>
<1>1. Typed /\ conf.reg \in BOOLEAN
  BY DEF Base, Typed
<1>2. /\ act' \in [Actors -> Goroutines]
      /\ \A a \in Actors : a # Main => act'[a] = Idle
      /\ conf.reg => act'[Main].at = "wgconf"
      /\ ~conf.reg => act'[Main].at = "load" /\ act'[Main].todo = Ships
  BY <1>1, StartupOf DEF Restart
<1>3. NoBlob \in Answers /\ NoBlob.key = "none"
  BY DEF NoBlob, Answers, NoSubs, Subs, Statuses, KeyPairs
<1>4. /\ blob' \in Answers /\ bus' \in Seq({"retrieve", "complete"})
      /\ conf.reg /\ Served => /\ blob'.key = "current" /\ bus' = <<"retrieve">>
                               /\ blob'.subs = server[conf.endpoint].svc
      /\ ~(conf.reg /\ Served) => blob'.key = "none" /\ bus' = <<>>
  <2>1. CASE conf.reg /\ Served
    <3>1. blob' = Answer(server) /\ bus' = <<"retrieve">>
      BY <2>1 DEF Restart
    <3>2. bus' \in Seq({"retrieve", "complete"})
      BY <3>1
    <3> QED
      BY <1>1, <2>1, <3>1, <3>2, AnswerOf
  <2>2. CASE ~(conf.reg /\ Served)
    <3>1. blob' = NoBlob /\ bus' = <<>>
      BY <2>2 DEF Restart
    <3>2. bus' \in Seq({"retrieve", "complete"})
      BY <3>1
    <3> QED
      BY <1>3, <2>2, <3>1, <3>2
  <2> QED
    BY <2>1, <2>2
<1>5. gs' \in [desired : {"unknown", "running", "died"}, actual : Seen]
  BY DEF Restart, Unknown, Seen
<1>6. events' \in Seq({"start", "stop", "die"})
  <2>1. events' = <<>>
    BY DEF Restart
  <2> QED
    BY <2>1
<1>7. killed' \in BOOLEAN /\ missed' \in BOOLEAN
  BY DEF Restart
<1>8. Typed'
  BY <1>1, <1>2, <1>4, <1>5, <1>6, <1>7 DEF Typed, Restart, Answers
<1>9. MainLane(act'[Main])
  BY <1>1, <1>2 DEF MainLane
<1>10. Base'
  <2>1. Lanes'
    BY <1>2, <1>9, IdleLane, Who DEF Lanes
  <2>2. Alone' /\ Digest'
    BY <1>2, IdleOf, Who DEF Alone, Digest, At, ServerOps, LocalOps
  <2> QED
    BY <1>8, <2>1, <2>2 DEF Base
<1> QED
  BY <1>2, <1>4, <1>10


LEMMA InitBase == Init => Base
<1> SUFFICES ASSUME NEW reg \in BOOLEAN, NEW on \in BOOLEAN, NEW e \in Endpoints,
                    StartsWith(reg, on, e)
             PROVE  Base
  BY DEF Init
<1>1. conf \in Confs /\ gs \in [desired : {"unknown", "running", "died"}, actual : Seen]
  BY DEF StartsWith, Confs, Unknown, Seen
<1>2. pier \in [Ships -> Piers]
  BY DEF StartsWith, Piers, Networks
<1>3. file \in KeyPairs \cup {"mixed"} /\ tunnel \in Tunnels
  BY DEF StartsWith, KeyPairs, Tunnels
<1>4. net \in [Ships -> Networks \cup {"none", "created", "lost"}]
  BY DEF StartsWith, Networks
<1>5. NoSubs \in Subs /\ [s \in Ships |-> "ok"] \in Subs
  BY DEF NoSubs, Subs, Statuses
<1>6. server \in [Endpoints -> Records]
  <2>1. [key |-> "none", svc |-> NoSubs] \in Records
        /\ [key |-> "current", svc |-> [s \in Ships |-> "ok"]] \in Records
    BY <1>5 DEF Records, KeyPairs
  <2> QED
    BY <2>1 DEF StartsWith
<1>7. blob \in Answers
  <2>1. CASE reg
    <3>1. conf.endpoint \in Endpoints /\ server[conf.endpoint].svc \in Subs
      BY <1>1, <1>6 DEF Confs, Records
    <3> QED
      BY <2>1, <3>1 DEF StartsWith, Answer, Answers, KeyPairs
  <2>2. CASE ~reg
    BY <1>5, <2>2 DEF StartsWith, NoBlob, Answers, KeyPairs
  <2> QED
    BY <2>1, <2>2
<1>8. events \in Seq({"start", "stop", "die"}) /\ bus \in Seq({"retrieve", "complete"})
  <2>1. <<>> \in Seq({"start", "stop", "die"}) /\ <<>> \in Seq({"retrieve", "complete"})
        /\ <<"retrieve">> \in Seq({"retrieve", "complete"})
    OBVIOUS
  <2> QED
    BY <2>1 DEF StartsWith
<1>9. /\ act \in [Actors -> Goroutines]
      /\ \A a \in Actors : a # Main => act[a] = Idle
      /\ act[Main].at \in {"wgconf", "load"}
  BY StartupOf, Who DEF StartsWith
<1>10. Typed
  BY <1>1, <1>2, <1>3, <1>4, <1>6, <1>7, <1>8, <1>9
  DEF StartsWith, Typed, Confs, Tunnels, Records, Answers
<1> QED
  BY <1>9, <1>10, FreshBase DEF MainLane

-----------------------------------------------------------------------------
(* Keys                                                                    *)

\* A handler that neither has registered the device nor is about to.
Calm(r) == ~Registered(r) /\ r.at \notin {"post", "set"}
KeysSame ==
  /\ UNCHANGED <<blob, file, gaveUp>>
  /\ conf'.endpoint = conf.endpoint /\ conf'.reg = conf.reg
  /\ \A e \in Endpoints : server'[e].key = server[e].key
  /\ tunnel.key # "mixed" /\ file # "mixed" => tunnel'.key # "mixed"

\* A step that leaves keys and answers alone.
LEMMA KeysCalm ==
  ASSUME Base, KeysOk, NEW a \in Actors, Others(a), KeysSame,
         a = Main => act[a].at # "wgconf" /\ act'[a].at # "wgconf",
         a \in Handlers => \/ Calm(act[a]) /\ Calm(act'[a])
                           \/ act[a].at = "create" /\ act'[a].at \in {"create", "poll"}
  PROVE  KeysOk'
<1> USE Who
<1>1. \A b \in Actors : b # a => act'[b] = act[b]
  BY DEF Others
<1>2. conf.endpoint \in Endpoints /\ conf'.endpoint = conf.endpoint
  BY DEF Base, Typed, KeysSame
<1>3. Served' = Served
  BY <1>2 DEF Served, KeysSame
<1>4. \A e \in Endpoints : server'[e].key = "current" => e = conf'.endpoint /\ conf'.reg
  BY DEF KeysOk, KeysSame
<1>5. \A h \in Handlers : act'[h].at \in {"post", "set"} =>
        \A e \in Endpoints : server'[e].key # "current"
  BY <1>1 DEF KeysOk, KeysSame, Calm
<1>6. \A h \in Handlers : /\ Registered(act'[h]) => Registered(act[h])
                          /\ Registered(act[h]) => Registered(act'[h])
                          /\ Registered(act[h]) /\ act'[h].at # "get" => act[h].at # "get"
  BY <1>1 DEF Calm, Registered
<1>7. \A h \in Handlers : Registered(act'[h]) =>
        server'[conf'.endpoint].key = "current" /\ (act'[h].at # "get" => blob'.key = "current")
  BY <1>2, <1>6 DEF KeysOk, KeysSame
<1>8. act'[Main].at = "wgconf" <=> act[Main].at = "wgconf"
  BY <1>1
<1>9. At(Main, "wgconf")' => blob'.key # "old" /\ (Served' => blob'.key = "current")
  BY <1>3, <1>8 DEF KeysOk, KeysSame, At
<1>10. Served' /\ ~gaveUp' =>
         file' = "current" \/ At(Main, "wgconf")' \/ \E h \in Handlers : Registered(act'[h])
  BY <1>3, <1>6, <1>8 DEF KeysOk, KeysSame, At
<1>11. file' # "mixed" /\ tunnel'.key # "mixed"
  BY DEF KeysOk, KeysSame
<1> QED
  BY <1>4, <1>5, <1>7, <1>9, <1>10, <1>11 DEF KeysOk

LEMMA KeysShared ==
  ASSUME Base, KeysOk, NEW a \in Actors, SharedStep(a)
  PROVE  KeysOk'
<1> USE Who
<1>1. ASSUME FindContainer(a) PROVE KeysOk'
  <2>1. Others(a) /\ act'[a].at = "apply" /\ At(a, "find")
    BY <1>1, FindContainerDoes DEF FindContainer
  <2>2. KeysSame
    BY <1>1 DEF FindContainer, dockVars, startramVars, histVars, KeysSame
  <2> QED
    BY <2>1, <2>2, KeysCalm DEF Calm, Registered, At
<1>2. ASSUME NEW st, At(a, "apply"), Others(a), Back(a, st), KeysSame PROVE KeysOk'
  <2>1. act[a].ret \in {"idle", "known", "announce"}
    BY <1>2, StartLanes DEF At, Lane
  <2>2. act'[a].at \in {"idle", "known", "announce"}
    BY <1>2, <2>1, IdleOf DEF Back
  <2> QED
    BY <1>2, <2>2, KeysCalm DEF Calm, Registered, At
<1>3. ASSUME KeepTunnel(a) PROVE KeysOk'
  <2>1. At(a, "apply") /\ Others(a) /\ Back(a, tunnel.st)
    BY <1>3, KeepTunnelDoes DEF KeepTunnel
  <2>2. KeysSame
    BY <1>3 DEF KeepTunnel, dockVars, startramVars, histVars, KeysSame
  <2> QED
    BY <1>2, <2>1, <2>2
<1>4. ASSUME CreateTunnel(a) PROVE KeysOk'
  <2>1. At(a, "apply") /\ Others(a) /\ Back(a, "running")
    BY <1>4, CreateTunnelDoes DEF CreateTunnel
  <2>2. KeysSame
    BY <1>4 DEF CreateTunnel, startramVars, histVars, KeysSame, Started
  <2> QED
    BY <1>2, <2>1, <2>2
<1>5. ASSUME ReplaceTunnel(a) PROVE KeysOk'
  <2>1. At(a, "apply") /\ Others(a) /\ Back(a, "running")
    BY <1>5, ReplaceTunnelDoes DEF ReplaceTunnel
  <2>2. KeysSame
    BY <1>5 DEF ReplaceTunnel, startramVars, histVars, KeysSame, Started
  <2> QED
    BY <1>2, <2>1, <2>2
<1>6. ASSUME CreateTunnelFails(a) PROVE KeysOk'
  <2>1. /\ At(a, "apply") /\ Others(a)
        /\ act[a].ret = "known" => act'[a] = Idle
        /\ act[a].ret # "known" => Back(a, "none")
    BY <1>6, CreateTunnelFailsDoes DEF CreateTunnelFails
  <2>2. KeysSame
    BY <1>6 DEF CreateTunnelFails, dockVars, startramVars, histVars, KeysSame
  <2>3. CASE act[a].ret = "known"
    BY <2>1, <2>2, <2>3, IdleOf, KeysCalm DEF Calm, Registered, At
  <2> QED
    BY <1>2, <2>1, <2>2, <2>3
<1>7. ASSUME WriteWgConf(a) PROVE KeysOk'
  <2>1. /\ At(a, "wgconf") /\ Others(a) /\ act'[a].at = "find"
        /\ a \in Handlers \cup {Main}
    BY <1>7, WriteWgConfDoes DEF WriteWgConf
  <2>2. /\ UNCHANGED <<conf, blob, server, tunnel>> /\ gaveUp' = FALSE
        /\ file' = IF blob.key = "old" THEN "mixed" ELSE blob.key
    BY <1>7 DEF WriteWgConf, dockVars, startramVars
  <2>3. Served' = Served
    BY <2>2 DEF Served
  <2>4. \A b \in Actors : b # a => act'[b] = act[b]
    BY <2>1 DEF Others
  <2>5. a \in Handlers => Registered(act[a])
    BY <2>1 DEF Registered, At
  <2>6. blob.key # "old" /\ (Served => blob.key = "current")
    BY <2>1, <2>5 DEF KeysOk, At
  <2>7. file' = blob.key /\ file' # "mixed" /\ tunnel'.key # "mixed"
    BY <2>2, <2>6 DEF KeysOk, Base, Typed, KeyPairs
  <2>8. \A h \in Handlers : /\ Registered(act'[h]) => act'[h] = act[h]
                            /\ act'[h].at \in {"post", "set"} => act'[h] = act[h]
    BY <2>1, <2>4 DEF Registered
  <2>9. At(Main, "wgconf")' => At(Main, "wgconf")
    BY <2>1, <2>4 DEF At
  <2> QED
    BY <2>2, <2>3, <2>6, <2>7, <2>8, <2>9 DEF KeysOk
<1>8. ASSUME StoreState(a) PROVE KeysOk'
  <2>1. /\ At(a, "known") /\ Others(a) /\ act'[a].at \in {"load", "idle"}
    BY <1>8, StoreStateDoes, IdleOf DEF StoreState
  <2>2. KeysSame
    BY <1>8 DEF StoreState, dockVars, histVars, KeysSame
  <2> QED
    BY <2>1, <2>2, KeysCalm DEF Calm, Registered, At
<1>9. ASSUME NEW s \in Ships, LoadShip(a, s) PROVE KeysOk'
  <2>1. /\ At(a, "load") /\ Others(a) /\ act'[a].at \in {"load", "idle"}
    BY <1>9, LoadShipDoes
  <2>2. KeysSame
    BY <1>9 DEF LoadShip, startramVars, histVars, KeysSame
  <2> QED
    BY <2>1, <2>2, KeysCalm DEF Calm, Registered, At
<1> QED
  BY <1>1, <1>3, <1>4, <1>5, <1>6, <1>7, <1>8, <1>9 DEF SharedStep

LEMMA KeysLoops ==
  ASSUME Base, KeysOk, RectifyStep \/ TakeDockerEvent \/ MakeBroadcast
  PROVE  KeysOk'
<1> USE Who
<1>1. CASE TakeEvent
  BY <1>1, TakeEventDoes, KeysCalm DEF TakeEvent, dockVars, histVars, KeysSame
<1>2. CASE Complete
  <2>1. KeysSame
    BY <1>2 DEF Complete, dockVars, startramVars, KeysSame, Base, Typed
  <2> QED
    BY <1>2, <2>1, CompleteDoes, KeysCalm
<1>3. CASE CreateMissing
  <2>1. KeysSame
    BY <1>3, CreateMissingDoes, ServiceMade DEF CreateMissing, dockVars, histVars, KeysSame, Base
  <2> QED
    BY <1>3, <2>1, CreateMissingDoes, KeysCalm
<1>4. CASE StoreShip
  BY <1>4, StoreShipDoes, KeysCalm DEF StoreShip, dockVars, startramVars, histVars, KeysSame
<1>5. ASSUME NEW s \in Ships, ReadShip(s) PROVE KeysOk'
  BY <1>5, ReadShipDoes, KeysCalm DEF ReadShip, dockVars, startramVars, histVars, KeysSame
<1>6. CASE TakeDockerEvent
  <2>1. Others(EL) /\ conf'.endpoint = conf.endpoint /\ conf'.reg = conf.reg
    BY <1>6, TakeDockerEventDoes DEF Base, Typed
  <2>2. KeysSame
    BY <1>6, <2>1 DEF TakeDockerEvent, startramVars, KeysSame
  <2> QED
    BY <2>1, <2>2, KeysCalm
<1>7. CASE MakeBroadcast
  <2>1. KeysSame
    BY <1>7, MakeBroadcastDoes DEF MakeBroadcast, dockVars, startramVars, KeysSame
  <2> QED
    BY <1>7, <2>1, MakeBroadcastDoes, KeysCalm
<1> QED
  BY <1>1, <1>2, <1>3, <1>4, <1>5, <1>6, <1>7 DEF RectifyStep


LEMMA KeysLocal ==
  ASSUME Base, KeysOk, NEW h \in Handlers,
         \/ Begin(h) \/ ReadNetwork(h) \/ StoreNetwork(h) \/ DeleteShip(h) \/ StartShip(h)
         \/ TurnOn(h) \/ TurnOff(h) \/ StopWireguard(h) \/ ShipsLocal(h)
         \/ RestartStops(h) \/ RestartStarts(h) \/ LoadAgain(h)
         \/ \E s \in Ships : LocalShip(h, s) \/ DropShip(h, s)
  PROVE  KeysOk'
<1> USE Who
<1>0. ASSUME Others(h), KeysSame, Calm(act[h]), Calm(act'[h]) PROVE KeysOk'
  BY <1>0, KeysCalm
<1>1. CASE Begin(h)
  BY <1>0, <1>1, BeginDoes
  DEF Begin, dockVars, startramVars, histVars, KeysSame, Calm, Registered, At
<1>2. CASE ReadNetwork(h)
  BY <1>0, <1>2, ReadNetworkDoes
  DEF ReadNetwork, dockVars, startramVars, histVars, KeysSame, Calm, Registered, At
<1>3. CASE StoreNetwork(h)
  BY <1>0, <1>3, StoreNetworkDoes
  DEF StoreNetwork, dockVars, startramVars, histVars, KeysSame, Calm, Registered, At
<1>4. CASE DeleteShip(h)
  BY <1>0, <1>4, DeleteShipDoes
  DEF DeleteShip, startramVars, histVars, KeysSame, Calm, Registered, At
<1>5. CASE StartShip(h)
  BY <1>0, <1>5, StartShipDoes
  DEF StartShip, startramVars, histVars, KeysSame, Calm, Registered, At
<1>6. CASE TurnOn(h)
  <2>1. conf'.endpoint = conf.endpoint /\ conf'.reg = conf.reg
    BY <1>6, SwitchTo DEF TurnOn, Base
  <2> QED
    BY <1>0, <1>6, <2>1, TurnOnDoes
    DEF TurnOn, dockVars, startramVars, histVars, KeysSame, Calm, Registered, At
<1>7. CASE TurnOff(h)
  <2>1. conf'.endpoint = conf.endpoint /\ conf'.reg = conf.reg
    BY <1>7, SwitchTo DEF TurnOff, Base
  <2> QED
    BY <1>0, <1>7, <2>1, TurnOffDoes
    DEF TurnOff, dockVars, startramVars, histVars, KeysSame, Calm, Registered, At
<1>8. CASE StopWireguard(h)
  <2>1. tunnel'.key = tunnel.key
    <3>1. CASE Running
      BY <1>8, <3>1, StopTunnelOf DEF StopWireguard, Base
    <3>2. CASE ~Running
      BY <1>8, <3>2 DEF StopWireguard, dockVars
    <3> QED
      BY <3>1, <3>2
  <2>2. Calm(act[h]) /\ Calm(act'[h]) /\ Others(h)
    BY <1>8, StopWireguardDoes DEF Calm, Registered
  <2> QED
    BY <1>0, <1>8, <2>1, <2>2 DEF StopWireguard, startramVars, histVars, KeysSame
<1>9. CASE ShipsLocal(h)
  BY <1>0, <1>9, ShipsLocalDoes, IdleOf
  DEF ShipsLocal, dockVars, startramVars, histVars, KeysSame, Calm, Registered, At
<1>10. CASE RestartStops(h)
  <2>1. tunnel'.key = tunnel.key
    <3>1. CASE Running
      BY <1>10, <3>1, StopTunnelOf DEF RestartStops, Base
    <3>2. CASE ~Running
      BY <1>10, <3>2 DEF RestartStops, dockVars
    <3> QED
      BY <3>1, <3>2
  <2>2. Calm(act[h]) /\ Calm(act'[h]) /\ Others(h)
    BY <1>10, RestartStopsDoes DEF Calm, Registered, At
  <2> QED
    BY <1>0, <1>10, <2>1, <2>2 DEF RestartStops, startramVars, histVars, KeysSame
<1>11. CASE RestartStarts(h)
  <2>1. tunnel.key # "mixed" /\ file # "mixed" => tunnel'.key # "mixed"
    BY <1>11 DEF RestartStarts, Started
  <2>2. Calm(act[h]) /\ Calm(act'[h]) /\ Others(h)
    BY <1>11, RestartStartsDoes DEF Calm, Registered, At
  <2> QED
    BY <1>0, <1>11, <2>1, <2>2 DEF RestartStarts, startramVars, histVars, KeysSame
<1>12. CASE LoadAgain(h)
  BY <1>0, <1>12, LoadAgainDoes
  DEF LoadAgain, dockVars, startramVars, histVars, KeysSame, Calm, Registered, At
<1>13. ASSUME NEW s \in Ships, LocalShip(h, s) PROVE KeysOk'
  BY <1>0, <1>13, LocalShipDoes
  DEF LocalShip, dockVars, startramVars, histVars, KeysSame, Calm, Registered, At
<1>14. ASSUME NEW s \in Ships, DropShip(h, s) PROVE KeysOk'
  BY <1>0, <1>14, DropShipDoes
  DEF DropShip, startramVars, histVars, KeysSame, Calm, Registered, At
<1> QED
  BY <1>1, <1>2, <1>3, <1>4, <1>5, <1>6, <1>7, <1>8, <1>9, <1>10, <1>11, <1>12, <1>13, <1>14

\* A step of the one handler that reaches the server: nobody else is on the way.
LEMMA OnlyOne ==
  ASSUME Base, NEW h \in Handlers, act[h].op \in ServerOps, Others(h)
  PROVE  /\ act[Main].at = "idle" /\ act'[Main].at = "idle"
         /\ \A g \in Handlers : g # h => act[g].at = "idle" /\ act'[g].at = "idle"
                                         /\ act[g].op = "none"
<1> USE Who
<1>1. act[Main].at = "idle" /\ \A g \in Handlers : g # h => act[g].at = "idle"
  BY DEF Base, Alone, At
<1>2. \A b \in Actors : b # h => act'[b] = act[b]
  BY DEF Others
<1>3. \A g \in Handlers : g # h => act[g].op = "none"
  BY <1>1, IdleOp DEF Base, Lanes
<1> QED
  BY <1>1, <1>2, <1>3

LEMMA KeysServer ==
  ASSUME Base, KeysOk, NEW h \in Handlers,
         \/ CycleWgKey(h) \/ PostRegister(h) \/ RegisterFails(h) \/ GetAnswer(h)
         \/ PollEnds(h) \/ PollAgain(h) \/ PollTimesOut(h)
         \/ ServicesDeleted(h) \/ SetEndpoint(h) \/ CancelSub(h)
         \/ \E s \in Ships : CreateService(h, s) \/ DeleteService(h, s)
  PROVE  KeysOk'
<1> USE Who
<1>e. conf.endpoint \in Endpoints
  BY DEF Base, Typed
\* what is left to show when nobody else is on the way
<1>0. ASSUME act[h].op \in ServerOps, Others(h),
             \A e \in Endpoints : server'[e].key = "current" => e = conf'.endpoint /\ conf'.reg,
             act'[h].at \in {"post", "set"} => \A e \in Endpoints : server'[e].key # "current",
             Registered(act'[h]) =>
               server'[conf'.endpoint].key = "current" /\ (act'[h].at # "get" => blob'.key = "current"),
             server'[conf'.endpoint].key = "current" /\ ~gaveUp' =>
               file' = "current" \/ Registered(act'[h]),
             file' # "mixed", tunnel'.key # "mixed"
      PROVE  KeysOk'
  <2>1. act'[Main].at # "wgconf" /\ \A g \in Handlers : g # h => act'[g].at = "idle"
    BY <1>0, OnlyOne
  <2>2. \A g \in Handlers : g # h => ~Registered(act'[g]) /\ act'[g].at \notin {"post", "set"}
    BY <2>1 DEF Registered
  <2> QED
    BY <1>0, <2>1, <2>2 DEF KeysOk, Served, At
\* what is known before
<1>k. ASSUME act[h].op \in ServerOps, Others(h)
      PROVE  /\ file # "mixed" /\ tunnel.key # "mixed"
             /\ \A e \in Endpoints : server[e].key = "current" => e = conf.endpoint /\ conf.reg
             /\ Registered(act[h]) =>
                  server[conf.endpoint].key = "current" /\ (act[h].at # "get" => blob.key = "current")
             /\ server[conf.endpoint].key = "current" /\ ~gaveUp =>
                  file = "current" \/ Registered(act[h])
  <2>1. act[Main].at # "wgconf" /\ \A g \in Handlers : g # h => act[g].at = "idle"
    BY <1>k, OnlyOne
  <2>2. \A g \in Handlers : g # h => ~Registered(act[g])
    BY <2>1 DEF Registered
  <2> QED
    BY <2>1, <2>2 DEF KeysOk, Served, At
<1>1. CASE CycleWgKey(h)
  <2>1. /\ act[h].op \in ServerOps /\ Others(h)
        /\ act'[h].at \in {"post", "set", "idle"}
        /\ \A e \in Endpoints : server'[e].key # "current"
        /\ file' = Aged(file) /\ tunnel'.key = Aged(tunnel.key)
    BY <1>1, CycleWgKeyDoes, IdleOf
  <2>2. conf' = conf /\ ~Registered(act'[h])
    BY <1>1, <2>1 DEF CycleWgKey, Registered
  <2>3. file' # "mixed" /\ tunnel'.key # "mixed"
    BY <1>k, <2>1, AgedOf
  <2> QED
    BY <1>0, <1>e, <2>1, <2>2, <2>3
<1>2. CASE PostRegister(h)
  <2>1. act[h].op \in ServerOps /\ Others(h) /\ Registered(act'[h]) /\ act'[h].at = "get"
    BY <1>2, PostRegisterDoes DEF ServerOps, Registered
  <2>2. \A e \in Endpoints : server[e].key # "current"
    BY <1>2, PostRegisterDoes DEF KeysOk, At
  <2>3. file' = file /\ tunnel' = tunnel
    BY <1>2 DEF PostRegister, dockVars
  <2> QED
    BY <1>0, <1>k, <1>2, <2>1, <2>2, <2>3, PostRegisterDoes
<1>3. CASE RegisterFails(h)
  <2>1. /\ act[h].op \in ServerOps /\ Others(h) /\ ~Registered(act'[h])
        /\ act'[h].at = "idle" /\ conf'.endpoint = conf.endpoint
    BY <1>3, RegisterFailsDoes, IdleOf DEF ServerOps, Registered
  <2>2. \A e \in Endpoints : server[e].key # "current"
    BY <1>3, RegisterFailsDoes DEF KeysOk, At
  <2>3. file' = file /\ tunnel' = tunnel /\ server' = server
    BY <1>3 DEF RegisterFails, dockVars, startramVars
  <2> QED
    BY <1>0, <1>e, <1>k, <2>1, <2>2, <2>3
\* a retrieve of the handler that leaves it at an ordinary place
<1>r. ASSUME Retrieved(server), act[h].op \in ServerOps, Others(h), server' = server,
             file' = file, tunnel' = tunnel, act'[h].at \notin {"post", "set", "get"},
             Registered(act'[h]) => Registered(act[h]),
             Registered(act[h]) => Registered(act'[h]) \/ gaveUp',
             gaveUp' = gaveUp \/ gaveUp' = TRUE
      PROVE  KeysOk'
  <2>1. conf'.endpoint = conf.endpoint
    BY <1>r, RetrievedDoes DEF Base
  <2>2. Served => blob'.key = "current" /\ conf'.reg = TRUE
    BY <1>r, RetrievedDoes DEF Base, Fetched
  <2>3. ~Served => conf' = conf
    BY <1>r, RetrievedDoes DEF Base
  <2>4. \A e \in Endpoints : server'[e].key = "current" => e = conf'.endpoint /\ conf'.reg
    BY <1>k, <1>r, <2>1, <2>2, <2>3 DEF Served
  <2>5. Registered(act'[h]) => server'[conf'.endpoint].key = "current" /\ blob'.key = "current"
    BY <1>k, <1>r, <2>1, <2>2 DEF Served
  <2>6. server'[conf'.endpoint].key = "current" /\ ~gaveUp' =>
          file' = "current" \/ Registered(act'[h])
    BY <1>k, <1>r, <2>1
  <2> QED
    BY <1>0, <1>k, <1>r, <2>4, <2>5, <2>6
<1>4. CASE GetAnswer(h)
  <2>1. /\ act[h].op \in ServerOps /\ Others(h) /\ Retrieved(server) /\ At(h, "get")
        /\ act[h].ret \in {"create", "delete"}
        /\ \/ act'[h] = Idle /\ ~Served
           \/ act'[h].at = act[h].ret /\ act'[h].ret = act[h].ret
    BY <1>4, GetAnswerDoes
  <2>2. file' = file /\ tunnel' = tunnel /\ server' = server /\ gaveUp' = gaveUp
    BY <1>4 DEF GetAnswer, dockVars, histVars
  <2>3. Registered(act[h]) => Served
    BY <1>k, <2>1 DEF Served
  <2>4. /\ act'[h].at \notin {"post", "set", "get"}
        /\ Registered(act'[h]) <=> Registered(act[h])
    BY <2>1, <2>3, IdleOf DEF Registered, At
  <2> QED
    BY <1>r, <2>1, <2>2, <2>4
<1>5. CASE PollEnds(h)
  <2>1. /\ act[h].op \in ServerOps /\ Others(h) /\ Retrieved(server)
        /\ Registered(act[h]) /\ Registered(act'[h]) /\ act'[h].at = "wgconf"
    BY <1>5, PollEndsDoes DEF ServerOps, Registered, At
  <2>2. file' = file /\ tunnel' = tunnel /\ server' = server /\ gaveUp' = gaveUp
    BY <1>5 DEF PollEnds, dockVars, histVars
  <2> QED
    BY <1>r, <2>1, <2>2
<1>6. CASE PollAgain(h)
  <2>1. /\ act[h].op \in ServerOps /\ Others(h) /\ Retrieved(server)
        /\ Registered(act[h]) /\ Registered(act'[h]) /\ act'[h].at = "poll"
    BY <1>6, PollAgainDoes DEF ServerOps, Registered, At, Others
  <2>2. file' = file /\ tunnel' = tunnel /\ server' = server /\ gaveUp' = gaveUp
    BY <1>6 DEF PollAgain, dockVars, histVars
  <2> QED
    BY <1>r, <2>1, <2>2
<1>7. CASE PollTimesOut(h)
  <2>1. /\ act[h].op \in ServerOps /\ Others(h) /\ Retrieved(server)
        /\ ~Registered(act'[h]) /\ act'[h].at = "idle"
    BY <1>7, PollTimesOutDoes, IdleOf DEF ServerOps, Registered
  <2>2. file' = file /\ tunnel' = tunnel /\ server' = server /\ gaveUp' = TRUE
    BY <1>7 DEF PollTimesOut, dockVars
  <2> QED
    BY <1>r, <2>1, <2>2
<1>8. CASE ServicesDeleted(h)
  <2>1. Others(h) /\ Calm(act[h]) /\ Calm(act'[h])
    BY <1>8, ServicesDeletedDoes DEF Calm, Registered, At
  <2> QED
    BY <1>8, <2>1, KeysCalm DEF ServicesDeleted, dockVars, startramVars, histVars, KeysSame
<1>9. CASE SetEndpoint(h)
  <2>1. /\ act[h].op \in ServerOps /\ Others(h) /\ ~Registered(act'[h])
        /\ act'[h].at = "idle" /\ conf'.endpoint \in Endpoints
    BY <1>9, SetEndpointDoes, IdleOf DEF ServerOps, Registered
  <2>2. \A e \in Endpoints : server[e].key # "current"
    BY <1>9, SetEndpointDoes DEF KeysOk, At
  <2>3. file' = file /\ tunnel' = tunnel /\ server' = server
    BY <1>9 DEF SetEndpoint, dockVars, startramVars
  <2> QED
    BY <1>0, <1>e, <1>k, <2>1, <2>2, <2>3
<1>10. CASE CancelSub(h)
  <2>1. /\ act[h].op \in ServerOps /\ Others(h)
        /\ act'[h].at \in {"idle", "ckey"} /\ act[h].at = "cancel"
        /\ \A e \in Endpoints : server'[e].key \in {"none", server[e].key}
    BY <1>10, CancelSubDoes, IdleOf DEF ServerOps, At
  <2>2. file' = file /\ tunnel' = tunnel /\ conf' = conf /\ gaveUp' = gaveUp
    BY <1>10 DEF CancelSub, dockVars, histVars
  <2>3. ~Registered(act[h]) /\ ~Registered(act'[h])
    BY <2>1 DEF Registered
  <2>4. \A e \in Endpoints : server'[e].key = "current" => server[e].key = "current"
    BY <2>1
  <2> QED
    BY <1>0, <1>e, <1>k, <2>1, <2>2, <2>3, <2>4
<1>11. ASSUME NEW s \in Ships, CreateService(h, s) PROVE KeysOk'
  <2>1. Others(h) /\ act[h].at = "create" /\ act'[h].at \in {"create", "poll"}
    BY <1>11, CreateServiceDoes DEF At
  <2>2. KeysSame
    BY <1>11, ServiceMade DEF CreateService, dockVars, histVars, KeysSame, Base
  <2> QED
    BY <2>1, <2>2, KeysCalm
<1>12. ASSUME NEW s \in Ships, DeleteService(h, s) PROVE KeysOk'
  <2>1. Others(h) /\ Calm(act[h]) /\ Calm(act'[h])
    BY <1>12, DeleteServiceDoes DEF Calm, Registered, At
  <2>2. KeysSame
    BY <1>12, DeleteServiceDoes DEF DeleteService, dockVars, histVars, KeysSame
  <2> QED
    BY <2>1, <2>2, KeysCalm
<1> QED
  BY <1>1, <1>2, <1>3, <1>4, <1>5, <1>6, <1>7, <1>8, <1>9, <1>10, <1>11, <1>12

LEMMA KeysWorld ==
  ASSUME Base, KeysOk,
         (\E e \in Endpoints, s \in Ships : ServiceReady(e, s)) \/ TunnelDies \/ Restart
  PROVE  KeysOk'
<1> USE Who
<1>1. ASSUME NEW e \in Endpoints, NEW s \in Ships, ServiceReady(e, s) PROVE KeysOk'
  <2>1. KeysSame /\ Others(EL)
    BY <1>1, ServiceReadyDoes DEF ServiceReady, dockVars, histVars, KeysSame, Others
  <2> QED
    BY <2>1, KeysCalm
<1>2. CASE TunnelDies
  <2>1. KeysSame /\ Others(EL)
    BY <1>2, TunnelDiesDoes DEF TunnelDies, startramVars, histVars, KeysSame, Others
  <2> QED
    BY <2>1, KeysCalm
<1>3. CASE Restart
  <2>1. /\ \A h \in Handlers : act'[h].at = "idle"
        /\ conf.reg => act'[Main].at = "wgconf"
        /\ ~conf.reg => act'[Main].at = "load"
        /\ conf.reg /\ Served => blob'.key = "current"
        /\ ~(conf.reg /\ Served) => blob'.key = "none"
    BY <1>3, RestartDoes, IdleOf
  <2>2. UNCHANGED <<conf, server, file, tunnel, gaveUp>> /\ conf.endpoint \in Endpoints
    BY <1>3 DEF Restart, Base, Typed
  <2>3. \A h \in Handlers : ~Registered(act'[h]) /\ act'[h].at \notin {"post", "set"}
    BY <2>1 DEF Registered
  <2>4. Served' = Served /\ (Served => conf.reg)
    BY <2>2 DEF Served, KeysOk
  <2> QED
    BY <2>1, <2>2, <2>3, <2>4 DEF KeysOk, At
<1> QED
  BY <1>1, <1>2, <1>3

LEMMA KeysStay ==
  ASSUME Base, KeysOk, Next
  PROVE  KeysOk'
<1>1. ASSUME NEW h \in Handlers, HandlerStep(h) PROVE KeysOk'
  BY <1>1, KeysLocal, KeysServer DEF HandlerStep
<1>2. ASSUME NEW a \in Actors, SharedStep(a) PROVE KeysOk'
  BY <1>2, KeysShared
<1>3. CASE RectifyStep \/ TakeDockerEvent \/ MakeBroadcast
  BY <1>3, KeysLoops
<1>4. CASE (\E e \in Endpoints, s \in Ships : ServiceReady(e, s)) \/ TunnelDies \/ Restart
  BY <1>4, KeysWorld
<1> QED
  BY <1>1, <1>2, <1>3, <1>4 DEF Next


-----------------------------------------------------------------------------
(* Queues                                                                  *)

LEMMA InsideAppend ==
  ASSUME NEW S, NEW q \in Seq(S), NEW y \in S, NEW x
  PROVE  Inside(x, Append(q, y)) <=> Inside(x, q) \/ x = y
<1>1. Len(q) \in Nat /\ Len(Append(q, y)) = Len(q) + 1 /\ Append(q, y)[Len(q) + 1] = y
  BY AppendProperties
<1>2. \A i \in 1..Len(q) : Append(q, y)[i] = q[i]
  BY AppendProperties
<1>3. ASSUME Inside(x, Append(q, y)) PROVE Inside(x, q) \/ x = y
  <2>1. PICK i \in 1..(Len(q) + 1) : Append(q, y)[i] = x
    BY <1>1, <1>3 DEF Inside
  <2>2. i = Len(q) + 1 \/ i \in 1..Len(q)
    BY <1>1
  <2> QED
    BY <1>1, <1>2, <2>1, <2>2 DEF Inside
<1>4. ASSUME Inside(x, q) PROVE Inside(x, Append(q, y))
  <2>1. PICK i \in 1..Len(q) : q[i] = x
    BY <1>4 DEF Inside
  <2>2. i \in 1..(Len(q) + 1)
    BY <1>1
  <2> QED
    BY <1>1, <1>2, <2>1, <2>2 DEF Inside
<1>5. ASSUME x = y PROVE Inside(x, Append(q, y))
  <2>1. Len(q) + 1 \in 1..Len(Append(q, y))
    BY <1>1
  <2> QED
    BY <1>1, <1>5, <2>1 DEF Inside
<1> QED
  BY <1>3, <1>4, <1>5

LEMMA InsideTail ==
  ASSUME NEW S, NEW q \in Seq(S), q # <<>>, NEW x
  PROVE  Inside(x, q) <=> x = Head(q) \/ Inside(x, Tail(q))
<1>1. /\ Len(q) \in Nat \ {0} /\ Head(q) = q[1] /\ Len(Tail(q)) = Len(q) - 1
      /\ \A i \in 1..Len(Tail(q)) : Tail(q)[i] = q[i + 1]
  BY HeadTailProperties, EmptySeq
<1>2. ASSUME Inside(x, q) PROVE x = Head(q) \/ Inside(x, Tail(q))
  <2>1. PICK i \in 1..Len(q) : q[i] = x
    BY <1>2 DEF Inside
  <2>2. CASE i = 1
    BY <1>1, <2>1, <2>2
  <2>3. CASE i # 1
    <3>1. i - 1 \in 1..Len(Tail(q)) /\ (i - 1) + 1 = i
      BY <1>1, <2>3
    <3>2. Tail(q)[i - 1] = x
      BY <1>1, <2>1, <3>1
    <3> QED
      BY <3>1, <3>2 DEF Inside
  <2> QED
    BY <2>2, <2>3
<1>3. ASSUME Inside(x, Tail(q)) PROVE Inside(x, q)
  <2>1. PICK i \in 1..Len(Tail(q)) : Tail(q)[i] = x
    BY <1>3 DEF Inside
  <2>2. i + 1 \in 1..Len(q) /\ q[i + 1] = x
    BY <1>1, <2>1
  <2> QED
    BY <2>2 DEF Inside
<1>4. ASSUME x = Head(q) PROVE Inside(x, q)
  <2>1. 1 \in 1..Len(q) /\ q[1] = x
    BY <1>1, <1>4
  <2> QED
    BY <2>1 DEF Inside
<1> QED
  BY <1>2, <1>3, <1>4

\* What the bus holds after an event was put on it or taken from it.
LEMMA BusAppend ==
  ASSUME Typed, NEW y \in {"retrieve", "complete"}, bus' = Append(bus, y), NEW x
  PROVE  Inside(x, bus') <=> Inside(x, bus) \/ x = y
<1>1. bus \in Seq({"retrieve", "complete"})
  BY DEF Typed
<1>2. Inside(x, Append(bus, y)) <=> Inside(x, bus) \/ x = y
  BY <1>1, InsideAppend
<1> QED
  BY <1>2 DEF Inside

LEMMA BusTail ==
  ASSUME Typed, bus # <<>>, bus' = Tail(bus), NEW x
  PROVE  Inside(x, bus) <=> x = Head(bus) \/ Inside(x, bus')
<1>1. bus \in Seq({"retrieve", "complete"})
  BY DEF Typed
<1>2. Inside(x, bus) <=> x = Head(bus) \/ Inside(x, Tail(bus))
  BY <1>1, InsideTail
<1> QED
  BY <1>2 DEF Inside

-----------------------------------------------------------------------------
(* Services                                                                *)

Lacking(s) == server[conf.endpoint].svc[s] = "none"

LEMMA ServicesUnfold ==
  ServicesOk <=> (Served /\ ~Asking => \A s \in Ships : Lacking(s) =>
                                         blob.subs[s] = "none" /\ Noted(s))
BY DEF ServicesOk, Lacking

\* The records of the server stay, or gain services.
Serving ==
  /\ conf'.endpoint = conf.endpoint
  /\ \A e \in Endpoints : /\ server'[e].key = server[e].key
        /\ \A s \in Ships : server'[e].svc[s] = "none" => server[e].svc[s] = "none"

\* A step that leaves the answers alone and is not RectifyUrbit's.
LEMMA ServicesCalm ==
  ASSUME Base, ServicesOk, NEW a \in Actors, a # RU, Others(a), Serving, blob' = blob,
         bus' = bus \/ bus' = Append(bus, "complete"),
         a \in Handlers /\ At(a, "get") => act'[a].at = "get"
  PROVE  ServicesOk'
<1> USE Who
<1>1. \A b \in Actors : b # a => act'[b] = act[b]
  BY DEF Others
<1>2. conf.endpoint \in Endpoints /\ Typed
  BY DEF Base, Typed
<1>3. Served' = Served /\ \A s \in Ships : server'[conf'.endpoint].svc[s] = "none" => Lacking(s)
  BY <1>2 DEF Served, Serving, Lacking
<1>4. Asking => Asking'
  BY <1>1 DEF Asking, At
<1>5. Inside("retrieve", bus) => Inside("retrieve", bus')
  BY <1>2, BusAppend DEF Inside
<1>6. ASSUME NEW s \in Ships, Noted(s) PROVE Noted(s)'
  BY <1>1, <1>5, <1>6 DEF Noted, At
<1> QED
  BY <1>3, <1>4, <1>6 DEF ServicesOk, Lacking

\* A step after which the server does not know the device.
LEMMA ServicesUnserved ==
  ASSUME ~Served'
  PROVE  ServicesOk'
BY DEF ServicesOk

LEMMA ServicesShared ==
  ASSUME Base, ServicesOk, NEW a \in Actors, SharedStep(a)
  PROVE  ServicesOk'
<1> USE Who
<1>0. ASSUME a # RU, act[a].at # "get", Others(a), UNCHANGED <<conf, server, blob>>,
             bus' = bus \/ bus' = Append(bus, "complete")
      PROVE  ServicesOk'
  BY <1>0, ServicesCalm DEF Serving, At
<1>a. act[a].at \in {"find", "apply"} => a # RU
  BY StartLanes
<1>1. CASE FindContainer(a)
  BY <1>0, <1>1, <1>a, FindContainerDoes DEF FindContainer, startramVars, At
<1>2. CASE KeepTunnel(a)
  BY <1>0, <1>2, <1>a, KeepTunnelDoes DEF KeepTunnel, startramVars, At
<1>3. CASE CreateTunnel(a)
  BY <1>0, <1>3, <1>a, CreateTunnelDoes DEF CreateTunnel, startramVars, At
<1>4. CASE CreateTunnelFails(a)
  BY <1>0, <1>4, <1>a, CreateTunnelFailsDoes DEF CreateTunnelFails, startramVars, At
<1>5. CASE ReplaceTunnel(a)
  BY <1>0, <1>5, <1>a, ReplaceTunnelDoes DEF ReplaceTunnel, startramVars, At
<1>6. CASE WriteWgConf(a)
  BY <1>0, <1>6, WriteWgConfDoes DEF WriteWgConf, startramVars, At
<1>7. CASE StoreState(a)
  BY <1>0, <1>7, StoreStateDoes DEF StoreState, At
<1>8. ASSUME NEW s \in Ships, LoadShip(a, s) PROVE ServicesOk'
  BY <1>0, <1>8, LoadShipDoes DEF LoadShip, startramVars, At
<1> QED
  BY <1>1, <1>2, <1>3, <1>4, <1>5, <1>6, <1>7, <1>8 DEF SharedStep

LEMMA ServicesLoops ==
  ASSUME Base, ServicesOk, RectifyStep \/ TakeDockerEvent \/ MakeBroadcast
  PROVE  ServicesOk'
<1> USE Who
<1>e. conf.endpoint \in Endpoints /\ Typed
  BY DEF Base, Typed
\* what is left to show of a step of RectifyUrbit
<1>0. ASSUME Others(RU), conf'.endpoint = conf.endpoint, blob' = blob,
             \A e \in Endpoints : server'[e].key = server[e].key,
             \A s \in Ships : server'[conf.endpoint].svc[s] = "none" /\ Served => Lacking(s),
             \A s \in Ships : server'[conf.endpoint].svc[s] = "none" /\ Lacking(s) /\ Served /\
               Noted(s) /\ blob.subs[s] = "none" => Noted(s)'
      PROVE  ServicesOk'
  <2>1. \A h \in Handlers : act'[h] = act[h]
    BY <1>0 DEF Others
  <2>2. Asking' <=> Asking
    BY <2>1 DEF Asking, At
  <2>3. Served' <=> Served
    BY <1>0, <1>e DEF Served
  <2> QED
    BY <1>0, <2>2, <2>3 DEF ServicesOk, Lacking
<1>1. CASE TakeEvent
  <2>1. /\ Others(RU) /\ At(RU, "idle") /\ bus # <<>> /\ bus' = Tail(bus)
        /\ Head(bus) = "retrieve" => act'[RU].at = "ship" /\ act'[RU].todo = Ships
    BY <1>1, TakeEventDoes
  <2>2. UNCHANGED <<conf, blob, server>>
    BY <1>1 DEF TakeEvent
  <2>3. Inside("retrieve", bus) <=> "retrieve" = Head(bus) \/ Inside("retrieve", bus')
    BY <1>e, <2>1, BusTail
  <2>4. ASSUME NEW s \in Ships, Noted(s) PROVE Noted(s)'
    BY <2>1, <2>3, <2>4 DEF Noted, At
  <2> QED
    BY <1>0, <2>1, <2>2, <2>4 DEF Lacking
<1>2. CASE Complete
  <2>1. /\ Others(RU) /\ At(RU, "complete") /\ conf'.endpoint = conf.endpoint
    BY <1>2, <1>e, CompleteDoes DEF Complete, Typed
  <2>2. UNCHANGED <<blob, bus, server>>
    BY <1>2 DEF Complete, startramVars
  <2>3. ASSUME NEW s \in Ships, Noted(s) PROVE Noted(s)'
    BY <2>1, <2>2, <2>3 DEF Noted, At
  <2> QED
    BY <1>0, <2>1, <2>2, <2>3 DEF Lacking
<1>3. CASE CreateMissing
  <2>1. /\ Others(RU) /\ Keeps(RU) /\ At(RU, "missing") /\ act'[RU].at = "store"
        /\ act[RU].ship \in Ships
    BY <1>3, CreateMissingDoes
  <2>2. UNCHANGED <<conf, blob, bus>> /\ server' = SvcCreated(act[RU].ship)
    BY <1>3 DEF CreateMissing
  <2>3. /\ \A e \in Endpoints : server'[e].key = server[e].key
        /\ \A s \in Ships : server'[conf.endpoint].svc[s] = "none" => Lacking(s)
        /\ Served => server'[conf.endpoint].svc[act[RU].ship] # "none"
    BY <1>e, <2>1, <2>2, ServiceMade DEF Lacking
  <2>4. ASSUME NEW s \in Ships, Noted(s), s # act[RU].ship PROVE Noted(s)'
    BY <2>1, <2>2, <2>4 DEF Noted, At, Keeps
  <2> QED
    BY <1>0, <2>1, <2>2, <2>3, <2>4
<1>4. CASE StoreShip
  <2>1. /\ Others(RU) /\ At(RU, "store") /\ act[RU].ship \in Ships
        /\ act[RU].todo = {act[RU].ship} => act'[RU] = Idle
        /\ act[RU].todo # {act[RU].ship} =>
              act'[RU].at = "ship" /\ act'[RU].todo = act[RU].todo \ {act[RU].ship}
    BY <1>4, StoreShipDoes
  <2>2. UNCHANGED <<conf, blob, bus, server>>
    BY <1>4 DEF StoreShip, startramVars
  <2>3. ASSUME NEW s \in Ships, Noted(s) PROVE Noted(s)'
    BY <2>1, <2>2, <2>3 DEF Noted, At
  <2> QED
    BY <1>0, <2>1, <2>2, <2>3 DEF Lacking
<1>5. ASSUME NEW r \in Ships, ReadShip(r) PROVE ServicesOk'
  <2>1. /\ Others(RU) /\ At(RU, "ship") /\ r \in act[RU].todo
        /\ act'[RU].todo = act[RU].todo /\ act'[RU].ship = r
        /\ act'[RU].at \in {"missing", "store"}
        /\ blob.subs[r] = "none" => act'[RU].at = "missing"
    BY <1>5, ReadShipDoes
  <2>2. UNCHANGED <<conf, blob, bus, server>>
    BY <1>5 DEF ReadShip, startramVars
  <2>3. ASSUME NEW s \in Ships, Noted(s), blob.subs[s] = "none" PROVE Noted(s)'
    BY <2>1, <2>2, <2>3 DEF Noted, At
  <2> QED
    BY <1>0, <2>1, <2>2, <2>3 DEF Lacking
<1>6. CASE TakeDockerEvent
  <2>1. Others(EL) /\ conf'.endpoint = conf.endpoint
    BY <1>6, <1>e, TakeDockerEventDoes DEF Typed
  <2>2. UNCHANGED <<blob, bus, server>>
    BY <1>6 DEF TakeDockerEvent, startramVars
  <2> QED
    BY <2>1, <2>2, ServicesCalm DEF Serving
<1>7. CASE MakeBroadcast
  <2>1. Others(EL) /\ conf'.endpoint = conf.endpoint
    BY <1>7, MakeBroadcastDoes
  <2>2. UNCHANGED <<blob, bus, server>>
    BY <1>7 DEF MakeBroadcast, startramVars
  <2> QED
    BY <2>1, <2>2, ServicesCalm DEF Serving
<1> QED
  BY <1>1, <1>2, <1>3, <1>4, <1>5, <1>6, <1>7 DEF RectifyStep


LEMMA ServicesLocal ==
  ASSUME Base, ServicesOk, NEW h \in Handlers,
         \/ Begin(h) \/ ReadNetwork(h) \/ StoreNetwork(h) \/ DeleteShip(h) \/ StartShip(h)
         \/ TurnOn(h) \/ TurnOff(h) \/ StopWireguard(h) \/ ShipsLocal(h)
         \/ RestartStops(h) \/ RestartStarts(h) \/ LoadAgain(h)
         \/ \E s \in Ships : LocalShip(h, s) \/ DropShip(h, s)
  PROVE  ServicesOk'
<1> USE Who
<1>0. ASSUME Others(h), act[h].at # "get", conf'.endpoint = conf.endpoint,
             UNCHANGED <<server, blob, bus>>
      PROVE  ServicesOk'
  BY <1>0, ServicesCalm DEF Serving, At
<1>1. CASE Begin(h)
  BY <1>0, <1>1, BeginDoes DEF Begin, startramVars, At
<1>2. CASE ReadNetwork(h)
  BY <1>0, <1>2, ReadNetworkDoes DEF ReadNetwork, startramVars, At
<1>3. CASE StoreNetwork(h)
  BY <1>0, <1>3, StoreNetworkDoes DEF StoreNetwork, startramVars, At
<1>4. CASE DeleteShip(h)
  BY <1>0, <1>4, DeleteShipDoes DEF DeleteShip, startramVars, At
<1>5. CASE StartShip(h)
  BY <1>0, <1>5, StartShipDoes DEF StartShip, startramVars, At
<1>6. CASE TurnOn(h)
  <2>1. conf'.endpoint = conf.endpoint
    BY <1>6, SwitchTo DEF TurnOn, Base
  <2> QED
    BY <1>0, <1>6, <2>1, TurnOnDoes DEF TurnOn, startramVars, At
<1>7. CASE TurnOff(h)
  <2>1. conf'.endpoint = conf.endpoint
    BY <1>7, SwitchTo DEF TurnOff, Base
  <2> QED
    BY <1>0, <1>7, <2>1, TurnOffDoes DEF TurnOff, startramVars, At
<1>8. CASE StopWireguard(h)
  BY <1>0, <1>8, StopWireguardDoes DEF StopWireguard, startramVars
<1>9. CASE ShipsLocal(h)
  BY <1>0, <1>9, ShipsLocalDoes DEF ShipsLocal, startramVars, At
<1>10. CASE RestartStops(h)
  BY <1>0, <1>10, RestartStopsDoes DEF RestartStops, startramVars, At
<1>11. CASE RestartStarts(h)
  BY <1>0, <1>11, RestartStartsDoes DEF RestartStarts, startramVars, At
<1>12. CASE LoadAgain(h)
  BY <1>0, <1>12, LoadAgainDoes DEF LoadAgain, startramVars, At
<1>13. ASSUME NEW s \in Ships, LocalShip(h, s) PROVE ServicesOk'
  BY <1>0, <1>13, LocalShipDoes DEF LocalShip, startramVars, At
<1>14. ASSUME NEW s \in Ships, DropShip(h, s) PROVE ServicesOk'
  BY <1>0, <1>14, DropShipDoes DEF DropShip, startramVars, At
<1> QED
  BY <1>1, <1>2, <1>3, <1>4, <1>5, <1>6, <1>7, <1>8, <1>9, <1>10, <1>11, <1>12, <1>13, <1>14

LEMMA ServicesServer ==
  ASSUME Base, KeysOk, ServicesOk, NEW h \in Handlers,
         \/ CycleWgKey(h) \/ PostRegister(h) \/ RegisterFails(h) \/ GetAnswer(h)
         \/ PollEnds(h) \/ PollAgain(h) \/ PollTimesOut(h)
         \/ ServicesDeleted(h) \/ SetEndpoint(h) \/ CancelSub(h)
         \/ \E s \in Ships : CreateService(h, s) \/ DeleteService(h, s)
  PROVE  ServicesOk'
<1> USE Who
<1>e. conf.endpoint \in Endpoints /\ Typed
  BY DEF Base, Typed
\* a handler that is about to retrieve
<1>g. ASSUME act'[h].at = "get" PROVE ServicesOk'
  BY <1>g DEF ServicesOk, Asking, At
\* a retrieve: what the server lacks is known and will be looked at
<1>r. ASSUME Retrieved(server), server' = server, Others(h), At(h, "get") => ~Served \/ act'[h].at # "get"
      PROVE  ServicesOk'
  <2>1. conf'.endpoint = conf.endpoint
    BY <1>e, <1>r, RetrievedDoes
  <2>2. Served' <=> Served
    BY <1>r, <2>1 DEF Served
  <2>3. CASE Served
    <3>1. blob'.subs = server[conf.endpoint].svc /\ bus' = Append(bus, "retrieve")
      BY <1>e, <1>r, <2>3, RetrievedDoes DEF Fetched
    <3>2. Inside("retrieve", bus')
      BY <1>e, <3>1, BusAppend
    <3> QED
      BY <1>r, <2>1, <3>1, <3>2 DEF ServicesOk, Noted
  <2>4. CASE ~Served
    BY <2>2, <2>4, ServicesUnserved
  <2> QED
    BY <2>3, <2>4
<1>1. CASE CycleWgKey(h)
  <2>1. conf' = conf /\ ~Served'
    BY <1>e, <1>1, CycleWgKeyDoes DEF CycleWgKey, Served
  <2> QED
    BY <2>1, ServicesUnserved
<1>2. CASE PostRegister(h)
  BY <1>g, <1>2, PostRegisterDoes
<1>3. CASE RegisterFails(h)
  <2>1. /\ conf'.endpoint = conf.endpoint /\ server' = server
        /\ \A e \in Endpoints : server[e].key # "current"
    BY <1>3, RegisterFailsDoes DEF RegisterFails, startramVars, KeysOk, At
  <2>2. ~Served'
    BY <1>e, <2>1 DEF Served
  <2> QED
    BY <2>2, ServicesUnserved
<1>4. CASE GetAnswer(h)
  BY <1>r, <1>4, GetAnswerDoes DEF GetAnswer
<1>5. CASE PollEnds(h)
  BY <1>r, <1>5, PollEndsDoes DEF PollEnds, At
<1>6. CASE PollAgain(h)
  BY <1>r, <1>6, PollAgainDoes DEF PollAgain, At, Others
<1>7. CASE PollTimesOut(h)
  BY <1>r, <1>7, PollTimesOutDoes DEF PollTimesOut, At
<1>8. CASE ServicesDeleted(h)
  <2>1. Others(h) /\ act[h].at = "delete" /\ Serving /\ UNCHANGED <<blob, bus>>
    BY <1>8, ServicesDeletedDoes DEF ServicesDeleted, startramVars, At, Serving
  <2> QED
    BY <2>1, ServicesCalm DEF At
<1>9. CASE SetEndpoint(h)
  <2>1. /\ conf'.endpoint \in Endpoints /\ server' = server
        /\ \A e \in Endpoints : server[e].key # "current"
    BY <1>9, SetEndpointDoes DEF SetEndpoint, startramVars, KeysOk, At
  <2>2. ~Served'
    BY <2>1 DEF Served
  <2> QED
    BY <2>2, ServicesUnserved
<1>10. CASE CancelSub(h)
  <2>1. /\ Others(h) /\ act[h].at = "cancel" /\ UNCHANGED <<conf, blob, bus>>
        /\ \A e \in Endpoints : /\ server'[e].svc = server[e].svc
                                /\ server'[e].key \in {"none", server[e].key}
    BY <1>10, CancelSubDoes DEF CancelSub, At
  <2>2. CASE server'[conf.endpoint].key # server[conf.endpoint].key
    <3>1. ~Served'
      BY <1>e, <2>1, <2>2 DEF Served
    <3> QED
      BY <3>1, ServicesUnserved
  <2>3. CASE server'[conf.endpoint].key = server[conf.endpoint].key
    <3>1. Served' <=> Served
      BY <1>e, <2>1, <2>3 DEF Served
    <3>2. server'[conf.endpoint].svc = server[conf.endpoint].svc /\ conf' = conf
      BY <1>e, <2>1
    <3>3. \A b \in Actors : b # h => act'[b] = act[b]
      BY <2>1 DEF Others
    <3>4. Asking => Asking'
      BY <2>1, <3>3 DEF Asking, At
    <3>5. ASSUME NEW s \in Ships, Noted(s) PROVE Noted(s)'
      BY <2>1, <3>3, <3>5 DEF Noted, At
    <3> QED
      BY <2>1, <3>1, <3>2, <3>4, <3>5 DEF ServicesOk
  <2> QED
    BY <2>2, <2>3
<1>11. ASSUME NEW s \in Ships, CreateService(h, s) PROVE ServicesOk'
  <2>1. Others(h) /\ act[h].at = "create" /\ UNCHANGED <<conf, blob, bus>>
    BY <1>11, CreateServiceDoes DEF CreateService, At
  <2>2. server' = SvcCreated(s) \/ server' = server
    BY <1>11 DEF CreateService
  <2>3. Serving
    BY <1>e, <2>1, <2>2, ServiceMade DEF Serving
  <2> QED
    BY <2>1, <2>3, ServicesCalm DEF At
<1>12. ASSUME NEW s \in Ships, DeleteService(h, s) PROVE ServicesOk'
  <2>1. CASE Served
    BY <1>g, <1>12, <2>1, DeleteServiceDoes
  <2>2. CASE ~Served
    <3>1. conf' = conf /\ server' = server
      BY <1>12, <2>2, DeleteServiceDoes DEF DeleteService
    <3>2. ~Served'
      BY <2>2, <3>1 DEF Served
    <3> QED
      BY <3>2, ServicesUnserved
  <2> QED
    BY <2>1, <2>2
<1> QED
  BY <1>1, <1>2, <1>3, <1>4, <1>5, <1>6, <1>7, <1>8, <1>9, <1>10, <1>11, <1>12

LEMMA ServicesWorld ==
  ASSUME Base, KeysOk, ServicesOk,
         (\E e \in Endpoints, s \in Ships : ServiceReady(e, s)) \/ TunnelDies \/ Restart
  PROVE  ServicesOk'
<1> USE Who
<1>1. ASSUME NEW e \in Endpoints, NEW s \in Ships, ServiceReady(e, s) PROVE ServicesOk'
  <2>1. Serving /\ Others(EL) /\ blob' = blob /\ bus' = bus
    BY <1>1, ServiceReadyDoes DEF ServiceReady, Serving, Others
  <2> QED
    BY <2>1, ServicesCalm DEF At
<1>2. CASE TunnelDies
  <2>1. Serving /\ Others(EL) /\ blob' = blob /\ bus' = bus
    BY <1>2, TunnelDiesDoes DEF TunnelDies, startramVars, Serving, Others
  <2> QED
    BY <2>1, ServicesCalm DEF At
<1>3. CASE Restart
  <2>1. UNCHANGED <<conf, server>> /\ conf.endpoint \in Endpoints
    BY <1>3 DEF Restart, Base, Typed
  <2>2. (Served' <=> Served) /\ (Served => conf.reg)
    BY <2>1 DEF Served, KeysOk
  <2>3. Served => bus' = <<"retrieve">> /\ blob'.subs = server[conf.endpoint].svc
    BY <1>3, <2>2, RestartDoes
  <2>4. Served => Inside("retrieve", bus')
    <3>1. ASSUME Served PROVE Inside("retrieve", bus')
      <4>1. bus' = <<"retrieve">>
        BY <2>3, <3>1
      <4>2. Len(bus') = 1 /\ bus'[1] = "retrieve" /\ 1 \in 1..1
        BY <4>1
      <4> QED
        BY <4>2 DEF Inside
    <3> QED
      BY <3>1
  <2> QED
    BY <2>1, <2>2, <2>3, <2>4 DEF ServicesOk, Noted
<1> QED
  BY <1>1, <1>2, <1>3

LEMMA ServicesStay ==
  ASSUME Base, KeysOk, ServicesOk, Next
  PROVE  ServicesOk'
<1>1. ASSUME NEW h \in Handlers, HandlerStep(h) PROVE ServicesOk'
  BY <1>1, ServicesLocal, ServicesServer DEF HandlerStep
<1>2. ASSUME NEW a \in Actors, SharedStep(a) PROVE ServicesOk'
  BY <1>2, ServicesShared
<1>3. CASE RectifyStep \/ TakeDockerEvent \/ MakeBroadcast
  BY <1>3, ServicesLoops
<1>4. CASE (\E e \in Endpoints, s \in Ships : ServiceReady(e, s)) \/ TunnelDies \/ Restart
  BY <1>4, ServicesWorld
<1> QED
  BY <1>1, <1>2, <1>3, <1>4 DEF Next


-----------------------------------------------------------------------------
(* Networks                                                                *)

Nets == Networks \cup {"none", "created", "lost"}
Making == {"ndelete", "nstart", "drop", "load"}

\* A step that makes no container, and at most takes the tunnel away.
LEMMA NetCalm ==
  ASSUME Base, NetOk, NEW a \in Actors, Others(a), pier' = pier, killed' = killed,
         net' = net \/ net' = Lost,
         \A s \in Ships : net'[s] = "wireguard" => Running',
         a = RU /\ act'[RU].at \in {"missing", "store"} =>
           /\ act[RU].at \in {"missing", "store"}
           /\ act'[RU].snap = act[RU].snap /\ act'[RU].ship = act[RU].ship,
         a # RU => \/ act[a].at \notin Making
                   \/ At(a, "drop") /\ act'[a].at = "load" /\ act'[a].todo = Ships
  PROVE  NetOk'
<1> USE Who
<1>1. \A b \in Actors : b # a => act'[b] = act[b]
  BY DEF Others
<1>2. act'[RU].at \in {"missing", "store"} => act'[RU].snap.net = pier'[act'[RU].ship].net
  BY <1>1 DEF NetOk
<1>3. \A s \in Ships : /\ net'[s] = "bridge" <=> net[s] = "bridge"
                       /\ net'[s] = "none" <=> net[s] = "none"
  BY LostOf DEF Base
<1>4. ASSUME NEW s \in Ships, Matches(s) PROVE Matches(s)'
  BY <1>3, <1>4 DEF Matches
<1>5. ASSUME NEW s \in Ships, Remade(s) PROVE Remade(s)'
  <2>1. CASE \E h \in Handlers : At(h, "ndelete") /\ act[h].ship = s
    <3>1. PICK h \in Handlers : At(h, "ndelete") /\ act[h].ship = s
      BY <2>1
    <3>2. h # a
      BY <3>1 DEF At, Making
    <3>3. act'[h] = act[h]
      BY <1>1, <3>2
    <3> QED
      BY <3>1, <3>3 DEF Remade, At
  <2>2. CASE net[s] = "none" /\ \E h \in Handlers : At(h, "drop")
    <3>1. PICK h \in Handlers : At(h, "drop")
      BY <2>2
    <3>2. CASE h = a
      BY <1>3, <2>2, <3>1, <3>2 DEF Remade, At, Making
    <3>3. CASE h # a
      BY <1>1, <1>3, <2>2, <3>1, <3>3 DEF Remade, At
    <3> QED
      BY <3>2, <3>3
  <2>3. CASE net[s] = "none" /\ \E h \in Handlers : At(h, "nstart") /\ act[h].ship = s
    <3>1. PICK h \in Handlers : At(h, "nstart") /\ act[h].ship = s
      BY <2>3
    <3>2. h # a
      BY <3>1 DEF At, Making
    <3>3. act'[h] = act[h]
      BY <1>1, <3>2
    <3> QED
      BY <1>3, <2>3, <3>1, <3>3 DEF Remade, At
  <2>4. CASE net[s] = "none" /\ \E b \in Handlers \cup {Main} : At(b, "load") /\ s \in act[b].todo
    <3>1. PICK b \in Handlers \cup {Main} : At(b, "load") /\ s \in act[b].todo
      BY <2>4
    <3>2. b # a
      BY <3>1 DEF At, Making
    <3>3. act'[b] = act[b]
      BY <1>1, <3>1, <3>2
    <3> QED
      BY <1>3, <2>4, <3>1, <3>3 DEF Remade, At
  <2> QED
    BY <1>5, <2>1, <2>2, <2>3, <2>4 DEF Remade
<1> QED
  BY <1>2, <1>4, <1>5 DEF NetOk

\* A step that concerns neither the tunnel nor the containers.
LEMMA NetSame ==
  ASSUME Base, NetOk, NEW a \in Actors, Others(a), UNCHANGED <<pier, net, killed>>,
         tunnel'.st = tunnel.st,
         a = RU => act'[RU].at \notin {"missing", "store"},
         a # RU => \/ act[a].at \notin Making
                   \/ At(a, "drop") /\ act'[a].at = "load" /\ act'[a].todo = Ships
  PROVE  NetOk'
<1>1. \A s \in Ships : net'[s] = "wireguard" => Running'
  BY DEF NetOk, Running
<1> QED
  BY <1>1, NetCalm

\* A step of a goroutine that makes or removes the container of ship s.
LEMMA NetOfShip ==
  ASSUME Base, NetOk, NEW a \in Handlers \cup {Main}, Others(a), NEW s \in Ships,
         killed' = killed, tunnel' = tunnel,
         \A t \in Ships : t # s => net'[t] = net[t] /\ pier'[t] = pier[t],
         net'[s] = "wireguard" => Running,
         ~killed => Matches(s)' \/ Remade(s)',
         act[RU].at \in {"missing", "store"} /\ act[RU].ship = s => pier'[s] = pier[s],
         act[a].at \in {"ndelete", "nstart"} => act[a].ship = s,
         At(a, "drop") => act'[a].at = "drop",
         At(a, "load") => \A t \in act[a].todo : t # s => At(a, "load")' /\ t \in act'[a].todo
  PROVE  NetOk'
<1> USE Who
<1>1. \A b \in Actors : b # a => act'[b] = act[b]
  BY DEF Others
<1>2. act'[RU] = act[RU] /\ act[RU] \in Goroutines /\ Typed
  BY <1>1 DEF Base, Typed
<1>3. act'[RU].at \in {"missing", "store"} => act'[RU].snap.net = pier'[act'[RU].ship].net
  <2>1. act[RU].at \in {"missing", "store"} => act[RU].ship \in Ships
    BY <1>2 DEF Base, Lanes, RectifyLane, Goroutines
  <2> QED
    BY <1>2, <2>1 DEF NetOk
<1>4. \A t \in Ships : net'[t] = "wireguard" => Running'
  BY DEF NetOk, Running
<1>5. ASSUME NEW t \in Ships, t # s, Matches(t) PROVE Matches(t)'
  BY <1>5 DEF Matches
<1>6. ASSUME NEW t \in Ships, t # s, Remade(t) PROVE Remade(t)'
  <2>1. net'[t] = net[t]
    BY <1>6
  <2>2. CASE \E h \in Handlers : At(h, "ndelete") /\ act[h].ship = t
    <3>1. PICK h \in Handlers : At(h, "ndelete") /\ act[h].ship = t
      BY <2>2
    <3>2. h # a
      BY <1>6, <3>1 DEF At
    <3> QED
      BY <1>1, <3>1, <3>2 DEF Remade, At
  <2>3. CASE net[t] = "none" /\ \E h \in Handlers : At(h, "drop")
    <3>1. PICK h \in Handlers : At(h, "drop")
      BY <2>3
    <3>2. At(h, "drop")'
      BY <1>1, <3>1 DEF At
    <3> QED
      BY <2>1, <2>3, <3>2 DEF Remade
  <2>4. CASE net[t] = "none" /\ \E h \in Handlers : At(h, "nstart") /\ act[h].ship = t
    <3>1. PICK h \in Handlers : At(h, "nstart") /\ act[h].ship = t
      BY <2>4
    <3>2. h # a
      BY <1>6, <3>1 DEF At
    <3> QED
      BY <1>1, <2>1, <2>4, <3>1, <3>2 DEF Remade, At
  <2>5. CASE net[t] = "none" /\ \E b \in Handlers \cup {Main} : At(b, "load") /\ t \in act[b].todo
    <3>1. PICK b \in Handlers \cup {Main} : At(b, "load") /\ t \in act[b].todo
      BY <2>5
    <3>2. At(b, "load")' /\ t \in act'[b].todo
      BY <1>1, <1>6, <3>1 DEF At
    <3> QED
      BY <2>1, <2>5, <3>2 DEF Remade
  <2> QED
    BY <1>6, <2>2, <2>3, <2>4, <2>5 DEF Remade
<1>7. ~killed => \A t \in Ships : Matches(t)' \/ Remade(t)'
  BY <1>5, <1>6 DEF NetOk
<1> QED
  BY <1>3, <1>4, <1>7 DEF NetOk

\* A container that was started is on the network of its configuration.
LEMMA JoinedMatches ==
  ASSUME Typed, NEW s \in Ships, net' = [net EXCEPT ![s] = Joined(s)], pier' = pier,
         net[s] = "none" \/ Matches(s)
  PROVE  Matches(s)'
<1>1. net'[s] = Joined(s) /\ pier'[s] = pier[s]
  BY DEF Typed
<1>2. Joined(s) = "bridge" <=> pier[s].net = "bridge"
  BY JoinedOf DEF Matches
<1> QED
  BY <1>1, <1>2 DEF Matches

LEMMA NetShared ==
  ASSUME Base, NetOk, NEW a \in Actors, SharedStep(a)
  PROVE  NetOk'
<1> USE Who
<1>a. act[a].at \in {"find", "apply"} => a # RU
  BY StartLanes
<1>t. Typed
  BY DEF Base
<1>1. CASE FindContainer(a)
  BY <1>1, <1>a, NetSame, FindContainerDoes DEF FindContainer, dockVars, histVars, At, Making
<1>2. CASE KeepTunnel(a)
  BY <1>2, <1>a, NetSame, KeepTunnelDoes DEF KeepTunnel, dockVars, histVars, At, Making
<1>3. CASE CreateTunnel(a)
  <2>1. Others(a) /\ a # RU /\ act[a].at = "apply" /\ UNCHANGED <<pier, net, killed>>
    BY <1>3, <1>a, CreateTunnelDoes DEF CreateTunnel, histVars, At
  <2>2. Running'
    BY <1>3 DEF CreateTunnel, Running, Started
  <2> QED
    BY <2>1, <2>2, NetCalm DEF Making
<1>4. CASE CreateTunnelFails(a)
  BY <1>4, <1>a, NetSame, CreateTunnelFailsDoes
  DEF CreateTunnelFails, dockVars, histVars, At, Making
<1>5. CASE ReplaceTunnel(a)
  <2>1. Others(a) /\ a # RU /\ act[a].at = "apply" /\ UNCHANGED <<pier, killed>> /\ net' = Lost
    BY <1>5, <1>a, ReplaceTunnelDoes DEF ReplaceTunnel, histVars, At
  <2>2. Running'
    BY <1>5 DEF ReplaceTunnel, Running, Started
  <2> QED
    BY <2>1, <2>2, NetCalm DEF Making
<1>6. CASE WriteWgConf(a)
  BY <1>6, NetSame, WriteWgConfDoes DEF WriteWgConf, dockVars, At, Making
<1>7. CASE StoreState(a)
  BY <1>7, NetSame, StoreStateDoes DEF StoreState, dockVars, histVars, At, Making
<1>8. ASSUME NEW s \in Ships, LoadShip(a, s) PROVE NetOk'
  <2>1. /\ Others(a) /\ a \in Handlers \cup {Main} /\ At(a, "load")
        /\ UNCHANGED <<pier, killed, tunnel>> /\ net' = [net EXCEPT ![s] = Joined(s)]
    BY <1>8, LoadShipDoes DEF LoadShip, histVars
  <2>2. \A t \in act[a].todo : t # s => At(a, "load")' /\ t \in act'[a].todo
    BY <1>8, LoadShipDoes DEF At
  <2>3. net'[s] = Joined(s) /\ \A t \in Ships : t # s => net'[t] = net[t]
    BY <1>t, <2>1 DEF Typed
  <2>4. net'[s] = "wireguard" => Running
    BY <1>t, <2>3, JoinedOf DEF NetOk
  <2>5. ~killed => Matches(s)' \/ Remade(s)'
    <3>1. CASE net[s] = "none" \/ Matches(s)
      BY <1>t, <2>1, <3>1, JoinedMatches
    <3>2. CASE ~killed /\ net[s] # "none" /\ ~Matches(s)
      <4>1. PICK h \in Handlers : At(h, "ndelete") /\ act[h].ship = s
        BY <3>2 DEF NetOk, Remade
      <4>2. h # a
        BY <2>1, <4>1 DEF At
      <4> QED
        BY <2>1, <4>1, <4>2 DEF Remade, At, Others
    <3> QED
      BY <3>1, <3>2
  <2> QED
    BY <2>1, <2>2, <2>3, <2>4, <2>5, NetOfShip DEF At
<1> QED
  BY <1>1, <1>2, <1>3, <1>4, <1>5, <1>6, <1>7, <1>8 DEF SharedStep


LEMMA NetLoops ==
  ASSUME Base, NetOk, RectifyStep \/ TakeDockerEvent \/ MakeBroadcast
  PROVE  NetOk'
<1> USE Who
<1>t. Typed
  BY DEF Base
<1>1. CASE TakeEvent
  <2>1. act'[RU].at \notin {"missing", "store"}
    BY <1>1, TakeEventDoes
  <2> QED
    BY <1>1, <2>1, NetSame, TakeEventDoes DEF TakeEvent, dockVars, histVars
<1>2. CASE Complete
  BY <1>2, NetSame, CompleteDoes, IdleOf DEF Complete, dockVars
<1>3. CASE CreateMissing
  <2>1. /\ Others(RU) /\ UNCHANGED <<pier, net, killed, tunnel>> /\ act[RU].at = "missing"
        /\ act'[RU].snap = act[RU].snap /\ act'[RU].ship = act[RU].ship
    BY <1>3, CreateMissingDoes DEF CreateMissing, dockVars, histVars, Keeps, At
  <2>2. \A s \in Ships : net'[s] = "wireguard" => Running'
    BY <2>1 DEF NetOk, Running
  <2> QED
    BY <2>1, <2>2, NetCalm
\* a step of RectifyUrbit that keeps every ship's network in its file
<1>r. ASSUME Others(RU), UNCHANGED <<net, killed, tunnel>>, \A s \in Ships : pier'[s].net = pier[s].net,
             act'[RU].at \in {"missing", "store"} => act'[RU].snap.net = pier'[act'[RU].ship].net
      PROVE  NetOk'
  <2>1. \A b \in Actors : b # RU => act'[b] = act[b]
    BY <1>r DEF Others
  <2>2. \A s \in Ships : net'[s] = "wireguard" => Running'
    BY <1>r DEF NetOk, Running
  <2>3. ASSUME NEW s \in Ships, Matches(s) PROVE Matches(s)'
    BY <1>r, <2>3 DEF Matches
  <2>4. ASSUME NEW s \in Ships, Remade(s) PROVE Remade(s)'
    <3>1. \A h \in Handlers \cup {Main} : act'[h] = act[h]
      BY <2>1
    <3> QED
      BY <1>r, <2>4, <3>1 DEF Remade, At
  <2> QED
    BY <1>r, <2>2, <2>3, <2>4 DEF NetOk
<1>4. CASE StoreShip
  <2>1. /\ Others(RU) /\ UNCHANGED <<net, killed, tunnel>> /\ act[RU].at = "store"
        /\ act[RU].ship \in Ships
        /\ pier' = pier \/ pier' = [pier EXCEPT ![act[RU].ship] = act[RU].snap]
    BY <1>4, StoreShipDoes DEF StoreShip, dockVars, histVars, At
  <2>2. act[RU].snap.net = pier[act[RU].ship].net
    BY <2>1 DEF NetOk
  <2>3. ASSUME NEW s \in Ships PROVE pier'[s].net = pier[s].net
    <3>1. pier'[s] = pier[s] \/ (s = act[RU].ship /\ pier'[s] = act[RU].snap)
      BY <1>t, <2>1 DEF Typed
    <3> QED
      BY <2>2, <3>1
  <2>4. act'[RU].at \notin {"missing", "store"}
    BY <1>4, StoreShipDoes, IdleOf
  <2> QED
    BY <1>r, <2>1, <2>3, <2>4
<1>5. ASSUME NEW s \in Ships, ReadShip(s) PROVE NetOk'
  <2>1. /\ Others(RU) /\ UNCHANGED <<net, killed, tunnel, pier>>
        /\ act'[RU].ship = s /\ act'[RU].snap.net = pier[s].net
    BY <1>5, ReadShipDoes DEF ReadShip, dockVars, histVars
  <2> QED
    BY <1>r, <2>1
<1>6. CASE TakeDockerEvent
  <2>1. Others(EL) /\ UNCHANGED <<pier, net, killed, tunnel>> /\ act[EL].at = "idle"
    BY <1>6, TakeDockerEventDoes DEF TakeDockerEvent, At
  <2> QED
    BY <2>1, NetSame DEF Making
<1>7. CASE MakeBroadcast
  <2>1. Others(EL) /\ UNCHANGED <<pier, net, killed, tunnel>> /\ act[EL].at = "announce"
    BY <1>7, MakeBroadcastDoes DEF MakeBroadcast, dockVars, At
  <2> QED
    BY <2>1, NetSame DEF Making
<1> QED
  BY <1>1, <1>2, <1>3, <1>4, <1>5, <1>6, <1>7 DEF RectifyStep

LEMMA NetLocal ==
  ASSUME Base, NetOk, NEW h \in Handlers,
         \/ Begin(h) \/ ReadNetwork(h) \/ StoreNetwork(h) \/ DeleteShip(h) \/ StartShip(h)
         \/ TurnOn(h) \/ TurnOff(h) \/ StopWireguard(h) \/ ShipsLocal(h)
         \/ RestartStops(h) \/ RestartStarts(h) \/ LoadAgain(h)
         \/ \E s \in Ships : LocalShip(h, s) \/ DropShip(h, s)
  PROVE  NetOk'
<1> USE Who
<1>t. Typed
  BY DEF Base
<1>d. act[h].op \in LocalOps => act[RU].at = "idle"
  BY DEF Base, Digest, At
\* a step that concerns neither the tunnel nor the containers
<1>s. ASSUME Others(h), UNCHANGED <<pier, net, killed, tunnel>>, act[h].at \notin Making
      PROVE  NetOk'
  BY <1>s, NetSame
<1>1. CASE Begin(h)
  BY <1>s, <1>1, BeginDoes DEF Begin, dockVars, histVars, Making, At
<1>2. CASE ReadNetwork(h)
  BY <1>s, <1>2, ReadNetworkDoes DEF ReadNetwork, dockVars, histVars, Making, At
<1>3. CASE StoreNetwork(h)
  <2>0. PICK s \in Ships : s = act[h].ship
    BY <1>3, StoreNetworkDoes
  <2>1. /\ Others(h) /\ Keeps(h) /\ act[h].at = "nstore" /\ act'[h].at = "ndelete"
        /\ act[RU].at = "idle" /\ UNCHANGED <<net, killed, tunnel>>
        /\ pier' = [pier EXCEPT ![s] = act[h].snap]
    BY <1>d, <1>3, <2>0, StoreNetworkDoes DEF StoreNetwork, dockVars, histVars, At
  <2>2. Remade(s)'
    BY <2>0, <2>1 DEF Remade, At, Keeps
  <2>3. \A t \in Ships : t # s => net'[t] = net[t] /\ pier'[t] = pier[t]
    BY <1>t, <2>0, <2>1 DEF Typed
  <2>4. net'[s] = "wireguard" => Running
    BY <2>0, <2>1 DEF NetOk
  <2> QED
    BY <2>0, <2>1, <2>2, <2>3, <2>4, NetOfShip DEF At
<1>4. CASE DeleteShip(h)
  <2>0. PICK s \in Ships : s = act[h].ship
    BY <1>4, DeleteShipDoes
  <2>1. /\ Others(h) /\ Keeps(h) /\ act[h].at = "ndelete" /\ act'[h].at = "nstart"
        /\ UNCHANGED <<pier, killed, tunnel>> /\ net' = [net EXCEPT ![s] = "none"]
    BY <1>4, <2>0, DeleteShipDoes DEF DeleteShip, histVars, At
  <2>2. net'[s] = "none" /\ \A t \in Ships : t # s => net'[t] = net[t]
    BY <1>t, <2>0, <2>1 DEF Typed
  <2>3. Remade(s)'
    BY <2>0, <2>1, <2>2 DEF Remade, At, Keeps
  <2> QED
    BY <2>0, <2>1, <2>2, <2>3, NetOfShip DEF At
<1>5. CASE StartShip(h)
  <2>0. PICK s \in Ships : s = act[h].ship
    BY <1>5, StartShipDoes
  <2>1. /\ Others(h) /\ act[h].at = "nstart" /\ s \in Ships
        /\ UNCHANGED <<pier, killed, tunnel>> /\ net' = [net EXCEPT ![s] = Joined(s)]
    BY <1>5, <2>0, StartShipDoes DEF StartShip, histVars, At
  <2>2. net'[s] = Joined(s) /\ \A t \in Ships : t # s => net'[t] = net[t]
    BY <1>t, <2>0, <2>1 DEF Typed
  <2>3. net'[s] = "wireguard" => Running
    BY <1>t, <2>0, <2>1, <2>2, JoinedOf DEF NetOk
  <2>4. ~killed => Matches(s)' \/ Remade(s)'
    <3>1. CASE net[s] = "none" \/ Matches(s)
      BY <1>t, <2>0, <2>1, <3>1, JoinedMatches
    <3>2. CASE ~killed /\ net[s] # "none" /\ ~Matches(s)
      <4>1. PICK g \in Handlers : At(g, "ndelete") /\ act[g].ship = s
        BY <2>0, <2>1, <3>2 DEF NetOk, Remade
      <4>2. g # h
        BY <2>0, <2>1, <4>1 DEF At
      <4> QED
        BY <2>0, <2>1, <4>1, <4>2 DEF Remade, At, Others
    <3> QED
      BY <3>1, <3>2
  <2> QED
    BY <2>0, <2>1, <2>2, <2>3, <2>4, NetOfShip DEF At
<1>6. CASE TurnOn(h)
  BY <1>s, <1>6, TurnOnDoes DEF TurnOn, dockVars, histVars, Making, At
<1>7. CASE TurnOff(h)
  BY <1>s, <1>7, TurnOffDoes DEF TurnOff, dockVars, histVars, Making, At
\* the tunnel is stopped
<1>x. ASSUME StopTunnel, Others(h), UNCHANGED <<pier, killed>>, act[h].at \notin Making
      PROVE  NetOk'
  <2>1. net' = Lost
    BY <1>x DEF StopTunnel
  <2>2. \A s \in Ships : net'[s] # "wireguard"
    BY <1>t, <2>1, LostOf
  <2> QED
    BY <1>x, <2>1, <2>2, NetCalm
<1>8. CASE StopWireguard(h)
  <2>1. Others(h) /\ UNCHANGED <<pier, killed>> /\ act[h].at \notin Making
    BY <1>8, StopWireguardDoes DEF StopWireguard, histVars, Making
  <2>2. StopTunnel \/ UNCHANGED dockVars
    BY <1>8 DEF StopWireguard
  <2> QED
    BY <1>s, <1>x, <2>1, <2>2 DEF dockVars
<1>9. CASE ShipsLocal(h)
  BY <1>s, <1>9, ShipsLocalDoes DEF ShipsLocal, dockVars, histVars, Making, At
<1>10. CASE RestartStops(h)
  <2>1. Others(h) /\ UNCHANGED <<pier, killed>> /\ act[h].at \notin Making
    BY <1>10, RestartStopsDoes DEF RestartStops, histVars, Making, At
  <2>2. StopTunnel \/ UNCHANGED dockVars
    BY <1>10 DEF RestartStops
  <2> QED
    BY <1>s, <1>x, <2>1, <2>2 DEF dockVars
<1>11. CASE RestartStarts(h)
  <2>1. Others(h) /\ UNCHANGED <<pier, net, killed>> /\ act[h].at \notin Making
    BY <1>11, RestartStartsDoes DEF RestartStarts, histVars, Making, At
  <2>2. Running'
    BY <1>11 DEF RestartStarts, Running, Started
  <2> QED
    BY <2>1, <2>2, NetCalm
<1>12. CASE LoadAgain(h)
  <2>1. /\ Others(h) /\ UNCHANGED <<pier, net, killed, tunnel>>
        /\ At(h, "drop") /\ act'[h].at = "load" /\ act'[h].todo = Ships
    BY <1>12, LoadAgainDoes DEF LoadAgain, dockVars, histVars
  <2> QED
    BY <2>1, NetSame
<1>13. ASSUME NEW s \in Ships, LocalShip(h, s) PROVE NetOk'
  BY <1>s, <1>13, LocalShipDoes DEF LocalShip, dockVars, histVars, Making, At
<1>14. ASSUME NEW s \in Ships, DropShip(h, s) PROVE NetOk'
  <2>1. /\ Others(h) /\ act[h].at = "drop" /\ act'[h].at = "drop"
        /\ UNCHANGED <<pier, killed, tunnel>> /\ net' = [net EXCEPT ![s] = "none"]
    BY <1>14, DropShipDoes DEF DropShip, histVars, At
  <2>2. net'[s] = "none" /\ \A t \in Ships : t # s => net'[t] = net[t]
    BY <1>t, <2>1 DEF Typed
  <2>3. Remade(s)'
    BY <2>1, <2>2 DEF Remade, At
  <2> QED
    BY <2>1, <2>2, <2>3, NetOfShip DEF At
<1> QED
  BY <1>1, <1>2, <1>3, <1>4, <1>5, <1>6, <1>7, <1>8, <1>9, <1>10, <1>11, <1>12, <1>13, <1>14

LEMMA NetServer ==
  ASSUME Base, NetOk, NEW h \in Handlers,
         \/ CycleWgKey(h) \/ PostRegister(h) \/ RegisterFails(h) \/ GetAnswer(h)
         \/ PollEnds(h) \/ PollAgain(h) \/ PollTimesOut(h)
         \/ ServicesDeleted(h) \/ SetEndpoint(h) \/ CancelSub(h)
         \/ \E s \in Ships : CreateService(h, s) \/ DeleteService(h, s)
  PROVE  NetOk'
<1> USE Who
<1>s. ASSUME Others(h), UNCHANGED <<pier, net, killed>>, tunnel'.st = tunnel.st,
             act[h].at \notin Making
      PROVE  NetOk'
  BY <1>s, NetSame
<1>1. CASE CycleWgKey(h)
  BY <1>s, <1>1, CycleWgKeyDoes DEF CycleWgKey, histVars, Making
<1>2. CASE PostRegister(h)
  BY <1>s, <1>2, PostRegisterDoes DEF PostRegister, dockVars, histVars, Making, At
<1>3. CASE RegisterFails(h)
  BY <1>s, <1>3, RegisterFailsDoes DEF RegisterFails, dockVars, histVars, Making, At
<1>4. CASE GetAnswer(h)
  BY <1>s, <1>4, GetAnswerDoes DEF GetAnswer, dockVars, histVars, Making, At
<1>5. CASE PollEnds(h)
  BY <1>s, <1>5, PollEndsDoes DEF PollEnds, dockVars, histVars, Making, At
<1>6. CASE PollAgain(h)
  <2>1. Others(h) /\ act[h].at = "poll" /\ UNCHANGED <<pier, net, killed, tunnel>>
    BY <1>6, PollAgainDoes DEF PollAgain, dockVars, histVars, At, Others
  <2> QED
    BY <1>s, <2>1 DEF Making
<1>7. CASE PollTimesOut(h)
  BY <1>s, <1>7, PollTimesOutDoes DEF PollTimesOut, dockVars, Making, At
<1>8. CASE ServicesDeleted(h)
  BY <1>s, <1>8, ServicesDeletedDoes DEF ServicesDeleted, dockVars, histVars, Making, At
<1>9. CASE SetEndpoint(h)
  BY <1>s, <1>9, SetEndpointDoes DEF SetEndpoint, dockVars, histVars, Making, At
<1>10. CASE CancelSub(h)
  BY <1>s, <1>10, CancelSubDoes DEF CancelSub, dockVars, histVars, Making, At
<1>11. ASSUME NEW s \in Ships, CreateService(h, s) PROVE NetOk'
  BY <1>s, <1>11, CreateServiceDoes DEF CreateService, dockVars, histVars, Making, At
<1>12. ASSUME NEW s \in Ships, DeleteService(h, s) PROVE NetOk'
  BY <1>s, <1>12, DeleteServiceDoes DEF DeleteService, dockVars, histVars, Making, At
<1> QED
  BY <1>1, <1>2, <1>3, <1>4, <1>5, <1>6, <1>7, <1>8, <1>9, <1>10, <1>11, <1>12

LEMMA NetWorld ==
  ASSUME Base, NetOk,
         (\E e \in Endpoints, s \in Ships : ServiceReady(e, s)) \/ TunnelDies \/ Restart
  PROVE  NetOk'
<1> USE Who
<1>1. ASSUME NEW e \in Endpoints, NEW s \in Ships, ServiceReady(e, s) PROVE NetOk'
  <2>1. Others(EL) /\ act' = act /\ UNCHANGED <<pier, net, killed, tunnel>>
    BY <1>1, ServiceReadyDoes DEF ServiceReady, dockVars, histVars, Others
  <2>2. \A t \in Ships : Remade(t)' <=> Remade(t)
    BY <2>1 DEF Remade, At
  <2>3. \A t \in Ships : Matches(t)' <=> Matches(t)
    BY <2>1 DEF Matches
  <2> QED
    BY <2>1, <2>2, <2>3 DEF NetOk, Running
<1>2. CASE TunnelDies
  <2>1. Others(EL) /\ act[EL].at = "idle" /\ UNCHANGED <<pier, killed>> /\ net' = Lost
    BY <1>2, TunnelDiesDoes DEF TunnelDies, Settled, histVars, Others, At
  <2>2. \A s \in Ships : net'[s] # "wireguard"
    BY <2>1, LostOf DEF Base
  <2> QED
    BY <2>1, <2>2, NetCalm DEF Making
<1>3. CASE Restart
  <2>1. UNCHANGED <<pier, net, tunnel>> /\ killed' = (killed \/ ~Settled) /\ act'[RU] = Idle
    BY <1>3, RestartDoes DEF Restart
  <2>2. ASSUME ~killed' PROVE \A s \in Ships : Matches(s)
    <3>1. ~killed /\ \A a \in Actors : act[a].at = "idle"
      BY <2>1, <2>2 DEF Settled, At
    <3>2. \A s \in Ships : ~Remade(s)
      BY <3>1 DEF Remade, At
    <3> QED
      BY <3>1, <3>2 DEF NetOk
  <2>3. \A s \in Ships : Matches(s)' <=> Matches(s)
    BY <2>1 DEF Matches
  <2> QED
    BY <2>1, <2>2, <2>3, IdleOf DEF NetOk, Running
<1> QED
  BY <1>1, <1>2, <1>3

LEMMA NetStay ==
  ASSUME Base, NetOk, Next
  PROVE  NetOk'
<1>1. ASSUME NEW h \in Handlers, HandlerStep(h) PROVE NetOk'
  BY <1>1, NetLocal, NetServer DEF HandlerStep
<1>2. ASSUME NEW a \in Actors, SharedStep(a) PROVE NetOk'
  BY <1>2, NetShared
<1>3. CASE RectifyStep \/ TakeDockerEvent \/ MakeBroadcast
  BY <1>3, NetLoops
<1>4. CASE (\E e \in Endpoints, s \in Ships : ServiceReady(e, s)) \/ TunnelDies \/ Restart
  BY <1>4, NetWorld
<1> QED
  BY <1>1, <1>2, <1>3, <1>4 DEF Next


-----------------------------------------------------------------------------
(* The switch                                                              *)

AllStart(q) == \A i \in 1..Len(q) : q[i] = "start"
News == {"start", "stop", "die"}

\* What docker said last, after it said more or one word was heard.
LEMMA NewsStart ==
  ASSUME NEW q \in Seq(News)
  PROVE  /\ Append(q, "start") # <<>> /\ Latest(Append(q, "start")) = "start"
         /\ AllStart(q) => AllStart(Append(q, "start"))
<1>1. /\ Append(q, "start") \in Seq(News) /\ Len(Append(q, "start")) = Len(q) + 1
      /\ Append(q, "start")[Len(q) + 1] = "start"
      /\ \A i \in 1..Len(q) : Append(q, "start")[i] = q[i]
      /\ Append(q, "start") # <<>>
  BY AppendProperties DEF News
<1>2. Len(q) \in Nat
  BY LenProperties
<1>3. \A i \in 1..(Len(q) + 1) : i \in 1..Len(q) \/ i = Len(q) + 1
  BY <1>2
<1> QED
  BY <1>1, <1>3 DEF Latest, AllStart

LEMMA NewsPair ==
  ASSUME NEW q \in Seq(News), NEW x \in News
  PROVE  q \o <<"die", x>> # <<>> /\ Latest(q \o <<"die", x>>) = x
<1> DEFINE p == <<"die", x>>
<1>1. p \in Seq(News) /\ Len(p) = 2 /\ p[2] = x
  BY DEF News
<1>2. Len(q) \in Nat
  BY LenProperties
<1>3. q \o p \in Seq(News) /\ Len(q \o p) = Len(q) + 2
  BY <1>1, ConcatProperties
<1>4. (q \o p)[Len(q) + 2] = x
  <2> HIDE DEF p
  <2>1. Len(q) + 2 \in 1..(Len(q) + Len(p)) /\ ~(Len(q) + 2 <= Len(q))
    BY <1>1, <1>2
  <2>2. (q \o p)[Len(q) + 2] = p[Len(q) + 2 - Len(q)]
    <3>1. \A i \in 1..(Len(q) + Len(p)) :
            (q \o p)[i] = IF i <= Len(q) THEN q[i] ELSE p[i - Len(q)]
      BY <1>1, ConcatProperties
    <3> QED
      BY <2>1, <3>1
  <2> QED
    BY <1>1, <1>2, <2>2
<1>5. q \o p # <<>>
  BY <1>2, <1>3, EmptySeq
<1> QED
  BY <1>3, <1>4, <1>5 DEF Latest

LEMMA NewsTail ==
  ASSUME NEW q \in Seq(News), q # <<>>
  PROVE  /\ Tail(q) # <<>> => Latest(Tail(q)) = Latest(q)
         /\ Tail(q) = <<>> => Head(q) = Latest(q)
         /\ AllStart(q) => Head(q) = "start" /\ AllStart(Tail(q))
<1>1. /\ Tail(q) \in Seq(News) /\ Len(Tail(q)) = Len(q) - 1
      /\ \A i \in 1..Len(Tail(q)) : Tail(q)[i] = q[i + 1]
      /\ Head(q) = q[1]
  BY HeadTailProperties
<1>2. Len(q) \in Nat /\ Len(q) # 0 /\ Len(Tail(q)) \in Nat
  BY <1>1, EmptySeq, LenProperties
<1>3. ASSUME Tail(q) # <<>> PROVE Latest(Tail(q)) = Latest(q)
  <2>1. Len(Tail(q)) # 0
    BY <1>1, <1>3, EmptySeq
  <2>2. Len(Tail(q)) \in 1..Len(Tail(q)) /\ Len(Tail(q)) + 1 = Len(q)
    BY <1>1, <1>2, <2>1
  <2> QED
    BY <1>1, <2>2 DEF Latest
<1>4. ASSUME Tail(q) = <<>> PROVE Head(q) = Latest(q)
  <2>1. Len(Tail(q)) = 0
    BY <1>1, <1>4, EmptySeq
  <2>2. Len(q) = 1
    BY <1>1, <1>2, <2>1
  <2> QED
    BY <1>1, <2>2 DEF Latest
<1>5. ASSUME AllStart(q) PROVE Head(q) = "start" /\ AllStart(Tail(q))
  <2>1. 1 \in 1..Len(q)
    BY <1>2
  <2>2. \A i \in 1..Len(Tail(q)) : i + 1 \in 1..Len(q)
    BY <1>1, <1>2
  <2> QED
    BY <1>1, <1>5, <2>1, <2>2 DEF AllStart
<1> QED
  BY <1>3, <1>4, <1>5

\* The parts of StartOk, with their names.
LEMMA StartUnfold ==
  StartOk <=>
    /\ Announced => /\ \A a \in Handlers \cup {Main} : act[a].at = "idle"
                    /\ Running /\ gs.actual = "running"
                    /\ act[RU].at = "complete" => act[RU].seen = "running"
    /\ Starting => /\ AllStart(events)
                   /\ act[EL].at \in {"idle", "announce"}
                   /\ act[EL].at = "announce" => act[EL].seen = "start"
    /\ \A a \in Handlers \cup {Main} :
         /\ act[a].at = "apply" /\ act[a].ret = "known" => act[a].seen = tunnel.st
         /\ act[a].at = "known" => act[a].seen = "running" /\ Running
BY DEF StartOk, AllStart, At

\* The same, after a step.
LEMMA StartUnfoldNext ==
  StartOk' <=>
    /\ Announced' => /\ \A a \in Handlers \cup {Main} : act'[a].at = "idle"
                     /\ Running' /\ gs'.actual = "running"
                     /\ act'[RU].at = "complete" => act'[RU].seen = "running"
    /\ Starting' => /\ AllStart(events')
                    /\ act'[EL].at \in {"idle", "announce"}
                    /\ act'[EL].at = "announce" => act'[EL].seen = "start"
    /\ \A a \in Handlers \cup {Main} :
         /\ act'[a].at = "apply" /\ act'[a].ret = "known" => act'[a].seen = tunnel'.st
         /\ act'[a].at = "known" => act'[a].seen = "running" /\ Running'
BY DEF StartOk, AllStart, At

\* Nobody is starting the tunnel for the first time after a step.
LEMMA StartNone ==
  ASSUME Base', ~Starting'
  PROVE  StartOk'
<1>1. \A a \in Handlers \cup {Main} :
        act'[a].at = "known" \/ (act'[a].at = "apply" /\ act'[a].ret = "known")
          => act'[a].op = "register" \/ a = Main
  <2>1. ASSUME NEW a \in Handlers,
               act'[a].at = "known" \/ (act'[a].at = "apply" /\ act'[a].ret = "known")
        PROVE  act'[a].op = "register"
    <3>1. Lane(act'[a])
      BY DEF Base, Lanes
    <3> QED
      BY <2>1, <3>1 DEF Lane, NetSpots
  <2> QED
    BY <2>1
<1>2. act'[Main].at = "idle" /\ \A h \in Handlers : act'[h].op # "register"
  BY DEF Starting, At
<1>3. ~Announced'
  BY DEF Starting
<1> QED
  BY <1>1, <1>2, <1>3, StartUnfoldNext

\* While the tunnel is started, no handler has anything else to do.
LEMMA StartAlone ==
  ASSUME Base, StartOk, NEW h \in Handlers, act[h].op \notin {"none", "register"}
  PROVE  ~Starting
<1>1. Lane(act[h])
  BY DEF Base, Lanes
<1>2. act[h].at # "idle"
  BY <1>1, IdleOp
<1>3. act[Main].at = "idle"
  BY <1>2 DEF Base, Alone, At
<1>4. ~Announced
  BY <1>2, StartUnfold
<1>5. ASSUME NEW g \in Handlers, act[g].op = "register" PROVE FALSE
  <2>1. g # h /\ act[g].op \in ServerOps
    BY <1>5 DEF ServerOps
  <2> QED
    BY <1>2, <2>1 DEF Base, Alone, At
<1> QED
  BY <1>3, <1>4, <1>5 DEF Starting, At

\* Where a registration cannot be.
Elsewhere == {"idle", "on", "off", "stop", "ships", "rstop", "rstart", "drop", "load",
              "network", "nstore", "ndelete", "nstart", "estop", "delete", "ekey", "set",
              "cancel", "ckey"}

LEMMA NotRegistering ==
  ASSUME Base', NEW h \in Handlers, act'[h].at \in Elsewhere
  PROVE  act'[h].op # "register"
<1>1. Lane(act'[h])
  BY DEF Base, Lanes
<1> QED
  BY <1>1 DEF Lane, NetSpots, Elsewhere

\* A step of any other handler.
LEMMA StartOther ==
  ASSUME Base, StartOk, Base', NEW h \in Handlers, Others(h),
         act[h].op \notin {"none", "register"}, act'[h].op # "register",
         bus' = bus \/ bus' = Append(bus, "retrieve")
  PROVE  StartOk'
<1> USE Who
<1>1. ~Starting
  BY StartAlone
<1>2. Inside("complete", bus') => Inside("complete", bus)
  BY BusAppend DEF Base
<1>3. \A b \in Actors : b # h => act'[b] = act[b]
  BY DEF Others
<1>4. ~Announced'
  BY <1>1, <1>2, <1>3 DEF Starting, Announced, At
<1>5. \A g \in Handlers : act'[g].op # "register"
  BY <1>1, <1>3 DEF Starting
<1>6. ~Starting'
  BY <1>1, <1>3, <1>4, <1>5 DEF Starting, At
<1> QED
  BY <1>6, StartNone

\* A step of the registration or of main, but the one that announces the tunnel.
LEMMA StartGoes ==
  ASSUME Base, StartOk, NEW a \in Handlers \cup {Main}, Others(a), ~At(a, "idle"),
         a # Main => act[a].op = "register",
         bus' = bus \/ bus' = Append(bus, "retrieve"),
         events' = events \/ events' = Append(events, "start"),
         act'[a].at = "apply" /\ act'[a].ret = "known" => act'[a].seen = tunnel'.st,
         act'[a].at = "known" => act'[a].seen = "running" /\ Running'
  PROVE  StartOk'
<1> USE Who
<1>1. \A b \in Actors : b # a => act'[b] = act[b]
  BY DEF Others
<1>2. ~Announced
  BY StartUnfold DEF At
<1>3. Inside("complete", bus') => Inside("complete", bus)
  BY BusAppend DEF Base
<1>4. ~Announced'
  BY <1>1, <1>2, <1>3 DEF Announced, At
<1>5. Starting
  BY DEF Starting
<1>6. /\ AllStart(events) /\ act[EL].at \in {"idle", "announce"}
      /\ act[EL].at = "announce" => act[EL].seen = "start"
  BY <1>5, StartUnfold
<1>7. AllStart(events')
  BY <1>6, NewsStart DEF Base, Typed, News
<1>8. act'[EL] = act[EL]
  BY <1>1
<1>9. \A b \in Handlers \cup {Main} : b # a => act'[b].at = "idle"
  <2>1. CASE a = Main
    BY <1>1, <2>1 DEF Base, Alone, At
  <2>2. CASE a # Main
    BY <1>1, <2>2 DEF Base, Alone, At, ServerOps
  <2> QED
    BY <2>1, <2>2
<1>10. \A b \in Handlers \cup {Main} :
         /\ act'[b].at = "apply" /\ act'[b].ret = "known" => act'[b].seen = tunnel'.st
         /\ act'[b].at = "known" => act'[b].seen = "running" /\ Running'
  BY <1>9
<1> QED
  BY <1>4, <1>6, <1>7, <1>8, <1>10, StartUnfoldNext


\* A step that leaves the tunnel and docker's news of it alone.
LEMMA HeardKept ==
  ASSUME Base, Heard, NEW a \in Actors, a # EL, Others(a), tunnel'.st = tunnel.st,
         events' = events, gs' = gs
  PROVE  Heard'
<1>1. act'[EL] = act[EL]
  BY Who DEF Others
<1>2. Running' <=> Running
  BY DEF Running
<1> QED
  BY <1>1, <1>2 DEF Heard, At, Latest

LEMMA KnownKept ==
  ASSUME Base, Known, NEW a \in Actors, Others(a), tunnel'.st = tunnel.st,
         UNCHANGED <<events, gs, missed>>,
         a \in Handlers /\ act'[a].at = "apply" /\ act'[a].seen = "none" => tunnel.st = "none"
  PROVE  Known'
<1>1. \A b \in Actors : b # a => act'[b] = act[b]
  BY DEF Others
<1>2. ASSUME NEW h \in Handlers, act'[h].at = "apply", act'[h].seen = "none",
             tunnel.st # "none"
      PROVE  gs = Unknown /\ (missed \/ events # <<>>)
  BY <1>1, <1>2, Who DEF Known, At
<1> QED
  BY <1>2 DEF Known, At

LEMMA SwitchKept ==
  ASSUME Base, SwitchOk, StartOk', NEW a \in Actors, a # EL, Others(a),
         tunnel'.st = tunnel.st, UNCHANGED <<events, gs, missed>>, conf'.on = conf.on,
         a \in Handlers => act[a].at \notin {"find", "apply"} /\ act'[a].at # "apply",
         act[a].at = "stop" => ~Running
  PROVE  SwitchOk'
<1> USE Who
<1>1. Heard' /\ Known'
  BY HeardKept, KnownKept DEF SwitchOk
<1>2. \A b \in Actors : b # a => act'[b] = act[b]
  BY DEF Others
<1>3. Running' <=> Running
  BY DEF Running
<1>4. act'[EL] = act[EL]
  BY <1>2
<1>5. conf.on \in BOOLEAN /\ conf'.on \in BOOLEAN
  BY DEF Base, Typed
<1>6. CASE ~(~missed /\ events = <<>> /\ act[EL].at = "idle")
  BY <1>1, <1>4, <1>6 DEF SwitchOk, Switched, At
<1>7. CASE conf.on <=> Running
  BY <1>1, <1>3, <1>7 DEF SwitchOk, Switched
<1>8. ASSUME conf.on, NEW h \in Handlers, act[h].ret = "idle", TurningOn(act[h])
      PROVE  SwitchOk'
  <2>1. h # a
    BY <1>8 DEF TurningOn
  <2>2. act'[h] = act[h]
    BY <1>2, <2>1
  <2>3. Switched'
    BY <1>8, <2>2 DEF Switched
  <2> QED
    BY <1>1, <2>3 DEF SwitchOk
<1>9. ASSUME ~conf.on, NEW h \in Handlers, act[h].at = "stop" PROVE SwitchOk'
  <2>1. CASE h = a
    <3>1. conf.on <=> Running
      BY <1>9, <2>1
    <3> QED
      BY <1>7, <3>1
  <2>2. CASE h # a
    <3>1. act'[h] = act[h]
      BY <1>2, <2>2
    <3>2. Switched'
      BY <1>9, <3>1 DEF Switched, At
    <3> QED
      BY <1>1, <3>2 DEF SwitchOk
  <2> QED
    BY <2>1, <2>2
<1> QED
  BY <1>6, <1>7, <1>8, <1>9 DEF SwitchOk, Switched, At

\* A step that moves the tunnel, which docker tells about.
LEMMA SwitchSaid ==
  ASSUME Base, SwitchOk, StartOk', NEW a \in Actors, Others(a),
         events' # <<>>, Latest(events') = "start" <=> Running', tunnel'.st # "none",
         gs' = gs, act'[a].at # "apply", a = EL => ~At(EL, "idle")
  PROVE  SwitchOk'
<1> USE Who
<1>1. \A b \in Actors : b # a => act'[b] = act[b]
  BY DEF Others
<1>2. Heard'
  <2>1. ~At(EL, "idle")' => gs # Unknown
    BY <1>1 DEF SwitchOk, Heard, At
  <2> QED
    BY <2>1 DEF Heard
<1>3. Known'
  <2>1. ASSUME NEW h \in Handlers, act'[h].at = "apply", act'[h].seen = "none"
        PROVE  gs = Unknown
    <3>1. act'[h] = act[h]
      BY <1>1, <2>1
    <3> QED
      BY <2>1, <3>1 DEF SwitchOk, Known, At
  <2>2. gs = Unknown \/ (gs.desired \in {"running", "died"} /\
                         gs.actual \in {"running", "stopped", "died"})
    BY DEF SwitchOk, Known
  <2> QED
    BY <2>1, <2>2 DEF Known, At
<1> QED
  BY <1>2, <1>3 DEF SwitchOk, Switched

\* A goroutine in StartContainer.
LEMMA StartLabels ==
  ASSUME Base, NEW a \in Actors, At(a, "apply"), Others(a), NEW st, Back(a, st)
  PROVE  /\ act'[a].at \in {"idle", "known", "announce"}
         /\ act'[a].at = "known" => act[a].ret = "known" /\ act'[a].seen = st
         /\ act'[a].at = "announce" => a = EL /\ act'[a].seen = st
         /\ act'[a].op = act[a].op \/ act'[a] = Idle
<1>1. act[a].at \in {"find", "apply"}
  BY DEF At
<1>2. act[a].ret \in {"idle", "known", "announce"} /\ (act[a].ret = "announce" => a = EL)
  BY <1>1, StartLanes, Who DEF ServerOps, LocalOps
<1> QED
  BY <1>2, IdleOf DEF Back, Keeps

\* Who starts the tunnel keeps StartOk, whether for the first time or again.
LEMMA StartSteps ==
  ASSUME Base, StartOk, Base', NEW a \in Actors, a # EL, Others(a),
         act[a].at \in {"find", "apply"}, bus' = bus,
         act'[a].op = act[a].op \/ act'[a] = Idle,
         act[a].ret = "known" =>
           /\ events' = events \/ events' = Append(events, "start")
           /\ act'[a].at = "apply" /\ act'[a].ret = "known" => act'[a].seen = tunnel'.st
           /\ act'[a].at = "known" => act'[a].seen = "running" /\ Running'
  PROVE  StartOk'
<1> USE Who
<1>1. a # RU /\ ~At(a, "idle")
  BY StartLanes
<1>2. CASE act[a].ret = "known"
  <2>1. a \in Handlers \cup {Main} /\ (a # Main => act[a].op = "register")
    BY <1>1, <1>2, StartLanes
  <2> QED
    BY <1>1, <1>2, <2>1, StartGoes
<1>3. CASE act[a].ret # "known"
  <2>1. a \in Handlers /\ act[a].op = "toggle"
    BY <1>1, <1>3, StartLanes
  <2>2. act'[a].op # "register"
    BY <2>1, IdleOf
  <2> QED
    BY <2>1, <2>2, StartOther
<1> QED
  BY <1>2, <1>3

\* The event loop calls StartContainer only when nobody starts the tunnel otherwise.
LEMMA StartLoop ==
  ASSUME Base, StartOk, Base', Others(EL), act[EL].at \in {"find", "apply"}, bus' = bus
  PROVE  StartOk'
<1> USE Who
<1>1. ~Starting
  BY StartUnfold
<1>2. \A b \in Actors : b # EL => act'[b] = act[b]
  BY DEF Others
<1>3. ~Announced'
  BY <1>1, <1>2 DEF Starting, Announced, At
<1>4. ~Starting'
  BY <1>1, <1>2, <1>3 DEF Starting, At
<1> QED
  BY <1>4, StartNone


\* What is left to show of a step of StartContainer that leaves the tunnel alone.
LEMMA SwitchLooks ==
  ASSUME Base, SwitchOk, StartOk', NEW a \in Actors, a # EL, Others(a),
         tunnel'.st = tunnel.st, UNCHANGED <<events, gs, missed, conf>>,
         act[a].at \in {"find", "apply"},
         act'[a].at = "apply" /\ act'[a].seen = "none" => tunnel.st = "none",
         a \in Handlers /\ act[a].ret = "idle" /\ TurningOn(act[a]) =>
           \/ act'[a].ret = "idle" /\ TurningOn(act'[a])
           \/ Running \/ missed \/ events # <<>>
  PROVE  SwitchOk'
<1> USE Who
<1>1. Heard' /\ Known'
  BY HeardKept, KnownKept DEF SwitchOk
<1>2. \A b \in Actors : b # a => act'[b] = act[b]
  BY DEF Others
<1>3. Running' <=> Running
  BY DEF Running
<1>4. act'[EL] = act[EL]
  BY <1>2
<1>5. conf.on \in BOOLEAN /\ conf' = conf
  BY DEF Base, Typed
<1>6. CASE ~(~missed /\ events = <<>> /\ act[EL].at = "idle")
  BY <1>1, <1>4, <1>6 DEF SwitchOk, Switched, At
<1>7. CASE conf.on <=> Running
  BY <1>1, <1>3, <1>5, <1>7 DEF SwitchOk, Switched
<1>8. ASSUME ~missed, events = <<>>, conf.on, NEW h \in Handlers, act[h].ret = "idle",
             TurningOn(act[h])
      PROVE  SwitchOk'
  <2>1. CASE act'[h].ret = "idle" /\ TurningOn(act'[h])
    <3>1. Switched'
      BY <1>5, <1>8, <2>1 DEF Switched
    <3> QED
      BY <1>1, <3>1 DEF SwitchOk
  <2>2. CASE Running
    BY <1>7, <1>8, <2>2
  <2>3. CASE h # a
    <3>1. act'[h] = act[h]
      BY <1>2, <2>3
    <3> QED
      BY <1>8, <2>1, <3>1
  <2> QED
    BY <1>8, <2>1, <2>2, <2>3
<1>9. ASSUME ~conf.on, NEW h \in Handlers, act[h].at = "stop" PROVE SwitchOk'
  <2>1. h # a
    BY <1>9
  <2>2. act'[h] = act[h]
    BY <1>2, <2>1
  <2>3. Switched'
    BY <1>5, <1>9, <2>2 DEF Switched, At
  <2> QED
    BY <1>1, <2>3 DEF SwitchOk
<1> QED
  BY <1>6, <1>7, <1>8, <1>9 DEF SwitchOk, Switched, At

\* The event loop in StartContainer.
LEMMA SwitchLoops ==
  ASSUME Base, SwitchOk, Base', Others(EL), act[EL].at \in {"find", "apply"},
         tunnel'.st = tunnel.st, UNCHANGED <<events, gs, missed, conf, bus>>,
         act'[EL].at \in {"apply", "announce"},
         events = <<>> => IF act'[EL].at = "apply" THEN act'[EL].seen # "running"
                          ELSE act'[EL].seen # "start"
  PROVE  SwitchOk'
<1> USE Who
<1>1. StartOk'
  BY StartLoop DEF SwitchOk
<1>2. Known'
  BY KnownKept DEF SwitchOk
<1>3. Running' <=> Running
  BY DEF Running
<1>4. gs # Unknown /\ (events = <<>> => ~Running)
  BY DEF SwitchOk, Heard, At
<1>5. events # <<>> => (Latest(events') = "start" <=> Running')
  BY <1>3 DEF SwitchOk, Heard
<1>6. Heard'
  BY <1>3, <1>4, <1>5 DEF Heard, At
<1> QED
  BY <1>1, <1>2, <1>6 DEF SwitchOk, Switched, At

LEMMA SwitchFind ==
  ASSUME Base, SwitchOk, NEW a \in Actors, FindContainer(a)
  PROVE  SwitchOk'
<1> USE Who
<1>1. /\ Base' /\ Others(a) /\ Keeps(a) /\ act[a].at = "find"
      /\ act'[a].at = "apply" /\ act'[a].seen = tunnel.st
      /\ UNCHANGED <<tunnel, events, gs, missed, conf, bus>>
  BY FindContainerDoes DEF FindContainer, dockVars, startramVars, histVars, At
<1>2. CASE a = EL
  <2>1. events = <<>> => tunnel.st # "running"
    BY <1>1, <1>2 DEF SwitchOk, Heard, Running
  <2> QED
    BY <1>1, <1>2, <2>1, SwitchLoops
<1>3. CASE a # EL
  <2>1. StartOk'
    BY <1>1, <1>3, StartSteps DEF SwitchOk, Keeps
  <2>2. act[a].ret = "idle" => (act'[a].ret = "idle" /\ TurningOn(act'[a])) \/ Running
    BY <1>1 DEF Keeps, TurningOn, Running
  <2> QED
    BY <1>1, <1>3, <2>1, <2>2, SwitchLooks
<1> QED
  BY <1>2, <1>3

LEMMA SwitchKeep ==
  ASSUME Base, SwitchOk, NEW a \in Actors, KeepTunnel(a)
  PROVE  SwitchOk'
<1> USE Who
<1>1. /\ Base' /\ Others(a) /\ Back(a, tunnel.st) /\ At(a, "apply") /\ act[a].seen = "running"
      /\ UNCHANGED <<tunnel, events, gs, missed, conf, bus>>
  BY KeepTunnelDoes DEF KeepTunnel, dockVars, startramVars, histVars
<1>2. /\ act[a].at = "apply" /\ act'[a].at \in {"idle", "known", "announce"}
      /\ act'[a].at = "known" => act[a].ret = "known" /\ act'[a].seen = tunnel.st
      /\ act'[a].op = act[a].op \/ act'[a] = Idle
  BY <1>1, StartLabels DEF At
<1>3. CASE a = EL
  <2>1. events # <<>>
    BY <1>1, <1>3 DEF SwitchOk, Heard
  <2>2. act'[EL].at = "announce"
    BY <1>1, <1>2, <1>3, StartLanes DEF Back
  <2> QED
    BY <1>1, <1>2, <1>3, <2>1, <2>2, SwitchLoops
<1>4. CASE a # EL
  <2>1. a \in Handlers \cup {Main}
    BY <1>2, <1>4, StartLanes
  <2>2. act[a].ret = "known" => tunnel.st = "running"
    BY <1>1, <2>1 DEF SwitchOk, StartOk
  <2>3. StartOk'
    BY <1>1, <1>2, <1>4, <2>2, StartSteps DEF SwitchOk, Running
  <2>4. ~TurningOn(act[a])
    BY <1>1, <1>2 DEF TurningOn
  <2> QED
    BY <1>1, <1>2, <1>4, <2>3, <2>4, SwitchLooks
<1> QED
  BY <1>3, <1>4

LEMMA SwitchFails ==
  ASSUME Base, SwitchOk, NEW a \in Actors, CreateTunnelFails(a)
  PROVE  SwitchOk'
<1> USE Who
<1>1. /\ Base' /\ Others(a) /\ At(a, "apply") /\ act[a].seen = "none" /\ tunnel.st # "none"
      /\ act[a].ret = "known" => act'[a] = Idle
      /\ act[a].ret # "known" => Back(a, "none")
      /\ UNCHANGED <<tunnel, events, gs, missed, conf, bus>>
  BY CreateTunnelFailsDoes DEF CreateTunnelFails, dockVars, startramVars, histVars
<1>2. /\ act[a].at = "apply" /\ act'[a].at \in {"idle", "announce"}
      /\ act'[a].at = "announce" => a = EL /\ act'[a].seen = "none"
      /\ act'[a].op = act[a].op \/ act'[a] = Idle
  <2>0. act[a].at = "apply"
    BY <1>1 DEF At
  <2>1. CASE act[a].ret = "known"
    BY <1>1, <2>0, <2>1, IdleOf
  <2>2. CASE act[a].ret # "known"
    <3>1. /\ act'[a].at \in {"idle", "known", "announce"}
          /\ act'[a].at = "known" => act[a].ret = "known"
          /\ act'[a].at = "announce" => a = EL /\ act'[a].seen = "none"
          /\ act'[a].op = act[a].op \/ act'[a] = Idle
      BY <1>1, <2>2, StartLabels
    <3> QED
      BY <2>0, <2>2, <3>1
  <2> QED
    BY <2>1, <2>2
<1>3. CASE a = EL
  <2>1. act'[EL].at = "announce"
    BY <1>1, <1>2, <1>3, StartLanes DEF Back
  <2> QED
    BY <1>1, <1>2, <1>3, <2>1, SwitchLoops
<1>4. CASE a # EL
  <2>1. StartOk'
    BY <1>1, <1>2, <1>4, StartSteps DEF SwitchOk
  <2>2. a \in Handlers => missed \/ events # <<>>
    BY <1>1 DEF SwitchOk, Known
  <2> QED
    BY <1>1, <1>2, <1>4, <2>1, <2>2, SwitchLooks
<1> QED
  BY <1>3, <1>4

\* The tunnel is created or replaced.
LEMMA SwitchStarted ==
  ASSUME Base, SwitchOk, Base', NEW a \in Actors, Others(a), At(a, "apply"), Back(a, "running"),
         tunnel' = Started, gs' = gs, bus' = bus,
         events' # <<>>, Latest(events') = "start",
         tunnel.st # "running" => events' = Append(events, "start"),
         tunnel.st = "running" => act[a].seen # "running"
  PROVE  SwitchOk'
<1> USE Who
<1>1. Running' /\ tunnel'.st # "none"
  BY StartedOf DEF Running, Base
<1>2. /\ act[a].at = "apply" /\ act'[a].at \in {"idle", "known", "announce"}
      /\ act'[a].at = "known" => act[a].ret = "known" /\ act'[a].seen = "running"
      /\ act'[a].op = act[a].op \/ act'[a] = Idle
  BY StartLabels DEF At
<1>3. StartOk'
  <2>1. CASE a = EL
    BY <1>2, <2>1, StartLoop DEF SwitchOk
  <2>2. CASE a # EL
    <3>1. a \in Handlers \cup {Main}
      BY <1>2, <2>2, StartLanes
    <3>2. act[a].ret = "known" => act[a].seen = tunnel.st
      BY <3>1 DEF SwitchOk, StartOk
    <3>3. act[a].ret = "known" => events' = Append(events, "start")
      BY <3>2
    <3> QED
      BY <1>1, <1>2, <2>2, <3>3, StartSteps DEF SwitchOk
  <2> QED
    BY <2>1, <2>2
<1> QED
  BY <1>1, <1>2, <1>3, SwitchSaid DEF At

LEMMA SwitchCreate ==
  ASSUME Base, SwitchOk, NEW a \in Actors, CreateTunnel(a) \/ ReplaceTunnel(a)
  PROVE  SwitchOk'
<1> USE Who
<1>t. Typed /\ events \in Seq(News)
  BY DEF Base, Typed, News
<1>1. CASE CreateTunnel(a)
  <2>1. /\ Base' /\ Others(a) /\ At(a, "apply") /\ Back(a, "running") /\ tunnel' = Started
        /\ UNCHANGED <<gs, bus>> /\ events' = Append(events, "start") /\ tunnel.st = "none"
    BY <1>1, CreateTunnelDoes DEF CreateTunnel, startramVars
  <2>2. events' # <<>> /\ Latest(events') = "start"
    BY <1>t, <2>1, NewsStart
  <2> QED
    BY <2>1, <2>2, SwitchStarted
<1>2. CASE ReplaceTunnel(a)
  <2>1. /\ Base' /\ Others(a) /\ At(a, "apply") /\ Back(a, "running") /\ tunnel' = Started
        /\ UNCHANGED <<gs, bus>> /\ act[a].seen = "exited"
        /\ events' = events \o (IF Running THEN <<"die", "start">> ELSE <<"start">>)
    BY <1>2, ReplaceTunnelDoes DEF ReplaceTunnel, startramVars
  <2>2. CASE Running
    <3>1. events' = events \o <<"die", "start">>
      BY <2>1, <2>2
    <3>2. events' # <<>> /\ Latest(events') = "start"
      BY <1>t, <3>1, NewsPair DEF News
    <3> QED
      BY <2>1, <2>2, <3>2, SwitchStarted DEF Running
  <2>3. CASE ~Running
    <3>1. events' = events \o <<"start">>
      BY <2>1, <2>3
    <3>2. events' = Append(events, "start")
      BY <1>t, <3>1
    <3>3. events' # <<>> /\ Latest(events') = "start"
      BY <1>t, <3>2, NewsStart
    <3> QED
      BY <2>1, <2>3, <3>2, <3>3, SwitchStarted DEF Running
  <2> QED
    BY <2>2, <2>3
<1> QED
  BY <1>1, <1>2


LEMMA SwitchShared ==
  ASSUME Base, SwitchOk, NEW a \in Actors, SharedStep(a)
  PROVE  SwitchOk'
<1> USE Who
<1>s. StartOk
  BY DEF SwitchOk
<1>1. CASE WriteWgConf(a)
  <2>1. /\ Base' /\ Others(a) /\ a # EL /\ a # RU /\ act[a].at = "wgconf"
        /\ act'[a].at = "find" /\ act'[a].op = act[a].op
        /\ UNCHANGED <<tunnel, events, gs, missed, conf, bus>>
    BY <1>1, WriteWgConfDoes DEF WriteWgConf, dockVars, startramVars, At
  <2>2. a \in Handlers \cup {Main} /\ (a # Main => act[a].op = "register")
    BY <2>1, LaneOf
  <2>3. StartOk'
    BY <1>s, <2>1, <2>2, StartGoes DEF At
  <2> QED
    BY <2>1, <2>3, SwitchKept
<1>2. CASE StoreState(a)
  <2>1. /\ Base' /\ Others(a) /\ At(a, "known") /\ act[a].at = "known"
        /\ gs' = [desired |-> "running", actual |-> act[a].seen]
        /\ UNCHANGED <<tunnel, events, missed, conf>>
    BY <1>2, StoreStateDoes DEF StoreState, dockVars, histVars, At
  <2>2. \/ a = Main /\ bus' = bus /\ act'[a].at = "load"
        \/ a \in Handlers /\ act[a].op = "register" /\ bus' = Append(bus, "complete")
             /\ act'[a] = Idle
    BY <1>2, StoreStateDoes
  <2>3. act[a].seen = "running" /\ Running
    BY <1>s, <2>1, <2>2 DEF StartOk
  <2>4. \A b \in Actors : b # a => act'[b] = act[b]
    BY <2>1 DEF Others
  <2>5. \A b \in Handlers \cup {Main} : b # a => act[b].at = "idle"
    <3>1. CASE a = Main
      BY <2>1, <3>1 DEF Base, Alone, At
    <3>2. CASE a # Main
      BY <2>1, <2>2, <3>2 DEF Base, Alone, At, ServerOps
    <3> QED
      BY <3>1, <3>2
  <2>6. StartOk'
    <3>1. CASE a = Main
      BY <1>s, <2>1, <2>2, <3>1, StartGoes DEF At
    <3>2. CASE a # Main
      <4>1. ~Announced /\ Starting
        BY <1>s, <2>1, <2>2, <3>2, StartUnfold DEF Starting
      <4>2. act[RU].at # "complete" /\ act'[RU] = act[RU] /\ act'[EL] = act[EL]
        BY <2>2, <2>4, <3>2, <4>1 DEF Announced, At
      <4>3. \A b \in Handlers \cup {Main} : act'[b].at = "idle"
        BY <2>2, <2>4, <2>5, <3>2, IdleOf
      <4>4. Running' /\ gs'.actual = "running"
        BY <2>1, <2>3 DEF Running
      <4>5. /\ AllStart(events') /\ act'[EL].at \in {"idle", "announce"}
            /\ act'[EL].at = "announce" => act'[EL].seen = "start"
        BY <1>s, <2>1, <4>1, <4>2, StartUnfold
      <4> QED
        BY <4>2, <4>3, <4>4, <4>5, StartUnfoldNext
    <3> QED
      BY <3>1, <3>2
  <2>7. gs' # Unknown /\ gs'.desired = "running" /\ gs'.actual = "running"
    BY <2>1, <2>3 DEF Unknown
  <2>8. act'[EL] = act[EL] /\ tunnel.st # "none" /\ (Running' <=> Running)
    BY <2>1, <2>2, <2>3, <2>4 DEF Running
  <2>9. \A h \in Handlers : act'[h].at # "apply"
    BY <2>1, <2>2, <2>4, <2>5, IdleOf
  <2>10. Heard'
    BY <2>1, <2>7, <2>8 DEF SwitchOk, Heard, At
  <2>11. Known'
    BY <2>1, <2>7, <2>8, <2>9 DEF Known, At
  <2>12. \A h \in Handlers : act[h].at # "stop" /\ ~TurningOn(act[h])
    BY <2>1, <2>5 DEF TurningOn
  <2>13. Switched'
    BY <2>1, <2>8, <2>12 DEF SwitchOk, Switched, At
  <2> QED
    BY <2>6, <2>10, <2>11, <2>13 DEF SwitchOk
<1>3. ASSUME NEW s \in Ships, LoadShip(a, s) PROVE SwitchOk'
  <2>1. /\ Base' /\ Others(a) /\ a \in Handlers \cup {Main} /\ act[a].at = "load"
        /\ act'[a].at \in {"load", "idle"}
        /\ act'[a].op = act[a].op \/ act'[a] = Idle
        /\ UNCHANGED <<tunnel, events, gs, missed, conf, bus>>
    BY <1>3, LoadShipDoes DEF LoadShip, startramVars, histVars, At
  <2>2. StartOk'
    <3>1. CASE a = Main
      BY <1>s, <2>1, <3>1, StartGoes DEF At
    <3>2. CASE a # Main
      <4>1. a \in Handlers /\ act[a].op = "restart"
        BY <2>1, <3>2, LaneOf
      <4> QED
        BY <1>s, <2>1, <4>1, IdleOf, StartOther
    <3> QED
      BY <3>1, <3>2
  <2> QED
    BY <2>1, <2>2, SwitchKept
<1> QED
  BY <1>1, <1>2, <1>3, SwitchFind, SwitchKeep, SwitchFails, SwitchCreate DEF SharedStep

\* A step of RectifyUrbit.
LEMMA StartRectify ==
  ASSUME Base, StartOk, Others(RU), tunnel'.st = tunnel.st, events' = events,
         gs' = gs, Announced' => Announced,
         act'[RU].at = "complete" => Announced /\ act'[RU].seen = "running"
  PROVE  StartOk'
<1> USE Who
<1>1. \A b \in Actors : b # RU => act'[b] = act[b]
  BY DEF Others
<1>2. Starting' => Starting
  BY <1>1 DEF Starting, At
<1>3. Running' <=> Running
  BY DEF Running
<1>4. act'[EL] = act[EL] /\ \A b \in Handlers \cup {Main} : act'[b] = act[b]
  BY <1>1
<1> QED
  BY <1>2, <1>3, <1>4, StartUnfold, StartUnfoldNext

LEMMA SwitchRectify ==
  ASSUME Base, SwitchOk, RectifyStep
  PROVE  SwitchOk'
<1> USE Who
<1>s. StartOk /\ Typed
  BY DEF SwitchOk, Base
<1>1. CASE TakeEvent
  <2>1. /\ Others(RU) /\ At(RU, "idle") /\ bus # <<>> /\ bus' = Tail(bus)
        /\ Head(bus) = "retrieve" => act'[RU].at = "ship"
        /\ Head(bus) # "retrieve" => act'[RU].at = "complete" /\ act'[RU].seen = gs.actual
        /\ UNCHANGED <<tunnel, events, gs, missed, conf>>
    BY <1>1, TakeEventDoes DEF TakeEvent, dockVars, histVars
  <2>2. Inside("complete", bus) <=> "complete" = Head(bus) \/ Inside("complete", bus')
    BY <1>s, <2>1, BusTail
  <2>3. Head(bus) \in {"retrieve", "complete"}
    BY <1>s, <2>1, TailBus
  <2>4. act'[RU].at = "complete" => Inside("complete", bus)
    BY <2>1, <2>2, <2>3
  <2>5. Announced' => Announced
    BY <2>2, <2>4 DEF Announced, At
  <2>6. act'[RU].at = "complete" => act'[RU].seen = "running"
    BY <1>s, <2>1, <2>4 DEF StartOk, Announced
  <2>7. StartOk'
    BY <1>s, <2>1, <2>4, <2>5, <2>6, StartRectify DEF Announced
  <2> QED
    BY <2>1, <2>7, SwitchKept DEF At
<1>2. CASE Complete
  <2>1. /\ Others(RU) /\ act'[RU] = Idle /\ act[RU].at = "complete"
        /\ UNCHANGED <<tunnel, events, gs, bus>>
        /\ conf' = IF act[RU].seen = "unknown" THEN conf
                   ELSE [conf EXCEPT !.on = (act[RU].seen = "running")]
    BY <1>2, CompleteDoes DEF Complete, dockVars, startramVars, At
  <2>2. Announced
    BY <2>1 DEF Announced, At
  <2>3. Running /\ act[RU].seen = "running" /\ \A h \in Handlers : act[h].at = "idle"
    BY <1>s, <2>1, <2>2, StartUnfold
  <2>4. conf'.on = TRUE
    <3>1. conf' = [conf EXCEPT !.on = TRUE]
      BY <2>1, <2>3
    <3> QED
      BY <1>s, <3>1, SwitchTo
  <2>5. StartOk'
    BY <1>s, <2>1, <2>2, IdleOf, StartRectify
  <2>6. Heard'
    BY <2>1, HeardKept DEF SwitchOk
  <2>7. \A h \in Handlers : act'[h].at # "apply"
    BY <2>1, <2>3 DEF Others
  <2>8. Known'
    BY <2>1, <2>7 DEF SwitchOk, Known, At
  <2>9. Switched'
    BY <2>1, <2>3, <2>4 DEF Switched, Running
  <2> QED
    BY <2>5, <2>6, <2>8, <2>9 DEF SwitchOk
\* what is left to show of a step for a ship
<1>r. ASSUME Others(RU), act[RU].at # "stop", act'[RU].at # "complete",
             UNCHANGED <<tunnel, events, gs, missed, conf, bus>>
      PROVE  SwitchOk'
  <2>1. Announced' => Announced
    BY <1>r DEF Announced, At
  <2>2. StartOk'
    BY <1>s, <1>r, <2>1, StartRectify
  <2> QED
    BY <1>r, <2>2, SwitchKept
<1>3. CASE CreateMissing
  BY <1>3, <1>r, CreateMissingDoes DEF CreateMissing, dockVars, histVars, At
<1>4. CASE StoreShip
  BY <1>4, <1>r, StoreShipDoes, IdleOf DEF StoreShip, dockVars, startramVars, histVars, At
<1>5. ASSUME NEW s \in Ships, ReadShip(s) PROVE SwitchOk'
  BY <1>5, <1>r, ReadShipDoes DEF ReadShip, dockVars, startramVars, histVars, At
<1> QED
  BY <1>1, <1>2, <1>3, <1>4, <1>5 DEF RectifyStep


\* The event loop takes docker's next word.
LEMMA SwitchTake ==
  ASSUME Base, SwitchOk, TakeDockerEvent
  PROVE  SwitchOk'
<1> USE Who
<1>1. /\ Base' /\ Others(EL) /\ act[EL].at = "idle" /\ events # <<>> /\ events' = Tail(events)
      /\ UNCHANGED <<tunnel, bus>>
  BY TakeDockerEventDoes DEF TakeDockerEvent, startramVars, At
<1>2. \A b \in Actors : b # EL => act'[b] = act[b]
  BY <1>1 DEF Others
<1>3. /\ Running' <=> Running
      /\ Announced' <=> Announced
      /\ Starting' <=> Starting
  BY <1>1, <1>2 DEF Running, Announced, Starting, At
<1>4. /\ Latest(events) = "start" <=> Running
      /\ events' # <<>> => (Latest(events') = "start" <=> Running')
      /\ events' = <<>> => (Head(events) = "start" <=> Running')
      /\ AllStart(events) => Head(events) = "start" /\ AllStart(events')
  <2>1. events \in Seq(News)
    BY DEF Base, Typed, News
  <2>2. Latest(events) = "start" <=> Running
    BY <1>1 DEF SwitchOk, Heard
  <2> QED
    BY <1>1, <1>3, <2>1, <2>2, NewsTail
<1>5. \A h \in Handlers \cup {Main} : act'[h] = act[h]
  BY <1>2
<1>6. act'[RU] = act[RU]
  BY <1>2
\* what is left to show when StartOk's parts about the loop are known
<1>s. ASSUME Announced => gs'.actual = "running",
             Starting => /\ act'[EL].at \in {"idle", "announce"}
                         /\ act'[EL].at = "announce" => act'[EL].seen = "start"
      PROVE  StartOk'
  <2>1. Starting => AllStart(events')
    BY <1>4, StartUnfold DEF SwitchOk
  <2> QED
    BY <1>s, <1>1, <1>3, <1>5, <1>6, <2>1, StartUnfold, StartUnfoldNext DEF SwitchOk
<1>7. CASE gs = Unknown
  <2>1. act'[EL] = Idle /\ missed' = TRUE /\ gs' = gs /\ conf' = conf
    BY <1>7, TakeDockerEventDoes
  <2>2. ~Announced
    BY <1>7, StartUnfold DEF SwitchOk, Unknown
  <2>3. StartOk'
    BY <1>s, <2>1, <2>2, IdleOf
  <2>4. Heard'
    BY <1>4, <2>1, IdleOf DEF Heard, At
  <2>5. Known'
    BY <1>7, <2>1 DEF Known, At
  <2> QED
    BY <2>1, <2>3, <2>4, <2>5 DEF SwitchOk, Switched
<1>8. CASE gs # Unknown
  <2>1. /\ tunnel.st # "none" /\ gs.desired \in {"running", "died"}
        /\ gs.actual \in {"running", "stopped", "died"}
        /\ \A h \in Handlers : ~(act[h].at = "apply" /\ act[h].seen = "none")
    BY <1>8 DEF SwitchOk, Known, At
  <2>2. gs \in [desired : {"unknown", "running", "died"}, actual : Seen]
    BY DEF Base, Typed
  <2>3. \A h \in Handlers : ~(act'[h].at = "apply" /\ act'[h].seen = "none")
    BY <1>5, <2>1
  \* what is left to show of what the loop keeps of the container
  <2>k. ASSUME gs'.desired \in {"running", "died"}, gs'.actual \in {"running", "stopped", "died"}
        PROVE  Known' /\ gs' # Unknown
    BY <1>1, <2>1, <2>3, <2>k DEF Known, At, Unknown
  <2>4. CASE Head(events) = "start" /\ gs' = [gs EXCEPT !.actual = "running"]
             /\ act'[EL].at = "announce" /\ act'[EL].seen = "start"
    <3>1. gs'.desired = gs.desired /\ gs'.actual = "running"
      BY <2>2, <2>4
    <3>2. StartOk'
      BY <1>s, <2>4, <3>1
    <3>3. Known' /\ gs' # Unknown
      BY <2>1, <2>k, <3>1
    <3>4. Heard'
      BY <1>4, <2>4, <3>3 DEF Heard, At
    <3> QED
      BY <2>4, <3>2, <3>3, <3>4 DEF SwitchOk, Switched, At
  <2>5. ASSUME Head(events) # "start", act'[EL].at \in {"find", "announce"},
               act'[EL].at = "announce" => act'[EL].seen = "die",
               gs'.desired \in {"running", "died"}, gs'.actual \in {"running", "stopped", "died"}
        PROVE  SwitchOk'
    <3>1. ~Starting
      BY <1>4, <2>5, StartUnfold DEF SwitchOk
    <3>2. StartOk'
      BY <1>1, <1>3, <3>1, StartNone
    <3>3. Known' /\ gs' # Unknown
      BY <2>5, <2>k
    <3>4. Heard'
      BY <1>4, <2>5, <3>3 DEF Heard, At
    <3> QED
      BY <2>5, <3>2, <3>3, <3>4 DEF SwitchOk, Switched, At
  <2>6. CASE Head(events) = "stop" /\ gs' = [gs EXCEPT !.actual = "stopped"]
             /\ act'[EL].at = "find"
    <3>1. gs'.desired = gs.desired /\ gs'.actual = "stopped"
      BY <2>2, <2>6
    <3> QED
      BY <2>1, <2>5, <2>6, <3>1
  <2>7. CASE Head(events) = "die" /\ gs' = [desired |-> "died", actual |-> "died"]
             /\ act'[EL].at = "announce" /\ act'[EL].seen = "die"
    <3>1. gs'.desired = "died" /\ gs'.actual = "died"
      BY <2>7
    <3> QED
      BY <2>5, <2>7, <3>1
  <2> QED
    BY <1>8, <2>4, <2>6, <2>7, TakeDockerEventDoes
<1> QED
  BY <1>7, <1>8

LEMMA SwitchAnnounce ==
  ASSUME Base, SwitchOk, MakeBroadcast
  PROVE  SwitchOk'
<1> USE Who
<1>1. /\ Base' /\ Others(EL) /\ act[EL].at = "announce" /\ act'[EL] = Idle
      /\ conf'.on = (act[EL].seen = "start") /\ missed' = FALSE
      /\ UNCHANGED <<tunnel, events, gs, bus>>
  BY MakeBroadcastDoes DEF MakeBroadcast, dockVars, startramVars, At
<1>2. \A b \in Actors : b # EL => act'[b] = act[b]
  BY <1>1 DEF Others
<1>3. /\ Running' <=> Running
      /\ Announced' <=> Announced
      /\ Starting' <=> Starting
  BY <1>1, <1>2 DEF Running, Announced, Starting, At
<1>4. \A h \in Handlers \cup {Main} : act'[h] = act[h]
  BY <1>2
<1>5. act'[RU] = act[RU] /\ act'[EL].at = "idle"
  BY <1>1, <1>2, IdleOf
<1>6. StartOk'
  BY <1>1, <1>3, <1>4, <1>5, StartUnfold, StartUnfoldNext DEF SwitchOk
<1>7. Heard'
  BY <1>1, <1>3, <1>5 DEF SwitchOk, Heard, At, Latest
<1>8. gs # Unknown
  BY <1>1 DEF SwitchOk, Heard, At
<1>9. Known'
  BY <1>1, <1>4, <1>8 DEF SwitchOk, Known, At
<1>10. Switched'
  <2>1. events = <<>> => (act[EL].seen = "start" <=> Running)
    BY <1>1 DEF SwitchOk, Heard, At
  <2> QED
    BY <1>1, <1>3, <2>1 DEF Switched
<1> QED
  BY <1>6, <1>7, <1>9, <1>10 DEF SwitchOk

LEMMA SwitchLocal ==
  ASSUME Base, SwitchOk, NEW h \in Handlers,
         \/ Begin(h) \/ ReadNetwork(h) \/ StoreNetwork(h) \/ DeleteShip(h) \/ StartShip(h)
         \/ TurnOn(h) \/ TurnOff(h) \/ StopWireguard(h) \/ ShipsLocal(h)
         \/ RestartStops(h) \/ RestartStarts(h) \/ LoadAgain(h)
         \/ \E s \in Ships : LocalShip(h, s) \/ DropShip(h, s)
  PROVE  SwitchOk'
<1> USE Who
<1>s. StartOk /\ Typed /\ events \in Seq(News)
  BY DEF SwitchOk, Base, Typed, News
\* the step of a handler that is none of the registration's
<1>o. ASSUME Base', Others(h), act[h].op \in LocalOps \cup {"endpoint"}, bus' = bus,
             act'[h].op # "register"
      PROVE  StartOk'
  BY <1>s, <1>o, StartOther DEF LocalOps
<1>k. ASSUME Base', Others(h), act[h].op \in LocalOps \cup {"endpoint"},
             act'[h].op # "register", act[h].at \notin {"find", "apply"}, act'[h].at # "apply",
             act[h].at = "stop" => ~Running,
             UNCHANGED <<tunnel, events, gs, missed, bus>>, conf'.on = conf.on
      PROVE  SwitchOk'
  BY <1>k, <1>o, SwitchKept
<1>m. ASSUME Base', Others(h), act[h].op \in LocalOps \cup {"endpoint"}, bus' = bus, gs' = gs,
             act'[h].op # "register", act'[h].at # "apply",
             events' # <<>>, Latest(events') = "start" <=> Running', tunnel'.st # "none"
      PROVE  SwitchOk'
  BY <1>m, <1>o, SwitchSaid
\* the tunnel is stopped
<1>x. ASSUME Base', StopTunnel, Others(h), act[h].op \in LocalOps \cup {"endpoint"},
             bus' = bus, gs' = gs,
             act'[h].op # "register", act'[h].at # "apply"
      PROVE  SwitchOk'
  <2>1. events' = events \o <<"die", "stop">> /\ tunnel'.st = "exited"
    BY <1>s, <1>x, StopTunnelOf DEF StopTunnel
  <2>2. events' # <<>> /\ Latest(events') = "stop"
    BY <1>s, <2>1, NewsPair DEF News
  <2> QED
    BY <1>m, <1>x, <2>1, <2>2 DEF Running
<1>1. CASE Begin(h)
  <2>1. /\ Base' /\ Others(h) /\ act[h].at = "idle" /\ act[Main].at = "idle"
        /\ act[RU].at = "idle" /\ bus = <<>>
        /\ act'[h].op \in ServerOps => Settled
        /\ act'[h].at \notin {"find", "apply", "known"}
        /\ UNCHANGED <<tunnel, events, gs, missed, conf, bus>>
    BY <1>1, BeginDoes DEF Begin, dockVars, startramVars, histVars, At
  <2>2. \A b \in Actors : b # h => act'[b] = act[b]
    BY <2>1 DEF Others
  <2>3. ~Inside("complete", bus)
    BY <2>1 DEF Inside
  <2>4. ~Announced' /\ ~Announced
    BY <2>1, <2>2, <2>3 DEF Announced, At
  <2>5. StartOk'
    <3>1. CASE act'[h].op = "register"
      <4>1. events = <<>> /\ act[EL].at = "idle" /\ \A g \in Handlers : act[g].at = "idle"
        BY <2>1, <3>1 DEF Settled, At, ServerOps
      <4>2. AllStart(events') /\ act'[EL].at = "idle"
        BY <2>1, <2>2, <4>1 DEF AllStart
      <4>3. \A b \in Handlers \cup {Main} : act'[b].at \notin {"apply", "known"}
        BY <2>1, <2>2, <4>1
      <4> QED
        BY <2>4, <4>2, <4>3, StartUnfoldNext
    <3>2. CASE act'[h].op # "register"
      <4>1. CASE \E g \in Handlers : g # h /\ act[g].op = "register"
        <5>1. PICK g \in Handlers : g # h /\ act[g].op = "register"
          BY <4>1
        <5>2. Starting
          BY <5>1 DEF Starting
        <5>3. \A b \in Handlers \cup {Main} :
                /\ act'[b].at = "apply" /\ act'[b].ret = "known" => act'[b].seen = tunnel'.st
                /\ act'[b].at = "known" => act'[b].seen = "running" /\ Running'
          <6>1. Running' <=> Running
            BY <2>1 DEF Running
          <6> QED
            BY <1>s, <2>1, <2>2, <6>1, StartUnfold
        <5> QED
          BY <1>s, <2>1, <2>2, <2>4, <5>2, <5>3, StartUnfold, StartUnfoldNext
      <4>2. CASE \A g \in Handlers : g # h => act[g].op # "register"
        <5>1. ~Starting'
          BY <2>1, <2>2, <2>4, <3>2, <4>2 DEF Starting, At
        <5> QED
          BY <2>1, <5>1, StartNone
      <4> QED
        BY <4>1, <4>2
    <3> QED
      BY <3>1, <3>2
  <2> QED
    BY <2>1, <2>5, SwitchKept
\* a step that does not concern the tunnel, and leaves the handler elsewhere
<1>e. ASSUME Base', Others(h), act[h].op \in LocalOps, act'[h].at \in Elsewhere,
             act[h].at \notin {"find", "apply", "stop"},
             UNCHANGED <<tunnel, events, gs, missed, bus>>, conf'.on = conf.on
      PROVE  SwitchOk'
  BY <1>e, <1>k, NotRegistering DEF Elsewhere
<1>2. CASE ReadNetwork(h)
  BY <1>2, <1>e, ReadNetworkDoes
  DEF ReadNetwork, dockVars, startramVars, histVars, At, Elsewhere
<1>3. CASE StoreNetwork(h)
  BY <1>3, <1>e, StoreNetworkDoes
  DEF StoreNetwork, dockVars, startramVars, histVars, At, Elsewhere
<1>4. CASE DeleteShip(h)
  BY <1>4, <1>e, DeleteShipDoes DEF DeleteShip, startramVars, histVars, At, Elsewhere
<1>5. CASE StartShip(h)
  BY <1>5, <1>e, StartShipDoes DEF StartShip, startramVars, histVars, At, Elsewhere
\* the switch is turned
<1>t. ASSUME StartOk', Others(h), act[h].at \in {"on", "off"}, act'[h].at # "apply",
             UNCHANGED <<tunnel, events, gs, missed>>,
             \/ conf'.on = TRUE /\ act'[h].ret = "idle" /\ TurningOn(act'[h])
             \/ conf'.on = FALSE /\ act'[h].at = "stop"
      PROVE  SwitchOk'
  <2>1. Heard' /\ Known'
    BY <1>t, Who, HeardKept, KnownKept DEF SwitchOk
  <2>2. Switched'
    BY <1>t DEF Switched, At
  <2> QED
    BY <1>t, <2>1, <2>2 DEF SwitchOk
<1>6. CASE TurnOn(h)
  <2>1. /\ Base' /\ Others(h) /\ act[h].at = "on" /\ act[h].op = "toggle"
        /\ act'[h].at = "find" /\ act'[h].ret = "idle" /\ act'[h].op = "toggle"
        /\ UNCHANGED <<tunnel, events, gs, missed, bus>>
    BY <1>6, TurnOnDoes DEF TurnOn, dockVars, startramVars, histVars, At
  <2>2. conf'.on = TRUE
    BY <1>s, <1>6, SwitchTo DEF TurnOn
  <2>3. StartOk'
    BY <1>o, <2>1 DEF LocalOps
  <2> QED
    BY <1>t, <2>1, <2>2, <2>3 DEF TurningOn
<1>7. CASE TurnOff(h)
  <2>1. /\ Base' /\ Others(h) /\ Keeps(h) /\ act[h].at = "off" /\ act[h].op = "toggle"
        /\ act'[h].at = "stop" /\ UNCHANGED <<tunnel, events, gs, missed, bus>>
    BY <1>7, TurnOffDoes DEF TurnOff, dockVars, startramVars, histVars, At
  <2>2. conf'.on = FALSE
    BY <1>s, <1>7, SwitchTo DEF TurnOff
  <2>3. StartOk'
    BY <1>o, <2>1 DEF LocalOps, Keeps
  <2> QED
    BY <1>t, <2>1, <2>2, <2>3
<1>8. CASE StopWireguard(h)
  <2>1. /\ Base' /\ Others(h) /\ act[h].op \in {"toggle", "endpoint"}
        /\ act[h].at \in {"stop", "estop"} /\ act'[h].at \in {"ships", "delete", "idle"}
        /\ UNCHANGED <<gs, missed, conf, bus>>
    BY <1>8, StopWireguardDoes DEF StopWireguard, startramVars, histVars
  <2>2. act'[h].op # "register"
    BY <2>1, NotRegistering DEF Elsewhere
  <2>3. CASE Running
    BY <1>8, <1>x, <2>1, <2>2, <2>3 DEF StopWireguard, LocalOps
  <2>4. CASE ~Running
    <3>1. UNCHANGED <<tunnel, events>>
      BY <1>8, <2>4 DEF StopWireguard, dockVars
    <3> QED
      BY <1>k, <2>1, <2>2, <2>4, <3>1 DEF LocalOps
  <2> QED
    BY <2>3, <2>4
<1>9. CASE ShipsLocal(h)
  BY <1>9, <1>e, ShipsLocalDoes, IdleOf
  DEF ShipsLocal, dockVars, startramVars, histVars, At, Elsewhere, LocalOps
<1>10. CASE RestartStops(h)
  <2>1. /\ Base' /\ Others(h) /\ act[h].op = "restart" /\ act[h].at = "rstop"
        /\ act'[h].at \in {"rstart", "drop"} /\ UNCHANGED <<gs, missed, conf, bus>>
    BY <1>10, RestartStopsDoes DEF RestartStops, startramVars, histVars, At
  <2>2. act'[h].op # "register"
    BY <2>1, NotRegistering DEF Elsewhere
  <2>3. CASE Running
    BY <1>10, <1>x, <2>1, <2>2, <2>3 DEF RestartStops, LocalOps
  <2>4. CASE ~Running
    <3>1. UNCHANGED <<tunnel, events>>
      BY <1>10, <2>4 DEF RestartStops, dockVars
    <3> QED
      BY <1>k, <2>1, <2>2, <3>1 DEF LocalOps
  <2> QED
    BY <2>3, <2>4
<1>11. CASE RestartStarts(h)
  <2>1. /\ Base' /\ Others(h) /\ act[h].op = "restart" /\ act[h].at = "rstart"
        /\ act'[h].at = "drop" /\ UNCHANGED <<gs, missed, conf, bus>>
    BY <1>11, RestartStartsDoes DEF RestartStarts, startramVars, histVars, At
  <2>2. act'[h].op # "register"
    BY <2>1, NotRegistering DEF Elsewhere
  <2>3. CASE Running
    <3>1. UNCHANGED <<tunnel, events>>
      BY <1>11, <2>3 DEF RestartStarts
    <3> QED
      BY <1>k, <2>1, <2>2, <3>1 DEF LocalOps
  <2>4. CASE ~Running
    <3>1. tunnel' = Started /\ events' = Append(events, "start")
      BY <1>11, <2>4 DEF RestartStarts
    <3>2. tunnel'.st = "running" /\ Running' /\ events' # <<>> /\ Latest(events') = "start"
      BY <1>s, <3>1, StartedOf, NewsStart DEF Running
    <3> QED
      BY <1>m, <2>1, <2>2, <3>2 DEF LocalOps
  <2> QED
    BY <2>3, <2>4
<1>12. CASE LoadAgain(h)
  BY <1>12, <1>e, LoadAgainDoes
  DEF LoadAgain, dockVars, startramVars, histVars, At, Elsewhere, LocalOps
<1>13. ASSUME NEW s \in Ships, LocalShip(h, s) PROVE SwitchOk'
  BY <1>13, <1>e, LocalShipDoes
  DEF LocalShip, dockVars, startramVars, histVars, At, Elsewhere, LocalOps
<1>14. ASSUME NEW s \in Ships, DropShip(h, s) PROVE SwitchOk'
  BY <1>14, <1>e, DropShipDoes DEF DropShip, startramVars, histVars, At, Elsewhere, LocalOps
<1> QED
  BY <1>1, <1>2, <1>3, <1>4, <1>5, <1>6, <1>7, <1>8, <1>9, <1>10, <1>11, <1>12, <1>13, <1>14

LEMMA SwitchServer ==
  ASSUME Base, SwitchOk, NEW h \in Handlers,
         \/ CycleWgKey(h) \/ PostRegister(h) \/ RegisterFails(h) \/ GetAnswer(h)
         \/ PollEnds(h) \/ PollAgain(h) \/ PollTimesOut(h)
         \/ ServicesDeleted(h) \/ SetEndpoint(h) \/ CancelSub(h)
         \/ \E s \in Ships : CreateService(h, s) \/ DeleteService(h, s)
  PROVE  SwitchOk'
<1> USE Who
<1>s. StartOk /\ Typed
  BY DEF SwitchOk, Base
\* none of these steps concerns the tunnel
<1>k. ASSUME Base', Others(h), act[h].op \in ServerOps,
             bus' = bus \/ bus' = Append(bus, "retrieve"),
             act[h].op # "register" => act'[h].op # "register",
             act[h].at \notin {"idle", "find", "apply", "stop"},
             act'[h].at \notin {"apply", "known"},
             tunnel'.st = tunnel.st, UNCHANGED <<events, gs, missed>>, conf'.on = conf.on
      PROVE  SwitchOk'
  <2>1. StartOk'
    <3>1. CASE act[h].op = "register"
      BY <1>s, <1>k, <3>1, StartGoes DEF At
    <3>2. CASE act[h].op # "register"
      BY <1>s, <1>k, <3>2, StartOther DEF ServerOps
    <3> QED
      BY <3>1, <3>2
  <2> QED
    BY <1>k, <2>1, SwitchKept
\* what a retrieve puts on the bus
<1>r. ASSUME Retrieved(server) PROVE bus' = bus \/ bus' = Append(bus, "retrieve")
  BY <1>s, <1>r, RetrievedDoes DEF Fetched
<1>1. CASE CycleWgKey(h)
  <2>1. /\ Base' /\ Others(h) /\ act[h].op \in ServerOps /\ act[h].at \in {"rkey", "ekey", "ckey"}
        /\ act[h].at = "rkey" => act'[h].at = "post"
        /\ act[h].at = "ekey" => act'[h].at = "set"
        /\ act[h].at = "ckey" => act'[h] = Idle
        /\ tunnel'.st = tunnel.st /\ UNCHANGED <<events, gs, missed, conf, bus>>
    BY <1>1, CycleWgKeyDoes DEF CycleWgKey, histVars
  <2>2. act[h].op # "register" => act[h].at # "rkey"
    BY LaneOf
  <2>3. act[h].op # "register" => act'[h].op # "register"
    BY <2>1, <2>2, IdleOf, NotRegistering DEF Elsewhere
  <2> QED
    BY <1>k, <2>1, <2>3, IdleOf
<1>2. CASE PostRegister(h)
  BY <1>2, <1>k, PostRegisterDoes DEF PostRegister, dockVars, histVars, At, ServerOps
<1>3. CASE RegisterFails(h)
  BY <1>3, <1>k, RegisterFailsDoes, IdleOf
  DEF RegisterFails, dockVars, startramVars, histVars, At, ServerOps
<1>4. CASE GetAnswer(h)
  <2>1. /\ Base' /\ Others(h) /\ act[h].at = "get" /\ act[h].op \in ServerOps
        /\ act[h].ret \in {"create", "delete"}
        /\ Retrieved(server) /\ conf'.on = conf.on
        /\ act'[h] = Idle \/ (act'[h].at = act[h].ret /\ act'[h].op = act[h].op)
        /\ UNCHANGED <<tunnel, events, gs, missed>>
    BY <1>4, GetAnswerDoes DEF GetAnswer, dockVars, histVars, At
  <2> QED
    BY <1>k, <1>r, <2>1, IdleOf
<1>5. CASE PollEnds(h)
  BY <1>5, <1>k, <1>r, PollEndsDoes DEF PollEnds, dockVars, histVars, At, ServerOps
<1>6. CASE PollAgain(h)
  <2>1. /\ Base' /\ Others(h) /\ act'[h] = act[h] /\ act[h].at = "poll" /\ act[h].op = "register"
        /\ Retrieved(server) /\ conf'.on = conf.on
        /\ UNCHANGED <<tunnel, events, gs, missed>>
    BY <1>6, PollAgainDoes DEF PollAgain, dockVars, histVars, At, Others
  <2> QED
    BY <1>k, <1>r, <2>1 DEF ServerOps
<1>7. CASE PollTimesOut(h)
  BY <1>7, <1>k, <1>r, PollTimesOutDoes, IdleOf DEF PollTimesOut, dockVars, At, ServerOps
<1>8. CASE ServicesDeleted(h)
  BY <1>8, <1>k, ServicesDeletedDoes
  DEF ServicesDeleted, dockVars, startramVars, histVars, At, ServerOps
<1>9. CASE SetEndpoint(h)
  BY <1>9, <1>k, SetEndpointDoes, IdleOf
  DEF SetEndpoint, dockVars, startramVars, histVars, At, ServerOps
<1>10. CASE CancelSub(h)
  BY <1>10, <1>k, CancelSubDoes, IdleOf DEF CancelSub, dockVars, histVars, At, ServerOps
<1>11. ASSUME NEW s \in Ships, CreateService(h, s) PROVE SwitchOk'
  BY <1>11, <1>k, CreateServiceDoes DEF CreateService, dockVars, histVars, At, ServerOps
<1>12. ASSUME NEW s \in Ships, DeleteService(h, s) PROVE SwitchOk'
  <2>1. act'[h].at \in {"get", "delete"}
    BY <1>12, DeleteServiceDoes
  <2> QED
    BY <1>12, <1>k, <2>1, DeleteServiceDoes DEF DeleteService, dockVars, histVars, At, ServerOps
<1> QED
  BY <1>1, <1>2, <1>3, <1>4, <1>5, <1>6, <1>7, <1>8, <1>9, <1>10, <1>11, <1>12

\* The state after the daemon was started: main works, no event is queued.
LEMMA FreshStart ==
  ASSUME \A a \in Actors : a # Main => act'[a] = Idle, act'[Main].at \in {"wgconf", "load"},
         bus' \in {<<>>, <<"retrieve">>}, gs' = Unknown, events' = <<>>,
         ~missed' => (conf'.on <=> Running')
  PROVE  SwitchOk'
<1> USE Who
<1>1. act'[EL].at = "idle" /\ act'[RU].at = "idle" /\ \A h \in Handlers : act'[h].at = "idle"
  BY IdleOf
<1>2. ~Inside("complete", bus')
  <2>1. CASE bus' = <<>>
    BY <2>1 DEF Inside
  <2>2. CASE bus' = <<"retrieve">>
    <3>1. Len(bus') = 1 /\ bus'[1] = "retrieve"
      BY <2>2
    <3>2. \A i \in 1..Len(bus') : i = 1
      BY <3>1
    <3> QED
      BY <3>1, <3>2 DEF Inside
  <2> QED
    BY <2>1, <2>2
<1>3. ~Announced'
  BY <1>1, <1>2 DEF Announced, At
<1>4. AllStart(events')
  BY DEF AllStart
<1>5. StartOk'
  BY <1>1, <1>3, <1>4, StartUnfoldNext
<1>6. Heard' /\ Known'
  BY <1>1 DEF Heard, Known, At
<1>7. Switched'
  BY DEF Switched
<1> QED
  BY <1>5, <1>6, <1>7 DEF SwitchOk

LEMMA SwitchWorld ==
  ASSUME Base, SwitchOk,
         (\E e \in Endpoints, s \in Ships : ServiceReady(e, s)) \/ TunnelDies \/ Restart
  PROVE  SwitchOk'
<1> USE Who
<1>s. StartOk
  BY DEF SwitchOk
<1>1. ASSUME NEW e \in Endpoints, NEW s \in Ships, ServiceReady(e, s) PROVE SwitchOk'
  <2>1. /\ Base' /\ act' = act /\ Others(RU)
        /\ UNCHANGED <<tunnel, events, gs, missed, conf, bus>>
    BY <1>1, ServiceReadyDoes DEF ServiceReady, dockVars, histVars, Others
  <2>2. Announced' <=> Announced
    BY <2>1 DEF Announced, At
  <2>3. act'[RU].at = "complete" => Announced /\ act'[RU].seen = "running"
    <3>1. act[RU].at = "complete" => Announced
      BY DEF Announced, At
    <3> QED
      BY <1>s, <2>1, <3>1, StartUnfold
  <2>4. StartOk'
    BY <1>s, <2>1, <2>2, <2>3, StartRectify
  <2>5. act[RU].at # "stop"
    BY DEF Base, Lanes, RectifyLane
  <2> QED
    BY <2>1, <2>4, <2>5, SwitchKept
<1>2. CASE TunnelDies
  <2>1. /\ Base' /\ act' = act /\ Others(RU) /\ tunnel'.st = "exited" /\ events' = <<"die">>
        /\ UNCHANGED <<gs, bus>> /\ Settled
    BY <1>2, TunnelDiesDoes DEF TunnelDies, startramVars, Others
  <2>2. bus' = <<>> /\ \A a \in Actors : act'[a].at = "idle"
    BY <2>1 DEF Settled, At
  <2>3. ASSUME NEW h \in Handlers PROVE act'[h].op # "register"
    BY <2>1, <2>2, NotRegistering DEF Elsewhere
  <2>4. ~Starting'
    BY <2>2, <2>3 DEF Starting, Announced, Inside, At
  <2>5. StartOk'
    BY <2>1, <2>4, StartNone
  <2>6. events' # <<>> /\ Latest(events') = "die" /\ ~Running'
    BY <2>1 DEF Latest, Running
  <2> QED
    BY <2>1, <2>2, <2>5, <2>6, SwitchSaid
<1>3. CASE Restart
  <2>1. /\ \A a \in Actors : a # Main => act'[a] = Idle
        /\ act'[Main].at \in {"wgconf", "load"} /\ bus' \in {<<>>, <<"retrieve">>}
        /\ gs' = Unknown /\ events' = <<>> /\ UNCHANGED <<conf, tunnel>>
        /\ missed' = (missed \/ ~Settled)
    BY <1>3, RestartDoes DEF Restart, Base, Typed
  <2>2. ~missed' => (conf'.on <=> Running')
    <3>1. ASSUME ~missed' PROVE conf.on <=> Running
      <4>1. ~missed /\ events = <<>> /\ \A a \in Actors : act[a].at = "idle"
        BY <2>1, <3>1 DEF Settled, At
      <4> QED
        BY <4>1 DEF SwitchOk, Switched, TurningOn, At
    <3> QED
      BY <2>1, <3>1 DEF Running
  <2> QED
    BY <2>1, <2>2, FreshStart
<1> QED
  BY <1>1, <1>2, <1>3

LEMMA SwitchStay ==
  ASSUME Base, SwitchOk, Next
  PROVE  SwitchOk'
<1>1. ASSUME NEW h \in Handlers, HandlerStep(h) PROVE SwitchOk'
  BY <1>1, SwitchLocal, SwitchServer DEF HandlerStep
<1>2. ASSUME NEW a \in Actors, SharedStep(a) PROVE SwitchOk'
  BY <1>2, SwitchShared
<1>3. CASE RectifyStep \/ TakeDockerEvent \/ MakeBroadcast
  BY <1>3, SwitchRectify, SwitchTake, SwitchAnnounce
<1>4. CASE (\E e \in Endpoints, s \in Ships : ServiceReady(e, s)) \/ TunnelDies \/ Restart
  BY <1>4, SwitchWorld
<1> QED
  BY <1>1, <1>2, <1>3, <1>4 DEF Next

-----------------------------------------------------------------------------
(* The inductive invariant                                                 *)

IInv == Base /\ KeysOk /\ ServicesOk /\ SwitchOk /\ NetOk

LEMMA InitRest ==
  ASSUME NEW reg \in BOOLEAN, NEW on \in BOOLEAN, NEW e \in Endpoints, StartsWith(reg, on, e),
         Typed
  PROVE  KeysOk /\ ServicesOk /\ SwitchOk /\ NetOk
<1> USE Who
<1>1. /\ conf.on = on /\ conf.reg = reg /\ conf.endpoint = e /\ (on => reg)
      /\ gs = Unknown /\ events = <<>> /\ missed = FALSE /\ bus \in {<<>>, <<"retrieve">>}
      /\ file = IF reg THEN "current" ELSE "none"
      /\ tunnel = [st |-> IF on THEN "running" ELSE IF reg THEN "exited" ELSE "none",
                   key |-> IF on THEN "current" ELSE "none"]
  BY DEF StartsWith
<1>2. /\ \A a \in Actors : a # Main => act[a] = Idle
      /\ reg => act[Main].at = "wgconf"
      /\ ~reg => act[Main].at = "load"
  BY StartupOf DEF StartsWith
<1>3. act[EL].at = "idle" /\ act[RU].at = "idle" /\ \A h \in Handlers : act[h].at = "idle"
  BY <1>2, IdleOf
<1>4. \A x \in Endpoints : server[x].key = "current" <=> reg /\ x = e
  BY DEF StartsWith
<1>5. Served <=> reg
  BY <1>1, <1>4 DEF Served
<1>6. (Running <=> on) /\ tunnel.key # "mixed"
  BY <1>1 DEF Running
<1>7. KeysOk
  <2>1. reg => blob.key = "current"
    BY DEF StartsWith, Answer
  <2>2. \A h \in Handlers : ~Registered(act[h])
    BY <1>3 DEF Registered
  <2> QED
    BY <1>1, <1>2, <1>3, <1>4, <1>5, <1>6, <2>1, <2>2 DEF KeysOk, At
<1>8. ServicesOk
  <2>1. reg => \A s \in Ships : server[conf.endpoint].svc[s] = "ok"
    BY <1>1 DEF StartsWith
  <2> QED
    BY <1>5, <2>1 DEF ServicesOk
<1>9. SwitchOk
  <2>1. ~Inside("complete", bus)
    <3>1. CASE bus = <<>>
      BY <3>1 DEF Inside
    <3>2. CASE bus = <<"retrieve">>
      <4>1. Len(bus) = 1 /\ bus[1] = "retrieve"
        BY <3>2
      <4>2. \A i \in 1..Len(bus) : i = 1
        BY <4>1
      <4> QED
        BY <4>1, <4>2 DEF Inside
    <3> QED
      BY <1>1, <3>1, <3>2
  <2>2. ~Announced
    BY <1>3, <2>1 DEF Announced, At
  <2>3. AllStart(events)
    BY <1>1 DEF AllStart
  <2>4. act[Main].at \notin {"apply", "known"}
    BY <1>2
  <2>5. StartOk
    BY <1>3, <2>2, <2>3, <2>4, StartUnfold
  <2>6. Heard /\ Known
    BY <1>1, <1>3 DEF Heard, Known, At
  <2>7. Switched
    BY <1>1, <1>6 DEF Switched
  <2> QED
    BY <2>5, <2>6, <2>7 DEF SwitchOk
<1>10. NetOk
  <2>1. ASSUME NEW s \in Ships
        PROVE  Matches(s) /\ (net[s] = "wireguard" => on)
    <3>1. net[s] = IF pier[s].net = "bridge" THEN "bridge"
                   ELSE IF on THEN "wireguard" ELSE "created"
      BY DEF StartsWith
    <3> QED
      BY <3>1 DEF Matches
  <2> QED
    BY <1>3, <1>6, <2>1 DEF NetOk
<1> QED
  BY <1>7, <1>8, <1>9, <1>10

LEMMA InitInv == Init => IInv
<1> SUFFICES ASSUME Init PROVE IInv
  OBVIOUS
<1>1. PICK reg \in BOOLEAN, on \in BOOLEAN, e \in Endpoints : StartsWith(reg, on, e)
  BY DEF Init
<1>2. Base
  BY InitBase
<1> QED
  BY <1>1, <1>2, InitRest DEF IInv, Base

LEMMA BaseStay ==
  ASSUME Base, Next
  PROVE  Base'
<1>1. ASSUME NEW h \in Handlers, HandlerStep(h) PROVE Base'
  <2>1. ASSUME NEW s \in Ships,
               LocalShip(h, s) \/ DropShip(h, s) \/ CreateService(h, s) \/ DeleteService(h, s)
        PROVE  Base'
    BY <2>1, LocalShipDoes, DropShipDoes, CreateServiceDoes, DeleteServiceDoes
  <2>2. CASE Begin(h) \/ ReadNetwork(h) \/ StoreNetwork(h) \/ DeleteShip(h) \/ StartShip(h)
    BY <2>2, BeginDoes, ReadNetworkDoes, StoreNetworkDoes, DeleteShipDoes, StartShipDoes
  <2>3. CASE TurnOn(h) \/ TurnOff(h) \/ StopWireguard(h) \/ ShipsLocal(h)
    BY <2>3, TurnOnDoes, TurnOffDoes, StopWireguardDoes, ShipsLocalDoes
  <2>4. CASE RestartStops(h) \/ RestartStarts(h) \/ LoadAgain(h)
    BY <2>4, RestartStopsDoes, RestartStartsDoes, LoadAgainDoes
  <2>5. CASE CycleWgKey(h) \/ PostRegister(h) \/ RegisterFails(h) \/ GetAnswer(h)
    BY <2>5, CycleWgKeyDoes, PostRegisterDoes, RegisterFailsDoes, GetAnswerDoes
  <2>6. CASE PollEnds(h) \/ PollAgain(h) \/ PollTimesOut(h)
    BY <2>6, PollEndsDoes, PollAgainDoes, PollTimesOutDoes
  <2>7. CASE ServicesDeleted(h) \/ SetEndpoint(h) \/ CancelSub(h)
    BY <2>7, ServicesDeletedDoes, SetEndpointDoes, CancelSubDoes
  <2> QED
    BY <1>1, <2>1, <2>2, <2>3, <2>4, <2>5, <2>6, <2>7 DEF HandlerStep
<1>2. ASSUME NEW a \in Actors, SharedStep(a) PROVE Base'
  <2>1. ASSUME NEW s \in Ships, LoadShip(a, s) PROVE Base'
    BY <2>1, LoadShipDoes
  <2>2. CASE FindContainer(a) \/ KeepTunnel(a) \/ CreateTunnel(a) \/ CreateTunnelFails(a)
    BY <2>2, FindContainerDoes, KeepTunnelDoes, CreateTunnelDoes, CreateTunnelFailsDoes
  <2>3. CASE ReplaceTunnel(a) \/ WriteWgConf(a) \/ StoreState(a)
    BY <2>3, ReplaceTunnelDoes, WriteWgConfDoes, StoreStateDoes
  <2> QED
    BY <1>2, <2>1, <2>2, <2>3 DEF SharedStep
<1>3. CASE RectifyStep
  <2>1. ASSUME NEW s \in Ships, ReadShip(s) PROVE Base'
    BY <2>1, ReadShipDoes
  <2> QED
    BY <1>3, <2>1, TakeEventDoes, CompleteDoes, CreateMissingDoes, StoreShipDoes DEF RectifyStep
<1>4. ASSUME NEW e \in Endpoints, NEW s \in Ships, ServiceReady(e, s) PROVE Base'
  BY <1>4, ServiceReadyDoes
<1>5. CASE TakeDockerEvent \/ MakeBroadcast \/ TunnelDies \/ Restart
  BY <1>5, TakeDockerEventDoes, MakeBroadcastDoes, TunnelDiesDoes, RestartDoes
<1> QED
  BY <1>1, <1>2, <1>3, <1>4, <1>5 DEF Next

LEMMA InvStays == IInv /\ [Next]_vars => IInv'
<1> SUFFICES ASSUME IInv, [Next]_vars PROVE IInv'
  OBVIOUS
<1>1. CASE Next
  BY <1>1, BaseStay, KeysStay, ServicesStay, SwitchStay, NetStay DEF IInv
<1>2. CASE UNCHANGED vars
  <2>1. UNCHANGED <<conf, pier, blob, file, tunnel, net, gs, events, bus, server, act,
                    missed, killed, gaveUp>>
    BY <1>2 DEF vars
  <2>2. Base'
    BY <2>1 DEF IInv, Base, Typed, Lanes, Alone, Digest, At
  <2>3. KeysOk'
    BY <2>1 DEF IInv, KeysOk, At, Served
  <2>4. ServicesOk'
    <3>1. (Served' <=> Served) /\ (Asking' <=> Asking)
      BY <2>1 DEF Served, Asking, At
    <3>2. \A s \in Ships : Noted(s)' <=> Noted(s)
      BY <2>1 DEF Noted, At
    <3> QED
      BY <2>1, <3>1, <3>2 DEF IInv, ServicesOk
  <2>5. SwitchOk'
    <3>1. /\ Running' <=> Running
          /\ Announced' <=> Announced
          /\ Starting' <=> Starting
      BY <2>1 DEF Running, Announced, Starting, At
    <3>2. StartOk'
      BY <2>1, <3>1 DEF IInv, SwitchOk, StartOk, At
    <3>3. Heard'
      BY <2>1, <3>1 DEF IInv, SwitchOk, Heard, At, Latest
    <3>4. Known'
      BY <2>1 DEF IInv, SwitchOk, Known, At
    <3>5. Switched'
      BY <2>1, <3>1 DEF IInv, SwitchOk, Switched, At
    <3> QED
      BY <3>2, <3>3, <3>4, <3>5 DEF SwitchOk
  <2>6. NetOk'
    <3>1. \A s \in Ships : (Matches(s)' <=> Matches(s)) /\ (Remade(s)' <=> Remade(s))
      BY <2>1 DEF Matches, Remade, At
    <3> QED
      BY <2>1, <3>1 DEF IInv, NetOk, Running
  <2> QED
    BY <2>2, <2>3, <2>4, <2>5, <2>6 DEF IInv
<1> QED
  BY <1>1, <1>2

\* For any ships, endpoints and handlers, whatever fails, is killed or is asked
\* for: all that the proofs below rest on holds in every reachable state.
THEOREM Invariance == Spec => []IInv
BY InitInv, InvStays, PTL DEF Spec

-----------------------------------------------------------------------------
(* The properties                                                          *)

LEMMA AtRest ==
  ASSUME Settled
  PROVE  events = <<>> /\ bus = <<>> /\ \A a \in Actors : act[a].at = "idle"
BY DEF Settled, At

\* Everything has its type; wg0.conf, the tunnel and the server's records never
\* hold halves of two key pairs (LoadWireguard, CycleWgKey).
THEOREM TypeCorrect == Spec => []TypeOK
<1>1. IInv => TypeOK
  <2> SUFFICES ASSUME IInv PROVE TypeOK
    OBVIOUS
  <2>1. Typed
    BY DEF IInv, Base
  <2>2. file \in KeyPairs
    BY <2>1 DEF Typed, IInv, KeysOk
  <2>3. tunnel \in [st : {"none", "running", "exited"}, key : KeyPairs]
    <3>1. tunnel.key # "mixed"
      BY DEF IInv, KeysOk
    <3> QED
      BY <2>1, <3>1 DEF Typed
  <2>4. gs \in {Unknown} \cup [desired : {"running", "died"},
                               actual : {"running", "stopped", "died", "exited"}]
    <3>1. gs \in [desired : {"unknown", "running", "died"}, actual : Seen]
      BY <2>1 DEF Typed
    <3>2. gs = Unknown \/ (gs.desired \in {"running", "died"} /\
                           gs.actual \in {"running", "stopped", "died"})
      BY DEF IInv, SwitchOk, Known
    <3> QED
      BY <3>1, <3>2
  <2> QED
    BY <2>1, <2>2, <2>3, <2>4 DEF Typed, TypeOK
<1> QED
  BY <1>1, Invariance, PTL

\* Whenever the server knows the device and no registration was given up, wg0.conf
\* is of the key pair the server knows it by: CycleWgKey, Register, SetEndpoint,
\* CancelSub, LoadWireguard and the startup, in any order and cut off anywhere.
THEOREM KeysAgreeHolds == Spec => []KeysAgree
<1>1. IInv => KeysAgree
  <2> SUFFICES ASSUME IInv, Settled, Served, ~gaveUp PROVE file = "current"
    BY DEF KeysAgree
  <2>1. act[Main].at = "idle" /\ \A h \in Handlers : act[h].at = "idle"
    BY AtRest, Who
  <2> QED
    BY <2>1 DEF IInv, KeysOk, Registered, At
<1> QED
  BY <1>1, Invariance, PTL

\* RectifyUrbit gives a service to every ship that a failed or repeated call of
\* RegisterExistingShips, SvcCreate or SvcDelete left without one.
THEOREM EveryShipHasServiceHolds == Spec => []EveryShipHasService
<1>1. IInv => EveryShipHasService
  <2> SUFFICES ASSUME IInv, Settled, Served, NEW s \in Ships
               PROVE  server[conf.endpoint].svc[s] # "none"
    BY DEF EveryShipHasService
  <2>1. act[RU].at = "idle" /\ bus = <<>> /\ \A h \in Handlers : act[h].at = "idle"
    BY AtRest, Who
  <2>2. ~Asking
    BY <2>1 DEF Asking, At
  <2>3. ~Inside("retrieve", bus)
    BY <2>1 DEF Inside
  <2>4. ~Noted(s)
    BY <2>1, <2>3 DEF Noted, At
  <2> QED
    BY <2>2, <2>4 DEF IInv, ServicesOk
<1> QED
  BY <1>1, Invariance, PTL

\* The toggle, docker's event loop and RectifyUrbit each write wgOn from what they
\* saw earlier; at rest it still says whether the wireguard container runs.
THEOREM SwitchMatchesTunnelHolds == Spec => []SwitchMatchesTunnel
<1>1. IInv => SwitchMatchesTunnel
  <2> SUFFICES ASSUME IInv, Settled, ~missed PROVE conf.on <=> Running
    BY DEF SwitchMatchesTunnel
  <2>1. /\ events = <<>> /\ act[EL].at = "idle"
        /\ \A h \in Handlers : act[h].at = "idle"
    BY AtRest, Who
  <2> QED
    BY <2>1 DEF IInv, SwitchOk, Switched, TurningOn, At
<1> QED
  BY <1>1, Invariance, PTL

\* The toggle of a ship's network, the restart of StarTram, LoadUrbits and the loss
\* of the tunnel leave each ship on the network of its pier file, if no kill of the
\* daemon cut one of them off.
THEOREM NetworkMatchesHolds == Spec => []NetworkMatches
<1>1. IInv => NetworkMatches
  <2> SUFFICES ASSUME IInv, Settled, ~killed, NEW s \in Ships
               PROVE  /\ pier[s].net = "bridge" <=> net[s] = "bridge"
                      /\ net[s] = "wireguard" => Running
    BY DEF NetworkMatches
  <2>1. \A a \in Handlers \cup {Main} : act[a].at = "idle"
    BY AtRest, Who
  <2>2. ~Remade(s)
    BY <2>1 DEF Remade, At
  <2> QED
    BY <2>2 DEF IInv, NetOk, Matches
<1> QED
  BY <1>1, Invariance, PTL

=============================================================================
