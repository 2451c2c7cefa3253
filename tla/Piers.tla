-------------------------------- MODULE Piers --------------------------------
(***************************************************************************)
(* The list of ships in the system configuration (SysConfig.Piers), the    *)
(* pier files with their ports, and the handlers that create, import and   *)
(* delete ships.                                                           *)
(*                                                                         *)
(* config.Conf() copies the configuration under a mutex, but a copied Go   *)
(* slice still points into the array of the original: an append with room  *)
(* to spare and the cut of an element write into the array that the global *)
(* configuration shows to everyone.  So slices are modelled as Go has      *)
(* them, as a length and a reference to an array in "heap"; Len(heap[a])   *)
(* is the capacity of array a.                                             *)
(***************************************************************************)
EXTENDS Integers, Sequences, FiniteSets, SequencesExt

CONSTANTS
  Patps,        \* ship names
  NoPatp,       \* an array slot that was never written
  Handlers,     \* goroutines that create, import or delete ships
  MaxPort,      \* bound: port numbers given out, counted from the base port
  MaxPiers,     \* bound: no ship is added to a list of this length
  Serial,       \* BOOLEAN: the user waits for one action before the next
  OtherUpdates, \* BOOLEAN: other settings are saved meanwhile
  Crashes,      \* BOOLEAN: the daemon may be killed and restarted
  Remotes,      \* SUBSET BOOLEAN: may a new ship be asked to go remote
  Faults        \* SUBSET FaultKinds, the calls that may fail

\* CreateVolume; the key or the extraction; StartContainer before and after it
\* has created the container; reading and writing system.json; writing the
\* pier files of a new ship, and of one that goes remote
FaultKinds == {"volume", "fill", "start", "created", "conf", "write", "store", "ready"}

ASSUME PiersAssumption ==
  /\ IsFiniteSet(Patps) /\ NoPatp \notin Patps
  /\ IsFiniteSet(Handlers)
  /\ MaxPort \in Nat \ {0}
  /\ MaxPiers \in Nat
  /\ {Serial, OtherUpdates, Crashes} \cup Remotes \subseteq BOOLEAN
  /\ Faults \subseteq FaultKinds

VARIABLES
  heap,      \* the arrays behind the slices
  piers,     \* globalConfig.Piers, a slice
  disk,      \* "piers" in system.json, a sequence
  urb,       \* UrbitsConfig: the port of each ship in memory, 0 when absent
  files,     \* settings/pier: the port in each pier file, 0 when absent
  cont,      \* docker's container of each ship
  vols,      \* docker volumes
  hs,        \* the handlers
  unsaved,   \* history: a handler could not save the list it had changed
  killed     \* history: ships a handler was at work on when it was killed

vars == <<heap, piers, disk, urb, files, cont, vols, hs, unsaved, killed>>
confVars == <<heap, piers, disk, unsaved>>
pierVars == <<urb, files>>
dockVars == <<cont, vols, killed>>

-----------------------------------------------------------------------------
\* Go slices

Nil == 0
Arrays == 0..(Cardinality(Handlers) + 2)
NilSlice == [arr |-> Nil, len |-> 0]

\* what a slice shows when the arrays are hp
View(hp, s) == SubSeq(hp[s.arr], 1, s.len)
Contents(s) == View(heap, s)

\* the arrays that the global slice g and the handlers' slices in f refer to
Live(g, f) == {Nil, g.arr} \cup {f[h].slice.arr : h \in Handlers}
Fresh == CHOOSE a \in Arrays : a \notin Live(piers, hs)

\* an array nobody refers to is forgotten
Collect(hp, g, f) == [a \in Arrays |-> IF a \in Live(g, f) THEN hp[a] ELSE <<>>]

\* growslice doubles the capacity cap until n elements fit, cap < n: one such
\* capacity is below 2 * n, so that the bound is only there for totality
Grown(cap, n) ==
  LET c == IF cap = 0 THEN 1 ELSE cap
  IN Min({d \in n..(2 * n) : d = 2 * n \/ \E k \in 0..n : d = c * 2^k})

\* mutant of Filled: the new array is one slot too short
FilledShort(v, cap) == [i \in 1..(cap - 1) |-> IF i <= Len(v) THEN v[i] ELSE NoPatp]

\* v in a new array of capacity cap
Filled(v, cap) == v \o [i \in 1..(cap - Len(v)) |-> NoPatp]

\* mutant of Decoded: a shorter list is merged into the old one, as maps are
DecodedMerged(v) ==
  LET a == piers.arr
      cap == Len(heap[a])
  IN IF Len(v) <= cap
     THEN [piers |-> piers,
           heap |-> [heap EXCEPT ![a] = v \o SubSeq(@, Len(v) + 1, cap)]]
     ELSE [piers |-> [arr |-> Fresh, len |-> Len(v)],
           heap |-> [heap EXCEPT ![Fresh] = Filled(v, Grown(cap, Len(v)))]]

\* the global slice and the arrays after json.Unmarshal of v into globalConfig:
\* the array in use is written over, and left for a larger one only when full
Decoded(v) ==
  LET a == piers.arr
      cap == Len(heap[a])
  IN IF v = <<>> THEN [piers |-> NilSlice, heap |-> heap]
     ELSE IF Len(v) <= cap
     THEN [piers |-> [arr |-> a, len |-> Len(v)],
           heap |-> [heap EXCEPT ![a] = v \o SubSeq(@, Len(v) + 1, cap)]]
     ELSE [piers |-> [arr |-> Fresh, len |-> Len(v)],
           heap |-> [heap EXCEPT ![a] = SubSeq(v, 1, cap),
                                 ![Fresh] = Filled(v, Grown(cap, Len(v)))]]

-----------------------------------------------------------------------------
\* Handlers

Idle == [pc |-> "idle", patp |-> NoPatp, port |-> 0, slice |-> NilSlice]
Labels == {"idle", "ports", "config", "read", "append", "persist", "prepare",
           "fill", "start", "wait", "remote", "restart", "cleanup", "cread", "cpersist",
           "cvolume", "delete", "dconfig", "dread", "cut", "dpersist",
           "dvolume"}

At(h, label) == hs[h].pc = label
Move(h, label) == hs' = [hs EXCEPT ![h].pc = label]
Finish(h) == hs' = [hs EXCEPT ![h] = Idle]
Hold(h, slice, label) == hs' = [hs EXCEPT ![h].slice = slice, ![h].pc = label]

\* persistConf decodes v into globalConfig...
Overwrite(v) ==
  LET d == Decoded(v)
  IN /\ piers' = d.piers
     /\ heap' = Collect(d.heap, d.piers, hs')

\* UpdateConf: under confMutex read system.json, set "piers" to v, decode the
\* whole of it into globalConfig and write it back
UpdateConf(v) ==
  /\ Overwrite(v)
  /\ disk' = v
  /\ unsaved' = FALSE

\* ... before it writes the file: when WriteFile fails, memory has the new list
\* already.  The file keeps its old contents; one cut short is not modelled.
WriteFails(v) ==
  /\ "write" \in Faults
  /\ Overwrite(v)
  /\ unsaved' = (v # disk)
  /\ UNCHANGED disk

\* the handler's slice is saved and dropped
Persist(h, next) ==
  /\ hs' = [hs EXCEPT ![h].slice = NilSlice, ![h].pc = next]
  /\ UpdateConf(Contents(hs[h].slice))

\* system.json cannot be read: UpdateConf returns before it changes anything,
\* though the handler may have changed the list in memory in place
ReadFails(h) ==
  /\ "conf" \in Faults
  /\ heap' = Collect(heap, piers, hs')
  /\ unsaved' = (unsaved \/ hs[h].pc \in {"persist", "dpersist"})
  /\ UNCHANGED <<piers, disk>>

UpdateConfFails(h, next) ==
  /\ hs' = [hs EXCEPT ![h].slice = NilSlice, ![h].pc = next]
  /\ ReadFails(h) \/ WriteFails(Contents(hs[h].slice))

\* UpdateUrbitConfig of all of memory: every pier file is written
StoreFiles(u) == [p \in Patps |-> IF u[p] # 0 THEN u[p] ELSE files[p]]

\* ... in the order of a map, until that of ship q fails: it is as it was, or
\* cut short and read as none
StoreFails(u) ==
  \E q \in {p \in Patps : u[p] # 0}, done \in SUBSET Patps :
    \E n \in {0, files[q]} :
      files' = [p \in Patps |-> IF p = q THEN n
                               ELSE IF p \in done THEN StoreFiles(u)[p] ELSE files[p]]

Begin(h) ==
  /\ At(h, "idle")
  /\ Serial => \A g \in Handlers : hs[g].pc \in {"idle", "wait"}
  /\ \E p \in Patps, label \in {"ports", "delete"} :
       hs' = [hs EXCEPT ![h] = [Idle EXCEPT !.patp = p, !.pc = label]]
  /\ UNCHANGED <<confVars, pierVars, dockVars>>

-----------------------------------------------------------------------------
\* boot and import: shipcreator

\* mutant of OpenPort: count the ships instead of taking their highest port
OpenPortCounted == 1 + Len(Contents(piers))

\* getOpenUrbitPorts: one above the highest port of the listed ships
OpenPort == 1 + Max({urb[p] : p \in Range(Contents(piers))} \cup {0})

Ports(h) ==
  /\ At(h, "ports")
  /\ OpenPort <= MaxPort
  /\ piers.len < MaxPiers
  /\ hs' = [hs EXCEPT ![h].port = OpenPort, ![h].pc = "config"]
  /\ UNCHANGED <<confVars, pierVars, dockVars>>

\* CreateUrbitConfig: add to the live map and store all of it
StoreConfig(h) ==
  /\ At(h, "config")
  /\ urb' = [urb EXCEPT ![hs[h].patp] = hs[h].port]
  /\ \/ /\ files' = StoreFiles(urb')
        /\ hs' = [hs EXCEPT ![h].port = 0, ![h].pc = "read"]
     \/ /\ "store" \in Faults /\ StoreFails(urb')
        /\ hs' = [hs EXCEPT ![h].port = 0, ![h].pc = "cleanup"]
  /\ UNCHANGED <<confVars, dockVars>>

\* AppendSysConfigPier copies the configuration...
ReadPiers(h) ==
  /\ At(h, "read")
  /\ Hold(h, piers, "append")
  /\ UNCHANGED <<confVars, pierVars, dockVars>>

Listed(s, p) == p \in Range(Contents(s))

\* ... and appends, in place when the array has room
AppendPier(h) ==
  LET s == hs[h].slice
      p == hs[h].patp
      longer == Append(Contents(s), p)
  IN /\ At(h, "append")
     /\ IF Listed(s, p)
        THEN Move(h, "persist") /\ UNCHANGED heap
        ELSE IF s.len < Len(heap[s.arr])
        THEN /\ Hold(h, [s EXCEPT !.len = @ + 1], "persist")
             /\ heap' = [heap EXCEPT ![s.arr][s.len + 1] = p]
        ELSE /\ Hold(h, [arr |-> Fresh, len |-> s.len + 1], "persist")
             /\ heap' = Collect([heap EXCEPT ![Fresh] =
                                   Filled(longer, Grown(s.len, s.len + 1))],
                                piers, hs')
     /\ UNCHANGED <<piers, disk, unsaved, pierVars, dockVars>>

PersistPier(h) ==
  /\ At(h, "persist")
  /\ Persist(h, "prepare") \/ UpdateConfFails(h, "cleanup")
  /\ UNCHANGED <<pierVars, dockVars>>

-----------------------------------------------------------------------------
\* boot and import: docker

\* mutant of DeleteVolume: the volume stays
DeleteVolumeNot(p) == vols

\* VolumeRemove fails while a container uses the volume
DeleteVolume(p) == IF cont'[p] = "none" THEN vols \ {p} ELSE vols

\* the old container and volume go, then CreateVolume
Prepare(h) ==
  LET p == hs[h].patp
  IN /\ At(h, "prepare")
     /\ cont' = [cont EXCEPT ![p] = "none"]
     /\ \/ vols' = DeleteVolume(p) \cup {p} /\ Move(h, "fill")
        \/ "volume" \in Faults /\ vols' = DeleteVolume(p) /\ Move(h, "cleanup")
     /\ killed' = killed \ {p}
     /\ UNCHANGED <<confVars, pierVars>>

\* the key file, or the extracted and restructured upload, goes to the volume
Fill(h) ==
  /\ At(h, "fill")
  /\ Move(h, "start") \/ ("fill" \in Faults /\ Move(h, "cleanup"))
  /\ UNCHANGED <<confVars, pierVars, dockVars>>

\* StartContainer needs the pier file; it may fail before or after it has
\* created the container
Created(p) ==
  /\ files[p] # 0
  /\ cont' = [cont EXCEPT ![p] = "started"]
NotCreated(p) ==
  \/ (files[p] = 0 \/ "start" \in Faults) /\ UNCHANGED cont
  \/ /\ files[p] # 0 /\ "created" \in Faults /\ cont[p] = "none"
     /\ cont' = [cont EXCEPT ![p] = "created"]

Start(h) ==
  LET p == hs[h].patp
  IN /\ At(h, "start")
     /\ (Created(p) /\ Move(h, "wait")) \/ (NotCreated(p) /\ Move(h, "cleanup"))
     /\ UNCHANGED <<confVars, pierVars, vols, killed>>

\* waitForShipReady: the ship answers with its code
Ready(h) ==
  LET p == hs[h].patp
  IN /\ At(h, "wait")
     /\ cont[p] = "started"
     /\ \/ FALSE \in Remotes /\ Finish(h) /\ UNCHANGED files
        \/ /\ TRUE \in Remotes   \* store the network "wireguard"
           /\ files' = [files EXCEPT ![p] = urb[p]]
           /\ Move(h, "remote")
        \/ /\ TRUE \in Remotes /\ "ready" \in Faults
           /\ files' \in {files, [files EXCEPT ![p] = 0]}
           /\ Move(h, "cleanup")
     /\ UNCHANGED <<confVars, urb, dockVars>>

\* ... and goes remote: its container is deleted...
GoRemote(h) ==
  /\ At(h, "remote")
  /\ cont' = [cont EXCEPT ![hs[h].patp] = "none"]
  /\ Move(h, "restart")
  /\ UNCHANGED <<confVars, pierVars, vols, killed>>

\* ... and created again on the wireguard network
StartRemote(h) ==
  LET p == hs[h].patp
  IN /\ At(h, "restart")
     /\ (Created(p) /\ Finish(h)) \/ (NotCreated(p) /\ Move(h, "cleanup"))
     /\ UNCHANGED <<confVars, pierVars, vols, killed>>

-----------------------------------------------------------------------------
\* errorCleanup

\* RemoveUrbitConfig
Removed(f, p) == [f EXCEPT ![p] = 0]

RemoveConfig(h) ==
  LET p == hs[h].patp
  IN /\ \/ At(h, "cleanup") /\ Move(h, "cread")
        \/ At(h, "dconfig") /\ Move(h, "dread")
     /\ urb' = Removed(urb, p)
     /\ files' = Removed(files, p)
     /\ UNCHANGED <<confVars, dockVars>>

\* mutant of Others: stop at the ship instead of passing over it
OthersBefore(s, p) ==
  LET v == Contents(s)
  IN SelectSeq(v, LAMBDA q : q # p /\ \E i, j \in DOMAIN v :
                               v[i] = q /\ v[j] = p /\ i < j)

\* RemoveSysConfigPier collects the other ships, one by one, in a new array
Others(s, p) ==
  LET v == Contents(s)
      kept[n \in 0..Len(v)] ==
        IF n = 0 THEN <<>>
        ELSE IF v[n] = p THEN kept[n - 1] ELSE Append(kept[n - 1], v[n])
  IN kept[Len(v)]

CollectOthers(h) ==
  LET v == Others(piers, hs[h].patp)
  IN /\ At(h, "cread")
     /\ IF v = <<>>
        THEN Hold(h, NilSlice, "cpersist") /\ UNCHANGED heap
        ELSE /\ Hold(h, [arr |-> Fresh, len |-> Len(v)], "cpersist")
             /\ heap' = [heap EXCEPT ![Fresh] = v]
     /\ UNCHANGED <<piers, disk, unsaved, pierVars, dockVars>>

PersistOthers(h) ==
  /\ At(h, "cpersist")
  /\ Persist(h, "cvolume") \/ UpdateConfFails(h, "cvolume")
  /\ UNCHANGED <<pierVars, dockVars>>

\* the last call of errorCleanup and of delete-ship
RemoveVolume(h) ==
  /\ At(h, "cvolume") \/ At(h, "dvolume")
  /\ cont' = cont
  /\ vols' = DeleteVolume(hs[h].patp)
  /\ Finish(h)
  /\ UNCHANGED <<confVars, pierVars, killed>>

-----------------------------------------------------------------------------
\* delete-ship, and cancel of a new ship

\* without DeleteContainer the handler returns at once
RemoveContainer(h) ==
  /\ At(h, "delete")
  /\ IF cont[hs[h].patp] = "none"
     THEN Finish(h) /\ UNCHANGED cont
     ELSE /\ cont' = [cont EXCEPT ![hs[h].patp] = "none"]
          /\ Move(h, "dconfig")
  /\ UNCHANGED <<confVars, pierVars, vols, killed>>

ReadToCut(h) ==
  /\ At(h, "dread")
  /\ Hold(h, piers, "cut")
  /\ UNCHANGED <<confVars, pierVars, dockVars>>

\* mutant of CutSlice: cut without moving the rest, so that the last ship goes
CutLast(s, p) ==
  IF ~Listed(s, p) THEN [slice |-> s, heap |-> heap]
  ELSE [slice |-> [s EXCEPT !.len = @ - 1], heap |-> heap]

\* cutSlice moves the rest of the list one to the left, in the same array
CutSlice(s, p) ==
  LET i == CHOOSE j \in 1..s.len : /\ heap[s.arr][j] = p
                                   /\ \A k \in 1..(j - 1) : heap[s.arr][k] # p
  IN IF ~Listed(s, p) THEN [slice |-> s, heap |-> heap]
     ELSE [slice |-> [s EXCEPT !.len = @ - 1],
           heap |-> [heap EXCEPT ![s.arr] =
                       RemoveAt(View(heap, s), i) \o SubSeq(@, s.len, Len(@))]]

Cut(h) ==
  LET c == CutSlice(hs[h].slice, hs[h].patp)
  IN /\ At(h, "cut")
     /\ Hold(h, c.slice, "dpersist")
     /\ heap' = c.heap
     /\ UNCHANGED <<piers, disk, unsaved, pierVars, dockVars>>

PersistCut(h) ==
  /\ At(h, "dpersist")
  /\ Persist(h, "dvolume") \/ UpdateConfFails(h, "dvolume")
  /\ UNCHANGED <<pierVars, dockVars>>

-----------------------------------------------------------------------------
\* The rest of the daemon

\* UpdateConf of another key decodes the whole file into globalConfig too
UpdateOther ==
  /\ OtherUpdates
  /\ hs' = hs
  /\ UpdateConf(disk) \/ WriteFails(disk)
  /\ UNCHANGED <<pierVars, dockVars>>

\* the daemon is killed and started: system.json is decoded into an empty
\* configuration, and LoadUrbits loads the file of each listed ship and starts
\* the ships whose file it could read, as far as docker does
Restart ==
  /\ Crashes
  /\ hs' = [h \in Handlers |-> Idle]
  /\ IF disk = <<>>
     THEN piers' = NilSlice /\ heap' = [a \in Arrays |-> <<>>]
     ELSE /\ piers' = [arr |-> 1, len |-> Len(disk)]
          /\ heap' = [a \in Arrays |-> IF a = 1
                        THEN Filled(disk, Grown(0, Len(disk))) ELSE <<>>]
  /\ urb' = [p \in Patps |-> IF p \in Range(disk) THEN files[p] ELSE 0]
  /\ \E up \in SUBSET {p \in Range(disk) : files[p] # 0} :
       /\ cont' = [p \in Patps |-> IF p \in up THEN "started" ELSE cont[p]]
       /\ vols' = vols \cup up   \* docker creates a volume that is mounted
  /\ unsaved' = FALSE
  /\ killed' = killed \cup ({hs[h].patp : h \in Handlers} \ {NoPatp})
  /\ UNCHANGED <<disk, files>>

Work(h) ==
  \/ Ports(h) \/ StoreConfig(h) \/ ReadPiers(h) \/ AppendPier(h)
  \/ PersistPier(h) \/ Prepare(h) \/ Fill(h) \/ Start(h) \/ Ready(h)
  \/ GoRemote(h) \/ StartRemote(h) \/ RemoveConfig(h) \/ CollectOthers(h) \/ PersistOthers(h)
  \/ RemoveVolume(h) \/ RemoveContainer(h) \/ ReadToCut(h) \/ Cut(h)
  \/ PersistCut(h)

\* a household of ships that run, each with ports of its own
Init ==
  \E v \in SetToAllKPermutations(Patps) :
    /\ Len(v) < MaxPort
    /\ disk = v
    /\ piers = IF v = <<>> THEN NilSlice ELSE [arr |-> 1, len |-> Len(v)]
    /\ heap = [a \in Arrays |-> IF a = 1 /\ v # <<>>
                 THEN Filled(v, Grown(0, Len(v))) ELSE <<>>]
    /\ urb = [p \in Patps |->
                IF p \in Range(v) THEN CHOOSE i \in DOMAIN v : v[i] = p ELSE 0]
    /\ files = urb
    /\ cont = [p \in Patps |-> IF p \in Range(v) THEN "started" ELSE "none"]
    /\ vols = Range(v)
    /\ hs = [h \in Handlers |-> Idle]
    /\ unsaved = FALSE
    /\ killed = {}

Next == (\E h \in Handlers : Begin(h) \/ Work(h)) \/ UpdateOther \/ Restart

Spec == Init /\ [][Next]_vars

-----------------------------------------------------------------------------
\* Properties

Slice == [arr : Arrays, len : Nat]
Handler == [pc : Labels, patp : Patps \cup {NoPatp}, port : 0..MaxPort, slice : Slice]

\* Every variable has its type, slices stay inside their arrays and show only
\* what was written there, and a handler at work has a ship.
TypeOK ==
  /\ heap \in [Arrays -> Seq(Patps \cup {NoPatp})]
  /\ piers \in Slice
  /\ hs \in [Handlers -> Handler]
  /\ \A s \in {piers} \cup {hs[h].slice : h \in Handlers} :
       s.len <= Len(heap[s.arr]) /\ \A i \in 1..s.len : heap[s.arr][i] # NoPatp
  /\ \A h \in Handlers : IF At(h, "idle") THEN hs[h] = Idle ELSE hs[h].patp # NoPatp
  /\ disk \in Seq(Patps)
  /\ urb \in [Patps -> 0..MaxPort]
  /\ files \in [Patps -> 0..MaxPort]
  /\ cont \in [Patps -> {"none", "created", "started"}]
  /\ vols \in SUBSET Patps
  /\ killed \in SUBSET Patps
  /\ unsaved \in BOOLEAN

\* The list in memory is the list in system.json (config.go:231-250), except
\* while a handler has changed a slice in place and not called UpdateConf yet,
\* and from an UpdateConf that failed with another list in memory than in the
\* file (unread, config.go:212, or unwritten, :246) until the next that succeeds.
MemoryMatchesDisk ==
  ~unsaved /\ (\A h \in Handlers : hs[h].pc \notin {"persist", "dpersist"})
    => Contents(piers) = disk

\* No two listed ships share their ports (shipcreator.go:11): the second
\* could not be started.
PortsDistinct ==
  \A p, q \in Range(disk) : p # q /\ files[p] # 0 => files[p] # files[q]

Busy(p) == \E h \in Handlers : hs[h].patp = p

\* A ship is listed once (shipcreator.go:53-63), and one that runs and that no
\* handler is at work on is listed: an unlisted ship is in no menu, is not
\* started after a reboot and cannot be stopped.
ListedOnce ==
  /\ IsInjective(disk)
  /\ \A p \in Patps : cont[p] = "started" /\ ~Busy(p) => p \in Range(disk)

\* A creation that failed and a deletion leave no container and no volume of
\* the ship behind (newship.go:187-214, urbit.go:600-625), unless the daemon
\* was killed meanwhile.
NoLeftovers ==
  \A p \in Patps \ killed : ~Busy(p) /\ p \notin Range(disk)
                     => cont[p] = "none" /\ p \notin vols

\* Each change of the list adds or drops the ship of one request.
Registry == INSTANCE PierRegistry WITH
  ships <- Range(disk),
  asked <- [h \in Handlers |-> {hs[h].patp} \ {NoPatp}]
OnlyTheAsked == Registry!Spec
=============================================================================
