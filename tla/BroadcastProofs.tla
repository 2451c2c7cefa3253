-------------------------- MODULE BroadcastProofs --------------------------
(***************************************************************************)
(* Theorems about Broadcast, for any ships, writers at work and number of  *)
(* maps: the variables keep their types, and what is shown of an operation *)
(* is its last event unless a store of an older copy, or a reload of the   *)
(* ships, came after it.                                                   *)
(***************************************************************************)
EXTENDS Broadcast, TLAPS

-----------------------------------------------------------------------------
(* Maps and copies *)

Topics == Sections \cup Ships

LEMMA NewMapFree ==
    ASSUME MapFree
    PROVE  NewMap \in Refs /\ NewMap \notin InUse(broadcastState, w)
BY DEF MapFree, NewMap

\* A map that the state or a copy refers to is kept.
LEMMA CollectedKeeps ==
    ASSUME NEW maps, NEW state, NEW writers, NEW r \in Refs
    PROVE  /\ r = state.urbits => Collected(maps, state, writers)[r] = maps[r]
           /\ \A x \in Writers : \A copy \in writers[x].copy :
                copy.urbits = r => Collected(maps, state, writers)[r] = maps[r]
<1>1. r \in InUse(state, writers) => Collected(maps, state, writers)[r] = maps[r]
  BY DEF Collected
<1>2. r = state.urbits => r \in InUse(state, writers)
  BY DEF InUse
<1>3. ASSUME NEW x \in Writers, NEW copy \in writers[x].copy, copy.urbits = r
      PROVE  r \in InUse(state, writers)
  BY <1>3 DEF InUse
<1> QED
  BY <1>1, <1>2, <1>3

LEMMA CollectedTyped ==
    ASSUME NEW maps \in [Refs -> ShipMap], NEW state, NEW writers,
           \A r \in Refs, p \in Ships : maps[r][p].listed \/ maps[r][p] = Absent
    PROVE  /\ Collected(maps, state, writers) \in [Refs -> ShipMap]
           /\ \A r \in Refs, p \in Ships :
                \/ Collected(maps, state, writers)[r][p].listed
                \/ Collected(maps, state, writers)[r][p] = Absent
<1>1. NoMap \in ShipMap /\ \A p \in Ships : NoMap[p] = Absent
  BY DEF NoMap, ShipMap, Absent, Entry
<1>2. \A r \in Refs : \/ Collected(maps, state, writers)[r] = maps[r]
                      \/ Collected(maps, state, writers)[r] = NoMap
  BY DEF Collected
<1>3. Collected(maps, state, writers) \in [Refs -> ShipMap]
  BY <1>1 DEF Collected
<1> QED
  BY <1>1, <1>2, <1>3

LEMMA IdleTyped == Idle \in Writer /\ \A p \in Ships : Idle.map[p] = Absent
BY DEF Idle, Writer, NoMap, ShipMap, Absent, Entry

LEMMA HoldingTyped ==
    ASSUME NEW copy \in State
    PROVE  /\ Holding(copy) \in Writer
           /\ Holding(copy).pc = "store" /\ Holding(copy).copy = {copy}
           /\ Holding(copy).missed = {} /\ Holding(copy).map = NoMap
<1>1. Idle \in Writer
  BY IdleTyped
<1> QED
  BY <1>1 DEF Holding, Idle, Writer

\* A writer that misses a write keeps its copy and its map.
LEMMA MissingTyped ==
    ASSUME NEW writers \in [Writers -> Writer], NEW topic \in Topics, NEW knowing
    PROVE  /\ Missing(writers, topic, knowing) \in [Writers -> Writer]
           /\ \A x \in Writers :
                /\ Missing(writers, topic, knowing)[x].pc = writers[x].pc
                /\ Missing(writers, topic, knowing)[x].copy = writers[x].copy
                /\ Missing(writers, topic, knowing)[x].map = writers[x].map
                /\ writers[x].missed \subseteq Missing(writers, topic, knowing)[x].missed
                /\ writers[x].pc = "idle" \/ x \in knowing
                     \/ topic \in Missing(writers, topic, knowing)[x].missed
<1>1. ASSUME NEW x \in Writers
      PROVE  /\ [writers[x] EXCEPT !.missed = @ \cup {topic}] \in Writer
             /\ [writers[x] EXCEPT !.missed = @ \cup {topic}].pc = writers[x].pc
             /\ [writers[x] EXCEPT !.missed = @ \cup {topic}].copy = writers[x].copy
             /\ [writers[x] EXCEPT !.missed = @ \cup {topic}].map = writers[x].map
             /\ [writers[x] EXCEPT !.missed = @ \cup {topic}].missed
                  = writers[x].missed \cup {topic}
  <2>1. writers[x] \in Writer
    OBVIOUS
  <2> QED
    BY <2>1 DEF Writer, Topics
<1>2. \A x \in Writers :
        Missing(writers, topic, knowing)[x]
          = IF writers[x].pc = "idle" \/ x \in knowing THEN writers[x]
            ELSE [writers[x] EXCEPT !.missed = @ \cup {topic}]
  BY DEF Missing
<1>3. Missing(writers, topic, knowing) \in [Writers -> Writer]
  BY <1>1 DEF Missing
<1> QED
  BY <1>1, <1>2, <1>3

\* The copy of a writer that stores.
LEMMA CopyTyped ==
    ASSUME TypeOK, NEW x \in Writers, w[x].pc = "store", x # "delete"
    PROVE  Copy(x) \in State /\ w[x].copy = {Copy(x)}
<1>1. PICK copy \in State : w[x].copy = {copy}
  BY DEF TypeOK
<1> QED
  BY <1>1 DEF Copy

-----------------------------------------------------------------------------
(* Types *)

Placed(map) == \A p \in Ships : map[p].listed \/ map[p] = Absent
Fitting(x, r) ==
    /\ r \in Writer /\ Placed(r.map)
    /\ \E copy \in State : r.copy = IF r.pc = "store" /\ x # "delete" THEN {copy} ELSE {}

LEMMA TypeParts ==
    TypeOK <=> /\ broadcastState \in State
               /\ heap \in [Refs -> ShipMap] /\ \A r \in Refs : Placed(heap[r])
               /\ piers \subseteq Ships /\ crew \in Crews
               /\ w \in [Writers -> Writer] /\ \A x \in Writers : Fitting(x, w[x])
               /\ last \in [Topics -> BOOLEAN] /\ lost \subseteq Topics
BY DEF TypeOK, Fitting, Placed, Topics

LEMMA WriterTyped ==
    ASSUME TypeOK, NEW x \in Writers, NEW r, Fitting(x, r), w' = [w EXCEPT ![x] = r]
    PROVE  w' \in [Writers -> Writer] /\ \A y \in Writers : Fitting(y, w'[y])
BY TypeParts DEF Fitting

LEMMA IdleFitting ==
    ASSUME NEW x \in Writers, State # {}
    PROVE  Fitting(x, Idle)
<1>1. Idle \in Writer /\ Placed(Idle.map)
  BY IdleTyped DEF Placed
<1>2. Idle.copy = {} /\ Idle.pc = "idle"
  BY DEF Idle
<1> QED
  BY <1>1, <1>2 DEF Fitting

LEMMA HoldingFitting ==
    ASSUME NEW x \in Writers \ {"delete"}, NEW copy \in State
    PROVE  Fitting(x, Holding(copy))
<1>1. Placed(NoMap)
  BY DEF Placed, NoMap
<1> QED
  BY <1>1, HoldingTyped DEF Fitting

LEMMA MissingFitting ==
    ASSUME TypeOK, NEW topic \in Topics, NEW knowing
    PROVE  \A x \in Writers : Fitting(x, Missing(w, topic, knowing)[x])
<1> DEFINE m == Missing(w, topic, knowing)
<1>1. \A x \in Writers : /\ m[x].pc = w[x].pc /\ m[x].copy = w[x].copy
                         /\ m[x].map = w[x].map
  <2>1. w \in [Writers -> Writer]
    BY TypeParts
  <2> QED
    BY <2>1, MissingTyped
<1>2. ASSUME NEW x \in Writers PROVE Fitting(x, Missing(w, topic, knowing)[x])
  <2>1. Fitting(x, w[x])
    BY TypeParts
  <2>2. m[x] \in Writer
    BY MissingTyped, TypeParts
  <2> QED
    BY <1>1, <2>1, <2>2 DEF Fitting
<1> QED
  BY <1>2

\* A store takes the copy over and collects the maps nobody refers to.
LEMMA UpdateTyped ==
    ASSUME TypeOK, NEW x \in Writers, NEW state \in State,
           NEW writers \in [Writers -> Writer], \A y \in Writers : Fitting(y, writers[y]),
           NEW maps \in [Refs -> ShipMap], \A r \in Refs : Placed(maps[r]),
           UpdateBroadcast(x, state, writers, maps),
           UNCHANGED <<piers, crew, last>>, lost' \subseteq Topics
    PROVE  TypeOK'
<1>1. broadcastState' = state /\ w' = [writers EXCEPT ![x] = Idle]
      /\ heap' = Collected(maps, state, w')
  BY DEF UpdateBroadcast
<1>2. w' \in [Writers -> Writer] /\ \A y \in Writers : Fitting(y, w'[y])
  BY <1>1, IdleFitting, IdleTyped
<1>3. heap' \in [Refs -> ShipMap] /\ \A r \in Refs : Placed(heap'[r])
  BY <1>1, CollectedTyped DEF Placed
<1> QED
  BY <1>1, <1>2, <1>3, TypeParts DEF TypeOK, Fitting, Placed, Topics

LEMMA BuiltTyped ==
    ConstructPierInfo \in ShipMap /\ Placed(ConstructPierInfo)
BY DEF ConstructPierInfo, ShipMap, Entry, Absent, Placed

LEMMA PreservedTyped ==
    ASSUME NEW old \in ShipMap, Placed(old), NEW new \in ShipMap, Placed(new)
    PROVE  /\ PreserveUrbitsTransitions(old, new) \in ShipMap
           /\ Placed(PreserveUrbitsTransitions(old, new))
           /\ \A p \in Ships : ~new[p].trans
                => PreserveUrbitsTransitions(old, new)[p].trans = old[p].trans
<1>1. ASSUME NEW p \in Ships
      PROVE  /\ [new[p] EXCEPT !.listed = TRUE, !.trans = old[p].trans] \in Entry
             /\ [new[p] EXCEPT !.listed = TRUE, !.trans = old[p].trans].listed
             /\ [new[p] EXCEPT !.listed = TRUE, !.trans = old[p].trans].trans = old[p].trans
  <2>1. new[p] \in Entry /\ old[p] \in Entry
    BY DEF ShipMap
  <2> QED
    BY <2>1 DEF Entry
<1>2. \A p \in Ships : new[p] \in Entry /\ old[p] \in Entry
  BY DEF ShipMap
<1>3. \A p \in Ships : PreserveUrbitsTransitions(old, new)[p]
        = IF old[p].listed THEN [new[p] EXCEPT !.listed = TRUE, !.trans = old[p].trans]
          ELSE new[p]
  BY DEF PreserveUrbitsTransitions
<1>4. PreserveUrbitsTransitions(old, new) \in ShipMap
  BY <1>1, <1>2 DEF PreserveUrbitsTransitions, ShipMap
<1>5. Placed(PreserveUrbitsTransitions(old, new))
  BY <1>1, <1>3 DEF Placed
<1>6. ASSUME NEW p \in Ships, ~new[p].trans
      PROVE  PreserveUrbitsTransitions(old, new)[p].trans = old[p].trans
  <2>1. CASE old[p].listed
    BY <1>1, <1>3, <2>1
  <2>2. CASE ~old[p].listed
    <3>1. old[p].trans = FALSE /\ new[p].trans = FALSE
      BY <1>2, <1>6, <2>2 DEF Placed, Absent, Entry
    <3> QED
      BY <1>3, <2>2, <3>1
  <2> QED
    BY <2>1, <2>2
<1> QED
  BY <1>4, <1>5, <1>6

LEMMA TakeTyped ==
    ASSUME TypeOK,
           \/ \E x \in Loops : Refresh(x)
           \/ \E x \in Sections : TakeEvent(x)
    PROVE  TypeOK'
<1>1. PICK x \in Loops \cup Sections :
        /\ w' = [w EXCEPT ![x] = Holding(broadcastState)]
        /\ UNCHANGED <<broadcastState, heap, piers, crew, lost>>
        /\ UNCHANGED last \/ (x \in Sections /\ last' = [last EXCEPT ![x] = ~@])
  <2>1. CASE \E x \in Loops : Refresh(x)
    BY <2>1 DEF Refresh
  <2>2. CASE \E x \in Sections : TakeEvent(x)
    BY <2>2 DEF TakeEvent
  <2> QED
    BY <2>1, <2>2
<1>2. x \in Writers \ {"delete"}
  BY DEF Writers, Loops, Sections
<1>3. w' \in [Writers -> Writer] /\ \A y \in Writers : Fitting(y, w'[y])
  BY <1>1, <1>2, HoldingFitting, WriterTyped, TypeParts
<1>4. last' \in [Topics -> BOOLEAN]
  BY <1>1, TypeParts DEF Topics
<1> QED
  BY <1>1, <1>3, <1>4, TypeParts DEF TypeOK, Fitting, Placed, Topics

LEMMA StoreTyped ==
    ASSUME TypeOK,
           \/ \E x \in Loops : StoreRefreshed(x)
           \/ \E x \in Sections : StoreEvent(x)
           \/ StoreUrbitEvent
    PROVE  TypeOK'
<1>1. CASE \E x \in Loops : StoreRefreshed(x)
  <2>1. PICK x \in Loops : StoreRefreshed(x)
    BY <1>1
  <2>2. x \in Writers \ {"delete"} /\ w[x].missed \subseteq Topics
    BY TypeParts DEF Writers, Loops, Writer, Topics
  <2>3. UpdateBroadcast(x, Copy(x), w, heap) /\ Copy(x) \in State
    BY <2>1, <2>2, CopyTyped DEF StoreRefreshed, PreserveTransitions
  <2> QED
    BY <2>1, <2>2, <2>3, UpdateTyped, TypeParts DEF StoreRefreshed
<1>2. CASE \E x \in Sections : StoreEvent(x)
  <2>1. PICK x \in Sections : StoreEvent(x)
    BY <1>2
  <2>2. x \in Writers \ {"delete"} /\ w[x].missed \subseteq Topics /\ x \in Topics
    BY TypeParts DEF Writers, Sections, Writer, Topics
  <2>3. Copy(x) \in State /\ last[x] \in BOOLEAN
    BY <2>1, <2>2, CopyTyped, TypeParts DEF StoreEvent
  <2>4. [Copy(x) EXCEPT ![x] = last[x]] \in State
    BY <2>3 DEF State, Sections
  <2>5. /\ Missing(w, x, {x}) \in [Writers -> Writer]
        /\ \A y \in Writers : Fitting(y, Missing(w, x, {x})[y])
    BY <2>2, MissingTyped, MissingFitting, TypeParts
  <2> QED
    BY <2>1, <2>2, <2>4, <2>5, UpdateTyped, TypeParts DEF StoreEvent
<1>3. CASE StoreUrbitEvent
  <2>1. "urbit" \in Writers \ {"delete"} /\ w["urbit"].missed \subseteq Topics
    BY TypeParts DEF Writers, Writer, Topics
  <2>2. Copy("urbit") \in State
    BY <1>3, <2>1, CopyTyped DEF StoreUrbitEvent
  <2> QED
    BY <1>3, <2>1, <2>2, UpdateTyped, TypeParts DEF StoreUrbitEvent
<1> QED
  BY <1>1, <1>2, <1>3

LEMMA UrbitEventTyped ==
    ASSUME TypeOK, NEW p \in Ships, TakeUrbitEvent(p)
    PROVE  TypeOK'
<1> DEFINE r == broadcastState.urbits
           knowing == {x \in Loops \cup Sections : \A copy \in w[x].copy : copy.urbits = r}
           m == Missing(w, p, knowing)
<1>1. r \in Refs /\ heap[r] \in ShipMap /\ heap[r][p].listed /\ Placed(heap[r])
  BY TypeParts DEF TakeUrbitEvent, State
<1>2. last' = [last EXCEPT ![p] = ~@] /\ last' \in [Topics -> BOOLEAN] /\ last'[p] \in BOOLEAN
  BY TypeParts DEF TakeUrbitEvent, Topics
<1>3. heap' = [heap EXCEPT ![r][p].trans = last'[p]]
  BY DEF TakeUrbitEvent
<1>4. heap' \in [Refs -> ShipMap] /\ \A s \in Refs : Placed(heap'[s])
  <2> DEFINE entry == [heap[r][p] EXCEPT !.trans = last'[p]]
  <2>1. entry \in Entry /\ entry.listed
    BY <1>1, <1>2 DEF ShipMap, Entry
  <2>2. heap' = [heap EXCEPT ![r] = [heap[r] EXCEPT ![p] = entry]]
    BY <1>3
  <2>3. /\ [heap[r] EXCEPT ![p] = entry] \in ShipMap
        /\ Placed([heap[r] EXCEPT ![p] = entry])
    <3> HIDE DEF entry
    <3> QED
      BY <1>1, <2>1 DEF ShipMap, Placed
  <2> HIDE DEF entry, r
  <2> QED
    BY <2>2, <2>3, TypeParts
<1>5. w' = [m EXCEPT !["urbit"] = Holding(broadcastState)]
  BY DEF TakeUrbitEvent
<1>6. /\ m \in [Writers -> Writer] /\ \A x \in Writers : Fitting(x, m[x])
  BY MissingTyped, MissingFitting, TypeParts DEF Topics
<1>7. Fitting("urbit", Holding(broadcastState)) /\ Holding(broadcastState) \in Writer
  BY HoldingFitting, HoldingTyped, TypeParts DEF Writers
<1>8. w' \in [Writers -> Writer] /\ \A x \in Writers : Fitting(x, w'[x])
  BY <1>5, <1>6, <1>7
<1> QED
  BY <1>2, <1>4, <1>8, TypeParts DEF TypeOK, Fitting, Placed, Topics, TakeUrbitEvent

LEMMA ShipsTyped ==
    ASSUME TypeOK, ShipsLoop
    PROVE  TypeOK'
<1>1. "ships" \in Writers \ {"delete"} /\ Placed(NoMap) /\ NoMap \in ShipMap
  BY IdleTyped DEF Writers, Placed, NoMap, Idle, Writer
<1>2. CASE RefreshShips
  <2> DEFINE rec == [Idle EXCEPT !.pc = "built", !.map = ConstructPierInfo]
  <2>1. rec \in Writer /\ rec.pc = "built" /\ rec.copy = {} /\ rec.map = ConstructPierInfo
    BY IdleTyped, BuiltTyped DEF Idle, Writer
  <2>2. Fitting("ships", rec)
    BY <2>1, BuiltTyped, TypeParts DEF Fitting
  <2>3. w' \in [Writers -> Writer] /\ \A y \in Writers : Fitting(y, w'[y])
    BY <1>1, <1>2, <2>2, WriterTyped DEF RefreshShips
  <2> QED
    BY <1>2, <2>3, TypeParts DEF TypeOK, Fitting, Placed, Topics, RefreshShips
<1>3. CASE CopyShips
  <2> DEFINE map == PreserveUrbitsTransitions(heap[broadcastState.urbits], w["ships"].map)
             rec == [Holding(broadcastState) EXCEPT !.map = map]
  <2>1. map \in ShipMap /\ Placed(map)
    <3>1. heap[broadcastState.urbits] \in ShipMap /\ Placed(heap[broadcastState.urbits])
      BY TypeParts DEF State
    <3>2. w["ships"].map \in ShipMap /\ Placed(w["ships"].map)
      BY <1>1, TypeParts DEF Fitting, Writer
    <3> QED
      BY <3>1, <3>2, PreservedTyped
  <2>2. /\ rec \in Writer /\ rec.pc = "store" /\ rec.copy = {broadcastState}
        /\ rec.map = map
    <3> HIDE DEF map
    <3> QED
      BY <2>1, HoldingTyped, TypeParts DEF Writer
  <2>3. Fitting("ships", rec)
    BY <2>1, <2>2, TypeParts DEF Fitting
  <2>4. w' = [w EXCEPT !["ships"] = rec]
    BY <1>3 DEF CopyShips
  <2>5. w' \in [Writers -> Writer] /\ \A y \in Writers : Fitting(y, w'[y])
    BY <1>1, <2>3, <2>4, WriterTyped
  <2> QED
    BY <1>3, <2>5, TypeParts DEF TypeOK, Fitting, Placed, Topics, CopyShips
<1>4. CASE StoreShips
  <2>1. NewMap \in Refs /\ w["ships"].map \in ShipMap /\ Placed(w["ships"].map)
        /\ w["ships"].missed \subseteq Topics
    BY <1>1, <1>4, NewMapFree, TypeParts DEF StoreShips, Fitting, Writer, Topics
  <2>2. Copy("ships") \in State
    BY <1>1, <1>4, CopyTyped DEF StoreShips
  <2>3. [Copy("ships") EXCEPT !.urbits = NewMap] \in State
    BY <2>1, <2>2 DEF State, Sections
  <2>4. /\ [heap EXCEPT ![NewMap] = w["ships"].map] \in [Refs -> ShipMap]
        /\ \A s \in Refs : Placed([heap EXCEPT ![NewMap] = w["ships"].map][s])
    BY <2>1, TypeParts
  <2> QED
    BY <1>1, <1>4, <2>1, <2>3, <2>4, UpdateTyped, TypeParts DEF StoreShips
<1> QED
  BY <1>2, <1>3, <1>4 DEF ShipsLoop

LEMMA DeletionTyped ==
    ASSUME TypeOK,
           \/ \E p \in Ships : CreateShip(p) \/ DeleteShip(p)
           \/ BuildReload
           \/ ReloadUrbits
    PROVE  TypeOK'
<1>1. "delete" \in Writers
  BY DEF Writers
<1>2. ASSUME NEW p \in Ships, CreateShip(p)
      PROVE  TypeOK'
  BY <1>2, TypeParts DEF TypeOK, Fitting, Placed, Topics, CreateShip
<1>3. ASSUME NEW p \in Ships, DeleteShip(p)
      PROVE  TypeOK'
  <2> DEFINE rec == [w["delete"] EXCEPT !.pc = "deleted"]
  <2>1. w["delete"] \in Writer /\ Fitting("delete", w["delete"])
    BY <1>1, TypeParts
  <2>2. /\ rec \in Writer /\ rec.pc = "deleted" /\ rec.copy = w["delete"].copy
        /\ rec.map = w["delete"].map
    BY <2>1 DEF Writer
  <2>3. Fitting("delete", rec)
    BY <2>1, <2>2 DEF Fitting
  <2>4. w' = [w EXCEPT !["delete"] = rec]
    BY <1>3 DEF DeleteShip
  <2>5. w' \in [Writers -> Writer] /\ \A y \in Writers : Fitting(y, w'[y])
    BY <1>1, <2>3, <2>4, WriterTyped
  <2> QED
    BY <1>3, <2>5, TypeParts DEF TypeOK, Fitting, Placed, Topics, DeleteShip
<1>4. CASE BuildReload
  <2> DEFINE rec == [Idle EXCEPT !.pc = "store", !.map = ConstructPierInfo]
  <2>1. rec \in Writer /\ rec.pc = "store" /\ rec.copy = {} /\ rec.map = ConstructPierInfo
    BY IdleTyped, BuiltTyped DEF Idle, Writer
  <2>2. Fitting("delete", rec)
    BY <2>1, BuiltTyped, TypeParts DEF Fitting
  <2>3. w' \in [Writers -> Writer] /\ \A y \in Writers : Fitting(y, w'[y])
    BY <1>1, <1>4, <2>2, WriterTyped DEF BuildReload
  <2> QED
    BY <1>4, <2>3, TypeParts DEF TypeOK, Fitting, Placed, Topics, BuildReload
<1>5. CASE ReloadUrbits
  <2>1. NewMap \in Refs /\ w["delete"].map \in ShipMap /\ Placed(w["delete"].map)
        /\ lost \cup Ships \subseteq Topics
    BY <1>1, <1>5, NewMapFree, TypeParts DEF ReloadUrbits, Fitting, Writer, Topics
  <2>2. [broadcastState EXCEPT !.urbits = NewMap] \in State
    BY <2>1, TypeParts DEF State, Sections
  <2>3. /\ [heap EXCEPT ![NewMap] = w["delete"].map] \in [Refs -> ShipMap]
        /\ \A s \in Refs : Placed([heap EXCEPT ![NewMap] = w["delete"].map][s])
    BY <2>1, TypeParts
  <2> QED
    BY <1>1, <1>5, <2>1, <2>2, <2>3, UpdateTyped, TypeParts DEF ReloadUrbits
<1> QED
  BY <1>2, <1>3, <1>4, <1>5

LEMMA TypeInit == Init => TypeOK
<1> SUFFICES ASSUME Init PROVE TypeOK
  OBVIOUS
<1>1. FirstMap \in Refs
  BY RefsAssumption DEF FirstMap
<1>2. broadcastState \in State
  BY <1>1 DEF Init, State, Sections
<1>3. heap \in [Refs -> ShipMap] /\ \A r \in Refs : Placed(heap[r])
  <2>1. NoMap \in ShipMap /\ Placed(NoMap)
    BY DEF NoMap, ShipMap, Absent, Entry, Placed
  <2> QED
    BY <2>1, BuiltTyped DEF Init
<1>4. w \in [Writers -> Writer] /\ \A x \in Writers : Fitting(x, w[x])
  BY <1>2, IdleTyped, IdleFitting DEF Init
<1> QED
  BY <1>2, <1>3, <1>4, TypeParts DEF Init, Topics

LEMMA TypeNext == TypeOK /\ [Next]_vars => TypeOK'
<1> SUFFICES ASSUME TypeOK, [Next]_vars PROVE TypeOK'
  OBVIOUS
<1>1. CASE UNCHANGED vars
  BY <1>1 DEF vars, TypeOK
<1> QED
  BY <1>1, TakeTyped, StoreTyped, UrbitEventTyped, ShipsTyped, DeletionTyped DEF Next

\* The variables keep their types: a writer that stores a copy has exactly
\* one, and nothing is known of a ship that has no place in a map.
THEOREM TypeCorrect == Spec => []TypeOK
BY TypeInit, TypeNext, PTL DEF Spec

-----------------------------------------------------------------------------
(* What is shown is the last event                                         *)
(*                                                                         *)
(* The invariant says it of the state and of every copy: a copy is behind  *)
(* on what is lost and on what its holder has missed, and on nothing else. *)

\* s, with the maps, shows the last events except those of "out"; an event
\* that is still to be stored is not shown yet.
Agrees(s, maps, writers, hist, out) ==
    /\ \A t \in Sections \ out : writers[t].pc = "store" \/ s[t] = hist[t]
    /\ \A p \in Ships \ out : maps[s.urbits][p].trans = hist[p]

\* The map that the loop of the ships has built has no transitions until it
\* gets those of the state.
BuiltAgrees(r, hist, out) ==
    /\ r.pc = "built" => \A p \in Ships : ~r.map[p].trans
    /\ r.pc = "store" => \A p \in Ships \ (out \cup r.missed) : r.map[p].trans = hist[p]

CopyAgrees == \A x \in Writers : \A copy \in w[x].copy :
                  Agrees(copy, heap, w, last, lost \cup w[x].missed)

OverlapInv ==
    /\ TypeOK
    /\ Agrees(broadcastState, heap, w, last, lost)
    /\ CopyAgrees
    /\ BuiltAgrees(w["ships"], last, lost)

\* What a writer does that stores no event leaves the copies as fresh as
\* they were.
LEMMA AgreesKept ==
    ASSUME NEW s, NEW maps, NEW maps2, NEW writers, NEW writers2, NEW hist,
           NEW out, NEW out2, Agrees(s, maps, writers, hist, out), out \subseteq out2,
           \A t \in Sections \ out2 : writers[t].pc = "store" => writers2[t].pc = "store",
           maps2[s.urbits] = maps[s.urbits]
    PROVE  Agrees(s, maps2, writers2, hist, out2)
BY DEF Agrees

\* Lines up the parts that a step has to keep.
LEMMA InvParts ==
    ASSUME TypeOK',
           Agrees(broadcastState', heap', w', last', lost'),
           \A x \in Writers : \A copy \in w'[x].copy :
               Agrees(copy, heap', w', last', lost' \cup w'[x].missed),
           BuiltAgrees(w'["ships"], last', lost')
    PROVE  OverlapInv'
BY DEF OverlapInv, CopyAgrees

LEMMA TakeAgrees ==
    ASSUME OverlapInv, TypeOK', NEW x \in Loops \cup Sections,
           w' = [w EXCEPT ![x] = Holding(broadcastState)],
           UNCHANGED <<broadcastState, heap, lost>>,
           UNCHANGED last \/ (x \in Sections /\ last' = [last EXCEPT ![x] = ~@])
    PROVE  OverlapInv'
<1>1. /\ x \in Writers /\ x # "ships" /\ w \in [Writers -> Writer]
      /\ broadcastState \in State /\ Sections \subseteq Writers
  BY TypeParts DEF OverlapInv, Writers, Loops, Sections
<1>2. w'[x] = Holding(broadcastState) /\ \A y \in Writers : y # x => w'[y] = w[y]
  BY <1>1
<1>3. \A p \in Ships : last'[p] = last[p]
  BY TypeParts, TopicsAssumption DEF OverlapInv, Topics
<1>4. \A t \in Sections : t = x \/ last'[t] = last[t]
  BY TypeParts DEF OverlapInv, Topics
<1>5. w'[x].pc = "store" /\ w'[x].missed = {} /\ w'[x].copy = {broadcastState}
  BY <1>1, <1>2, HoldingTyped
<1>6. ASSUME NEW s, NEW out, Agrees(s, heap, w, last, out)
      PROVE  Agrees(s, heap', w', last', out)
  <2>1. \A t \in Sections \ out : w'[t].pc = "store" \/ s[t] = last'[t]
    BY <1>1, <1>2, <1>4, <1>5, <1>6 DEF Agrees
  <2>2. \A p \in Ships \ out : heap'[s.urbits][p].trans = last'[p]
    BY <1>3, <1>6 DEF Agrees
  <2> QED
    BY <2>1, <2>2 DEF Agrees
<1>7. Agrees(broadcastState', heap', w', last', lost')
  BY <1>6 DEF OverlapInv
<1>8. ASSUME NEW y \in Writers, NEW copy \in w'[y].copy
      PROVE  Agrees(copy, heap', w', last', lost' \cup w'[y].missed)
  <2>1. CASE y = x
    <3>1. copy = broadcastState /\ lost' \cup w'[y].missed = lost
      BY <1>5, <1>8, <2>1
    <3> QED
      BY <1>6, <3>1 DEF OverlapInv
  <2>2. CASE y # x
    <3>1. w'[y] = w[y]
      BY <1>2, <2>2
    <3>2. Agrees(copy, heap, w, last, lost \cup w[y].missed)
      BY <1>8, <3>1 DEF OverlapInv, CopyAgrees
    <3> QED
      BY <1>6, <3>1, <3>2
  <2> QED
    BY <2>1, <2>2
<1>9. BuiltAgrees(w'["ships"], last', lost')
  <2>1. w'["ships"] = w["ships"]
    BY <1>1, <1>2 DEF Writers
  <2> QED
    BY <1>3, <2>1 DEF OverlapInv, BuiltAgrees
<1> QED
  BY <1>7, <1>8, <1>9, InvParts

\* A store: the state it leaves, and the copies of the others.
LEMMA UpdateAgrees ==
    ASSUME OverlapInv, TypeOK', NEW x \in Writers, NEW state \in State,
           NEW writers \in [Writers -> Writer], NEW maps \in [Refs -> ShipMap],
           \A y \in Writers : \A copy \in writers[y].copy : copy \in State,
           UpdateBroadcast(x, state, writers, maps), UNCHANGED last,
           Agrees(state, maps, w', last, lost'),
           \A y \in Writers \ {x} : \A copy \in writers[y].copy :
               Agrees(copy, maps, w', last, lost' \cup writers[y].missed),
           x = "ships" \/ BuiltAgrees(writers["ships"], last, lost')
    PROVE  OverlapInv'
<1>1. broadcastState' = state /\ w' = [writers EXCEPT ![x] = Idle]
      /\ heap' = Collected(maps, state, w')
  BY DEF UpdateBroadcast
<1>2. w'[x] = Idle /\ \A y \in Writers : y # x => w'[y] = writers[y]
  BY <1>1
<1>3. Idle.pc = "idle" /\ Idle.copy = {}
  BY DEF Idle
<1>4. Agrees(broadcastState', heap', w', last', lost')
  <2>1. heap'[state.urbits] = maps[state.urbits]
    BY <1>1, CollectedKeeps DEF State
  <2> QED
    BY <1>1, <2>1, AgreesKept
<1>5. ASSUME NEW y \in Writers, NEW copy \in w'[y].copy
      PROVE  Agrees(copy, heap', w', last', lost' \cup w'[y].missed)
  <2>1. y # x /\ w'[y] = writers[y]
    BY <1>2, <1>3, <1>5
  <2>2. copy \in State /\ copy.urbits \in Refs
    BY <1>5, <2>1 DEF State
  <2>3. heap'[copy.urbits] = maps[copy.urbits]
    <3>1. ASSUME NEW r \in Refs, r = copy.urbits
          PROVE  Collected(maps, state, w')[r] = maps[r]
      BY <1>5, <3>1, CollectedKeeps
    <3> QED
      BY <1>1, <2>2, <3>1
  <2>4. Agrees(copy, maps, w', last, lost' \cup w'[y].missed)
    BY <1>5, <2>1
  <2> QED
    BY <2>3, <2>4, AgreesKept
<1>6. BuiltAgrees(w'["ships"], last', lost')
  <2>1. CASE x = "ships"
    BY <1>2, <1>3, <2>1 DEF BuiltAgrees
  <2>2. CASE x # "ships"
    <3>1. w'["ships"] = writers["ships"]
      BY <1>2, <2>2 DEF Writers
    <3> QED
      BY <2>2, <3>1
  <2> QED
    BY <2>1, <2>2
<1> QED
  BY <1>4, <1>5, <1>6, InvParts

\* The copy of a writer is as fresh as the invariant says.
LEMMA CopyFresh ==
    ASSUME OverlapInv, NEW x \in Writers \ {"delete"}, w[x].pc = "store"
    PROVE  /\ Copy(x) \in State
           /\ Agrees(Copy(x), heap, w, last, lost \cup w[x].missed)
<1>1. Copy(x) \in State /\ w[x].copy = {Copy(x)}
  BY CopyTyped DEF OverlapInv
<1> QED
  BY <1>1 DEF OverlapInv, CopyAgrees

LEMMA CopiesTyped ==
    ASSUME TypeOK
    PROVE  \A y \in Writers : \A copy \in w[y].copy : copy \in State
BY TypeParts DEF Writer

\* Stores of a section without an event, and of the ships' events.
LEMMA StoreCopyAgrees ==
    ASSUME OverlapInv, TypeOK', NEW x \in Loops \cup {"urbit"}, w[x].pc = "store",
           UpdateBroadcast(x, Copy(x), w, heap), lost' = lost \cup w[x].missed,
           UNCHANGED last
    PROVE  OverlapInv'
<1>1. x \in Writers \ {"delete"} /\ x # "ships" /\ x \notin Sections
      /\ w \in [Writers -> Writer] /\ heap \in [Refs -> ShipMap] /\ Sections \subseteq Writers
  BY TypeParts DEF OverlapInv, Writers, Loops, Sections
<1>2. w' = [w EXCEPT ![x] = Idle]
  BY DEF UpdateBroadcast
<1>3. \A t \in Sections : w'[t] = w[t]
  BY <1>1, <1>2
<1>4. Copy(x) \in State /\ Agrees(Copy(x), heap, w, last, lost \cup w[x].missed)
  BY <1>1, CopyFresh
<1>5. Agrees(Copy(x), heap, w', last, lost')
  BY <1>3, <1>4, AgreesKept
<1>6. ASSUME NEW y \in Writers \ {x}, NEW copy \in w[y].copy
      PROVE  Agrees(copy, heap, w', last, lost' \cup w[y].missed)
  <2>1. Agrees(copy, heap, w, last, lost \cup w[y].missed)
    BY <1>6 DEF OverlapInv, CopyAgrees
  <2>2. lost \cup w[y].missed \subseteq lost' \cup w[y].missed
    OBVIOUS
  <2> QED
    BY <1>3, <2>1, <2>2, AgreesKept
<1>7. BuiltAgrees(w["ships"], last, lost')
  BY DEF OverlapInv, BuiltAgrees
<1> QED
  BY <1>1, <1>4, <1>5, <1>6, <1>7, CopiesTyped, UpdateAgrees DEF OverlapInv

LEMMA StoreEventAgrees ==
    ASSUME OverlapInv, TypeOK', NEW x \in Sections, StoreEvent(x)
    PROVE  OverlapInv'
<1> DEFINE m == Missing(w, x, {x})
           state == [Copy(x) EXCEPT ![x] = last[x]]
<1>1. /\ x \in Writers \ {"delete"} /\ x # "ships" /\ x \in Topics
      /\ w \in [Writers -> Writer] /\ heap \in [Refs -> ShipMap] /\ Sections \subseteq Writers
      /\ last \in [Topics -> BOOLEAN]
  BY TypeParts DEF OverlapInv, Writers, Sections, Topics
<1>2. /\ w[x].pc = "store" /\ UpdateBroadcast(x, state, m, heap)
      /\ lost' = (lost \cup w[x].missed) \ {x} /\ last' = last
  BY DEF StoreEvent
<1>3. /\ m \in [Writers -> Writer]
      /\ \A y \in Writers : /\ m[y].pc = w[y].pc /\ m[y].copy = w[y].copy
                            /\ m[y].map = w[y].map /\ w[y].missed \subseteq m[y].missed
                            /\ w[y].pc = "idle" \/ y \in {x} \/ x \in m[y].missed
  BY <1>1, MissingTyped
<1>4. w' = [m EXCEPT ![x] = Idle]
  BY <1>2 DEF UpdateBroadcast
<1>5. Copy(x) \in State /\ Agrees(Copy(x), heap, w, last, lost \cup w[x].missed)
  BY <1>1, <1>2, CopyFresh
<1>6. state \in State /\ state[x] = last[x] /\ state.urbits = Copy(x).urbits
      /\ \A t \in Sections : t # x => state[t] = Copy(x)[t]
  BY <1>1, <1>5 DEF State, Sections
<1>7. \A t \in Sections : t # x => w'[t].pc = w[t].pc
  BY <1>1, <1>3, <1>4
<1>8. Agrees(state, heap, w', last, lost')
  <2>1. \A t \in Sections \ lost' : w'[t].pc = "store" \/ state[t] = last[t]
    <3>1. \A t \in Sections \ lost' : t # x => t \notin lost \cup w[x].missed
      BY <1>2
    <3> QED
      BY <1>5, <1>6, <1>7, <3>1 DEF Agrees
  <2>2. \A p \in Ships \ lost' : heap[state.urbits][p].trans = last[p]
    <3>1. \A p \in Ships \ lost' : p \notin lost \cup w[x].missed
      BY <1>2, TopicsAssumption
    <3> QED
      BY <1>5, <1>6, <3>1 DEF Agrees
  <2> HIDE DEF state
  <2> QED
    BY <2>1, <2>2 DEF Agrees
<1>9. ASSUME NEW y \in Writers \ {x}, NEW copy \in m[y].copy
      PROVE  Agrees(copy, heap, w', last, lost' \cup m[y].missed)
  <2>1. copy \in w[y].copy /\ Fitting(y, w[y])
    BY <1>3, <1>9, TypeParts DEF OverlapInv
  <2>2. w[y].pc # "idle"
    BY <2>1 DEF Fitting
  <2>3. x \in m[y].missed /\ w[y].missed \subseteq m[y].missed
    BY <1>3, <1>9, <2>2
  <2>4. Agrees(copy, heap, w, last, lost \cup w[y].missed)
    BY <1>9, <2>1 DEF OverlapInv, CopyAgrees
  <2>5. lost \cup w[y].missed \subseteq lost' \cup m[y].missed
    BY <1>2, <2>3
  <2>6. \A t \in Sections \ (lost' \cup m[y].missed) : w'[t].pc = w[t].pc
    BY <1>7, <2>3
  <2> HIDE DEF m, state
  <2> QED
    BY <2>4, <2>5, <2>6, AgreesKept
<1>10. BuiltAgrees(m["ships"], last, lost')
  <2>1. "ships" \in Writers /\ BuiltAgrees(w["ships"], last, lost)
    BY DEF OverlapInv, Writers
  <2>2. m["ships"].pc = w["ships"].pc /\ m["ships"].map = w["ships"].map
        /\ w["ships"].missed \subseteq m["ships"].missed
    BY <1>3, <2>1
  <2>3. \A p \in Ships : p \in lost => p \in lost'
    BY <1>2, TopicsAssumption
  <2> HIDE DEF m, state
  <2> QED
    BY <2>1, <2>2, <2>3 DEF BuiltAgrees
<1>11. \A y \in Writers : \A copy \in m[y].copy : copy \in State
  BY <1>3, CopiesTyped DEF OverlapInv
<1> HIDE DEF m, state
<1> QED
  BY <1>1, <1>2, <1>3, <1>6, <1>8, <1>9, <1>10, <1>11, UpdateAgrees

LEMMA UrbitEventAgrees ==
    ASSUME OverlapInv, TypeOK', NEW p \in Ships, TakeUrbitEvent(p)
    PROVE  OverlapInv'
<1> DEFINE r == broadcastState.urbits
           knowing == {x \in Loops \cup Sections : \A copy \in w[x].copy : copy.urbits = r}
           m == Missing(w, p, knowing)
<1>1. /\ r \in Refs /\ broadcastState \in State /\ heap \in [Refs -> ShipMap]
      /\ w \in [Writers -> Writer] /\ Sections \subseteq Writers /\ "urbit" \notin Sections
      /\ last \in [Topics -> BOOLEAN] /\ p \in Topics /\ p \notin Sections
  BY TypeParts, TopicsAssumption DEF OverlapInv, State, Writers, Sections, Topics
<1>2. /\ last' = [last EXCEPT ![p] = ~@] /\ lost' = lost \ {p}
      /\ broadcastState' = broadcastState /\ w' = [m EXCEPT !["urbit"] = Holding(broadcastState)]
      /\ w["urbit"].pc = "idle"
  BY DEF TakeUrbitEvent, MayStart
<1>3. /\ m \in [Writers -> Writer]
      /\ \A y \in Writers : /\ m[y].pc = w[y].pc /\ m[y].copy = w[y].copy
                            /\ m[y].map = w[y].map /\ w[y].missed \subseteq m[y].missed
                            /\ w[y].pc = "idle" \/ y \in knowing \/ p \in m[y].missed
  BY <1>1, MissingTyped
<1>4. /\ w'["urbit"].copy = {broadcastState} /\ w'["urbit"].missed = {}
      /\ \A y \in Writers : y # "urbit" => w'[y] = m[y]
  <2>1. w'["urbit"] = Holding(broadcastState)
    BY <1>2, <1>3 DEF Writers
  <2>2. \A y \in Writers : y # "urbit" => w'[y] = m[y]
    BY <1>2, <1>3
  <2> QED
    BY <1>1, <2>1, <2>2, HoldingTyped
<1>5. \A t \in Sections : w'[t].pc = w[t].pc
  BY <1>1, <1>3, <1>4
<1>6. \A t \in Sections \cup Ships : t # p => last'[t] = last[t]
  BY <1>1, <1>2
<1>7. /\ heap'[r][p].trans = last'[p]
      /\ \A q \in Ships : q # p => heap'[r][q].trans = heap[r][q].trans
      /\ \A s \in Refs : s # r => heap'[s] = heap[s]
  <2> DEFINE entry == [heap[r][p] EXCEPT !.trans = last'[p]]
  <2>1. entry.trans = last'[p]
    <3>1. heap[r][p] \in Entry
      BY <1>1 DEF ShipMap
    <3> QED
      BY <3>1 DEF Entry
  <2>2. heap' = [heap EXCEPT ![r] = [heap[r] EXCEPT ![p] = entry]]
    BY DEF TakeUrbitEvent
  <2>3. heap[r] \in ShipMap
    BY <1>1
  <2> HIDE DEF entry, r
  <2> QED
    BY <1>1, <2>1, <2>2, <2>3 DEF ShipMap
\* The event is in the map of the state, and so in every copy that shares it.
<1>8. ASSUME NEW s, s.urbits = r, NEW out, NEW out2, Agrees(s, heap, w, last, out),
             \A t \in out : t = p \/ t \in out2
      PROVE  Agrees(s, heap', w', last', out2)
  <2>1. \A t \in Sections \ out2 : w'[t].pc = "store" \/ s[t] = last'[t]
    BY <1>1, <1>5, <1>6, <1>8 DEF Agrees
  <2>2. \A q \in Ships \ out2 : heap'[s.urbits][q].trans = last'[q]
    <3>1. ASSUME NEW q \in Ships \ out2 PROVE heap'[r][q].trans = last'[q]
      <4>1. CASE q = p
        BY <1>7, <4>1
      <4>2. CASE q # p
        <5>1. heap[r][q].trans = last[q]
          BY <1>8, <4>2 DEF Agrees
        <5> QED
          BY <1>6, <1>7, <4>2, <5>1
      <4> QED
        BY <4>1, <4>2
    <3> QED
      BY <1>8, <3>1
  <2> QED
    BY <2>1, <2>2 DEF Agrees
\* The others have missed it.
<1>9. ASSUME NEW s \in State, NEW out, NEW out2, Agrees(s, heap, w, last, out),
             p \in out2, out \subseteq out2 \cup {p}
      PROVE  Agrees(s, heap', w', last', out2)
  <2>1. CASE s.urbits = r
    BY <1>8, <1>9, <2>1
  <2>2. CASE s.urbits # r
    <3>1. heap'[s.urbits] = heap[s.urbits]
      BY <1>7, <2>2 DEF State
    <3>2. \A q \in Ships \ out2 : q # p /\ q \notin out
      BY <1>9
    <3>3. \A t \in Sections \ out2 : t # p /\ t \notin out
      BY <1>1, <1>9
    <3> HIDE DEF r
    <3> QED
      BY <1>5, <1>6, <1>9, <3>1, <3>2, <3>3 DEF Agrees
  <2> QED
    BY <2>1, <2>2
<1>10. Agrees(broadcastState', heap', w', last', lost')
  <2>1. \A t \in lost : t = p \/ t \in lost'
    BY <1>2
  <2>2. Agrees(broadcastState, heap, w, last, lost)
    BY DEF OverlapInv
  <2> QED
    BY <1>2, <1>8, <2>1, <2>2
<1>11. ASSUME NEW y \in Writers, NEW copy \in w'[y].copy
       PROVE  Agrees(copy, heap', w', last', lost' \cup w'[y].missed)
  <2>1. CASE y = "urbit"
    <3>1. copy = broadcastState /\ lost' \cup w'[y].missed = lost'
      BY <1>4, <1>11, <2>1
    <3> QED
      BY <1>2, <1>10, <3>1
  <2>2. CASE y # "urbit"
    <3>1. w'[y] = m[y] /\ copy \in w[y].copy
      BY <1>3, <1>4, <1>11, <2>2
    <3>2. copy \in State /\ w[y].pc # "idle"
      <4>1. copy \in State
        BY <3>1, CopiesTyped DEF OverlapInv
      <4>2. Fitting(y, w[y])
        BY TypeParts DEF OverlapInv
      <4> QED
        BY <3>1, <4>1, <4>2 DEF Fitting
    <3>3. Agrees(copy, heap, w, last, lost \cup w[y].missed)
      BY <3>1 DEF OverlapInv, CopyAgrees
    <3>4. \A t \in lost \cup w[y].missed : t = p \/ t \in lost' \cup m[y].missed
      BY <1>2, <1>3
    <3>5. CASE y \in knowing
      <4>1. copy.urbits = r
        BY <3>1, <3>5
      <4> HIDE DEF m, r, knowing
      <4> QED
        BY <1>8, <3>1, <3>3, <3>4, <4>1
    <3>6. CASE y \notin knowing
      <4>1. p \in lost' \cup m[y].missed
        BY <1>3, <3>2, <3>6
      <4>2. lost \cup w[y].missed \subseteq (lost' \cup m[y].missed) \cup {p}
        BY <3>4
      <4> HIDE DEF m, r, knowing
      <4> QED
        BY <1>9, <3>1, <3>2, <3>3, <4>1, <4>2
    <3> QED
      BY <3>5, <3>6
  <2> QED
    BY <2>1, <2>2
<1>12. BuiltAgrees(w'["ships"], last', lost')
  <2>1. w'["ships"] = m["ships"] /\ "ships" \in Writers /\ "ships" \notin knowing
    BY <1>4 DEF Writers, Loops, Sections
  <2>2. /\ m["ships"].pc = w["ships"].pc /\ m["ships"].map = w["ships"].map
        /\ w["ships"].missed \subseteq m["ships"].missed
        /\ w["ships"].pc = "idle" \/ p \in m["ships"].missed
    BY <1>3, <2>1
  <2>3. BuiltAgrees(w["ships"], last, lost)
    BY DEF OverlapInv
  <2>4. w["ships"].pc = "store" => \A q \in Ships \ (lost' \cup m["ships"].missed) :
          q # p /\ q \notin lost \cup w["ships"].missed
    BY <1>2, <2>2
  <2>5. w["ships"].pc = "store" => \A q \in Ships \ (lost' \cup m["ships"].missed) :
          w["ships"].map[q].trans = last'[q]
    BY <1>6, <2>3, <2>4 DEF BuiltAgrees
  <2> HIDE DEF m, r, knowing
  <2> QED
    BY <2>1, <2>2, <2>3, <2>5 DEF BuiltAgrees
<1> QED
  BY <1>10, <1>11, <1>12, InvParts

\* A step that only moves a writer which holds no copy, or takes a fresh one.
LEMMA MoveAgrees ==
    ASSUME OverlapInv, TypeOK', NEW x \in {"ships", "delete"}, NEW rec,
           w' = [w EXCEPT ![x] = rec], UNCHANGED <<broadcastState, heap, last, lost>>,
           rec.copy = {} \/ (rec.copy = {broadcastState} /\ rec.missed = {}),
           x = "ships" => BuiltAgrees(rec, last, lost)
    PROVE  OverlapInv'
<1>1. x \in Writers /\ x \notin Sections /\ w \in [Writers -> Writer] /\ "ships" \in Writers
      /\ Sections \subseteq Writers
  BY TypeParts DEF OverlapInv, Writers, Sections
<1>2. w'[x] = rec /\ \A y \in Writers : y # x => w'[y] = w[y]
  BY <1>1
<1>3. \A t \in Sections : w'[t] = w[t]
  BY <1>1, <1>2
<1>4. ASSUME NEW s, NEW out, Agrees(s, heap, w, last, out)
      PROVE  Agrees(s, heap', w', last', out)
  BY <1>3, <1>4 DEF Agrees
<1>5. Agrees(broadcastState', heap', w', last', lost')
  BY <1>4 DEF OverlapInv
<1>6. ASSUME NEW y \in Writers, NEW copy \in w'[y].copy
      PROVE  Agrees(copy, heap', w', last', lost' \cup w'[y].missed)
  <2>1. CASE y = x
    <3>1. copy = broadcastState' /\ lost' \cup w'[y].missed = lost'
      BY <1>2, <1>6, <2>1
    <3> QED
      BY <1>5, <3>1
  <2>2. CASE y # x
    <3>1. w'[y] = w[y]
      BY <1>2, <2>2
    <3>2. Agrees(copy, heap, w, last, lost \cup w[y].missed)
      BY <1>6, <3>1 DEF OverlapInv, CopyAgrees
    <3> QED
      BY <1>4, <3>1, <3>2
  <2> QED
    BY <2>1, <2>2
<1>7. BuiltAgrees(w'["ships"], last', lost')
  <2>1. CASE x = "ships"
    BY <1>2, <2>1
  <2>2. CASE x # "ships"
    BY <1>1, <1>2, <2>2 DEF OverlapInv
  <2> QED
    BY <2>1, <2>2
<1> QED
  BY <1>5, <1>6, <1>7, InvParts

\* A new map replaces that of a state: the copies keep theirs.
LEMMA NewMapAgrees ==
    ASSUME OverlapInv, TypeOK', MapFree, NEW x \in {"ships", "delete"}, NEW s \in State,
           NEW map \in ShipMap, NEW out, Agrees(s, heap, w, last, out),
           UpdateBroadcast(x, [s EXCEPT !.urbits = NewMap], w, [heap EXCEPT ![NewMap] = map]),
           UNCHANGED last, lost \subseteq lost', out \cap Sections \subseteq lost',
           \A p \in Ships \ lost' : map[p].trans = last[p]
    PROVE  OverlapInv'
<1> DEFINE state == [s EXCEPT !.urbits = NewMap]
           maps == [heap EXCEPT ![NewMap] = map]
<1>1. /\ x \in Writers /\ x \notin Sections /\ w \in [Writers -> Writer]
      /\ Sections \subseteq Writers /\ heap \in [Refs -> ShipMap]
  BY TypeParts DEF OverlapInv, Writers, Sections
<1>2. w' = [w EXCEPT ![x] = Idle]
  BY DEF UpdateBroadcast
<1>3. \A t \in Sections : w'[t] = w[t]
  BY <1>1, <1>2
<1>4. NewMap \in Refs /\ NewMap \notin InUse(broadcastState, w)
  BY NewMapFree
<1>5. /\ state \in State /\ state.urbits = NewMap /\ \A t \in Sections : state[t] = s[t]
  BY <1>4 DEF State, Sections
<1>6. maps \in [Refs -> ShipMap] /\ maps[NewMap] = map
      /\ \A r \in Refs : r # NewMap => maps[r] = heap[r]
  BY <1>1, <1>4
<1>7. Agrees(state, maps, w', last, lost')
  <2>1. \A t \in Sections \ lost' : w'[t].pc = "store" \/ state[t] = last[t]
    BY <1>3, <1>5 DEF Agrees
  <2>2. \A p \in Ships \ lost' : maps[state.urbits][p].trans = last[p]
    BY <1>5, <1>6
  <2> HIDE DEF state, maps
  <2> QED
    BY <2>1, <2>2 DEF Agrees
<1>8. ASSUME NEW y \in Writers \ {x}, NEW copy \in w[y].copy
      PROVE  Agrees(copy, maps, w', last, lost' \cup w[y].missed)
  <2>1. copy \in State /\ copy.urbits \in Refs
    BY <1>8, CopiesTyped DEF OverlapInv, State
  <2>2. copy.urbits # NewMap
    BY <1>4, <1>8 DEF InUse
  <2>3. Agrees(copy, heap, w, last, lost \cup w[y].missed)
    BY <1>8 DEF OverlapInv, CopyAgrees
  <2>4. maps[copy.urbits] = heap[copy.urbits]
    BY <1>6, <2>1, <2>2
  <2>5. lost \cup w[y].missed \subseteq lost' \cup w[y].missed
    OBVIOUS
  <2> HIDE DEF maps
  <2> QED
    BY <1>3, <2>3, <2>4, <2>5, AgreesKept
<1>9. x = "ships" \/ BuiltAgrees(w["ships"], last, lost')
  BY DEF OverlapInv, BuiltAgrees
<1>10. UpdateBroadcast(x, state, w, maps)
  OBVIOUS
<1> HIDE DEF state, maps
<1> QED
  BY <1>1, <1>5, <1>6, <1>7, <1>8, <1>9, <1>10, CopiesTyped, UpdateAgrees DEF OverlapInv

LEMMA ShipsAgrees ==
    ASSUME OverlapInv, TypeOK', ShipsLoop
    PROVE  OverlapInv'
<1>1. "ships" \in Writers \ {"delete"} /\ w \in [Writers -> Writer] /\ broadcastState \in State
  BY TypeParts DEF OverlapInv, Writers
<1>2. CASE RefreshShips
  <2> DEFINE rec == [Idle EXCEPT !.pc = "built", !.map = ConstructPierInfo]
  <2>1. rec.pc = "built" /\ rec.copy = {} /\ rec.map = ConstructPierInfo
    BY DEF Idle
  <2>2. \A p \in Ships : ~ConstructPierInfo[p].trans
    BY DEF ConstructPierInfo, Absent
  <2>3. w' = [w EXCEPT !["ships"] = rec] /\ UNCHANGED <<broadcastState, heap, last, lost>>
    BY <1>2 DEF RefreshShips
  <2>4. BuiltAgrees(rec, last, lost)
    BY <2>1, <2>2 DEF BuiltAgrees
  <2> HIDE DEF rec
  <2> QED
    BY <2>1, <2>3, <2>4, MoveAgrees
<1>3. CASE CopyShips
  <2> DEFINE old == heap[broadcastState.urbits]
             map == PreserveUrbitsTransitions(old, w["ships"].map)
             rec == [Holding(broadcastState) EXCEPT !.map = map]
  <2>1. rec.pc = "store" /\ rec.copy = {broadcastState} /\ rec.missed = {} /\ rec.map = map
    <3> HIDE DEF map
    <3> QED
      BY <1>1, HoldingTyped DEF Writer
  <2>2. w' = [w EXCEPT !["ships"] = rec] /\ UNCHANGED <<broadcastState, heap, last, lost>>
    BY <1>3 DEF CopyShips
  <2>3. \A p \in Ships \ lost : map[p].trans = last[p]
    <3>1. \A p \in Ships : ~w["ships"].map[p].trans
      BY <1>3 DEF OverlapInv, BuiltAgrees, CopyShips
    <3>2. old \in ShipMap /\ Placed(old)
      BY <1>1, TypeParts DEF OverlapInv, State
    <3>3. w["ships"].map \in ShipMap /\ Placed(w["ships"].map)
      BY <1>1, TypeParts DEF OverlapInv, Fitting, Writer
    <3>4. \A p \in Ships : map[p].trans = old[p].trans
      BY <3>1, <3>2, <3>3, PreservedTyped
    <3>5. \A p \in Ships \ lost : old[p].trans = last[p]
      BY DEF OverlapInv, Agrees
    <3> QED
      BY <3>4, <3>5
  <2>4. BuiltAgrees(rec, last, lost)
    <3> HIDE DEF map, rec
    <3> QED
      BY <2>1, <2>3 DEF BuiltAgrees
  <2> HIDE DEF map, rec
  <2> QED
    BY <2>1, <2>2, <2>4, MoveAgrees
<1>4. CASE StoreShips
  <2> DEFINE out == lost \cup w["ships"].missed
  <2>1. Copy("ships") \in State /\ Agrees(Copy("ships"), heap, w, last, out)
    BY <1>1, <1>4, CopyFresh DEF StoreShips
  <2>2. w["ships"].map \in ShipMap
    BY <1>1 DEF Writer
  <2>3. /\ UpdateBroadcast("ships", [Copy("ships") EXCEPT !.urbits = NewMap], w,
                           [heap EXCEPT ![NewMap] = w["ships"].map])
        /\ MapFree /\ lost' = out /\ UNCHANGED last
    BY <1>4 DEF StoreShips
  <2>4. \A p \in Ships \ out : w["ships"].map[p].trans = last[p]
    BY <1>4 DEF OverlapInv, BuiltAgrees, StoreShips
  <2>5. lost \subseteq lost' /\ out \cap Sections \subseteq lost'
    BY <2>3
  <2> HIDE DEF out
  <2> QED
    BY <2>1, <2>2, <2>3, <2>4, <2>5, NewMapAgrees
<1> QED
  BY <1>2, <1>3, <1>4 DEF ShipsLoop

LEMMA DeletionAgrees ==
    ASSUME OverlapInv, TypeOK',
           \/ \E p \in Ships : CreateShip(p) \/ DeleteShip(p)
           \/ BuildReload
           \/ ReloadUrbits
    PROVE  OverlapInv'
<1>1. "delete" \in Writers /\ w \in [Writers -> Writer] /\ broadcastState \in State
  BY TypeParts DEF OverlapInv, Writers
<1>2. ASSUME NEW p \in Ships, CreateShip(p)
      PROVE  OverlapInv'
  BY <1>2 DEF CreateShip, OverlapInv, CopyAgrees
<1>3. ASSUME NEW p \in Ships, DeleteShip(p)
      PROVE  OverlapInv'
  <2> DEFINE rec == [w["delete"] EXCEPT !.pc = "deleted"]
  <2>1. w' = [w EXCEPT !["delete"] = rec] /\ UNCHANGED <<broadcastState, heap, last, lost>>
    BY <1>3 DEF DeleteShip
  <2>2. rec.copy = {}
    <3>1. rec.copy = w["delete"].copy
      BY <1>1 DEF Writer
    <3>2. Fitting("delete", w["delete"])
      BY <1>1, TypeParts DEF OverlapInv
    <3> QED
      BY <3>1, <3>2 DEF Fitting
  <2> HIDE DEF rec
  <2> QED
    BY <2>1, <2>2, MoveAgrees
<1>4. CASE BuildReload
  <2> DEFINE rec == [Idle EXCEPT !.pc = "store", !.map = ConstructPierInfo]
  <2>1. w' = [w EXCEPT !["delete"] = rec] /\ UNCHANGED <<broadcastState, heap, last, lost>>
    BY <1>4 DEF BuildReload
  <2>2. rec.copy = {}
    BY DEF Idle
  <2> HIDE DEF rec
  <2> QED
    BY <2>1, <2>2, MoveAgrees
<1>5. CASE ReloadUrbits
  <2>1. Agrees(broadcastState, heap, w, last, lost)
    BY DEF OverlapInv
  <2>2. w["delete"].map \in ShipMap
    BY <1>1 DEF Writer
  <2>3. /\ UpdateBroadcast("delete", [broadcastState EXCEPT !.urbits = NewMap], w,
                           [heap EXCEPT ![NewMap] = w["delete"].map])
        /\ MapFree /\ lost' = lost \cup Ships /\ UNCHANGED last
    BY <1>5 DEF ReloadUrbits
  <2>4. /\ lost \subseteq lost' /\ lost \cap Sections \subseteq lost'
        /\ \A p \in Ships \ lost' : w["delete"].map[p].trans = last[p]
    BY <2>3
  <2> QED
    BY <1>1, <2>1, <2>2, <2>3, <2>4, NewMapAgrees
<1> QED
  BY <1>2, <1>3, <1>4, <1>5

LEMMA OverlapInit == Init => OverlapInv
<1> SUFFICES ASSUME Init PROVE OverlapInv
  OBVIOUS
<1>1. TypeOK
  BY TypeInit
<1>2. Agrees(broadcastState, heap, w, last, lost)
  <2>1. \A t \in Sections : broadcastState[t] = FALSE /\ last[t] = FALSE
    BY DEF Init, Sections
  <2>2. ASSUME NEW p \in Ships PROVE heap[broadcastState.urbits][p].trans = last[p]
    <3>1. FirstMap \in Refs /\ broadcastState.urbits = FirstMap
      BY RefsAssumption DEF FirstMap, Init
    <3>2. heap[broadcastState.urbits] = ConstructPierInfo
      BY <3>1 DEF Init
    <3>3. ConstructPierInfo[p].trans = FALSE
      BY DEF ConstructPierInfo, Absent
    <3>4. last[p] = FALSE
      BY DEF Init
    <3> QED
      BY <3>2, <3>3, <3>4
  <2> QED
    BY <2>1, <2>2 DEF Agrees
<1>3. \A x \in Writers : w[x] = Idle
  BY DEF Init
<1>4. Idle.copy = {} /\ Idle.pc = "idle"
  BY DEF Idle
<1>5. CopyAgrees
  BY <1>3, <1>4 DEF CopyAgrees
<1>6. BuiltAgrees(w["ships"], last, lost)
  BY <1>3, <1>4 DEF BuiltAgrees, Writers
<1> QED
  BY <1>1, <1>2, <1>5, <1>6 DEF OverlapInv

LEMMA OverlapNext == OverlapInv /\ [Next]_vars => OverlapInv'
<1> SUFFICES ASSUME OverlapInv, [Next]_vars PROVE OverlapInv'
  OBVIOUS
<1>1. TypeOK'
  BY TypeNext DEF OverlapInv
<1>2. CASE UNCHANGED vars
  BY <1>2 DEF vars, OverlapInv, CopyAgrees, TypeOK
<1>3. ASSUME NEW x \in Loops, Refresh(x) \/ StoreRefreshed(x)
      PROVE  OverlapInv'
  <2>1. CASE Refresh(x)
    BY <1>1, <2>1, TakeAgrees DEF Refresh
  <2>2. CASE StoreRefreshed(x)
    BY <1>1, <2>2, StoreCopyAgrees DEF StoreRefreshed, PreserveTransitions
  <2> QED
    BY <1>3, <2>1, <2>2
<1>4. ASSUME NEW x \in Sections, TakeEvent(x) \/ StoreEvent(x)
      PROVE  OverlapInv'
  <2>1. CASE TakeEvent(x)
    BY <1>1, <2>1, TakeAgrees DEF TakeEvent
  <2>2. CASE StoreEvent(x)
    BY <1>1, <2>2, StoreEventAgrees
  <2> QED
    BY <1>4, <2>1, <2>2
<1>5. CASE StoreUrbitEvent
  BY <1>1, <1>5, StoreCopyAgrees DEF StoreUrbitEvent
<1> QED
  BY <1>1, <1>2, <1>3, <1>4, <1>5, UrbitEventAgrees, ShipsAgrees, DeletionAgrees DEF Next

\* What is shown of an operation is its last event, unless a writer that had
\* copied the state before the event stored its copy after it, or a deletion
\* reloaded the ships.
THEOREM LostOnlyByOverlapHolds == Spec => []LostOnlyByOverlap
<1>1. OverlapInv => LostOnlyByOverlap
  BY DEF OverlapInv, Agrees, LostOnlyByOverlap, Listed
<1> QED
  BY <1>1, OverlapInit, OverlapNext, PTL DEF Spec
=============================================================================
