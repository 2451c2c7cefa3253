----------------------------- MODULE Broadcast -----------------------------
(***************************************************************************)
(* The broadcast state that logged-in browsers are shown: broadcast/       *)
(* broadcast.go and the event handlers of rectify/ that put the progress   *)
(* of long operations ("transitions") into it.                             *)
(*                                                                         *)
(* Four loops refresh a section of the state every second, and a handler   *)
(* per event bus sets a transition.  Each of them copies the struct,       *)
(* changes its part and stores the whole struct, under two separate locks; *)
(* the map of ships in it is copied by reference and written in place.     *)
(* Written from the code.  A transition is reduced to a bit that each      *)
(* event flips; measurements are left out.                                 *)
(***************************************************************************)
EXTENDS Naturals, FiniteSets

CONSTANTS
    Ships,      \* names of ships
    Refs,       \* maps of ships that may be in use at once (bound)
    Crews       \* which writers are at work besides the loop of the ships:
                \* one of these sets (bound)

Sections == {"system", "startram", "newShip", "upload"}

Loops == {"host", "profile", "apps"}
Writers == Loops \cup Sections \cup {"ships", "urbit", "delete"}

ASSUME CrewsAssumption == Crews \subseteq SUBSET (Writers \ {"ships"})
ASSUME RefsAssumption == Refs # {}
\* No ship has the name of a section.
ASSUME TopicsAssumption == Ships \cap Sections = {}

VARIABLES
    broadcastState,  \* the transition of each section; the map of ships
    heap,            \* the maps of ships, by reference
    piers,           \* conf.Piers
    w,               \* the writers: where they are, their copy of the state
    crew,            \* the writers at work
    last,            \* history: the last event about each section and ship
    lost             \* history: whose last event was overwritten

vars == <<broadcastState, heap, piers, w, crew, last, lost>>

Entry == [listed : BOOLEAN, info : BOOLEAN, trans : BOOLEAN]
Absent == [listed |-> FALSE, info |-> FALSE, trans |-> FALSE]
NoMap == [p \in Ships |-> Absent]

\* missed: the topics that others have written since the copy was taken.
Idle == [pc |-> "idle", copy |-> {}, map |-> NoMap, missed |-> {}]
Holding(copy) == [Idle EXCEPT !.pc = "store", !.copy = {copy}]
Copy(x) == CHOOSE copy \in w[x].copy : TRUE

\* The maps that the state or a copy refers to; the others are garbage.
InUse(state, writers) ==
    {state.urbits} \cup UNION {{copy.urbits : copy \in writers[x].copy} : x \in Writers}
Collected(maps, state, writers) ==
    [r \in Refs |-> IF r \in InUse(state, writers) THEN maps[r] ELSE NoMap]

\* Everyone who holds a copy and is not of "knowing" misses a write to a topic.
Missing(writers, topic, knowing) ==
    [x \in Writers |-> IF writers[x].pc = "idle" \/ x \in knowing THEN writers[x]
                       ELSE [writers[x] EXCEPT !.missed = @ \cup {topic}]]

MayStart(x) == x \in crew /\ w[x].pc = "idle"

-----------------------------------------------------------------------------
(* UpdateBroadcast stores a copy and with it whatever the copy is behind on. *)

UpdateBroadcast(x, state, writers, maps) ==
    /\ broadcastState' = state
    /\ w' = [writers EXCEPT ![x] = Idle]
    /\ heap' = Collected(maps, state, w')

\* hostStatusLoop, profileStatusLoop, appsStatusLoop: the section is computed
\* anew, but its transition is the one of the copy (Preserve...Transitions).
Refresh(x) ==
    /\ MayStart(x)
    /\ w' = [w EXCEPT ![x] = Holding(broadcastState)]
    /\ UNCHANGED <<broadcastState, heap, piers, crew, last, lost>>

PreserveTransitions(x, state) == state

StoreRefreshed(x) ==
    /\ w[x].pc = "store"
    /\ UpdateBroadcast(x, PreserveTransitions(x, Copy(x)), w, heap)
    /\ lost' = lost \cup w[x].missed
    /\ UNCHANGED <<piers, crew, last>>

\* NewShipTransitionHandler, RectifyUrbit, SystemTransitionHandler and
\* ImportShipTransitionHandler take an event and copy the state.
TakeEvent(x) ==
    /\ MayStart(x)
    /\ w' = [w EXCEPT ![x] = Holding(broadcastState)]
    /\ last' = [last EXCEPT ![x] = ~@]
    /\ UNCHANGED <<broadcastState, heap, piers, crew, lost>>

StoreEvent(x) ==
    /\ w[x].pc = "store"
    /\ UpdateBroadcast(x, [Copy(x) EXCEPT ![x] = last[x]], Missing(w, x, {x}), heap)
    /\ lost' = (lost \cup w[x].missed) \ {x}
    /\ UNCHANGED <<piers, crew, last>>

-----------------------------------------------------------------------------
(* The map of ships *)

\* UrbitTransitionHandler writes the entry of a listed ship in place, so the
\* copies that share the map see it; an event of another ship is dropped.
TakeUrbitEvent(p) ==
    /\ MayStart("urbit")
    /\ heap[broadcastState.urbits][p].listed
    /\ last' = [last EXCEPT ![p] = ~@]
    /\ heap' = [heap EXCEPT ![broadcastState.urbits][p].trans = last'[p]]
    /\ w' = [Missing(w, p, {x \in Loops \cup Sections :
                                \A copy \in w[x].copy : copy.urbits = broadcastState.urbits})
             EXCEPT !["urbit"] = Holding(broadcastState)]
    /\ lost' = lost \ {p}
    /\ UNCHANGED <<broadcastState, piers, crew>>

StoreUrbitEvent ==
    /\ w["urbit"].pc = "store"
    /\ UpdateBroadcast("urbit", Copy("urbit"), w, heap)
    /\ lost' = lost \cup w["urbit"].missed
    /\ UNCHANGED <<piers, crew, last>>

\* ConstructPierInfo builds a new map from the configuration: without the
\* transitions, which are those of a map that nothing ever fills.
ConstructPierInfo ==
    [p \in Ships |-> IF p \in piers THEN [listed |-> TRUE, info |-> TRUE, trans |-> FALSE]
                     ELSE Absent]

\* Mutant: the new map starts without the transitions of the old one.
PreserveUrbitsNot(old, new) ==
    [p \in Ships |-> IF old[p].listed THEN [new[p] EXCEPT !.listed = TRUE] ELSE new[p]]

\* Every entry of the old map gets a place, filled in or not, in the new one.
PreserveUrbitsTransitions(old, new) ==
    [p \in Ships |-> IF old[p].listed
                     THEN [new[p] EXCEPT !.listed = TRUE, !.trans = old[p].trans]
                     ELSE new[p]]

RefreshShips ==
    /\ w["ships"].pc = "idle"
    /\ w' = [w EXCEPT !["ships"] = [Idle EXCEPT !.pc = "built", !.map = ConstructPierInfo]]
    /\ UNCHANGED <<broadcastState, heap, piers, crew, last, lost>>

CopyShips ==
    /\ w["ships"].pc = "built"
    /\ w' = [w EXCEPT !["ships"] =
                [Holding(broadcastState) EXCEPT
                    !.map = PreserveUrbitsTransitions(heap[broadcastState.urbits],
                                                      w["ships"].map)]]
    /\ UNCHANGED <<broadcastState, heap, piers, crew, last, lost>>

\* Bound: as long as a map is left.
MapFree == \E r \in Refs : r \notin InUse(broadcastState, w)
NewMap == CHOOSE r \in Refs : r \notin InUse(broadcastState, w)

\* Mutant: the loop stores its copy without the map it has built.
StoreShipsAsCopied ==
    /\ w["ships"].pc = "store"
    /\ UpdateBroadcast("ships", Copy("ships"), w, heap)
    /\ lost' = lost \cup w["ships"].missed
    /\ UNCHANGED <<piers, crew, last>>

StoreShips ==
    /\ w["ships"].pc = "store" /\ MapFree
    /\ UpdateBroadcast("ships", [Copy("ships") EXCEPT !.urbits = NewMap], w,
                       [heap EXCEPT ![NewMap] = w["ships"].map])
    /\ lost' = lost \cup w["ships"].missed
    /\ UNCHANGED <<piers, crew, last>>

\* The creation of a ship ends with its entry in the list.
CreateShip(p) ==
    /\ p \notin piers
    /\ piers' = piers \cup {p}
    /\ UNCHANGED <<broadcastState, heap, w, crew, last, lost>>

\* The deletion takes it off the list, and then builds a map and stores it
\* (ReloadUrbits): of the transitions of the other ships, too, nothing is left.
DeleteShip(p) ==
    /\ p \in piers /\ MayStart("delete")
    /\ piers' = piers \ {p}
    /\ w' = [w EXCEPT !["delete"].pc = "deleted"]
    /\ UNCHANGED <<broadcastState, heap, crew, last, lost>>

BuildReload ==
    /\ w["delete"].pc = "deleted"
    /\ w' = [w EXCEPT !["delete"] = [Idle EXCEPT !.pc = "store", !.map = ConstructPierInfo]]
    /\ UNCHANGED <<broadcastState, heap, piers, crew, last, lost>>

ReloadUrbits ==
    /\ w["delete"].pc = "store" /\ MapFree
    /\ UpdateBroadcast("delete", [broadcastState EXCEPT !.urbits = NewMap], w,
                       [heap EXCEPT ![NewMap] = w["delete"].map])
    /\ lost' = lost \cup Ships
    /\ UNCHANGED <<piers, crew, last>>

-----------------------------------------------------------------------------
FirstMap == CHOOSE r \in Refs : TRUE

\* bootstrapBroadcastState: the ships of the configuration, no transitions.
Init ==
    /\ piers \in SUBSET Ships
    /\ broadcastState = [t \in Sections \cup {"urbits"} |->
                            IF t = "urbits" THEN FirstMap ELSE FALSE]
    /\ heap = [r \in Refs |-> IF r = FirstMap THEN ConstructPierInfo ELSE NoMap]
    /\ w = [x \in Writers |-> Idle]
    /\ last = [t \in Sections \cup Ships |-> FALSE]
    /\ lost = {}
    /\ crew \in Crews

ShipsLoop == RefreshShips \/ CopyShips \/ StoreShips

Next ==
    \/ \E x \in Loops : Refresh(x) \/ StoreRefreshed(x)
    \/ \E x \in Sections : TakeEvent(x) \/ StoreEvent(x)
    \/ \E p \in Ships : TakeUrbitEvent(p) \/ CreateShip(p) \/ DeleteShip(p)
    \/ StoreUrbitEvent
    \/ ShipsLoop
    \/ BuildReload \/ ReloadUrbits

Spec == Init /\ [][Next]_vars

\* The loop of the ships goes on: its ticker fires every second.
FairSpec == Spec /\ WF_vars(ShipsLoop)

-----------------------------------------------------------------------------
(* Properties *)

Listed == heap[broadcastState.urbits]

State == {s \in [Sections \cup {"urbits"} -> BOOLEAN \cup Refs] :
            s["urbits"] \in Refs /\ \A t \in Sections : s[t] \in BOOLEAN}
ShipMap == [Ships -> Entry]
Writer == [pc : {"idle", "built", "deleted", "store"}, copy : SUBSET State, map : ShipMap,
           missed : SUBSET (Sections \cup Ships)]

\* The variables keep their types: a writer that stores has one copy, but for
\* the deletion, and nothing is known of a ship that has no place in a map.
TypeOK ==
    /\ broadcastState \in State
    /\ heap \in [Refs -> ShipMap]
    /\ \A r \in Refs, p \in Ships : heap[r][p].listed \/ heap[r][p] = Absent
    /\ piers \subseteq Ships
    /\ w \in [Writers -> Writer]
    /\ \A x \in Writers : \E copy \in State :
           w[x].copy = IF w[x].pc = "store" /\ x # "delete" THEN {copy} ELSE {}
    /\ \A x \in Writers, p \in Ships : w[x].map[p].listed \/ w[x].map[p] = Absent
    /\ crew \in Crews
    /\ last \in [Sections \cup Ships -> BOOLEAN]
    /\ lost \subseteq Sections \cup Ships

\* What is shown of an operation is its last event, unless a writer that had
\* copied the state before that event stored its copy after it, or a deletion
\* reloaded the ships: the refreshes by themselves drop nothing.
LostOnlyByOverlap ==
    /\ \A t \in Sections \ lost : w[t].pc = "store" \/ broadcastState[t] = last[t]
    /\ \A p \in Ships \ lost : Listed[p].listed => Listed[p].trans = last[p]

\* A ship that is created is shown with its details, or deleted before.
ShipsShown == \A p \in Ships : p \in piers ~> Listed[p].info \/ p \notin piers
=============================================================================
