--------------------------- MODULE ExportsProofs ---------------------------
(***************************************************************************)
(* Theorems about PackSchedule and Exports, for any calendar, schedules,   *)
(* timers, browsers and budgets: the variables keep their types, what the  *)
(* user set outlives the packs, an archive is made of a ship at rest, an   *)
(* export that is over leaves nothing behind, and a schedule packs in time *)
(* and not twice a day.                                                    *)
(***************************************************************************)
EXTENDS Exports, FiniteSetTheorems, SequenceTheorems, WellFoundedInduction, TLAPS

-----------------------------------------------------------------------------
(* The calendar and the timers *)

\* The next pack of any configuration is a moment.
LEMMA NextPackTyped ==
    ASSUME now \in Nat, NEW c \in Conf
    PROVE  NextPack(c) \in Int
<1>1. Day \in Nat \ {0} /\ Week \in Nat \ {0} /\ Month \in Nat \ {0}
  BY CalendarAssumption
<1> DEFINE s == c.schedule
<1>2. c.last \in Nat /\ s.freq \in Nat /\ s.day \in Nat /\ s.date \in Nat /\ s.at \in Nat
      /\ s.type \in Units
  BY <1>1 DEF Conf, Schedule
<1>3. DayOf(c.last) \in Int
  BY <1>1, <1>2 DEF DayOf
<1>4. DayOf(c.last) \div Month \in Int
  BY <1>1, <1>3
<1>5. (s.day - DayOf(c.last)) % Week \in Int
  BY <1>1, <1>2, <1>3
<1>6. setDaySchedule(c.last, s) \in Int
  BY <1>1, <1>2, <1>3 DEF setDaySchedule
<1>7. setWeekSchedule(c.last, s) \in Int
  BY <1>1, <1>2, <1>3, <1>5 DEF setWeekSchedule
<1>8. setMonthSchedule(c.last, s) \in Int
  BY <1>1, <1>2, <1>4 DEF setMonthSchedule
<1> QED
  BY <1>2, <1>6, <1>7, <1>8 DEF NextPack, Units

\* The slot that is taken is a free one.
LEMMA LeastTimer ==
    ASSUME Active # Timers
    PROVE  \E t \in Timers \ Active : \A u \in Timers \ Active : t <= u
<1> DEFINE F == Timers \ Active
<1>1. F # {} /\ F \subseteq Nat
  BY TimersAssumption DEF Active
<1> HIDE DEF F
<1>2. PICK t \in F : \A u \in F : ~(<<u, t>> \in OpToRel(<, Nat))
  BY <1>1, NatLessThanWellFounded, WFMin
<1>3. ASSUME NEW u \in F PROVE t <= u
  <2>1. u \in Nat /\ t \in Nat
    BY <1>1
  <2>2. <<u, t>> \in Nat \X Nat /\ <<u, t>>[1] = u /\ <<u, t>>[2] = t
    BY <2>1
  <2>3. ~(<<u, t>>[1] < <<u, t>>[2])
    BY <1>2, <2>2 DEF OpToRel
  <2> QED
    BY <2>1, <2>2, <2>3
<1> QED
  BY <1>3 DEF F

LEMMA SpendTyped ==
    ASSUME left \in Budget, Spend("time") \/ Spend("edits") \/ Spend("power")
                            \/ Spend("exports") \/ Spend("faults") \/ Spend("restarts")
    PROVE  left' \in Budget
BY DEF Spend, Budget

LEMMA IdleTyped == now \in Nat => Idle \in Slot
BY CalendarAssumption, BoundsAssumption DEF Idle, NewConf, Slot, Conf, Schedule, Units, Boots

\* Starting a timer takes one slot, with a copy of the configuration.
LEMMA StartTimerTyped ==
    ASSUME PackTypeOK, NEW due \in 0..(now + 2), NEW asked \in BOOLEAN,
           StartTimer(due, asked)
    PROVE  /\ timer' \in [Timers -> Slot]
           /\ h' \in History
           /\ \E t \in Timers : 
                /\ t \notin Active
                /\ timer' = [timer EXCEPT ![t] = [pc |-> "sleep", due |-> due, spent |-> 0,
                                                  copy |-> conf]]
<1>1. PICK t \in Timers \ Active :
        timer' = [timer EXCEPT ![t] = [pc |-> "sleep", due |-> due, spent |-> 0,
                                       copy |-> conf]]
  BY LeastTimer DEF StartTimer
<1>2. [pc |-> "sleep", due |-> due, spent |-> 0, copy |-> conf] \in Slot
  BY BoundsAssumption DEF PackTypeOK, Slot
<1>3. h' \in History
  BY DEF StartTimer, PackTypeOK, History
<1> QED
  BY <1>1, <1>2, <1>3 DEF PackTypeOK
-----------------------------------------------------------------------------
(* The types of PackSchedule *)

LEMMA SameMoment == UNCHANGED now => Conf' = Conf /\ Slot' = Slot /\ History' = History
BY DEF Conf, Slot, History

LEMMA SetTyped ==
    ASSUME NEW c \in Conf, Set(c)
    PROVE  conf' \in Conf /\ want' \in [on : BOOLEAN, schedule : Schedule, boot : Boots]
BY DEF Set, Settings, Conf

LEMMA TakeDownTyped ==
    ASSUME ship \in Ship, TakeDown
    PROVE  ship' \in Ship
<1>1. ship' \in {[ship EXCEPT !.run = "exit"], [run |-> "down", left |-> 0], ship}
  BY DEF TakeDown
<1> QED
  BY <1>1, BoundsAssumption DEF Ship

LEMMA UserTyped ==
    ASSUME PackTypeOK, SchedulePack \/ PausePackSchedule \/ TogglePower \/ Pack
    PROVE  PackTypeOK'
<1>1. UNCHANGED <<now, scheduledPacks>> /\ left' \in Budget
  BY SpendTyped DEF SchedulePack, PausePackSchedule, TogglePower, Pack, StartTimer, PackTypeOK
<1>2. CASE SchedulePack
  <2>1. \A s \in Schedules : [conf EXCEPT !.on = TRUE, !.schedule = s] \in Conf
    BY SchedulesAssumption DEF PackTypeOK, Conf
  <2>2. conf' \in Conf /\ want' \in [on : BOOLEAN, schedule : Schedule, boot : Boots]
    BY <1>2, <2>1, SetTyped DEF SchedulePack
  <2>3. loop' \in Loop
    BY <1>2 DEF SchedulePack, PackTypeOK, Loop
  <2>4. Raced \in BOOLEAN /\ now \in 0..now
    BY DEF Raced, PackTypeOK, History
  <2>5. h' \in History
    BY <1>2, <2>4 DEF SchedulePack, PackTypeOK, History
  <2> QED
    BY <1>1, <1>2, <2>2, <2>3, <2>5, SameMoment DEF SchedulePack, PackTypeOK
<1>3. CASE PausePackSchedule
  <2>1. [conf EXCEPT !.on = FALSE] \in Conf /\ h' \in History
    BY <1>3 DEF PausePackSchedule, PackTypeOK, Conf, History, Raced
  <2> QED
    BY <1>1, <1>3, <2>1, SetTyped, SameMoment DEF PausePackSchedule, PackTypeOK
<1>4. CASE TogglePower
  <2>1. \A boot \in {"boot", "noboot"} : [conf EXCEPT !.boot = boot] \in Conf
    BY DEF PackTypeOK, Conf, Boots
  <2>2. conf' \in Conf /\ want' \in [on : BOOLEAN, schedule : Schedule, boot : Boots]
    BY <1>4, <2>1, SetTyped DEF TogglePower
  <2>3. ship' \in Ship
    <3>1. [ship EXCEPT !.run = "up"] \in Ship
      BY DEF PackTypeOK, Ship
    <3> QED
      BY <1>4, <3>1, TakeDownTyped DEF TogglePower, PackTypeOK
  <2>4. h' \in History
    BY <1>4 DEF TogglePower, PackTypeOK, History, Raced
  <2> QED
    BY <1>1, <1>4, <2>2, <2>3, <2>4, SameMoment DEF TogglePower, PackTypeOK
<1>5. CASE Pack
  <2>1. now \in 0..(now + 2)
    BY DEF PackTypeOK
  <2>2. timer' \in [Timers -> Slot] /\ h' \in History
    BY <1>5, <2>1, StartTimerTyped DEF Pack
  <2> QED
    BY <1>1, <1>5, <2>2, SameMoment DEF Pack, PackTypeOK
<1> QED
  BY <1>2, <1>3, <1>4, <1>5

\* The loop starts a timer only when no more than a minute is left.
LEMMA queuePackTyped ==
    ASSUME PackTypeOK, queuePack
    PROVE  /\ scheduledPacks' \in Int
           /\ timer' \in [Timers -> Slot] /\ h' \in History
           /\ \/ UNCHANGED <<timer, h>>
              \/ \E due \in 0..(now + 2) : StartTimer(due, FALSE)
<1>1. NextPack(conf) \in Int
  BY NextPackTyped DEF PackTypeOK
<1>2. CASE UNCHANGED <<timer, h>>
  BY <1>1, <1>2 DEF queuePack, PackTypeOK
<1>3. CASE Due(NextPack(conf)) /\ StartTimer(Latest(NextPack(conf), now), FALSE)
  <2>1. Latest(NextPack(conf), now) \in 0..(now + 2)
    BY <1>1, <1>3 DEF Due, Latest, PackTypeOK
  <2> QED
    BY <1>1, <1>3, <2>1, StartTimerTyped DEF queuePack, PackTypeOK
<1> QED
  BY <1>2, <1>3 DEF queuePack

LEMMA QueueTyped ==
    ASSUME PackTypeOK, QueueOnBus \/ QueueOnTick
    PROVE  PackTypeOK'
<1>1. queuePack /\ UNCHANGED <<now, conf, ship, want, left>>
  BY DEF QueueOnBus, QueueOnTick, queuePack
<1>2. loop' \in Loop
  BY DEF QueueOnBus, QueueOnTick, PackTypeOK, Loop
<1> QED
  BY <1>1, <1>2, queuePackTyped, SameMoment DEF PackTypeOK

LEMMA FreeTyped ==
    ASSUME PackTypeOK, NEW t \in Timers, Free(t)
    PROVE  timer' \in [Timers -> Slot]
BY IdleTyped DEF Free, PackTypeOK

LEMMA WakeTyped ==
    ASSUME PackTypeOK, NEW t \in Timers, Wake(t)
    PROVE  PackTypeOK'
<1>1. timer[t] \in Slot /\ h \in History
  BY DEF PackTypeOK
<1>2. \A pc \in {"start", "send"} : [timer[t] EXCEPT !.pc = pc] \in Slot
  BY <1>1 DEF Slot
<1>3. timer' \in [Timers -> Slot]
  <2>1. \E pc \in {"start", "send"} : timer' = [timer EXCEPT ![t] = [timer[t] EXCEPT !.pc = pc]]
    BY DEF Wake, PackTypeOK
  <2> QED
    BY <1>2, <2>1 DEF PackTypeOK
<1>4. conf' \in Conf
  <2>1. [timer[t].copy EXCEPT !.boot = "pack"] \in Conf
    BY <1>1 DEF Slot, Conf, Boots
  <2> QED
    BY <2>1 DEF Wake, PackTypeOK
<1>5. h' \in History
  BY <1>1 DEF Wake, History
<1> QED
  BY <1>3, <1>4, <1>5, SameMoment DEF Wake, PackTypeOK

\* What a timer stores was not packed later than now.
LEMMA StoredTyped ==
    ASSUME PackTypeOK, NEW t \in Timers
    PROVE  /\ Stored(timer[t].copy) \in Conf
           /\ Stored([timer[t].copy EXCEPT !.boot = "pack"]) \in Conf
<1>1. timer[t].copy \in Conf /\ now \in 0..now
  BY DEF PackTypeOK, Slot
<1> QED
  BY <1>1 DEF Conf, Boots, Stored

LEMMA PackedTyped == PackTypeOK => Packed \in History
<1>1. ASSUME PackTypeOK PROVE h \in History /\ now \in 0..now /\ 0 \in Nat
  BY <1>1 DEF PackTypeOK
<1>2. (Cardinality(Active) > 1) \in BOOLEAN
  OBVIOUS
<1> QED
  BY <1>1, <1>2 DEF History, Packed

LEMMA FailsTyped ==
    ASSUME PackTypeOK, NEW t \in Timers,
           WakeFails(t) \/ SendFails(t) \/ StartFails(t) \/ StoreFails(t)
    PROVE  PackTypeOK'
<1>1. timer' \in [Timers -> Slot]
  BY FreeTyped DEF WakeFails, SendFails, StartFails, StoreFails, PackError
<1>2. left' \in Budget
  BY SpendTyped DEF WakeFails, SendFails, StartFails, StoreFails, PackTypeOK
<1>3. h' \in History
  <2>1. [h EXCEPT !.excused = TRUE, !.failed = @ + 1] \in History
    <3>1. h \in History /\ h.failed + 1 \in Nat
      BY DEF PackTypeOK, History
    <3> QED
      BY <3>1 DEF History
  <2>2. [Packed EXCEPT !.excused = TRUE] \in History
    BY PackedTyped DEF History
  <2> QED
    BY <2>1, <2>2 DEF WakeFails, SendFails, StartFails, StoreFails, PackError
<1>4. conf' \in Conf
  <2>1. [conf EXCEPT !.boot = IF @ = "pack" THEN "noboot" ELSE @] \in Conf /\ conf \in Conf
    BY DEF PackTypeOK, Conf, Boots
  <2> QED
    BY <2>1 DEF WakeFails, SendFails, StartFails, StoreFails
<1>5. UNCHANGED <<now, ship, loop, scheduledPacks, want>>
  BY DEF WakeFails, SendFails, StartFails, StoreFails, PackError
<1> QED
  BY <1>1, <1>2, <1>3, <1>4, <1>5, SameMoment DEF PackTypeOK

LEMMA PackingTyped ==
    ASSUME PackTypeOK, NEW t \in Timers, SendPack(t) \/ StartVere(t)
    PROVE  PackTypeOK'
<1>1. timer' \in [Timers -> Slot] /\ conf' \in Conf /\ h' \in History
  <2>1. [h EXCEPT !.recorded = now] \in History /\ h \in History
    BY DEF PackTypeOK, History
  <2>2. timer' \in [Timers -> Slot] /\ conf' \in Conf
    BY FreeTyped, StoredTyped DEF SendPack, StartVere, PackTypeOK
  <2>3. h' \in History
    BY <2>1, PackedTyped DEF SendPack, StartVere
  <2> QED
    BY <2>2, <2>3
<1>2. ship' \in Ship
  <2>1. [run |-> "pack", left |-> MaxPack] \in Ship /\ [ship EXCEPT !.run = "up"] \in Ship
    BY BoundsAssumption DEF PackTypeOK, Ship
  <2> QED
    BY <2>1 DEF SendPack, StartVere, PackTypeOK
<1> QED
  BY <1>1, <1>2, SameMoment DEF SendPack, StartVere, PackTypeOK

LEMMA TickTyped ==
    ASSUME PackTypeOK, Tick
    PROVE  PackTypeOK'
<1>1. now \in Nat /\ now' = now + 1 /\ now' \in Nat
  BY DEF Tick, PackTypeOK
<1>2. 0..now \subseteq 0..now' /\ 0..(now + 2) \subseteq 0..(now' + 2)
  BY <1>1
<1>3. Conf \subseteq Conf' /\ History \subseteq History'
  BY <1>2 DEF Conf, History
<1>4. timer' \in [Timers -> Slot']
  <2>1. Slot \subseteq Slot'
    BY <1>2, <1>3 DEF Slot
  <2>2. ASSUME NEW t \in Timers, timer[t].pc \in {"send", "start"}
        PROVE  [timer[t] EXCEPT !.spent = @ + 1] \in Slot
    <3>1. timer[t] \in Slot /\ timer[t].spent < MaxPack
      BY <2>2 DEF Tick, PackTypeOK
    <3>2. timer[t].spent + 1 \in 0..MaxPack
      BY <3>1, BoundsAssumption DEF Slot
    <3> QED
      BY <3>1, <3>2 DEF Slot
  <2> QED
    BY <2>1, <2>2 DEF Tick, PackTypeOK
<1>5. ship' \in Ship
  BY BoundsAssumption DEF Tick, PackTypeOK, Ship
<1>6. loop' \in Loop
  BY DEF Tick, PackTypeOK, Loop
<1>7. left' \in Budget
  BY SpendTyped DEF Tick, PackTypeOK
<1> QED
  BY <1>1, <1>3, <1>4, <1>5, <1>6, <1>7 DEF Tick, PackTypeOK

LEMMA SurroundingsTyped ==
    ASSUME PackTypeOK, ShipGoesDown \/ Restart \/ LoadUrbits
    PROVE  PackTypeOK'
<1>1. CASE ShipGoesDown
  BY <1>1, SameMoment, BoundsAssumption DEF ShipGoesDown, PackTypeOK, Ship
<1>2. CASE Restart
  <2>1. timer' \in [Timers -> Slot] /\ scheduledPacks' \in Int
    BY <1>2, IdleTyped DEF Restart, PackTypeOK
  <2>2. loop' \in Loop /\ left' \in Budget
    BY <1>2, SpendTyped DEF Restart, PackTypeOK, Loop
  <2>3. h' \in History
    <3>1. h \in History /\ (h.excused \/ Active # {}) \in BOOLEAN
          /\ (IF Active = {} THEN h.failed ELSE h.failed + 1) \in Nat
      BY DEF PackTypeOK, History
    <3>2. ASSUME NEW e \in BOOLEAN, NEW n \in Nat
          PROVE  [h EXCEPT !.excused = e, !.failed = n] \in History
      BY <3>1 DEF History
    <3>3. h' = [h EXCEPT !.excused = h.excused \/ Active # {},
                         !.failed = IF Active = {} THEN h.failed ELSE h.failed + 1]
      BY <1>2 DEF Restart
    <3> QED
      BY <3>1, <3>2, <3>3, Zenon
  <2> QED
    BY <1>2, <2>1, <2>2, <2>3, SameMoment DEF Restart, PackTypeOK
<1>3. CASE LoadUrbits
  <2>1. loop' \in Loop
    BY <1>3 DEF LoadUrbits, PackTypeOK, Loop
  <2>2. conf' \in Conf
    BY <1>3 DEF LoadUrbits, PackTypeOK, Conf, Boots
  <2>3. ship' \in Ship
    <3>1. [run |-> "pack", left |-> MaxPack] \in Ship /\ [ship EXCEPT !.run = "up"] \in Ship
      BY BoundsAssumption DEF PackTypeOK, Ship
    <3>2. conf.boot \in {"boot", "pack", "noboot"}
      BY DEF PackTypeOK, Conf, Boots
    <3> QED
      BY <1>3, <3>1, <3>2 DEF LoadUrbits, PackTypeOK
  <2> QED
    BY <1>3, <2>1, <2>2, <2>3, SameMoment DEF LoadUrbits, PackTypeOK
<1> QED
  BY <1>1, <1>2, <1>3

LEMMA PackStepTyped ==
    ASSUME PackTypeOK, [Next]_vars
    PROVE  PackTypeOK'
<1>1. CASE \E t \in Timers : TimerStep(t)
  BY <1>1, WakeTyped, FailsTyped, PackingTyped DEF TimerStep
<1>2. CASE UNCHANGED vars
  BY <1>2, SameMoment DEF vars, PackTypeOK
<1> QED
  BY <1>1, <1>2, UserTyped, QueueTyped, TickTyped, SurroundingsTyped DEF Next, Step

LEMMA PackInitTyped == Init => PackTypeOK
<1> SUFFICES ASSUME Init PROVE PackTypeOK
  OBVIOUS
<1>1. now \in Nat /\ scheduledPacks \in Int
  BY CalendarAssumption DEF Init
<1>2. NewConf("boot") \in Conf /\ NewConf("noboot") \in Conf
  BY <1>1, CalendarAssumption DEF NewConf, Conf, Schedule, Units, Boots
<1>3. conf \in Conf /\ want \in [on : BOOLEAN, schedule : Schedule, boot : Boots]
  BY <1>2 DEF Init, Settings, Conf
<1>4. ship \in Ship /\ loop \in Loop
  BY BoundsAssumption DEF Init, Ship, Loop
<1>5. timer \in [Timers -> Slot]
  BY <1>1, IdleTyped DEF Init
<1>6. h \in History
  BY <1>1 DEF Init, History
<1> QED
  BY <1>1, <1>3, <1>4, <1>5, <1>6, BudgetsAssumption DEF Init, PackTypeOK
-----------------------------------------------------------------------------
(* What the user sets stays *)

\* What EditsKept needs to be inductive: while the user raced no timer, the
\* copies of the timers at work say what the configuration says.
Agrees(c) == /\ c.on = conf.on /\ c.schedule = conf.schedule
             /\ h.offline \/ c.boot = conf.boot
EditsInv ==
    /\ \A t \in Timers : timer[t].pc = "start" => h.offline
    /\ ~h.raced => /\ conf.on = want.on /\ conf.schedule = want.schedule
                   /\ h.offline \/ (conf.boot = want.boot /\ conf.boot # "pack")
                   /\ \A t \in Timers : timer[t].pc # "idle" => Agrees(timer[t].copy)

LEMMA InitEdits == Init => EditsInv
BY DEF Init, Idle, NewConf, Settings, EditsInv

\* A setting is changed while no timer is at work, or the user raced one.
LEMMA SetEdits ==
    ASSUME EditsInv, NEW c, Set(c), UNCHANGED timer,
           h'.raced = Raced, h'.offline = h.offline,
           c.boot # "pack" \/ c.boot = conf.boot
    PROVE  EditsInv'
<1>1. conf' = c /\ want'.on = c.on /\ want'.schedule = c.schedule /\ want'.boot = c.boot
  BY DEF Set, Settings
<1>2. ASSUME ~h'.raced
      PROVE  ~h.raced /\ \A t \in Timers : timer[t].pc = "idle"
  BY <1>2 DEF Raced, Active
<1> QED
  BY <1>1, <1>2 DEF EditsInv

\* Other steps keep the settings and the copies of the timers that stay at work.
LEMMA StepEdits ==
    ASSUME EditsInv, UNCHANGED want, h'.raced = h.raced, h.offline => h'.offline,
           ~h.raced => /\ conf'.on = conf.on /\ conf'.schedule = conf.schedule
                       /\ h'.offline \/ conf'.boot = conf.boot,
           \A t \in Timers : /\ timer'[t].pc = "start" => h'.offline
                             /\ \/ timer'[t].pc = "idle"
                                \/ timer'[t].copy = conf /\ UNCHANGED conf
                                \/ timer[t].pc # "idle" /\ timer'[t].copy = timer[t].copy
    PROVE  EditsInv'
<1> SUFFICES ASSUME ~h.raced
             PROVE  /\ conf'.on = want.on /\ conf'.schedule = want.schedule
                    /\ h'.offline \/ (conf'.boot = want.boot /\ conf'.boot # "pack")
                    /\ \A t \in Timers : timer'[t].pc # "idle" => Agrees(timer[t].copy)'
  BY DEF EditsInv
<1>1. ASSUME NEW t \in Timers, timer'[t].pc # "idle"
      PROVE  Agrees(timer[t].copy)'
  <2>1. CASE timer'[t].copy = conf /\ UNCHANGED conf
    BY <2>1 DEF Agrees
  <2>2. CASE timer[t].pc # "idle" /\ timer'[t].copy = timer[t].copy
    BY <2>2 DEF EditsInv, Agrees
  <2> QED
    BY <1>1, <2>1, <2>2
<1> QED
  BY <1>1 DEF EditsInv

LEMMA StartTimerEdits ==
    ASSUME PackTypeOK, EditsInv, NEW due \in 0..(now + 2), NEW asked \in BOOLEAN,
           StartTimer(due, asked), UNCHANGED <<conf, want>>
    PROVE  EditsInv'
<1>1. PICK t \in Timers \ Active :
        timer' = [timer EXCEPT ![t] = [pc |-> "sleep", due |-> due, spent |-> 0,
                                       copy |-> conf]]
  BY StartTimerTyped
<1>2. h'.raced = h.raced /\ h'.offline = h.offline
  BY DEF StartTimer, PackTypeOK, History
<1>3. ASSUME NEW u \in Timers
      PROVE  \/ timer'[u] = timer[u]
             \/ timer'[u].pc = "sleep" /\ timer'[u].copy = conf
  BY <1>1 DEF PackTypeOK
<1> QED
  BY <1>2, <1>3, StepEdits DEF EditsInv

LEMMA LoopEdits ==
    ASSUME PackTypeOK, EditsInv, Pack \/ QueueOnBus \/ QueueOnTick
    PROVE  EditsInv'
<1>1. CASE Pack
  <2>1. now \in 0..(now + 2)
    BY DEF PackTypeOK
  <2> QED
    BY <1>1, <2>1, StartTimerEdits DEF Pack
<1>2. CASE QueueOnBus \/ QueueOnTick
  <2>1. queuePack /\ UNCHANGED <<conf, want>>
    BY <1>2 DEF QueueOnBus, QueueOnTick, queuePack
  <2>2. CASE UNCHANGED <<timer, h>>
    BY <2>1, <2>2 DEF EditsInv, Agrees
  <2>3. CASE \E due \in 0..(now + 2) : StartTimer(due, FALSE)
    BY <2>1, <2>3, StartTimerEdits
  <2> QED
    BY <2>1, <2>2, <2>3, queuePackTyped
<1> QED
  BY <1>1, <1>2

\* A timer that was at work all along stores what the configuration says.
LEMMA TimerEdits ==
    ASSUME PackTypeOK, EditsInv, NEW t \in Timers, TimerStep(t)
    PROVE  EditsInv'
<1>1. timer[t] \in Slot /\ timer[t].copy \in Conf /\ timer[t].pc # "idle" /\ h \in History
      /\ conf \in Conf
  BY DEF PackTypeOK, Slot, TimerStep, Wake, WakeFails, SendPack, SendFails, StartVere,
         StartFails, StoreFails
<1>2. UNCHANGED want
  BY DEF TimerStep, Wake, WakeFails, SendPack, SendFails, StartVere, StartFails, StoreFails,
         PackError
<1>3. h'.raced = h.raced /\ (h.offline => h'.offline)
  <2>1. Packed.raced = h.raced /\ Packed.offline = h.offline
    BY <1>1 DEF Packed, History
  <2>2. [Packed EXCEPT !.excused = TRUE].raced = h.raced
        /\ [Packed EXCEPT !.excused = TRUE].offline = h.offline
    BY <1>1 DEF Packed, History
  <2>3. [h EXCEPT !.excused = TRUE, !.failed = @ + 1].raced = h.raced
        /\ [h EXCEPT !.excused = TRUE, !.failed = @ + 1].offline = h.offline
    BY <1>1 DEF History
  <2>4. [h EXCEPT !.offline = TRUE].raced = h.raced /\ [h EXCEPT !.offline = TRUE].offline
    BY <1>1 DEF History
  <2>5. [h EXCEPT !.recorded = now].raced = h.raced
        /\ [h EXCEPT !.recorded = now].offline = h.offline
    BY <1>1 DEF History
  <2> QED
    BY <2>1, <2>2, <2>3, <2>4, <2>5 DEF TimerStep, Wake, WakeFails, SendPack, SendFails, StartVere,
       StartFails, StoreFails, PackError
<1>4. CASE Wake(t)
  <2>1. \/ /\ timer' = [timer EXCEPT ![t].pc = "start"]
           /\ conf' = [timer[t].copy EXCEPT !.boot = "pack"]
           /\ h' = [h EXCEPT !.offline = TRUE]
        \/ timer' = [timer EXCEPT ![t].pc = "send"] /\ UNCHANGED <<conf, h>>
    BY <1>4 DEF Wake
  <2>2. h'.offline \/ UNCHANGED <<conf, h>>
    BY <1>1, <2>1 DEF History
  <2>3. (conf'.on = conf.on /\ conf'.schedule = conf.schedule) \/ h.raced
    BY <1>1, <2>1 DEF Conf, EditsInv, Agrees
  <2>4. ASSUME NEW u \in Timers
        PROVE  timer'[u].copy = timer[u].copy /\ (timer'[u].pc = timer[u].pc \/ u = t)
    <3>1. \A pc \in {"start", "send"} : [timer[u] EXCEPT !.pc = pc].copy = timer[u].copy
      BY DEF PackTypeOK, Slot
    <3> QED
      BY <2>1, <3>1 DEF PackTypeOK
  <2>5. timer'[t].pc = "start" => h'.offline
    <3>1. [timer[t] EXCEPT !.pc = "send"].pc = "send" /\ [h EXCEPT !.offline = TRUE].offline
      BY <1>1 DEF Slot, History
    <3> QED
      BY <2>1, <3>1 DEF PackTypeOK
  <2>6. \A u \in Timers : /\ timer'[u].pc = "start" => h'.offline
                          /\ timer'[u].pc = "idle" \/ timer[u].pc # "idle"
    BY <1>1, <1>3, <2>4, <2>5 DEF EditsInv
  <2> QED
    BY <1>2, <1>3, <2>2, <2>3, <2>4, <2>6, StepEdits
<1>5. CASE Free(t)
  <2>1. ASSUME NEW u \in Timers
        PROVE  timer'[u].pc = "idle" \/ timer'[u] = timer[u]
    BY <1>5 DEF Free, PackTypeOK, Idle
  <2>2. \/ UNCHANGED conf
        \/ conf' = Stored(timer[t].copy)
        \/ timer[t].pc = "start" /\ conf' = Stored([timer[t].copy EXCEPT !.boot = "pack"])
        \/ timer[t].pc = "start"
           /\ conf' = [conf EXCEPT !.boot = IF @ = "pack" THEN "noboot" ELSE @]
    <3>1. CASE SendPack(t) \/ StartVere(t)
      BY <3>1 DEF SendPack, StartVere
    <3>2. CASE WakeFails(t) \/ SendFails(t) \/ StoreFails(t)
      BY <3>2 DEF WakeFails, SendFails, StoreFails
    <3>3. CASE StartFails(t)
      BY <3>3 DEF StartFails
    <3>4. CASE Wake(t)
      <4>1. timer[t].pc = "sleep" /\ (UNCHANGED conf \/ timer'[t].pc = "start")
        BY <1>1, <3>4 DEF Wake, PackTypeOK, Slot
      <4> QED
        BY <1>5, <4>1 DEF Free, PackTypeOK, Idle
    <3> QED
      BY <3>1, <3>2, <3>3, <3>4 DEF TimerStep
  <2>3. ~h.raced => /\ conf'.on = conf.on /\ conf'.schedule = conf.schedule
                    /\ h'.offline \/ conf'.boot = conf.boot
    BY <1>1, <1>3, <2>2 DEF Conf, Stored, EditsInv, Agrees
  <2> QED
    BY <1>2, <1>3, <2>1, <2>3, StepEdits DEF EditsInv
<1> QED
  BY <1>4, <1>5 DEF TimerStep, WakeFails, SendPack, SendFails, StartVere, StartFails,
                    StoreFails, PackError
LEMMA OtherEdits ==
    ASSUME PackTypeOK, EditsInv, Tick \/ ShipGoesDown \/ LoadUrbits \/ Restart
    PROVE  EditsInv'
<1>1. CASE Tick
  <2>1. \A t \in Timers : timer[t] \in Slot
    BY DEF PackTypeOK
  <2>2. \A t \in Timers : [timer[t] EXCEPT !.spent = @ + 1].pc = timer[t].pc
                          /\ [timer[t] EXCEPT !.spent = @ + 1].copy = timer[t].copy
    BY <2>1 DEF Slot
  <2>3. ASSUME NEW t \in Timers PROVE timer'[t].pc = timer[t].pc /\ timer'[t].copy = timer[t].copy
    BY <1>1, <2>2 DEF Tick
  <2> QED
    BY <1>1, <2>3, StepEdits DEF Tick, EditsInv
<1>2. CASE ShipGoesDown
  BY <1>2 DEF ShipGoesDown, EditsInv, Agrees
<1>3. CASE LoadUrbits
  <2>1. /\ conf'.on = conf.on /\ conf'.schedule = conf.schedule
        /\ conf.boot = "pack" \/ conf'.boot = conf.boot
    BY <1>3 DEF LoadUrbits, PackTypeOK, Conf
  <2> QED
    BY <1>3, <2>1, StepEdits DEF LoadUrbits, EditsInv
<1>4. CASE Restart
  <2>1. \A t \in Timers : timer'[t].pc = "idle"
    BY <1>4 DEF Restart, Idle
  <2>2. h'.raced = h.raced /\ h'.offline = h.offline
    BY <1>4 DEF Restart, PackTypeOK, History
  <2> QED
    BY <1>4, <2>1, <2>2, StepEdits DEF Restart
<1> QED
  BY <1>1, <1>2, <1>3, <1>4

LEMMA UserEdits ==
    ASSUME PackTypeOK, EditsInv, SchedulePack \/ PausePackSchedule \/ TogglePower
    PROVE  EditsInv'
<1>1. h \in History /\ conf \in Conf
  BY DEF PackTypeOK
<1>2. h'.raced = Raced /\ h'.offline = h.offline /\ UNCHANGED timer
  BY <1>1 DEF SchedulePack, PausePackSchedule, TogglePower, History
<1>3. PICK c : Set(c) /\ (c.boot # "pack" \/ c.boot = conf.boot)
  <2>1. /\ \A s : [conf EXCEPT !.on = TRUE, !.schedule = s].boot = conf.boot
        /\ [conf EXCEPT !.on = FALSE].boot = conf.boot
        /\ [conf EXCEPT !.boot = "boot"].boot = "boot"
        /\ [conf EXCEPT !.boot = "noboot"].boot = "noboot"
    BY <1>1 DEF Conf
  <2>2. CASE SchedulePack
    BY <2>1, <2>2 DEF SchedulePack
  <2>3. CASE PausePackSchedule
    BY <2>1, <2>3 DEF PausePackSchedule
  <2>4. CASE TogglePower
    BY <2>1, <2>4 DEF TogglePower
  <2> QED
    BY <2>2, <2>3, <2>4
<1> QED
  BY <1>2, <1>3, SetEdits

LEMMA NextEdits == PackTypeOK /\ EditsInv /\ [Next]_vars => EditsInv'
<1>1. ASSUME UNCHANGED vars, EditsInv PROVE EditsInv'
  BY <1>1 DEF vars, EditsInv, Agrees
<1> QED
  BY <1>1, LoopEdits, TimerEdits, OtherEdits, UserEdits DEF Next, Step

\* The timers, the loop, the power switch and restarts undo no change of the
\* settings that was made while no timer was at work.
THEOREM EditsKeptHolds == Spec => []EditsKept
<1>1. Init => PackTypeOK /\ EditsInv
  BY PackInitTyped, InitEdits
<1>2. (PackTypeOK /\ EditsInv) /\ [Next]_vars => (PackTypeOK /\ EditsInv)'
  BY PackStepTyped, NextEdits
<1>3. EditsInv => EditsKept
  BY DEF EditsInv, EditsKept
<1> QED
  BY <1>1, <1>2, <1>3, PTL DEF Spec

-----------------------------------------------------------------------------
(* The types of Exports *)

Jobs == {"idle", "mark", "stop", "list", "show"}
Requests == {"idle", "check", "wait", "zip", "unlist", "clear"}
Page == [shows : Events, feed : Seq(Events)]

LEMMA ShowTyped ==
    ASSUME TypeOK, NEW event \in Events, Show(event)
    PROVE  exportShip' \in Events /\ page' \in [Browsers -> Page]
<1>1. ASSUME NEW b \in Browsers
      PROVE  [page[b] EXCEPT !.feed = Append(@, event)] \in Page
  <2>1. page[b] \in Page /\ page[b].feed \in Seq(Events)
    BY DEF TypeOK, Page
  <2>2. Append(page[b].feed, event) \in Seq(Events)
    BY <2>1, AppendProperties
  <2> QED
    BY <2>1, <2>2 DEF Page
<1> QED
  BY <1>1 DEF Show

LEMMA SeeTyped ==
    ASSUME TypeOK, NEW b \in Browsers, See(b)
    PROVE  page' \in [Browsers -> Page]
<1>1. page[b] \in Page /\ page[b].feed \in Seq(Events) /\ page[b].feed # <<>>
  BY DEF TypeOK, Page, See
<1>2. Head(page[b].feed) \in Events /\ Tail(page[b].feed) \in Seq(Events)
  BY <1>1, HeadTailProperties
<1>3. page' = [page EXCEPT ![b] = [shows |-> Head(page[b].feed), feed |-> Tail(page[b].feed)]]
  BY DEF See
<1> QED
  BY <1>2, <1>3 DEF TypeOK, Page

LEMMA ExportStepPackTyped ==
    ASSUME TypeOK, NEW b \in Browsers, ExportStep(b)
    PROVE  PackTypeOK'
<1>1. left' \in Budget
  <2>1. left \in Budget
    BY DEF TypeOK, PackTypeOK
  <2>2. UNCHANGED left \/ Spend("exports") \/ Spend("faults")
    BY DEF ExportStep, AskExport, MarkNoboot, StopShip, Abandon, WhitelistContainer, ShowReady,
           See, CheckToken, WaitExited, CompressVolume, RemoveContainerFromWhitelist,
           ClearTransition, vars
  <2> QED
    BY <2>1, <2>2, SpendTyped
<1>2. CASE MarkNoboot(b)
  <2>1. [conf EXCEPT !.boot = "noboot"] \in Conf
    BY DEF TypeOK, PackTypeOK, Conf, Boots
  <2>2. conf' \in Conf /\ want' \in [on : BOOLEAN, schedule : Schedule, boot : Boots]
    BY <1>2, <2>1, SetTyped DEF MarkNoboot
  <2>3. h' \in History
    BY <1>2 DEF MarkNoboot, TypeOK, PackTypeOK, History, Raced
  <2> QED
    BY <1>1, <1>2, <2>2, <2>3, SameMoment DEF MarkNoboot, TypeOK, PackTypeOK
<1>3. CASE StopShip(b)
  <2>1. ship' \in Ship
    BY <1>3, TakeDownTyped DEF StopShip, TypeOK, PackTypeOK
  <2> QED
    BY <1>1, <1>3, <2>1, SameMoment DEF StopShip, TypeOK, PackTypeOK
<1>4. CASE ~MarkNoboot(b) /\ ~StopShip(b)
  <2>1. UNCHANGED <<now, conf, ship, loop, timer, scheduledPacks, want, h>>
    BY <1>4 DEF ExportStep, AskExport, Abandon, WhitelistContainer, ShowReady,
           See, CheckToken, WaitExited, CompressVolume, RemoveContainerFromWhitelist,
           ClearTransition, vars
  <2> QED
    BY <1>1, <2>1, SameMoment DEF TypeOK, PackTypeOK
<1> QED
  BY <1>2, <1>3, <1>4

LEMMA ExportStepTyped ==
    ASSUME TypeOK, NEW b \in Browsers, ExportStep(b)
    PROVE  TypeOK'
<1>1. /\ whitelist \in Browsers \cup {None} /\ exportShip \in Events
      /\ page \in [Browsers -> Page]
      /\ job \in [Browsers -> Jobs] /\ request \in [Browsers -> Requests]
      /\ x \in [overlap : BOOLEAN, abandoned : BOOLEAN, started : BOOLEAN]
  BY DEF TypeOK, Page, Jobs, Requests
<1>2. whitelist' \in Browsers \cup {None}
  BY <1>1 DEF ExportStep, AskExport, MarkNoboot, StopShip, Abandon, WhitelistContainer, ShowReady,
         See, CheckToken, WaitExited, CompressVolume, RemoveContainerFromWhitelist,
         ClearTransition
<1>3. exportShip' \in Events /\ page' \in [Browsers -> Page]
  <2>1. {"", "stopping", "ready"} \subseteq Events
    BY DEF Events
  <2>2. \/ UNCHANGED <<exportShip, page>>
        \/ \E event \in Events : Show(event)
        \/ See(b) /\ UNCHANGED exportShip
    BY <2>1 DEF ExportStep, AskExport, MarkNoboot, StopShip, Abandon, WhitelistContainer,
         ShowReady, See, CheckToken, WaitExited, CompressVolume, RemoveContainerFromWhitelist,
         ClearTransition
  <2> QED
    BY <1>1, <2>2, ShowTyped, SeeTyped
<1>4. job' \in [Browsers -> Jobs]
  <2>1. UNCHANGED job \/ \E j \in Jobs : job' = [job EXCEPT ![b] = j]
    BY DEF Jobs, ExportStep, AskExport, MarkNoboot, StopShip, Abandon, WhitelistContainer,
         ShowReady, See, CheckToken, WaitExited, CompressVolume, RemoveContainerFromWhitelist,
         ClearTransition
  <2> QED
    BY <1>1, <2>1
<1>5. request' \in [Browsers -> Requests]
  <2>1. UNCHANGED request \/ \E r \in Requests : request' = [request EXCEPT ![b] = r]
    BY DEF Requests, ExportStep, AskExport, MarkNoboot, StopShip, Abandon, WhitelistContainer,
         ShowReady, See, CheckToken, WaitExited, CompressVolume, RemoveContainerFromWhitelist,
         ClearTransition
  <2> QED
    BY <1>1, <2>1
<1>6. x' \in [overlap : BOOLEAN, abandoned : BOOLEAN, started : BOOLEAN]
  BY <1>1 DEF ExportStep, AskExport, MarkNoboot, StopShip, Abandon, WhitelistContainer, ShowReady,
         See, CheckToken, WaitExited, CompressVolume, RemoveContainerFromWhitelist,
         ClearTransition
<1> QED
  BY <1>2, <1>3, <1>4, <1>5, <1>6, ExportStepPackTyped DEF TypeOK, Page, Jobs, Requests

LEMMA ExportInitTyped == ExportInit => TypeOK
<1> SUFFICES ASSUME ExportInit PROVE TypeOK
  OBVIOUS
<1>1. PackTypeOK
  BY PackInitTyped DEF ExportInit
<1>2. <<>> \in Seq(Events) /\ "" \in Events
  BY DEF Events
<1> QED
  BY <1>1, <1>2 DEF ExportInit, TypeOK

LEMMA ExportNextTyped == TypeOK /\ [ExportNext]_allVars => TypeOK'
<1> SUFFICES ASSUME TypeOK, [ExportNext]_allVars PROVE TypeOK'
  OBVIOUS
<1>1. CASE EditOffShip
  <2>1. left' \in Budget
    BY <1>1, SpendTyped DEF EditOffShip, TypeOK, PackTypeOK
  <2>2. ship' \in Ship
    BY <1>1 DEF EditOffShip, TypeOK, PackTypeOK, Ship
  <2> QED
    BY <1>1, <2>1, <2>2, SameMoment DEF EditOffShip, exportVars, TypeOK, PackTypeOK
<1>2. CASE PackStep
  <2>1. PackTypeOK'
    BY <1>2, PackStepTyped DEF PackStep, Next, TypeOK
  <2>2. x' \in [overlap : BOOLEAN, abandoned : BOOLEAN, started : BOOLEAN]
    BY <1>2 DEF PackStep, TypeOK
  <2> QED
    BY <1>2, <2>1, <2>2 DEF PackStep, TypeOK
<1>3. CASE RestartAll
  <2>1. PackTypeOK'
    BY <1>3, PackStepTyped DEF RestartAll, Next, TypeOK
  <2>2. <<>> \in Seq(Events) /\ <<"">> \in Seq(Events) /\ "" \in Events
    BY DEF Events
  <2>3. page' \in [Browsers -> [shows : Events, feed : Seq(Events)]]
    BY <1>3, <2>2 DEF RestartAll, TypeOK
  <2> QED
    BY <1>3, <2>1, <2>2, <2>3 DEF RestartAll, TypeOK
<1>4. CASE UNCHANGED allVars
  BY <1>4, PackStepTyped DEF allVars, exportVars, TypeOK
<1> QED
  BY <1>1, <1>2, <1>3, <1>4, ExportStepTyped DEF ExportNext

\* Every variable of the packs and the exports keeps its type.
THEOREM TypeCorrect == ExportSpec => []TypeOK
BY ExportInitTyped, ExportNextTyped, PTL DEF ExportSpec

-----------------------------------------------------------------------------
(* Exports *)

\* The exports' own steps leave the timers and the settings alone, but for
\* the handler's mark.
LEMMA ExportEdits == TypeOK /\ EditsInv /\ [ExportNext]_allVars => EditsInv'
<1> SUFFICES ASSUME TypeOK, EditsInv, [ExportNext]_allVars PROVE EditsInv'
  OBVIOUS
<1>1. CASE [Next]_vars
  BY <1>1, NextEdits DEF TypeOK
<1>2. CASE UNCHANGED <<conf, want, h, timer>>
  BY <1>2 DEF EditsInv, Agrees
<1>3. ASSUME NEW b \in Browsers, MarkNoboot(b) PROVE EditsInv'
  <2>1. h'.raced = Raced /\ h'.offline = h.offline
    BY <1>3 DEF MarkNoboot, TypeOK, PackTypeOK, History
  <2>2. [conf EXCEPT !.boot = "noboot"].boot = "noboot"
    BY DEF TypeOK, PackTypeOK, Conf
  <2> QED
    BY <1>3, <2>1, <2>2, SetEdits DEF MarkNoboot
<1>4. ASSUME NEW b \in Browsers, ExportStep(b), ~MarkNoboot(b)
      PROVE  UNCHANGED <<conf, want, h, timer>>
  BY <1>4 DEF ExportStep, AskExport, StopShip, Abandon, WhitelistContainer, ShowReady, See,
         CheckToken, WaitExited, CompressVolume, RemoveContainerFromWhitelist,
         ClearTransition, vars
<1> QED
  BY <1>1, <1>2, <1>3, <1>4 DEF ExportNext, PackStep, RestartAll, EditOffShip, Next, allVars

\* The same with exports next to the packs.
THEOREM EditsKeptInExports == ExportSpec => []EditsKept
<1>1. ExportInit => TypeOK /\ EditsInv
  BY ExportInitTyped, InitEdits DEF ExportInit
<1>2. (TypeOK /\ EditsInv) /\ [ExportNext]_allVars => (TypeOK /\ EditsInv)'
  BY ExportNextTyped, ExportEdits
<1>3. EditsInv => EditsKept
  BY DEF EditsInv, EditsKept
<1> QED
  BY <1>1, <1>2, <1>3, PTL DEF ExportSpec

\* A ship that is off is either left off, or started.
LEMMA StaysOff ==
    ASSUME PackTypeOK, Off, [Next]_vars
    PROVE  Off' \/ ship'.run \in {"up", "pack"}
<1>1. ship.run \in {"down", "gone"} /\ ship \in Ship
  BY DEF Off, PackTypeOK
<1>2. CASE TogglePower
  <2>1. [ship EXCEPT !.run = "up"].run = "up"
    BY <1>1 DEF Ship
  <2>2. TakeDown => UNCHANGED ship
    BY <1>1 DEF TakeDown
  <2> QED
    BY <1>1, <1>2, <2>1, <2>2 DEF TogglePower, Off
<1>3. CASE LoadUrbits
  <2>1. [ship EXCEPT !.run = "up"].run = "up"
    BY <1>1 DEF Ship
  <2>2. conf.boot \in {"boot", "noboot", "pack"}
    BY DEF PackTypeOK, Conf, Boots
  <2> QED
    BY <1>1, <1>3, <2>1, <2>2 DEF LoadUrbits, Off
<1>4. ASSUME NEW t \in Timers, TimerStep(t) PROVE Off' \/ ship'.run \in {"up", "pack"}
  <2>1. [ship EXCEPT !.run = "up"].run = "up"
    BY <1>1 DEF Ship
  <2>2. CASE StartVere(t)
    <3>1. ship' = [run |-> "pack", left |-> MaxPack] \/ ship' = [ship EXCEPT !.run = "up"]
      BY <2>2 DEF StartVere
    <3>2. [run |-> "pack", left |-> MaxPack].run = "pack"
      OBVIOUS
    <3>3. ship'.run \in {"up", "pack"}
      BY <2>1, <3>1, <3>2
    <3> QED
      BY <3>3
  <2>3. CASE ~StartVere(t)
    <3>1. UNCHANGED ship
      BY <1>4, <2>3
      DEF TimerStep, Wake, WakeFails, SendPack, SendFails, StartFails, StoreFails
    <3> QED
      BY <1>1, <3>1 DEF Off
  <2> QED
    BY <2>2, <2>3
<1>5. CASE Tick
  BY <1>1, <1>5 DEF Tick, Ship, Off
<1> QED
  BY <1>1, <1>2, <1>3, <1>4, <1>5
  DEF Next, Step, SchedulePack, PausePackSchedule, Pack, QueueOnBus, QueueOnTick, queuePack,
      ShipGoesDown, Restart, vars, Off

\* The exports themselves start nothing, and zip only what is down.
LEMMA ZipStep == TypeOK /\ ZipAtRest /\ [ExportNext]_allVars => ZipAtRest'
<1> SUFFICES ASSUME TypeOK, ZipAtRest, [ExportNext]_allVars,
                    NEW b \in Browsers, request'[b] = "zip", ~Off'
             PROVE  x'.started
  BY DEF ZipAtRest
<1>1. request \in [Browsers -> Requests] /\ ship \in Ship
      /\ x \in [overlap : BOOLEAN, abandoned : BOOLEAN, started : BOOLEAN]
  BY DEF TypeOK, PackTypeOK, Requests
<1>2. CASE PackStep
  <2>1. request[b] = "zip" /\ Ongoing /\ x'.started = (x.started \/ (Started /\ Ongoing))
    BY <1>1, <1>2 DEF PackStep, Ongoing
  <2>2. CASE Off
    BY <1>2, <2>1, <2>2, StaysOff DEF PackStep, Next, TypeOK, Started
  <2>3. CASE ~Off
    BY <2>1, <2>3 DEF ZipAtRest
  <2> QED
    BY <2>2, <2>3
<1>3. ASSUME NEW c \in Browsers, ExportStep(c)
      PROVE  x'.started
  <2>1. x'.started = x.started
    BY <1>1, <1>3 DEF ExportStep, AskExport, MarkNoboot, StopShip, Abandon, WhitelistContainer,
         ShowReady, See, CheckToken, WaitExited, CompressVolume, RemoveContainerFromWhitelist,
         ClearTransition
  <2>2. ~Off
    <3>1. UNCHANGED ship \/ TakeDown
      BY <1>3 DEF ExportStep, AskExport, MarkNoboot, StopShip, Abandon, WhitelistContainer,
         ShowReady, See, CheckToken, WaitExited, CompressVolume, RemoveContainerFromWhitelist,
         ClearTransition, vars
    <3> QED
      BY <3>1 DEF TakeDown, Off
  <2>3. request[b] = "zip"
    <3>1. CASE WaitExited(c)
      BY <2>2, <3>1 DEF WaitExited, Off
    <3>2. CASE ~WaitExited(c)
      <4>1. UNCHANGED request
            \/ \E r \in Requests \ {"zip"} : request' = [request EXCEPT ![c] = r]
        BY <1>3, <3>2 DEF Requests, ExportStep, AskExport, MarkNoboot, StopShip, Abandon,
           WhitelistContainer, ShowReady, See, CheckToken, CompressVolume,
           RemoveContainerFromWhitelist, ClearTransition
      <4> QED
        BY <1>1, <4>1
    <3> QED
      BY <3>1, <3>2
  <2> QED
    BY <2>1, <2>2, <2>3 DEF ZipAtRest
<1>4. CASE EditOffShip
  <2>1. Off'
    BY <1>1, <1>4 DEF EditOffShip, Ship, Off
  <2> QED
    BY <2>1
<1>5. CASE RestartAll
  BY <1>5 DEF RestartAll
<1>6. CASE UNCHANGED allVars
  BY <1>6 DEF allVars, vars, exportVars, ZipAtRest, Off
<1> QED
  BY <1>2, <1>3, <1>4, <1>5, <1>6 DEF ExportNext

\* Whatever the timers, the pages and the other handlers do, an archive is made
\* of a ship at rest unless something started the ship meanwhile.
THEOREM ZipAtRestHolds == ExportSpec => []ZipAtRest
<1>1. ExportInit => TypeOK /\ ZipAtRest
  BY ExportInitTyped DEF ExportInit, ZipAtRest
<1>2. (TypeOK /\ ZipAtRest) /\ [ExportNext]_allVars => (TypeOK /\ ZipAtRest)'
  BY ExportNextTyped, ZipStep
<1> QED
  BY <1>1, <1>2, PTL DEF ExportSpec
-----------------------------------------------------------------------------
(* What is left of an export *)

\* The last that a page was told, and the places of "ready" on its way to it.
Current(b) == IF page[b].feed = <<>> THEN page[b].shows ELSE page[b].feed[Len(page[b].feed)]
Readies(b) == {k \in 1..Len(page[b].feed) : page[b].feed[k] = "ready"}
Posts == {"check", "wait", "zip", "unlist"}

\* What NothingLeft needs to be inductive, as long as no export was asked for
\* before the last was over: each page learns what is shown; at most one
\* handler is at work, and then there is no request nor "ready" on its way; a
\* listed token has somebody who will take it off the list, at the latest the
\* browser to which "ready" is on its way, once; and so has what is shown.
Told == \A b \in Browsers : Current(b) = exportShip
OneJob == \A b, c \in Browsers : job[b] # "idle" /\ job[c] # "idle" => b = c
JobAlone ==
    \A b \in Browsers : job[b] # "idle" =>
        /\ whitelist = IF job[b] = "show" THEN b ELSE None
        /\ \A c \in Browsers : request[c] = "idle" /\ page[c].shows # "ready" /\ Readies(c) = {}
ReadyOnce ==
    \A b \in Browsers : /\ page[b].shows = "ready" => Readies(b) = {}
                        /\ \A j, k \in Readies(b) : j = k
ListedHandled ==
    \A b \in Browsers : whitelist = b =>
        job[b] = "show" \/ request[b] \in Posts \/ Readies(b) # {}
ShownHandled ==
    exportShip # "" => \/ whitelist # None
                       \/ \E b \in Browsers : job[b] # "idle"
                                              \/ request[b] \in {"wait", "zip", "unlist", "clear"}
Orderly == Told /\ OneJob /\ JobAlone /\ ReadyOnce /\ ListedHandled /\ ShownHandled

\* When everything is over, nothing is shown or listed.
LEMMA QuietIsClean ==
    ASSUME TypeOK, Orderly, ~Ongoing, \A b \in Browsers : page[b].feed = <<>>
    PROVE  exportShip = "" /\ whitelist = None /\ \A b \in Browsers : page[b].shows = ""
<1>1. \A b \in Browsers : Readies(b) = {}
  BY DEF Readies
<1>2. \A b \in Browsers : job[b] = "idle" /\ request[b] = "idle"
  BY DEF Ongoing
<1>3. whitelist = None
  BY <1>1, <1>2 DEF Orderly, ListedHandled, TypeOK, Posts
<1>4. exportShip = ""
  BY <1>2, <1>3 DEF Orderly, ShownHandled
<1> QED
  BY <1>3, <1>4 DEF Orderly, Told, Current

\* Showing an event appends it to what is on its way to every page.
LEMMA ShowFeeds ==
    ASSUME TypeOK, NEW event \in Events, Show(event), NEW b \in Browsers
    PROVE  /\ Current(b)' = event /\ page'[b].shows = page[b].shows
           /\ Readies(b)' = IF event = "ready" THEN Readies(b) \cup {Len(page[b].feed) + 1}
                            ELSE Readies(b)
<1>1. page[b] \in Page /\ page[b].feed \in Seq(Events)
  BY DEF TypeOK, Page
<1> DEFINE f == page[b].feed
<1>2. page'[b] = [page[b] EXCEPT !.feed = Append(f, event)]
  BY DEF Show
<1>3. page'[b].feed = Append(f, event) /\ page'[b].shows = page[b].shows
  BY <1>1, <1>2 DEF Page
<1>4. /\ Len(f) \in Nat /\ Len(Append(f, event)) = Len(f) + 1
      /\ Append(f, event)[Len(f) + 1] = event
      /\ \A k \in 1..Len(f) : Append(f, event)[k] = f[k]
  BY <1>1, AppendProperties, LenProperties
<1>5. Append(f, event) # <<>>
  BY <1>4, EmptySeq
<1>6. Current(b)' = event
  BY <1>3, <1>4, <1>5 DEF Current
<1>7. Readies(b)' = {k \in 1..(Len(f) + 1) : Append(f, event)[k] = "ready"}
  BY <1>3, <1>4 DEF Readies
<1>8. {k \in 1..(Len(f) + 1) : Append(f, event)[k] = "ready"}
        = IF event = "ready" THEN Readies(b) \cup {Len(f) + 1} ELSE Readies(b)
  BY <1>4 DEF Readies
<1> QED
  BY <1>3, <1>6, <1>7, <1>8

\* A page that sees an event has it before it, and one less on its way.
LEMMA SeeFeeds ==
    ASSUME TypeOK, NEW b \in Browsers, See(b)
    PROVE  /\ \A c \in Browsers : Current(c)' = Current(c)
           /\ \A c \in Browsers \ {b} : Readies(c)' = Readies(c) /\ page'[c] = page[c]
           /\ page'[b].shows = Head(page[b].feed)
           /\ page'[b].shows = "ready" <=> 1 \in Readies(b)
           /\ \A k : k \in Readies(b)' => k \in Nat \ {0} /\ k + 1 \in Readies(b)
           /\ \A k \in Readies(b) : k # 1 => k - 1 \in Readies(b)'
<1> DEFINE f == page[b].feed
<1>1. f \in Seq(Events) /\ f # <<>>
  BY DEF TypeOK, Page, See
<1>2. page' = [page EXCEPT ![b] = [shows |-> Head(f), feed |-> Tail(f)]]
  BY DEF See
<1>3. page'[b].shows = Head(f) /\ page'[b].feed = Tail(f)
  BY <1>2 DEF TypeOK
<1>4. \A c \in Browsers \ {b} : page'[c] = page[c]
  BY <1>2 DEF TypeOK
<1>5. Len(f) \in Nat \ {0} /\ Len(Tail(f)) = Len(f) - 1
      /\ \A i \in 1..(Len(f) - 1) : Tail(f)[i] = f[i + 1]
  BY <1>1, HeadTailProperties, EmptySeq
<1>6. Head(f) = f[1] /\ Tail(f) \in Seq(Events)
  BY <1>1, HeadTailProperties
<1>7. Current(b)' = Current(b)
  <2>1. CASE Tail(f) = <<>>
    <3>1. Len(f) = 1
      <4>1. Len(Tail(f)) = 0
        BY <2>1, EmptySeq
      <4> QED
        BY <1>5, <4>1
    <3> QED
      BY <1>1, <1>3, <1>6, <2>1, <3>1 DEF Current
  <2>2. CASE Tail(f) # <<>>
    <3>1. Len(Tail(f)) \in Nat \ {0}
      BY <1>6, <2>2, EmptySeq
    <3>2. Tail(f)[Len(Tail(f))] = f[Len(f)]
      <4>1. Len(f) - 1 \in 1..(Len(f) - 1) /\ Len(f) - 1 + 1 = Len(f)
        <5>1. Len(f) \in Nat \ {0} /\ Len(f) - 1 \in Nat \ {0}
          BY <1>5, <3>1
        <5> HIDE DEF f
        <5> QED
          BY <5>1
      <4>2. Tail(f)[Len(f) - 1] = f[Len(f) - 1 + 1]
        BY <1>5, <4>1
      <4> QED
        BY <1>5, <4>1, <4>2
    <3> QED
      BY <1>1, <1>3, <2>2, <3>2 DEF Current
  <2> QED
    BY <2>1, <2>2
<1>8. Readies(b)' = {k \in 1..(Len(f) - 1) : f[k + 1] = "ready"}
  BY <1>3, <1>5 DEF Readies
<1>9. \A k : k \in Readies(b)' => k \in Nat \ {0} /\ k + 1 \in Readies(b)
  BY <1>5, <1>8 DEF Readies
<1>10. \A k \in Readies(b) : k # 1 => k - 1 \in Readies(b)'
  <2>1. ASSUME NEW k \in 1..Len(f), f[k] = "ready", k # 1
        PROVE  k - 1 \in 1..(Len(f) - 1) /\ f[k - 1 + 1] = "ready"
    <3>1. k - 1 \in 1..(Len(f) - 1) /\ k - 1 + 1 = k
      BY <1>5, <2>1
    <3> QED
      BY <2>1, <3>1
  <2> QED
    BY <1>8, <2>1 DEF Readies
<1>11. page'[b].shows = "ready" <=> 1 \in Readies(b)
  BY <1>3, <1>5, <1>6 DEF Readies
<1>12. \A c \in Browsers \ {b} : Readies(c)' = Readies(c) /\ Current(c)' = Current(c)
  BY <1>4 DEF Readies, Current
<1> QED
  BY <1>3, <1>4, <1>7, <1>9, <1>10, <1>11, <1>12

\* Steps that show nothing and leave the pages alone.
LEMMA FeedsKept ==
    UNCHANGED page => \A b \in Browsers : Current(b)' = Current(b) /\ Readies(b)' = Readies(b)
BY DEF Current, Readies

LEMMA AskOrderly ==
    ASSUME TypeOK, Orderly, NEW b \in Browsers, AskExport(b), ~x'.overlap
    PROVE  Orderly'
<1>1. ~Ongoing /\ \A c \in Browsers : page[c].feed = <<>>
  BY DEF AskExport, TypeOK
<1>2. exportShip = "" /\ whitelist = None /\ \A c \in Browsers : page[c].shows = ""
  BY <1>1, QuietIsClean
<1>3. \A c \in Browsers : Readies(c) = {}
  BY <1>1 DEF Readies
<1>4. \A c \in Browsers : /\ Current(c)' = "stopping" /\ page'[c].shows = ""
                          /\ Readies(c)' = {}
  BY <1>2, <1>3, ShowFeeds DEF AskExport, Events
<1>5. exportShip' = "stopping" /\ whitelist' = None /\ UNCHANGED request
  BY <1>2 DEF AskExport, Show
<1>6. \A c \in Browsers : request'[c] = "idle" /\ job[c] = "idle"
  BY <1>1, <1>5 DEF Ongoing
<1>7. \A c \in Browsers : job'[c] = IF c = b THEN "mark" ELSE "idle"
  BY <1>6 DEF AskExport, TypeOK
<1>8. OneJob' /\ Told'
  BY <1>4, <1>5, <1>7 DEF OneJob, Told
<1>9. JobAlone' /\ ReadyOnce'
  BY <1>4, <1>5, <1>6, <1>7 DEF JobAlone, ReadyOnce
<1>10. ListedHandled' /\ ShownHandled'
  BY <1>5, <1>7, NoneAssumption DEF ListedHandled, ShownHandled
<1> QED
  BY <1>8, <1>9, <1>10 DEF Orderly

\* The handler's own steps, while it is alone.
LEMMA HandlerOrderly ==
    ASSUME TypeOK, Orderly, NEW b \in Browsers,
           MarkNoboot(b) \/ StopShip(b) \/ WhitelistContainer(b)
    PROVE  Orderly'
<1>1. UNCHANGED <<exportShip, page, request>> /\ job[b] # "idle" /\ job[b] # "show"
  BY DEF MarkNoboot, StopShip, WhitelistContainer
<1>2. PICK j \in {"stop", "list", "show"} :
        job' = [job EXCEPT ![b] = j] /\ whitelist' = IF j = "show" THEN b ELSE whitelist
  BY DEF MarkNoboot, StopShip, WhitelistContainer
<1>3. \A c \in Browsers : job'[c] = IF c = b THEN j ELSE job[c]
  BY <1>2 DEF TypeOK
<1>4. \A c \in Browsers : c # b => job[c] = "idle"
  BY <1>1 DEF Orderly, OneJob
<1>5. /\ whitelist = None
      /\ \A c \in Browsers : request[c] = "idle" /\ page[c].shows # "ready" /\ Readies(c) = {}
  BY <1>1 DEF Orderly, JobAlone
<1>6. Told' /\ ReadyOnce'
  BY <1>1, FeedsKept DEF Orderly, Told, ReadyOnce
<1>7. OneJob' /\ JobAlone'
  BY <1>1, <1>2, <1>3, <1>4, <1>5, FeedsKept DEF OneJob, JobAlone
<1>8. ListedHandled'
  BY <1>2, <1>3, <1>5, NoneAssumption DEF ListedHandled
<1>9. ShownHandled'
  BY <1>2, <1>3 DEF ShownHandled
<1> QED
  BY <1>6, <1>7, <1>8, <1>9 DEF Orderly

LEMMA ShowReadyOrderly ==
    ASSUME TypeOK, Orderly, NEW b \in Browsers, ShowReady(b)
    PROVE  Orderly'
<1>1. UNCHANGED <<whitelist, request>> /\ job[b] = "show" /\ exportShip' = "ready"
  BY DEF ShowReady, Show
<1>2. /\ whitelist = b
      /\ \A c \in Browsers : request[c] = "idle" /\ page[c].shows # "ready" /\ Readies(c) = {}
  BY <1>1 DEF Orderly, JobAlone
<1>3. \A c \in Browsers : job'[c] = "idle"
  BY <1>1 DEF ShowReady, TypeOK, Orderly, OneJob
<1>4. \A c \in Browsers : /\ Current(c)' = "ready" /\ page'[c].shows = page[c].shows
                          /\ Readies(c)' = {Len(page[c].feed) + 1}
  BY <1>2, ShowFeeds DEF ShowReady, Events
<1>5. Told' /\ ReadyOnce'
  BY <1>1, <1>2, <1>4 DEF Told, ReadyOnce
<1>6. OneJob' /\ JobAlone'
  BY <1>3 DEF OneJob, JobAlone
<1>7. ListedHandled'
  BY <1>4 DEF ListedHandled
<1>8. ShownHandled'
  BY <1>1, <1>2, NoneAssumption DEF ShownHandled
<1> QED
  BY <1>5, <1>6, <1>7, <1>8 DEF Orderly

\* The page that sees "ready", which it sees once, posts its token.
LEMMA SeeOrderly ==
    ASSUME TypeOK, Orderly, NEW b \in Browsers, See(b)
    PROVE  Orderly'
<1>1. UNCHANGED <<whitelist, exportShip, job>>
  BY DEF See
<1>2. \A c \in Browsers \ {b} : Readies(c)' = Readies(c) /\ page'[c] = page[c]
  BY SeeFeeds
<1>3. /\ \A j, k \in Readies(b) : j = k
      /\ page[b].shows = "ready" => Readies(b) = {}
  BY DEF Orderly, ReadyOnce
<1>4. CASE 1 \in Readies(b)
  <2>1. Readies(b)' = {} /\ page[b].shows # "ready"
    <3>1. \A k \in Readies(b)' : k \in Nat \ {0} /\ k + 1 \in Readies(b)
      BY SeeFeeds
    <3>2. \A k \in Readies(b)' : k \in Nat \ {0} /\ k + 1 = 1
      BY <1>3, <1>4, <3>1
    <3>3. \A k \in Readies(b)' : FALSE
      BY <3>2
    <3> QED
      BY <1>3, <1>4, <3>3
  <2>2. page'[b].shows = "ready" /\ Head(page[b].feed) = "ready"
    BY <1>4, SeeFeeds
  <2>3. request' = [request EXCEPT ![b] = "check"]
    BY <2>1, <2>2 DEF See
  <2>4. \A c \in Browsers : job[c] = "idle"
    BY <1>4 DEF Orderly, JobAlone
  <2>5. Told' /\ ReadyOnce'
    BY <1>1, <1>2, <2>1, SeeFeeds DEF Orderly, Told, ReadyOnce
  <2>6. OneJob' /\ JobAlone'
    BY <1>1, <2>4 DEF OneJob, JobAlone
  <2>7. ListedHandled'
    BY <1>1, <1>2, <2>3, <2>4 DEF TypeOK, Orderly, ListedHandled, Posts
  <2>8. ShownHandled'
    <3>1. request[b] = "idle"
      BY <2>1, <2>2 DEF See
    <3>2. \A c \in Browsers : request[c] \in {"wait", "zip", "unlist", "clear"}
                                => request'[c] = request[c]
      BY <2>3, <3>1 DEF TypeOK
    <3> QED
      BY <1>1, <3>2 DEF Orderly, ShownHandled
  <2> QED
    BY <2>5, <2>6, <2>7, <2>8 DEF Orderly
<1>5. CASE 1 \notin Readies(b)
  <2>1. page'[b].shows # "ready" /\ Head(page[b].feed) # "ready" /\ UNCHANGED request
    BY <1>5, SeeFeeds DEF See
  <2>2. /\ Readies(b)' = {} <=> Readies(b) = {}
        /\ \A j, k \in Readies(b)' : j = k
    <3>1. \A k \in Readies(b)' : k \in Nat \ {0} /\ k + 1 \in Readies(b)
      BY SeeFeeds
    <3>2. \A k \in Readies(b) : k - 1 \in Readies(b)'
      BY <1>5, SeeFeeds
    <3>3. ASSUME NEW j \in Readies(b)', NEW k \in Readies(b)' PROVE j = k
      <4>1. j \in Nat /\ k \in Nat /\ j + 1 = k + 1
        BY <1>3, <3>1
      <4> QED
        BY <4>1
    <3> QED
      BY <3>1, <3>2, <3>3
  <2>3. Told' /\ ReadyOnce'
    BY <1>1, <1>2, <2>1, <2>2, SeeFeeds DEF Orderly, Told, ReadyOnce
  <2>4. OneJob' /\ JobAlone'
    BY <1>1, <1>2, <2>1, <2>2 DEF Orderly, OneJob, JobAlone
  <2>5. ListedHandled' /\ ShownHandled'
    BY <1>1, <1>2, <2>1, <2>2 DEF Orderly, ListedHandled, ShownHandled
  <2> QED
    BY <2>3, <2>4, <2>5 DEF Orderly
<1> QED
  BY <1>4, <1>5

\* A request is at work only when no handler is.
LEMMA RequestAlone ==
    ASSUME Orderly, NEW b \in Browsers, request[b] # "idle", UNCHANGED job
    PROVE  OneJob' /\ JobAlone' /\ \A c \in Browsers : job[c] = "idle"
<1>1. \A c \in Browsers : job[c] = "idle"
  BY DEF Orderly, JobAlone
<1> QED
  BY <1>1 DEF OneJob, JobAlone

LEMMA CheckTokenOrderly ==
    ASSUME TypeOK, Orderly, NEW b \in Browsers, CheckToken(b)
    PROVE  Orderly'
<1>1. request[b] = "check" /\ UNCHANGED <<whitelist, job>>
  BY DEF CheckToken
<1>2. OneJob' /\ JobAlone' /\ \A c \in Browsers : job[c] = "idle"
  BY <1>1, RequestAlone
<1>3. request' = [request EXCEPT ![b] = IF whitelist = b THEN "wait" ELSE "idle"]
  BY DEF CheckToken
<1>4. \A c \in Browsers : /\ c # b => request'[c] = request[c]
                          /\ request[c] \in {"wait", "zip", "unlist", "clear"}
                               => request'[c] = request[c]
  BY <1>1, <1>3 DEF TypeOK
<1>5. CASE whitelist \in {b, None}
  <2>1. UNCHANGED <<exportShip, page>>
    BY <1>5 DEF CheckToken
  <2>2. Told' /\ ReadyOnce'
    BY <2>1, FeedsKept DEF Orderly, Told, ReadyOnce
  <2>3. ListedHandled'
    BY <1>1, <1>3, <1>5, NoneAssumption DEF TypeOK, ListedHandled, Posts
  <2>4. ShownHandled'
    BY <1>1, <1>2, <1>4, <2>1 DEF Orderly, ShownHandled
  <2> QED
    BY <1>2, <2>2, <2>3, <2>4 DEF Orderly
<1>6. CASE whitelist \notin {b, None}
  <2>1. Show("")
    BY <1>6 DEF CheckToken
  <2>2. \A c \in Browsers : /\ Current(c)' = "" /\ page'[c].shows = page[c].shows
                            /\ Readies(c)' = Readies(c)
    BY <2>1, ShowFeeds DEF Events
  <2>3. exportShip' = ""
    BY <2>1 DEF Show
  <2>4. Told' /\ ReadyOnce' /\ ShownHandled'
    BY <2>2, <2>3 DEF Orderly, Told, ReadyOnce, ShownHandled
  <2>5. ListedHandled'
    BY <1>1, <1>4, <1>6, <2>2 DEF Orderly, ListedHandled
  <2> QED
    BY <1>2, <2>4, <2>5 DEF Orderly
<1> QED
  BY <1>5, <1>6

LEMMA ArchiveOrderly ==
    ASSUME TypeOK, Orderly, NEW b \in Browsers,
           WaitExited(b) \/ CompressVolume(b) \/ RemoveContainerFromWhitelist(b)
    PROVE  Orderly'
<1>1. /\ request[b] \in {"wait", "zip", "unlist"} /\ UNCHANGED <<exportShip, page, job>>
      /\ \/ UNCHANGED whitelist /\ \E r \in {"zip", "unlist"} : request' = [request EXCEPT ![b] = r]
         \/ whitelist' = None /\ request' = [request EXCEPT ![b] = "clear"]
  BY DEF WaitExited, CompressVolume, RemoveContainerFromWhitelist
<1>2. OneJob' /\ JobAlone' /\ \A c \in Browsers : job[c] = "idle"
  BY <1>1, RequestAlone
<1>3. Told' /\ ReadyOnce'
  BY <1>1, FeedsKept DEF Orderly, Told, ReadyOnce
<1>4. ListedHandled'
  BY <1>1, FeedsKept, NoneAssumption DEF TypeOK, Orderly, ListedHandled, Posts
<1>5. ShownHandled'
  <2>1. request'[b] \in {"zip", "unlist", "clear"}
    BY <1>1 DEF TypeOK
  <2> QED
    BY <2>1 DEF ShownHandled
<1> QED
  BY <1>2, <1>3, <1>4, <1>5 DEF Orderly

LEMMA ClearOrderly ==
    ASSUME TypeOK, Orderly, NEW b \in Browsers, ClearTransition(b)
    PROVE  Orderly'
<1>1. request[b] = "clear" /\ UNCHANGED <<whitelist, job>> /\ exportShip' = ""
      /\ request' = [request EXCEPT ![b] = "idle"]
  BY DEF ClearTransition, Show
<1>2. OneJob' /\ JobAlone'
  BY <1>1, RequestAlone
<1>3. \A c \in Browsers : /\ Current(c)' = "" /\ page'[c].shows = page[c].shows
                          /\ Readies(c)' = Readies(c)
  BY ShowFeeds DEF ClearTransition, Events
<1>4. Told' /\ ReadyOnce' /\ ShownHandled'
  BY <1>1, <1>3 DEF Orderly, Told, ReadyOnce, ShownHandled
<1>5. ListedHandled'
  BY <1>1, <1>3 DEF TypeOK, Orderly, ListedHandled, Posts
<1> QED
  BY <1>2, <1>4, <1>5 DEF Orderly

\* A page that showed an export is told that there is none.
LEMMA RestartOrderly == TypeOK /\ RestartAll => Orderly'
<1> SUFFICES ASSUME TypeOK, RestartAll PROVE Orderly'
  OBVIOUS
<1>1. /\ whitelist' = None /\ exportShip' = ""
      /\ \A b \in Browsers : job'[b] = "idle" /\ request'[b] = "idle"
  BY DEF RestartAll
<1>2. ASSUME NEW b \in Browsers PROVE Current(b)' = "" /\ Readies(b)' = {}
  <2>1. page[b] \in Page
    BY DEF TypeOK, Page
  <2>2. page'[b] = [page[b] EXCEPT !.feed = IF page[b].shows = "" THEN <<>> ELSE <<"">>]
    BY DEF RestartAll
  <2>3. /\ page'[b].shows = page[b].shows
        /\ page'[b].feed = IF page[b].shows = "" THEN <<>> ELSE <<"">>
    BY <2>1, <2>2 DEF Page
  <2>4. Len(<<"">>) = 1 /\ <<"">>[1] = "" /\ Len(<<>>) = 0 /\ <<"">> # <<>>
    OBVIOUS
  <2>5. Current(b)' = ""
    BY <2>3, <2>4 DEF Current
  <2>6. Readies(b)' = {}
    <3>1. CASE page'[b].feed = <<>>
      <4>1. 1..Len(page'[b].feed) = {}
        BY <3>1
      <4> QED
        BY <4>1 DEF Readies
    <3>2. CASE page'[b].feed = <<"">>
      <4>1. ASSUME NEW k \in 1..1 PROVE <<"">>[k] = ""
        <5>1. k = 1
          OBVIOUS
        <5> QED
          BY <2>4, <5>1
      <4>2. Readies(b)' = {k \in 1..1 : <<"">>[k] = "ready"}
        BY <2>4, <3>2 DEF Readies
      <4> QED
        BY <4>1, <4>2
    <3> QED
      BY <2>3, <3>1, <3>2
  <2> QED
    BY <2>5, <2>6
<1>3. Told' /\ OneJob' /\ JobAlone' /\ ReadyOnce'
  BY <1>1, <1>2 DEF Told, OneJob, JobAlone, ReadyOnce
<1>4. ListedHandled' /\ ShownHandled'
  BY <1>1, NoneAssumption DEF ListedHandled, ShownHandled
<1> QED
  BY <1>3, <1>4 DEF Orderly

OrderInv == ~x.overlap /\ ~x.abandoned => Orderly

LEMMA InitOrder == ExportInit => OrderInv
<1> SUFFICES ASSUME ExportInit PROVE Orderly
  BY DEF OrderInv
<1>1. ASSUME NEW b \in Browsers PROVE Current(b) = "" /\ Readies(b) = {}
  <2>1. page[b].feed = <<>> /\ page[b].shows = ""
    BY DEF ExportInit
  <2>2. Len(<<>>) = 0 /\ 1..0 = {}
    OBVIOUS
  <2> QED
    BY <2>1, <2>2 DEF Current, Readies
<1> QED
  BY <1>1, NoneAssumption
  DEF ExportInit, Orderly, Told, OneJob, JobAlone, ReadyOnce, ListedHandled, ShownHandled

LEMMA NextOrder == TypeOK /\ OrderInv /\ [ExportNext]_allVars => OrderInv'
<1> SUFFICES ASSUME TypeOK, OrderInv, [ExportNext]_allVars, ~x'.overlap, ~x'.abandoned
             PROVE  Orderly'
  BY DEF OrderInv
<1>1. x \in [overlap : BOOLEAN, abandoned : BOOLEAN, started : BOOLEAN]
  BY DEF TypeOK
<1>2. CASE UNCHANGED <<whitelist, exportShip, page, job, request>>
            /\ x'.overlap = x.overlap /\ x'.abandoned = x.abandoned
  <2>1. Orderly
    BY <1>2 DEF OrderInv
  <2>2. \A b \in Browsers : Current(b)' = Current(b) /\ Readies(b)' = Readies(b)
    BY <1>2, FeedsKept
  <2>3. Told' /\ OneJob' /\ JobAlone' /\ ReadyOnce'
    BY <1>2, <2>1, <2>2 DEF Orderly, Told, OneJob, JobAlone, ReadyOnce
  <2>4. ListedHandled' /\ ShownHandled'
    BY <1>2, <2>1, <2>2 DEF Orderly, ListedHandled, ShownHandled
  <2> QED
    BY <2>3, <2>4 DEF Orderly
<1>3. CASE PackStep
  <2>1. x'.overlap = x.overlap /\ x'.abandoned = x.abandoned
    BY <1>1, <1>3 DEF PackStep
  <2> QED
    BY <1>2, <1>3, <2>1 DEF PackStep
<1>4. ASSUME NEW b \in Browsers, ExportStep(b) PROVE Orderly'
  <2>1. CASE AskExport(b)
    <3>1. ~x.overlap /\ ~x.abandoned
      BY <1>1, <2>1 DEF AskExport
    <3> QED
      BY <2>1, <3>1, AskOrderly DEF OrderInv
  <2>2. CASE Abandon(b)
    BY <1>1, <2>2 DEF Abandon
  <2>3. CASE ~AskExport(b) /\ ~Abandon(b)
    <3>1. UNCHANGED x
      BY <1>4, <2>3 DEF ExportStep, MarkNoboot, StopShip, WhitelistContainer, ShowReady,
         See, CheckToken, WaitExited, CompressVolume, RemoveContainerFromWhitelist,
         ClearTransition
    <3>2. Orderly
      BY <3>1 DEF OrderInv
    <3> QED
      BY <1>4, <2>3, <3>2, HandlerOrderly, ShowReadyOrderly, SeeOrderly, CheckTokenOrderly,
         ArchiveOrderly, ClearOrderly DEF ExportStep
  <2> QED
    BY <2>1, <2>2, <2>3
<1> QED
  BY <1>2, <1>3, <1>4, RestartOrderly DEF ExportNext, EditOffShip, exportVars, allVars

\* Whoever asked for the export, and however many pages posted their token for
\* it, it leaves no transition and no listed token behind.
THEOREM NothingLeftHolds == ExportSpec => []NothingLeft
<1>1. ExportInit => TypeOK /\ OrderInv
  BY ExportInitTyped, InitOrder
<1>2. (TypeOK /\ OrderInv) /\ [ExportNext]_allVars => (TypeOK /\ OrderInv)'
  BY ExportNextTyped, NextOrder
<1>3. TypeOK /\ OrderInv => NothingLeft
  BY QuietIsClean DEF OrderInv, NothingLeft
<1> QED
  BY <1>1, <1>2, <1>3, PTL DEF ExportSpec

-----------------------------------------------------------------------------
(* The calendar.  Days, weeks and months are found by division, and Spans  *)
(* by multiplication, of unknown numbers: their facts are stated by name.  *)

LEMMA Division ==
    ASSUME NEW n \in Nat, NEW d \in Nat \ {0}
    PROVE  /\ n \div d \in Nat /\ (n \div d) * d <= n /\ n < (n \div d) * d + d
           /\ n % d \in 0..(d - 1) /\ n - (n \div d) * d = n % d
OBVIOUS

LEMMA Quotient ==
    ASSUME NEW n \in Nat, NEW d \in Nat \ {0}, NEW q \in Nat, q * d <= n
    PROVE  q <= n \div d
OBVIOUS

LEMMA Products ==
    ASSUME NEW a \in Nat, NEW b \in Nat, NEW d \in Nat
    PROVE  /\ a * d \in Nat /\ (a + b) * d = a * d + b * d
           /\ a <= b => a * d <= b * d
OBVIOUS

LEMMA Kinds ==
    ASSUME NEW s \in Schedule
    PROVE  /\ s.type \in Units /\ s.freq \in Nat \ {0} /\ s.day \in 0..(Week - 1)
           /\ s.date \in 0..(Month - 1) /\ s.at \in 0..(Day - 1)
           /\ Day \in Nat \ {0, 1} /\ Week \in Nat \ {0} /\ Month \in Nat \ {0}
BY CalendarAssumption DEF Schedule

LEMMA SpanTyped ==
    ASSUME NEW s \in Schedule
    PROVE  Span(s) \in Nat \ {0} /\ Span(s) * Day \in Nat /\ Span(s) * Day >= Day
<1>1. Span(s) \in Nat \ {0}
  BY Kinds DEF Span, Units
<1>2. 1 * Day <= Span(s) * Day
  BY <1>1, Kinds, Products
<1> QED
  BY <1>1, <1>2, Kinds, Products

LEMMA Days ==
    ASSUME NEW n \in Nat
    PROVE  /\ DayOf(n) \in Nat /\ DayOf(n) * Day <= n /\ n < DayOf(n) * Day + Day
           /\ n % Day = n - DayOf(n) * Day
           /\ \A q \in Nat : q * Day <= n => q <= DayOf(n)
<1>1. Day \in Nat \ {0}
  BY CalendarAssumption
<1> QED
  BY <1>1, Division, Quotient DEF DayOf

LEMMA SameRest ==
    ASSUME NEW n \in Nat, NEW d \in Nat \ {0}, NEW a \in 0..(d - 1), (a - n) % d = 0
    PROVE  n % d = a
<1> DEFINE q == (a - n) \div d
           p == n \div d
           r == n % d
<1>1. q \in Int /\ a - n = q * d /\ a \in Nat /\ a < d
  OBVIOUS
<1>2. p \in Int /\ n - p * d = r /\ r \in 0..(d - 1)
  BY Division
<1> HIDE DEF q, p, r
<1>3. \A y, z \in Int : (y + z) * d = y * d + z * d
  OBVIOUS
<1>4. \A z \in Int : z * d \in Int /\ (z >= 1 => z * d >= d) /\ (z <= -1 => z * d <= -d)
  OBVIOUS
<1>5. p + q \in Int /\ (p + q) * d = a - r
  <2>1. (p + q) * d = p * d + q * d /\ p * d \in Int /\ q * d \in Int
    BY <1>1, <1>2, <1>3, <1>4
  <2> QED
    BY <1>1, <1>2, <2>1
<1>6. p + q = 0
  BY <1>1, <1>2, <1>4, <1>5
<1>7. a - r = 0
  BY <1>5, <1>6
<1> QED
  BY <1>1, <1>2, <1>7 DEF r

LEMMA NextDay ==
    ASSUME NEW l \in Nat, NEW s \in Schedule, s.type = "day"
    PROVE  /\ setDaySchedule(l, s) < l + Span(s) * Day + Day
           /\ \A n \in Nat : setDaySchedule(l, s) <= n => DayOf(l) < DayOf(n)
<1> DEFINE d == DayOf(l)
<1>1. d \in Nat /\ d * Day <= l
  BY Days
<1>2. Span(s) = s.freq
  BY Kinds DEF Span
<1>3. (d + s.freq) * Day = d * Day + s.freq * Day /\ s.freq * Day \in Nat
  BY <1>1, Kinds, Products
<1>4. ASSUME NEW n \in Nat, setDaySchedule(l, s) <= n
      PROVE  d < DayOf(n)
  <2>1. (d + 1) * Day <= (d + s.freq) * Day
    BY <1>1, Kinds, Products
  <2>2. (d + 1) * Day <= n
    BY <1>1, <1>3, <1>4, <2>1, Kinds DEF setDaySchedule
  <2> QED
    BY <1>1, <2>2, Days
<1> QED
  BY <1>1, <1>2, <1>3, <1>4, Kinds DEF setDaySchedule

LEMMA NextWeek ==
    ASSUME NEW l \in Nat, NEW s \in Schedule, s.type = "week"
    PROVE  /\ setWeekSchedule(l, s) < l + Span(s) * Day + Day
           /\ \A n \in Nat : setWeekSchedule(l, s) <= n =>
                \/ DayOf(l) < DayOf(n)
                \/ DayOf(l) = DayOf(n) /\ s.freq = 1 /\ DayOf(n) % Week = s.day
<1> DEFINE d == DayOf(l)
           k == (s.day - d) % Week
           w == (s.freq - 1) * Week
<1>1. d \in Nat /\ d * Day <= l
  BY Days
<1>2. k \in 0..(Week - 1)
  BY <1>1, Kinds
<1>3. Span(s) = s.freq * Week /\ w \in Nat /\ s.freq * Week = w + Week
  <2>1. Span(s) = s.freq * Week
    BY Kinds DEF Span
  <2>2. s.freq - 1 \in Nat /\ (s.freq - 1) + 1 = s.freq
    BY Kinds
  <2>3. ((s.freq - 1) + 1) * Week = w + 1 * Week /\ w \in Nat
    BY <2>2, Kinds, Products
  <2> QED
    BY <2>1, <2>2, <2>3, Kinds
<1>4. setWeekSchedule(l, s) = (d + k + w) * Day + s.at
  BY DEF setWeekSchedule
<1> HIDE DEF w, k, d
<1>5. setWeekSchedule(l, s) < l + Span(s) * Day + Day
  <2>1. k + w <= w + Week /\ k + w \in Nat /\ w + Week \in Nat
    BY <1>2, <1>3, Kinds
  <2>2. (k + w) * Day <= Span(s) * Day /\ (k + w) * Day \in Nat /\ Span(s) * Day \in Nat
    BY <1>3, <2>1, Kinds, Products
  <2>3. (d + (k + w)) * Day = d * Day + (k + w) * Day /\ d + k + w = d + (k + w)
    BY <1>1, <1>2, <1>3, <2>1, Kinds, Products
  <2> QED
    BY <1>1, <1>4, <2>2, <2>3, Kinds, Products
<1>6. ASSUME NEW n \in Nat, setWeekSchedule(l, s) <= n, ~(d < DayOf(n))
      PROVE  d = DayOf(n) /\ s.freq = 1 /\ DayOf(n) % Week = s.day
  <2>1. d + k + w \in Nat /\ (d + k + w) * Day \in Nat
    BY <1>1, <1>2, <1>3, Kinds, Products
  <2>2. (d + k + w) * Day <= n
    BY <1>4, <1>6, <2>1, Kinds
  <2>3. d + k + w <= DayOf(n) /\ DayOf(n) \in Nat
    BY <2>1, <2>2, Days
  <2>4. k = 0 /\ w = 0 /\ d = DayOf(n)
    <3>1. k \in Nat /\ w \in Nat /\ ~(d < DayOf(n))
      BY <1>2, <1>3, <1>6, Kinds DEF d
    <3> QED
      BY <1>1, <2>3, <3>1
  <2>5. s.freq = 1
    <3>1. ASSUME s.freq # 1 PROVE FALSE
      <4>1. 1 * Week <= (s.freq - 1) * Week
        BY <3>1, Kinds, Products
      <4> QED
        BY <2>4, <4>1, Kinds DEF w
    <3> QED
      BY <3>1
  <2>6. (s.day - d) % Week = 0
    BY <2>4 DEF k
  <2>7. d % Week = s.day
    BY <1>1, <2>6, Kinds, SameRest
  <2> QED
    BY <2>4, <2>5, <2>7
<1> QED
  BY <1>5, <1>6 DEF d

LEMMA NextMonth ==
    ASSUME NEW l \in Nat, NEW s \in Schedule, s.type = "month"
    PROVE  /\ setMonthSchedule(l, s) < l + Span(s) * Day + Day
           /\ \A n \in Nat : setMonthSchedule(l, s) <= n =>
                \/ DayOf(l) < DayOf(n)
                \/ DayOf(l) = DayOf(n) /\ DayOf(n) % Month = s.date /\ l % Day <= s.at
<1> DEFINE d == DayOf(l)
           m == (d \div Month) * Month
           next == (m + s.date) * Day + s.at
<1>1. d \in Nat /\ d * Day <= l /\ l < d * Day + Day /\ l % Day = l - d * Day
  BY Days
<1>2. m \in Nat /\ m <= d /\ d < m + Month /\ d % Month = d - m
  <2>1. Month \in Nat \ {0} /\ d \in Nat
    BY <1>1, Kinds
  <2>2. /\ d \div Month \in Nat /\ m <= d /\ d < m + Month /\ d - m = d % Month
        /\ d % Month \in 0..(Month - 1)
    BY <2>1, Division
  <2>3. m \in Nat
    BY <2>1, <2>2
  <2> HIDE DEF m, d
  <2> QED
    BY <2>1, <2>2, <2>3
<1>3. Span(s) = s.freq * Month /\ Month * Day <= Span(s) * Day
      /\ Month * Day \in Nat /\ Span(s) * Day \in Nat /\ Span(s) * Day = s.freq * Month * Day
  <2>1. Span(s) = s.freq * Month
    BY Kinds DEF Span
  <2>2. 1 * Month <= s.freq * Month /\ s.freq * Month \in Nat
    BY Kinds, Products
  <2> QED
    BY <2>1, <2>2, Kinds, Products
<1>4. setMonthSchedule(l, s) = IF next < l THEN next + s.freq * Month * Day ELSE next
  BY DEF setMonthSchedule
<1> HIDE DEF m, d
<1>5. /\ m * Day <= d * Day /\ m * Day \in Nat /\ s.date * Day \in Nat
      /\ next = m * Day + s.date * Day + s.at
  BY <1>1, <1>2, Kinds, Products
<1>6. s.date * Day + Day <= Month * Day
  <2>1. (s.date + 1) * Day <= Month * Day /\ (s.date + 1) * Day = s.date * Day + 1 * Day
    BY Kinds, Products
  <2> QED
    BY <2>1, Kinds
<1>7. setMonthSchedule(l, s) < l + Span(s) * Day + Day
  BY <1>1, <1>3, <1>4, <1>5, <1>6, Kinds
<1>8. ASSUME NEW n \in Nat, setMonthSchedule(l, s) <= n, ~(d < DayOf(n))
      PROVE  d = DayOf(n) /\ DayOf(n) % Month = s.date /\ l % Day <= s.at
  <2>1. DayOf(n) \in Nat /\ DayOf(n) <= d
    BY <1>1, <1>8, Days DEF d
  <2>2. CASE next < l
    <3>1. (m + Month) * Day = m * Day + Month * Day
      BY <1>2, Kinds, Products
    <3>2. (m + Month) * Day <= n
      BY <1>3, <1>4, <1>5, <1>8, <2>2, <3>1, Kinds
    <3>3. m + Month <= DayOf(n)
      BY <1>2, <3>2, Kinds, Days
    <3> QED
      BY <1>1, <1>2, <2>1, <3>3, Kinds
  <2>3. CASE ~(next < l)
    <3>1. next <= n
      BY <1>4, <1>8, <2>3
    <3>2. m + s.date \in Nat /\ (m + s.date) * Day <= n
      BY <1>2, <1>5, <3>1, Kinds
    <3>3. m + s.date <= DayOf(n)
      BY <3>2, Days
    <3>4. d <= m + s.date
      <4>1. ASSUME m + s.date + 1 <= d PROVE FALSE
        <5>1. (m + s.date + 1) * Day <= d * Day
          BY <1>1, <3>2, <4>1, Kinds, Products
        <5>2. (m + s.date + 1) * Day = m * Day + s.date * Day + Day
          BY <1>2, <1>5, Kinds, Products
        <5> QED
          BY <1>1, <1>5, <2>3, <5>1, <5>2, Kinds
      <4> QED
        BY <1>1, <3>2, <4>1
    <3>5. d = DayOf(n) /\ d = m + s.date
      BY <1>1, <2>1, <3>2, <3>3, <3>4
    <3>6. l - d * Day <= s.at
      <4>1. d * Day = m * Day + s.date * Day
        BY <1>2, <3>5, Kinds, Products
      <4> QED
        BY <1>1, <1>5, <2>3, <4>1, Kinds
    <3> QED
      BY <1>1, <1>2, <3>5, <3>6, Kinds
  <2> QED
    BY <2>2, <2>3
<1> QED
  BY <1>7, <1>8 DEF d

\* The next pack is no later than a day after the span of the schedule, and on
\* a later day than the last one, but for the schedules that Rapid names.
LEMMA NextPackInTime ==
    ASSUME now \in Nat, NEW c \in Conf
    PROVE  /\ NextPack(c) < c.last + Span(c.schedule) * Day + Day
           /\ NextPack(c) <= now => \/ DayOf(c.last) < DayOf(now)
                                    \/ DayOf(c.last) = DayOf(now) /\ Rapid(c)
<1>1. c.last \in Nat /\ c.schedule \in Schedule
  BY DEF Conf
<1>2. c.schedule.type \in {"day", "week", "month"}
  BY <1>1, Kinds DEF Units
<1>3. CASE c.schedule.type = "day"
  BY <1>1, <1>3, NextDay DEF NextPack
<1>4. CASE c.schedule.type = "week"
  BY <1>1, <1>4, NextWeek DEF NextPack, Rapid
<1>5. CASE c.schedule.type = "month"
  BY <1>1, <1>5, NextMonth DEF NextPack, Rapid
<1> QED
  BY <1>2, <1>3, <1>4, <1>5
-----------------------------------------------------------------------------
(* Packs in time *)

\* When a timer wakes, or woke.
WakeAt(t) == IF timer[t].pc = "sleep" THEN timer[t].due ELSE now - timer[t].spent

\* The latest moment for a timer of schedule s to wake is before this one.
Limit(s) == Since + (Span(s) + 1) * Day + h.failed * (2 + MaxPack)
Underway(s) == \E t \in Active : WakeAt(t) < Limit(s)

\* When the loop looks at the schedule next.
NextQueue ==
    IF loop.tick \/ loop.bus THEN now ELSE IF now % 2 = loop.phase THEN now + 2 ELSE now + 1

\* A schedule that is on has a timer that wakes in time, or the loop looks at
\* it in time; and each timer may put back the schedule of its copy.
Planned ==
    /\ conf.on => Underway(conf.schedule) \/ NextQueue < Limit(conf.schedule)
    /\ \A t \in Active : timer[t].copy.on => Underway(timer[t].copy.schedule)

Recent == Latest(h.packed, h.recorded)
Dated == conf.last <= Recent /\ \A t \in Active : timer[t].copy.last <= Recent
Punctual == \A t \in Active : timer[t].pc = "sleep" => now <= timer[t].due
InTimeInv == Planned /\ Dated /\ Punctual

LEMMA Moments ==
    PackTypeOK =>
        /\ now \in Nat /\ Recent \in 0..now /\ Since \in 0..now /\ Recent <= Since
        /\ h.failed \in Nat /\ MaxPack \in Nat
        /\ conf \in Conf /\ conf.schedule \in Schedule /\ conf.last \in 0..now
        /\ \A t \in Timers : /\ timer[t] \in Slot /\ timer[t].copy \in Conf
                             /\ timer[t].copy.schedule \in Schedule
                             /\ timer[t].copy.last \in 0..now
BY BoundsAssumption DEF PackTypeOK, Recent, Since, Latest, History, Conf, Slot

LEMMA LimitIs ==
    PackTypeOK =>
        \A s \in Schedule :
            /\ Limit(s) = Since + Span(s) * Day + Day + h.failed * (2 + MaxPack)
            /\ Span(s) * Day \in Nat /\ Span(s) * Day >= Day /\ Day \in Nat /\ Day >= 2
            /\ h.failed * (2 + MaxPack) \in Nat /\ Limit(s) \in Nat
<1> SUFFICES ASSUME PackTypeOK, NEW s \in Schedule
             PROVE  /\ Limit(s) = Since + Span(s) * Day + Day + h.failed * (2 + MaxPack)
                    /\ Span(s) * Day \in Nat /\ Span(s) * Day >= Day
                    /\ Day \in Nat /\ Day >= 2
                    /\ h.failed * (2 + MaxPack) \in Nat /\ Limit(s) \in Nat
  OBVIOUS
<1>1. /\ h.failed \in Nat /\ 2 + MaxPack \in Nat /\ Since \in Nat
      /\ Day \in Nat /\ Day >= 2 /\ Span(s) \in Nat /\ Span(s) * Day \in Nat
      /\ Span(s) * Day >= Day
  BY Moments, SpanTyped, Kinds
<1>2. (Span(s) + 1) * Day = Span(s) * Day + 1 * Day /\ h.failed * (2 + MaxPack) \in Nat
  BY <1>1, Products
<1> QED
  BY <1>1, <1>2 DEF Limit

LEMMA Times ==
    PackTypeOK /\ Punctual =>
        /\ NextQueue \in now..(now + 2)
        /\ \A t \in Active : WakeAt(t) \in Int /\ WakeAt(t) <= now + 2 /\ now <= WakeAt(t) + MaxPack
<1> SUFFICES ASSUME PackTypeOK, Punctual
             PROVE  /\ NextQueue \in now..(now + 2)
                    /\ \A t \in Active : /\ WakeAt(t) \in Int /\ WakeAt(t) <= now + 2
                                         /\ now <= WakeAt(t) + MaxPack
  OBVIOUS
<1>1. now \in Nat /\ MaxPack \in Nat
  BY Moments
<1>2. NextQueue \in now..(now + 2)
  BY <1>1 DEF NextQueue
<1>3. ASSUME NEW t \in Active
      PROVE  WakeAt(t) \in Int /\ WakeAt(t) <= now + 2 /\ now <= WakeAt(t) + MaxPack
  <2>1. timer[t].due \in 0..(now + 2) /\ timer[t].spent \in 0..MaxPack
    BY Moments DEF Active, Slot
  <2> QED
    BY <1>1, <2>1 DEF WakeAt, Punctual
<1> QED
  BY <1>2, <1>3

LEMMA TimesNext ==
    (PackTypeOK /\ Punctual)' =>
        (/\ NextQueue \in now..(now + 2)
         /\ \A t \in Active : WakeAt(t) \in Int /\ WakeAt(t) <= now + 2 /\ now <= WakeAt(t) + MaxPack)'
BY Times, PTL

\* A plan keeps its word: the ship is packed in time.
LEMMA PlannedInTime == PackTypeOK /\ InTimeInv => PackedInTime
<1> SUFFICES ASSUME PackTypeOK, InTimeInv, conf.on
             PROVE  now <= Since + (Span(conf.schedule) + 1) * Day + (1 + h.failed) * (2 + MaxPack)
  BY DEF PackedInTime
<1>1. now <= Limit(conf.schedule) + MaxPack
  <2>1. Limit(conf.schedule) \in Nat /\ now \in Nat /\ MaxPack \in Nat
    BY Moments, LimitIs
  <2>2. CASE NextQueue < Limit(conf.schedule)
    BY <2>1, <2>2, Times DEF InTimeInv
  <2>3. CASE Underway(conf.schedule)
    BY <2>1, <2>3, Times DEF InTimeInv, Underway
  <2> QED
    BY <2>2, <2>3 DEF InTimeInv, Planned
<1>2. (1 + h.failed) * (2 + MaxPack) = 1 * (2 + MaxPack) + h.failed * (2 + MaxPack)
  BY Moments, Products
<1>3. /\ Since + (Span(conf.schedule) + 1) * Day \in Nat
      /\ h.failed * (2 + MaxPack) \in Nat /\ MaxPack \in Nat /\ now \in Nat
  <2>1. Span(conf.schedule) + 1 \in Nat /\ Day \in Nat /\ Since \in Nat /\ 2 + MaxPack \in Nat
    BY Moments, SpanTyped, Kinds
  <2> QED
    BY <2>1, Moments, Products
<1> QED
  BY <1>1, <1>2, <1>3 DEF Limit

LEMMA MomentsNext ==
    PackTypeOK' =>
        (now \in Nat /\ Recent \in 0..now /\ Since \in 0..now /\ Recent <= Since)'
<1>1. PackTypeOK => now \in Nat /\ Recent \in 0..now /\ Since \in 0..now /\ Recent <= Since
  BY Moments
<1> QED
  BY <1>1, PTL

LEMMA LimitNext ==
    PackTypeOK' =>
        (\A s \in Schedule :
            /\ Limit(s) = Since + Span(s) * Day + Day + h.failed * (2 + MaxPack)
            /\ Span(s) * Day \in Nat /\ Span(s) * Day >= Day /\ Day \in Nat /\ Day >= 2
            /\ h.failed * (2 + MaxPack) \in Nat /\ Limit(s) \in Nat)'
BY LimitIs, PTL

LEMMA FreshLimit ==
    ASSUME PackTypeOK', Since' = now', NEW s \in Schedule
    PROVE  now' + 2 < Limit(s)'
BY LimitNext, MomentsNext

LEMMA FailedLimit ==
    ASSUME PackTypeOK, PackTypeOK', Since' = Since, h'.failed = h.failed + 1, NEW s \in Schedule
    PROVE  Limit(s)' = Limit(s) + 2 + MaxPack
<1>1. (h.failed + 1) * (2 + MaxPack) = h.failed * (2 + MaxPack) + 1 * (2 + MaxPack)
  BY Moments, Products
<1>2. /\ Limit(s) = Since + Span(s) * Day + Day + h.failed * (2 + MaxPack)
      /\ h.failed * (2 + MaxPack) \in Nat /\ Since \in Nat /\ MaxPack \in Nat
      /\ Span(s) * Day \in Nat /\ Day \in Nat
  BY LimitIs, Moments
<1>3. Limit(s)' = Since' + Span(s) * Day + Day + h'.failed * (2 + MaxPack)
  BY LimitNext
<1> QED
  BY <1>1, <1>2, <1>3

\* However late its timer fails, a plan leaves the loop time to make another.
LEMMA PlanIsLoose ==
    ASSUME PackTypeOK, Punctual, NEW s \in Schedule, Underway(s) \/ NextQueue < Limit(s)
    PROVE  now < Limit(s) + MaxPack
<1>1. Limit(s) \in Nat /\ now \in Nat /\ MaxPack \in Nat
  BY Moments, LimitIs
<1> QED
  BY <1>1, Times DEF Underway

\* Two moments are enough for the loop, and for a timer that sleeps.
Loose ==
    /\ conf.on => now + 2 < Limit(conf.schedule)
    /\ \A t \in Active : timer[t].copy.on => now + 2 < Limit(timer[t].copy.schedule)

LEMMA LooseIsPlan == PackTypeOK /\ Punctual /\ Loose => Planned
<1> SUFFICES ASSUME PackTypeOK, Punctual, Loose PROVE Planned
  OBVIOUS
<1>1. now \in Nat /\ NextQueue \in Int /\ NextQueue <= now + 2
  BY Moments, Times
<1>2. ASSUME conf.on PROVE NextQueue < Limit(conf.schedule)
  <2>1. now + 2 < Limit(conf.schedule) /\ Limit(conf.schedule) \in Nat
    BY <1>2, Moments, LimitIs DEF Loose
  <2> QED
    BY <1>1, <2>1
<1>3. ASSUME NEW t \in Active, timer[t].copy.on PROVE Underway(timer[t].copy.schedule)
  <2>1. timer[t].copy.schedule \in Schedule
    BY Moments DEF Active
  <2>2. now + 2 < Limit(timer[t].copy.schedule) /\ Limit(timer[t].copy.schedule) \in Nat
    BY <1>3, <2>1, LimitIs DEF Loose
  <2>3. WakeAt(t) \in Int /\ WakeAt(t) <= now + 2
    BY Times
  <2> QED
    BY <1>1, <2>2, <2>3 DEF Underway
<1> QED
  BY <1>2, <1>3 DEF Planned

LEMMA LooseNext == (PackTypeOK /\ Punctual /\ Loose)' => Planned'
BY LooseIsPlan, PTL

LEMMA SchedulesNext ==
    (PackTypeOK => /\ conf.schedule \in Schedule
                   /\ \A t \in Active : timer[t].copy.schedule \in Schedule)'
<1>1. PackTypeOK => /\ conf.schedule \in Schedule
                    /\ \A t \in Active : timer[t].copy.schedule \in Schedule
  BY Moments DEF Active
<1> QED
  BY <1>1, PTL

\* After a pack, a record or a new schedule there is time for everything.
LEMMA FreshIsPlan ==
    ASSUME PackTypeOK', Punctual', Since' = now'
    PROVE  Planned'
<1>1. Loose'
  BY SchedulesNext, FreshLimit DEF Loose
<1> QED
  BY <1>1, LooseNext

\* A step that moves neither time, the loop nor a timer.
LEMMA QuietInTime ==
    ASSUME InTimeInv, UNCHANGED <<now, timer>>,
           loop'.tick = loop.tick, loop'.bus = loop.bus, loop'.phase = loop.phase,
           h'.packed = h.packed, h'.recorded = h.recorded, h'.edited = h.edited,
           h'.failed = h.failed,
           conf'.on => conf.on, conf'.schedule = conf.schedule, conf'.last = conf.last
    PROVE  InTimeInv'
<1>1. /\ Active' = Active /\ Since' = Since /\ Recent' = Recent /\ NextQueue' = NextQueue
      /\ \A t : WakeAt(t)' = WakeAt(t)
      /\ \A s : Limit(s)' = Limit(s)
  BY DEF Active, Since, Recent, NextQueue, WakeAt, Limit
<1>2. Punctual'
  BY <1>1 DEF InTimeInv, Punctual
<1>3. Dated'
  BY <1>1 DEF InTimeInv, Dated
<1>4. \A s : Underway(s)' = Underway(s)
  BY <1>1 DEF Underway
<1>5. Planned'
  BY <1>1, <1>4 DEF InTimeInv, Planned
<1> QED
  BY <1>2, <1>3, <1>5 DEF InTimeInv

LEMMA SchedulePackInTime ==
    ASSUME PackTypeOK, PackTypeOK', InTimeInv, SchedulePack
    PROVE  InTimeInv'
<1>1. UNCHANGED <<now, timer>> /\ h \in History /\ now \in Nat /\ conf \in Conf
  BY DEF SchedulePack, PackTypeOK
<1>2. h'.packed = h.packed /\ h'.recorded = h.recorded /\ h'.edited = now
  BY <1>1 DEF SchedulePack, History
<1>3. Recent' = Recent /\ Since' = now'
  <2>1. Recent' = Recent /\ Recent \in 0..now
    BY <1>2, Moments DEF Recent
  <2> QED
    BY <1>1, <1>2, <2>1 DEF Since, Recent, Latest
<1>4. conf'.last = conf.last
  BY <1>1 DEF SchedulePack, Set, Conf
<1>5. Dated' /\ Punctual'
  BY <1>1, <1>3, <1>4 DEF InTimeInv, Dated, Punctual, Active
<1> QED
  BY <1>3, <1>5, FreshIsPlan DEF InTimeInv

LEMMA FreeSlots ==
    ASSUME PackTypeOK, NEW t \in Timers, Free(t)
    PROVE  \A u \in Active' : u \in Active /\ timer'[u] = timer[u]
BY DEF Free, PackTypeOK, Active, Idle

\* A timer that fails, or a restart that ends timers: one more attempt.
LEMMA FailedInTime ==
    ASSUME PackTypeOK, PackTypeOK', InTimeInv, UNCHANGED now,
           h'.packed = h.packed, h'.recorded = h.recorded, h'.edited = h.edited,
           h'.failed = h.failed + 1,
           conf'.on = conf.on, conf'.schedule = conf.schedule, conf'.last = conf.last,
           \A u \in Active' : u \in Active /\ timer'[u] = timer[u]
    PROVE  InTimeInv'
<1>1. Since' = Since /\ Recent' = Recent
  BY DEF Since, Recent
<1>2. Dated' /\ Punctual'
  BY <1>1 DEF InTimeInv, Dated, Punctual
<1>3. ASSUME NEW s \in Schedule, Underway(s) \/ NextQueue < Limit(s)
      PROVE  now' + 2 < Limit(s)'
  <2>1. now < Limit(s) + MaxPack
    BY <1>3, PlanIsLoose DEF InTimeInv
  <2>2. Limit(s)' = Limit(s) + 2 + MaxPack
    BY <1>1, FailedLimit
  <2>3. now \in Nat /\ MaxPack \in Nat /\ Limit(s) \in Nat /\ now' = now
    BY Moments, LimitIs
  <2> QED
    BY <2>1, <2>2, <2>3
<1>4. ASSUME conf'.on PROVE now' + 2 < Limit(conf.schedule)'
  <2>1. conf.schedule \in Schedule /\ (Underway(conf.schedule) \/ NextQueue < Limit(conf.schedule))
    BY <1>4, Moments DEF InTimeInv, Planned
  <2> QED
    BY <1>3, <2>1
<1>5. ASSUME NEW u \in Active', timer'[u].copy.on
      PROVE  now' + 2 < Limit(timer[u].copy.schedule)'
  <2>1. u \in Active /\ timer'[u] = timer[u]
    OBVIOUS
  <2>2. timer[u].copy.schedule \in Schedule /\ Underway(timer[u].copy.schedule)
    BY <1>5, <2>1, Moments DEF InTimeInv, Planned, Active
  <2> QED
    BY <1>3, <2>1, <2>2
<1>6. Planned'
  BY <1>2, <1>4, <1>5, LooseNext DEF Loose
<1> QED
  BY <1>2, <1>6 DEF InTimeInv

LEMMA DatedNow == PackTypeOK /\ Recent = now => Dated
<1> SUFFICES ASSUME PackTypeOK, Recent = now PROVE Dated
  OBVIOUS
<1>1. conf.last <= now
  BY Moments
<1>2. \A t \in Active : timer[t].copy.last <= now
  BY Moments DEF Active
<1> QED
  BY <1>1, <1>2 DEF Dated

LEMMA DatedNext == (PackTypeOK /\ Recent = now)' => Dated'
BY DatedNow, PTL

\* A pack, or a record of one.
LEMMA RecordedInTime ==
    ASSUME PackTypeOK, PackTypeOK', InTimeInv, UNCHANGED now, Recent' = now,
           \A u \in Active' : u \in Active /\ timer'[u] = timer[u]
    PROVE  InTimeInv'
<1>1. Since' = now'
  BY MomentsNext
<1>2. Punctual'
  BY DEF InTimeInv, Punctual
<1>3. Dated'
  BY DatedNext
<1> QED
  BY <1>1, <1>2, <1>3, FreshIsPlan DEF InTimeInv

LEMMA WakeInTime ==
    ASSUME PackTypeOK, PackTypeOK', InTimeInv, NEW t \in Timers, Wake(t)
    PROVE  InTimeInv'
<1>1. /\ now' = now /\ loop' = loop /\ t \in Active /\ timer[t].pc = "sleep"
      /\ timer[t].due <= now /\ timer[t] \in Slot /\ timer[t].copy \in Conf /\ h \in History
  BY Moments DEF Wake, Active, PackTypeOK
<1>2. h'.packed = h.packed /\ h'.recorded = h.recorded /\ h'.edited = h.edited
      /\ h'.failed = h.failed
  BY <1>1 DEF Wake, History
<1>3. PICK pc \in {"start", "send"} :
        timer' = [timer EXCEPT ![t] = [timer[t] EXCEPT !.pc = pc]]
  BY DEF Wake
<1>4. /\ [timer[t] EXCEPT !.pc = pc].copy = timer[t].copy
      /\ [timer[t] EXCEPT !.pc = pc].pc = pc
      /\ [timer[t] EXCEPT !.pc = pc].spent = timer[t].spent
  BY <1>1 DEF Slot
<1>5. /\ timer'[t].copy = timer[t].copy /\ timer'[t].pc = pc /\ timer'[t].spent = timer[t].spent
      /\ \A u \in Timers : u # t => timer'[u] = timer[u]
  BY <1>3, <1>4 DEF PackTypeOK
<1>6. Active' = Active
  BY <1>1, <1>5 DEF Active
<1>7. /\ Since' = Since /\ Recent' = Recent /\ NextQueue' = NextQueue
      /\ \A s : Limit(s)' = Limit(s)
  BY <1>1, <1>2 DEF Since, Recent, NextQueue, Limit
<1>8. ASSUME NEW u \in Active PROVE WakeAt(u)' <= WakeAt(u) /\ WakeAt(u)' \in Int /\ WakeAt(u) \in Int
  <2>1. WakeAt(u) \in Int
    BY <1>8, Times DEF InTimeInv
  <2>2. CASE u = t
    <3>1. now \in Nat /\ timer[t].spent \in Nat /\ timer[t].due \in Nat /\ now <= timer[t].due
      BY <1>1, Moments DEF InTimeInv, Punctual, Slot
    <3> QED
      BY <1>1, <1>5, <2>2, <3>1 DEF WakeAt
  <2>3. CASE u # t
    BY <1>1, <1>5, <2>1, <2>3 DEF WakeAt, Active
  <2> QED
    BY <2>2, <2>3
<1>9. ASSUME NEW s \in Schedule, Underway(s) PROVE Underway(s)'
  <2>1. PICK u \in Active : WakeAt(u) < Limit(s)
    BY <1>9 DEF Underway
  <2>2. Limit(s) \in Nat /\ WakeAt(u)' <= WakeAt(u) /\ WakeAt(u)' \in Int /\ WakeAt(u) \in Int
    BY <1>8, LimitIs
  <2>3. WakeAt(u)' < Limit(s)'
    BY <1>7, <2>1, <2>2
  <2> QED
    BY <1>6, <2>3 DEF Underway
<1>10. \/ conf' = conf
       \/ /\ conf'.on = timer[t].copy.on /\ conf'.schedule = timer[t].copy.schedule
          /\ conf'.last = timer[t].copy.last
  BY <1>1 DEF Wake, Conf
<1>11. Dated'
  BY <1>1, <1>5, <1>6, <1>7, <1>10 DEF InTimeInv, Dated, Active
<1>12. Punctual'
  BY <1>1, <1>5, <1>6 DEF InTimeInv, Punctual, Active
<1>13. ASSUME conf'.on
       PROVE  Underway(conf.schedule)' \/ NextQueue' < Limit(conf.schedule)'
  <2>1. CASE conf' = conf
    <3>1. conf.schedule \in Schedule /\ (Underway(conf.schedule) \/ NextQueue < Limit(conf.schedule))
      BY <1>13, <2>1, Moments DEF InTimeInv, Planned
    <3> QED
      BY <1>7, <1>9, <2>1, <3>1
  <2>2. CASE conf'.on = timer[t].copy.on /\ conf'.schedule = timer[t].copy.schedule
    <3>1. timer[t].copy.schedule \in Schedule /\ Underway(timer[t].copy.schedule)
      BY <1>1, <1>13, <2>2, Moments DEF InTimeInv, Planned
    <3> QED
      BY <1>9, <2>2, <3>1
  <2> QED
    BY <1>10, <2>1, <2>2
<1>14. ASSUME NEW u \in Active', timer'[u].copy.on PROVE Underway(timer[u].copy.schedule)'
  <2>1. u \in Timers /\ u \in Active /\ timer'[u].copy = timer[u].copy
    BY <1>5, <1>6 DEF Active
  <2>2. timer[u].copy.schedule \in Schedule /\ Underway(timer[u].copy.schedule)
    BY <1>14, <2>1, Moments DEF InTimeInv, Planned
  <2> QED
    BY <1>9, <2>1, <2>2
<1> QED
  BY <1>11, <1>12, <1>13, <1>14 DEF InTimeInv, Planned

LEMMA PackedIs ==
    ASSUME h \in History
    PROVE  /\ Packed.packed = now /\ Packed.recorded = h.recorded
           /\ [Packed EXCEPT !.excused = TRUE].packed = now
           /\ [Packed EXCEPT !.excused = TRUE].recorded = h.recorded
           /\ [h EXCEPT !.recorded = now].packed = h.packed
           /\ [h EXCEPT !.recorded = now].recorded = now
BY DEF History, Packed

LEMMA FailureIs ==
    ASSUME PackTypeOK, NEW t \in Timers, PackError(t)
    PROVE  /\ h'.packed = h.packed /\ h'.recorded = h.recorded /\ h'.edited = h.edited
           /\ h'.failed = h.failed + 1 /\ h'.excused = TRUE /\ UNCHANGED now
BY DEF PackError, PackTypeOK, History

LEMMA TimerInTime ==
    ASSUME PackTypeOK, PackTypeOK', InTimeInv, NEW t \in Timers, TimerStep(t)
    PROVE  InTimeInv'
<1>1. h \in History /\ conf \in Conf /\ now \in Nat /\ Recent \in 0..now
      /\ h.packed \in 0..now /\ h.recorded \in 0..now
  BY Moments DEF PackTypeOK, History
<1>2. CASE WakeFails(t) \/ SendFails(t) \/ StartFails(t)
  <2>1. PackError(t)
    BY <1>2 DEF WakeFails, SendFails, StartFails
  <2>2. conf'.on = conf.on /\ conf'.schedule = conf.schedule /\ conf'.last = conf.last
    <3>1. \A b : LET c == [conf EXCEPT !.boot = b] IN
                 c.on = conf.on /\ c.schedule = conf.schedule /\ c.last = conf.last
      BY <1>1 DEF Conf
    <3> QED
      BY <1>2, <3>1 DEF WakeFails, SendFails, StartFails
  <2> QED
    BY <2>1, <2>2, FailureIs, FreeSlots, FailedInTime DEF PackError
<1>3. CASE SendPack(t) \/ StartVere(t) \/ StoreFails(t)
  <2>1. Free(t) /\ UNCHANGED now
    BY <1>3 DEF SendPack, StartVere, StoreFails
  <2>2. h' \in {Packed, [Packed EXCEPT !.excused = TRUE], [h EXCEPT !.recorded = now]}
    BY <1>3 DEF SendPack, StartVere, StoreFails
  <2>3. Recent' = now
    <3>1. /\ h'.packed \in {h.packed, now} /\ h'.recorded \in {h.recorded, now}
          /\ h'.packed = now \/ h'.recorded = now
      BY <1>1, <2>2, PackedIs
    <3> QED
      BY <1>1, <3>1 DEF Recent, Latest
  <2> QED
    BY <2>1, <2>3, FreeSlots, RecordedInTime
<1> QED
  BY <1>2, <1>3, WakeInTime DEF TimerStep

\* A new timer, for the schedule in force or asked for.
LEMMA StartTimerInTime ==
    ASSUME PackTypeOK, PackTypeOK', InTimeInv, NEW due \in now..(now + 2), NEW asked \in BOOLEAN,
           StartTimer(due, asked), UNCHANGED <<now, conf>>,
           conf.on => Underway(conf.schedule) \/ due < Limit(conf.schedule)
    PROVE  InTimeInv'
<1>1. now \in Nat /\ due \in 0..(now + 2) /\ h \in History
  BY Moments DEF PackTypeOK
<1>2. PICK t \in Timers \ Active :
        timer' = [timer EXCEPT ![t] = [pc |-> "sleep", due |-> due, spent |-> 0,
                                       copy |-> conf]]
  BY <1>1, StartTimerTyped
<1>3. /\ h'.packed = h.packed /\ h'.recorded = h.recorded /\ h'.edited = h.edited
      /\ h'.failed = h.failed
  BY <1>1 DEF StartTimer, History
<1>4. /\ Since' = Since /\ Recent' = Recent /\ \A s : Limit(s)' = Limit(s)
  BY <1>3 DEF Since, Recent, Limit
<1>5. /\ timer'[t].pc = "sleep" /\ timer'[t].due = due /\ timer'[t].copy = conf
      /\ \A u \in Timers : u # t => timer'[u] = timer[u]
  BY <1>2 DEF PackTypeOK
<1>6. Active' = Active \cup {t}
  BY <1>5 DEF Active
<1>7. \A u \in Active : timer'[u] = timer[u] /\ WakeAt(u)' = WakeAt(u)
  BY <1>5 DEF Active, WakeAt
<1>8. ASSUME NEW s, Underway(s) PROVE Underway(s)'
  BY <1>4, <1>6, <1>7, <1>8 DEF Underway
<1>9. ASSUME conf.on PROVE Underway(conf.schedule)'
  <2>1. CASE Underway(conf.schedule)
    BY <1>8, <2>1
  <2>2. CASE due < Limit(conf.schedule)
    <3>1. WakeAt(t)' < Limit(conf.schedule)'
      BY <1>4, <1>5, <2>2 DEF WakeAt
    <3> QED
      BY <1>6, <3>1 DEF Underway
  <2> QED
    BY <1>9, <2>1, <2>2
<1>10. ASSUME NEW u \in Active', timer'[u].copy.on PROVE Underway(timer[u].copy.schedule)'
  <2>1. CASE u = t
    BY <1>5, <1>9, <1>10, <2>1
  <2>2. CASE u \in Active
    <3>1. timer'[u] = timer[u] /\ Underway(timer[u].copy.schedule)
      BY <1>7, <1>10, <2>2 DEF InTimeInv, Planned
    <3> QED
      BY <1>8, <3>1
  <2> QED
    BY <1>6, <2>1, <2>2
<1>11. Planned'
  BY <1>9, <1>10 DEF Planned
<1>12. Dated'
  BY <1>4, <1>5, <1>6, <1>7 DEF InTimeInv, Dated
<1>13. Punctual'
  BY <1>1, <1>5, <1>6, <1>7 DEF InTimeInv, Punctual
<1> QED
  BY <1>11, <1>12, <1>13 DEF InTimeInv

LEMMA PackInTime ==
    ASSUME PackTypeOK, PackTypeOK', InTimeInv, Pack
    PROVE  InTimeInv'
<1>1. now \in Nat /\ now \in now..(now + 2)
  BY Moments
<1>2. conf.on => Underway(conf.schedule) \/ now < Limit(conf.schedule)
  <2>1. NextQueue \in now..(now + 2) /\ Limit(conf.schedule) \in Nat
    BY Times, Moments, LimitIs DEF InTimeInv
  <2> QED
    BY <1>1, <2>1 DEF InTimeInv, Planned
<1> QED
  BY <1>1, <1>2, StartTimerInTime DEF Pack

LEMMA NextPackLimit ==
    ASSUME PackTypeOK, Dated
    PROVE  NextPack(conf) \in Int /\ NextPack(conf) < Limit(conf.schedule)
<1>1. /\ now \in Nat /\ conf \in Conf /\ conf.schedule \in Schedule
      /\ Recent \in 0..now /\ Since \in 0..now /\ Recent <= Since /\ conf.last \in 0..now
  BY Moments
<1>2. NextPack(conf) \in Int /\ NextPack(conf) < conf.last + Span(conf.schedule) * Day + Day
  BY <1>1, NextPackTyped, NextPackInTime
<1>3. /\ Limit(conf.schedule) = Since + Span(conf.schedule) * Day + Day + h.failed * (2 + MaxPack)
      /\ Span(conf.schedule) * Day \in Nat /\ Day \in Nat /\ h.failed * (2 + MaxPack) \in Nat
  BY <1>1, LimitIs
<1> QED
  BY <1>1, <1>2, <1>3 DEF Dated

\* The loop starts a timer, or has time to look again.
LEMMA queuePackInTime ==
    ASSUME PackTypeOK, PackTypeOK', InTimeInv, queuePack, loop.tick \/ loop.bus
    PROVE  InTimeInv'
<1>1. NextPack(conf) \in Int /\ NextPack(conf) < Limit(conf.schedule) /\ now \in Nat
      /\ Limit(conf.schedule) \in Nat
  BY NextPackLimit, Moments, LimitIs DEF InTimeInv
<1>2. UNCHANGED <<now, conf>>
  BY DEF queuePack
<1>3. conf.on => Underway(conf.schedule) \/ now < Limit(conf.schedule)
  BY DEF InTimeInv, Planned, NextQueue
<1>4. CASE conf.on /\ Due(NextPack(conf))
  <2> DEFINE due == Latest(NextPack(conf), now)
  <2>1. due \in now..(now + 2) /\ (now < Limit(conf.schedule) => due < Limit(conf.schedule))
    BY <1>1, <1>4 DEF Due, Latest
  <2>2. StartTimer(due, FALSE)
    BY <1>4 DEF queuePack
  <2> QED
    BY <1>2, <1>3, <2>1, <2>2, StartTimerInTime
<1>5. CASE ~(conf.on /\ Due(NextPack(conf)))
  <2>1. UNCHANGED <<timer, h>>
    BY <1>5 DEF queuePack
  <2>2. /\ Active' = Active /\ Recent' = Recent /\ \A s : Limit(s)' = Limit(s)
        /\ \A t : WakeAt(t)' = WakeAt(t)
    BY <1>2, <2>1 DEF Active, Since, Recent, Limit, WakeAt
  <2>3. \A s : Underway(s)' = Underway(s)
    BY <2>2 DEF Underway
  <2>4. Punctual' /\ Dated'
    BY <1>2, <2>1, <2>2 DEF InTimeInv, Punctual, Dated
  <2>5. now' \in Nat /\ NextQueue' \in Int /\ NextQueue' <= now' + 2
    BY <2>4, TimesNext, MomentsNext
  <2>6. ASSUME conf.on PROVE NextQueue' < Limit(conf.schedule)'
    <3>1. now + 2 < NextPack(conf)
      BY <1>1, <1>5, <2>6 DEF Due
    <3>2. NextQueue' < Limit(conf.schedule)
      BY <1>1, <1>2, <2>5, <3>1
    <3> QED
      BY <1>2, <2>2, <3>2
  <2>7. Planned'
    BY <1>2, <2>1, <2>2, <2>3, <2>6 DEF InTimeInv, Planned
  <2> QED
    BY <2>4, <2>7 DEF InTimeInv
<1> QED
  BY <1>4, <1>5

LEMMA TickInTime ==
    ASSUME PackTypeOK, PackTypeOK', InTimeInv, Tick
    PROVE  InTimeInv'
<1>1. /\ now \in Nat /\ now' = now + 1 /\ UNCHANGED <<conf, h>>
      /\ ~loop.tick /\ ~loop.bus /\ loop \in Loop
  BY Moments DEF Tick, PackTypeOK
<1>2. /\ Since' = Since /\ Recent' = Recent /\ \A s : Limit(s)' = Limit(s)
  BY <1>1 DEF Since, Recent, Limit
<1>3. /\ Active' = Active
      /\ \A t \in Active : /\ timer'[t].copy = timer[t].copy /\ timer'[t].pc = timer[t].pc
                           /\ WakeAt(t)' = WakeAt(t)
                           /\ timer[t].pc = "sleep" => timer'[t] = timer[t]
  <2>1. \A t \in Timers : timer[t] \in Slot /\ timer[t].spent \in Nat
    BY Moments DEF Slot
  <2>2. \A t \in Timers : LET u == [timer[t] EXCEPT !.spent = @ + 1] IN
                          /\ u.pc = timer[t].pc /\ u.copy = timer[t].copy
                          /\ u.spent = timer[t].spent + 1
    BY <2>1 DEF Slot
  <2>3. ASSUME NEW t \in Timers
        PROVE  \/ timer[t].pc \notin {"send", "start"} /\ timer'[t] = timer[t]
               \/ /\ timer[t].pc \in {"send", "start"}
                  /\ timer'[t] = [timer[t] EXCEPT !.spent = @ + 1]
    BY DEF Tick
  <2>4. \A t \in Timers : timer'[t].pc = timer[t].pc /\ timer'[t].copy = timer[t].copy
    BY <2>2, <2>3
  <2>5. Active' = Active
    BY <2>4 DEF Active
  <2>6. ASSUME NEW t \in Active
        PROVE  WakeAt(t)' = WakeAt(t) /\ (timer[t].pc = "sleep" => timer'[t] = timer[t])
    <3>1. t \in Timers /\ timer[t].pc \in {"sleep", "send", "start"}
      BY <2>1 DEF Active, Slot
    <3>2. CASE timer[t].pc = "sleep"
      BY <2>3, <3>1, <3>2 DEF WakeAt
    <3>3. CASE timer[t].pc # "sleep"
      <4>1. timer'[t].spent = timer[t].spent + 1 /\ timer'[t].pc # "sleep"
        BY <2>2, <2>3, <2>4, <3>1, <3>3
      <4> QED
        BY <1>1, <2>1, <3>1, <3>3, <4>1 DEF WakeAt
    <3> QED
      BY <3>2, <3>3
  <2> QED
    BY <2>4, <2>5, <2>6 DEF Active
<1>4. \A s : Underway(s)' = Underway(s)
  BY <1>2, <1>3 DEF Underway
<1>5. NextQueue' <= NextQueue /\ NextQueue' \in Nat /\ NextQueue \in Nat
  <2>1. loop'.tick = (now' % 2 = loop.phase) /\ loop'.bus = loop.bus /\ loop'.phase = loop.phase
    BY <1>1 DEF Tick, Loop
  <2>2. loop.phase \in {0, 1}
    BY <1>1 DEF Loop
  <2>3. NextQueue = IF now % 2 = loop.phase THEN now + 2 ELSE now + 1
    BY <1>1 DEF NextQueue
  <2>4. NextQueue' = IF now' % 2 = loop.phase THEN now' ELSE now' + 1
    BY <1>1, <2>1 DEF NextQueue
  <2>5. now % 2 \in {0, 1} /\ (now' % 2 # now % 2) /\ now' % 2 \in {0, 1}
    BY <1>1
  <2> QED
    BY <1>1, <2>2, <2>3, <2>4, <2>5
<1>6. Dated'
  BY <1>1, <1>2, <1>3 DEF InTimeInv, Dated
<1>7. Punctual'
  <2>1. ASSUME NEW t \in Active, timer[t].pc = "sleep" PROVE now + 1 <= timer[t].due
    <3>1. timer[t].due > now /\ timer[t].due \in Nat
      BY <1>1, <2>1, Moments DEF Tick, Active, Slot
    <3> QED
      BY <1>1, <3>1
  <2> QED
    BY <1>1, <1>3, <2>1 DEF Punctual
<1>8. Planned'
  <2>1. ASSUME conf.on PROVE Underway(conf.schedule)' \/ NextQueue' < Limit(conf.schedule)'
    <3>1. Limit(conf.schedule) \in Nat
      BY Moments, LimitIs
    <3>2. Underway(conf.schedule) \/ NextQueue < Limit(conf.schedule)
      BY <2>1 DEF InTimeInv, Planned
    <3>3. NextQueue < Limit(conf.schedule) => NextQueue' < Limit(conf.schedule)
      BY <1>5, <3>1
    <3> QED
      BY <1>1, <1>2, <1>4, <3>2, <3>3
  <2> QED
    BY <1>1, <1>3, <1>4, <2>1 DEF InTimeInv, Planned
<1> QED
  BY <1>6, <1>7, <1>8 DEF InTimeInv

\* A restart ends the attempts under way, and the loop looks at once.
LEMMA RestartInTime ==
    ASSUME PackTypeOK, PackTypeOK', InTimeInv, Restart
    PROVE  InTimeInv'
<1>1. UNCHANGED <<now, conf>> /\ Active' = {} /\ loop'.bus /\ h \in History /\ now \in Nat
  BY Moments DEF Restart, Active, Idle, PackTypeOK
<1>2. h'.packed = h.packed /\ h'.recorded = h.recorded /\ h'.edited = h.edited
      /\ h'.failed = IF Active = {} THEN h.failed ELSE h.failed + 1
  BY <1>1 DEF Restart, History
<1>3. CASE Active # {}
  BY <1>1, <1>2, <1>3, FailedInTime
<1>4. CASE Active = {}
  <2>1. Since' = Since /\ Recent' = Recent /\ \A s : Limit(s)' = Limit(s)
    BY <1>2, <1>4 DEF Since, Recent, Limit
  <2>2. ASSUME conf.on PROVE NextQueue' < Limit(conf.schedule)'
    <3>1. NextQueue < Limit(conf.schedule) /\ Limit(conf.schedule) \in Nat
          /\ NextQueue \in now..(now + 2)
      BY <1>4, <2>2, Moments, LimitIs, Times DEF InTimeInv, Planned, Underway
    <3>2. NextQueue' = now
      BY <1>1 DEF NextQueue
    <3> QED
      BY <1>1, <2>1, <3>1, <3>2
  <2> QED
    BY <1>1, <2>1, <2>2 DEF InTimeInv, Planned, Dated, Punctual
<1> QED
  BY <1>3, <1>4

LEMMA OthersInTime ==
    ASSUME PackTypeOK, InTimeInv, PausePackSchedule \/ TogglePower \/ ShipGoesDown \/ LoadUrbits
    PROVE  InTimeInv'
<1>1. h \in History /\ conf \in Conf /\ loop \in Loop
  BY DEF PackTypeOK
<1>2. UNCHANGED <<now, timer>>
  BY DEF PausePackSchedule, TogglePower, ShipGoesDown, LoadUrbits
<1>3. loop'.tick = loop.tick /\ loop'.bus = loop.bus /\ loop'.phase = loop.phase
  BY <1>1 DEF PausePackSchedule, TogglePower, ShipGoesDown, LoadUrbits, Loop
<1>4. h'.packed = h.packed /\ h'.recorded = h.recorded /\ h'.edited = h.edited
      /\ h'.failed = h.failed
  BY <1>1 DEF PausePackSchedule, TogglePower, ShipGoesDown, LoadUrbits, History
<1>5. (conf'.on => conf.on) /\ conf'.schedule = conf.schedule /\ conf'.last = conf.last
  <2>1. \A b : LET c == [conf EXCEPT !.boot = b] IN
               c.on = conf.on /\ c.schedule = conf.schedule /\ c.last = conf.last
    BY <1>1 DEF Conf
  <2>2. LET c == [conf EXCEPT !.on = FALSE] IN
        ~c.on /\ c.schedule = conf.schedule /\ c.last = conf.last
    BY <1>1 DEF Conf
  <2>3. CASE PausePackSchedule
    BY <2>2, <2>3 DEF PausePackSchedule, Set
  <2>4. CASE TogglePower
    BY <2>1, <2>4 DEF TogglePower, Set
  <2>5. CASE ShipGoesDown \/ LoadUrbits
    BY <2>1, <2>5 DEF ShipGoesDown, LoadUrbits
  <2> QED
    BY <2>3, <2>4, <2>5
<1> QED
  BY <1>2, <1>3, <1>4, <1>5, QuietInTime

LEMMA NextInTime == PackTypeOK /\ InTimeInv /\ [Next]_vars => InTimeInv'
<1> SUFFICES ASSUME PackTypeOK, InTimeInv, [Next]_vars PROVE InTimeInv'
  OBVIOUS
<1>1. PackTypeOK'
  BY PackStepTyped
<1>2. CASE QueueOnBus \/ QueueOnTick
  BY <1>1, <1>2, queuePackInTime DEF QueueOnBus, QueueOnTick
<1>3. CASE UNCHANGED vars
  BY <1>3, QuietInTime DEF vars
<1> QED
  BY <1>1, <1>2, <1>3, SchedulePackInTime, PackInTime, TimerInTime, TickInTime, RestartInTime,
     OthersInTime DEF Next, Step

LEMMA InitInTime == Init => InTimeInv
<1> SUFFICES ASSUME Init PROVE InTimeInv
  OBVIOUS
<1>1. ~conf.on /\ conf.last = 0
  BY DEF Init, NewConf
<1>2. Active = {} /\ Recent = 0
  BY DEF Init, Active, Idle, Recent, Latest
<1> QED
  BY <1>1, <1>2 DEF InTimeInv, Planned, Dated, Punctual

\* While a schedule is on the ship is packed in time (PackedInTime): every
\* plan has a timer that wakes, or a turn of the loop that comes, in time, and
\* a failure or a restart leaves the time to make another.
THEOREM PackedInTimeHolds == Spec => []PackedInTime
<1>1. Init => PackTypeOK /\ InTimeInv
  BY PackInitTyped, InitInTime
<1>2. (PackTypeOK /\ InTimeInv) /\ [Next]_vars => (PackTypeOK /\ InTimeInv)'
  BY PackStepTyped, NextInTime
<1> QED
  BY <1>1, <1>2, PlannedInTime, PTL DEF Spec
-----------------------------------------------------------------------------
(* Packs apart *)

\* When a timer packs, at the earliest.
PacksFrom(t) == IF timer[t].pc = "sleep" THEN timer[t].due ELSE now

\* While nothing excuses a second pack, the last one is stored, and the only
\* timer at work waits for the next by the schedule in force.
ApartInv ==
    ~h.excused =>
        /\ h.packed <= conf.last
        /\ \A t, u \in Active : t = u
        /\ \A t \in Active : /\ timer[t].copy.schedule = conf.schedule
                             /\ timer[t].copy.last = conf.last
                             /\ NextPack(conf) <= PacksFrom(t)

LEMMA SameNext ==
    ASSUME NEW c, NEW d, c.schedule = d.schedule, c.last = d.last
    PROVE  NextPack(c) = NextPack(d)
BY DEF NextPack

LEMMA PacksFromTyped == PackTypeOK => \A t \in Timers : PacksFrom(t) \in Int
BY Moments DEF PacksFrom, Slot

LEMMA PacksFromNext == (PackTypeOK => \A t \in Timers : PacksFrom(t) \in Int)'
BY PacksFromTyped, PTL

\* A step that starts no timer and packs nothing.
LEMMA KeepsApart ==
    ASSUME PackTypeOK, PackTypeOK', ApartInv, h'.packed = h.packed, h.excused => h'.excused,
           ~h.excused => conf'.schedule = conf.schedule /\ conf'.last = conf.last,
           \A t \in Active' : /\ t \in Active /\ timer'[t].copy = timer[t].copy
                              /\ PacksFrom(t) <= PacksFrom(t)'
    PROVE  ApartInv'
<1> SUFFICES ASSUME ~h'.excused
             PROVE  /\ h'.packed <= conf'.last
                    /\ \A t, u \in Active' : t = u
                    /\ \A t \in Active' : /\ timer'[t].copy.schedule = conf'.schedule
                                          /\ timer'[t].copy.last = conf'.last
                                          /\ NextPack(conf') <= PacksFrom(t)'
  BY DEF ApartInv
<1>1. ~h.excused /\ conf'.schedule = conf.schedule /\ conf'.last = conf.last
  OBVIOUS
<1>2. NextPack(conf') = NextPack(conf)
  BY <1>1, SameNext
<1>3. ASSUME NEW t \in Active' PROVE NextPack(conf') <= PacksFrom(t)'
  <2>1. t \in Timers /\ t \in Active
    BY DEF Active
  <2>2. PacksFrom(t) \in Int /\ NextPack(conf) \in Int
    BY <2>1, PacksFromTyped, NextPackTyped, Moments
  <2>3. (PackTypeOK => \A u \in Timers : PacksFrom(u) \in Int)'
    BY PacksFromNext
  <2>4. NextPack(conf) <= PacksFrom(t)
    BY <1>1, <2>1 DEF ApartInv
  <2> QED
    BY <1>2, <2>1, <2>2, <2>3, <2>4
<1> QED
  BY <1>1, <1>3 DEF ApartInv

LEMMA StartTimerApart ==
    ASSUME PackTypeOK, ApartInv, NEW due \in 0..(now + 2), NEW asked \in BOOLEAN,
           StartTimer(due, asked), UNCHANGED conf,
           asked \/ NextPack(conf) <= due
    PROVE  ApartInv'
<1>1. h'.packed = h.packed /\ h'.excused = (h.excused \/ Active # {} \/ asked)
  BY DEF StartTimer, PackTypeOK, History
<1>2. PICK t \in Timers \ Active :
        timer' = [timer EXCEPT ![t] = [pc |-> "sleep", due |-> due, spent |-> 0,
                                       copy |-> conf]]
  BY StartTimerTyped
<1>3. /\ timer'[t].pc = "sleep" /\ timer'[t].due = due /\ timer'[t].copy = conf
      /\ \A u \in Timers : u # t => timer'[u] = timer[u]
  BY <1>2 DEF PackTypeOK
<1>4. Active' = Active \cup {t}
  BY <1>3 DEF Active
<1>5. ASSUME ~h'.excused
      PROVE  ~h.excused /\ Active' = {t} /\ NextPack(conf) <= due
  BY <1>1, <1>4, <1>5
<1>6. PacksFrom(t)' = due
  BY <1>3 DEF PacksFrom
<1> QED
  BY <1>1, <1>3, <1>5, <1>6 DEF ApartInv

LEMMA LoopApart ==
    ASSUME PackTypeOK, PackTypeOK', ApartInv, Pack \/ QueueOnBus \/ QueueOnTick
    PROVE  ApartInv'
<1>1. now \in Nat /\ NextPack(conf) \in Int
  BY Moments, NextPackTyped
<1>2. CASE Pack
  <2>1. StartTimer(now, TRUE) /\ UNCHANGED conf
    BY <1>2, Zenon DEF Pack
  <2>2. now \in 0..(now + 2)
    BY <1>1
  <2> QED
    BY <2>1, <2>2, StartTimerApart
<1>3. CASE queuePack
  <2>1. CASE conf.on /\ Due(NextPack(conf))
    <3> DEFINE due == Latest(NextPack(conf), now)
    <3>1. due \in 0..(now + 2) /\ NextPack(conf) <= due
      BY <1>1, <2>1 DEF Due, Latest
    <3>2. StartTimer(due, FALSE) /\ UNCHANGED conf
      BY <1>3, <2>1 DEF queuePack
    <3> QED
      BY <3>1, <3>2, StartTimerApart
  <2>2. CASE ~(conf.on /\ Due(NextPack(conf)))
    <3>1. UNCHANGED <<timer, h, conf, now>>
      BY <1>3, <2>2 DEF queuePack
    <3> QED
      BY <3>1 DEF ApartInv, Active, PacksFrom
  <2> QED
    BY <2>1, <2>2
<1> QED
  BY <1>2, <1>3 DEF QueueOnBus, QueueOnTick

LEMMA AloneAtWork ==
    ASSUME NEW t \in Active, ~(Cardinality(Active) > 1)
    PROVE  Active = {t}
<1>1. IsFiniteSet(Active)
  BY TimersAssumption, FS_Subset DEF Active
<1>2. Cardinality(Active) \in Nat /\ Cardinality(Active) # 0
  BY <1>1, FS_CardinalityType, FS_EmptySet
<1>3. Cardinality(Active) = 1
  BY <1>2
<1> QED
  BY <1>1, <1>3, FS_Singleton

LEMMA TimerApart ==
    ASSUME PackTypeOK, PackTypeOK', ApartInv, NEW t \in Timers, TimerStep(t)
    PROVE  ApartInv'
<1>1. h \in History /\ now \in Nat /\ t \in Active /\ timer[t] \in Slot
      /\ timer[t].copy \in Conf /\ h.packed \in 0..now
  BY Moments DEF TimerStep, Wake, WakeFails, SendPack, SendFails, StartVere, StartFails,
         StoreFails, Active, PackTypeOK, History
<1>2. CASE Wake(t)
  <2>1. h'.packed = h.packed /\ h'.excused = h.excused /\ now' = now
    BY <1>1, <1>2 DEF Wake, History
  <2>2. ASSUME ~h.excused
        PROVE  conf'.schedule = conf.schedule /\ conf'.last = conf.last
    <3>1. timer[t].copy.schedule = conf.schedule /\ timer[t].copy.last = conf.last
      BY <1>1, <2>2 DEF ApartInv
    <3> QED
      BY <1>1, <1>2, <3>1 DEF Wake, Conf
  <2>3. PICK pc \in {"start", "send"} :
          timer' = [timer EXCEPT ![t] = [timer[t] EXCEPT !.pc = pc]]
    BY <1>2 DEF Wake
  <2>4. [timer[t] EXCEPT !.pc = pc].copy = timer[t].copy /\ [timer[t] EXCEPT !.pc = pc].pc = pc
    BY <1>1 DEF Slot
  <2>5. /\ timer'[t].copy = timer[t].copy /\ timer'[t].pc = pc
        /\ \A u \in Timers : u # t => timer'[u] = timer[u]
    BY <2>3, <2>4 DEF PackTypeOK
  <2>6. ASSUME NEW u \in Active'
        PROVE  /\ u \in Active /\ timer'[u].copy = timer[u].copy
               /\ PacksFrom(u) <= PacksFrom(u)'
    <3>1. u \in Timers
      BY DEF Active
    <3>2. CASE u = t
      <4>1. PacksFrom(t)' = now /\ PacksFrom(t) = timer[t].due /\ timer[t].due <= now
        BY <1>2, <2>1, <2>5 DEF PacksFrom, Wake
      <4> QED
        BY <1>1, <2>5, <3>2, <4>1
    <3>3. CASE u # t
      <4>1. timer'[u] = timer[u] /\ PacksFrom(u)' = PacksFrom(u) /\ PacksFrom(u) \in Int
        BY <2>1, <2>5, <3>1, <3>3, PacksFromTyped DEF PacksFrom
      <4> QED
        BY <4>1 DEF Active
    <3> QED
      BY <3>2, <3>3
  <2> QED
    BY <2>1, <2>2, <2>6, KeepsApart
<1>3. CASE WakeFails(t) \/ SendFails(t) \/ StartFails(t)
  <2>1. h'.excused = TRUE
    BY <1>3, FailureIs DEF WakeFails, SendFails, StartFails
  <2> QED
    BY <2>1 DEF ApartInv
<1>4. CASE StoreFails(t)
  <2>1. h'.excused = TRUE
    BY <1>1, <1>4 DEF StoreFails, Packed, History
  <2> QED
    BY <2>1 DEF ApartInv
<1>5. CASE SendPack(t) \/ StartVere(t)
  <2>1. Free(t) /\ conf'.last = now
    <3>1. /\ Stored(timer[t].copy).last = now
          /\ Stored([timer[t].copy EXCEPT !.boot = "pack"]).last = now
      BY <1>1 DEF Stored, Conf
    <3> QED
      BY <1>5, <3>1 DEF SendPack, StartVere
  <2>2. h' = Packed \/ h' = [h EXCEPT !.recorded = now]
    BY <1>5 DEF SendPack, StartVere
  <2>3. h'.packed <= now /\ (~h'.excused => Active = {t})
    <3>1. CASE h' = Packed
      <4>1. h'.packed = now /\ h'.excused = (Cardinality(Active) > 1)
        BY <1>1, <3>1 DEF Packed, History
      <4>2. ASSUME ~h'.excused PROVE Active = {t}
        <5>1. ~(Cardinality(Active) > 1)
          BY <4>1, <4>2
        <5> QED
          BY <1>1, <5>1, AloneAtWork
      <4> QED
        BY <1>1, <4>1, <4>2
    <3>2. CASE h' = [h EXCEPT !.recorded = now]
      <4>1. h'.packed = h.packed /\ h'.excused = h.excused
        BY <1>1, <3>2 DEF History
      <4> QED
        BY <1>1, <4>1 DEF ApartInv
    <3> QED
      BY <2>2, <3>1, <3>2
  <2>4. Active = {t} => Active' = {}
    BY <1>1, <2>1 DEF Free, PackTypeOK, Active, Idle
  <2> QED
    BY <2>1, <2>3, <2>4 DEF ApartInv
<1> QED
  BY <1>2, <1>3, <1>4, <1>5 DEF TimerStep

LEMMA OthersApart ==
    ASSUME PackTypeOK, PackTypeOK', ApartInv,
           PausePackSchedule \/ TogglePower \/ ShipGoesDown \/ LoadUrbits \/ Tick \/ Restart
    PROVE  ApartInv'
<1>1. h \in History /\ conf \in Conf /\ now \in Nat
  BY Moments DEF PackTypeOK
<1>2. h'.packed = h.packed /\ (h.excused => h'.excused)
  BY <1>1 DEF PausePackSchedule, TogglePower, ShipGoesDown, LoadUrbits, Tick, Restart, History
<1>3. conf'.schedule = conf.schedule /\ conf'.last = conf.last
  <2>1. \A b : LET c == [conf EXCEPT !.boot = b] IN
               c.schedule = conf.schedule /\ c.last = conf.last
    BY <1>1 DEF Conf
  <2>2. LET c == [conf EXCEPT !.on = FALSE] IN c.schedule = conf.schedule /\ c.last = conf.last
    BY <1>1 DEF Conf
  <2>3. CASE PausePackSchedule
    BY <2>2, <2>3 DEF PausePackSchedule, Set
  <2>4. CASE TogglePower
    BY <2>1, <2>4 DEF TogglePower, Set
  <2>5. CASE ShipGoesDown \/ LoadUrbits \/ Tick \/ Restart
    BY <2>1, <2>5 DEF ShipGoesDown, LoadUrbits, Tick, Restart
  <2> QED
    BY <1>1, <2>3, <2>4, <2>5
<1>4. CASE Restart
  <2>1. Active' = {}
    BY <1>4 DEF Restart, Active, Idle
  <2> QED
    BY <1>2, <1>3, <2>1, KeepsApart
<1>5. CASE Tick
  <2>1. \A t \in Timers : timer[t] \in Slot
    BY Moments
  <2>2. \A t \in Timers : LET u == [timer[t] EXCEPT !.spent = @ + 1] IN
                          u.pc = timer[t].pc /\ u.copy = timer[t].copy /\ u.due = timer[t].due
    BY <2>1 DEF Slot
  <2>3. \A t \in Timers : timer'[t].pc = timer[t].pc /\ timer'[t].copy = timer[t].copy
                          /\ timer'[t].due = timer[t].due
    BY <1>5, <2>2 DEF Tick
  <2>4. now' = now + 1 /\ Active' = Active /\ Active \subseteq Timers
    BY <1>5, <2>3 DEF Tick, Active
  <2>5. ASSUME NEW t \in Active' PROVE PacksFrom(t) <= PacksFrom(t)'
    <3>1. t \in Timers /\ timer[t].due \in Nat
      BY <1>1, <2>1, <2>4 DEF Slot
    <3> QED
      BY <1>1, <2>3, <2>4, <3>1 DEF PacksFrom
  <2> QED
    BY <1>2, <1>3, <2>3, <2>4, <2>5, KeepsApart
<1>6. CASE UNCHANGED <<now, timer>>
  <2>1. Active' = Active /\ Active \subseteq Timers
    BY <1>6 DEF Active
  <2>2. \A t \in Timers : PacksFrom(t)' = PacksFrom(t) /\ PacksFrom(t) \in Int
    BY <1>6, PacksFromTyped DEF PacksFrom
  <2>3. \A t \in Active' : PacksFrom(t) <= PacksFrom(t)'
    BY <2>1, <2>2
  <2> QED
    BY <1>2, <1>3, <1>6, <2>1, <2>3, KeepsApart
<1> QED
  BY <1>4, <1>5, <1>6 DEF PausePackSchedule, TogglePower, ShipGoesDown, LoadUrbits

LEMMA NextApart == PackTypeOK /\ ApartInv /\ [Next]_vars => ApartInv'
<1> SUFFICES ASSUME PackTypeOK, ApartInv, [Next]_vars PROVE ApartInv'
  OBVIOUS
<1>1. PackTypeOK'
  BY PackStepTyped
<1>2. CASE SchedulePack
  <2>1. h'.excused = TRUE
    BY <1>2 DEF SchedulePack, PackTypeOK, History
  <2> QED
    BY <2>1 DEF ApartInv
<1>3. CASE UNCHANGED vars
  BY <1>3 DEF vars, ApartInv, Active, PacksFrom
<1> QED
  BY <1>1, <1>2, <1>3, LoopApart, TimerApart, OthersApart DEF Next, Step

LEMMA InitApart == Init => ApartInv
BY DEF Init, ApartInv

\* Only a timer packs, and at the moment it is recorded.
LEMMA PackedBy ==
    ASSUME PackTypeOK, [Next]_vars, h'.packed # h.packed
    PROVE  h'.packed = now /\ \E t \in Active : timer[t].pc # "sleep"
<1>1. h \in History
  BY DEF PackTypeOK
<1>2. ~UNCHANGED vars
  BY DEF vars
<1>3. ~(SchedulePack \/ PausePackSchedule \/ TogglePower \/ ShipGoesDown \/ LoadUrbits \/ Tick
        \/ Restart)
  BY <1>1 DEF SchedulePack, PausePackSchedule, TogglePower, ShipGoesDown, LoadUrbits, Tick,
     Restart, History
<1>4. ~(Pack \/ QueueOnBus \/ QueueOnTick)
  <2>1. \A due, asked : StartTimer(due, asked) => h'.packed = h.packed
    BY <1>1 DEF StartTimer, History
  <2> QED
    BY <2>1 DEF Pack, QueueOnBus, QueueOnTick, queuePack
<1>5. PICK t \in Timers : TimerStep(t)
  BY <1>2, <1>3, <1>4 DEF Next, Step
<1>6. ~(WakeFails(t) \/ SendFails(t) \/ StartFails(t))
  BY FailureIs DEF WakeFails, SendFails, StartFails
<1>7. ~Wake(t)
  BY <1>1 DEF Wake, History
<1>8. SendPack(t) \/ StartVere(t) \/ StoreFails(t)
  BY <1>5, <1>6, <1>7 DEF TimerStep
<1>9. timer[t].pc \in {"send", "start"}
  BY <1>8 DEF SendPack, StartVere, StoreFails
<1>10. h'.packed = now
  <2>1. h' \in {Packed, [Packed EXCEPT !.excused = TRUE], [h EXCEPT !.recorded = now]}
    BY <1>8 DEF SendPack, StartVere, StoreFails
  <2> QED
    BY <1>1, <2>1, PackedIs
<1> QED
  BY <1>9, <1>10 DEF Active

LEMMA ApartStep ==
    ASSUME PackTypeOK, ApartInv, [Next]_vars, h'.packed # h.packed, ~h.excused, ~Rapid(conf)
    PROVE  DayOf(h'.packed) > DayOf(h.packed)
<1>1. PICK t \in Active : timer[t].pc # "sleep"
  BY PackedBy
<1>2. NextPack(conf) <= now /\ h.packed <= conf.last
  BY <1>1 DEF ApartInv, PacksFrom
<1>3. now \in Nat /\ conf \in Conf /\ conf.last \in Nat /\ h.packed \in Nat
  BY Moments DEF PackTypeOK, History
<1>4. DayOf(conf.last) < DayOf(now)
  BY <1>2, <1>3, NextPackInTime
<1>5. DayOf(h.packed) <= DayOf(conf.last)
  <2>1. /\ DayOf(h.packed) \in Nat /\ DayOf(h.packed) * Day <= h.packed
        /\ Day \in Nat /\ DayOf(h.packed) * Day \in Nat
    BY <1>3, Days, CalendarAssumption, Products
  <2>2. DayOf(h.packed) * Day <= conf.last
    BY <1>2, <1>3, <2>1
  <2> QED
    BY <1>3, <2>1, <2>2, Days
<1>6. h'.packed = now /\ DayOf(h.packed) \in Nat /\ DayOf(conf.last) \in Nat /\ DayOf(now) \in Nat
  BY <1>3, PackedBy, Days
<1> QED
  BY <1>4, <1>5, <1>6

\* The ship is not packed twice on one day, but for the schedules and the
\* occasions that are named (PacksApart): the loop reckons from the pack that
\* was stored, and one timer at a time waits for the next.
THEOREM PacksApartHolds == Spec => PacksApart
<1>1. Init => PackTypeOK /\ ApartInv
  BY PackInitTyped, InitApart
<1>2. (PackTypeOK /\ ApartInv) /\ [Next]_vars => (PackTypeOK /\ ApartInv)'
  BY PackStepTyped, NextApart
<1>3. PackTypeOK /\ ApartInv /\ [Next]_vars
      => [h'.packed # h.packed /\ ~h.excused /\ ~Rapid(conf)
          => DayOf(h'.packed) > DayOf(h.packed)]_vars
  BY ApartStep
<1> QED
  BY <1>1, <1>2, <1>3, PTL DEF Spec, PacksApart

-----------------------------------------------------------------------------
(* Exports next to the packs *)

\* The exports' own steps leave the schedule, the timers and the loop alone.
LEMMA ExportBeside ==
    ASSUME TypeOK, [ExportNext]_allVars
    PROVE  \/ [Next]_vars
           \/ /\ UNCHANGED <<now, loop, timer>>
              /\ conf'.on = conf.on /\ conf'.schedule = conf.schedule /\ conf'.last = conf.last
              /\ \E r \in BOOLEAN : h' = [h EXCEPT !.raced = r]
<1>1. h \in History /\ conf \in Conf
  BY DEF TypeOK, PackTypeOK
<1>2. h = [h EXCEPT !.raced = h.raced] /\ h.raced \in BOOLEAN
  BY <1>1 DEF History
<1>3. ASSUME NEW b \in Browsers, MarkNoboot(b)
      PROVE  /\ UNCHANGED <<now, loop, timer>>
             /\ conf'.on = conf.on /\ conf'.schedule = conf.schedule /\ conf'.last = conf.last
             /\ \E r \in BOOLEAN : h' = [h EXCEPT !.raced = r]
  BY <1>1, <1>2, <1>3 DEF MarkNoboot, Set, Raced, Conf
<1>4. ASSUME NEW b \in Browsers, ExportStep(b), ~MarkNoboot(b)
      PROVE  UNCHANGED <<now, loop, timer, conf, h>>
  BY <1>4 DEF ExportStep, AskExport, StopShip, Abandon, WhitelistContainer, ShowReady, See,
         CheckToken, WaitExited, CompressVolume, RemoveContainerFromWhitelist,
         ClearTransition, vars
<1>5. CASE EditOffShip
  BY <1>2, <1>5 DEF EditOffShip
<1> QED
  BY <1>2, <1>3, <1>4, <1>5 DEF ExportNext, PackStep, RestartAll, Next, allVars

LEMMA RacedAlone ==
    ASSUME h \in History, NEW r \in BOOLEAN, h' = [h EXCEPT !.raced = r]
    PROVE  /\ h'.packed = h.packed /\ h'.recorded = h.recorded /\ h'.edited = h.edited
           /\ h'.failed = h.failed /\ h'.excused = h.excused
BY DEF History

LEMMA ExportInTime == TypeOK /\ InTimeInv /\ [ExportNext]_allVars => InTimeInv'
<1> SUFFICES ASSUME TypeOK, InTimeInv, [ExportNext]_allVars PROVE InTimeInv'
  OBVIOUS
<1>1. CASE [Next]_vars
  BY <1>1, NextInTime DEF TypeOK
<1>2. CASE ~[Next]_vars
  BY <1>2, ExportBeside, RacedAlone, QuietInTime DEF TypeOK, PackTypeOK
<1> QED
  BY <1>1, <1>2

LEMMA ExportApart == TypeOK /\ ApartInv /\ [ExportNext]_allVars => ApartInv'
<1> SUFFICES ASSUME TypeOK, ApartInv, [ExportNext]_allVars PROVE ApartInv'
  OBVIOUS
<1>1. CASE [Next]_vars
  BY <1>1, NextApart DEF TypeOK
<1>2. CASE ~[Next]_vars
  <2>1. /\ UNCHANGED <<now, timer>> /\ conf'.schedule = conf.schedule /\ conf'.last = conf.last
        /\ h'.packed = h.packed /\ h'.excused = h.excused
    BY <1>2, ExportBeside, RacedAlone DEF TypeOK, PackTypeOK
  <2>2. Active' = Active /\ Active \subseteq Timers /\ PackTypeOK
    BY <2>1 DEF Active, TypeOK
  <2>3. \A t \in Timers : PacksFrom(t)' = PacksFrom(t) /\ PacksFrom(t) \in Int
    BY <2>1, <2>2, PacksFromTyped DEF PacksFrom
  <2>4. \A t \in Active' : PacksFrom(t) <= PacksFrom(t)'
    BY <2>2, <2>3
  <2>5. PackTypeOK'
    BY ExportNextTyped DEF TypeOK
  <2> QED
    BY <2>1, <2>2, <2>4, <2>5, KeepsApart
<1> QED
  BY <1>1, <1>2

\* The same with exports next to the packs, which turn the ship off.
THEOREM PackedInTimeInExports == ExportSpec => []PackedInTime
<1>1. ExportInit => TypeOK /\ InTimeInv
  BY ExportInitTyped, InitInTime DEF ExportInit
<1>2. (TypeOK /\ InTimeInv) /\ [ExportNext]_allVars => (TypeOK /\ InTimeInv)'
  BY ExportNextTyped, ExportInTime
<1>3. TypeOK /\ InTimeInv => PackedInTime
  BY PlannedInTime DEF TypeOK
<1> QED
  BY <1>1, <1>2, <1>3, PTL DEF ExportSpec

\* The same with exports next to the packs.
THEOREM PacksApartInExports == ExportSpec => PacksApart
<1>1. ExportInit => TypeOK /\ ApartInv
  BY ExportInitTyped, InitApart DEF ExportInit
<1>2. (TypeOK /\ ApartInv) /\ [ExportNext]_allVars => (TypeOK /\ ApartInv)'
  BY ExportNextTyped, ExportApart
<1>3. TypeOK /\ ApartInv /\ [ExportNext]_allVars
      => [h'.packed # h.packed /\ ~h.excused /\ ~Rapid(conf)
          => DayOf(h'.packed) > DayOf(h.packed)]_vars
  <2> SUFFICES ASSUME TypeOK, ApartInv, [ExportNext]_allVars, h'.packed # h.packed,
                      ~h.excused, ~Rapid(conf)
               PROVE  DayOf(h'.packed) > DayOf(h.packed)
    OBVIOUS
  <2>1. [Next]_vars
    BY ExportBeside, RacedAlone DEF TypeOK, PackTypeOK
  <2> QED
    BY <2>1, ApartStep DEF TypeOK
<1> QED
  BY <1>1, <1>2, <1>3, PTL DEF ExportSpec, PacksApart
=============================================================================
