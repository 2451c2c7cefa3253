---------------------------- MODULE PackSchedule ----------------------------
(***************************************************************************)
(* Packs of a ship, scheduled or asked for: routines/pack.go, and the      *)
(* cases "pack", "schedule-pack", "pause-pack-schedule" and "toggle-power" *)
(* of handler/urbit.go.                                                    *)
(*                                                                         *)
(* Every minute, and after each change of a schedule, the loop computes    *)
(* the time of the next pack from that of the last one, and starts a timer *)
(* when no more than a minute is left.  The timer copies the ship's        *)
(* configuration, sleeps, packs the ship and stores its copy with the time *)
(* of the pack.  Written from the code; one ship, in a small calendar with *)
(* months of one length and half a minute as the unit of time.             *)
(***************************************************************************)
EXTENDS Integers, FiniteSets

CONSTANTS
    Day,         \* half minutes in a day
    Week, Month, \* days in a week, and in a month
    Schedules,   \* what the user may ask for
    Timers,      \* timers and pack handlers at work at once (bound)
    MaxPack,     \* half minutes that a pack takes at most (bound)
    Start,       \* the time of the first step
    Budgets      \* bounds: how many half minutes pass, changes of schedule and
                 \* packs the user asks for, turns of the power switch, exports,
                 \* failed calls and restarts there are

\* A day has a minute at least.
ASSUME CalendarAssumption ==
    Day \in Nat \ {0, 1} /\ Week \in Nat \ {0} /\ Month \in Nat \ {0} /\ Start \in Nat
Units == {"day", "week", "month"}
Schedule == [type : Units, freq : Nat \ {0}, day : 0..(Week - 1),
             date : 0..(Month - 1), at : 0..(Day - 1)]
ASSUME SchedulesAssumption == Schedules \subseteq Schedule
ASSUME TimersAssumption == IsFiniteSet(Timers) /\ Timers \subseteq Nat
ASSUME BoundsAssumption == MaxPack \in Nat
Budget == [time : Nat, edits : Nat, power : Nat, exports : Nat, faults : Nat, restarts : Nat]
ASSUME BudgetsAssumption == Budgets \subseteq Budget

VARIABLES
    now,             \* half minutes since the zero of unix time
    conf,            \* the part of the ship's configuration that matters here
    ship,            \* its container, and how long it may pack yet
    loop,            \* PackScheduleLoop: its phase, what it is about to receive;
                     \* whether LoadUrbits is still to run
    timer,           \* the timers and the handlers that pack
    scheduledPacks,  \* the next pack, as it is shown
    want,            \* history: what the user has set
    h,               \* history
    left             \* what is left of the budget

vars == <<now, conf, ship, loop, timer, scheduledPacks, want, h, left>>

\* The defaults of a new ship: never packed.
NewConf(boot) ==
    [on |-> FALSE, last |-> 0, boot |-> boot,
     schedule |-> [type |-> "week", freq |-> 1, day |-> 0, date |-> 0, at |-> 0]]
Idle == [pc |-> "idle", due |-> 0, spent |-> 0, copy |-> NewConf("noboot")]
Active == {t \in Timers : timer[t].pc # "idle"}
Spend(what) == left[what] > 0 /\ left' = [left EXCEPT ![what] = @ - 1]
Off == ship.run \in {"down", "gone"}
DayOf(time) == time \div Day
Latest(a, b) == IF a > b THEN a ELSE b
Settings(c) == [on |-> c.on, schedule |-> c.schedule, boot |-> c.boot]

-----------------------------------------------------------------------------
(* The calendar *)

setDaySchedule(last, s) == (DayOf(last) + s.freq) * Day + s.at

\* From the weekday on or after that of the last pack, a week less than asked.
setWeekSchedule(last, s) ==
    (DayOf(last) + ((s.day - DayOf(last)) % Week) + (s.freq - 1) * Week) * Day + s.at

setMonthSchedule(last, s) ==
    LET next == ((DayOf(last) \div Month) * Month + s.date) * Day + s.at IN
    IF next < last THEN next + s.freq * Month * Day ELSE next

NextPack(c) ==
    CASE c.schedule.type = "day" -> setDaySchedule(c.last, c.schedule)
      [] c.schedule.type = "week" -> setWeekSchedule(c.last, c.schedule)
      [] c.schedule.type = "month" -> setMonthSchedule(c.last, c.schedule)

-----------------------------------------------------------------------------
(* The user *)

Set(c) == conf' = c /\ want' = Settings(c)
Raced == h.raced \/ Active # {}

SchedulePack ==
    /\ Spend("edits") /\ ~loop.bus
    /\ \E s \in Schedules : Set([conf EXCEPT !.on = TRUE, !.schedule = s])
    /\ loop' = [loop EXCEPT !.bus = TRUE]
    /\ h' = [h EXCEPT !.raced = Raced, !.edited = now, !.excused = TRUE]
    /\ UNCHANGED <<now, ship, timer, scheduledPacks>>

PausePackSchedule ==
    /\ Spend("edits") /\ conf.on
    /\ Set([conf EXCEPT !.on = FALSE])
    /\ h' = [h EXCEPT !.raced = Raced]
    /\ UNCHANGED <<now, ship, loop, timer, scheduledPacks>>

\* click.BarExit is acknowledged before the ship is down, and fails while it
\* packs: the container is then stopped.
TakeDown ==
    ship' = CASE ship.run = "up" -> [ship EXCEPT !.run = "exit"]
              [] ship.run = "pack" -> [run |-> "down", left |-> 0]
              [] OTHER -> ship

\* A ship that is marked to pack is switched neither on nor off.
TogglePower ==
    /\ Spend("power")
    /\ \/ /\ conf.boot = "noboot"
          /\ Set([conf EXCEPT !.boot = "boot"])
          /\ ship' = IF Off THEN [ship EXCEPT !.run = "up"] ELSE ship
       \/ /\ conf.boot = "boot"
          /\ Set([conf EXCEPT !.boot = "noboot"])
          /\ TakeDown
    /\ h' = [h EXCEPT !.raced = Raced]
    /\ UNCHANGED <<now, loop, timer, scheduledPacks>>

-----------------------------------------------------------------------------
(* The loop *)

\* The slots of the timers are taken in order.
StartTimer(due, asked) ==
    /\ Active # Timers
    /\ LET t == CHOOSE t \in Timers \ Active : \A u \in Timers \ Active : t <= u IN
       timer' = [timer EXCEPT ![t] = [pc |-> "sleep", due |-> due, spent |-> 0,
                                      copy |-> conf]]
    /\ h' = [h EXCEPT !.excused = @ \/ Active # {} \/ asked]

\* The case "pack" is what a timer does, at once.
Pack ==
    /\ Spend("edits")
    /\ StartTimer(now, TRUE)
    /\ UNCHANGED <<now, conf, ship, loop, scheduledPacks, want>>

\* Mutant: only when it is just a minute.
DueExactly(next) == now + 2 = next

Due(next) == now + 2 >= next

queuePack ==
    LET next == NextPack(conf) IN
    /\ scheduledPacks' = IF conf.on THEN next ELSE scheduledPacks
    /\ IF conf.on /\ Due(next) THEN StartTimer(Latest(next, now), FALSE)
       ELSE UNCHANGED <<timer, h>>
    /\ UNCHANGED <<now, conf, ship, want, left>>

QueueOnBus == loop.bus /\ loop' = [loop EXCEPT !.bus = FALSE] /\ queuePack
QueueOnTick == loop.tick /\ loop' = [loop EXCEPT !.tick = FALSE] /\ queuePack

-----------------------------------------------------------------------------
(* setScheduledPackTimer *)

Free(t) == timer' = [timer EXCEPT ![t] = Idle]

\* A call fails; the time of the pack is not stored.
PackError(t) ==
    /\ Free(t)
    /\ h' = [h EXCEPT !.excused = TRUE, !.failed = @ + 1]
    /\ UNCHANGED <<now, loop, scheduledPacks, want>>

\* Mutant: a ship that is up is marked to pack as well.
WakeMarks(t) ==
    /\ timer[t].pc = "sleep" /\ timer[t].due <= now
    /\ timer' = [timer EXCEPT ![t].pc = IF Off THEN "start" ELSE "send"]
    /\ conf' = [timer[t].copy EXCEPT !.boot = "pack"]
    /\ h' = [h EXCEPT !.offline = @ \/ Off]
    /\ UNCHANGED <<now, ship, loop, scheduledPacks, want, left>>

\* Wake, and look whether the container is up; if not, mark the ship to pack.
Wake(t) ==
    /\ timer[t].pc = "sleep" /\ timer[t].due <= now
    /\ IF Off
       THEN /\ timer' = [timer EXCEPT ![t].pc = "start"]
            /\ conf' = [timer[t].copy EXCEPT !.boot = "pack"]
            /\ h' = [h EXCEPT !.offline = TRUE]
       ELSE timer' = [timer EXCEPT ![t].pc = "send"] /\ UNCHANGED <<conf, h>>
    /\ UNCHANGED <<now, ship, loop, scheduledPacks, want, left>>

WakeFails(t) ==
    /\ timer[t].pc = "sleep" /\ timer[t].due <= now
    /\ Spend("faults")
    /\ PackError(t)
    /\ UNCHANGED <<conf, ship>>

\* Mutant: the time of the pack is left out.
StoredWithout(c) == c
Stored(c) == [c EXCEPT !.last = now]

\* Whether or not the store succeeds, the pack was made.
Packed == [h EXCEPT !.packed = now, !.failed = 0, !.excused = Cardinality(Active) > 1]

\* click.SendPack: the ship's lens answers when it is up and not packing.
SendPack(t) ==
    /\ timer[t].pc = "send" /\ ship.run = "up"
    /\ conf' = Stored(timer[t].copy)
    /\ Free(t)
    /\ h' = Packed
    /\ UNCHANGED <<now, ship, loop, scheduledPacks, want, left>>

SendFails(t) ==
    /\ timer[t].pc = "send"
    /\ \/ ship.run # "up" /\ UNCHANGED left
       \/ Spend("faults")
    /\ PackError(t)
    /\ UNCHANGED <<conf, ship>>

\* StartContainer, whose configuration resets "pack" before the timer stores
\* its copy, which says "pack" again.  A ship that is up by now, or whose mark
\* is gone, does not pack, and the time is stored all the same.
StartVere(t) ==
    /\ timer[t].pc = "start" /\ conf.boot # "noboot"
    /\ conf' = Stored([timer[t].copy EXCEPT !.boot = "pack"])
    /\ ship' = IF ~Off THEN ship
               ELSE IF conf.boot = "pack" THEN [run |-> "pack", left |-> MaxPack]
               ELSE [ship EXCEPT !.run = "up"]
    /\ Free(t)
    /\ h' = IF Off /\ conf.boot = "pack" THEN Packed ELSE [h EXCEPT !.recorded = now]
    /\ UNCHANGED <<now, loop, scheduledPacks, want, left>>

\* It fails before or after the reset.
StartFails(t) ==
    /\ timer[t].pc = "start"
    /\ \/ conf.boot = "noboot" /\ UNCHANGED <<conf, left>>
       \/ Spend("faults") /\ conf.boot # "noboot"
          /\ conf' \in {conf, [conf EXCEPT !.boot = IF @ = "pack" THEN "noboot" ELSE @]}
    /\ PackError(t)
    /\ UNCHANGED ship

\* The pack was made, and the pier file cannot be written.
StoreFails(t) ==
    /\ timer[t].pc = "send" /\ ship.run = "up" /\ Spend("faults")
    /\ Free(t)
    /\ h' = [Packed EXCEPT !.excused = TRUE]
    /\ UNCHANGED <<now, conf, ship, loop, scheduledPacks, want>>

-----------------------------------------------------------------------------
(* Time, the ship, restarts *)

\* No time passes while there is something to do at once.
Tick ==
    /\ Spend("time")
    /\ ~loop.tick /\ ~loop.bus /\ ~loop.load
    /\ \A t \in Timers : CASE timer[t].pc = "sleep" -> timer[t].due > now
                           [] timer[t].pc \in {"send", "start"} -> timer[t].spent < MaxPack
                           [] OTHER -> TRUE
    /\ ship.run = "pack" => ship.left > 0
    /\ now' = now + 1
    /\ timer' = [t \in Timers |-> IF timer[t].pc \in {"send", "start"}
                                  THEN [timer[t] EXCEPT !.spent = @ + 1] ELSE timer[t]]
    /\ ship' = [ship EXCEPT !.left = IF @ > 0 THEN @ - 1 ELSE 0]
    /\ loop' = [loop EXCEPT !.tick = now' % 2 = loop.phase]
    /\ UNCHANGED <<conf, scheduledPacks, want, h>>

ShipGoesDown ==
    /\ ship.run \in {"pack", "exit"}
    /\ ship' = [run |-> "down", left |-> 0]
    /\ UNCHANGED <<now, conf, loop, timer, scheduledPacks, want, h, left>>

\* The timers are gone; the loop begins at another moment, and at once.
Restart ==
    /\ Spend("restarts")
    /\ timer' = [t \in Timers |-> Idle]
    /\ \E phase \in {0, 1} :
        loop' = [phase |-> phase, tick |-> FALSE, bus |-> TRUE, load |-> TRUE]
    /\ scheduledPacks' = 0
    /\ h' = [h EXCEPT !.excused = @ \/ Active # {},
                      !.failed = IF Active = {} THEN @ ELSE @ + 1]
    /\ UNCHANGED <<now, conf, ship, want>>

LoadUrbits ==
    /\ loop.load
    /\ loop' = [loop EXCEPT !.load = FALSE]
    /\ conf' = [conf EXCEPT !.boot = IF @ = "pack" THEN "noboot" ELSE @]
    /\ ship' = IF ~Off THEN ship
               ELSE CASE conf.boot = "boot" -> [ship EXCEPT !.run = "up"]
                      [] conf.boot = "pack" -> [run |-> "pack", left |-> MaxPack]
                      [] conf.boot = "noboot" -> ship
    /\ UNCHANGED <<now, timer, scheduledPacks, want, h, left>>

Init ==
    /\ now = Start
    /\ \/ conf = NewConf("boot") /\ ship = [run |-> "up", left |-> 0]
       \/ conf = NewConf("noboot") /\ ship = [run |-> "down", left |-> 0]
    /\ \E phase \in {0, 1} :
        loop = [phase |-> phase, tick |-> FALSE, bus |-> FALSE, load |-> FALSE]
    /\ timer = [t \in Timers |-> Idle]
    /\ scheduledPacks = 0
    /\ want = Settings(conf)
    /\ h = [packed |-> 0, recorded |-> 0, edited |-> 0, failed |-> 0,
            raced |-> FALSE, offline |-> FALSE, excused |-> TRUE]
    /\ left \in Budgets

TimerStep(t) ==
    \/ Wake(t) \/ WakeFails(t) \/ SendPack(t) \/ SendFails(t)
    \/ StartVere(t) \/ StartFails(t) \/ StoreFails(t)

Step ==
    \/ SchedulePack \/ PausePackSchedule \/ TogglePower \/ Pack
    \/ QueueOnBus \/ QueueOnTick
    \/ \E t \in Timers : TimerStep(t)
    \/ Tick \/ ShipGoesDown \/ LoadUrbits

Next == Step \/ Restart

Spec == Init /\ [][Next]_vars

-----------------------------------------------------------------------------
(* Properties *)

Boots == {"boot", "noboot", "pack"}
Conf == [on : BOOLEAN, last : 0..now, boot : Boots, schedule : Schedule]
Ship == [run : {"up", "exit", "down", "gone", "pack"}, left : 0..MaxPack]
Loop == [phase : {0, 1}, tick : BOOLEAN, bus : BOOLEAN, load : BOOLEAN]
Slot == [pc : {"idle", "sleep", "send", "start"}, due : 0..(now + 2), spent : 0..MaxPack,
         copy : Conf]
History == [packed : 0..now, recorded : 0..now, edited : 0..now, failed : Nat,
            raced : BOOLEAN, offline : BOOLEAN, excused : BOOLEAN]

\* The types of the parts of the state: no pack is dated in the future, and a
\* timer never sleeps for longer than a minute.
PackTypeOK ==
    /\ now \in Nat /\ scheduledPacks \in Int /\ left \in Budget
    /\ conf \in Conf /\ want \in [on : BOOLEAN, schedule : Schedule, boot : Boots]
    /\ ship \in Ship /\ loop \in Loop
    /\ timer \in [Timers -> Slot]
    /\ h \in History

Span(s) == s.freq * (CASE s.type = "day" -> 1 [] s.type = "week" -> Week
                       [] s.type = "month" -> Month)

\* The last pack, or change of the schedule, or pack that was recorded and not
\* made.
Since == Latest(Latest(h.packed, h.recorded), h.edited)

\* While a schedule is on, the ship is packed in time: no later than a day
\* after the schedule's span, with a minute and a pack more for every attempt
\* that failed or that a restart cut off.
PackedInTime ==
    conf.on => now <= Since + (Span(conf.schedule) + 1) * Day + (1 + h.failed) * (2 + MaxPack)

\* A schedule that packs twice a day: weekly, on its day (pack.go:144 takes a
\* week off), or monthly, on its date, when the last pack was not later than
\* the hour it asks for (pack.go:109).
Rapid(c) ==
    \/ c.schedule.type = "week" /\ c.schedule.freq = 1 /\ DayOf(now) % Week = c.schedule.day
    \/ c.schedule.type = "month" /\ DayOf(now) % Month = c.schedule.date
       /\ c.last % Day <= c.schedule.at

\* Otherwise the ship is not packed twice on one day, unless the schedule was
\* changed since the first pack, that pack was not stored, or two timers met.
PacksApart ==
    [][h'.packed # h.packed /\ ~h.excused /\ ~Rapid(conf)
       => DayOf(h'.packed) > DayOf(h.packed)]_vars

\* What the user sets stays: a timer that stores its copy undoes nothing that
\* was set while no timer was at work.  Only the mark to pack of a ship that was
\* down stays (pack.go:208, and handler/urbit.go:138 the same).
EditsKept ==
    ~h.raced => /\ conf.on = want.on /\ conf.schedule = want.schedule
                /\ h.offline \/ conf.boot = want.boot
=============================================================================
