----------------------------- MODULE MCExports -----------------------------
(* Instances of Exports: schedules of each kind in a calendar of two-minute  *)
(* days, with two changes, with the power switch, with failing calls, across  *)
(* a restart; and up to two exports from two browsers, next to a pack, to the *)
(* power switch, and to a failure and a restart.                              *)
EXTENDS Exports

Every(type, freq, day, date, at) ==
    [type |-> type, freq |-> freq, day |-> day, date |-> date, at |-> at]
SomeSchedules ==
    {Every("day", 1, 0, 0, 2), Every("week", 1, 1, 0, 2), Every("week", 2, 0, 0, 0),
     Every("month", 1, 0, 1, 2)}
Bounds(time, edits, power, exports, faults, restarts) ==
    [time |-> time, edits |-> edits, power |-> power, exports |-> exports,
     faults |-> faults, restarts |-> restarts]
SomeUse ==
    {Bounds(10, 2, 0, 0, 0, 0), Bounds(12, 1, 1, 0, 0, 0), Bounds(20, 1, 0, 0, 1, 0),
     Bounds(16, 1, 0, 0, 0, 1),
     Bounds(0, 1, 0, 1, 0, 0), Bounds(0, 0, 1, 2, 0, 0), Bounds(0, 0, 0, 2, 1, 1)}
=============================================================================
