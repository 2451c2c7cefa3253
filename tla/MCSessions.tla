---------------------------- MODULE MCSessions ----------------------------
(* Instances of Sessions: tabs of a new device, tabs of one that is set up    *)
(* with a save that fails, a tab across a restart, and logins.               *)
EXTENDS Sessions

Bounds(new, connects, saves, restarts, wrong) ==
    [new |-> new, connects |-> connects, saves |-> saves, restarts |-> restarts,
     wrong |-> wrong]
TabsAndLogins ==
    {Bounds(TRUE, 2, 0, 0, 0), Bounds(FALSE, 2, 1, 0, 0),
     Bounds(FALSE, 1, 1, 1, 0), Bounds(FALSE, 1, 0, 0, 3)}
=============================================================================
