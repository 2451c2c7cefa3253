---------------------------- MODULE PierRegistry ----------------------------
(***************************************************************************)
(* What the system configuration promises about the list of ships: each    *)
(* request is about one ship, and its effect on the list is to add or to   *)
(* drop that ship and nothing else.                                        *)
(***************************************************************************)
CONSTANTS Patps, Handlers

VARIABLES ships, \* the ships of the household
          asked  \* what each handler was asked: {} or one ship

vars == <<ships, asked>>

Init == /\ ships \in SUBSET Patps
        /\ asked = [h \in Handlers |-> {}]

Ask(h) == /\ asked[h] = {}
          /\ \E p \in Patps : asked' = [asked EXCEPT ![h] = {p}]
          /\ UNCHANGED ships

Add(h) == ships' = ships \cup asked[h] /\ UNCHANGED asked

Drop(h) == ships' = ships \ asked[h] /\ UNCHANGED asked

\* some requests are answered, or forgotten when the daemon is killed
Finish(H) ==
  /\ asked' = [h \in Handlers |-> IF h \in H THEN {} ELSE asked[h]]
  /\ UNCHANGED ships

Next == \/ \E h \in Handlers : Ask(h) \/ Add(h) \/ Drop(h)
        \/ \E H \in SUBSET Handlers : Finish(H)

Spec == Init /\ [][Next]_vars
=============================================================================
