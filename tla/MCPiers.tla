------------------------------ MODULE MCPiers ------------------------------
(* Instances of Piers.  The names of ships and handlers are interchangeable. *)
EXTENDS Piers, TLC

Symmetry == Permutations(Patps) \cup Permutations(Handlers)
CleanFaults == {"volume", "fill", "start"}
LateFaults == {"start", "conf", "write", "store", "ready"}
NoRemote == {FALSE}
AnyRemote == {TRUE, FALSE}
=============================================================================
