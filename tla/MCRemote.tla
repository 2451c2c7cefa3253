----------------------------- MODULE MCRemote -----------------------------
(* Instances of Remote.  Ships and servers are interchangeable. *)
EXTENDS Remote, TLC

Symmetry == Permutations(Ships) \cup Permutations(Endpoints)
AllOps == ServerOps \cup LocalOps
=============================================================================
