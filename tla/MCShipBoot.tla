----------------------------- MODULE MCShipBoot -----------------------------
(* Instances of ShipBoot for TLC: groups of user actions, one per question. *)
EXTENDS ShipBoot, TLC

PackMeldOps == {"toggle-power", "pack-meld"}
SoloOps == AllOps \ {"pack"}   \* pack leaves its mark on a ship that is down
RaceOps == {"edit", "pack"}
CrashOps == {"toggle-power", "pack-meld", "toggle-network"}

HandlerSymmetry == Permutations(Handlers)
=============================================================================
