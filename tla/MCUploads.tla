----------------------------- MODULE MCUploads -----------------------------
(* Instances of Uploads: an archive in two pieces and one in a single piece,  *)
(* over a bad connection, with a write that fails, across a restart, and two  *)
(* uploads of the same file name.                                             *)
EXTENDS Uploads

PiecesOf == [a \in Archives |-> IF a = CHOOSE x \in Archives : TRUE THEN 2 ELSE 1]
TwoPieces == CHOOSE a \in Archives : Pieces[a] = 2
OnePiece == CHOOSE a \in Archives : Pieces[a] = 1

Bounds(plan, reqs, lost, faults, restarts, ticks, wg) ==
    [plan |-> plan, reqs |-> reqs, lost |-> lost, faults |-> faults, restarts |-> restarts,
     ticks |-> ticks, wg |-> wg]
SomeUploads ==
    {Bounds(<<TwoPieces>>, 2, 2, 0, 0, FALSE, TRUE),
     Bounds(<<OnePiece>>, 3, 2, 0, 0, TRUE, FALSE),
     Bounds(<<TwoPieces>>, 3, 1, 1, 0, FALSE, TRUE),
     Bounds(<<TwoPieces>>, 2, 1, 0, 1, FALSE, TRUE),
     Bounds(<<TwoPieces, OnePiece>>, 2, 0, 0, 0, FALSE, FALSE)}
=============================================================================
