----------------------------- MODULE MCRealFleet -----------------------------
(***************************************************************************)
(* A course of one turning mark and a finish line.                         *)
(***************************************************************************)
EXTENDS RealFleet, TLC

CONSTANTS sea, turn, line, both

MCNear == sea :> {} @@ turn :> {1} @@ line :> {2} @@ both :> {1, 2}
=============================================================================
