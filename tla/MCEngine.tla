------------------------------ MODULE MCEngine ------------------------------
(***************************************************************************)
(* Small courses for the engine.                                           *)
(***************************************************************************)
EXTENDS Engine

MCPlaces   == 0..3
OutAndBack == <<0, 3, 1>>      \* the finish is passed on the way out
MCRoutings == {<<3, 1>>, <<1>>, <<2, 0>>}
=============================================================================
