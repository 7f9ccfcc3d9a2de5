----------------------------- MODULE MCAisFeed -----------------------------
(***************************************************************************)
(* A yacht whose name fits two roster entries, and a motor boat that bears *)
(* the name of one of them.                                                *)
(***************************************************************************)
EXTENDS AisFeed, TLC

CONSTANTS yacht, motor

MCMatches == yacht :> {1, 2} @@ motor :> {1}
=============================================================================
