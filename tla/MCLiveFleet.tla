---------------------------- MODULE MCLiveFleet ----------------------------
(***************************************************************************)
(* The live fleet: a boat that is restarted, and an answer lost; a boat    *)
(* and a tracked one; two polls that overlap, of either.                   *)
(***************************************************************************)
EXTENDS LiveFleet

One(S) == {CHOOSE x \in S : TRUE}

Fleets == {[boats |-> Virtual, polls |-> One(Polls), restarts |-> 1, lost |-> 1],
           [boats |-> Boats, polls |-> One(Polls), restarts |-> 0, lost |-> 0],
           [boats |-> Real, polls |-> Polls, restarts |-> 0, lost |-> 0],
           [boats |-> Virtual, polls |-> Polls, restarts |-> 0, lost |-> 0]}
=============================================================================
