------------------------------- MODULE Voyage -------------------------------
(***************************************************************************)
(* What the engine promises a navigator about one boat: the log of fixes   *)
(* only grows, one fix per step and none missing; the legs already sailed  *)
(* are locked; a boat that has arrived is never moved again.  "Boat state  *)
(* only ever advances" (README.md, "No time travel").                      *)
(***************************************************************************)
EXTENDS Integers, Sequences

CONSTANTS
  Step,     \* seconds between two fixes
  Gun,      \* when the boat starts
  None      \* no time: the boat has not arrived

VARIABLES
  clock,    \* the boat's own time: its state is valid up to here
  log,      \* fixes, a function from times to places
  legs,     \* the waypoints already reached, in order
  arrived   \* when the boat finished, or None

vars == <<clock, log, legs, arrived>>

\* A set of fixes that covers (from, to] with one fix every Step.
Gapless(fixes, from, to) ==
  /\ \A t \in fixes : from < t /\ t <= to
  /\ \A t \in fixes : t - Step = from \/ t - Step \in fixes
  /\ from < to => to \in fixes

Init == /\ clock = Gun
        /\ DOMAIN log = {}
        /\ legs = <<>>
        /\ arrived = None

(***************************************************************************)
(* The one thing that may happen: the boat sails on from where it was.     *)
(* Submitting a route changes the future only, which is not in this view.  *)
(***************************************************************************)
SailOn ==
  /\ arrived = None
  /\ clock < clock'
  /\ DOMAIN log \subseteq DOMAIN log'
  /\ \A t \in DOMAIN log : log'[t] = log[t]
  /\ Gapless(DOMAIN log' \ DOMAIN log, clock, clock')
  /\ Len(legs) <= Len(legs')
  /\ SubSeq(legs', 1, Len(legs)) = legs
  /\ arrived' \in {None, clock'}

Next == SailOn

Spec == Init /\ [][Next]_vars
=============================================================================
