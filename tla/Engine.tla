------------------------------- MODULE Engine -------------------------------
(***************************************************************************)
(* The race engine (vn/sim.py) sailing one boat, with the route            *)
(* replacement of app.py's submit_route, the two callers that move a boat. *)
(*                                                                         *)
(* The course is laid along a line: a place is an integer and distances    *)
(* are differences.  Out-and-back legs, a step that passes several marks   *)
(* and a pass within the mark radius all exist there; the side a mark is   *)
(* left on does not.  Wind, depth, zones and tacks only decide how far a   *)
(* step takes the boat and are left to choice.                             *)
(*                                                                         *)
(* What one thread does between two commits is split where the code loops: *)
(* one step of _advance, one mark of enforce_course.  Everything runs      *)
(* under the engine lock; a crash of the process loses what is not         *)
(* committed.                                                              *)
(***************************************************************************)
EXTENDS Integers, Sequences, SequencesExt

CONSTANTS
  Places,     \* the places along the course line, integers
  Marks,      \* the marks in course order: the start line first, finish last
  Radius,     \* races.mark_radius_nm
  Step,       \* races.step_minutes, in ticks of the clock
  Reach,      \* the farthest a boat can get from where a step began
  Stream,     \* the farthest the current sets a boat in one step
  MaxSteps,   \* MAX_STEPS_PER_TICK
  Routings,   \* the routings navigators submit (bound)
  Gun,        \* boats.started_at
  Horizon,    \* the clock stops here (bound)
  MaxCrashes, \* the process dies at most this often (bound)
  None        \* SQL NULL

ASSUME PlacesAssumption == Places \subseteq Int
ASSUME MarksAssumption == Marks \in Seq(Places) /\ Len(Marks) >= 2
ASSUME NumbersAssumption ==
  /\ Radius \in Nat /\ Reach \in Nat /\ Stream \in Nat
  /\ Step \in Nat \ {0} /\ MaxSteps \in Nat \ {0}
  /\ Gun \in Int /\ Horizon \in Int /\ MaxCrashes \in Nat
ASSUME RoutingsAssumption == Routings \subseteq Seq(Places)
ASSUME NoneAssumption == None \notin Int

VARIABLES
  \* the database, as committed
  boat,      \* the boats row
  track,     \* track: the place of each fix, by time
  route,     \* route_wps: row seq is the index, the place it is at
  passed,    \* route_wps.passed = 1 for the rows 1..passed
  \* the process
  lock,      \* who holds the engine lock
  pc,        \* where the holder is
  until,     \* the `now` the holder read before it waited for the lock
  run,       \* the locals of _advance
  plan,      \* the locals of enforce_course
  \* the world
  now,       \* wall clock
  crashes    \* crashes so far

dbVars  == <<boat, track, route, passed>>
vars    == <<boat, track, route, passed, lock, pc, until, run, plan, now, crashes>>

Finish  == Len(Marks)
Dist(a, b) == IF a < b THEN b - a ELSE a - b

NoRun  == [t |-> Gun, pos |-> Marks[1], next |-> 2, finished |-> None, wps |-> <<>>,
           passed |-> 0, fixes |-> <<>>, n |-> 0, path |-> <<>>]
NoPlan == [wps |-> <<>>, mark |-> 2, from |-> 1]

(***************************************************************************)
(* A boat on the line with the straight-line course, as _start_unrouted    *)
(* leaves it.                                                              *)
(***************************************************************************)
Init ==
  /\ boat = [sim_time |-> Gun, pos |-> Marks[1], next |-> 2, finished |-> None]
  /\ track = <<>>
  /\ route = SubSeq(Marks, 2, Finish)
  /\ passed = 0
  /\ lock = "free" /\ pc = "idle" /\ until = Gun
  /\ run = NoRun /\ plan = NoPlan
  /\ now = Gun /\ crashes = 0

Tick ==
  /\ now < Horizon
  /\ now' = now + 1
  /\ UNCHANGED <<dbVars, lock, pc, until, run, plan, crashes>>

(***************************************************************************)
(* Catching up: sim_lock, catch_up_race and _advance.                      *)
(***************************************************************************)
\* The caller read the clock at u, then waited for the lock.
Acquire(who, u) ==
  /\ lock = "free"
  /\ u \in Gun..now
  /\ lock' = who /\ pc' = "read" /\ until' = u
  /\ UNCHANGED <<dbVars, run, plan, now, crashes>>

\* Slip: a finished boat is sailed on.
NothingButTime == until <= boat.sim_time

NothingToSail == boat.finished # None \/ until <= boat.sim_time

ReadIdle ==
  /\ pc = "read" /\ NothingToSail
  /\ pc' = "caught_up"
  /\ UNCHANGED <<dbVars, lock, until, run, plan, now, crashes>>

ReadBoat ==
  /\ pc = "read" /\ ~NothingToSail
  /\ run' = [NoRun EXCEPT !.t = boat.sim_time, !.pos = boat.pos, !.next = boat.next,
                          !.wps = SubSeq(route, passed + 1, Len(route)), !.passed = passed]
  /\ pc' = "sail"
  /\ UNCHANGED <<dbVars, lock, until, plan, now, crashes>>

\* Slips: the last step runs past the time asked for; no bound; a bound one short.
SailsAhead == run.t < until /\ run.finished = None /\ (lock = "ticker" => run.n < MaxSteps)
SailsUnbounded == run.t + Step <= until /\ run.finished = None
SailsOneShort == /\ run.t + Step <= until /\ run.finished = None
                 /\ lock = "ticker" => run.n + 1 < MaxSteps

\* The ticker bounds a call at MaxSteps; a request does not.
MoreToSail ==
  /\ run.t + Step <= until
  /\ run.finished = None
  /\ lock = "ticker" => run.n < MaxSteps

\* Where a step may leave a boat that is at `from` with `target` ahead: short
\* of the target (reaching it is passing it), or not moved at all.
Short(from, target) == {from} \cup {p \in Places : \/ from < p /\ p < target
                                                   \/ target < p /\ p < from}

\* Slip: a mark is judged only where the step ends.
TouchesAtEnd(path, i, m) == i = Len(path) - 1 /\ Dist(path[i + 1], Marks[m]) <= Radius

\* Segment i of the path comes within the radius of mark m.
Touches(path, i, m) ==
  \/ path[i] <= path[i + 1] /\ path[i] - Radius <= Marks[m] /\ Marks[m] <= path[i + 1] + Radius
  \/ path[i + 1] <= path[i] /\ path[i + 1] - Radius <= Marks[m] /\ Marks[m] <= path[i] + Radius

(***************************************************************************)
(* Marks next..n-1 are touched in order along the path.  The code looks    *)
(* for the first segment that touches the mark and keeps `path[i:]`, that  *)
(* segment included, for the marks after it: so the segments are in order, *)
(* but two marks on one segment are not.                                   *)
(***************************************************************************)
Credits(next, n, path) ==
  \E seg \in [next..(n - 1) -> 1..(Len(path) - 1)] :
    /\ \A m \in next..(n - 1) : Touches(path, seg[m], m)
    /\ \A m1, m2 \in next..(n - 1) : m1 <= m2 => seg[m1] <= seg[m2]

\* As many as the path gives; the finish stops the count.
CreditsJust(next, n, path) ==
  /\ Credits(next, n, path)
  /\ n <= Finish => ~Credits(next, n + 1, path)

\* One step: through the first k waypoints, on to `end`, then set by the stream.
Sail ==
  /\ pc = "sail" /\ MoreToSail
  /\ \E k \in 0..Len(run.wps) :
       LET legs == <<run.pos>> \o SubSeq(run.wps, 1, k)
           ends == IF k < Len(run.wps) THEN Short(legs[k + 1], run.wps[k + 1])
                                       ELSE {legs[k + 1]}
       IN \E end \in ends, drift \in (-Stream)..Stream :
            LET path == legs \o <<end, end + drift>>
            IN /\ end + drift \in Places
               /\ \A i \in 1..(k + 2) : Dist(run.pos, path[i]) <= Reach
               /\ \E n \in run.next..(Finish + 1) :
                    /\ CreditsJust(run.next, n, path)
                    /\ run' = [t |-> run.t + Step, pos |-> end + drift, next |-> n,
                               finished |-> IF n > Finish THEN run.t + Step ELSE None,
                               wps |-> SubSeq(run.wps, k + 1, Len(run.wps)),
                               passed |-> run.passed + k,
                               fixes |-> [t \in DOMAIN run.fixes \cup {run.t + Step} |->
                                            IF t = run.t + Step THEN end + drift
                                                                ELSE run.fixes[t]],
                               n |-> run.n + 1, path |-> path]
  /\ UNCHANGED <<dbVars, lock, pc, until, plan, now, crashes>>

\* Less than a step to sail: nothing to write.
WriteNothing ==
  /\ pc = "sail" /\ ~MoreToSail /\ run.n = 0
  /\ run' = NoRun /\ pc' = "caught_up"
  /\ UNCHANGED <<dbVars, lock, until, plan, now, crashes>>

\* INSERT OR REPLACE the fixes, mark the waypoints, UPDATE the boat; commit.
Write ==
  /\ pc = "sail" /\ ~MoreToSail /\ run.n > 0
  /\ track' = [t \in DOMAIN track \cup DOMAIN run.fixes |->
                 IF t \in DOMAIN run.fixes THEN run.fixes[t] ELSE track[t]]
  /\ passed' = run.passed
  /\ boat' = [sim_time |-> run.t, pos |-> run.pos, next |-> run.next,
              finished |-> run.finished]
  /\ run' = NoRun /\ pc' = "caught_up"
  /\ UNCHANGED <<route, lock, until, plan, now, crashes>>

TickDone ==
  /\ pc = "caught_up" /\ lock = "ticker"
  /\ lock' = "free" /\ pc' = "idle"
  /\ UNCHANGED <<dbVars, until, run, plan, now, crashes>>

(***************************************************************************)
(* Replacing the route, in the same hold of the lock: the finish check,    *)
(* enforce_course and the swap of the waypoints not yet reached.           *)
(***************************************************************************)
\* Slip: the early return keeps the lock.
RefuseLocked ==
  /\ pc = "caught_up" /\ lock = "request" /\ boat.finished # None
  /\ pc' = "idle"
  /\ UNCHANGED <<dbVars, lock, until, run, plan, now, crashes>>

RefuseFinished ==
  /\ pc = "caught_up" /\ lock = "request" /\ boat.finished # None
  /\ lock' = "free" /\ pc' = "idle"
  /\ UNCHANGED <<dbVars, until, run, plan, now, crashes>>

(***************************************************************************)
(* The routing is joined at some waypoint of it (the closest one ahead, by *)
(* distance and course over ground: which one is left open) and its        *)
(* leading waypoints already underfoot are dropped.                        *)
(***************************************************************************)
Join ==
  /\ pc = "caught_up" /\ lock = "request" /\ boat.finished = None
  /\ \E wps \in Routings : \E k \in 1..Len(wps) : \E u \in k..(Len(wps) + 1) :
       /\ \A i \in k..(u - 1) : Dist(boat.pos, wps[i]) <= Radius
       /\ u <= Len(wps) => Dist(boat.pos, wps[u]) > Radius
       /\ plan' = [wps |-> SubSeq(wps, u, Len(wps)), mark |-> boat.next, from |-> 1]
  /\ pc' = "enforce"
  /\ UNCHANGED <<dbVars, lock, until, run, now, crashes>>

Inside(i) == Dist(plan.wps[i], Marks[plan.mark]) <= Radius

\* The routing reaches the next mark at its waypoint i.
MarkReached ==
  /\ pc = "enforce" /\ plan.mark <= Finish
  /\ \E i \in plan.from..Len(plan.wps) :
       /\ Inside(i)
       /\ \A j \in plan.from..(i - 1) : ~Inside(j)
       /\ plan' = [plan EXCEPT !.mark = @ + 1, !.from = i + 1]
  /\ UNCHANGED <<dbVars, lock, pc, until, run, now, crashes>>

\* It never does: the mark goes in after the closest approach, or at the end.
MarkInserted ==
  /\ pc = "enforce" /\ plan.mark <= Finish
  /\ \A i \in plan.from..Len(plan.wps) : ~Inside(i)
  /\ \E best \in (plan.from - 1)..Len(plan.wps) :
       /\ best < plan.from <=> Len(plan.wps) < plan.from
       /\ best >= plan.from =>
            \A j \in plan.from..Len(plan.wps) :
              LET d(i) == Dist(plan.wps[i], Marks[plan.mark])
              IN d(best) <= d(j) /\ (j < best => d(best) < d(j))
       /\ plan' = [wps  |-> InsertAt(plan.wps, best + 1, Marks[plan.mark]),
                   mark |-> plan.mark + 1, from |-> best + 2]
  /\ UNCHANGED <<dbVars, lock, pc, until, run, now, crashes>>

\* DELETE the rows not passed, INSERT the new ones after the last that is.
Replace ==
  /\ pc = "enforce" /\ plan.mark > Finish
  /\ route' = SubSeq(route, 1, passed) \o plan.wps
  /\ lock' = "free" /\ pc' = "idle" /\ plan' = NoPlan
  /\ UNCHANGED <<boat, track, passed, until, run, now, crashes>>

\* The process dies: the lock and every local go with it.
Crash ==
  /\ crashes < MaxCrashes /\ lock # "free"
  /\ crashes' = crashes + 1
  /\ lock' = "free" /\ pc' = "idle" /\ run' = NoRun /\ plan' = NoPlan
  /\ UNCHANGED <<dbVars, until, now>>

CatchUp == ReadIdle \/ ReadBoat \/ Sail \/ WriteNothing \/ Write \/ TickDone
Replan  == RefuseFinished \/ Join \/ MarkReached \/ MarkInserted \/ Replace

Next ==
  \/ Tick
  \/ \E who \in {"ticker", "request"}, u \in Gun..now : Acquire(who, u)
  \/ CatchUp
  \/ Replan
  \/ Crash

Spec == Init /\ [][Next]_vars

\* The threads run, the clock runs, and the ticker is not locked out for ever.
FairSpec ==
  /\ Spec
  /\ WF_vars(Tick)
  /\ WF_vars(CatchUp \/ Replan)
  /\ SF_vars(Acquire("ticker", now))
-----------------------------------------------------------------------------
DatabaseOK ==
  /\ boat \in [sim_time : Int, pos : Places, next : 2..(Finish + 1), finished : Int \cup {None}]
  /\ DOMAIN track \subseteq Int
  /\ \A t \in DOMAIN track : track[t] \in Places
  /\ route \in Seq(Places)
  /\ passed \in 0..Len(route)

ControlOK ==
  /\ lock \in {"free", "ticker", "request"}
  /\ pc \in {"idle", "read", "sail", "caught_up", "enforce"}
  /\ lock = "free" <=> pc = "idle"
  /\ until \in Int /\ now \in Int /\ crashes \in Nat

RunOK ==
  /\ run.t \in Int /\ run.pos \in Places /\ run.next \in 2..(Finish + 1)
  /\ run.finished \in Int \cup {None}
  /\ run.wps \in Seq(Places) /\ run.passed \in Nat /\ run.n \in Nat
  /\ DOMAIN run.fixes \subseteq Int
  /\ \A t \in DOMAIN run.fixes : run.fixes[t] \in Places

PlanOK == plan \in [wps : Seq(Places), mark : 2..(Finish + 1), from : Nat \ {0}]

TypeOK == DatabaseOK /\ ControlOK /\ RunOK /\ PlanOK

(***************************************************************************)
(* The boats row agrees with the track: the last fix is where the boat is  *)
(* and when, no step is missing behind it, the boat is never ahead of the  *)
(* clock, and it has finished exactly when no mark is left.                *)
(***************************************************************************)
Voy == INSTANCE Voyage WITH clock <- boat.sim_time, log <- track,
                            legs <- SubSeq(route, 1, passed), arrived <- boat.finished

RowMatchesTrack ==
  /\ Voy!Gapless(DOMAIN track, Gun, boat.sim_time)
  /\ boat.sim_time \in DOMAIN track => track[boat.sim_time] = boat.pos
  /\ Gun <= boat.sim_time /\ boat.sim_time <= now
  /\ boat.finished # None <=> boat.next = Finish + 1
  /\ boat.finished # None => boat.finished = boat.sim_time

(***************************************************************************)
(* A boat never parks short of the finish: what is left of its route       *)
(* visits every mark it still owes, in order.  enforce_course promises it  *)
(* of the routing submitted ("rather than letting a boat park short of the *)
(* finish"); steps that pass several marks at once, drift, crashes and     *)
(* resubmissions must keep it true of what remains.                        *)
(***************************************************************************)
Visits(wps, from, to) ==
  \E at \in [from..to -> 1..Len(wps)] :
    /\ \A m \in from..to : Dist(wps[at[m]], Marks[m]) <= Radius
    /\ \A m1, m2 \in from..to : m1 <= m2 => at[m1] <= at[m2]

RouteStillVisits ==
  boat.finished = None => Visits(SubSeq(route, passed + 1, Len(route)), boat.next, Finish)

(***************************************************************************)
(* Whatever the interleaving of ticks, submissions and crashes, the boat's *)
(* history is one Voyage: fixes are added, never rewritten, the waypoints  *)
(* passed are locked, and a finished boat is left alone.                   *)
(***************************************************************************)
IsVoyage == Voy!Spec

(***************************************************************************)
(* A tick never sails a boat more than MaxSteps, so one boat's backlog     *)
(* cannot hold the lock through a whole catch-up.                          *)
(***************************************************************************)
TickIsBounded ==
  [][lock = "ticker" => boat'.sim_time - boat.sim_time <= MaxSteps * Step]_vars

(***************************************************************************)
(* Once the clock stops, the boat is brought to within a step of it or has *)
(* finished, however the gap is split over ticks, requests and crashes.    *)
(***************************************************************************)
CaughtUp == <>[](boat.finished # None \/ Horizon - boat.sim_time < Step)
=============================================================================
