------------------------------ MODULE StartLine ------------------------------
(***************************************************************************)
(* How the boats of one race leave the start line.  Three kinds of         *)
(* process write the same rows: the ticker (app.py, _tick), the request    *)
(* threads (submit_route) and the committee's console scripts (a process   *)
(* each).  The engine lock is held by the ticker and the requests in part  *)
(* of what they do, by open_gate and the scripts never.                    *)
(*                                                                         *)
(* A handler is split where another process can come between: at every     *)
(* read of the database and at the wait for the lock.  From its first      *)
(* write to its commit a handler holds SQLite's write lock, so that much   *)
(* is one action.  Sailing itself is module Engine: here a boat is only    *)
(* the time it has sailed to.                                              *)
(***************************************************************************)
EXTENDS Integers, FiniteSets, FiniteSetsExt

CONSTANTS
  Boats,      \* boats.id, naturals
  RealBoats,  \* the tracked real fleet
  Requests,   \* request threads, each with one route submission (bound)
  Setups,     \* the races to start from: who is entered and tracked, how many
              \* real boats the gate waits for (0: no gate), rolling or not,
              \* and the requests, scripts and crashes allowed (bounds)
  Gun,        \* races.start_time when entries close
  Late,       \* how old a tracker fix may be when it arrives
  Patience,   \* longest from a request's reading of the clock to its getting the lock:
              \* it waits 30 s, and a step of the engine (a unit here) is a minute or more
  Cap,        \* MAX_STEPS_PER_TICK
  Scripts,    \* the console scripts the committee may run
  Horizon,    \* the clock stops here (bound)
  None        \* SQL NULL

Times == 0..Horizon

ASSUME StartLineAssumption ==
  /\ Boats \subseteq Nat /\ IsFiniteSet(RealBoats) /\ {"free", "ticker"} \cap Requests = {}
  /\ Setups \subseteq [boats : SUBSET Boats, real : SUBSET RealBoats, needed : Nat,
                      rolling : BOOLEAN, requests : SUBSET Requests, scripts : Nat, crashes : Nat]
  /\ Gun \in Times /\ Late \in Nat /\ Patience \in {0, 1} /\ Cap \in Nat \ {0}
  /\ Scripts \subseteq {"set_virtual_start", "set_start", "set_fleet_gate", "restart_boat"}
  /\ Horizon \in Nat
  /\ None \notin Int

VARIABLES
  race,     \* the races row: gun, virtual_start, rolling, how many real boats it waits for
  boats,    \* boats and route_wps: sim_time, started_at, whose route
  fixes,    \* real_track: the times of each real boat's fixes
  now,      \* wall clock
  lock,     \* the engine lock
  ticker,   \* the ticker thread
  reqs,     \* the request threads
  script,   \* the console script running
  crashes,  \* left to come
  openings  \* history: the moments the race's start has been at by the fixes that
            \* were in; none once a script has run

vars == <<race, boats, fixes, now, lock, ticker, reqs, script, crashes, openings>>

\* What a thread has read: the race row, the clock, one boat's sim_time, the
\* boats it is to start or to sail and the start it is to give them.
Idle == [pc |-> "idle", race |-> [gun |-> Gun, vs |-> None, needed |-> 0, rolling |-> FALSE], now |-> 0,
         boat |-> None, sim |-> None, batch |-> {}, vs |-> None, rows |-> <<>>]

Init ==
  \E setup \in Setups :
    /\ race = [gun |-> Gun, vs |-> None, needed |-> setup.needed, rolling |-> setup.rolling]
    /\ boats = [b \in setup.boats |-> [sim |-> None, started |-> None, route |-> "none"]]
    /\ fixes = [rb \in setup.real |-> {}]
    /\ now = 0 /\ lock = "free" /\ ticker = Idle
    /\ reqs = [r \in Requests |-> IF r \in setup.requests THEN Idle ELSE [Idle EXCEPT !.pc = "done"]]
    /\ script = [pc |-> "idle", race |-> Idle.race, sailing |-> FALSE, left |-> setup.scripts, ran |-> FALSE]
    /\ crashes = setup.crashes
    /\ openings = IF setup.needed > 0 /\ setup.real # {} THEN {} ELSE {Gun}

Entered == DOMAIN boats
Tracked == DOMAIN fixes

-----------------------------------------------------------------------------
(***************************************************************************)
(* The fleet gate, judged on a race row that may be stale and on the       *)
(* tracks as they are.                                                     *)
(***************************************************************************)
SeenBy(row, t) == {rb \in Tracked : \E f \in fixes[rb] : row.gun <= f /\ f <= t}

GateApplies(row) == row.needed > 0 /\ Tracked # {}

\* When the needed-th real boat was first seen after the gun.
OpenAt(row) ==
  LET enough == {t \in Times : Cardinality(SeenBy(row, t)) >= row.needed}
  IN IF enough = {} THEN None ELSE Min(enough)

\* Slip: the start does not wait for the gate.
VirtualStartAtGun(row) == IF row.vs # None THEN row.vs ELSE row.gun

VirtualStart(row) == IF row.vs # None THEN row.vs
                     ELSE IF GateApplies(row) THEN OpenAt(row) ELSE row.gun

\* Where the start is by the fixes that are in, whatever is on record.
Unrecorded == [race EXCEPT !.vs = None]
TheStart == VirtualStart(Unrecorded)

\* Slip: boats without a route count as waiting too.
WaitingRouted(b) == boats[b].sim = None

Waiting(b)  == boats[b].sim = None /\ boats[b].route # "none"
Unrouted(b) == boats[b].sim = None /\ boats[b].route = "none"

(***************************************************************************)
(* _start_unrouted.  The boats and their start are read first; the writes  *)
(* come under the lock.  A boat of the batch that has got a route in       *)
(* between makes the INSERT fail on the rows' key: the boats before it     *)
(* keep what was written, the rest are left.                               *)
(***************************************************************************)
\* Slip: no default course while the gate holds.
BatchOnceStarted(me) ==
  IF me.now < me.race.gun \/ me.race.rolling \/ VirtualStart(me.race) = None
  THEN {} ELSE {b \in Entered : Unrouted(b)}

Batch(me) == IF me.now < me.race.gun \/ me.race.rolling THEN {} ELSE {b \in Entered : Unrouted(b)}

Taken(batch) == {b \in batch : boats[b].route # "none"}

\* Slip: INSERT OR REPLACE.
DockedAll(batch) == batch

Docked(batch) == IF Taken(batch) = {} THEN batch ELSE {b \in batch : b < Min(Taken(batch))}

DefaultCourse(batch, vs) ==
  [b \in Entered |-> IF b \in Docked(batch) THEN [sim |-> vs, started |-> vs, route |-> "default"]
                                          ELSE boats[b]]

\* catch_up_race over the rows read, at most `steps` of them for each boat.
Rows == [b \in {x \in Entered : boats[x].sim # None} |-> boats[b].sim]

SailTo(sim, until, steps) == Max({sim, Min({until, sim + steps})})

Sailed(me, steps) ==
  [b \in Entered |-> IF b \in DOMAIN me.rows /\ SailTo(me.rows[b], me.now, steps) > me.rows[b]
                   THEN [boats[b] EXCEPT !.sim = SailTo(me.rows[b], me.now, steps)]
                   ELSE boats[b]]

-----------------------------------------------------------------------------
(***************************************************************************)
(* The world: the clock, and tracker fixes, some of them late.             *)
(***************************************************************************)
Clock ==
  /\ now < Horizon /\ now' = now + 1
  /\ UNCHANGED <<race, boats, fixes, lock, ticker, reqs, script, crashes, openings>>

FixArrives ==
  /\ \E rb \in Tracked, t \in Times :
       /\ now - Late <= t /\ t <= now /\ t \notin fixes[rb]
       /\ fixes' = [fixes EXCEPT ![rb] = @ \cup {t}]
  /\ UNCHANGED <<race, boats, now, lock, ticker, reqs, script, crashes>>
  /\ openings' = IF script.ran THEN {} ELSE openings \cup ({TheStart'} \ {None})

(***************************************************************************)
(* The ticker.                                                             *)
(***************************************************************************)
TickBegin ==
  /\ ticker.pc = "idle"
  /\ ticker' = [Idle EXCEPT !.pc = "unrouted", !.race = race, !.now = now]
  /\ UNCHANGED <<race, boats, fixes, now, lock, reqs, script, crashes, openings>>

TickUnrouted ==
  /\ ticker.pc = "unrouted"
  /\ ticker' = IF Batch(ticker) = {} THEN [ticker EXCEPT !.pc = "gate"]
               ELSE [ticker EXCEPT !.pc = "dock", !.batch = Batch(ticker),
                                   !.vs = VirtualStart(ticker.race)]
  /\ UNCHANGED <<race, boats, fixes, now, lock, reqs, script, crashes, openings>>

\* A failure here is logged and the tick goes on.
TickDefault ==
  /\ ticker.pc = "dock" /\ lock = "free"
  /\ boats' = DefaultCourse(ticker.batch, ticker.vs)
  /\ ticker' = [ticker EXCEPT !.pc = "gate", !.batch = {}, !.vs = None]
  /\ UNCHANGED <<race, fixes, now, lock, reqs, script, crashes, openings>>

TickBusy ==
  /\ ticker.pc = "dock" /\ lock # "free"
  /\ ticker' = [ticker EXCEPT !.pc = "gate", !.batch = {}, !.vs = None]
  /\ UNCHANGED <<race, boats, fixes, now, lock, reqs, script, crashes, openings>>

ToSail == [Idle EXCEPT !.pc = "sail", !.now = ticker.now]

GateOpens(row) == row.vs = None /\ GateApplies(row) /\ OpenAt(row) # None

TickGate ==
  /\ ticker.pc = "gate"
  /\ ticker' = IF GateOpens(ticker.race)
               THEN [ticker EXCEPT !.pc = "open", !.vs = OpenAt(ticker.race)]
               ELSE ToSail
  /\ UNCHANGED <<race, boats, fixes, now, lock, reqs, script, crashes, openings>>

\* Slip: the boats go off when the ticker comes round.
OpenGateNow ==
  /\ ticker.pc = "open"
  /\ race' = [race EXCEPT !.vs = ticker.vs]
  /\ boats' = [b \in Entered |-> IF Waiting(b)
                               THEN [boats[b] EXCEPT !.sim = ticker.vs, !.started = now]
                               ELSE boats[b]]
  /\ ticker' = ToSail
  /\ UNCHANGED <<fixes, now, lock, reqs, script, crashes, openings>>

\* Slip: the start is committed, the boats are not sent off.
OpenGateAlone ==
  /\ ticker.pc = "open"
  /\ race' = [race EXCEPT !.vs = ticker.vs]
  /\ ticker' = ToSail
  /\ UNCHANGED <<boats, fixes, now, lock, reqs, script, crashes, openings>>

OpenGate ==
  /\ ticker.pc = "open"
  /\ race' = [race EXCEPT !.vs = ticker.vs]
  /\ boats' = [b \in Entered |-> IF Waiting(b)
                               THEN [boats[b] EXCEPT !.sim = ticker.vs, !.started = ticker.vs]
                               ELSE boats[b]]
  /\ ticker' = ToSail
  /\ UNCHANGED <<fixes, now, lock, reqs, script, crashes, openings>>

TickSailRead ==
  /\ ticker.pc = "sail" /\ lock = "free"
  /\ lock' = "ticker"
  /\ ticker' = [ticker EXCEPT !.pc = "sailing", !.rows = Rows]
  /\ UNCHANGED <<race, boats, fixes, now, reqs, script, crashes, openings>>

TickSailWrite ==
  /\ ticker.pc = "sailing"
  /\ boats' = Sailed(ticker, Cap)
  /\ lock' = "free" /\ ticker' = Idle
  /\ UNCHANGED <<race, fixes, now, reqs, script, crashes, openings>>

TickStep == \/ TickBegin \/ TickUnrouted \/ TickDefault \/ TickBusy \/ TickGate
            \/ OpenGate \/ TickSailRead \/ TickSailWrite

-----------------------------------------------------------------------------
(***************************************************************************)
(* A request: submit_route up to the swap of the waypoints.                *)
(***************************************************************************)
Goes(r, changes) == reqs' = [reqs EXCEPT ![r] = changes]

Reply(r) == lock' = "free" /\ Goes(r, [Idle EXCEPT !.pc = "done"])

\* _auth_boat reads the boat ...
ReqBoat(r) ==
  /\ reqs[r].pc = "idle"
  /\ \E b \in Entered : Goes(r, [Idle EXCEPT !.pc = "race", !.boat = b, !.sim = boats[b].sim])
  /\ UNCHANGED <<race, boats, fixes, now, lock, ticker, script, crashes, openings>>

\* ... then come the race and the clock; the routing is parsed and checked,
\* and the lock waited for (sim_lock(timeout=30)).
ReqRace(r) ==
  /\ reqs[r].pc = "race"
  /\ Goes(r, [reqs[r] EXCEPT !.pc = "lock", !.race = race, !.now = now])
  /\ UNCHANGED <<race, boats, fixes, now, lock, ticker, script, crashes, openings>>

ReqLock(r) ==
  /\ reqs[r].pc = "lock" /\ lock = "free" /\ now <= reqs[r].now + Patience
  /\ lock' = r
  /\ Goes(r, [reqs[r] EXCEPT !.pc = IF reqs[r].sim = None /\ reqs[r].now >= reqs[r].race.gun
                                    THEN "unrouted" ELSE "start"])
  /\ UNCHANGED <<race, boats, fixes, now, ticker, script, crashes, openings>>

ReqBusy(r) ==
  /\ reqs[r].pc = "lock" /\ (lock # "free" \/ now > reqs[r].now + Patience)
  /\ Goes(r, [Idle EXCEPT !.pc = "done"])
  /\ UNCHANGED <<race, boats, fixes, now, lock, ticker, script, crashes, openings>>

ReqUnrouted(r) ==
  /\ reqs[r].pc = "unrouted"
  /\ Goes(r, IF Batch(reqs[r]) = {} THEN [reqs[r] EXCEPT !.pc = "reread"]
             ELSE [reqs[r] EXCEPT !.pc = "dock", !.batch = Batch(reqs[r]),
                                  !.vs = VirtualStart(reqs[r].race)])
  /\ UNCHANGED <<race, boats, fixes, now, lock, ticker, script, crashes, openings>>

ReqDefault(r) ==
  /\ reqs[r].pc = "dock"
  /\ boats' = DefaultCourse(reqs[r].batch, reqs[r].vs)
  /\ IF Taken(reqs[r].batch) = {}
     THEN lock' = lock /\ Goes(r, [reqs[r] EXCEPT !.pc = "reread", !.batch = {}, !.vs = None])
     ELSE Reply(r)
  /\ UNCHANGED <<race, fixes, now, ticker, script, crashes, openings>>

\* Slip: the boat read before the lock is trusted.
ReqTrusted(r) ==
  /\ reqs[r].pc = "reread"
  /\ Goes(r, [reqs[r] EXCEPT !.pc = "start"])
  /\ UNCHANGED <<race, boats, fixes, now, lock, ticker, script, crashes, openings>>

ReqReread(r) ==
  /\ reqs[r].pc = "reread"
  /\ Goes(r, [reqs[r] EXCEPT !.pc = "start", !.sim = boats[reqs[r].boat].sim])
  /\ UNCHANGED <<race, boats, fixes, now, lock, ticker, script, crashes, openings>>

OnItsRoute(b, start) ==
  boats' = [boats EXCEPT ![b] = [sim |-> start, started |-> start, route |-> "own"]]

\* Rolling: the boat leaves the line now.
ReqLeaves(r) ==
  /\ reqs[r].pc = "start" /\ reqs[r].sim = None
  /\ reqs[r].race.rolling /\ reqs[r].now >= reqs[r].race.gun
  /\ OnItsRoute(reqs[r].boat, reqs[r].now)
  /\ Reply(r)
  /\ UNCHANGED <<race, fixes, now, ticker, script, crashes, openings>>

ReqVirtualStart(r) ==
  /\ reqs[r].pc = "start" /\ reqs[r].sim = None
  /\ ~(reqs[r].race.rolling /\ reqs[r].now >= reqs[r].race.gun)
  /\ Goes(r, [reqs[r] EXCEPT !.pc = "line", !.vs = VirtualStart(reqs[r].race)])
  /\ UNCHANGED <<race, boats, fixes, now, lock, ticker, script, crashes, openings>>

\* The boat is sent to the line: with its start, or to wait for the gate.
ReqLine(r) ==
  /\ reqs[r].pc = "line"
  /\ IF reqs[r].vs = None
     THEN boats' = [boats EXCEPT ![reqs[r].boat].route = "own"]
     ELSE OnItsRoute(reqs[r].boat, reqs[r].vs)
  /\ Reply(r)
  /\ UNCHANGED <<race, fixes, now, ticker, script, crashes, openings>>

\* The boat is under way: the race is sailed up to now, then the route swapped.
ReqSailRead(r) ==
  /\ reqs[r].pc = "start" /\ reqs[r].sim # None
  /\ Goes(r, [Idle EXCEPT !.pc = "sailing", !.rows = Rows, !.now = reqs[r].now,
                          !.boat = reqs[r].boat])
  /\ UNCHANGED <<race, boats, fixes, now, lock, ticker, script, crashes, openings>>

ReqSailWrite(r) ==
  /\ reqs[r].pc = "sailing"
  /\ boats' = Sailed(reqs[r], Horizon)
  /\ Goes(r, [Idle EXCEPT !.pc = "swap", !.boat = reqs[r].boat])
  /\ UNCHANGED <<race, fixes, now, lock, ticker, script, crashes, openings>>

ReqSwap(r) ==
  /\ reqs[r].pc = "swap"
  /\ boats' = [boats EXCEPT ![reqs[r].boat].route = "own"]
  /\ Reply(r)
  /\ UNCHANGED <<race, fixes, now, ticker, script, crashes, openings>>

ReqStep(r) == \/ ReqBoat(r) \/ ReqRace(r) \/ ReqLock(r) \/ ReqBusy(r) \/ ReqUnrouted(r)
              \/ ReqDefault(r) \/ ReqReread(r) \/ ReqLeaves(r) \/ ReqVirtualStart(r)
              \/ ReqLine(r) \/ ReqSailRead(r) \/ ReqSailWrite(r) \/ ReqSwap(r)

-----------------------------------------------------------------------------
(***************************************************************************)
(* The committee's scripts, one at a time: read and check, then write.     *)
(***************************************************************************)
ScriptRead ==
  /\ script.pc = "idle" /\ script.left > 0
  /\ \E kind \in Scripts :
       script' = [pc |-> kind, race |-> race, left |-> script.left - 1, ran |-> TRUE,
                  sailing |-> \E b \in Entered : boats[b].sim # None /\ boats[b].sim > race.gun]
  /\ openings' = {}
  /\ UNCHANGED <<race, boats, fixes, now, lock, ticker, reqs, crashes>>

ScriptEnds == script' = [script EXCEPT !.pc = "idle", !.race = Idle.race, !.sailing = FALSE]

\* A time not before the gun, or `auto`.
SetVirtualStart ==
  /\ script.pc = "set_virtual_start"
  /\ \E t \in {u \in Times : u >= script.race.gun} \cup {None} : race' = [race EXCEPT !.vs = t]
  /\ ScriptEnds
  /\ UNCHANGED <<boats, fixes, now, lock, ticker, reqs, crashes, openings>>

SetStart ==
  /\ script.pc = "set_start"
  /\ IF script.sailing
     THEN UNCHANGED <<race, boats>>
     ELSE \E t \in Times :
            /\ race' = [race EXCEPT !.gun = t, !.vs = None]
            /\ boats' = [b \in Entered |-> IF boats[b].sim = None THEN boats[b]
                                         ELSE [boats[b] EXCEPT !.sim = t]]
  /\ ScriptEnds
  /\ UNCHANGED <<fixes, now, lock, ticker, reqs, crashes, openings>>

SetFleetGate ==
  /\ script.pc = "set_fleet_gate"
  /\ \E n \in 0..Cardinality(Tracked) :
       /\ race' = [race EXCEPT !.needed = n]
       /\ boats' = [b \in Entered |-> IF n = 0 /\ Waiting(b)
                                    THEN [boats[b] EXCEPT !.sim = Max({race.gun, now})]
                                    ELSE boats[b]]
  /\ ScriptEnds
  /\ UNCHANGED <<fixes, now, lock, ticker, reqs, crashes, openings>>

RestartBoat ==
  /\ script.pc = "restart_boat"
  /\ \E b \in Entered :
       boats' = [boats EXCEPT ![b].sim = VirtualStart(script.race),
                              ![b].route = IF @ = "none" THEN "default" ELSE @]
  /\ ScriptEnds
  /\ UNCHANGED <<race, fixes, now, lock, ticker, reqs, crashes, openings>>

ScriptStep == ScriptRead \/ SetVirtualStart \/ SetStart \/ SetFleetGate \/ RestartBoat

\* The server's process dies and comes back: every thread's locals are gone.
Crash ==
  /\ crashes > 0
  /\ crashes' = crashes - 1
  /\ lock' = "free" /\ ticker' = Idle
  /\ reqs' = [r \in Requests |-> IF reqs[r].pc = "idle" THEN Idle ELSE [Idle EXCEPT !.pc = "done"]]
  /\ UNCHANGED <<race, boats, fixes, now, script, openings>>

Next == Clock \/ FixArrives \/ TickStep \/ (\E r \in Requests : ReqStep(r)) \/ ScriptStep \/ Crash

Spec == Init /\ [][Next]_vars

\* The threads and the clock run; the committee and the navigators need not.
FairSpec == Spec /\ WF_vars(Clock) /\ WF_vars(TickStep)
                 /\ \A r \in Requests : WF_vars(reqs[r].pc # "idle" /\ ReqStep(r))
-----------------------------------------------------------------------------
Row    == [gun : Times, vs : Times \cup {None}, needed : Nat, rolling : BOOLEAN]
Boat   == [sim : Times \cup {None}, started : Times \cup {None}, route : {"none", "default", "own"}]
RowsRead == UNION {[S -> Times] : S \in SUBSET Boats}
Pcs    == {"idle", "unrouted", "dock", "gate", "open", "sail", "sailing",
           "race", "lock", "reread", "start", "line", "swap", "done"}
Thread == [pc : Pcs, race : Row, now : Times, boat : Boats \cup {None},
           sim : Times \cup {None}, batch : SUBSET Boats, vs : Times \cup {None},
           rows : RowsRead]

RowsOK ==
  /\ race \in Row /\ Entered \subseteq Boats /\ boats \in [Entered -> Boat]
  /\ Tracked \subseteq RealBoats /\ fixes \in [Tracked -> SUBSET Times]

ThreadsOK ==
  /\ lock \in {"free", "ticker"} \cup Requests
  /\ ticker \in Thread /\ reqs \in [Requests -> Thread]

ScriptOK ==
  script \in [pc : Scripts \cup {"idle"}, race : Row, sailing : BOOLEAN, left : Nat, ran : BOOLEAN]

TypeOK == RowsOK /\ ThreadsOK /\ ScriptOK /\ now \in Times /\ crashes \in Nat /\ openings \subseteq Times

(***************************************************************************)
(* In a race that waits for its fleet no boat has a start time before      *)
(* enough real boats have been seen, whoever gives it: the default course, *)
(* a submission, the gate ("virtual boats wait on the line").              *)
(***************************************************************************)
WaitsForFleet ==
  \A b \in Entered : boats[b].sim # None /\ ~race.rolling /\ ~script.ran =>
    Cardinality(SeenBy(race, Horizon)) >= race.needed \/ ~GateApplies(race)

(***************************************************************************)
(* What is settled stays.  "The decision is recorded once ... so a later   *)
(* track correction cannot move a start already sailed": a virtual start   *)
(* on record is not changed by fixes that come in behind it (the committee *)
(* may change it on purpose).  And a navigator's own route is never        *)
(* replaced by the default course, even when it is submitted while the     *)
(* ticker waits to hand that course out.                                   *)
(***************************************************************************)
DecisionsStand ==
  [][/\ race.vs # None /\ ~script.ran => race'.vs = race.vs
     /\ \A b \in Entered : boats[b].route = "own" => boats'[b].route = "own"]_vars

(***************************************************************************)
(* All boats of a race that start together start from the same moment, the *)
(* one on record when there is one.  A fix that comes in late can move the *)
(* moment while boats and threads hold the old one, and that is the one    *)
(* way to two starts: each is then a moment the gate has opened at.        *)
(***************************************************************************)
Starts == ({race.vs} \cup {boats[b].started : b \in Entered}) \ {None}

Moved == \E s, t \in openings : s # t

OneStart ==
  ~race.rolling /\ ~script.ran =>
    /\ Starts \subseteq openings
    /\ \A s, t \in Starts : s # t => Moved

(***************************************************************************)
(* "Nobody who entered is left on the dock": once the gun has gone every   *)
(* boat gets a route, whatever submissions fail or the process does.       *)
(***************************************************************************)
EveryoneRouted == ~race.rolling => <>[](\A b \in Entered : boats[b].route # "none")

(***************************************************************************)
(* A boat that waits on the line while the gate is closed leaves it once   *)
(* the fleet is under way, whatever the process does in between.           *)
(***************************************************************************)
LeavesTheLine ==
  \A b \in Boats :
    (b \in Entered /\ Waiting(b) /\ race.vs = None /\ VirtualStart(race) # None)
      ~> (b \in Entered => boats[b].sim # None)

(***************************************************************************)
(* "Time never rewinds" for a boat unless a script puts it back, and its   *)
(* own start, which rolling races rank elapsed times by, is given once: a  *)
(* request that read the boat on the dock must notice, once it has the     *)
(* lock, that the ticker or another request has sent the boat off.  Only   *)
(* open_gate, which takes no lock, comes between a request's look at the   *)
(* boat and its write; where the two starts differ (the opening was moved  *)
(* by a late fix, or the race is rolling and waits for a fleet) a boat     *)
(* that has not sailed yet may be given the other start.                   *)
(***************************************************************************)
Forward(b) ==
  /\ boats'[b].sim # None /\ boats'[b].sim >= boats[b].sim
  /\ boats'[b].started = boats[b].started

StartedAgain(b) ==
  /\ boats[b].sim = boats[b].started /\ boats'[b].sim = boats'[b].started /\ boats'[b].sim # None
  /\ Moved \/ (race.rolling /\ GateApplies(race))

TimeNeverRewinds ==
  [][~script'.ran =>
       \A b \in Entered : boats[b].sim # None => Forward(b) \/ StartedAgain(b)]_vars

(***************************************************************************)
(* Whoever sends a boat off (ticker, gate, request, script) has seen to it *)
(* that the boat has a route, and every thread that writes boats from rows *)
(* it has read does so inside the engine lock.                             *)
(***************************************************************************)
Inside(t) == t.pc \in {"sailing", "swap", "line", "start", "reread"}

SailsWithRoute ==
  /\ TypeOK
  /\ ticker.pc = "sailing" <=> lock = "ticker"
  /\ \A r \in Requests : Inside(reqs[r]) => lock = r
  /\ \A b \in Entered : boats[b].sim # None => boats[b].route # "none"
=============================================================================
