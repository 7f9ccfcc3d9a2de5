------------------------------- MODULE Ticker -------------------------------
(***************************************************************************)
(* The ticker thread over all the races (app.py, _tick and _ticker_loop),  *)
(* what it keeps in memory, and the health check the platform restarts the *)
(* machine by.  What catch_up_race does to a race is module Engine, and    *)
(* how its boats leave the line module StartLine: here it is one step that *)
(* succeeds, finds the engine lock busy, or raises.                        *)
(*                                                                         *)
(* Time is kept as ages, cut off at MaxAge, so that the ticker runs for    *)
(* ever in finitely many states.                                           *)
(***************************************************************************)
EXTENDS Integers, FiniteSets, FiniteSetsExt

CONSTANTS
  Races,      \* races.id, naturals; the rows come in this order
  Stale,      \* TICK_STALE_SECONDS, in units of TICK_SECONDS
  Stuck,      \* TICK_STUCK_SECONDS
  Longest,    \* a tick that does not hang takes no longer
  MaxAge,     \* ages are not told apart from here on (bound)
  Day,        \* length of a day
  BackupHour, \* BACKUP_HOUR_UTC
  Faults,     \* what may befall the thread: "hang", "die", "raise"
  MaxFaults,  \* how often (bound)
  MaxBusy,    \* how often catch_up_race finds the lock busy (bound)
  None        \* Python's None

Ages == 0..MaxAge

ASSUME TickerAssumption ==
  /\ Races \subseteq Nat /\ IsFiniteSet(Races)
  /\ Stale \in Nat \ {0} /\ Stuck \in Nat \ {0} /\ MaxAge \in Nat
  /\ MaxAge > Stale /\ MaxAge > Stuck /\ Longest \in 0..(Stuck - 1)
  /\ Day \in Nat \ {0} /\ BackupHour \in 0..(Day - 1)
  /\ Faults \subseteq {"hang", "die", "raise"} /\ MaxFaults \in Nat /\ MaxBusy \in Nat
  /\ None \notin Int /\ None \notin BOOLEAN

VARIABLES
  ticker,  \* where the thread is, and the races the loop has still to come to
  started, \* _tick_started_at, as an age
  done,    \* _tick_done_at, as an age
  live,    \* the races now within their window
  wx,      \* races.id -> is the weather over its water degraded
  seen,    \* _wx_degraded
  log,     \* the last weather entry of each race's committee log
  hour,    \* of the day
  stamped, \* _last_day is today
  broken,  \* the races catch_up_race raises for
  faults, busy \* how many are left

memory == <<started, done, seen, stamped>>
world  == <<live, wx, hour, broken>>
vars   == <<ticker, memory, world, log, faults, busy>>

Asleep == [pc |-> "asleep", left |-> {}, slept |-> 0]

Init ==
  /\ ticker = [Asleep EXCEPT !.pc = "begin"]
  /\ started = None /\ done = None
  /\ live \in SUBSET Races
  /\ wx = [r \in Races |-> FALSE] /\ seen = [r \in Races |-> None]
  /\ log = [r \in Races |-> [last |-> "none", restarted |-> FALSE]]
  /\ hour = 0 /\ stamped = FALSE
  /\ broken = {}
  /\ faults = MaxFaults /\ busy = MaxBusy

-----------------------------------------------------------------------------
(***************************************************************************)
(* The world.  The thread sleeps no longer than it asked to.               *)
(***************************************************************************)
Due == IF ticker.pc = "asleep" THEN ticker.slept = 1
       ELSE ticker.pc \notin {"hung", "dead"} /\ (started = None \/ started = Longest)

Older(age) == IF age = None THEN None ELSE Min({age + 1, MaxAge})

Clock ==
  /\ ~Due
  /\ started' = Older(started) /\ done' = Older(done)
  /\ ticker' = [ticker EXCEPT !.slept = IF ticker.pc = "asleep" THEN 1 ELSE 0]
  /\ hour' = (hour + 1) % Day
  /\ stamped' = (stamped /\ hour' # 0)
  /\ UNCHANGED <<live, wx, broken, seen, log, faults, busy>>

\* A race comes into its window; that it leaves it is left out (see README).
WindowOpens ==
  /\ \E r \in Races \ live : live' = live \cup {r}
  /\ UNCHANGED <<ticker, memory, wx, hour, broken, log, faults, busy>>

WeatherTurns ==
  /\ \E r \in Races : wx' = [wx EXCEPT ![r] = ~@]
  /\ UNCHANGED <<ticker, memory, live, hour, broken, log, faults, busy>>

-----------------------------------------------------------------------------
(***************************************************************************)
(* One tick.                                                               *)
(***************************************************************************)
At(pc) == ticker.pc = pc

Goes(pc) == ticker' = [ticker EXCEPT !.pc = pc]

\* The first tick begins at once, the others after a sleep.
TickBegins ==
  /\ At("begin") \/ (At("asleep") /\ ticker.slept = 1)
  /\ started' = 0
  /\ ticker' = [pc |-> "practice", left |-> {}, slept |-> 0]
  /\ UNCHANGED <<done, seen, stamped, world, log, faults, busy>>

\* ensure_practice, well or not; the races are read after it.
Practice ==
  /\ At("practice")
  /\ ticker' = [ticker EXCEPT !.pc = "race", !.left = live]
  /\ UNCHANGED <<memory, world, log, faults, busy>>

This == Min(ticker.left)

\* Slip: a failure there ends the tick.
AfterFailureEnds == Asleep

\* A failure there is logged and the tick goes on.
AfterFailure == [ticker EXCEPT !.pc = "sail"]

\* _start_unrouted and open_gate, each inside a try of its own.
Dock ==
  /\ At("race") /\ ticker.left # {}
  /\ Goes("sail") \/ ticker' = AfterFailure
  /\ UNCHANGED <<memory, world, log, faults, busy>>

\* catch_up_race has gone through.
Sails(r) ==
  /\ At("sail") /\ r = This /\ r \notin broken
  /\ ticker' = [ticker EXCEPT !.pc = "race", !.left = @ \ {r}]
  /\ UNCHANGED <<memory, world, log, faults, busy>>

\* The exception leaves the loop over the races and the tick.
SailRaises ==
  /\ At("sail")
  /\ \/ This \in broken /\ busy' = busy
     \/ busy > 0 /\ busy' = busy - 1
  /\ ticker' = Asleep
  /\ UNCHANGED <<memory, world, log, faults>>

\* heal_fallback, inside a try.
Heal ==
  /\ At("race") /\ ticker.left = {}
  /\ Goes("backup")
  /\ UNCHANGED <<memory, world, log, faults, busy>>

\* nightly: whatever becomes of the upload, the day is done.
Backup ==
  /\ At("backup")
  /\ IF hour < BackupHour \/ stamped
     THEN UNCHANGED <<stamped>>
     ELSE stamped' = TRUE
  /\ ticker' = [ticker EXCEPT !.pc = "weather", !.left = live]
  /\ UNCHANGED <<started, done, seen, world, log, faults, busy>>

Entry(degraded) == [last |-> IF degraded THEN "down" ELSE "restored", restarted |-> FALSE]

\* Slip: one flag for all races.
SeenByAll(r) == [x \in Races |-> wx[r]]

Seen(r) == [seen EXCEPT ![r] = wx[r]]

\* A transition since the last tick that looked goes on the race's log.
Weather ==
  /\ At("weather") /\ ticker.left # {}
  /\ log' = IF seen[This] \notin {None, wx[This]}
            THEN [log EXCEPT ![This] = Entry(wx[This])] ELSE log
  /\ seen' = Seen(This)
  /\ ticker' = [ticker EXCEPT !.left = @ \ {This}]
  /\ UNCHANGED <<started, done, stamped, world, faults, busy>>

\* The YB trackers and the forecast snapshots, each inside a try.
Polls ==
  /\ At("weather") /\ ticker.left = {}
  /\ done' = 0
  /\ ticker' = Asleep
  /\ UNCHANGED <<started, seen, stamped, world, log, faults, busy>>

\* Slip: the health seen is noted before the entry is written.
WeatherRaisesNoted ==
  /\ At("weather") /\ ticker.left # {} /\ seen[This] \notin {None, wx[This]}
  /\ busy > 0 /\ busy' = busy - 1
  /\ seen' = Seen(This)
  /\ ticker' = Asleep
  /\ UNCHANGED <<started, done, stamped, world, log, faults>>

\* The log could not be written: the tick ends, and looks again next time.
WeatherRaises ==
  /\ At("weather") /\ ticker.left # {} /\ seen[This] \notin {None, wx[This]}
  /\ busy > 0 /\ busy' = busy - 1
  /\ ticker' = Asleep
  /\ UNCHANGED <<memory, world, log, faults>>

TickStep == \/ TickBegins \/ Practice \/ Dock \/ (\E r \in Races : ticker.left # {} /\ Sails(r))
            \/ SailRaises \/ Heal \/ Backup \/ Weather \/ WeatherRaises \/ Polls

-----------------------------------------------------------------------------
(***************************************************************************)
(* /healthz and the platform.                                              *)
(***************************************************************************)
Running == started # None /\ (done = None \/ started < done)

\* Slip: only completed ticks count, however long one takes.
OkDone == done # None /\ done <= Stale

Ok == IF Running THEN started <= Stuck ELSE done # None /\ done <= Stale

\* The process starts anew: what was in memory is gone.
Boot ==
  /\ ticker' = [Asleep EXCEPT !.pc = "begin"]
  /\ started' = None /\ done' = None
  /\ seen' = [r \in Races |-> None]
  /\ log' = [r \in Races |-> [log[r] EXCEPT !.restarted = TRUE]]
  /\ stamped' = FALSE
  /\ UNCHANGED <<world, busy>>

\* The check fails past its grace period: the machine is restarted.
PlatformRestarts ==
  /\ ~At("begin") /\ ~Ok
  /\ Boot /\ faults' = faults

\* A deploy, or a crash of the process.
Restart ==
  /\ faults > 0 /\ faults' = faults - 1
  /\ Boot

\* A call that never returns; the thread is gone; a race raises from now on.
Hangs  == "hang" \in Faults /\ ~At("asleep") /\ Goes("hung") /\ broken' = broken
Dies   == "die" \in Faults /\ Goes("dead") /\ broken' = broken
Breaks == "raise" \in Faults /\ (\E r \in Races : broken' = broken \cup {r}) /\ ticker' = ticker

Fault ==
  /\ faults > 0 /\ faults' = faults - 1
  /\ ticker.pc \notin {"hung", "dead"} /\ started # None
  /\ Hangs \/ Dies \/ Breaks
  /\ UNCHANGED <<memory, live, wx, hour, log, busy>>

Next == Clock \/ WindowOpens \/ WeatherTurns \/ TickStep \/ PlatformRestarts \/ Restart \/ Fault

Spec == Init /\ [][Next]_vars

\* Time passes, the thread runs unless it hangs or is dead, and the platform
\* goes on checking.
FairSpec == Spec /\ WF_vars(Clock) /\ WF_vars(TickStep) /\ WF_vars(PlatformRestarts)
-----------------------------------------------------------------------------
Thread == [pc : {"begin", "asleep", "practice", "race", "sail", "backup", "weather", "hung", "dead"},
           left : SUBSET Races, slept : 0..1]

ThreadOK == ticker \in Thread /\ started \in Ages \cup {None} /\ done \in Ages \cup {None}

LogsOK ==
  /\ wx \in [Races -> BOOLEAN] /\ seen \in [Races -> BOOLEAN \cup {None}]
  /\ log \in [Races -> [last : {"none", "down", "restored"}, restarted : BOOLEAN]]

WorldOK ==
  /\ live \subseteq Races /\ broken \subseteq Races /\ stamped \in BOOLEAN
  /\ hour \in 0..(Day - 1) /\ faults \in 0..MaxFaults /\ busy \in 0..MaxBusy

TypeOK == ThreadOK /\ LogsOK /\ WorldOK

(***************************************************************************)
(* "The machine is restarted rather than the fleet silently parking": every*)
(* race within its window is sailed again and again, whatever the steps    *)
(* around it do, and although the thread may hang or die.                  *)
(***************************************************************************)
KeepsSailing == \A r \in Races : <>(r \in live) => []<><<Sails(r)>>_vars

(***************************************************************************)
(* The machine is not restarted under a ticker that does its work: 503     *)
(* only for a thread that hangs or is dead, or has not begun yet.          *)
(***************************************************************************)
NoFalseAlarm ==
  ~Ok => ticker.pc \in {"begin", "hung", "dead"}

(***************************************************************************)
(* "503 when the ticker has stopped completing ticks (or one is stuck)":   *)
(* at any time a tick is still to be completed, or the check to fail.      *)
(***************************************************************************)
StoppedIsReported == []<>(done = 0 \/ ~Ok)

(***************************************************************************)
(* The last entry on a race's log tells the health the ticker last saw of  *)
(* that race's water, unless the process has been restarted since.  (Over  *)
(* a state of its types: part of the invariant it is proved by.)           *)
(***************************************************************************)
LogTruthful ==
  /\ TypeOK
  /\ \A r \in Races : seen[r] # None /\ log[r].last # "none" /\ ~log[r].restarted =>
       (log[r].last = "down" <=> seen[r])

(***************************************************************************)
(* "Route submissions are paused" does not stay the last word: a recovery  *)
(* is logged, be it that a tick fails in between, unless the process is    *)
(* restarted or the weather goes again.                                    *)
(***************************************************************************)
RecoveryLogged ==
  \A r \in Races : log[r].last = "down" /\ ~wx[r]
    ~> log[r].last = "restored" \/ wx[r] \/ log[r].restarted
=============================================================================
