# Virtual Navigator: a TLA+ model

Virtual Navigator is a race server. Real regattas are sailed again by virtual
boats: a navigator uploads a routing, the server sails the boat along it through
the forecast wind and current, and a leaderboard sets virtual boats beside the
real ones, whose positions come from trackers. One Flask process (`src/app.py`,
`src/vn/`) with one SQLite file does all of it. Request threads, a ticker
thread, an AIS thread and the committee's console scripts (`src/scripts/`, a
process each) write the same rows.

This directory holds TLA+ modules that model the parts of it whose correctness
depends on the order of events, TLC runs over small instances of them, and
proofs checked by TLAPS. `PROJECT.json` lists the runs, the source lines behind
every definition, the hazards, the findings and the theorems.

Contents: 1 the system · 2 the modules · 3 the runs · 4 the proofs ·
5 what disagrees with the documentation · 6 what is not modelled · 7 the plan.


## 1. The system

### How it runs

| Process or thread | What it does | Where |
|---|---|---|
| ticker | every 60 s, for each race near its window: default courses, the fleet gate, sailing; then healing the weather, the backup, weather health, YB polling, forecast snapshots | `app.py:1879-1990` |
| request threads | accounts, entries, route submissions, state, administration; no thread calls another | `app.py` |
| AIS thread | sessions of five minutes on a socket; matches vessels to the roster and stores fixes | `vn/ais.py` |
| console scripts | move a start, a mark, a boat, a binding; each is its own process with its own connection | `src/scripts/` |

They share three things.

* The **SQLite file**, one connection per thread. A transaction begins with the
  first write, and one writer is in at a time; what was read before the first
  write may be old by then. Almost every handler reads, decides, then writes.
* The **engine lock** (`sim_lock`, an `RLock` with a timeout of 30 s). The ticker
  and submissions hold it while boats are sailed or a route is replaced. The
  scripts are other processes and cannot take it; `open_gate` does not.
* Memory: the weather's `_lock` and cooldown dicts, the AIS roster, the state
  cache, the rate limiter's windows, the weather health of the last tick. A
  restart, which every deployment is, empties all of it.

### Inventory

For each component: what it keeps, what it does, what makes it right.

**Race engine** (`vn/sim.py`; `submit_route`'s route swap). Keeps a `boats` row
(`sim_time`, position, `next_mark`, `finished_at`), the track, and the waypoints
with a `passed` flag. `catch_up_race` sails every boat in whole steps up to a
time, at most 144 of them per tick; `_advance` credits the marks a step passes;
`enforce_course` completes a submitted routing with the marks it forgets. *Hard:*
a step that passes several marks, drift off the route, a backlog after an
outage, a process killed in the middle, a resubmission between two ticks.
*Right when* history is only ever extended, the row agrees with the track, no
boat runs ahead of the clock, none parks short of the finish, and a backlog is
caught up in bounded portions.

**Start line and fleet gate** (`vn/fleetgate.py`, `_start_unrouted`,
`submit_route`, four scripts). Keeps the gun, `virtual_start`, the gate's
percentage and every boat's start. *Hard:* the ticker, submissions and scripts
decide on rows they read a while ago; fixes come late; a batch can fail in the
middle. *Right when* nobody starts before the fleet, all start from one moment,
nobody who entered is left on the dock or on the line, and a navigator's own
route is never replaced by the default.

**Real fleet** (`vn/realfleet.py`, `vn/results.py`, `set_mmsi.py --wipe`). Keeps
`real_boats` and `real_track`. Fixes are folded in as they come; a late one makes
the row be rebuilt from the whole track. *Right when* the fold and the rebuild
agree, and the committee's finish wins.

**AIS feed** (`vn/ais.py`, `set_mmsi.py`). Keeps bindings of vessels to roster
entries, in the database and, as read at the start of a session, in memory.
*Hard:* a binding made by hand during a session, a restart, vessels that share a
name. *Right when* hand bindings win, a fix goes to the boat on record, a vessel
is on one boat, and one that sails is matched in the end.

**Weather** (`vn/wind.py`, `heal_weather.py`). Keeps two caches by cell and hour,
with placeholder rows while the API fails, and a cooldown in memory. *Hard:* who
downloads under which lock, what a failure costs the next caller, a script that
deletes behind the server's back. *Right when* real rows are never lost, a dead
API is left alone for the cooldown, placeholders go once it answers, and the
health shown is the wind sailed.

**Accounts** (`app.py:385-620, 1290-1340`, `vn/db.py:236-263`). Keeps users,
sessions, reset links, boat owners. *Hard:* every check is a read in another
transaction than its write. *Right when* there is always an admin, a deleted
account leaves nothing behind, a link works once, a boat is adopted once.

**Ticker and health check** (`app.py:1879-1990`, `vn/backup.py`). Keeps, in memory,
when the last tick began and ended, whether each race's water was last seen
degraded, and the day of the last backup. *Hard:* any step of a tick may fail,
the thread may hang or die, a restart forgets everything. *Right when* every race
within its window is sailed again and again, the machine is restarted for a
ticker that does not work and for no other, and what the committee's log says of
the weather is true and ends with the recovery.

**Live fleet** (`app.py:1060-1150`, `public/race.html`). The server keeps a copy of a
race's state for a minute, dropped by what adds boats or routes; the page asks
for newer fixes only, for everything now and then, and merges. *Hard:* overlapping
polls, answers lost or late, a copy stored after it was dropped, fixes that come
in at old times, a boat that is restarted. *Right when* no boat is drawn
backwards, the copy has what was dropped for, and the page catches up.

**Race board** (`vn/races.py`, `vn/practice.py`, `create_race.py`, `delete_race.py`,
`add_mark.py`, `remove_boat.py`, entering a boat, documents). Keeps races, marks,
boats, and the rows that belong to them. *Hard:* ids are handed out again, nothing
declares a foreign key, scripts count and list before they write, and take no
lock. *Right when* nobody inherits rows, marks stay in order and boats keep
their heading, and there is one practice edition to enter, and always one.

**Roster and results** (`vn/results.py`, `link_yb`, `link_ais.py`, `add_real_boat`).
Keeps the real fleet's names, sail numbers, team numbers and published rows.
*Hard:* lookalike names, shared or missing sail numbers, tables that are amended,
sheets and team lists that come in between. *Right when* sail numbers decide, an
import repeated changes nothing, results outlive refreshes, and every team has
one boat.

**Not modelled** (why is in 6): rate limiting, the API quota, the deploy guard,
comparison and forecast snapshots, the YB download, detours round zones,
geometry, polars, land, depth, file parsers, mail, moving a mark or a polar, the
pages but for the race page's tracks.

### How they meet

The ticker drives the start line, then the engine, then the weather. A
submission goes through the start line (may the boat start, and when) into the
engine (sail up to now, replace the rest). The engine asks the weather for every
step. The AIS feed and the YB poller hand fixes to the real fleet, whose first
fixes after the gun are what the fleet gate counts. Accounts decide who may
submit; deleting one deletes boats the engine may be sailing. The race board makes
the races and courses all others work on and takes them away again; the roster
says which real boats there are for fixes and results; the live fleet reads
everybody's rows and shows them.


## 2. The modules

| Module | Models | Extends or uses |
|---|---|---|
| `Voyage` | abstract: what a navigator is promised of one boat | |
| `Null` | `None`, SQL NULL, for the modules of the real fleet and the page | |
| `Engine` | the engine and the route swap, one boat | `INSTANCE Voyage` |
| `EngineProofs` | theorems on `Engine` | `Engine`, TLAPS |
| `StartLine` | how the boats of one race leave the line | |
| `RealFleet` | one real boat's row and track | `Null` |
| `AisFeed` | sessions, roster, bindings | `Null` |
| `Weather` | both caches, cooldown, healing | |
| `WeatherProofs` | theorems on `Weather` | `Weather`, TLAPS |
| `Accounts` | accounts, roles, links, owners | |
| `StartProofs`, `TickerProofs` | theorems on `StartLine`, `Ticker` | the module, TLAPS |
| `FleetProofs` | theorems on `LiveFleet`, `AisFeed` and `RealFleet` | the three, TLAPS |
| `AccountsProofs`, `RaceBookProofs`, `ResultsProofs` | theorems on `Accounts`, `RaceBook`, `Results` | the module, TLAPS |
| `Ticker` | the loop over all races, its failures, the health check | |
| `LiveFleet` | the copy of the state and a page that polls | `Null` |
| `RaceBook` | races, marks, entries, documents, practice editions | |
| `Results` | the roster and the committee's results | |
| `MCEngine`, `MCStartLine`, `MCAccounts`, `MCRealFleet`, `MCAisFeed`, `MCLiveFleet`, `MCRaceBook`, `MCResults` | constants for TLC | the module named |

The modules do not share variables: each sees the others as input left to
choice. `StartLine` reduces sailing to the time sailed to, `Engine` starts where
`StartLine` ends, with a boat on its route at the gun. `AisFeed` stores fixes and
leaves what they do to a boat's race to `RealFleet`; `StartLine` takes fixes as
they come. `Engine` takes from the weather only how far a step may go. For `Ticker`
sailing a race is one step that succeeds, is refused the lock, or raises;
`RaceBook` lets a tick hold a boat and save it, and leaves where it sails to
`Engine`; `LiveFleet` sees only that tracks grow, restart, or get a late fix.

Conventions. An operator under a comment that begins with *Slip* or *Mutant* is
a wrong variant of the definition below it: it is used by no specification, and
shows that a property can fail (`mutants` in `PROJECT.json`). `None` is SQL NULL.
An action is as much as no other process can come into: a read of the database,
a wait for a lock, or a first write up to its commit.

### Voyage and Engine

`Voyage` has a clock, a log of fixes, legs sailed and an arrival. Its one action,
`SailOn`, adds gapless fixes, extends the legs and may arrive. There is no action
that rewrites anything: "No time travel" in the repository's README.

`Engine` refines it. The course lies along a line: a place is an integer. This
keeps out-and-back legs, several marks in one step, a pass within the radius and
drift; it loses the side on which a mark is to be left (`sim.py`'s rounding).
Wind, depth and zones choose how far a step goes, so every end within `Reach` is
allowed, plus the stream.

| Variable | Code |
|---|---|
| `boat`, `track`, `route`, `passed` | rows of `boats`, `track`, `route_wps`, as committed |
| `lock`, `pc`, `until` | who holds the engine lock, where it is, the `now` it read before waiting |
| `run` | the locals of `_advance` |
| `plan` | the locals of `enforce_course` |

`Acquire` is `sim_lock`; `ReadBoat`, `Sail`, `Write` are `_advance` (one `Sail` per
step of its loop); `Join`, `MarkReached`, `MarkInserted`, `Replace` are the second
half of `submit_route`; `Crash` loses every local and keeps the commits. The
crediting of marks, with its shared segment, is in `Credits`.

### StartLine

`race` and `boats` are the rows; `ticker`, `reqs`, `script` hold what each thread
has read, which may be stale when it writes. `Batch`, `Docked` and `DefaultCourse`
are `_start_unrouted`, the failure in the middle of the batch included;
`OpenAt`, `GateOpens`, `OpenGate` are `fleetgate.py`; the `Req…` actions are
`submit_route` from `_auth_boat` to the swap; the four scripts read, check, then
write. A request gives up on the lock after `Patience`: the 30 s of `sim_lock`
(`app.py:1425`) against a step of the engine, a unit of the clock, of a minute or more,
so at most one. `Late` is how old a fix may be on arrival. `openings` is history: the
moments the gate has been open from by the fixes that were in (the gun, where no gate
applies), until a script runs. A late fix is what makes it two.

### RealFleet

`row` and `sailed` (`real_track`) of one boat; `th` is the row as a writer read it. `WalkFix` is
one fix of `_walk`, `Recomputed` is `recompute`, `Backfill` decides between them,
`Results` is `apply_results`, `Wipe` is `set_mmsi.py --wipe`. A place is known by
the marks it is near. A batch is any set of fixes of different times.

### AisFeed

`roster` is what `_load_roster` read and `_boat_for` has changed since; `types` are
the static reports, `heard` is `real_track` with the vessel each fix came from, `last` is `last_pt`, `point` is a fix between the
thinning and `ingest_points`. `Matches` stands for `name_matches`; under way and
near the course is when `ReportNew` happens. The script's look for the vessel's
other boat and its UPDATEs are two actions. `ais.py:251` compares an MMSI with
boat ids and can hold for no real number; it is left out.

### Weather

A key is a cell of one of the two tables and a row is known by its source.
`Ask` is the look at the cache under `_lock`, `AskFails` and `AskAnswered` the end of
the download it led to. `HealPicks` and `HealTries` are the two halves of
`_retry_due` as `heal_fallback` calls it, without the lock; its download too is
outside, its `_store_series` inside (`HealStores`). `Purge` is `heal_weather.py`. Left out:
speeds and directions, the interpolation, hours the API answers with nulls, and
cells it never serves; wind and current series reach equally far. The clock
stands still while a download is under way: seconds against fractions of an
hour.

### Accounts

One action per read and one per write of each handler. Passwords, addresses,
expiry and rate limits are left out: who may act is who has a session. `NewId` is
SQLite's, one more than the largest in the table, so a deleted account's number
is handed out again. `crossed` is history: what two requests have been about at the
same time, each between its reading and its write (`About`: revoking an admin, the
first account, a link, an unclaimed boat), and the accounts of which a request was
under way while they were being deleted. It changes nothing of what a handler does.
The console scripts on accounts are left out (6).

### Ticker

`ticker` is where the thread is and the races still to come to; `started`, `done`,
`seen`, `stamped` are `_tick_started_at`, `_tick_done_at`, `_wx_degraded` and the
backup's day, all lost by `Restart`. Times are kept as ages cut off at `MaxAge`, so
that behaviours are infinite and the states finite. `TickBegins` to `Polls` are the
body of `_tick`: `Dock` and `Sails` for each race, then `Heal`, `Backup`, `Weather`, the
polls. Each is in a `try` of its own but `catch_up_race` (`app.py:1912`) and the entry
in the log, whose exceptions end the tick (`SailRaises`, `WeatherRaises`). `Ok` is `healthz`. A `Fault`
lets the thread hang, die, or makes a race raise from then on; `PlatformRestarts` is
what the platform does with a 503. A race within its window stays there: that a
race ends after 60 days, when the ticker rightly leaves it, is left out.

### LiveFleet

`voyage` and `track` stand for the rows; a fix is a voyage and a time. `cache` is one
entry of `_state_cache`, `pending` a writer between its commit and the drop. A poll
is `Asks` on the page, `Lookup`, `Meta` and `Store` on the server (the tracks, then the
number of fixes, then the copy is kept), and `Merges` on the page again, `mergeTracks`
with its test for a track that shrank. What `Store` keeps can be old: `crossed`
remembers that a drop came in between. Thinning of long
tracks, ranking and the map are left out, and so is the submission that finds its boat
finished and is refused (`app.py:1452-1456`): what its catch-up commits is committed as
a tick's fixes are, without a drop.

### RaceBook

Every row has a birth besides its id, because ids are handed out again: `rows`
holds whose route, track or document a row is, and `OwnRows` compares births. The
two halves of a script or handler are two actions (`Lists` and `Deletes`, `Counts`
and `Adds`, `Registers` and `Enters`, `Uploads` and `Attaches`, `Starts` and `Routes`);
`Holds` and `Saves` are the ticker with rows it has read. `OpenPractice` is
`ensure_practice`, months and days shortened. A race of the
committee's is never rolling, although `create_race.py` can make it so: no practice
edition is one. `crossed` has the births of rows
deleted while somebody held them: for those `OwnRows` says nothing, the code
really leaves such rows behind (5).

### Results

A name is a base and perhaps a suffix that the AIS rules drop. `Hit` and what
leads to it are `match_roster`'s two passes, in the order of the table's rows;
`Fetch`, `Match`, `Preview`, `Apply` are an import on a page or the console, `SheetReads`
and `SheetWrites` are `link_ais.py`, `LinkReads` and `LinkWrites` are `link_yb`, `AddRealBoat` is the
page. What the tracker lists is any sequence of names with ids, another at each link:
teams may be renamed, left out, or of one name. `Linked` gives a boat the id of the last
team of its name, as the UPDATEs in turn do; `slug` has the list last linked, and
`given`, history, every team ever linked. `shows` is the row, and which import's, a boat has; `last` is the import since
which nothing has touched the roster.


## 3. The runs

Every run is an exhaustive search. *(v)* marks the runs TLC must find violated.

| Run | Instance |
|---|---|
| `engine` | places 0..3, course 0-3-1, steps of 2 ticks, horizon 6, drift 1, three routings, one crash, 1 step per tick; fair |
| `start_gate` | fixes up to 1 late: 2 boats gated by 1 real one, one submission, one crash; 1 boat gated by 2, one submission; 1 boat gated by 1, one submission, one of the four scripts between any two steps; 1 boat gated by 1 in a rolling race, 2 submissions |
| `start_dock` | 2 boats gated by 1 real one, fixes on time, one submission; a rolling race with 2 boats and 2 submissions; one crash each; fair |
| `accounts` | 2 threads, 2 names, 2 ids, 2 boats, one to be claimed, 1 link; no new request once two things are crossed |
| `fleet` | 3 times, 4 places, 2 marks; fixes, results and wipes |
| `weather` | one wind and one current cell, three hours asked for, clock 9..11 in half hours, one restart, one purge; fair |
| `ais` | 2 roster entries, a yacht of both names, a motor boat of one, 3 times, one script, one restart; fair |
| `ticker` | 2 races, day of 3, stale after 1, stuck after 2, ticks up to 1 long, one hang, death or restart, one busy lock or failed log entry, weather that turns at will; fair |
| `ticker_failing` *(v)* | the same with, for the only fault, a race that raises from some time on, or a restart: `StoppedIsReported` fails |
| `livefleet` | times 1..2, full poll every 3; a boat restarted and an answer lost; a boat and a tracked one; two polls that overlap, of either; fair |
| `racebook` | four boards: two people adding a mark to a course of 3 with 2 boats; boats and a race that come and go; documents of a race that goes; practice over three months; fair |
| `results` | 8 tables of two rows, 8 rosters of two boats, 2 lists of two teams, four names with two lookalikes; an amended table imported twice, or the roster still being entered |

**engine.** `RowMatchesTrack`: no fix missing, none beyond the row, the row not
beyond the clock. `RouteStillVisits`: what is left of the route visits every mark
owed, in order. `IsVoyage`: the refinement. `TickIsBounded`: a tick never sails more
than its cap. `CaughtUp`: however a backlog is split, the boat comes within a step
of the clock. On 0-3-1 the finish is passed on the way out, so a mark may not be
credited early, and one step can take two marks; `MaxSteps` 1 with three steps in
the horizon makes every backlog span ticks. The routings are the exact one, one
without the turning mark, and one that misses both marks.

**start_gate.** `WaitsForFleet`, with a late fix that moves the moment of the second
boat until it is recorded; `DecisionsStand`: the start on record stays, and an own
route is never replaced by the default; `SailsWithRoute`: whoever sends a boat off,
scripts included, has seen to its route, and holds the lock where it writes from
rows it has read. Two boats suffice because the batch fails at a boat and treats those
before and after it differently, and two real boats because the gate counts to two (not
both at once: what the batch does with a boat does not depend on how the gate counts);
and one request where requests interact only through the lock and the row.
`OneStart`: a start, given to a boat or recorded, is a moment the gate has
opened at by the fixes that were in, and two starts differ only when a late fix has moved
that moment. They do differ then, in this run (5). `TimeNeverRewinds` is about the boat
read before the wait for the lock; the rolling race that waits for a fleet, with two
requests, is where they and the gate race to start one boat. What is let through is
one case, `StartedAgain`: a boat that has a start and has not sailed is given another, by a
request behind `open_gate` or the other way round, after a late fix or in such a rolling
race. TLC finds both. No boat that has sailed a step is ever put back.
**start_dock.** `EveryoneRouted` is the liveness of the dock: failures are retried on
the next tick. `LeavesTheLine` is the liveness of the line, from a boat that waits there
when the fleet gets under way, a crash included.

**accounts.** Two requests overlap in any way, and sessions end under them. `SomeAdmin`,
`NothingLeftBehind`, `DoneOnce` (one first admin, a link used once, a boat adopted once) hold
but for what two requests were about at the same time, and for that the code really
fails (5). Each exception is as narrow as the failure: an orphaned session is of the very
account that was being deleted, a link used twice is the one both had looked up. Two ids let
an id be reused while another account lives; a third thread could only cross one thing
more (`Mishaps` bounds them).

**fleet** has one writer; three times allow a fix before, between and after, and
two marks an out-of-order pair. `RowIsWalk` compares the row with a definition
stated on the track, not by walking it; it also says that a boat scored out without a
time has no finish. `OfficialFinish`: fixes leave the committee's time alone. Three
facts bound the run: fixes of equal time in one batch are left out, two writers
break it, and it says nothing of the finish of boats with a status (5; hazard
at `results.py:225`).

**weather.** `RealStays` and `Paced` hold of every step; `HonestTillPurged` says health
degrades whenever a boat would be given placeholder wind, until the script runs,
with one exception (`Outlived`): an outage longer than the fill, nobody asking, the
ticker's last try just before the last placeholder leaves the live window. It takes
more hours than the run has, where the property holds without it (a fill of two
hours, no hour back and three steps of the clock reach it); the proof covers it.
`Heals` is the liveness of healing. `Pass` bounds one pass of the ticker. The windows are scaled: the live window is an
hour each way, the placeholder fill two, the series two, the archive three, and
the cooldown one step, so that an hour asked for may be inside each window,
just outside, or beyond all.

**ais.** `KeepsToRecord` (bindings by hand are kept, a fix goes to the boat on
record), `OneBoatPerVessel` (and stored fixes are a gap apart), `Matched`. The yacht fits both entries and the motor boat one, which is the smallest roster with
a contest for an entry and an entry for whoever loses it. It
also holds with two scripts (a larger search, not kept).

**ticker.** `KeepsSailing`: every race within its window is sailed again and again,
whatever the steps around it do, although the thread may hang or die.
`NoFalseAlarm`: the machine is not restarted under a working ticker.
`LogTruthful` and `RecoveryLogged`: the last weather entry is what was last seen, and
"Route submissions are paused" does not stay the last word unless the process is restarted.
Two races because an exception in one must not cost the other; a day of 3 lets
the backup's hour come round while a race is sailed.
**livefleet.** `DrawnForward`, `CopyCurrent`, `PageCatchesUp`: two times are enough for a
fix that comes in behind another, two polls for answers that overtake each other,
three polls to a full one for a partial one before and after a loss. Boats are not
restarted while polls overlap (`Untangled` in 4; 5).
**racebook.** `OwnRows`, `MarksKept`, `OneEdition`, `SomethingToEnter`. Each board gives the
jobs that get in each other's way; what they do not share cannot interact. A course
of 3 has a mark before and after the one put in; two additions may overlap.
**results.** `SailDecides`: where two rows claim a boat the one with its sail number
gets it; `Steady`: importing a table again pairs it as before; `TeamsLinked`: after
linking every team has the boat of its name, and its fixes go to no other unless the
tracker has used its id for two names (the second list gives the first one's id to a
team of another name, and lists that name twice); `ResultsStay`: refreshing the roster
loses no result. The tables have the lookalikes in either order, with one sail
number, two or none, and a row for a stranger.

Deadlock is looked for except where a behaviour may end: in `ais` the feed of a race that
is over has nothing left to do, in `racebook` and `results` the jobs of a behaviour are
counted and run out, and in `accounts` no request comes any more once `Mishaps` is passed.

### Fairness

* *Engine, StartLine:* the ticker is a loop in a thread that logs every
  exception, and the clock runs: WF. Its wait for the engine lock is 30 s against
  holds of a second or so, tried every minute: in `Engine`, where the lock can be
  retaken by requests, SF on `Acquire("ticker", now)`; in `StartLine` there are
  finitely many requests and WF is enough. A request that has begun goes on: WF.
  Navigators, scripts and crashes have no fairness.
* *Weather:* a download ends, by its 15 s timeout at the latest: WF. The ticker
  calls `heal_fallback` each minute: WF on `Healing`. Askers may take `_lock` again
  and again, so storing and the clock have SF: nobody asks without pause.
* *AisFeed:* the thread reconnects and stores: WF. A session ends after 300 s or
  a socket timeout of 90 s, whatever is heard: SF, since a point being stored
  disables it in the model. A vessel under way reports every few seconds: SF on
  its reports. Static reports have none, a vessel may never send its type.
* *Ticker:* time passes, the thread runs unless it hangs or is dead, the platform
  goes on checking: WF on each. A tick that does not hang takes at most `Longest`,
  which is assumed shorter than what counts as stuck; without that assumption
  `NoFalseAlarm` is false.
* *LiveFleet:* the page is open and asks, the server answers, a writer that has
  committed drops the copy, and the clock runs: WF.
* *RaceBook:* the ticker opens editions and saves what it holds: WF on those two.
* *Accounts, RealFleet, Results:* safety only, no fairness.

### Every property can fail

For each property of each passing run there is a mutant: a plausible slip in one
mapped definition, put in its place, with which TLC finds the property violated.


## 4. The proofs

TLAPS, for all values of the constants that meet the modules' assumptions.

**`EngineProofs`** (any course, radius, reach, stream, step, routings, number of
crashes).

* `TypeCorrect`: `Spec => []TypeOK`.
* `RowAlwaysMatchesTrack`: `Spec => []RowMatchesTrack`.
* `TicksAreBounded`: `Spec => TickIsBounded`.
* `EngineIsVoyage`: `Spec => IsVoyage`, the refinement: every step of the engine is a
  `SailOn` or leaves the voyage unchanged.
* `NeverParksShort`: `Spec => []RouteStillVisits`.

`RowMatchesTrack` is not inductive: between `ReadBoat` and `Write` what matters is in
`run`. The invariant `IInv` adds that the time asked for is not beyond the clock,
that a boat whose route is being replaced has not finished, and, while a boat is
sailed, `RunInv`: the fixes of the run are gapless from the row's time to `run.t`,
which is not beyond the time asked for; `run.wps` is exactly what the route has
after `run.passed`; the run has finished exactly when no mark is left. `GaplessJoin` glues a run's fixes to the track's, and
`RestOfRest` says that a suffix of a suffix is a suffix; there is one lemma per
action under `[Next]_vars`.

`RouteStillVisits` is not inductive either: within a catch-up what matters is the waypoints the run has not
passed, within a replacement the part of the routing already looked at. `VInv` says
so of both, the second by `Reconciled`: the marks before `plan.mark` are visited, in
order, by waypoints before `plan.from`, which an insertion further on leaves where
they are (`InsertKeeps`). The step that could break it is `Sail` (`SailLeaves`). Were
the first mark still owed visited only by a waypoint the step has passed, then so
were, in order, all the marks credited before it; a segment that ends at a waypoint
touches the mark the waypoint visits (`WaypointTouches`); so these segments are a
witness for crediting that mark too, and the step credits as many as it can. The
proof needs that a segment may serve several marks: that the code keeps
`path[i:]`, the touching segment included, is what keeps a boat from parking.

**`WeatherProofs`** (any cells, windows, cooldown, limit, hours).

* `TypeCorrect`: `Spec => []TypeOK`. `TypeOK` is inductive and carries the fact that
  a failure on record is never younger than the cooldown of its key
  (`CooldownOK`), and that the clock has not moved since a heal picked its cell
  (`HealOK`).
* `RealRowsStay`: `Spec => RealStays`, from two lemmas on the writes: filling keeps
  every row (`FilledRows`), storing keeps every real one (`RealRows`).
* `FailuresArePaced`: `Spec => Paced`: only `Ask` and `HealPicks` take a key up, both
  when it is due, and then `CooldownOK` bounds the failure.
* `HealthIsHonest`: `Spec => []HonestTillPurged`, for windows that outlast a pass and a
  cooldown (`WindowsAssumption`: days against a quarter of an hour). A key on a
  cooldown has rows until it ends (`Covered`), or has had placeholders in the window
  since before it began (`Told`). A pass of the ticker picks its keys first and tries
  them later, when an asker may have stored or failed in between: `PassTold` says what
  is left of the pick, and `KeyKept` that a step leaves a key as it was or covered.

**`StartProofs`** (any fleet and gate, any number of boats, requests, scripts and
crashes, any clock).

* `NobodySailsWithoutRoute`: `Spec => []SailsWithRoute`.
* `TheGateHolds`: `Spec => []WaitsForFleet`.
* `DecisionsAreKept`: `Spec => DecisionsStand`.
* `AllStartTogether`: `Spec => []OneStart`.
* `TimeGoesForward`: `Spec => TimeNeverRewinds`.

None of the five is inductive: a thread writes what it decided on rows it read a
while ago. `ThreadInv` says what stays true of such a thread: the boats it has read
have a route; its race row lacks at most the start recorded since; a start it is
to give means that the gate is open now. `Mild` is what a step may do behind a
thread's back (routes and starts are not taken away, an open gate does not
close, a start is recorded once) and `ThreadStays` shows that `ThreadInv` survives
any such step. So each action is proved twice over, once as the step of its
thread and once, through `Mild`, as a step the others have to bear. `OpenGate`'s
"recorded once" needs that the ticker's own race row is fresh, which only scripts
can break: those parts hold until one is run (`script.ran`). `Settled` and `Calm`, for the last two,
say more of what a thread holds. `Settled`: every start, recorded, given or held, is a
moment of `openings`; so is the start by the fixes that are in (`TheStart`), wherever it
moves, and only a fix moves it: without a late one there is one. `Calm`: up to the gun boats
are on the dock or the line, a row of a boat about to be sailed is exact, and a request
about to send a boat off finds it on the line or not yet sailed; `Frozen` says that who
holds the lock finds the boats as it left them, but for what the gate did. That is why
both hold with late fixes and with a gate on a rolling race: what `open_gate` does behind
a request is bounded to boats that have not sailed. Neither speaks of a race whose start
a script has changed (`script.ran`): a script rewinds on purpose. That `Patience` is at most
a step is needed: a request that waited longer would write a time the ticker is past.
`DockedUnrouted` is the
failing batch: the least boat that has a route already (`LeastOf`, from the
library's well-foundedness of the naturals) cuts it off.

**`FleetProofs`**, on the page, the feed and the rows, for any constants that satisfy the
modules' assumptions (`LiveFleetAssumption`, `AisFeedAssumption`, `RealFleetAssumption`).

* `CopyIsCurrent`: `Spec => []CopyCurrent`, for any boats, polls and restarts.
* `LinesGoForward`: `Untangled => (Spec => []DrawnForward)`, where `Untangled` says that
  no boat is restarted while polls overlap.
* `OneBoatEach`: `AisSpec => []OneBoatPerVessel`, for any roster of numbered boats,
  vessels, names and thinning gap.
* `RecordIsKept`: `AisSpec => KeepsToRecord`.
* `RowAlwaysIsWalk`: `RowSpec /\ WritesWhatItRead => []RowIsWalk`, for any course, places,
  batches, results, wipes and number of writers.
* `FinishIsTheCommittees`: `RowSpec /\ WritesWhatItRead => OfficialFinish`.
* `SoleWriterIsEnough`: `OneWriter => (RowSpec => WritesWhatItRead)`.
* `RowStaysARow`: `RowSpec => []RowTypeOK`, whatever writers overlap.
* `RebuildHeals`: `RowSpec => [][LateBatch => RowIsWalk']_rowVars`, whatever was saved over what.

*The copy.* `Sound` says of everything that was read of a boat, in the copy, in a poll
or on the page, that it is of no later voyage than the present one and no later
than the last fix told with it. `Fresh` follows what a poll has read until it is
stored: as long as no writer is between its commit and the drop, the tracks read and
the entries made of them have every fix of a first voyage, unless a drop has
crossed them. *The lines.* What a page merges must not be behind what it has
(`NotAhead`). That is not inductive by itself. With one poll at a time it is, because the
tracks were read after the page got what it has; with overlapping polls it follows,
as long as no boat is restarted, from the page's own `Told`: all fixes are of one
voyage, and only those after its last are taken (`ExtendedIs`). With both a line can
be drawn twice (5), so the hypothesis is needed. *The feed.* In a session no script has interfered with, the
roster in memory agrees with the table (`Agrees`), and a point about to be stored is of
a boat whose binding is the point's vessel, `Gap` behind all others (`GapKept`). *The
row.* `Walked` says what a row tells of any track: a mark is passed when it and those
before it were near in order (`PassedBy`, no walking). `WalksOn` is one fix: a later one
changes nothing of what was passed by the time of an earlier one (`PassedEarlier`), and
passes what is near from the next mark on (`NearIfPassed`, `PassedOnTheWay`). `WalkAll` folds
it over a batch, whole or rebuilt from nothing, so it does not matter in which of
the two ways `Backfill` decides. *The writers.* With two of them a row read before the
other's write is saved over it (5). What the walk needs is `WritesWhatItRead`:
no ingest writes to a row that has changed since it read it (`NothingStale`). One
writer sees to that, and so would a check at the write. Without it two things are left, from
the weaker invariant `Untidy`, that a row, saved or held by a writer, is of the row's type
and its last fix is on the track: the types (`RowStaysARow`), and that the damage does not
outlast the next late fix, for `Backfill` then rebuilds the row from the whole track and not
from what was saved (`WrittenIs`, `RebuildHeals`).

The folds and filters of these modules are recursive functions. What they compute is
proved without an induction theorem: were the invariant of the loop to fail there
would be a least index at which it does (`LeastOf`), and it holds at the one before
(`FilterRuns`, `FilteredIs`, `WalkRuns`).

**`TickerProofs`** (any races, thresholds, day, failures).

* `NoWorkingTickerRestarted`: `Spec => []NoFalseAlarm`.
* `LogsTellTheTruth`: `Spec => []LogTruthful`.

The first needs where the thread is against the two ages: a tick under way is
no older than `Longest`, and the last one ended no longer ago than a sleep and
that. The second needs that a step writes the log and what was seen together.

**`AccountsProofs`** (any names, ids, boats, links and threads, whose requests overlap; a
session may end under one).

* `TypesStay`: `Spec => []TypeOK`.
* `LastAdminStays`: `Spec => []SomeAdmin`.
* `DeletingIsThorough`: `Spec => []NothingLeftBehind`.
* `ChecksHold`: `Spec => DoneOnce`.

Nothing is supposed of the requests: they read, wait and write in any order, and the three
say what is so all the same. The invariants say that what a request has read when it
checked is still so, for everything that is not in `crossed`, and `CrossedInv` that whatever
two requests are about at the moment is in there. `AdminInv`: somebody besides whoever
is about to be revoked or deleted is an admin, and who registers without the role did
find an account there, which stays true. `RowsInv`: whatever names an account, in a
table or in a request, names one that is there, and who is about to delete it has listed all
its boats (`Held`). `LinksInv`, `FirstInv`, `BoatsInv`: a link looked up and unused is unused, one
account at most has been the first, and a boat about to be claimed has no owner. A handler
that checked again at its write would need no `crossed`.

**`RaceBookProofs`** (any races, boats, consoles, ids, calendar).

* `IdsCarryNothingOver`: `Spec => []OwnRows`.
* `EditionsDoNotOverlap`: `Spec => []OneEdition`.
* `MarksAreKept`: `Spec => MarksKept`.

`OwnRows` needs that births are never given out again, and that whatever a process holds,
or a row names, either stands as it did or has its birth in `crossed` (`Standing`).
`OneEdition` is inductive once guns are known to be times. For `MarksKept`: courses are
numbered without gaps (`MarksOK`); what a script that adds a mark has counted is a
prefix of its course, so it collides or appends (`AddersOK`); a boat's next mark, and
the course a tick has read, are no further than the course, until something is
deleted while held (`NextsOK`). `Excluded` is the instance's: races are not deleted
on a board on which marks are being added (`SetupOK`).

**`ResultsProofs`** (any roster, table, names, lists of teams, number of imports).

* `SailGoesFirst`: `Spec => []SailDecides`.
* `ImportsAreSteady`: `Spec => []Steady`.
* `ResultsAreKept`: `Spec => ResultsStay`.
* `EachTeamItsBoat`: `Spec => []TeamsLinked`.

`match_roster` is a loop over rows. Its invariant `LoopOK`, that no boat has been given to
two rows and every hit was alone among what was free, is proved without an induction
theorem: were it to fail there would be a least row at which it does, since the naturals
are well-founded, and it holds at the row before. `HitAgain` shows that a pairing
repeated on the roster it has filled in finds the same boats: a sail number or name
only ever gets closer to its row. `IInv` adds to the properties that a roster nothing has
touched is the one the last import left (`CleanOK`), and that what an import has paired is
the roster as it is, unless somebody wrote in between (`ProcOK`). `TeamsIn` is what linking
leaves: the last team of each name has a boat (`AllIn`), and an id on a boat was listed with
that boat's name (`GivenIn`), so two boats of one id are two names it has had. Nothing is
supposed of the lists: the first missing of a name is entered (`Missing`, `LinkKeeps`).

**Only model-checked:** all liveness (`CaughtUp`, `EveryoneRouted`, `LeavesTheLine`, `Heals`,
`Matched`, `KeepsSailing`, `RecoveryLogged`, `PageCatchesUp`, `SomethingToEnter`), which is out
of the prover's reach. Every invariant and action property of the passing runs is
the conclusion of a theorem above: of all but `DrawnForward`, `RowIsWalk` and `OfficialFinish`
under no hypothesis but the specification. Outside `Engine` and
`Weather` a module's `TypeOK` is a conjunct of one of the invariants its run checks.


## 5. What disagrees with the documentation

### Found by a run

* **A ticker that always fails is healthy** (`ticker_failing`). A race whose
  `catch_up_race` raises ends every tick for all races after it (`app.py:1912` is
  outside any `try`), no tick is completed any more, and yet each new one renews
  `_tick_started_at`: with no completed tick to go by, or one that is running,
  `healthz` answers 200 (`app.py:1985`), where it should say "503 when the ticker has
  stopped completing ticks" (`app.py:1974-1976`).

### Seen while modelling, no run kept

* Two admins who demote each other, or delete their accounts, at the same time: each
  request counts two and then writes (`app.py:606`, `vn/db.py:252-253`), and nobody is left
  to run the races. "The last admin can't be removed" (`src/README.md:162-163`), "never
  the last admin" (`app.py:594`). `SomeAdmin` without its exception fails so;
  `make_admin.py` is the way back.
* A boat stuck on the line: `submit_route` finds no virtual start yet, the ticker
  opens the gate, then the request parks the boat with no `sim_time`
  (`app.py:1438-1441`). `open_gate` returns at once from now on (`fleetgate.py:72`), and the
  boat waits until its navigator submits again.
* A DSQ or RET with a finish time keeps it as `official_finish`; the next rebuild
  starts from there (`realfleet.py:40`, against `realfleet.py:50-51`).
* A start set by hand closes the gate: `set_virtual_start.py` promises boats will
  start then, but `open_gate` returns before sending them off
  (`set_virtual_start.py:13-14`, `fleetgate.py:72`).
* With a late fix two starts occur in one race: a submission starts a boat at the
  moment computed from the fixes so far (`app.py:1438`), the gate later records
  another, against "recorded once" (`fleetgate.py:11-12`); `OneStart` says no more than that
  both are moments the gate has opened at.
* Steps are whole, so a resubmission takes effect up to a step early
  (`app.py:1360`, `app.py:1452`).
* Marks on one segment of a step are credited whatever their order on it
  (`sim.py:251`).
* A restart during a tick is overwritten (`restart_boat.py:69`, `sim.py:90-95`), and
  `set_start.py` checks that nobody sails and moves the gun in two steps
  (`set_start.py:49-65`).
* With two requests at a time: a session for a deleted account, whose number is
  reused (`app.py:418`); a reset link used twice (`app.py:490`, `:542`); two first admins
  (`app.py:391`); a boat claimed twice (`app.py:1322`, `:1333`).
* After `heal_weather.py` no placeholder is on record, so `wind_health` reports real
  weather, while the server's cooldown still keeps boats on uncached placeholder
  wind (`heal_weather.py:24`, `wind.py:44-49`). `HealthHonest` without its exception
  fails.
* After an outage of more than a day in which nobody asked for a cell, its last
  placeholders leave the live window, while the ticker's last try of it still holds the
  cooldown: for up to a quarter of an hour boats there sail synthetic wind that is
  not cached, and `wind_health` says real (`wind.py:28`, `:44-49`).
* `heal_fallback`'s limit counts cells healed, not tried (`wind.py:265-266`, `:279`).
* Weather that recovers across a restart is never logged as restored
  (`app.py:1931-1946`).
* A stale AIS roster refills a track that `set_mmsi.py --wipe` emptied, until the
  session ends (`ais.py:254`); a binding between the script's SELECT and UPDATE
  leaves a vessel on two boats.
* `add_mark.py` leaves routes submitted before it without the new mark
  (`add_mark.py:46`), checks and writes in two steps, and a tick that holds a boat
  across the renumbering writes its old `next_mark` back. `real_boats.next_mark` is
  not shifted.
* A tick that saves a boat deleted meanwhile, by its id, puts its `next_mark` on the boat
  that has the id now, whose course may be shorter (`sim.py:93`): that a `next_mark`
  is at most the length of the course holds only while no such save has been made.
* `delete_race.py` leaves the rows of `race_log`, which the race that gets the id
  shows as its own; a boat removed while a tick holds it leaves its track to the
  boat that gets its id (`vn/db.py:238`).
* The payload of the state is built before, and stored after, a write that drops
  the copy (`app.py:1073-1076`): up to a minute stale.
* The wish for a full poll is cleared before the poll is answered (`race.html:737`),
  and a boat restarted is shown with two voyages joined when the new one has
  outgrown the old (`race.html:716`): until the next full poll.
* With two polls under way across a run of `restart_boat.py`: one whose tracks are read
  before it and whose numbers are read after it brings the old fixes with no last
  one, and the other, read before, adds those again (`race.html:721`): a line drawn twice
  until the next full poll. One poll at a time draws it once.
* "Apply" fetches and pairs anew (`app.py:764`), where the docstring has it "write what
  the preview showed" (`app.py:751-752`); a boat an amended table no longer matches
  keeps its old row (`results.py:216`); a team renamed between two links gets a
  second boat of the same `yb_id`, and of two teams of one name the first loses its id
  (`app.py:1702-1707`); the positions before the link
  are not asked for again when that fails the first time (`app.py:1718`).
* A nightly upload that is refused is not tried again that day (`backup.py:149`).


## 6. What is not modelled, and why

* **Floats.** Great circles, polars, depth, land, interpolation and zones: pure
  functions of floats with no protocol. `Engine` leaves their results to choice.
  What it cannot show is that a boat gets anywhere, only what holds wherever
  it gets.
* **Parsers and heuristics:** GPX, GRIB, NOR documents, boat names.
* **Reports:** comparison, exports, the pages.
* **One-statement scripts:** descriptions, titles, notes.
* **State with little protocol:** the rate limiter's window, the API quota, forecast
  snapshots, the deploy guard that reads the health and waits: one thread, one
  statement, or read-only.
* **Scripts of one UPDATE:** `set_mark.py`, `set_polar.py`, `set_side.py`. What a mark moved off
  a submitted route means for the boat is the hazard of `add_mark.py` again (5); how
  far it misses the mark is geometry.
* **The console on accounts:** `delete_user.py` calls the `delete_user` of `Accounts` without
  a session, `assign_boat.py` gives away an unclaimed boat in one UPDATE that checks the
  owner itself, `make_admin.py` grants or revokes whoever it is told, the last admin too.
  `backup_now.py` uploads out of turn; `set_zones.py` and `reroute_zones.py` change zones and
  routes round them, which no module has.
* **The schema's migrations**, which run before anything else does.

Sizes are small, so what TLC shows is shown for those sizes; the theorems of 4 are
for all. Every counter that is cut off (clock, crashes, restarts, scripts, ids,
links) is a constant marked "(bound)" in its module.


## 7. The plan

Written: `Voyage` and `Engine` with the refinement and their proofs, `StartLine`, `AisFeed`,
`Weather`, `Ticker`, `Accounts`, `RaceBook`, `Results`, `RealFleet` and `LiveFleet`, all with proofs.
What would add most:

1. `WriteLock`: handlers that return without a rollback and keep SQLite's write
   lock (`app.py:399`, `:1301`); everyone waiting out 30 s.
2. `RouteStillVisits` on a course that changes: `Engine` composed with `RaceBook`'s
   `Adds`.
3. `RateLimit` and the API quota, whose windows and counters restart with the process.
4. A discrete `Detour` search checked against reachability.

Open question for proofs: that `LiveFleet` implements a page that is told every fix once.
