------------------------------- MODULE Weather -------------------------------
(***************************************************************************)
(* The weather cache (vn/wind.py): wind and current by grid cell and hour, *)
(* fetched from Open-Meteo when somebody asks, with placeholder rows while *)
(* the API fails; the ticker's heal_fallback, which refetches what holds   *)
(* placeholders; and scripts/heal_weather.py, another process.             *)
(*                                                                         *)
(* Whoever asks holds _lock from the look at the cache to the commit, its  *)
(* download included.  heal_fallback downloads without it.  The cooldown   *)
(* is kept in two dicts of the process, which a restart empties and the    *)
(* script does not see.                                                    *)
(*                                                                         *)
(* A key is a cell of one of the two kinds; speeds and directions are left *)
(* out, and a row is only known by its source.  The clock does not move    *)
(* while a download is under way: it takes seconds, a step of the clock is *)
(* a fraction of an hour.                                                  *)
(***************************************************************************)
EXTENDS Integers, FiniteSets

CONSTANTS
  WindCells, CurrentCells,   \* the keys: cells of wind_cache, of current_cache
  PerHour,                   \* steps of the clock in an hour
  RETRY,                     \* RETRY_SECONDS, in steps of the clock
  FillBack, FillAhead,       \* FAIL_FILL_HOURS
  LiveBack, LiveAhead,       \* LIVE_WINDOW, in hours
  SeriesBack, SeriesAhead,   \* hours the API's series reaches behind and ahead
  ArchiveBack,               \* the most hours it reaches back
  Limit,                     \* heal_fallback's limit
  Pass,                      \* the longest one pass of it takes, in steps of the clock
  Asked,                     \* the hours somebody asks for
  Start, Horizon,            \* the clock starts and stops here (bounds)
  MaxRestarts, MaxPurges,    \* restarts, runs of the script (bounds)
  None

Keys == WindCells \cup CurrentCells

ASSUME WeatherAssumption ==
  /\ WindCells \cap CurrentCells = {}
  /\ {PerHour, RETRY, Limit} \subseteq Nat \ {0}
  /\ {FillBack, FillAhead, LiveBack, LiveAhead, SeriesBack, SeriesAhead, ArchiveBack,
      Start, Horizon, MaxRestarts, MaxPurges} \subseteq Nat
  /\ SeriesBack <= ArchiveBack /\ Asked \subseteq Int /\ None \notin Int \cup Keys

\* What is filled or fetched lasts longer than a pass and a cooldown: 24 hours
\* and days of forecast against a quarter of an hour.
ASSUME WindowsAssumption ==
  /\ Pass \in Nat /\ LiveAhead >= 1
  /\ Pass + RETRY <= (FillAhead - 1) * PerHour /\ Pass + RETRY <= SeriesAhead * PerHour

VARIABLES
  cache,     \* the two tables: hour -> source, for each key
  retry,     \* _retry: when a key was last tried again
  failed,    \* _failed: when a fetch of it last failed
  asker,     \* who holds _lock downloads this key for this hour
  heal,      \* the locals of heal_fallback
  now, up,   \* the clock; the API answers from now on
  restarts, purges

vars == <<cache, retry, failed, asker, heal, now, up, restarts, purges>>

Nobody == [key |-> None, hour |-> 0]
Resting == [pc |-> "off", kind |-> "wind", todo |-> {}, key |-> None, at |-> 0, healed |-> 0, since |-> 0]

Init ==
  /\ cache = [k \in Keys |-> <<>>]
  /\ retry = [k \in Keys |-> None] /\ failed = [k \in Keys |-> None]
  /\ asker = Nobody /\ heal = Resting
  /\ now = Start /\ up = FALSE /\ restarts = 0 /\ purges = 0

HourOf(t) == t \div PerHour
Hour == HourOf(now)

LiveAt(t) == (HourOf(t) - LiveBack)..(HourOf(t) + LiveAhead)
Live == LiveAt(now)

Downloading == asker # Nobody \/ heal.pc \in {"due", "download"}

PassLasts == heal.pc # "off" => now < heal.since + Pass

Tick ==
  /\ now < Horizon /\ ~Downloading /\ PassLasts
  /\ now' = now + 1
  /\ UNCHANGED <<cache, retry, failed, asker, heal, up, restarts, purges>>

ApiRecovers ==
  /\ ~up /\ up' = TRUE
  /\ UNCHANGED <<cache, retry, failed, asker, heal, now, restarts, purges>>

-----------------------------------------------------------------------------
(***************************************************************************)
(* The cache and the cooldown                                              *)
(***************************************************************************)
HasFiller(k, hours) == \E h \in hours \cap DOMAIN cache[k] : cache[k][h] = "filler"

\* Slip: INSERT OR REPLACE.
FilledOver(rows, hours) ==
  [h \in DOMAIN rows \cup hours |-> IF h \in hours THEN "filler" ELSE rows[h]]

\* INSERT OR IGNORE.
Filled(rows, hours) ==
  [h \in DOMAIN rows \cup hours |-> IF h \in DOMAIN rows THEN rows[h] ELSE "filler"]

\* The series replaces what it covers; every other placeholder goes.
Real(rows, series) ==
  [h \in series \cup {g \in DOMAIN rows : rows[g] = "real"} |-> "real"]

Series(back) == (Hour - back)..(Hour + SeriesAhead)

\* How far back to ask: an older hour of wind widens the request.
Back(k, h) ==
  LET need == Hour - h + 1
  IN IF k \in CurrentCells \/ need <= SeriesBack THEN SeriesBack
     ELSE IF need <= ArchiveBack THEN need ELSE ArchiveBack

FillWindow == (Hour - FillBack)..(Hour + FillAhead - 1)

\* Slip: a step late.
DueLate(k) == retry[k] # None => now - retry[k] > RETRY

Due(k) == retry[k] # None => now - retry[k] >= RETRY

\* Slip: only placeholder rows are gated, a failed fetch is not.
GatedIfStale(k, h) == HasFiller(k, {h, h + 1})

\* A key that failed, or serves placeholders, is fetched on the cooldown.
Gated(k, h) == HasFiller(k, {h, h + 1}) \/ failed[k] # None

NoteFailure(k) ==
  /\ failed' = [failed EXCEPT ![k] = now]
  /\ retry' = [retry EXCEPT ![k] = now]

-----------------------------------------------------------------------------
(***************************************************************************)
(* get_wind, get_current.  A call that finds its rows, or the cooldown     *)
(* running, changes nothing.                                               *)
(***************************************************************************)
Missing(k, h) == ~({h, h + 1} \subseteq DOMAIN cache[k])

Fetches(k, h) == /\ Missing(k, h) \/ HasFiller(k, {h, h + 1})
                 /\ Gated(k, h) => Due(k)

Ask(k, h) ==
  /\ asker = Nobody /\ Fetches(k, h)
  /\ asker' = [key |-> k, hour |-> h]
  /\ retry' = IF Gated(k, h) THEN [retry EXCEPT ![k] = now] ELSE retry
  /\ UNCHANGED <<cache, failed, heal, now, up, restarts, purges>>

\* Slip: nothing stands in for the rows that did not come.
AskFailsBare ==
  /\ asker # Nobody /\ ~up
  /\ NoteFailure(asker.key)
  /\ asker' = Nobody
  /\ UNCHANGED <<cache, heal, now, up, restarts, purges>>

AskFails ==
  /\ asker # Nobody /\ ~up
  /\ NoteFailure(asker.key)
  /\ cache' = [cache EXCEPT ![asker.key] = Filled(@, FillWindow)]
  /\ asker' = Nobody
  /\ UNCHANGED <<heal, now, up, restarts, purges>>

\* An hour of wind the series does not reach is filled and gated.
AskAnswered ==
  /\ asker # Nobody
  /\ LET k == asker.key  h == asker.hour
         series == Series(Back(k, h))
         rows == Real(cache[k], series)
     IN IF k \in WindCells /\ h \notin series
        THEN /\ cache' = [cache EXCEPT ![k] = Filled(rows, {h, h + 1})]
             /\ NoteFailure(k)
        ELSE /\ cache' = [cache EXCEPT ![k] = rows]
             /\ failed' = [failed EXCEPT ![k] = None]
             /\ UNCHANGED retry
  /\ asker' = Nobody
  /\ UNCHANGED <<heal, now, up, restarts, purges>>

-----------------------------------------------------------------------------
(***************************************************************************)
(* heal_fallback, from the ticker: first the wind, then the current.       *)
(***************************************************************************)
\* Keys with placeholder rows in the live window of a pass begun at t.
ToHeal(cells, t) == {k \in cells : HasFiller(k, LiveAt(t))}

HealStart ==
  /\ heal.pc = "off"
  /\ heal' = [Resting EXCEPT !.pc = "next", !.todo = ToHeal(WindCells, now), !.since = now]
  /\ UNCHANGED <<cache, retry, failed, asker, now, up, restarts, purges>>

HealTurns ==
  /\ heal.pc = "next" /\ heal.todo = {} /\ heal.kind = "wind"
  /\ heal' = [heal EXCEPT !.kind = "current", !.todo = ToHeal(CurrentCells, heal.since)]
  /\ UNCHANGED <<cache, retry, failed, asker, now, up, restarts, purges>>

HealEnds ==
  /\ heal.pc = "next"
  /\ \/ heal.todo = {} /\ heal.kind = "current"
     \/ heal.todo # {} /\ heal.healed >= Limit
  /\ heal' = Resting
  /\ UNCHANGED <<cache, retry, failed, asker, now, up, restarts, purges>>

HealNext(k) == heal.pc = "next" /\ k \in heal.todo /\ heal.healed < Limit

HealSkips(k) ==
  /\ HealNext(k) /\ ~Due(k)
  /\ heal' = [heal EXCEPT !.todo = @ \ {k}]
  /\ UNCHANGED <<cache, retry, failed, asker, now, up, restarts, purges>>

\* _retry_due reads _retry here and sets it in HealTries, without _lock.
HealPicks(k) ==
  /\ HealNext(k) /\ Due(k)
  /\ heal' = [heal EXCEPT !.pc = "due", !.todo = @ \ {k}, !.key = k, !.at = now]
  /\ UNCHANGED <<cache, retry, failed, asker, now, up, restarts, purges>>

HealTries ==
  /\ heal.pc = "due"
  /\ retry' = [retry EXCEPT ![heal.key] = heal.at]
  /\ heal' = [heal EXCEPT !.pc = "download"]
  /\ UNCHANGED <<cache, failed, asker, now, up, restarts, purges>>

HealFails ==
  /\ heal.pc = "download" /\ ~up
  /\ NoteFailure(heal.key)
  /\ heal' = [heal EXCEPT !.pc = "next", !.key = None]
  /\ UNCHANGED <<cache, asker, now, up, restarts, purges>>

\* Downloaded, and stored once _lock is free.
HealStores ==
  /\ heal.pc = "download" /\ asker = Nobody
  /\ cache' = [cache EXCEPT ![heal.key] = Real(@, Series(SeriesBack))]
  /\ failed' = [failed EXCEPT ![heal.key] = None]
  /\ heal' = [heal EXCEPT !.pc = "next", !.key = None, !.healed = @ + 1]
  /\ UNCHANGED <<retry, asker, now, up, restarts, purges>>

-----------------------------------------------------------------------------
\* scripts/heal_weather.py: every placeholder row goes.
Purge ==
  /\ purges < MaxPurges /\ purges' = purges + 1
  /\ cache' = [k \in Keys |-> Real(cache[k], {})]
  /\ UNCHANGED <<retry, failed, asker, heal, now, up, restarts>>

Restart ==
  /\ restarts < MaxRestarts /\ restarts' = restarts + 1
  /\ retry' = [k \in Keys |-> None] /\ failed' = [k \in Keys |-> None]
  /\ asker' = Nobody /\ heal' = Resting
  /\ UNCHANGED <<cache, now, up, purges>>

Asking  == (\E k \in Keys, h \in Asked : Ask(k, h)) \/ AskFails \/ AskAnswered
Healing == \/ HealStart \/ HealTurns \/ HealEnds \/ HealTries \/ HealFails \/ HealStores
           \/ \E k \in Keys : HealSkips(k) \/ HealPicks(k)

Next == Tick \/ ApiRecovers \/ Asking \/ Healing \/ Purge \/ Restart

Spec == Init /\ [][Next]_vars

\* The ticker calls heal_fallback every minute, a download comes to an end, and
\* those who ask do not keep the clock or _lock from the ticker for ever.
FairSpec == /\ Spec
            /\ SF_vars(Tick) /\ WF_vars(Healing) /\ SF_vars(HealStores)
            /\ WF_vars(AskFails \/ AskAnswered)
-----------------------------------------------------------------------------
CacheOK ==
  /\ DOMAIN cache = Keys
  /\ \A k \in Keys : \A h \in DOMAIN cache[k] : h \in Int /\ cache[k][h] \in {"real", "filler"}

\* A key that failed is on a cooldown, no older than the failure.
CooldownOK ==
  /\ retry \in [Keys -> 0..now \cup {None}] /\ failed \in [Keys -> 0..now \cup {None}]
  /\ \A k \in Keys : failed[k] # None => retry[k] # None /\ failed[k] <= retry[k]

HealOK ==
  /\ heal \in [pc : {"off", "next", "due", "download"}, kind : {"wind", "current"},
               todo : SUBSET Keys, key : Keys \cup {None}, at : Nat, healed : 0..Limit, since : 0..now]
  /\ heal.pc \in {"due", "download"} => heal.key \in Keys /\ heal.at = now /\ heal.healed < Limit

TypeOK ==
  /\ CacheOK /\ CooldownOK /\ HealOK
  /\ asker \in {Nobody} \cup [key : Keys, hour : Asked]
  /\ now \in Nat /\ up \in BOOLEAN /\ restarts \in Nat /\ purges \in Nat

(***************************************************************************)
(* Placeholders stand in for real data and never replace it ("Never        *)
(* overwrites real rows"): whichever of an asker, the ticker and the       *)
(* script writes last, an hour that was real stays real.                   *)
(***************************************************************************)
RealStays ==
  [][\A k \in Keys : \A h \in DOMAIN cache[k] :
       cache[k][h] = "real" => h \in DOMAIN cache'[k] /\ cache'[k][h] = "real"]_vars

(***************************************************************************)
(* "At most once per RETRY_SECONDS (shared with the on-access retry)": a   *)
(* key whose last fetch failed is not taken up again within the cooldown,  *)
(* by an asker or by the ticker, for whatever hour.                        *)
(***************************************************************************)
Paced ==
  [][\A k \in Keys :
       /\ failed[k] # None
       /\ \/ asker # asker' /\ asker'.key = k
          \/ heal.key # k /\ heal'.key = k
       => now - failed[k] >= RETRY]_vars

(***************************************************************************)
(* Once the API answers, with a cooldown left to run, every key sheds the  *)
(* placeholders in the live window "whether or not a boat happens to cross *)
(* the cell again", through restarts and whoever asks meanwhile.           *)
(***************************************************************************)
Heals ==
  \A k \in Keys : up /\ now + RETRY <= Horizon ~> ~HasFiller(k, Live)

(***************************************************************************)
(* wind_health: "Is the fleet sailing real weather right now?"  When a     *)
(* boat would be given placeholder wind for this hour, the race is told;   *)
(* or the key has no row left for this hour, its last placeholders left    *)
(* the live window within the last cooldown, and the ticker had just tried *)
(* them.  The rest holds for as long as nobody has run the script: types,  *)
(* and a key that failed is on a cooldown.                                 *)
(***************************************************************************)
GivesFiller(k, h) ==
  LET have == {h, h + 1} \cap DOMAIN cache[k]
  IN ~Fetches(k, h) /\ (have = {} \/ HasFiller(k, {IF h \in have THEN h ELSE h + 1}))

Degraded == \E k \in WindCells : HasFiller(k, Live)

Outlived(k) ==
  /\ {Hour, Hour + 1} \cap DOMAIN cache[k] = {}
  /\ HasFiller(k, (HourOf(now - RETRY - Pass) - LiveBack)..(Hour - LiveBack - 1))

HealthHonest ==
  asker = Nobody => \A k \in WindCells : GivesFiller(k, Hour) => Degraded \/ Outlived(k)

HonestTillPurged == TypeOK /\ (purges = 0 => HealthHonest)
=============================================================================
