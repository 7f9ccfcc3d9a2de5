---------------------------- MODULE WeatherProofs ----------------------------
(***************************************************************************)
(* Proofs about the weather cache, for any cells, windows and cooldown.    *)
(* TypeOK is inductive: it says that a failure is never younger than the   *)
(* cooldown of its key, which is what Paced rests on.                      *)
(***************************************************************************)
EXTENDS Weather, TLAPS

LEMMA Constants ==
  /\ None \notin Int /\ None \notin Nat /\ None \notin Keys
  /\ Limit \in Nat /\ 0 < Limit /\ RETRY \in Nat /\ Start \in Nat /\ Asked \subseteq Int
BY WeatherAssumption

(***************************************************************************)
(* Filling keeps every row there is, and adds placeholders.                *)
(***************************************************************************)
LEMMA FilledRows ==
  ASSUME NEW rows, NEW hours \in SUBSET Int,
         \A h \in DOMAIN rows : h \in Int /\ rows[h] \in {"real", "filler"}
  PROVE  /\ \A h \in DOMAIN Filled(rows, hours) :
              h \in Int /\ Filled(rows, hours)[h] \in {"real", "filler"}
         /\ \A h \in DOMAIN rows : h \in DOMAIN Filled(rows, hours) /\ Filled(rows, hours)[h] = rows[h]
BY DEF Filled

(***************************************************************************)
(* Storing a series leaves real rows only, every one there was among them. *)
(***************************************************************************)
LEMMA RealRows ==
  ASSUME NEW rows, NEW series \in SUBSET Int,
         \A h \in DOMAIN rows : h \in Int /\ rows[h] \in {"real", "filler"}
  PROVE  /\ \A h \in DOMAIN Real(rows, series) : h \in Int /\ Real(rows, series)[h] = "real"
         /\ \A h \in DOMAIN rows : rows[h] = "real" => h \in DOMAIN Real(rows, series)
BY DEF Real

LEMMA HoursAreInts ==
  ASSUME TypeOK
  PROVE  FillWindow \in SUBSET Int /\ \A back : Series(back) \in SUBSET Int
BY DEF FillWindow, Series

LEMMA InitTypeOK == Init => TypeOK
<1> SUFFICES ASSUME Init PROVE TypeOK
  OBVIOUS
<1> USE Constants
<1>1. CacheOK
  BY DEF Init, CacheOK
<1>2. CooldownOK
  BY DEF Init, CooldownOK
<1>3. HealOK
  BY DEF Init, HealOK, Resting
<1>. QED
  BY <1>1, <1>2, <1>3 DEF Init, TypeOK

(***************************************************************************)
(* A failure is noted with the cooldown it starts.                         *)
(***************************************************************************)
LEMMA NoteFailureOK ==
  ASSUME TypeOK, NEW k \in Keys, NoteFailure(k), now' = now
  PROVE  CooldownOK'
BY Constants DEF TypeOK, CooldownOK, NoteFailure

LEMMA StepTypeOK == TypeOK /\ [Next]_vars => TypeOK'
<1> SUFFICES ASSUME TypeOK, [Next]_vars PROVE TypeOK'
  OBVIOUS
<1> USE Constants
<1>1. CASE Tick
  <2>1. CooldownOK'
    BY <1>1 DEF Tick, TypeOK, CooldownOK
  <2>2. HealOK'
    BY <1>1 DEF Tick, Downloading, TypeOK, HealOK
  <2>. QED
    BY <1>1, <2>1, <2>2 DEF Tick, TypeOK, CacheOK
<1>2. CASE ApiRecovers
  BY <1>2 DEF ApiRecovers, TypeOK, CacheOK, CooldownOK, HealOK
<1>3. ASSUME NEW k \in Keys, NEW h \in Asked, Ask(k, h) PROVE TypeOK'
  <2>1. CooldownOK'
    BY <1>3 DEF Ask, TypeOK, CooldownOK
  <2>2. asker' \in {Nobody} \cup [key : Keys, hour : Asked]
    BY <1>3 DEF Ask
  <2>. QED
    BY <1>3, <2>1, <2>2 DEF Ask, TypeOK, CacheOK, HealOK
<1>4. CASE AskFails
  <2>1. asker.key \in Keys
    BY <1>4 DEF AskFails, TypeOK
  <2>2. CooldownOK'
    BY <1>4, <2>1, NoteFailureOK DEF AskFails
  <2>3. CacheOK'
    BY <1>4, <2>1, FilledRows, HoursAreInts DEF AskFails, TypeOK, CacheOK
  <2>. QED
    BY <1>4, <2>2, <2>3 DEF AskFails, TypeOK, HealOK
<1>5. CASE AskAnswered
  <2> DEFINE k == asker.key
             h == asker.hour
             series == Series(Back(k, h))
             rows == Real(cache[k], series)
  <2>1. k \in Keys /\ h \in Int
    BY <1>5 DEF AskAnswered, TypeOK
  <2>2. series \in SUBSET Int
    BY HoursAreInts
  <2>3. \A g \in DOMAIN rows : g \in Int /\ rows[g] \in {"real", "filler"}
    BY <2>1, <2>2, RealRows DEF TypeOK, CacheOK
  <2>4. CASE k \in WindCells /\ h \notin series
    <3>1. cache' = [cache EXCEPT ![k] = Filled(rows, {h, h + 1})] /\ NoteFailure(k)
      BY <1>5, <2>4 DEF AskAnswered
    <3>2. CooldownOK'
      BY <1>5, <2>1, <3>1, NoteFailureOK DEF AskAnswered
    <3>3. CacheOK'
      <4> HIDE DEF rows
      <4>1. {h, h + 1} \in SUBSET Int
        BY <2>1
      <4>. QED
        BY <2>1, <2>3, <3>1, <4>1, FilledRows DEF TypeOK, CacheOK
    <3>. QED
      BY <1>5, <3>2, <3>3 DEF AskAnswered, TypeOK, HealOK
  <2>5. CASE ~(k \in WindCells /\ h \notin series)
    <3>1. cache' = [cache EXCEPT ![k] = rows] /\ failed' = [failed EXCEPT ![k] = None] /\ retry' = retry
      BY <1>5, <2>5 DEF AskAnswered
    <3>2. CooldownOK'
      BY <1>5, <2>1, <3>1 DEF AskAnswered, TypeOK, CooldownOK
    <3>3. CacheOK'
      <4> HIDE DEF rows
      <4>. QED
        BY <2>1, <2>3, <3>1 DEF TypeOK, CacheOK
    <3>. QED
      BY <1>5, <3>2, <3>3 DEF AskAnswered, TypeOK, HealOK
  <2>. QED
    BY <2>4, <2>5
<1>6. CASE HealStart \/ HealTurns \/ HealEnds
  <2>1. HealOK'
    <3>1. \A t : ToHeal(WindCells, t) \in SUBSET Keys /\ ToHeal(CurrentCells, t) \in SUBSET Keys
      BY DEF ToHeal, Keys
    <3>2. CASE HealStart
      <4>1. heal' = [pc |-> "next", kind |-> "wind", todo |-> ToHeal(WindCells, now), key |-> None,
                     at |-> 0, healed |-> 0, since |-> now]
        BY <3>2 DEF HealStart, Resting
      <4>2. now' = now /\ now \in Nat /\ now \in 0..now /\ ToHeal(WindCells, now) \in SUBSET Keys
        BY <3>1, <3>2 DEF HealStart, TypeOK
      <4>. QED
        BY <4>1, <4>2 DEF HealOK
    <3>3. CASE HealTurns
      BY <3>1, <3>3 DEF HealTurns, TypeOK, HealOK
    <3>4. CASE HealEnds
      BY <3>4 DEF HealEnds, Resting, TypeOK, HealOK
    <3>. QED
      BY <1>6, <3>2, <3>3, <3>4
  <2>. QED
    BY <1>6, <2>1 DEF HealStart, HealTurns, HealEnds, TypeOK, CacheOK, CooldownOK
<1>7. ASSUME NEW k \in Keys, HealSkips(k) \/ HealPicks(k) PROVE TypeOK'
  <2>1. CASE HealSkips(k)
    BY <2>1 DEF HealSkips, HealNext, TypeOK, CacheOK, CooldownOK, HealOK
  <2>2. CASE HealPicks(k)
    <3>1. heal' = [pc |-> "due", kind |-> heal.kind, todo |-> heal.todo \ {k}, key |-> k,
                   at |-> now, healed |-> heal.healed, since |-> heal.since]
      BY <2>2 DEF HealPicks, TypeOK, HealOK
    <3>2. HealOK'
      BY <2>2, <3>1 DEF HealPicks, HealNext, TypeOK, HealOK
    <3>. QED
      BY <2>2, <3>2 DEF HealPicks, TypeOK, CacheOK, CooldownOK
  <2>. QED
    BY <1>7, <2>1, <2>2
<1>8. CASE HealTries
  <2>1. heal.key \in Keys /\ heal.at = now
    BY <1>8 DEF HealTries, TypeOK, HealOK
  <2>2. CooldownOK'
    BY <1>8, <2>1 DEF HealTries, TypeOK, CooldownOK
  <2>3. HealOK'
    BY <1>8 DEF HealTries, TypeOK, HealOK
  <2>. QED
    BY <1>8, <2>2, <2>3 DEF HealTries, TypeOK, CacheOK
<1>9. CASE HealFails
  <2>1. CooldownOK'
    BY <1>9, NoteFailureOK DEF HealFails, TypeOK, HealOK
  <2>2. HealOK'
    BY <1>9 DEF HealFails, TypeOK, HealOK
  <2>. QED
    BY <1>9, <2>1, <2>2 DEF HealFails, TypeOK, CacheOK
<1>10. CASE HealStores
  <2>1. heal.key \in Keys
    BY <1>10 DEF HealStores, TypeOK, HealOK
  <2>2. CooldownOK'
    BY <1>10, <2>1 DEF HealStores, TypeOK, CooldownOK
  <2>3. HealOK'
    <3>1. heal' = [pc |-> "next", kind |-> heal.kind, todo |-> heal.todo, key |-> None,
                   at |-> heal.at, healed |-> heal.healed + 1, since |-> heal.since]
      BY <1>10 DEF HealStores, TypeOK, HealOK
    <3>. QED
      BY <1>10, <3>1 DEF HealStores, TypeOK, HealOK
  <2>4. CacheOK'
    BY <1>10, <2>1, RealRows, HoursAreInts DEF HealStores, TypeOK, CacheOK
  <2>. QED
    BY <1>10, <2>2, <2>3, <2>4 DEF HealStores, TypeOK
<1>11. CASE Purge
  <2>1. CacheOK'
    BY <1>11, RealRows DEF Purge, TypeOK, CacheOK
  <2>. QED
    BY <1>11, <2>1 DEF Purge, TypeOK, CooldownOK, HealOK
<1>12. CASE Restart
  <2>1. CooldownOK' /\ HealOK'
    BY <1>12 DEF Restart, Resting, TypeOK, CooldownOK, HealOK
  <2>. QED
    BY <1>12, <2>1 DEF Restart, TypeOK, CacheOK
<1>13. CASE UNCHANGED vars
  BY <1>13 DEF vars, TypeOK, CacheOK, CooldownOK, HealOK
<1>. QED
  BY <1>1, <1>2, <1>3, <1>4, <1>5, <1>6, <1>7, <1>8, <1>9, <1>10, <1>11, <1>12, <1>13
     DEF Next, Asking, Healing

(***************************************************************************)
(* Types, and a cooldown no older than the failure it answers.             *)
(***************************************************************************)
THEOREM TypeCorrect == Spec => []TypeOK
BY InitTypeOK, StepTypeOK, PTL DEF Spec

(***************************************************************************)
(* No row of real weather is ever replaced by a placeholder or lost.       *)
(***************************************************************************)
THEOREM RealRowsStay == Spec => RealStays
<1> DEFINE Stays == \A k \in Keys : \A h \in DOMAIN cache[k] :
                      cache[k][h] = "real" => h \in DOMAIN cache'[k] /\ cache'[k][h] = "real"
<1>1. TypeOK /\ [Next]_vars => Stays
  <2> SUFFICES ASSUME TypeOK, [Next]_vars PROVE Stays
    OBVIOUS
  <2>1. CASE cache' = cache
    BY <2>1
  <2>2. CASE AskFails
    <3>1. asker.key \in Keys
      BY <2>2 DEF AskFails, TypeOK
    <3>. QED
      BY <2>2, <3>1, FilledRows, HoursAreInts DEF AskFails, TypeOK, CacheOK
  <2>3. CASE AskAnswered
    <3> DEFINE a == asker.key
               series == Series(Back(a, asker.hour))
               rows == Real(cache[a], series)
               both == {asker.hour, asker.hour + 1}
    <3>1. a \in Keys /\ both \in SUBSET Int
      <4>1. asker \in [key : Keys, hour : Asked]
        BY <2>3 DEF AskAnswered, TypeOK
      <4>2. asker.key \in Keys /\ asker.hour \in Int
        BY <4>1, Constants, Zenon
      <4>3. a \in Keys
        BY <4>2
      <4>4. asker.hour + 1 \in Int
        BY <4>2
      <4>. QED
        BY <4>2, <4>3, <4>4
    <3>2. /\ \A h \in DOMAIN rows : h \in Int /\ rows[h] = "real"
          /\ \A h \in DOMAIN cache[a] : cache[a][h] = "real" => h \in DOMAIN rows
      BY <3>1, RealRows, HoursAreInts DEF TypeOK, CacheOK
    <3>3. \A h \in DOMAIN rows : h \in DOMAIN Filled(rows, both) /\ Filled(rows, both)[h] = rows[h]
      <4> HIDE DEF rows, both
      <4>. QED
        BY <3>1, <3>2, FilledRows
    <3>4. cache' = [cache EXCEPT ![a] = Filled(rows, both)] \/ cache' = [cache EXCEPT ![a] = rows]
      BY <2>3 DEF AskAnswered
    <3> HIDE DEF rows, both
    <3>. QED
      BY <3>1, <3>2, <3>3, <3>4 DEF TypeOK, CacheOK
  <2>4. CASE HealStores
    <3>1. heal.key \in Keys
      BY <2>4 DEF HealStores, TypeOK, HealOK
    <3>. QED
      BY <2>4, <3>1, RealRows, HoursAreInts DEF HealStores, TypeOK, CacheOK
  <2>5. CASE Purge
    BY <2>5, RealRows DEF Purge, TypeOK, CacheOK
  <2>. QED
    BY <2>1, <2>2, <2>3, <2>4, <2>5
       DEF Next, vars, Asking, Healing, Tick, ApiRecovers, Ask, HealStart, HealTurns, HealEnds,
           HealTries, HealFails, HealSkips, HealPicks, Restart
<1>. QED
  BY <1>1, TypeCorrect, PTL DEF Spec, RealStays

(***************************************************************************)
(* A key whose last fetch failed is left alone for the cooldown.           *)
(***************************************************************************)
THEOREM FailuresArePaced == Spec => Paced
<1> DEFINE Pace == \A k \in Keys :
                     /\ failed[k] # None
                     /\ \/ asker # asker' /\ asker'.key = k
                        \/ heal.key # k /\ heal'.key = k
                     => now - failed[k] >= RETRY
<1>1. TypeOK /\ [Next]_vars => Pace
  <2> SUFFICES ASSUME TypeOK, [Next]_vars, NEW k \in Keys, failed[k] # None,
                      \/ asker # asker' /\ asker'.key = k
                      \/ heal.key # k /\ heal'.key = k
               PROVE  now - failed[k] >= RETRY
    OBVIOUS
  <2>1. Due(k)
    <3>1. ASSUME NEW j \in Keys, NEW h \in Asked, Ask(j, h) PROVE Due(k)
      BY <3>1 DEF Ask, Fetches, Gated
    <3>2. ASSUME NEW j \in Keys, HealSkips(j) \/ HealPicks(j) PROVE Due(k)
      BY <3>2 DEF HealSkips, HealPicks, TypeOK, HealOK
    <3>3. ~(AskFails \/ AskAnswered)
      BY Constants DEF AskFails, AskAnswered, Nobody
    <3>4. ~(HealStart \/ HealTurns \/ HealEnds \/ HealTries \/ HealFails \/ HealStores \/ Restart)
      <4>1. ~(HealStart \/ HealEnds \/ Restart)
        <5>1. ASSUME HealStart \/ HealEnds PROVE asker' = asker /\ heal'.key = None
          <6>1. CASE HealStart
            BY <6>1 DEF HealStart, Resting
          <6>2. CASE HealEnds
            <7>1. heal' = Resting /\ asker' = asker
              BY <6>2 DEF HealEnds
            <7>. QED
              BY <7>1 DEF Resting
          <6>. QED
            BY <5>1, <6>1, <6>2
        <5>2. ASSUME Restart PROVE asker'.key = None /\ heal'.key = None
          BY <5>2 DEF Restart, Resting, Nobody
        <5>. QED
          BY <5>1, <5>2, Constants
      <4>2. ~(HealTurns \/ HealTries)
        BY Constants DEF HealTurns, HealTries, TypeOK, HealOK
      <4>3. ~(HealFails \/ HealStores)
        BY Constants DEF HealFails, HealStores, TypeOK, HealOK
      <4>. QED
        BY <4>1, <4>2, <4>3
    <3>5. ~(Tick \/ ApiRecovers \/ Purge \/ UNCHANGED vars)
      BY DEF Tick, ApiRecovers, Purge, vars
    <3>. QED
      BY <3>1, <3>2, <3>3, <3>4, <3>5 DEF Next, Asking, Healing
  <2>. QED
    BY <2>1, Constants DEF Due, TypeOK, CooldownOK
<1>. QED
  BY <1>1, TypeCorrect, PTL DEF Spec, Paced

-----------------------------------------------------------------------------
(***************************************************************************)
(* wind_health.  The hour of an instant never runs backwards, and n hours  *)
(* of the clock are n hours.                                               *)
(***************************************************************************)
LEMMA HourOfInt == ASSUME NEW t \in Int PROVE HourOf(t) \in Int
BY WeatherAssumption DEF HourOf

LEMMA HourOfMonotone ==
  ASSUME NEW s \in Int, NEW t \in Int, s <= t
  PROVE  HourOf(s) <= HourOf(t)
<1>1. PerHour \in Nat \ {0}
  BY WeatherAssumption
<1>. QED
  BY <1>1 DEF HourOf

LEMMA HourOfLater ==
  ASSUME NEW t \in Int, NEW n \in Int, NEW d \in Int, d <= n * PerHour
  PROVE  HourOf(t + d) <= HourOf(t) + n
<1>1. PerHour \in Nat \ {0} /\ n * PerHour \in Int
  BY WeatherAssumption
<1>2. (t + n * PerHour) \div PerHour = t \div PerHour + n
  BY <1>1
<1>3. HourOf(t + d) <= HourOf(t + n * PerHour)
  BY <1>1, HourOfMonotone
<1>. QED
  BY <1>2, <1>3 DEF HourOf

(***************************************************************************)
(* A placeholder that a pass begun at t, or an earlier hour of this live   *)
(* window, makes known; rows for every hour from now to t.                 *)
(***************************************************************************)
Told(k, t) == HasFiller(k, (HourOf(t) - LiveBack)..(Hour + LiveAhead))

Covered(k, t) == Hour..HourOf(t) \subseteq DOMAIN cache[k]

(***************************************************************************)
(* Why the health is honest, as long as nobody has run the script: a key   *)
(* on a cooldown has rows until the cooldown ends, or has had placeholders *)
(* in the live window since a pass before it began; a key the ticker means *)
(* to try has either, for as long as the pass may last.                    *)
(***************************************************************************)
CooldownTold ==
  \A k \in Keys : failed[k] # None /\ asker.key # k
    => Told(k, retry[k] - Pass) \/ Covered(k, retry[k] + RETRY - 1)

PassTold ==
  \A k \in Keys : k \in heal.todo \/ heal.key = k
    => asker.key = k \/ Told(k, heal.since) \/ Covered(k, heal.since + Pass + RETRY)

PassOK ==
  /\ heal.pc = "off" => heal.todo = {} /\ heal.key = None
  /\ heal.pc # "off" => now <= heal.since + Pass

HealthInv == TypeOK /\ PassOK /\ (purges = 0 => CooldownTold /\ PassTold)

LEMMA Windows ==
  /\ {Pass, RETRY, LiveBack, LiveAhead, FillBack, FillAhead, SeriesBack, SeriesAhead, ArchiveBack, PerHour} \subseteq Nat
  /\ LiveAhead >= 1 /\ RETRY >= 1
  /\ Pass + RETRY <= (FillAhead - 1) * PerHour /\ Pass + RETRY <= SeriesAhead * PerHour
BY WeatherAssumption, WindowsAssumption

(***************************************************************************)
(* As the clock runs on, and while the rows of the key stay, what was told *)
(* and covered still is.                                                   *)
(***************************************************************************)
LEMMA ToldLater ==
  ASSUME TypeOK, now \in Nat, now' \in Nat, now <= now', NEW k \in Keys, cache'[k] = cache[k],
         NEW s \in Int, NEW t \in Int, s <= t, Told(k, t)
  PROVE  Told(k, s)'
<1>1. HourOf(s) \in Int /\ HourOf(t) \in Int /\ HourOf(s) <= HourOf(t)
  BY HourOfInt, HourOfMonotone
<1>2. Hour \in Int /\ Hour' \in Int /\ Hour <= Hour'
  BY HourOfInt, HourOfMonotone DEF Hour, HourOf
<1>3. PICK h \in (HourOf(t) - LiveBack)..(Hour + LiveAhead) : h \in DOMAIN cache[k] /\ cache[k][h] = "filler"
  BY DEF Told, HasFiller
<1>4. h \in (HourOf(s) - LiveBack)..(Hour' + LiveAhead)
  BY <1>1, <1>2, Windows
<1>. QED
  BY <1>3, <1>4 DEF Told, HasFiller, HourOf

LEMMA CoveredLater ==
  ASSUME TypeOK, now \in Nat, now' \in Nat, now <= now', NEW k \in Keys, cache'[k] = cache[k],
         NEW s \in Int, NEW t \in Int, s <= t, Covered(k, t)
  PROVE  Covered(k, s)'
<1>1. HourOf(s) \in Int /\ HourOf(t) \in Int /\ HourOf(s) <= HourOf(t)
  BY HourOfInt, HourOfMonotone
<1>2. Hour \in Int /\ Hour' \in Int /\ Hour <= Hour'
  BY HourOfInt, HourOfMonotone DEF Hour, HourOf
<1>3. Hour'..HourOf(s) \subseteq Hour..HourOf(t)
  BY <1>1, <1>2
<1>. QED
  BY <1>3 DEF Covered, HourOf

(***************************************************************************)
(* A key just filled or stored has rows for longer than a pass and a       *)
(* cooldown take from now.                                                 *)
(***************************************************************************)
LEMMA CoveredNow ==
  ASSUME TypeOK, now' = now, NEW k \in Keys, NEW n \in Int, Pass + RETRY <= n * PerHour,
         Hour..(Hour + n) \subseteq DOMAIN cache'[k]
  PROVE  \A t \in Int : t <= now + Pass + RETRY => Covered(k, t)'
<1> SUFFICES ASSUME NEW t \in Int, t <= now + Pass + RETRY PROVE Covered(k, t)'
  OBVIOUS
<1>1. now \in Nat /\ Hour \in Int /\ Hour' = Hour /\ HourOf(t) \in Int
  BY HourOfInt DEF TypeOK, Hour, HourOf
<1>2. HourOf(now + (Pass + RETRY)) <= Hour + n
  BY <1>1, HourOfLater, Windows DEF Hour
<1>3. HourOf(t) <= HourOf(now + (Pass + RETRY))
  BY <1>1, HourOfMonotone, Windows
<1>4. HourOf(now + (Pass + RETRY)) \in Int
  BY <1>1, HourOfInt, Windows
<1>5. Hour..HourOf(t) \subseteq Hour..(Hour + n)
  BY <1>1, <1>2, <1>3, <1>4
<1>. QED
  BY <1>1, <1>5 DEF Covered, HourOf

LEMMA FilledReach ==
  ASSUME TypeOK, NEW rows
  PROVE  Hour..(Hour + (FillAhead - 1)) \subseteq DOMAIN Filled(rows, FillWindow)
<1>1. Hour \in Int
  BY HourOfInt DEF TypeOK, Hour
<1>. QED
  BY <1>1, Windows DEF Filled, FillWindow

LEMMA SeriesReach ==
  ASSUME TypeOK, NEW back \in Nat
  PROVE  Hour..(Hour + SeriesAhead) \subseteq Series(back)
<1>1. Hour \in Int
  BY HourOfInt DEF TypeOK, Hour
<1>. QED
  BY <1>1, Windows DEF Series

LEMMA BackIsNat ==
  ASSUME TypeOK, NEW k, NEW h \in Int
  PROVE  Back(k, h) \in Nat
<1>1. Hour \in Int
  BY HourOfInt DEF TypeOK, Hour
<1>. QED
  BY <1>1, Windows DEF Back

(***************************************************************************)
(* What an answer and a failure leave of the key that was asked for.       *)
(***************************************************************************)
LEMMA AskEndsCovered ==
  ASSUME TypeOK, AskFails \/ AskAnswered, NEW k \in Keys, k = asker.key
  PROVE  \A t \in Int : t <= now + Pass + RETRY => Covered(k, t)'
<1>1. now' = now
  BY DEF AskFails, AskAnswered
<1>2. CASE AskFails
  <2>1. Hour..(Hour + (FillAhead - 1)) \subseteq DOMAIN cache'[k]
    BY <1>2, FilledReach DEF AskFails, TypeOK, CacheOK
  <2>. QED
    BY <1>1, <2>1, CoveredNow, Windows
<1>3. CASE AskAnswered
  <2> DEFINE h == asker.hour
             series == Series(Back(k, h))
             rows == Real(cache[k], series)
  <2>1. h \in Int
    BY <1>3, Constants DEF AskAnswered, TypeOK
  <2>2. Hour..(Hour + SeriesAhead) \subseteq series
    BY <2>1, BackIsNat, SeriesReach
  <2>3. cache' = [cache EXCEPT ![k] = Filled(rows, {h, h + 1})] \/ cache' = [cache EXCEPT ![k] = rows]
    BY <1>3 DEF AskAnswered
  <2>4. series \subseteq DOMAIN rows
    BY DEF Real
  <2>5. series \subseteq DOMAIN Filled(rows, {h, h + 1})
    <3> HIDE DEF rows, series
    <3>. QED
      BY <2>4 DEF Filled
  <2>6. series \subseteq DOMAIN cache'[k]
    <3> HIDE DEF rows, series
    <3>. QED
      BY <2>3, <2>4, <2>5 DEF TypeOK, CacheOK
  <2>7. Hour..(Hour + SeriesAhead) \subseteq DOMAIN cache'[k]
    BY <2>2, <2>6
  <2>. QED
    BY <1>1, <2>7, CoveredNow, Windows
<1>. QED
  BY <1>2, <1>3

LEMMA HealStoresCovered ==
  ASSUME TypeOK, HealStores, NEW k \in Keys, k = heal.key
  PROVE  \A t \in Int : t <= now + Pass + RETRY => Covered(k, t)'
<1>1. now' = now
  BY DEF HealStores
<1>2. Hour..(Hour + SeriesAhead) \subseteq Series(SeriesBack)
  BY SeriesReach, Windows
<1>3. Series(SeriesBack) \subseteq DOMAIN cache'[k]
  BY <1>1 DEF HealStores, Real, TypeOK, CacheOK
<1>. QED
  BY <1>1, <1>2, <1>3, CoveredNow, Windows

(***************************************************************************)
(* The script apart, a step touches the rows of a key only when an ask for *)
(* it ends or the ticker stores it; the clock does not run backwards.      *)
(***************************************************************************)
LEMMA RowsTouched ==
  ASSUME TypeOK, [Next]_vars, ~Purge, NEW k \in Keys
  PROVE  /\ now' \in Nat /\ now <= now'
         /\ \/ cache'[k] = cache[k]
            \/ (AskFails \/ AskAnswered) /\ k = asker.key
            \/ HealStores /\ k = heal.key
<1>1. now' = now \/ now' = now + 1
  BY DEF Next, vars, Asking, Healing, Tick, ApiRecovers, Ask, AskFails, AskAnswered, HealStart, HealTurns, HealEnds,
         HealTries, HealFails, HealStores, HealSkips, HealPicks, Restart
<1>2. \/ cache' = cache \/ AskFails \/ AskAnswered \/ HealStores
  BY DEF Next, vars, Asking, Healing, Tick, ApiRecovers, Ask, HealStart, HealTurns, HealEnds,
         HealTries, HealFails, HealSkips, HealPicks, Restart
<1>3. AskFails => cache'[k] = cache[k] \/ k = asker.key
  BY DEF AskFails, TypeOK, CacheOK
<1>4. AskAnswered => cache'[k] = cache[k] \/ k = asker.key
  BY DEF AskAnswered, TypeOK, CacheOK
<1>5. HealStores => cache'[k] = cache[k] \/ k = heal.key
  BY DEF HealStores, TypeOK, CacheOK
<1>. QED
  BY <1>1, <1>2, <1>3, <1>4, <1>5 DEF TypeOK

(***************************************************************************)
(* So a key whose rows are touched is covered, and any other is as it was. *)
(***************************************************************************)
LEMMA KeyKept ==
  ASSUME TypeOK, [Next]_vars, ~Purge, NEW k \in Keys
  PROVE  \/ \A u \in Int : u <= now + Pass + RETRY => Covered(k, u)'
         \/ \A u, v \in Int : u <= v => /\ Told(k, v) => Told(k, u)'
                                        /\ Covered(k, v) => Covered(k, u)'
<1>1. CASE cache'[k] = cache[k]
  BY <1>1, RowsTouched, ToldLater, CoveredLater DEF TypeOK
<1>. QED
  BY <1>1, RowsTouched, AskEndsCovered, HealStoresCovered

-----------------------------------------------------------------------------
LEMMA PassStep ==
  ASSUME TypeOK, PassOK, [Next]_vars
  PROVE  PassOK'
<1>1. CASE Tick
  BY <1>1, Windows DEF Tick, PassLasts, PassOK, TypeOK, HealOK
<1>2. CASE HealStart
  <2>1. heal'.pc = "next" /\ heal'.since = now /\ now' = now /\ now \in Nat
    BY <1>2 DEF HealStart, Resting, TypeOK
  <2>. QED
    BY <2>1, Windows DEF PassOK
<1>3. CASE HealEnds \/ Restart
  <2>1. heal' = Resting
    BY <1>3 DEF HealEnds, Restart
  <2>. QED
    BY <2>1 DEF Resting, PassOK
<1>4. ASSUME heal'.pc # "off", heal.pc # "off", heal'.since = heal.since, now' = now PROVE PassOK'
  BY <1>4 DEF PassOK
<1>5. ASSUME NEW k \in Keys, HealSkips(k) \/ HealPicks(k) PROVE PassOK'
  BY <1>4, <1>5 DEF HealSkips, HealPicks, HealNext, TypeOK, HealOK
<1>6. CASE HealTurns \/ HealTries \/ HealFails \/ HealStores
  <2>1. CASE HealTurns \/ HealTries
    BY <1>4, <2>1 DEF HealTurns, HealTries, TypeOK, HealOK
  <2>2. CASE HealFails
    BY <1>4, <2>2 DEF HealFails, TypeOK, HealOK
  <2>3. CASE HealStores
    BY <1>4, <2>3 DEF HealStores, TypeOK, HealOK
  <2>. QED
    BY <1>6, <2>1, <2>2, <2>3
<1>7. ASSUME heal' = heal, now' = now PROVE PassOK'
  BY <1>7 DEF PassOK
<1>. QED
  BY <1>1, <1>2, <1>3, <1>5, <1>6, <1>7
     DEF Next, vars, Asking, Healing, ApiRecovers, Ask, AskFails, AskAnswered, Purge

(***************************************************************************)
(* Whoever asked for the key last leaves it covered, or the restart ended  *)
(* the pass and the cooldowns.                                             *)
(***************************************************************************)
LEMMA AskEnds ==
  ASSUME TypeOK, [Next]_vars, NEW k \in Keys, asker.key = k, asker'.key # k
  PROVE  \/ AskFails \/ AskAnswered
         \/ Restart
<1>1. asker # Nobody
  BY Constants DEF Nobody
<1>. QED
  BY <1>1 DEF Next, vars, Asking, Healing, Tick, ApiRecovers, Ask, HealStart, HealTurns, HealEnds,
       HealTries, HealFails, HealStores, HealSkips, HealPicks, Purge

(***************************************************************************)
(* Where the keys of a pass come from: the pass has just turned to them,   *)
(* or it had them already.                                                 *)
(***************************************************************************)
LEMMA PassKeys ==
  ASSUME TypeOK, [Next]_vars, NEW k \in Keys, k \in heal'.todo \/ heal'.key = k
  PROVE  \/ HealStart /\ HasFiller(k, LiveAt(now)) /\ heal'.since = now
         \/ HealTurns /\ HasFiller(k, LiveAt(heal.since)) /\ heal'.since = heal.since
         \/ (k \in heal.todo \/ heal.key = k) /\ heal'.since = heal.since
<1>1. CASE HealStart
  <2>1. heal'.todo = ToHeal(WindCells, now) /\ heal'.key = None /\ heal'.since = now
    BY <1>1 DEF HealStart, Resting
  <2>. QED
    BY <1>1, <2>1, Constants DEF ToHeal
<1>2. CASE HealTurns
  <2>1. heal'.todo = ToHeal(CurrentCells, heal.since) /\ heal'.key = heal.key /\ heal'.since = heal.since
    BY <1>2 DEF HealTurns, TypeOK, HealOK
  <2>. QED
    BY <1>2, <2>1 DEF ToHeal
<1>3. ~(HealEnds \/ Restart)
  <2>1. Resting.todo = {} /\ Resting.key = None
    BY DEF Resting
  <2>. QED
    BY <2>1, Constants DEF HealEnds, Restart
<1>4. ASSUME NEW j \in Keys, HealSkips(j) \/ HealPicks(j)
      PROVE  (k \in heal.todo \/ heal.key = k) /\ heal'.since = heal.since
  <2>1. CASE HealSkips(j)
    <3>1. heal'.todo = heal.todo \ {j} /\ heal'.key = heal.key /\ heal'.since = heal.since
      BY <2>1 DEF HealSkips, HealNext, TypeOK, HealOK
    <3>. QED
      BY <3>1
  <2>2. CASE HealPicks(j)
    <3>1. heal'.todo = heal.todo \ {j} /\ heal'.key = j /\ heal'.since = heal.since /\ j \in heal.todo
      BY <2>2 DEF HealPicks, HealNext, TypeOK, HealOK
    <3>. QED
      BY <3>1
  <2>. QED
    BY <1>4, <2>1, <2>2
<1>5. ASSUME HealTries \/ HealFails \/ HealStores
      PROVE  (k \in heal.todo \/ heal.key = k) /\ heal'.since = heal.since
  <2>1. CASE HealTries
    <3>1. heal'.todo = heal.todo /\ heal'.key = heal.key /\ heal'.since = heal.since
      BY <2>1 DEF HealTries, TypeOK, HealOK
    <3>. QED
      BY <3>1
  <2>2. CASE HealFails
    <3>1. heal'.todo = heal.todo /\ heal'.key = None /\ heal'.since = heal.since
      BY <2>2 DEF HealFails, TypeOK, HealOK
    <3>. QED
      BY <3>1, Constants
  <2>3. CASE HealStores
    <3>1. heal'.todo = heal.todo /\ heal'.key = None /\ heal'.since = heal.since
      BY <2>3 DEF HealStores, TypeOK, HealOK
    <3>. QED
      BY <3>1, Constants
  <2>. QED
    BY <1>5, <2>1, <2>2, <2>3
<1>6. ASSUME heal' = heal PROVE (k \in heal.todo \/ heal.key = k) /\ heal'.since = heal.since
  BY <1>6
<1>. QED
  BY <1>1, <1>2, <1>3, <1>4, <1>5, <1>6
     DEF Next, vars, Asking, Healing, Tick, ApiRecovers, Ask, AskFails, AskAnswered, Purge

LEMMA PassToldStep ==
  ASSUME TypeOK, TypeOK', PassOK, PassTold, [Next]_vars, ~Purge
  PROVE  PassTold'
<1> SUFFICES ASSUME NEW k \in Keys, k \in heal'.todo \/ heal'.key = k, asker'.key # k
             PROVE  Told(k, heal.since)' \/ Covered(k, heal.since + Pass + RETRY)'
  BY DEF PassTold
<1>1. now \in Nat /\ heal.since \in 0..now /\ heal'.since \in 0..now' /\ {Pass, RETRY} \subseteq Nat
  BY Windows DEF TypeOK, HealOK
<1>2. ASSUME NEW t \in Int, t = heal'.since, Told(k, t)' \/ Covered(k, t + Pass + RETRY)'
      PROVE  Told(k, heal.since)' \/ Covered(k, heal.since + Pass + RETRY)'
  BY <1>2 DEF Told, Covered, HasFiller
<1>3. CASE asker.key = k
  <2>1. PICK t \in Int : t = heal'.since
    BY <1>1
  <2>2. ~Restart
    <3>1. Resting.todo = {} /\ Resting.key = None
      BY DEF Resting
    <3>. QED
      BY <3>1, Constants DEF Restart
  <2>3. (AskFails \/ AskAnswered) /\ now' = now
    BY <1>3, <2>2, AskEnds DEF AskFails, AskAnswered
  <2>4. t + Pass + RETRY \in Int /\ t + Pass + RETRY <= now + Pass + RETRY
    BY <1>1, <2>1, <2>3
  <2>. QED
    BY <1>2, <1>3, <2>1, <2>3, <2>4, AskEndsCovered
<1>4. ASSUME asker.key # k, k \in heal.todo \/ heal.key = k, heal'.since = heal.since
      PROVE  Told(k, heal.since)' \/ Covered(k, heal.since + Pass + RETRY)'
  <2>1. PICK t \in Int : t = heal.since
    BY <1>1
  <2>2. Told(k, t) \/ Covered(k, t + Pass + RETRY)
    BY <1>4, <2>1 DEF PassTold
  <2>3. t + Pass + RETRY \in Int /\ t + Pass + RETRY <= now + Pass + RETRY
    BY <1>1, <2>1
  <2>4. t <= t /\ t + Pass + RETRY <= t + Pass + RETRY
    BY <2>3
  <2>5. Told(k, t)' \/ Covered(k, t + Pass + RETRY)'
    BY <2>2, <2>3, <2>4, KeyKept
  <2>. QED
    BY <1>2, <1>4, <2>1, <2>5
<1>5. ASSUME NEW t \in Int, t <= now, t = heal'.since, HasFiller(k, LiveAt(t)), HealStart \/ HealTurns
      PROVE  Told(k, heal.since)' \/ Covered(k, heal.since + Pass + RETRY)'
  <2>1. HourOf(t) \in Int /\ Hour \in Int /\ HourOf(t) <= Hour
    BY <1>1, <1>5, HourOfInt, HourOfMonotone DEF Hour
  <2>2. LiveAt(t) \subseteq (HourOf(t) - LiveBack)..(Hour + LiveAhead)
    BY <2>1, Windows DEF LiveAt
  <2>3. Told(k, t)
    BY <1>5, <2>2 DEF Told, HasFiller
  <2>4. cache' = cache /\ now' = now
    BY <1>5 DEF HealStart, HealTurns
  <2>5. Told(k, t)'
    BY <2>3, <2>4 DEF Told, HasFiller, Hour
  <2>. QED
    BY <1>2, <1>5, <2>5
<1>6. CASE asker.key # k
  <2>1. CASE HealStart /\ HasFiller(k, LiveAt(now)) /\ heal'.since = now
    BY <1>1, <1>5, <2>1
  <2>2. CASE HealTurns /\ HasFiller(k, LiveAt(heal.since)) /\ heal'.since = heal.since
    BY <1>1, <1>5, <2>2
  <2>. QED
    BY <1>4, <1>6, <2>1, <2>2, PassKeys
<1>. QED
  BY <1>3, <1>6

(***************************************************************************)
(* A key nobody asks for fails only in the hands of the ticker; else its   *)
(* cooldown is the one it had.                                             *)
(***************************************************************************)
LEMMA CooldownFrom ==
  ASSUME TypeOK, [Next]_vars, NEW k \in Keys, asker.key # k, asker'.key # k, failed'[k] # None
  PROVE  \/ heal.key = k /\ retry'[k] = now /\ now' = now /\ cache' = cache /\ heal.pc # "off"
         \/ failed[k] # None /\ retry'[k] = retry[k]
<1>1. ASSUME NEW j \in Keys, NEW h \in Asked, Ask(j, h) PROVE failed[k] # None /\ retry'[k] = retry[k]
  BY <1>1 DEF Ask, TypeOK, CooldownOK
<1>2. ASSUME AskFails \/ AskAnswered PROVE failed[k] # None /\ retry'[k] = retry[k]
  <2>1. CASE AskFails
    BY <2>1 DEF AskFails, NoteFailure, TypeOK, CooldownOK
  <2>2. CASE AskAnswered
    BY <2>2 DEF AskAnswered, NoteFailure, TypeOK, CooldownOK
  <2>. QED
    BY <1>2, <2>1, <2>2
<1>3. ~Restart
  BY DEF Restart
<1>4. CASE HealTries
  BY <1>4 DEF HealTries, TypeOK, CooldownOK, HealOK
<1>5. CASE HealFails
  BY <1>5 DEF HealFails, NoteFailure, TypeOK, CooldownOK, HealOK
<1>6. CASE HealStores
  BY <1>6 DEF HealStores, TypeOK, CooldownOK, HealOK
<1>7. ASSUME failed' = failed, retry' = retry PROVE failed[k] # None /\ retry'[k] = retry[k]
  BY <1>7
<1>. QED
  BY <1>1, <1>2, <1>3, <1>4, <1>5, <1>6, <1>7
     DEF Next, vars, Asking, Healing, Tick, ApiRecovers, HealStart, HealTurns, HealEnds, HealSkips, HealPicks, Purge

LEMMA CooldownToldStep ==
  ASSUME TypeOK, TypeOK', PassOK, PassTold, CooldownTold, [Next]_vars, ~Purge
  PROVE  CooldownTold'
<1> SUFFICES ASSUME NEW k \in Keys, failed'[k] # None, asker'.key # k
             PROVE  Told(k, retry[k] - Pass)' \/ Covered(k, retry[k] + RETRY - 1)'
  BY DEF CooldownTold
<1>1. now \in Nat /\ now' \in Nat /\ heal.since \in 0..now /\ {Pass, RETRY} \subseteq Nat /\ RETRY >= 1
  BY Windows DEF TypeOK, HealOK
<1>2. PICK r \in Int : r = retry'[k] /\ r <= now'
  BY <1>1, Constants DEF TypeOK, CooldownOK
<1>3. SUFFICES Told(k, r - Pass)' \/ Covered(k, r + RETRY - 1)'
  BY <1>2 DEF Told, Covered, HasFiller
<1>4. CASE asker.key = k
  <2>1. ~Restart
    BY DEF Restart
  <2>2. (AskFails \/ AskAnswered) /\ now' = now
    BY <1>4, <2>1, AskEnds DEF AskFails, AskAnswered
  <2>3. r + RETRY - 1 \in Int /\ r + RETRY - 1 <= now + Pass + RETRY
    BY <1>1, <1>2, <2>2
  <2>. QED
    BY <1>4, <2>2, <2>3, AskEndsCovered
<1>5. CASE asker.key # k /\ heal.key = k /\ retry'[k] = now /\ now' = now /\ cache' = cache /\ heal.pc # "off"
  <2>1. PICK t \in Int : t = heal.since
    BY <1>1
  <2>2. Told(k, t) \/ Covered(k, t + Pass + RETRY)
    BY <1>5, <2>1 DEF PassTold
  <2>3. r - Pass <= t /\ r + RETRY - 1 <= t + Pass + RETRY
    BY <1>1, <1>2, <1>5, <2>1 DEF PassOK
  <2>4. /\ r - Pass \in Int /\ r + RETRY - 1 \in Int /\ t + Pass + RETRY \in Int
        /\ now <= now' /\ cache'[k] = cache[k]
    BY <1>1, <1>2, <1>5, <2>1
  <2>. QED
    BY <1>1, <2>2, <2>3, <2>4, ToldLater, CoveredLater
<1>6. CASE asker.key # k /\ failed[k] # None /\ retry'[k] = retry[k]
  <2>1. Told(k, r - Pass) \/ Covered(k, r + RETRY - 1)
    BY <1>2, <1>6 DEF CooldownTold
  <2>2. r <= now
    BY <1>2, <1>6, Constants DEF TypeOK, CooldownOK
  <2>3. /\ r - Pass \in Int /\ r + RETRY - 1 \in Int /\ r + RETRY - 1 <= now + Pass + RETRY
        /\ r - Pass <= r - Pass /\ r + RETRY - 1 <= r + RETRY - 1
    BY <1>1, <1>2, <2>2
  <2>. QED
    BY <2>1, <2>3, KeyKept
<1>. QED
  BY <1>4, <1>5, <1>6, CooldownFrom

LEMMA HealthInvStep == HealthInv /\ [Next]_vars => HealthInv'
<1> SUFFICES ASSUME HealthInv, [Next]_vars PROVE HealthInv'
  OBVIOUS
<1>1. TypeOK /\ TypeOK' /\ PassOK
  BY StepTypeOK DEF HealthInv
<1>2. PassOK'
  BY <1>1, PassStep
<1>3. purges' = 0 => purges = 0 /\ ~Purge
  <2>1. purges' = purges \/ Purge
    BY DEF Next, vars, Asking, Healing, Tick, ApiRecovers, Ask, AskFails, AskAnswered, HealStart, HealTurns,
           HealEnds, HealTries, HealFails, HealStores, HealSkips, HealPicks, Restart
  <2>2. Purge => purges' = purges + 1
    BY DEF Purge
  <2>. QED
    BY <1>1, <2>1, <2>2 DEF TypeOK
<1>4. purges' = 0 => CooldownTold' /\ PassTold'
  BY <1>1, <1>3, PassToldStep, CooldownToldStep DEF HealthInv
<1>. QED
  BY <1>1, <1>2, <1>4 DEF HealthInv

LEMMA InitHealthInv == Init => HealthInv
<1> SUFFICES ASSUME Init PROVE HealthInv
  OBVIOUS
<1>1. TypeOK
  BY InitTypeOK
<1>2. heal.pc = "off" /\ heal.todo = {} /\ heal.key = None
  BY DEF Init, Resting
<1>3. \A k \in Keys : failed[k] = None /\ k # None
  BY Constants DEF Init
<1>. QED
  BY <1>1, <1>2, <1>3 DEF HealthInv, PassOK, CooldownTold, PassTold

(***************************************************************************)
(* From the invariant: a boat that is given placeholders for this hour     *)
(* either finds them within an hour ahead, which the live window sees, or  *)
(* has no rows, and then the key is on a cooldown that began with          *)
(* placeholders in the window.                                             *)
(***************************************************************************)
LEMMA Honest == HealthInv => HonestTillPurged
<1> SUFFICES ASSUME HealthInv, purges = 0, asker = Nobody, NEW k \in WindCells, GivesFiller(k, Hour)
             PROVE  Degraded \/ Outlived(k)
  BY DEF HealthInv, HonestTillPurged, HealthHonest
<1>1. /\ k \in Keys /\ now \in Nat /\ Hour \in Int /\ asker.key # k
      /\ {Pass, RETRY, LiveBack, LiveAhead} \subseteq Nat /\ LiveAhead >= 1
  BY Windows, HourOfInt, Constants DEF HealthInv, TypeOK, Keys, Hour, Nobody
<1> DEFINE have == {Hour, Hour + 1} \cap DOMAIN cache[k]
<1>2. CASE have # {}
  <2>1. HasFiller(k, {Hour, Hour + 1})
    BY <1>2 DEF GivesFiller, HasFiller
  <2>2. {Hour, Hour + 1} \subseteq Live
    BY <1>1 DEF Live, LiveAt, Hour
  <2>. QED
    BY <2>1, <2>2 DEF HasFiller, Degraded
<1>3. CASE have = {}
  <2>1. failed[k] # None /\ ~Due(k)
    BY <1>1, <1>3 DEF GivesFiller, Fetches, Missing, Gated, HasFiller
  <2>2. PICK r \in Int : r = retry[k] /\ now - r < RETRY
    BY <1>1, <2>1, Constants DEF Due, HealthInv, TypeOK, CooldownOK
  <2>3. Told(k, r - Pass) \/ Covered(k, r + RETRY - 1)
    BY <1>1, <2>1, <2>2 DEF HealthInv, CooldownTold
  <2>4. ~Covered(k, r + RETRY - 1)
    <3>1. now <= r + RETRY - 1 /\ r + RETRY - 1 \in Int
      BY <1>1, <2>2
    <3>2. HourOf(r + RETRY - 1) \in Int /\ Hour <= HourOf(r + RETRY - 1)
      BY <1>1, <3>1, HourOfInt, HourOfMonotone DEF Hour
    <3>3. Hour \in Hour..HourOf(r + RETRY - 1)
      BY <1>1, <3>2
    <3>. QED
      BY <1>3, <3>3 DEF Covered
  <2>5. PICK h \in (HourOf(r - Pass) - LiveBack)..(Hour + LiveAhead) : h \in DOMAIN cache[k] /\ cache[k][h] = "filler"
    BY <2>3, <2>4 DEF Told, HasFiller
  <2>6. /\ HourOf(now - RETRY - Pass) \in Int /\ HourOf(r - Pass) \in Int
        /\ HourOf(now - RETRY - Pass) <= HourOf(r - Pass)
    BY <1>1, <2>2, HourOfInt, HourOfMonotone
  <2>7. CASE h >= Hour - LiveBack
    <3>1. h \in Live
      BY <1>1, <2>5, <2>6, <2>7 DEF Live, LiveAt, Hour
    <3>. QED
      BY <2>5, <3>1 DEF HasFiller, Degraded
  <2>8. CASE h < Hour - LiveBack
    <3>1. h \in (HourOf(now - RETRY - Pass) - LiveBack)..(Hour - LiveBack - 1)
      BY <1>1, <2>5, <2>6, <2>8
    <3>. QED
      BY <1>3, <2>5, <3>1 DEF HasFiller, Outlived
  <2>. QED
    BY <1>1, <2>5, <2>6, <2>7, <2>8
<1>. QED
  BY <1>2, <1>3

(***************************************************************************)
(* While nobody has run the script, no boat is given placeholder wind for  *)
(* this hour unless the race is told or the placeholders have just left    *)
(* the live window.                                                        *)
(***************************************************************************)
THEOREM HealthIsHonest == Spec => []HonestTillPurged
BY InitHealthInv, HealthInvStep, Honest, PTL DEF Spec
=============================================================================
