------------------------------- MODULE AisFeed -------------------------------
(***************************************************************************)
(* The AIS feed of one race (vn/ais.py): a thread that listens to          *)
(* aisstream.io in sessions of five minutes, matches each vessel heard to  *)
(* a boat of the roster and stores its fixes.  What it knows of the roster *)
(* is what it read when the session began; scripts/set_mmsi.py, another    *)
(* process, changes the roster meanwhile.                                  *)
(*                                                                         *)
(* Names are left out: Matches says which roster entries a vessel's        *)
(* broadcast name fits.  What a fix does to a boat's race is RealFleet's   *)
(* matter; here a fix is its time and the vessel it came from.             *)
(***************************************************************************)
EXTENDS Integers, FiniteSets, Null

CONSTANTS
  RealBoats,   \* real_boats.id, in roster order
  Vessels,     \* MMSIs heard in the race's box
  Sailing,     \* those of an AIS type in SAILING_TYPES
  Matches,     \* the roster entries a vessel's name fits
  Gap,         \* MIN_POINT_GAP
  LastTime,    \* the clock stops here (bound)
  MaxScripts, MaxRestarts \* runs of the script, restarts (bounds)

AisGiven ==
  /\ RealBoats \subseteq Nat
  /\ \A S \in SUBSET RealBoats : S # {} => \E b \in S : \A c \in S : c <= b \* finitely many
  /\ Sailing \subseteq Vessels
  /\ Matches \in [Vessels -> SUBSET RealBoats]
  /\ Gap \in Nat /\ LastTime \in Nat /\ MaxScripts \in Nat /\ MaxRestarts \in Nat
  /\ None \notin Vessels \cup RealBoats

ASSUME AisFeedAssumption == AisGiven

VARIABLES
  mmsi,      \* real_boats.mmsi
  heard,     \* real_track: time -> the vessel the fix came from
  over,      \* races.results_at is set
  roster,    \* self.rosters: by_mmsi and unbound; connected or not
  types,     \* self.types: vessels whose static report has been heard
  last,      \* self.last_pt
  point,     \* the fix being stored
  script,    \* set_mmsi.py between its SELECT and its UPDATEs
  now, scripts, restarts,
  fresh      \* no script has committed since the roster was read (history)

feedVars == <<roster, types, last, point>>
aisVars ==
  <<mmsi, heard, over, roster, types, last, point, script, now, scripts, restarts, fresh>>

NoRoster == [on |-> FALSE, by |-> <<>>, unbound |-> {}]
NoPoint  == [boat |-> None, vessel |-> None, t |-> 0]
NoScript == [boat |-> None, to |-> None, other |-> FALSE]

AisInit ==
  /\ mmsi = [b \in RealBoats |-> None] /\ heard = [b \in RealBoats |-> <<>>]
  /\ over = FALSE
  /\ roster = NoRoster /\ types = {} /\ last = [b \in RealBoats |-> 0] /\ point = NoPoint
  /\ script = NoScript /\ now = 1 /\ scripts = 0 /\ restarts = 0 /\ fresh = TRUE

AisClock == /\ now < LastTime /\ now' = now + 1
            /\ UNCHANGED <<mmsi, heard, over, feedVars, script, scripts, restarts, fresh>>

\* The official results: the race is over, for the sessions to come.
ResultsIn == /\ ~over /\ over' = TRUE
             /\ UNCHANGED <<mmsi, heard, feedVars, script, now, scripts, restarts, fresh>>

-----------------------------------------------------------------------------
(***************************************************************************)
(* A session                                                               *)
(***************************************************************************)
Bound == {b \in RealBoats : mmsi[b] # None}

\* Slip: a session begins with nobody bound.
RosterForgets == [on |-> TRUE, by |-> <<>>, unbound |-> RealBoats \ Bound]

\* _load_roster: of two boats with one MMSI the last read is kept.
Roster ==
  [on      |-> TRUE,
   by      |-> [v \in {mmsi[b] : b \in Bound} |->
                  CHOOSE b \in Bound : mmsi[b] = v /\ \A c \in Bound : mmsi[c] = v => c <= b],
   unbound |-> RealBoats \ Bound]

Connect ==
  /\ ~roster.on /\ ~over
  /\ roster' = Roster /\ fresh' = TRUE
  /\ UNCHANGED <<mmsi, heard, over, types, last, point, script, now, scripts, restarts>>

\* Five minutes are over, or the socket fails.
SessionEnds ==
  /\ roster.on /\ point = NoPoint
  /\ roster' = [roster EXCEPT !.on = FALSE]
  /\ UNCHANGED <<mmsi, heard, over, types, last, point, script, now, scripts, restarts, fresh>>

StaticReport(v) ==
  /\ roster.on /\ point = NoPoint
  /\ types' = types \cup {v}
  /\ UNCHANGED <<mmsi, heard, over, roster, last, point, script, now, scripts, restarts, fresh>>

-----------------------------------------------------------------------------
(***************************************************************************)
(* A position report: _boat_for and _handle                                *)
(***************************************************************************)
\* Slip: no vessel is taken for a yacht before its type is known.
FitsKnown(v) == {b \in roster.unbound : b \in Matches[v] /\ v \in types \cap Sailing}

\* The free roster entries a vessel may be bound to.
Fits(v) == {b \in roster.unbound : b \in Matches[v] /\ (v \in types => v \in Sailing)}

Spaced(b, t) == t - last[b] >= Gap

\* The fix is stored unless it comes too soon after the last, or before it.
Take(b, v, t) ==
  IF Spaced(b, t) THEN /\ last' = [last EXCEPT ![b] = t]
                       /\ point' = [boat |-> b, vessel |-> v, t |-> t]
                  ELSE UNCHANGED <<last, point>>

ReportKnown(v, t) ==
  /\ roster.on /\ point = NoPoint /\ v \in DOMAIN roster.by
  /\ Take(roster.by[v], v, t)
  /\ UNCHANGED <<mmsi, heard, over, roster, types, script, now, scripts, restarts, fresh>>

\* Slip: the binding is written whatever the row says.
BindOver(b, v) == mmsi' = [mmsi EXCEPT ![b] = v]

\* UPDATE ... WHERE id=? AND mmsi IS NULL.
Bind(b, v) == mmsi' = [mmsi EXCEPT ![b] = IF @ = None THEN v ELSE @]

\* Under way and near the course, the first entry of its name is bound to it.
ReportNew(v, t) ==
  /\ roster.on /\ point = NoPoint /\ v \notin DOMAIN roster.by
  /\ \E b \in Fits(v) :
       /\ \A c \in Fits(v) : b <= c
       /\ Bind(b, v)
       /\ roster' = [roster EXCEPT !.unbound = @ \ {b},
                                   !.by = [u \in DOMAIN @ \cup {v} |-> IF u = v THEN b ELSE @[u]]]
       /\ Take(b, v, t)
  /\ UNCHANGED <<heard, over, types, script, now, scripts, restarts, fresh>>

\* ingest_points: INSERT OR IGNORE.
StoreFix ==
  /\ point # NoPoint
  /\ LET b == point.boat
     IN heard' = [heard EXCEPT ![b] = [t \in DOMAIN @ \cup {point.t} |->
                                         IF t \in DOMAIN @ THEN @[t] ELSE point.vessel]]
  /\ point' = NoPoint
  /\ UNCHANGED <<mmsi, over, roster, types, last, script, now, scripts, restarts, fresh>>

-----------------------------------------------------------------------------
(***************************************************************************)
(* scripts/set_mmsi.py: binds a boat by hand, or frees it, and takes the   *)
(* vessel off the boat that has it; with --wipe the boat's track goes too. *)
(***************************************************************************)
ScriptReads ==
  /\ scripts < MaxScripts /\ script = NoScript
  /\ scripts' = scripts + 1
  /\ \E b \in RealBoats, v \in Vessels \cup {None} :
       script' = [boat |-> b, to |-> v, other |-> v # None /\ \E c \in RealBoats \ {b} : mmsi[c] = v]
  /\ UNCHANGED <<mmsi, heard, over, feedVars, now, restarts, fresh>>

ScriptWrites ==
  /\ script # NoScript
  /\ mmsi' = [b \in RealBoats |-> IF b = script.boat THEN script.to
                                  ELSE IF script.other /\ mmsi[b] = script.to THEN None
                                  ELSE mmsi[b]]
  /\ \/ UNCHANGED heard
     \/ heard' = [heard EXCEPT ![script.boat] = <<>>]
  /\ script' = NoScript /\ fresh' = FALSE
  /\ UNCHANGED <<over, feedVars, now, scripts, restarts>>

Restart ==
  /\ restarts < MaxRestarts /\ restarts' = restarts + 1
  /\ roster' = NoRoster /\ types' = {} /\ last' = [b \in RealBoats |-> 0] /\ point' = NoPoint
  /\ UNCHANGED <<mmsi, heard, over, script, now, scripts, fresh>>

Report(v) == \E t \in 1..now : ReportKnown(v, t) \/ ReportNew(v, t)

AisNext ==
  \/ AisClock \/ ResultsIn \/ Connect \/ SessionEnds \/ StoreFix
  \/ ScriptReads \/ ScriptWrites \/ Restart
  \/ \E v \in Vessels : StaticReport(v) \/ Report(v)

AisSpec == AisInit /\ [][AisNext]_aisVars

\* The feed reconnects, stores and ends its sessions; a vessel under way is
\* heard again and again.
AisFairSpec ==
  /\ AisSpec /\ WF_aisVars(Connect) /\ WF_aisVars(StoreFix) /\ SF_aisVars(SessionEnds)
  /\ \A v \in Vessels : SF_aisVars(Report(v))
-----------------------------------------------------------------------------
FeedOK ==
  /\ roster \in [on : BOOLEAN, by : UNION {[S -> RealBoats] : S \in SUBSET Vessels},
                 unbound : SUBSET RealBoats]
  /\ \A v \in DOMAIN roster.by : roster.by[v] \notin roster.unbound
  /\ types \subseteq Vessels /\ last \in [RealBoats -> 0..now]
  /\ point # NoPoint => point \in [boat : RealBoats, vessel : Vessels, t : 1..now]

RowsOK ==
  /\ now \in Nat /\ mmsi \in [RealBoats -> Vessels \cup {None}]
  /\ heard \in [RealBoats -> UNION {[S -> Vessels] : S \in SUBSET (1..now)}]

ScriptOK ==
  /\ scripts \in Nat /\ restarts \in Nat
  /\ script \in [boat : RealBoats \cup {None}, to : Vessels \cup {None}, other : BOOLEAN]

AisTypeOK == FeedOK /\ RowsOK /\ ScriptOK /\ over \in BOOLEAN /\ fresh \in BOOLEAN

(***************************************************************************)
(* The feed keeps to what is on record.  "scripts/set_mmsi.py overrides a  *)
(* wrong or missing match": a binding is never changed by the feed, even   *)
(* one made by hand while the feed takes the boat for unbound.  A fix goes *)
(* to the boat its vessel is bound to: what the committee changes reaches  *)
(* the feed with the next session, so this holds of every session that no  *)
(* script has interfered with.                                             *)
(***************************************************************************)
KeepsToRecord ==
  [][/\ script' = script => \A b \in RealBoats : mmsi[b] # None => mmsi'[b] = mmsi[b]
     /\ fresh /\ point' \notin {point, NoPoint} => mmsi'[point'.boat] = point'.vessel]_aisVars

(***************************************************************************)
(* One transponder is on one boat: the feed by itself never gives a vessel *)
(* to two boats, over any number of sessions and restarts; and "at most    *)
(* one a minute per boat": no two stored fixes of a boat are closer, in    *)
(* whatever order the reports come (a restart forgets the last).           *)
(***************************************************************************)
OneBoatPerVessel ==
  /\ AisTypeOK
  /\ scripts = 0 => \A b, c \in RealBoats : mmsi[b] = mmsi[c] /\ mmsi[b] # None => b = c
  /\ restarts = 0 => \A b \in RealBoats : \A t, u \in DOMAIN heard[b] : t < u => u - t >= Gap

(***************************************************************************)
(* A vessel under way does not go unmatched for ever while a roster entry  *)
(* of its name is free, whether or not it broadcasts its type.             *)
(***************************************************************************)
Matched ==
  \A v \in Sailing :
    <>[](over \/ (\E b \in RealBoats : mmsi[b] = v) \/ \A b \in Matches[v] : mmsi[b] # None)
=============================================================================
