----------------------------- MODULE LiveFleet -----------------------------
(***************************************************************************)
(* What an open race page shows of the boats' tracks: the rows, written by *)
(* the ticker, the feeds, requests and scripts; the copy of the state the  *)
(* server keeps for a minute (app.py, _state_cache); and the page, which   *)
(* asks for everything now and then, for newer fixes otherwise, and merges *)
(* (race.html, refresh and mergeTracks).  Polls overlap, answers come in   *)
(* any order and get lost.                                                 *)
(*                                                                         *)
(* A fix is the voyage it belongs to and its time: restart_boat begins a   *)
(* new voyage, with new fixes at the old times.  Tracks are shorter than   *)
(* what the server and the page thin them to.                              *)
(***************************************************************************)
EXTENDS Integers, FiniteSets, Sequences, Null

CONSTANTS
  Virtual,     \* boats.id of the virtual boats
  Real,        \* real_boats.id of the tracked ones
  MaxT,        \* fixes bear the times 1..MaxT (bound)
  Polls,       \* the polls a page may have under way at once (bound)
  Setups,      \* which boats and polls there are, how many restarts and how
               \* many answers that get lost (bounds)
  CacheSeconds,\* STATE_CACHE_SECONDS, in steps of the clock
  FullEvery,   \* every so many polls the page asks for everything, race.html: 15
  MaxVoyages   \* of one boat (bound)

Boats  == Virtual \cup Real
Times  == 1..MaxT
Fixes  == (1..MaxVoyages) \X Times

LiveFleetGiven ==
  /\ Virtual \cap Real = {} /\ IsFiniteSet(Boats)
  /\ MaxT \in Nat /\ CacheSeconds \in Nat \ {0} /\ FullEvery \in Nat \ {0}
  /\ Setups \subseteq [boats : SUBSET Boats, polls : SUBSET Polls, restarts : Nat, lost : Nat]
  /\ MaxVoyages \in Nat \ {0} /\ None \notin Int

ASSUME LiveFleetAssumption == LiveFleetGiven

VARIABLES
  voyage,  \* boat -> which voyage its rows are of, 0: not entered
  track,   \* boat -> the times of its fixes
  pending, \* writers that have committed and not dropped the copy yet
  cache,   \* _state_cache[race_id]
  polls,   \* the polls under way
  page,    \* race.html: tracks, polls, wantFull
  left     \* restarts and losses still to come

rows == <<voyage, track>>
vars == <<voyage, track, pending, cache, polls, page, left>>

NoCopy == [kept |-> FALSE, age |-> 0, entries |-> <<>>, crossed |-> FALSE]

Quiet == [pc |-> "idle", since |-> None, tracks |-> <<>>, entries |-> <<>>, crossed |-> FALSE]

Init ==
  \E setup \in Setups :
    /\ voyage = [b \in setup.boats |-> IF b \in Real THEN 1 ELSE 0]
    /\ track = [b \in setup.boats |-> {}]
    /\ pending = {} /\ cache = NoCopy
    /\ polls = [q \in setup.polls |-> Quiet]
    /\ page = [tracks |-> <<>>, count |-> 0, wantFull |-> TRUE]
    /\ left = [restarts |-> setup.restarts, lost |-> setup.lost]

Entered == {b \in DOMAIN voyage : voyage[b] > 0}

-----------------------------------------------------------------------------
(***************************************************************************)
(* The writers.                                                            *)
(***************************************************************************)
\* catch_up_race commits a boat's new fixes, any number of them.
Tick ==
  /\ "ticker" \notin pending
  /\ \E b \in Virtual \cap Entered : \E until \in Times :
       /\ \A t \in track[b] : t < until
       /\ track' = [track EXCEPT ![b] = 1..until]
  /\ pending' = pending \cup {"ticker"}
  /\ UNCHANGED <<voyage, cache, polls, page, left>>

\* ingest_points, from the AIS feed or a poll of YB: late fixes too.
RealFix ==
  /\ \E rb \in Real \cap Entered : \E t \in Times \ track[rb] : track' = [track EXCEPT ![rb] = @ \cup {t}]
  /\ UNCHANGED <<voyage, pending, cache, polls, page, left>>

\* register_boat.
Enters ==
  /\ "request" \notin pending
  /\ \E b \in DOMAIN voyage : voyage[b] = 0 /\ voyage' = [voyage EXCEPT ![b] = 1]
  /\ pending' = pending \cup {"request"}
  /\ UNCHANGED <<track, cache, polls, page, left>>

\* restart_boat.py: another process, which cannot drop the server's copy.
Restarts ==
  /\ left.restarts > 0 /\ left' = [left EXCEPT !.restarts = @ - 1]
  /\ \E b \in Virtual \cap Entered :
       /\ voyage[b] < MaxVoyages
       /\ voyage' = [voyage EXCEPT ![b] = @ + 1]
       /\ track' = [track EXCEPT ![b] = {}]
  /\ UNCHANGED <<pending, cache, polls, page>>

Building(q) == polls[q].pc \in {"meta", "store"}

\* Slip: what is dropped is only looked at.
InvalidateNothing ==
  /\ \E w \in pending : pending' = pending \ {w}
  /\ UNCHANGED <<rows, cache, polls, page, left>>

Invalidate ==
  /\ \E w \in pending : pending' = pending \ {w}
  /\ cache' = NoCopy
  /\ polls' = [q \in DOMAIN polls |-> [polls[q] EXCEPT !.crossed = Building(q)]]
  /\ UNCHANGED <<rows, page, left>>

Clock ==
  /\ cache.kept /\ cache.age < CacheSeconds
  /\ cache' = [cache EXCEPT !.age = @ + 1]
  /\ UNCHANGED <<rows, pending, polls, page, left>>

-----------------------------------------------------------------------------
(***************************************************************************)
(* GET state: the tracks are read first, then the number and the time of   *)
(* the last fix of each boat, each in a statement of its own.              *)
(***************************************************************************)
\* The elements of s with an index in keep, in the order they have in s.
Filtered(s, keep) ==
  LET upto[i \in 0..Len(s)] == IF i = 0 THEN <<>>
                               ELSE IF i \in keep THEN Append(upto[i - 1], s[i]) ELSE upto[i - 1]
  IN upto[Len(s)]

FixesOf(b, since) ==
  Filtered([t \in Times |-> <<voyage[b], t>>], {t \in track[b] : since = None \/ t > since})

LastT(b) == IF track[b] = {} THEN None ELSE CHOOSE t \in track[b] : \A u \in track[b] : u <= t

Hit(q) == polls[q].since = None /\ cache.kept /\ cache.age < CacheSeconds

Lookup(q) ==
  /\ polls[q].pc = "sent"
  /\ polls' = [polls EXCEPT ![q] =
       IF Hit(q) THEN [@ EXCEPT !.pc = "answered", !.entries = cache.entries]
       ELSE [@ EXCEPT !.pc = "meta", !.tracks = [b \in Entered |-> FixesOf(b, polls[q].since)]]]
  /\ UNCHANGED <<rows, pending, cache, page, left>>

Meta(q) ==
  /\ polls[q].pc = "meta"
  /\ polls' = [polls EXCEPT ![q] = [@ EXCEPT !.pc = "store", !.tracks = <<>>, !.entries =
       [b \in Entered |->
          [fixes |-> IF b \in DOMAIN polls[q].tracks THEN polls[q].tracks[b] ELSE <<>>,
           n |-> Cardinality(track[b]), last |-> LastT(b)]]]]
  /\ UNCHANGED <<rows, pending, cache, page, left>>

Store(q) ==
  /\ polls[q].pc = "store"
  /\ polls' = [polls EXCEPT ![q].pc = "answered", ![q].crossed = FALSE]
  /\ cache' = IF polls[q].since # None THEN cache
              ELSE [kept |-> TRUE, age |-> 0, entries |-> polls[q].entries,
                    crossed |-> polls[q].crossed]
  /\ UNCHANGED <<rows, pending, page, left>>

-----------------------------------------------------------------------------
(***************************************************************************)
(* The page.                                                               *)
(***************************************************************************)
Known == {page.tracks[b].last : b \in {x \in DOMAIN page.tracks : page.tracks[x].last # None}}

\* Slip: only the first poll and those asked for bring everything.
FullNever == page.wantFull \/ Known = {}

Full == page.wantFull \/ Known = {} \/ page.count = 0

Asks(q) ==
  /\ polls[q].pc = "idle"
  /\ polls' = [polls EXCEPT ![q].pc = "sent", ![q].since =
       IF Full THEN None ELSE CHOOSE t \in Known : \A u \in Known : t <= u]
  /\ page' = [page EXCEPT !.count = (@ + 1) % FullEvery, !.wantFull = FALSE]
  /\ UNCHANGED <<rows, pending, cache, left>>

\* Slip: what comes is what is new.
NewerAll(e, k) == e.fixes

\* What is after the last fix the page has.
Newer(e, k) == Filtered(e.fixes, {i \in DOMAIN e.fixes : k.last = None \/ e.fixes[i][2] > k.last})

AsSent(e) == [pts |-> e.fixes, last |-> e.last, n |-> e.n]

Extended(e, k) ==
  IF Newer(e, k) = <<>> THEN [k EXCEPT !.n = e.n]
  ELSE [pts |-> k.pts \o Newer(e, k), last |-> e.last, n |-> e.n]

\* A boat not known yet, or with fewer fixes than it had.
Stranger(b, e) == b \notin DOMAIN page.tracks \/ e.n < page.tracks[b].n

Merges(q) ==
  /\ polls[q].pc = "answered"
  /\ LET es == polls[q].entries
         delta == polls[q].since # None
     IN page' = [page EXCEPT
          !.tracks = [b \in DOMAIN es |-> IF ~delta \/ Stranger(b, es[b]) THEN AsSent(es[b])
                                          ELSE Extended(es[b], page.tracks[b])],
          !.wantFull = @ \/ (delta /\ \E b \in DOMAIN es : Stranger(b, es[b]))]
  /\ polls' = [polls EXCEPT ![q] = Quiet]
  /\ UNCHANGED <<rows, pending, cache, left>>

\* The request fails or its answer is lost: the page shows what it has.
Loses(q) ==
  /\ polls[q].pc \in {"sent", "answered"} /\ left.lost > 0
  /\ left' = [left EXCEPT !.lost = @ - 1]
  /\ polls' = [polls EXCEPT ![q] = Quiet]
  /\ UNCHANGED <<rows, pending, cache, page>>

PollStep(q) == Lookup(q) \/ Meta(q) \/ Store(q) \/ Asks(q) \/ Merges(q)

Next == \/ Tick \/ RealFix \/ Enters \/ Restarts \/ Invalidate \/ Clock
        \/ \E q \in DOMAIN polls : PollStep(q) \/ Loses(q)

Spec == Init /\ [][Next]_vars

\* The page is open and goes on asking; the server answers; writers end.
FairSpec == /\ Spec /\ WF_vars(Invalidate) /\ WF_vars(Clock)
            /\ \A q \in Polls : WF_vars(q \in DOMAIN polls /\ PollStep(q))
-----------------------------------------------------------------------------
TrackOf == [pts : Seq(Fixes), last : Times \cup {None}, n : 0..MaxT]
EntryOf == [fixes : Seq(Fixes), last : Times \cup {None}, n : 0..MaxT]

TypeOK ==
  /\ DOMAIN voyage \subseteq Boats /\ voyage \in [DOMAIN voyage -> 0..MaxVoyages]
  /\ track \in [DOMAIN voyage -> SUBSET Times]
  /\ pending \subseteq {"ticker", "request"} /\ left \in [restarts : Nat, lost : Nat]
  /\ cache.age \in 0..CacheSeconds /\ \A b \in DOMAIN cache.entries : cache.entries[b] \in EntryOf
  /\ \A q \in DOMAIN polls :
       /\ polls[q].since \in Times \cup {None}
       /\ \A b \in DOMAIN polls[q].entries : polls[q].entries[b] \in EntryOf
  /\ page.count \in 0..(FullEvery - 1) /\ page.wantFull \in BOOLEAN
  /\ DOMAIN page.tracks \subseteq Boats
  /\ \A b \in DOMAIN page.tracks : page.tracks[b] \in TrackOf

(***************************************************************************)
(* A track is drawn as one line forward in time: however answers overlap   *)
(* and whichever come late, or, with one poll under way at a time, however *)
(* a boat is restarted, no fix is added twice or behind a later one of the *)
(* same voyage.                                                            *)
(***************************************************************************)
DrawnForward ==
  \A b \in DOMAIN page.tracks : LET pts == page.tracks[b].pts IN
    \A i, j \in DOMAIN pts : i < j /\ pts[i][1] = pts[j][1] => pts[i][2] < pts[j][2]

(***************************************************************************)
(* "The ticker and any write that adds a boat or a route drop the cached   *)
(* copy": the copy has every boat and every virtual fix but those of a     *)
(* writer about to drop it, unless a drop has passed while it was built.   *)
(***************************************************************************)
CopyCurrent ==
  /\ TypeOK
  /\ cache.kept /\ ~cache.crossed /\ pending = {} =>
       \A b \in Virtual \cap Entered : voyage[b] = 1 =>
         b \in DOMAIN cache.entries /\ Len(cache.entries[b].fixes) = Cardinality(track[b])

(***************************************************************************)
(* The page comes to show the tracks as they are once nothing is written   *)
(* any more, whatever fixes came late, whatever answers were lost and      *)
(* however a boat was restarted meanwhile.                                 *)
(***************************************************************************)
Shows == /\ DOMAIN page.tracks = Entered
         /\ \A b \in Entered : page.tracks[b].pts = FixesOf(b, None)

PageCatchesUp == <>[]Shows
=============================================================================
