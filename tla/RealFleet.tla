------------------------------ MODULE RealFleet ------------------------------
(***************************************************************************)
(* One real boat's tracker state (vn/realfleet.py).  Positions come from   *)
(* the YB poller in the ticker, from the AIS feed's thread and from        *)
(* imports by request; each is folded into the real_boats row as it is     *)
(* stored.  The committee's results (vn/results.py) and set_mmsi.py --wipe *)
(* write the same row.                                                     *)
(*                                                                         *)
(* Every writer reads the row before its first write, so what it read may  *)
(* be old by then; from the first write to the commit it is alone.  A      *)
(* place is known by the marks it is close to; speed is left out, and so   *)
(* are fixes from the future, which are dropped unread.                    *)
(***************************************************************************)
EXTENDS Integers, Null

CONSTANTS
  Threads,   \* who writes at a time
  Jobs,      \* what they do: "ingest", "results", "wipe"
  LastFix,   \* fixes bear the times 1..LastFix (bound)
  Places,    \* where a boat is heard
  Near,      \* the marks within mark_radius_nm of each place
  Finish,    \* the last mark; the first to pass is 1
  FinTimes,  \* finish times the committee may publish
  Statuses   \* official_status values: "FIN", and "OUT" for RET, DNF, DNS, DSQ

FixTimes == 1..LastFix

FleetGiven ==
  /\ LastFix \in Nat /\ FinTimes \subseteq Nat /\ Finish \in Nat \ {0}
  /\ Near \in [Places -> SUBSET (1..Finish)]
  /\ Jobs \subseteq {"ingest", "results", "wipe"} /\ Statuses \subseteq {"FIN", "OUT"}
  /\ None \notin Int \cup {"FIN", "OUT"}

ASSUME RealFleetAssumption == FleetGiven

VARIABLES
  sailed,  \* real_track: time -> place
  row,     \* the real_boats row
  th       \* what each thread is doing, and has read

rowVars == <<sailed, row, th>>

Idle == [pc |-> "idle", pts |-> <<>>, row |-> [last |-> None, next |-> 1, fin |-> None,
                                               status |-> None, ofin |-> None]]

RowInit == /\ sailed = <<>>
           /\ row = Idle.row
           /\ th = [t \in Threads |-> Idle]

\* What a source brings at once, by time: any fixes of different times.
Batches == UNION {[ts -> Places] : ts \in (SUBSET FixTimes) \ {{}}}

\* The next mark after a fix at p by a boat that owed mark n.
NextAfter(n, p) == CHOOSE m \in n..(Finish + 1) : m \notin Near[p] /\ (n..(m - 1)) \subseteq Near[p]

(***************************************************************************)
(* _walk, one fix: the marks passed, and the finish unless there is one or *)
(* the committee has spoken.                                               *)
(***************************************************************************)
WalkFix(r, t, p) ==
  LET n == NextAfter(r.next, p)
  IN [r EXCEPT !.last = t, !.next = n,
               !.fin = IF r.next <= Finish /\ n > Finish /\ r.fin = None /\ r.status = None
                       THEN t ELSE @]

\* Fixes are walked in the order of their times, whatever order they come in.
Walk(r, pts) ==
  LET w[t \in 0..LastFix] == IF t = 0 THEN r
                          ELSE IF t \in DOMAIN pts THEN WalkFix(w[t - 1], t, pts[t]) ELSE w[t - 1]
  IN w[LastFix]

\* Slip: the rebuild starts from no finish at all.
RecomputedBare(r, tr) == Walk([r EXCEPT !.last = None, !.next = 1, !.fin = None], tr)

\* recompute: the state over again from the whole track.
Recomputed(r, tr) == Walk([r EXCEPT !.last = None, !.next = 1, !.fin = r.ofin], tr)

\* INSERT OR IGNORE: a fix of a time there is already changes nothing.
Stored(tr, pts) ==
  [t \in DOMAIN tr \cup DOMAIN pts |-> IF t \in DOMAIN tr THEN tr[t] ELSE pts[t]]

-----------------------------------------------------------------------------
Does(t, changes) == th' = [th EXCEPT ![t] = changes]

IngestRead(t) ==
  /\ "ingest" \in Jobs /\ th[t].pc = "idle"
  /\ \E pts \in Batches : Does(t, [pc |-> "ingest", pts |-> pts, row |-> row])
  /\ UNCHANGED <<sailed, row>>

\* Slip: a batch that starts at the last fix is walked on.
BackfillAfter(seen, pts) == seen.last # None /\ \E t \in DOMAIN pts : t < seen.last

\* A batch that does not start after the boat's last fix.
Backfill(seen, pts) == seen.last # None /\ \E t \in DOMAIN pts : t <= seen.last

\* The walk goes on from the row as it was read; its columns are written.
IngestWrite(t) ==
  /\ th[t].pc = "ingest"
  /\ sailed' = Stored(sailed, th[t].pts)
  /\ LET new == IF Backfill(th[t].row, th[t].pts) THEN Recomputed(row, sailed')
                                                  ELSE Walk(th[t].row, th[t].pts)
     IN row' = [row EXCEPT !.last = new.last, !.next = new.next, !.fin = new.fin]
  /\ Does(t, Idle)

(***************************************************************************)
(* apply_results: the committee's finish replaces the tracker's, a         *)
(* non-finish clears it, a finish without a time leaves it.                *)
(***************************************************************************)
Results(t) ==
  /\ "results" \in Jobs /\ th[t].pc = "idle"
  /\ \E s \in Statuses, f \in FinTimes \cup {None} :
       row' = [row EXCEPT !.status = s, !.ofin = f,
                          !.fin = IF s # "FIN" THEN None ELSE IF f # None THEN f ELSE @]
  /\ UNCHANGED <<sailed, th>>

\* set_mmsi.py --wipe: every stored point goes, the boat has not started.
Wipe(t) ==
  /\ "wipe" \in Jobs /\ th[t].pc = "idle"
  /\ sailed' = <<>>
  /\ row' = [row EXCEPT !.last = None, !.next = 1, !.fin = None]
  /\ UNCHANGED th

RowNext == \E t \in Threads : IngestRead(t) \/ IngestWrite(t) \/ Results(t) \/ Wipe(t)

RowSpec == RowInit /\ [][RowNext]_rowVars
-----------------------------------------------------------------------------
Row == [last : FixTimes \cup {None}, next : 1..(Finish + 1),
        fin : FixTimes \cup FinTimes \cup {None}, status : Statuses \cup {None}, ofin : FinTimes \cup {None}]

\* Types, and a last fix that is on the track.
RowTypeOK ==
  /\ DOMAIN sailed \subseteq FixTimes /\ sailed \in [DOMAIN sailed -> Places]
  /\ row \in Row /\ row.last \in DOMAIN sailed \cup {None}
  /\ th \in [Threads -> [pc : {"idle", "ingest"}, pts : Batches \cup {<<>>}, row : Row]]

(***************************************************************************)
(* Folding the fixes in as they come gives what a walk over the whole      *)
(* track in order of time gives, whatever the batches: repeated,           *)
(* overlapping, late.  The reference is stated on the track, not by        *)
(* walking it: mark m is passed once there are fixes at marks 1..m in      *)
(* order, and the finish is at the earliest last one of them.              *)
(* "A fix at the mark neither moves an official finish nor gives a RET or  *)
(* DNS boat one" (_walk): a boat scored out, with no time in the           *)
(* committee's table, has no finish.  With one in the table it gets that   *)
(* time at the next rebuild (recompute).                                   *)
(***************************************************************************)
PassedBy(tr, m, t) ==
  \E at \in [1..m -> {u \in DOMAIN tr : u <= t}] :
    /\ \A i \in 1..m : i \in Near[tr[at[i]]]
    /\ \A i, j \in 1..m : i <= j => at[i] <= at[j]

FinishesAt(tr, t) ==
  t \in DOMAIN tr /\ PassedBy(tr, Finish, t) /\ \A u \in DOMAIN tr : u < t => ~PassedBy(tr, Finish, u)

RowIsWalk ==
  /\ RowTypeOK
  /\ \A t \in DOMAIN sailed : row.last # None /\ t <= row.last
  /\ \A m \in 1..Finish : row.next > m <=> row.last # None /\ PassedBy(sailed, m, row.last)
  /\ row.status = None =>
       IF row.next <= Finish THEN row.fin = None ELSE FinishesAt(sailed, row.fin)
  /\ row.status = "OUT" /\ row.ofin = None => row.fin = None

(***************************************************************************)
(* "Tracker updates never overwrite an official finish" (test_results.py): *)
(* fixes coming in, however late, do not move the finish of a boat the     *)
(* committee has timed.  (The steps of an ingest are those that change th.)*)
(***************************************************************************)
OfficialFinish ==
  [][th' # th /\ row.status = "FIN" /\ row.ofin # None /\ row.fin = row.ofin
       => row'.fin = row.fin]_rowVars
=============================================================================
