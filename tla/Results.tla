------------------------------ MODULE Results ------------------------------
(***************************************************************************)
(* The roster of a race's real fleet and the committee's results: boats    *)
(* are entered one at a time, from scratch sheets (link_ais.py) and from   *)
(* the tracker's team list (link_yb, on a page or the console), and the    *)
(* rows of the committee's table are paired with them by sail number and   *)
(* by name (vn/results.py).  Tables are amended, sheets come again, and    *)
(* requests and scripts take no lock: each is alone from its first write   *)
(* to its commit, and not before.  What fixes and results do to a boat's   *)
(* finish is module RealFleet.                                             *)
(*                                                                         *)
(* A name is its base and, or not, a suffix the AIS rules ignore, all of   *)
(* them shorter than the 20 characters AIS cuts a name at.                 *)
(***************************************************************************)
EXTENDS Integers, FiniteSets, Sequences

CONSTANTS
  Names,      \* <<base>> and <<base, suffix>>
  Sails,      \* sail numbers
  Tables,     \* the tables the committee may publish: sequences of rows
  Rosters,    \* rosters there may be at first, not linked yet: id -> boat
  YbIds,      \* the tracker's ids of teams
  TeamLists,  \* the lists of teams it may give: sequences of a name and an id
  Importers,  \* requests and scripts that import results
  Linkers,    \* those that link the tracker or a scratch sheet
  Days,       \* how often each job may be done in a behaviour (bounds)
  Blank,      \* ''
  None        \* NULL

Jobs == {"amend", "import", "entry", "sheet", "link"}

SailNos == Sails \cup {Blank, None}

Team == [name : Names, yb : YbIds]

ASSUME ResultsAssumption ==
  /\ Blank \notin Sails /\ None \notin Sails \cup {Blank} \cup Int \cup (Int \X Int)
  /\ \A n \in Names : n \in Seq(STRING) /\ Len(n) \in 1..2
  /\ Tables \subseteq Seq([name : Names, sail : Sails \cup {None}])
  /\ Rosters \subseteq Seq([name : Names, sail : SailNos, yb : {None}, shows : {None}])
  /\ \A r \in Rosters : \A i, j \in DOMAIN r : r[i].name = r[j].name => i = j
  /\ Days \subseteq [Jobs -> Nat]
  /\ None \notin YbIds /\ TeamLists \subseteq Seq(Team) \ {<<>>}

VARIABLES
  roster,  \* real_boats.id -> name, sail_no, yb_id, and the row of which import it shows
  table,   \* what the committee publishes now
  slug,    \* races.yb_slug: the teams it had when it was linked, <<>> while it is not set
  given,   \* every team that has ever been linked (history)
  pr,      \* what each process is at, and what it has read
  last,    \* the last import: how manieth, of what table; nothing has touched the roster since
  left     \* how often each job may still be done

tracker == <<slug, given>>

vars == <<roster, table, tracker, pr, last, left>>

Idle == [pc |-> "idle", table |-> <<>>, boats |-> <<>>, first |-> None, crossed |-> FALSE]

Boat(name, sail, yb) == [name |-> name, sail |-> sail, yb |-> yb, shows |-> None]

Init ==
  /\ roster \in Rosters /\ table \in Tables /\ slug = <<>> /\ given = {}
  /\ pr = [p \in Importers \cup Linkers |-> Idle]
  /\ last = [n |-> 0, table |-> <<>>, clean |-> FALSE]
  /\ left \in Days

-----------------------------------------------------------------------------
(***************************************************************************)
(* match_roster.                                                           *)
(***************************************************************************)
Variants(n) == {n, <<n[1]>>}

\* name_matches.
NameMatches(heard, n) == heard \in Variants(n)

\* A suffix may sit on either side.
Alike(res, b) == NameMatches(res.name, b.name) \/ NameMatches(b.name, res.name)

\* Slip: '' is a sail number.
SameSailBlank(res, b) == res.sail = b.sail \/ {res.sail, b.sail} \subseteq {Blank, None}

SameSail(res, b) == res.sail \in Sails /\ b.sail = res.sail

\* Slip: the name goes first.
HitByName(res, free) ==
  LET cands == {i \in DOMAIN free : Alike(res, free[i])}
  IN IF Cardinality(cands) = 1 THEN cands ELSE {i \in DOMAIN free : SameSail(res, free[i])}

\* By sail number; the name decides between two of one number; else by name.
Hit(res, free) ==
  LET same   == {i \in DOMAIN free : SameSail(res, free[i])}
      bySail == IF Cardinality(same) = 1 THEN same
                ELSE {i \in same : free[i].name = res.name}
  IN IF Cardinality(bySail) = 1 THEN bySail
     ELSE {i \in DOMAIN free : Alike(res, free[i])}

\* A boat once paired is not looked at again.
Free(boats, m) == [i \in DOMAIN boats \ DOMAIN m |-> boats[i]]

\* The kth row gets its boat.
Paired(boats, rows, m, k) ==
  LET hit == Hit(rows[k], Free(boats, m))
  IN IF Cardinality(hit) = 1
     THEN [i \in DOMAIN m \cup hit |-> IF i \in hit THEN k ELSE m[i]] ELSE m

\* id -> index of the row.
MatchRoster(boats, rows) ==
  LET m[k \in 0..Len(rows)] == IF k = 0 THEN <<>> ELSE Paired(boats, rows, m[k - 1], k)
  IN m[Len(rows)]

-----------------------------------------------------------------------------
Does(j) == left[j] > 0 /\ left' = [left EXCEPT ![j] = @ - 1]

At(p, pc) == pr[p].pc = pc

\* The roster changes: imports that have read it, other than p's, have missed that.
Crosses(p, now) ==
  pr' = [q \in DOMAIN pr |-> IF q = p THEN now
                             ELSE [pr[q] EXCEPT !.crossed = @ \/ pr[q].pc = "matched"]]

Amend ==
  /\ Does("amend") /\ table' \in Tables \ {table}
  /\ UNCHANGED <<roster, tracker, pr, last>>

\* import_results: the table is fetched ...
Fetch(p) ==
  /\ At(p, "idle") /\ Does("import")
  /\ pr' = [pr EXCEPT ![p] = [Idle EXCEPT !.pc = "fetched", !.table = table]]
  /\ UNCHANGED <<roster, table, tracker, last>>

\* ... the roster read ...
Match(p) ==
  /\ At(p, "fetched")
  /\ pr' = [pr EXCEPT ![p].pc = "matched", ![p].boats = roster]
  /\ UNCHANGED <<roster, table, tracker, last, left>>

\* A preview ends here.
Preview(p) ==
  /\ At(p, "matched")
  /\ pr' = [pr EXCEPT ![p] = Idle]
  /\ UNCHANGED <<roster, table, tracker, last, left>>

Coalesce(sail, other) == IF sail = None THEN other ELSE sail

\* ... and apply_results.
Apply(p) ==
  /\ At(p, "matched")
  /\ LET rows == pr[p].table
         m    == MatchRoster(pr[p].boats, rows)
     IN /\ roster' = [i \in DOMAIN roster |->
              IF i \in DOMAIN m
              THEN [roster[i] EXCEPT !.shows = <<last.n + 1, m[i]>>,
                                     !.sail = Coalesce(@, rows[m[i]].sail)]
              ELSE roster[i]]
        /\ last' = [n |-> last.n + 1, table |-> rows, clean |-> ~pr[p].crossed]
  /\ Crosses(p, Idle)
  /\ UNCHANGED <<table, tracker, left>>

-----------------------------------------------------------------------------
(***************************************************************************)
(* The roster.                                                             *)
(***************************************************************************)
Named(n) == {i \in DOMAIN roster : roster[i].name = n}

\* UNIQUE (race_id, name).
Refused(n) == Named(n) # {}

Touched == last' = [last EXCEPT !.clean = FALSE]

NewId == Cardinality(DOMAIN roster) + 1

With(f, x, v) == [y \in DOMAIN f \cup {x} |-> IF y = x THEN v ELSE f[y]]

\* add_real_boat.
AddRealBoat(n) ==
  /\ Does("entry") /\ ~Refused(n)
  /\ roster' = With(roster, NewId, Boat(n, None, None))
  /\ Crosses(None, Idle) /\ Touched
  /\ UNCHANGED <<table, tracker>>

\* Slip: INSERT OR REPLACE.
RefreshedAnew(b, s) == Boat(b.name, s, b.yb)

Refreshed(b, s) == [b EXCEPT !.sail = s]

\* link_ais.py looks a boat of its sheet up ...
SheetReads(p, n, s) ==
  /\ At(p, "idle") /\ Does("sheet")
  /\ pr' = [pr EXCEPT ![p] = [Idle EXCEPT !.pc = "sheet", !.first = <<n, s, Named(n)>>]]
  /\ UNCHANGED <<roster, table, tracker, last>>

\* ... and refreshes or enters it; one entered meanwhile is refused.
SheetWrites(p) ==
  /\ At(p, "sheet")
  /\ LET n == pr[p].first[1]
         s == pr[p].first[2]
         found == pr[p].first[3]
     IN IF found = {} /\ Refused(n)
        THEN UNCHANGED <<roster, last>> /\ pr' = [pr EXCEPT ![p] = Idle]
        ELSE /\ roster' = IF found = {} THEN With(roster, NewId, Boat(n, s, None))
                          ELSE [i \in DOMAIN roster |-> IF i \in found THEN Refreshed(roster[i], s)
                                                        ELSE roster[i]]
             /\ Crosses(p, Idle) /\ Touched
  /\ UNCHANGED <<table, tracker, left>>

\* link_yb gets the teams, as they are called now, and looks the first up ...
LinkReads(p) ==
  /\ At(p, "idle") /\ Does("link")
  /\ \E teams \in TeamLists :
       pr' = [pr EXCEPT ![p] = [Idle EXCEPT !.pc = "link", !.first = <<teams, Named(teams[1].name)>>]]
  /\ UNCHANGED <<roster, table, tracker, last>>

TeamsOf(n, teams) == {k \in DOMAIN teams : teams[k].name = n}

LastOf(n, teams) == CHOOSE k \in TeamsOf(n, teams) : \A j \in TeamsOf(n, teams) : j <= k

\* Slip: a boat already there is left as it is.
LinkedNew(b, teams) == b

\* A boat gets the yb_id of the team of its name, of two teams the last one's ...
Linked(b, teams) ==
  IF TeamsOf(b.name, teams) = {} THEN b ELSE [b EXCEPT !.yb = teams[LastOf(b.name, teams)].yb]

\* The teams no boat is entered for, of one name the first.
Missing(teams) ==
  {k \in DOMAIN teams : Named(teams[k].name) = {} /\ \A j \in TeamsOf(teams[k].name, teams) : k <= j}

\* ... and one with no boat is entered.
LinkWrites(p) ==
  /\ At(p, "link")
  /\ LET teams == pr[p].first[1]
         found == pr[p].first[2]
         new   == Missing(teams)
     IN IF found = {} /\ Refused(teams[1].name)
        THEN UNCHANGED <<roster, tracker, last>> /\ pr' = [pr EXCEPT ![p] = Idle]
        ELSE /\ \E at \in [new -> NewId..(NewId + Cardinality(new) - 1)] :
                  /\ \A i, j \in new : i < j => at[i] < at[j]
                  /\ roster' = [n \in DOMAIN roster \cup {at[i] : i \in new} |->
                                 IF n \in DOMAIN roster THEN Linked(roster[n], teams)
                                 ELSE LET i == CHOOSE i \in new : at[i] = n
                                      IN Boat(teams[i].name, None, teams[LastOf(teams[i].name, teams)].yb)]
             /\ slug' = teams /\ given' = given \cup {teams[k] : k \in DOMAIN teams}
             /\ Crosses(p, Idle) /\ Touched
  /\ UNCHANGED <<table, left>>

-----------------------------------------------------------------------------
Next ==
  \/ Amend
  \/ \E p \in Importers : Fetch(p) \/ Match(p) \/ Preview(p) \/ Apply(p)
  \/ \E n \in Names : AddRealBoat(n)
  \/ \E p \in Linkers :
       \/ SheetWrites(p) \/ LinkReads(p) \/ LinkWrites(p)
       \/ \E n \in Names : \E s \in Sails \cup {Blank} : SheetReads(p, n, s)

Spec == Init /\ [][Next]_vars
-----------------------------------------------------------------------------
(***************************************************************************)
(* Properties.                                                             *)
(***************************************************************************)
\* The roster's columns, and one boat to a name whoever enters it.
TypeOK ==
  /\ \A i \in DOMAIN roster :
       /\ roster[i].name \in Names /\ roster[i].sail \in SailNos
       /\ roster[i].yb \in YbIds \cup {None}
       /\ roster[i].shows = None \/ roster[i].shows[1] \in 1..last.n
       /\ Cardinality(Named(roster[i].name)) = 1
  /\ table \in Tables /\ slug \in TeamLists \cup {<<>>} /\ given \subseteq Team
  /\ last.n \in Nat /\ left \in [Jobs -> Nat]

\* The rows of the last import, by boat.
Shown == [i \in {j \in DOMAIN roster : roster[j].shows # None /\ roster[j].shows[1] = last.n}
            |-> roster[i].shows[2]]

Sailed(rows) == {k \in DOMAIN rows : rows[k].sail \in Sails}

\* Importing a table again changes nothing, although the sail numbers an
\* import has filled in decide before the names do: as long as nothing else has
\* touched the roster and no two rows have one number (COALESCE(sail_no, ?)).
Steady ==
  last.clean /\ (\A j, k \in Sailed(last.table) : last.table[j].sail = last.table[k].sail => j = k)
    => MatchRoster(roster, last.table) = Shown

Points(res, b) == SameSail(res, b) \/ Alike(res, b)

\* A row and a boat that are alone in having that sail number get each other,
\* whatever order the rows come in and whoever is alike by name, unless another
\* row is alike to the boat (match_roster, "by sail number first").
SailDecides ==
  last.clean =>
    \A k \in DOMAIN last.table : \A i \in DOMAIN roster :
      /\ {j \in DOMAIN roster : SameSail(last.table[k], roster[j])} = {i}
      /\ {j \in DOMAIN last.table : Points(last.table[j], roster[i])} = {k}
      => i \in DOMAIN Shown /\ Shown[i] = k

\* A boat scored by the committee stays scored whatever sheet or tracker is
\* linked later, and only an import changes what it shows.
ResultsStay ==
  [][\A i \in DOMAIN roster :
       roster[i].shows # None =>
         /\ i \in DOMAIN roster' /\ roster'[i].shows # None
         /\ roster'[i].shows = roster[i].shows \/ roster'[i].shows[1] = last'.n]_vars

\* The id has been two teams' names: the tracker renamed one, or used it twice.
Renamed(y) == \E t, u \in given : t.yb = y /\ u.yb = y /\ t.name # u.name

\* Once the tracker is linked each of its teams, of two of one name the last,
\* has the boat of its name, its fixes go to no other unless the tracker has used
\* the id for two names, and no boat gets the fixes of a team that was never
\* called as it is; whoever was entering boats or linking meanwhile (_poll_yb
\* looks boats up by yb_id).
TeamsLinked ==
  /\ TypeOK
  /\ \A k \in DOMAIN slug :
       LET boats == {i \in DOMAIN roster : roster[i].yb = slug[k].yb}
       IN LastOf(slug[k].name, slug) = k =>
            /\ \E i \in boats : roster[i].name = slug[k].name
            /\ Cardinality(boats) = 1 \/ Renamed(slug[k].yb)
  /\ \A i \in DOMAIN roster :
       roster[i].yb # None => [name |-> roster[i].name, yb |-> roster[i].yb] \in given
=============================================================================
