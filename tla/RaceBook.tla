------------------------------ MODULE RaceBook ------------------------------
(***************************************************************************)
(* The race board: races, their marks and the boats entered in them, under *)
(* the ticker that opens practice editions and sails what it holds, the    *)
(* web threads that enter boats and take routes, and the committee's       *)
(* console scripts, which take no lock.  Row ids are INTEGER PRIMARY KEY:  *)
(* the largest in the table plus one, so that a deleted row's id is given  *)
(* out again, and nothing declares a foreign key.  Each row is therefore   *)
(* told from its namesakes by when it was born.                            *)
(*                                                                         *)
(* Between its reads and its first write a process lets others in; from    *)
(* the first write to the commit it is alone.  Where a boat sails, and     *)
(* what its route is, are left to Engine and StartLine.                    *)
(***************************************************************************)
EXTENDS Integers, FiniteSets, FiniteSetsExt

CONSTANTS
  Setups,     \* where a behaviour starts: see SetupOK
  Webs,       \* web threads
  Consoles,   \* scripts running at a time
  EntryTime,  \* ROLLING_ENTRY_DAYS and practice.ENTRY_DAYS
  DayTime, MonthTime, \* the length of a day, and of a month
  None        \* no row

Jobs == {"hold", "register", "submit", "remove", "delete", "create", "add_mark", "upload", "clock"}

\* How long the first race's course is, and how many boats are in it (no such
\* race if 0 marks); how often each job is done, and how far the clock goes (bound).
SetupOK(s) ==
  /\ DOMAIN s = {"course", "boats", "jobs"}
  /\ s.course \in Nat /\ s.boats \in Nat /\ s.jobs \in [Jobs -> Nat]
  /\ s.course = 0 => s.boats = 0
  /\ s.jobs["add_mark"] = 0 \/ s.jobs["delete"] = 0

ASSUME RaceBookAssumption ==
  /\ \A s \in Setups : SetupOK(s)
  /\ EntryTime \in Nat \ {0} /\ DayTime \in Nat \ {0} /\ MonthTime \in Nat \ {0}
  /\ None \notin Int

VARIABLES
  now,      \* the clock
  races,    \* races.id -> when it was born, name, gun, rolling
  marks,    \* <<race_id, seq>> -> the mark
  boats,    \* boats.id -> when it was born, its race, that race's birth, sim_time, next_mark
  rows,     \* route_wps, track and race_docs: whose they are
  crossed,  \* births of the rows deleted while somebody held them
  fresh,    \* the next birth
  pr,       \* what each process is at, and what it has read
  left      \* how often each job may still be done

vars == <<now, races, marks, boats, rows, crossed, fresh, pr, left>>

Processes == Webs \cup Consoles \cup {"ticker"}

Idle == [pc |-> "idle", race |-> None, born |-> None, seq |-> None, count |-> 0, held |-> <<>>]

With(f, x, v) == [y \in DOMAIN f \cup {x} |-> IF y = x THEN v ELSE f[y]]

Without(f, S) == [x \in DOMAIN f \ S |-> f[x]]

\* sqlite's choice of a rowid.
NextId(table) == IF table = <<>> THEN 1 ELSE Max(DOMAIN table) + 1

RaceRow(name, gun, rolling) == [born |-> fresh, name |-> name, gun |-> gun, rolling |-> rolling]
BoatRow(born, race, entered) ==
  [born |-> born, race |-> race, entered |-> entered, started |-> FALSE, next |-> 1]

Init ==
  \E s \in Setups :
    /\ now = 0 /\ rows = {} /\ crossed = {}
    /\ races = IF s.course = 0 THEN <<>>
               ELSE [r \in {1} |-> [born |-> 0, name |-> <<>>, gun |-> 1, rolling |-> FALSE]]
    /\ marks = [k \in {1} \X (0..(s.course - 1)) |-> k[2]]
    /\ boats = [i \in 1..s.boats |-> BoatRow(i, 1, 0)]
    /\ fresh = s.course + s.boats + 1
    /\ pr = [p \in Processes |-> Idle]
    /\ left = s.jobs

-----------------------------------------------------------------------------
Does(j) == left[j] > 0 /\ left' = [left EXCEPT ![j] = @ - 1]

At(p, pc) == pr[p].pc = pc
Goes(p, what) == pr' = [pr EXCEPT ![p] = what]

Seqs(r) == {k[2] : k \in {k \in DOMAIN marks : k[1] = r}}
InRace(r) == {i \in DOMAIN boats : boats[i].race = r}

\* Births that processes other than p hold.
HeldBy(p) == UNION {{pr[q].born} \cup {pr[q].held[i].born : i \in DOMAIN pr[q].held} :
                    q \in Processes \ {p}}

Clock == /\ Does("clock") /\ now' = now + 1
         /\ UNCHANGED <<races, marks, boats, rows, crossed, fresh, pr>>

-----------------------------------------------------------------------------
(***************************************************************************)
(* Creating races.                                                         *)
(***************************************************************************)
Taken(name) == \E r \in DOMAIN races : races[r].name = name

\* create_race's inserts, of a start and a finish.
Inserts(name, gun, rolling) ==
  LET id == NextId(races)
      two == {id} \X (0..1)
  IN /\ races' = With(races, id, RaceRow(name, gun, rolling))
     /\ marks' = [k \in DOMAIN marks \cup two |-> IF k \in two THEN fresh + 1 + k[2] ELSE marks[k]]
     /\ fresh' = fresh + 3

\* Slip: the gun is not looked at.
OpenEditionEver(t) == \E r \in DOMAIN races : races[r].rolling

\* open_practice.
OpenEdition(t) == \E r \in DOMAIN races : races[r].rolling /\ races[r].gun + EntryTime > t

MonthName(t) == <<t \div MonthTime>>

DayName(t) == <<t \div MonthTime, t \div DayTime>>

\* Slip: it looks for the month's edition, not for an open one.
EditionDueByMonth == ~Taken(MonthName(now))

EditionDue == ~OpenEdition(now)

\* ensure_practice in the tick.  A name taken twice is an error, logged.
OpenPractice ==
  /\ At("ticker", "idle") /\ EditionDue
  /\ LET name == IF Taken(MonthName(now)) THEN DayName(now) ELSE MonthName(now)
     IN ~Taken(name) /\ Inserts(name, now, TRUE)
  /\ UNCHANGED <<now, boats, rows, crossed, pr, left>>

\* A committee's race from the console, which refuses a name in use ...
CommitteeCreates ==
  /\ Does("create") /\ ~Taken(<<>>)
  /\ Inserts(<<>>, now + 1, FALSE)
  /\ UNCHANGED <<now, boats, rows, crossed, pr>>

\* ... from a form, which does not ...
PageCreates ==
  /\ Does("create") /\ Inserts(<<>>, now + 1, FALSE)
  /\ UNCHANGED <<now, boats, rows, crossed, pr>>

DocRow(r, born) == [table |-> "race_docs", id |-> r, born |-> born]

\* ... and from documents, which are kept with it.
DocsCreate ==
  /\ Does("create") /\ Inserts(<<>>, now + 1, FALSE)
  /\ rows' = rows \cup {DocRow(NextId(races), fresh)}
  /\ UNCHANGED <<now, boats, crossed, pr>>

-----------------------------------------------------------------------------
(***************************************************************************)
(* The engine, which holds the rows it has read while it sails them.       *)
(***************************************************************************)
LockFree == ~At("ticker", "held") /\ \A w \in Webs : ~At(w, "routing")

\* catch_up_race reads the boats that have started.
Holds(r) ==
  /\ At("ticker", "idle") /\ LockFree /\ Does("hold")
  /\ LET b == {i \in InRace(r) : boats[i].started}
     IN b # {} /\ Goes("ticker", [Idle EXCEPT !.pc = "held", !.race = r,
                                  !.seq = Cardinality(Seqs(r)), !.held = [i \in b |-> boats[i]]])
  /\ UNCHANGED <<now, races, marks, boats, rows, crossed, fresh>>

Sailed(i, next) == IF i \in DOMAIN boats
                   THEN [boats EXCEPT ![i].started = TRUE, ![i].next = next] ELSE boats

\* _advance's writes for one boat: the track, and the row of that id if any.
Saves ==
  /\ At("ticker", "held")
  /\ LET t == pr["ticker"]
         i == Min(DOMAIN t.held)
         h == t.held[i]
         rest == Without(t.held, {i})
     IN /\ rows' = rows \cup {[table |-> "track", id |-> i, born |-> h.born]}
        /\ \E next \in h.next..t.seq : next <= h.next + 1 /\ boats' = Sailed(i, next)
        /\ Goes("ticker", IF rest = <<>> THEN Idle ELSE [t EXCEPT !.held = rest])
  /\ UNCHANGED <<now, races, marks, crossed, fresh, left>>

-----------------------------------------------------------------------------
(***************************************************************************)
(* The pages.                                                              *)
(***************************************************************************)
EntriesCloseAt(r) == races[r].gun + (IF races[r].rolling THEN EntryTime ELSE 0)

EntriesOpen(r) == now < EntriesCloseAt(r)

\* register_boat, up to its insert ...
Registers(w, r) ==
  /\ At(w, "idle") /\ EntriesOpen(r) /\ Does("register")
  /\ Goes(w, [Idle EXCEPT !.pc = "entering", !.race = r, !.born = races[r].born])
  /\ UNCHANGED <<now, races, marks, boats, rows, crossed, fresh>>

\* ... which asks nothing of the race any more.
Enters(w) ==
  /\ At(w, "entering")
  /\ boats' = With(boats, NextId(boats), BoatRow(fresh, pr[w].race, pr[w].born))
  /\ fresh' = fresh + 1
  /\ Goes(w, Idle)
  /\ UNCHANGED <<now, races, marks, rows, crossed, left>>

RouteRow(i, born) == [table |-> "route_wps", id |-> i, born |-> born]

\* add_race_doc finds the race, reads the upload ...
Uploads(w, r) ==
  /\ At(w, "idle") /\ Does("upload")
  /\ Goes(w, [Idle EXCEPT !.pc = "attaching", !.race = r, !.born = races[r].born])
  /\ UNCHANGED <<now, races, marks, boats, rows, crossed, fresh>>

\* ... and attaches it.
Attaches(w) ==
  /\ At(w, "attaching")
  /\ rows' = rows \cup {DocRow(pr[w].race, pr[w].born)}
  /\ Goes(w, Idle)
  /\ UNCHANGED <<now, races, marks, boats, crossed, fresh, left>>

\* submit_route for a boat on the dock: it is alone from the start it writes.
Starts(w, i) ==
  /\ At(w, "idle") /\ LockFree /\ ~boats[i].started /\ Does("submit")
  /\ boats' = [boats EXCEPT ![i].started = TRUE, ![i].next = 1]
  /\ rows' = rows \cup {RouteRow(i, boats[i].born)}
  /\ UNCHANGED <<now, races, marks, crossed, fresh, pr>>

\* For one that sails: it is caught up and read again ...
Reroutes(w, i) ==
  /\ At(w, "idle") /\ LockFree /\ boats[i].started /\ Does("submit")
  /\ Goes(w, [Idle EXCEPT !.pc = "routing", !.held = [j \in {i} |-> boats[j]]])
  /\ UNCHANGED <<now, races, marks, boats, rows, crossed, fresh>>

\* ... and its route is written under the id.
Routes(w) ==
  /\ At(w, "routing")
  /\ rows' = rows \cup {RouteRow(i, pr[w].held[i].born) : i \in DOMAIN pr[w].held}
  /\ Goes(w, Idle)
  /\ UNCHANGED <<now, races, marks, boats, crossed, fresh, left>>

-----------------------------------------------------------------------------
(***************************************************************************)
(* The console.                                                            *)
(***************************************************************************)
\* Slip: the route is left.
RowsGoButRoute(ids) == {x \in rows : x.id \notin ids \/ x.table # "track"}

\* What the DELETEs of delete_boat and delete_race leave of a boat's rows.
RowsGo(ids) == {x \in rows : x.id \notin ids \/ x.table = "race_docs"}

\* remove_boat.py, or the owner's account is deleted.
Removes(c, i) ==
  /\ At(c, "idle") /\ Does("remove")
  /\ boats' = Without(boats, {i}) /\ rows' = RowsGo({i})
  /\ crossed' = crossed \cup ({boats[i].born} \cap HeldBy(c))
  /\ UNCHANGED <<now, races, marks, fresh, pr>>

\* delete_race.py lists the boats ...
Lists(c, r) ==
  /\ At(c, "idle") /\ Does("delete")
  /\ Goes(c, [Idle EXCEPT !.pc = "deleting", !.race = r,
              !.held = [i \in InRace(r) |-> boats[i]]])
  /\ UNCHANGED <<now, races, marks, boats, rows, crossed, fresh>>

\* The boats that go with the race.
Gone(c) == InRace(pr[c].race)

\* ... and deletes the listed boats' rows, all the race's boats, and the race.
Deletes(c) ==
  /\ At(c, "deleting")
  /\ LET r == pr[c].race
         listed == DOMAIN pr[c].held
     IN /\ rows' = {x \in RowsGo(listed) : x.table # "race_docs" \/ x.id # r}
        /\ boats' = Without(boats, Gone(c))
        /\ marks' = Without(marks, {r} \X Seqs(r))
        /\ races' = Without(races, {r})
        /\ crossed' = crossed
             \cup (({boats[i].born : i \in Gone(c) \cap listed}
                     \cup {races[q].born : q \in {r} \cap DOMAIN races}) \cap HeldBy(c))
             \cup {boats[i].born : i \in Gone(c) \ listed}
  /\ Goes(c, Idle)
  /\ UNCHANGED <<now, fresh, left>>

NobodySails(r) == \A i \in InRace(r) : ~boats[i].started

Counted(r) == Cardinality(Seqs(r))

\* add_mark.py counts the boats that have started, and the marks ...
Counts(c, r) ==
  /\ At(c, "idle") /\ Does("add_mark") /\ NobodySails(r)
  /\ \E seq \in 0..Counted(r) :
       Goes(c, [Idle EXCEPT !.pc = "adding", !.race = r, !.seq = seq,
                            !.born = races[r].born, !.count = Counted(r)])
  /\ UNCHANGED <<now, races, marks, boats, rows, crossed, fresh>>

\* Slip: INSERT OR REPLACE.
FitsAlways(r, n) == TRUE

\* The primary key refuses a mark where there is one.
Fits(r, n) == <<r, n>> \notin DOMAIN marks

\* A boat whose next mark has moved up goes on to the same mark.
Shifted(r, seq) == [i \in DOMAIN boats |-> IF boats[i].race = r /\ boats[i].next > seq
                                           THEN [boats[i] EXCEPT !.next = @ + 1] ELSE boats[i]]

\* ... and makes room from the top down for the new one, or is refused.
Adds(c) ==
  /\ At(c, "adding")
  /\ LET r == pr[c].race
         seq == pr[c].seq
         n == pr[c].count
         up == {s \in Seqs(r) : seq <= s /\ s < n}
     IN IF Fits(r, n)
        THEN /\ marks' = [k \in DOMAIN marks \cup {<<r, s + 1>> : s \in up \cup {seq - 1}} |->
                            CASE k = <<r, seq>> -> fresh
                              [] k[1] = r /\ k[2] - 1 \in up -> marks[<<r, k[2] - 1>>]
                              [] OTHER -> marks[k]]
             /\ boats' = Shifted(r, seq)
             /\ fresh' = fresh + 1
        ELSE UNCHANGED <<marks, boats, fresh>>
  /\ Goes(c, Idle)
  /\ UNCHANGED <<now, races, rows, crossed, left>>

-----------------------------------------------------------------------------
Next ==
  \/ Clock \/ OpenPractice \/ CommitteeCreates \/ PageCreates \/ DocsCreate \/ Saves
  \/ \E r \in DOMAIN races : Holds(r)
  \/ \E w \in Webs :
       \/ Enters(w) \/ Routes(w) \/ Attaches(w)
       \/ \E r \in DOMAIN races : Registers(w, r) \/ Uploads(w, r)
       \/ \E i \in DOMAIN boats : Starts(w, i) \/ Reroutes(w, i)
  \/ \E c \in Consoles :
       \/ Deletes(c) \/ Adds(c)
       \/ \E r \in DOMAIN races : Lists(c, r) \/ Counts(c, r)
       \/ \E i \in DOMAIN boats : Removes(c, i)

Spec == Init /\ [][Next]_vars

\* The ticker goes round every minute, and finishes what it holds.
FairSpec == Spec /\ WF_vars(OpenPractice) /\ WF_vars(Saves)

-----------------------------------------------------------------------------
(***************************************************************************)
(* Properties.                                                             *)
(***************************************************************************)
\* The rows, and the marks of every race numbered from 0 without a gap, which
\* is what get_marks' list and next_mark as its index take for granted.  (A save
\* of a boat deleted meanwhile can leave a namesake on a shorter course beyond it.)
TypeOK ==
  /\ now \in Nat /\ fresh \in Nat /\ left \in [Jobs -> Nat]
  /\ \A r \in DOMAIN races :
       /\ races[r].born < fresh /\ races[r].gun \in Nat /\ races[r].rolling \in BOOLEAN
       /\ Seqs(r) = 0..(Cardinality(Seqs(r)) - 1)
  /\ \A i \in DOMAIN boats :
       /\ boats[i].born < fresh /\ boats[i].started \in BOOLEAN
       /\ crossed = {} => boats[i].next \in 1..(Cardinality(Seqs(boats[i].race)) + 1)
  /\ DOMAIN pr = Processes
  /\ \A p \in Processes : pr[p].pc \in {"idle", "held", "entering", "routing", "attaching", "deleting", "adding"}

\* Ids are used again, and carry nothing over.  A boat's track and route, and a
\* race's documents, are its own: what another left under its id was written by
\* someone who held that other when it was deleted (delete_boat, delete_race.py).
\* And a boat stands in the race its navigator entered, not in a later one that
\* has its id, unless the race went while the entry was being made.
OwnRows ==
  /\ TypeOK
  /\ \A x \in rows :
       LET table == IF x.table = "race_docs" THEN races ELSE boats
       IN x.id \in DOMAIN table /\ table[x.id].born # x.born => x.born \in crossed
  /\ \A i \in DOMAIN boats :
       LET r == boats[i].race
       IN r \in DOMAIN races /\ races[r].born # boats[i].entered => boats[i].entered \in crossed

Owed(i) == {marks[k] : k \in {k \in DOMAIN marks : k[1] = boats[i].race /\ k[2] >= boats[i].next}}

\* Two people may add marks at once, while boats start: no mark of a standing
\* race is lost, none overtakes another (add_mark.py's renumbering), and a boat
\* still owes the marks it owed, and at most the new one besides.
MarksKept ==
  [][/\ \A k1, k2 \in DOMAIN marks :
          /\ k1[1] = k2[1] /\ k1[2] < k2[2]
          /\ k1[1] \in DOMAIN races \cap DOMAIN races' /\ races[k1[1]].born = races'[k1[1]].born
          => \E j1, j2 \in DOMAIN marks' :
               /\ j1[1] = k1[1] /\ j2[1] = k1[1] /\ j1[2] < j2[2]
               /\ marks'[j1] = marks[k1] /\ marks'[j2] = marks[k2]
     /\ marks' # marks =>
          \A i \in DOMAIN boats \cap DOMAIN boats' :
            boats[i].born = boats'[i].born /\ boats[i].race \in DOMAIN races'
            => Owed(i)' \cap {marks[k] : k \in DOMAIN marks} = Owed(i)]_vars

\* No two practice editions take entries at a time (ensure_practice).
OneEdition ==
  \A r1, r2 \in DOMAIN races :
    races[r1].rolling /\ races[r2].rolling /\ EntriesOpen(r1) /\ EntriesOpen(r2) => r1 = r2

\* "Always something to enter" (vn/practice.py): whenever no practice edition
\* takes entries, one soon does.
SomethingToEnter ==
  (\A r \in DOMAIN races : ~(races[r].rolling /\ EntriesOpen(r)))
    ~> (\E r \in DOMAIN races : races[r].rolling /\ EntriesOpen(r))
=============================================================================
