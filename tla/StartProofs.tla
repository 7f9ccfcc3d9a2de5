----------------------------- MODULE StartProofs -----------------------------
(***************************************************************************)
(* Proofs about the start line, for any fleet, any gate, any number of     *)
(* requests, scripts and crashes, and any clock.                           *)
(***************************************************************************)
EXTENDS StartLine, FiniteSetTheorems, WellFoundedInduction, TLAPS

(***************************************************************************)
(* Enough of the fleet has been seen, or the race does not wait for it.    *)
(***************************************************************************)
Open == Cardinality(SeenBy(race, Horizon)) >= race.needed \/ ~GateApplies(race)

(***************************************************************************)
(* What a thread holds stays true while others go on: its rows are boats   *)
(* with a route, its race row lacks at most the start recorded since, and  *)
(* a start it is to give comes from an open gate.  A script may change the *)
(* race and the boats behind it.                                           *)
(***************************************************************************)
Loaded == {"lock", "unrouted", "dock", "reread", "start", "line", "gate", "open"}

ThreadInv(x) ==
  /\ x \in Thread
  /\ \A b \in DOMAIN x.rows : b \in Entered /\ boats[b].route # "none"
  /\ x.boat # None => x.boat \in Entered
  /\ ~script.ran =>
       /\ \A b \in DOMAIN x.rows : boats[b].sim # None
       /\ x.pc \in Loaded => x.race \in {race, [race EXCEPT !.vs = None]}
       /\ x.vs # None => Open

\* A step the threads that take no part in it do not mind.
Mild ==
  /\ Entered' = Entered
  /\ \A b \in Entered : boats[b].route # "none" => boats'[b].route # "none"
  /\ ~script'.ran =>
       /\ ~script.ran /\ (Open => Open')
       /\ race' = race \/ (race.vs = None /\ \E t \in Times : race' = [race EXCEPT !.vs = t])
       /\ \A b \in Entered : boats[b].sim # None => boats'[b].sim # None

LEMMA ThreadStays ==
  ASSUME RowsOK, Mild, NEW x, ThreadInv(x)
  PROVE  ThreadInv(x)'
<1>1. ASSUME NEW b \in DOMAIN x.rows PROVE b \in Entered' /\ boats'[b].route # "none"
  BY <1>1 DEF ThreadInv, Mild
<1>2. ASSUME ~script'.ran
      PROVE  /\ \A b \in DOMAIN x.rows : boats'[b].sim # None
             /\ x.pc \in Loaded => x.race \in {race', [race' EXCEPT !.vs = None]}
             /\ x.vs # None => Open'
  <2>1. /\ \A b \in DOMAIN x.rows : boats[b].sim # None
        /\ x.pc \in Loaded => x.race \in {race, [race EXCEPT !.vs = None]}
        /\ x.vs # None => Open
    BY <1>2 DEF ThreadInv, Mild
  <2>2. race' = race \/ (race.vs = None /\ \E t \in Times : race' = [race EXCEPT !.vs = t])
    BY <1>2 DEF Mild
  <2>3. race' = race \/ [race' EXCEPT !.vs = None] = race
    BY <2>2 DEF RowsOK, Row
  <2>4. [race' EXCEPT !.vs = None] = [race EXCEPT !.vs = None]
    BY <2>2 DEF RowsOK, Row
  <2>5. x.pc \in Loaded => x.race \in {race', [race' EXCEPT !.vs = None]}
    BY <2>1, <2>3, <2>4
  <2>. QED
    BY <1>2, <2>1, <2>5 DEF ThreadInv, Mild
<1>. QED
  BY <1>1, <1>2 DEF ThreadInv, Mild

(***************************************************************************)
(* The gate.  A start that comes from the gate means that it is open.      *)
(***************************************************************************)
LEMMA SeenLater ==
  ASSUME RowsOK, NEW row, NEW t \in Times
  PROVE  Cardinality(SeenBy(row, t)) <= Cardinality(SeenBy(row, Horizon))
         /\ Cardinality(SeenBy(row, t)) \in Nat /\ Cardinality(SeenBy(row, Horizon)) \in Nat
<1> USE StartLineAssumption DEF Times
<1>1. SeenBy(row, Horizon) \subseteq RealBoats /\ SeenBy(row, t) \subseteq RealBoats
  BY DEF SeenBy, RowsOK
<1>2. SeenBy(row, t) \subseteq SeenBy(row, Horizon)
  BY DEF SeenBy, RowsOK
<1>3. IsFiniteSet(SeenBy(row, t)) /\ IsFiniteSet(SeenBy(row, Horizon))
  BY <1>1, FS_Subset
<1>. QED
  BY <1>2, <1>3, FS_Subset, FS_CardinalityType

LEMMA StartFromGate ==
  ASSUME RowsOK, NEW row, row \in {race, [race EXCEPT !.vs = None]},
         VirtualStart(row) # None, race.vs # None => Open
  PROVE  Open
<1>1. row.gun = race.gun /\ row.needed = race.needed /\ row.vs \in {None, race.vs}
      /\ race.needed \in Nat
  BY DEF RowsOK, Row
<1>2. CASE row.vs # None
  BY <1>1, <1>2
<1>3. CASE row.vs = None /\ ~GateApplies(row)
  BY <1>1, <1>3 DEF Open, GateApplies
<1>4. CASE row.vs = None /\ GateApplies(row)
  <2>1. OpenAt(row) # None
    BY <1>4 DEF VirtualStart
  <2>2. PICK t \in Times : Cardinality(SeenBy(row, t)) >= row.needed
    BY <2>1 DEF OpenAt
  <2>3. SeenBy(row, Horizon) = SeenBy(race, Horizon)
    BY <1>1 DEF SeenBy
  <2>. QED
    BY <1>1, <2>2, <2>3, SeenLater DEF Open
<1>. QED
  BY <1>2, <1>3, <1>4

Before == {p \in Nat \X Nat : p[1] < p[2]}

LEMMA BeforeWellFounded == IsWellFoundedOn(Before, Nat)
BY NatLessThanWellFounded DEF OpToRel, Before

LEMMA LeastOf ==
  ASSUME NEW S \in SUBSET Nat, S # {}
  PROVE  Min(S) \in S /\ \A y \in S : Min(S) <= y
<1>1. PICK x \in S : \A y \in S : ~(<<y, x>> \in Before)
  BY BeforeWellFounded, WFMin, Zenon
<1>2. ASSUME NEW y \in S PROVE x <= y
  <2>1. <<y, x>> \notin Before
    BY <1>1
  <2>. QED
    BY <2>1 DEF Before
<1>. QED
  BY <1>2 DEF Min

LEMMA VirtualStartType ==
  ASSUME RowsOK, NEW row \in Row PROVE VirtualStart(row) \in Times \cup {None} /\ OpenAt(row) \in Times \cup {None}
<1> DEFINE enough == {t \in Times : Cardinality(SeenBy(row, t)) >= row.needed}
<1>1. enough # {} => Min(enough) \in Times
  <2>1. enough \in SUBSET Nat
    BY StartLineAssumption DEF Times
  <2> HIDE DEF enough
  <2>2. enough # {} => Min(enough) \in enough
    BY <2>1, LeastOf
  <2>. QED
    BY <2>2 DEF enough
<1>2. OpenAt(row) \in Times \cup {None}
  BY <1>1 DEF OpenAt
<1>. QED
  BY <1>2 DEF VirtualStart, Row

(***************************************************************************)
(* What the race and the boats are at any time, and what each thread is.   *)
(***************************************************************************)
World ==
  /\ RowsOK /\ ScriptOK
  /\ \A b \in Entered : boats[b].sim # None => boats[b].route # "none"
  /\ script.pc # "idle" => script.ran
  /\ ~script.ran => /\ race.vs # None => Open
                    /\ WaitsForFleet

InLock == {"unrouted", "dock", "reread", "start", "line", "sailing", "swap"}

TickerInv ==
  /\ ThreadInv(ticker)
  /\ ticker.pc = "sailing" <=> lock = "ticker"
  /\ ticker.pc \in {"unrouted", "dock", "gate", "open"} /\ ~script.ran => ticker.race = race
  /\ ticker.pc = "open" => ticker.race.vs = None /\ ticker.vs # None

ReqInv(r) ==
  /\ ThreadInv(reqs[r])
  /\ reqs[r].pc \notin {"idle", "done"} => reqs[r].boat # None
  /\ reqs[r].pc \in InLock => lock = r

IInv == /\ World /\ TickerInv /\ ThreadsOK /\ now \in Times /\ crashes \in Nat
        /\ \A r \in Requests : ReqInv(r)

(***************************************************************************)
(* The steps that write the race or the boats.                             *)
(***************************************************************************)
LEMMA Quiet ==
  ASSUME World, UNCHANGED <<race, boats, fixes, script>>
  PROVE  World' /\ Mild
<1>1. Open' = Open /\ WaitsForFleet' = WaitsForFleet
  BY DEF Open, WaitsForFleet, SeenBy, GateApplies, Entered, Tracked
<1>. QED
  BY <1>1 DEF World, Mild, RowsOK, ScriptOK, Entered, Tracked

\* The default course goes only to boats that still have no route.
LEMMA DockedUnrouted ==
  ASSUME NEW batch \in SUBSET Boats, NEW b \in Docked(batch)
  PROVE  boats[b].route = "none"
<1>1. CASE Taken(batch) = {}
  BY <1>1 DEF Docked, Taken
<1>2. CASE Taken(batch) # {}
  <2>1. PICK taken : taken = Taken(batch)
    OBVIOUS
  <2>2. taken \in SUBSET Nat /\ taken # {} /\ batch \subseteq Nat
    BY <1>2, <2>1, StartLineAssumption DEF Taken
  <2>3. PICK least : least = Min(taken)
    OBVIOUS
  <2>4. b \in batch /\ b < least
    BY <1>2, <2>1, <2>3 DEF Docked
  <2>5. least \in taken /\ \A y \in taken : least <= y
    BY <2>2, <2>3, LeastOf
  <2>6. b \notin taken
    BY <2>2, <2>4, <2>5
  <2>. QED
    BY <2>1, <2>4, <2>6 DEF Taken
<1>. QED
  BY <1>1, <1>2

LEMMA Docking ==
  ASSUME World, NEW x, ThreadInv(x), boats' = DefaultCourse(x.batch, x.vs),
         UNCHANGED <<race, fixes, script>>
  PROVE  World' /\ Mild
<1>1. Entered' = Entered /\ Tracked' = Tracked
  BY DEF DefaultCourse, Entered, Tracked
<1>2. x.vs \in Times \cup {None}
  BY DEF ThreadInv, Thread
<1>3. ASSUME NEW b \in Entered
      PROVE  boats'[b] = boats[b] \/ boats'[b] = [sim |-> x.vs, started |-> x.vs, route |-> "default"]
  BY <1>3 DEF DefaultCourse
<1>4. ASSUME NEW b \in Entered
      PROVE  /\ boats'[b] \in Boat /\ (boats'[b].sim # None => boats'[b].route # "none")
             /\ boats[b].route # "none" => boats'[b] = boats[b]
             /\ boats'[b].sim # None => boats[b].sim # None \/ x.vs # None
  <2>1. x.batch \in SUBSET Boats
    BY DEF ThreadInv, Thread
  <2>2. boats[b].route # "none" => boats'[b] = boats[b]
    BY <1>4, <2>1, DockedUnrouted DEF DefaultCourse
  <2>. QED
    BY <1>2, <1>3, <1>4, <2>2 DEF World, RowsOK, Boat
<1>5. RowsOK'
  <2>1. boats' = [b \in Entered |-> boats'[b]]
    BY DEF DefaultCourse
  <2>. QED
    BY <1>1, <1>4, <2>1 DEF World, RowsOK
<1>6. Open' = Open
  BY <1>1 DEF Open, SeenBy, GateApplies
<1>7. WaitsForFleet'
  <2>1. SUFFICES ASSUME NEW b \in Entered, boats'[b].sim # None, ~race.rolling, ~script.ran
                 PROVE  Open'
    BY <1>1 DEF WaitsForFleet, Open
  <2>2. CASE boats[b].sim # None
    BY <1>6, <2>1, <2>2 DEF World, WaitsForFleet, Open
  <2>3. CASE x.vs # None
    BY <1>6, <2>1, <2>3 DEF ThreadInv
  <2>. QED
    BY <1>4, <2>1, <2>2, <2>3
<1>8. World'
  BY <1>1, <1>4, <1>5, <1>6, <1>7 DEF World, ScriptOK
<1>. QED
  BY <1>1, <1>4, <1>6, <1>8 DEF World, Mild

\* A boat that sails has its start already.
LEMMA SailToType ==
  ASSUME NEW sim \in Times, NEW until \in Times, NEW steps \in Nat
  PROVE  SailTo(sim, until, steps) \in Times
<1> USE DEF Times
<1>1. Min({until, sim + steps}) \in {until, sim + steps} /\ Min({until, sim + steps}) <= until
  <2>1. {until, sim + steps} \in SUBSET Nat
    BY StartLineAssumption
  <2>. QED
    BY <2>1, LeastOf
<1>2. PICK m : m = Min({until, sim + steps})
  OBVIOUS
<1>3. m \in Times
  BY <1>1, <1>2, StartLineAssumption
<1>4. \E x \in {sim, m} : \A y \in {sim, m} : x >= y
  BY <1>3, StartLineAssumption
<1>5. Max({sim, m}) \in {sim, m}
  BY <1>4 DEF Max
<1>. QED
  BY <1>2, <1>3, <1>5 DEF SailTo

LEMMA Sailing ==
  ASSUME World, NEW x, ThreadInv(x), NEW steps \in Nat, boats' = Sailed(x, steps),
         UNCHANGED <<race, fixes, script>>
  PROVE  World' /\ Mild
<1>1. Entered' = Entered /\ Tracked' = Tracked
  BY DEF Sailed, Entered, Tracked
<1>2. ASSUME NEW b \in Entered
      PROVE  /\ boats'[b] \in Boat /\ boats'[b].route = boats[b].route
             /\ boats[b].sim # None => boats'[b].sim # None
             /\ boats'[b] # boats[b] => boats[b].route # "none" /\ (script.ran \/ boats[b].sim # None)
  <2>1. CASE b \in DOMAIN x.rows /\ SailTo(x.rows[b], x.now, steps) > x.rows[b]
    <3>1. x.rows[b] \in Times /\ x.now \in Times
      BY <2>1 DEF ThreadInv, Thread, RowsRead
    <3>2. PICK t \in Times : t = SailTo(x.rows[b], x.now, steps)
      BY <3>1, SailToType
    <3>3. boats'[b] = [boats[b] EXCEPT !.sim = t]
      BY <1>2, <2>1, <3>2 DEF Sailed
    <3>4. t # None
      BY <3>2, StartLineAssumption DEF Times
    <3>. QED
      BY <1>2, <2>1, <3>3, <3>4 DEF World, RowsOK, Boat, ThreadInv
  <2>2. CASE ~(b \in DOMAIN x.rows /\ SailTo(x.rows[b], x.now, steps) > x.rows[b])
    <3>1. boats'[b] = boats[b]
      BY <1>2, <2>2 DEF Sailed
    <3>. QED
      BY <1>2, <3>1 DEF World, RowsOK
  <2>. QED
    BY <2>1, <2>2
<1>3. RowsOK'
  <2>1. boats' = [b \in Entered |-> boats'[b]]
    BY DEF Sailed
  <2>. QED
    BY <1>1, <1>2, <2>1 DEF World, RowsOK
<1>4. Open' = Open
  BY <1>1 DEF Open, SeenBy, GateApplies
<1>5. WaitsForFleet'
  <2>1. SUFFICES ASSUME NEW b \in Entered, boats'[b].sim # None, ~race.rolling, ~script.ran
                 PROVE  Open'
    BY <1>1 DEF WaitsForFleet, Open
  <2>2. boats[b].sim # None
    BY <1>2, <2>1
  <2>. QED
    BY <1>4, <2>1, <2>2 DEF World, WaitsForFleet, Open
<1>6. World'
  BY <1>1, <1>2, <1>3, <1>4, <1>5 DEF World, ScriptOK
<1>. QED
  BY <1>1, <1>2, <1>4, <1>6 DEF World, Mild

\* One boat is given a route, and perhaps its start.
LEMMA OneBoat ==
  ASSUME World, NEW b \in Entered, NEW to \in Boat, boats' = [boats EXCEPT ![b] = to],
         to.route # "none", boats[b].sim # None => to.sim # None,
         ~script.ran /\ ~race.rolling /\ to.sim # None => Open \/ boats[b].sim # None,
         UNCHANGED <<race, fixes, script>>
  PROVE  World' /\ Mild
<1>1. Entered' = Entered /\ Tracked' = Tracked
  BY DEF Entered, Tracked
<1>2. RowsOK'
  BY <1>1 DEF World, RowsOK
<1>3. Open' = Open
  BY <1>1 DEF Open, SeenBy, GateApplies
<1>4. WaitsForFleet'
  <2>1. SUFFICES ASSUME NEW c \in Entered, boats'[c].sim # None, ~race.rolling, ~script.ran
                 PROVE  Open
    BY <1>1, <1>3 DEF WaitsForFleet, Open
  <2>2. CASE boats[c].sim # None
    BY <2>1, <2>2 DEF World, WaitsForFleet, Open
  <2>3. CASE c = b /\ boats[c].sim = None
    BY <2>1, <2>3 DEF World, RowsOK
  <2>. QED
    BY <2>1, <2>2, <2>3 DEF World, RowsOK
<1>. QED
  BY <1>1, <1>2, <1>3, <1>4 DEF World, Mild, RowsOK, ScriptOK

\* The gate opens: the start is recorded, the boats on the line leave.
LEMMA Opening ==
  ASSUME World, TickerInv, ThreadsOK, OpenGate
  PROVE  World' /\ Mild
<1> USE DEF OpenGate
<1>1. Entered' = Entered /\ Tracked' = Tracked /\ script' = script
  BY DEF Entered, Tracked
<1>2. ticker.vs \in Times
  BY DEF TickerInv, ThreadsOK, Thread
<1>3. ASSUME NEW b \in Entered
      PROVE  /\ boats'[b] \in Boat /\ boats'[b].route = boats[b].route
             /\ boats[b].sim # None => boats'[b].sim # None
             /\ boats'[b].sim # None => boats[b].route # "none"
  BY <1>2, <1>3 DEF World, RowsOK, Boat, Waiting
<1>4. RowsOK'
  <2>1. boats' = [b \in Entered |-> boats'[b]]
    OBVIOUS
  <2>2. race' \in Row
    BY <1>2 DEF World, RowsOK, Row
  <2>. QED
    BY <1>1, <1>3, <2>1, <2>2 DEF World, RowsOK
<1>5. race'.gun = race.gun /\ race'.needed = race.needed
  BY DEF World, RowsOK, Row
<1>6. Open' = Open
  BY <1>1, <1>5 DEF Open, SeenBy, GateApplies
<1>7. ~script.ran => Open /\ race.vs = None
  BY DEF TickerInv, ThreadInv
<1>8. WaitsForFleet'
  BY <1>1, <1>6, <1>7 DEF WaitsForFleet, Open, World
<1>9. World'
  BY <1>1, <1>3, <1>4, <1>6, <1>7, <1>8 DEF World, ScriptOK
<1>. QED
  BY <1>1, <1>2, <1>3, <1>6, <1>7, <1>9 DEF World, Mild

\* A fix comes in: the gate does not close again.
LEMMA Tracking ==
  ASSUME World, FixArrives
  PROVE  World' /\ Mild
<1> USE DEF FixArrives
<1>1. Entered' = Entered /\ Tracked' = Tracked
  BY DEF World, RowsOK, Entered, Tracked
<1>2. RowsOK'
  BY <1>1 DEF World, RowsOK
<1>3. Open => Open'
  <2>1. SeenBy(race, Horizon) \subseteq SeenBy(race, Horizon)'
    BY <1>1 DEF World, RowsOK, SeenBy, Tracked
  <2>2. SeenBy(race, Horizon)' \subseteq RealBoats
    BY <1>1 DEF World, RowsOK, SeenBy
  <2>3. IsFiniteSet(SeenBy(race, Horizon)') /\ IsFiniteSet(SeenBy(race, Horizon))
    BY <2>1, <2>2, FS_Subset, StartLineAssumption
  <2>4. /\ Cardinality(SeenBy(race, Horizon)) <= Cardinality(SeenBy(race, Horizon)')
        /\ Cardinality(SeenBy(race, Horizon)) \in Nat /\ Cardinality(SeenBy(race, Horizon)') \in Nat
    BY <2>1, <2>3, FS_Subset, FS_CardinalityType
  <2>. QED
    BY <1>1, <2>4 DEF Open, GateApplies, World, RowsOK, Row
<1>4. WaitsForFleet'
  <2>1. ASSUME WaitsForFleet PROVE WaitsForFleet'
    BY <1>1, <1>3, <2>1 DEF WaitsForFleet, Open
  <2>. QED
    BY <1>3, <2>1 DEF World, WaitsForFleet
<1>. QED
  BY <1>1, <1>2, <1>3, <1>4 DEF World, Mild, ScriptOK

\* A script that has read its row writes what it likes, but not the routes.
LEMMA Committee ==
  ASSUME World, now \in Times, SetVirtualStart \/ SetStart \/ SetFleetGate \/ RestartBoat
  PROVE  World' /\ Mild
<1>1. script.ran /\ script'.ran /\ script' = [script EXCEPT !.pc = "idle", !.race = Idle.race, !.sailing = FALSE]
  BY DEF World, ScriptOK, SetVirtualStart, SetStart, SetFleetGate, RestartBoat, ScriptEnds
<1>2. ScriptOK'
  BY <1>1, StartLineAssumption DEF World, ScriptOK, Idle, Row
<1>3. /\ race' \in Row /\ Entered' = Entered /\ fixes' = fixes /\ boats' = [b \in Entered |-> boats'[b]]
      /\ \A b \in Entered : /\ boats'[b] \in Boat
                            /\ boats[b].route # "none" => boats'[b].route # "none"
                            /\ boats'[b].sim # None => boats'[b].route # "none"
  <2>1. CASE SetVirtualStart
    BY <2>1 DEF SetVirtualStart, World, RowsOK, Row, Entered
  <2>2. CASE SetStart
    <3>1. CASE script.sailing
      BY <2>2, <3>1 DEF SetStart, World, RowsOK, Row, Entered
    <3>2. CASE ~script.sailing
      <4>1. PICK t \in Times :
              /\ race' = [race EXCEPT !.gun = t, !.vs = None]
              /\ boats' = [b \in Entered |-> IF boats[b].sim = None THEN boats[b]
                                             ELSE [boats[b] EXCEPT !.sim = t]]
        BY <2>2, <3>2 DEF SetStart
      <4>. QED
        BY <2>2, <4>1, ZenonT(30) DEF SetStart, World, RowsOK, Row, Boat, Entered
    <3>. QED
      BY <3>1, <3>2
  <2>3. CASE SetFleetGate
    <3>1. PICK n \in 0..Cardinality(Tracked) :
            /\ race' = [race EXCEPT !.needed = n]
            /\ boats' = [b \in Entered |-> IF n = 0 /\ Waiting(b)
                                           THEN [boats[b] EXCEPT !.sim = Max({race.gun, now})]
                                           ELSE boats[b]]
      BY <2>3 DEF SetFleetGate
    <3>2. race.gun \in Times
      BY DEF World, RowsOK, Row
    <3>3. \E x \in {race.gun, now} : \A y \in {race.gun, now} : x >= y
      BY <3>2 DEF Times
    <3>4. Max({race.gun, now}) \in Times
      BY <3>2, <3>3 DEF Max
    <3>5. n \in Nat
      BY <3>1
    <3>. QED
      BY <2>3, <3>1, <3>4, <3>5, ZenonT(30) DEF SetFleetGate, World, RowsOK, Row, Boat, Waiting, Entered
  <2>4. CASE RestartBoat
    <3>1. script.race \in Row
      BY DEF World, ScriptOK
    <3>2. PICK t \in Times \cup {None} : t = VirtualStart(script.race)
      BY <3>1, VirtualStartType DEF World
    <3>3. PICK b \in Entered :
            boats' = [boats EXCEPT ![b].sim = t, ![b].route = IF @ = "none" THEN "default" ELSE @]
      BY <2>4, <3>2 DEF RestartBoat
    <3>. QED
      BY <2>4, <3>3, ZenonT(30) DEF RestartBoat, World, RowsOK, Row, Boat, Entered
  <2>. QED
    BY <2>1, <2>2, <2>3, <2>4
<1>4. RowsOK'
  BY <1>3 DEF World, RowsOK, Tracked
<1>. QED
  BY <1>1, <1>2, <1>3, <1>4 DEF World, Mild

(***************************************************************************)
(* The threads that stand still in a step.                                 *)
(***************************************************************************)
LEMMA TickerStays ==
  ASSUME IInv, Mild, ticker' = ticker, lock' = "ticker" <=> lock = "ticker",
         script'.ran \/ race' = race
  PROVE  TickerInv'
<1>1. ThreadInv(ticker)'
  BY ThreadStays DEF IInv, World, TickerInv, ThreadInv
<1>2. ~script'.ran => ~script.ran
  BY DEF Mild
<1>. QED
  BY <1>1, <1>2 DEF IInv, TickerInv

LEMMA RequestStays ==
  ASSUME IInv, Mild, NEW r \in Requests, reqs'[r] = reqs[r], lock' # lock => lock # r
  PROVE  ReqInv(r)'
<1>1. ThreadInv(reqs[r])'
  BY ThreadStays DEF IInv, World, ReqInv, ThreadInv
<1>. QED
  BY <1>1 DEF IInv, ReqInv

LEMMA IdleType == Idle \in Thread /\ Idle.rows = <<>> /\ Idle.boat = None /\ Idle.vs = None /\ Idle.pc = "idle"
<1>1. <<>> \in [{} -> Times]
  OBVIOUS
<1>2. <<>> \in RowsRead
  BY <1>1 DEF RowsRead
<1>3. Idle.race \in Row /\ 0 \in Times
  BY StartLineAssumption DEF Idle, Row, Times
<1>. QED
  BY <1>2, <1>3 DEF Idle, Thread, Pcs

LEMMA IdleInv == ThreadInv(Idle) /\ Idle.pc \notin Loaded /\ Idle.pc \notin InLock
BY IdleType DEF ThreadInv, Loaded, InLock

LEMMA RowsType ==
  ASSUME World
  PROVE  /\ Rows \in RowsRead
         /\ \A b \in DOMAIN Rows : b \in Entered /\ boats[b].sim # None /\ boats[b].route # "none"
<1>1. Rows \in [{x \in Entered : boats[x].sim # None} -> Times]
  BY DEF Rows, World, RowsOK, Boat
<1>2. {x \in Entered : boats[x].sim # None} \in SUBSET Boats
  BY DEF World, RowsOK
<1>. QED
  BY <1>1, <1>2 DEF World, RowsRead

-----------------------------------------------------------------------------
(***************************************************************************)
(* The ticker's steps.                                                     *)
(***************************************************************************)
LEMMA TickerReads ==
  ASSUME IInv, TickBegin \/ TickUnrouted \/ TickBusy \/ TickGate \/ TickSailRead
  PROVE  TickerInv' /\ ticker' \in Thread
<1> USE DEF IInv, TickerInv, ThreadsOK, Pcs
<1>0. World' /\ Mild /\ script' = script /\ race' = race /\ boats' = boats /\ Entered' = Entered
  BY Quiet DEF TickBegin, TickUnrouted, TickBusy, TickGate, TickSailRead, Entered
<1>1. Open' = Open
  BY DEF TickBegin, TickUnrouted, TickBusy, TickGate, TickSailRead, Open, SeenBy, GateApplies, Tracked
<1>2. ticker \in Thread /\ race \in Row /\ now \in Times /\ RowsOK
  BY DEF ThreadInv, World, RowsOK
<1>3. CASE TickBegin
  <2>1. ticker' \in Thread /\ ticker'.pc = "unrouted" /\ ticker'.race = race
        /\ ticker'.boat = None /\ ticker'.vs = None /\ ticker'.rows = <<>>
    BY <1>2, <1>3, IdleType DEF TickBegin, Thread
  <2>. QED
    BY <1>0, <1>3, <2>1 DEF TickBegin, ThreadInv
<1>4. CASE TickUnrouted
  <2>1. Batch(ticker) \in SUBSET Boats /\ VirtualStart(ticker.race) \in Times \cup {None}
    BY <1>2, VirtualStartType DEF Batch, RowsOK, Thread
  <2>2. /\ ticker' \in Thread /\ ticker'.pc \in {"gate", "dock"} /\ ticker'.race = ticker.race
        /\ ticker'.boat = ticker.boat /\ ticker'.rows = ticker.rows
        /\ ticker'.vs \in {ticker.vs, VirtualStart(ticker.race)}
    BY <1>2, <1>4, <2>1 DEF TickUnrouted, Thread
  <2>3. ~script.ran /\ VirtualStart(ticker.race) # None => Open
    BY <1>2, <1>4, StartFromGate DEF TickUnrouted, World
  <2>. QED
    BY <1>0, <1>1, <1>4, <2>2, <2>3 DEF TickUnrouted, ThreadInv
<1>5. CASE TickBusy
  <2>1. /\ ticker' \in Thread /\ ticker'.pc = "gate" /\ ticker'.race = ticker.race
        /\ ticker'.boat = ticker.boat /\ ticker'.rows = ticker.rows /\ ticker'.vs = None
    BY <1>2, <1>5 DEF TickBusy, Thread
  <2>. QED
    BY <1>0, <1>5, <2>1 DEF TickBusy, ThreadInv, Loaded
<1>6. CASE TickGate
  <2>1. CASE GateOpens(ticker.race)
    <3>1. PICK t \in Times : t = OpenAt(ticker.race) /\ t # None
      BY <1>2, <2>1, VirtualStartType DEF GateOpens, Thread
    <3>2. /\ ticker' \in Thread /\ ticker'.pc = "open" /\ ticker'.race = ticker.race
          /\ ticker'.boat = ticker.boat /\ ticker'.rows = ticker.rows
          /\ ticker'.vs = t
      BY <1>2, <1>6, <2>1, <3>1 DEF TickGate, Thread
    <3>3. ~script.ran => Open
      BY <1>2, <1>6, <2>1, StartFromGate DEF TickGate, GateOpens, VirtualStart, World
    <3>. QED
      BY <1>0, <1>1, <1>6, <2>1, <3>1, <3>2, <3>3 DEF TickGate, GateOpens, ThreadInv, Loaded
  <2>2. CASE ~GateOpens(ticker.race)
    <3>1. ticker' \in Thread /\ ticker'.pc = "sail" /\ ticker'.boat = None /\ ticker'.vs = None
          /\ ticker'.rows = <<>>
      BY <1>2, <1>6, <2>2, IdleType DEF TickGate, ToSail, Thread
    <3>. QED
      BY <1>0, <1>6, <3>1 DEF TickGate, ThreadInv, Loaded
  <2>. QED
    BY <2>1, <2>2
<1>7. CASE TickSailRead
  <2>1. ticker' \in Thread /\ ticker'.pc = "sailing" /\ ticker'.boat = ticker.boat
        /\ ticker'.vs = ticker.vs /\ ticker'.rows = Rows
    BY <1>2, <1>7, RowsType DEF TickSailRead, Thread
  <2>. QED
    BY <1>0, <1>1, <1>7, <2>1, RowsType DEF TickSailRead, ThreadInv, Loaded
<1>. QED
  BY <1>3, <1>4, <1>5, <1>6, <1>7

LEMMA TickerWrites ==
  ASSUME IInv, TickDefault \/ OpenGate \/ TickSailWrite
  PROVE  TickerInv' /\ ticker' \in Thread /\ World' /\ Mild
<1> USE DEF IInv, TickerInv, ThreadsOK
<1>1. ticker \in Thread
  BY DEF ThreadInv
<1>2. CASE TickDefault
  <2>1. World' /\ Mild
    BY <1>2, Docking DEF TickDefault
  <2>2. /\ ticker' \in Thread /\ ticker'.pc = "gate" /\ ticker'.race = ticker.race
        /\ ticker'.boat = ticker.boat /\ ticker'.rows = ticker.rows /\ ticker'.vs = None
    BY <1>1, <1>2 DEF TickDefault, Thread, Pcs
  <2>3. \A b \in DOMAIN ticker.rows : b \in Entered' /\ boats'[b].route # "none"
        /\ (~script'.ran => boats'[b].sim # None)
    BY <2>1 DEF ThreadInv, Mild
  <2>. QED
    BY <1>2, <2>1, <2>2, <2>3 DEF TickDefault, ThreadInv, Loaded, Mild
<1>3. CASE OpenGate
  <2>1. World' /\ Mild
    BY <1>3, Opening
  <2>2. ticker' \in Thread /\ ticker'.pc = "sail" /\ ticker'.boat = None /\ ticker'.vs = None
        /\ ticker'.rows = <<>>
    BY <1>1, <1>3, IdleType DEF OpenGate, ToSail, Thread, Pcs
  <2>3. lock' # "ticker"
    BY <1>3 DEF OpenGate
  <2>4. ThreadInv(ticker)'
    BY <2>2 DEF ThreadInv, Loaded
  <2>. QED
    BY <2>1, <2>2, <2>3, <2>4
<1>4. CASE TickSailWrite
  <2>1. World' /\ Mild
    BY <1>4, Sailing, StartLineAssumption DEF TickSailWrite
  <2>2. ticker' \in Thread /\ ticker'.pc = "idle" /\ ticker'.boat = None /\ ticker'.vs = None
        /\ ticker'.rows = <<>> /\ lock' = "free"
    BY <1>4, IdleType DEF TickSailWrite
  <2>3. ThreadInv(ticker)'
    BY <2>2 DEF ThreadInv, Loaded
  <2>. QED
    BY <2>1, <2>2, <2>3
<1>. QED
  BY <1>2, <1>3, <1>4

-----------------------------------------------------------------------------
(***************************************************************************)
(* A request's steps.                                                      *)
(***************************************************************************)
LEMMA RequestReads ==
  ASSUME IInv, NEW r \in Requests,
         ReqBoat(r) \/ ReqRace(r) \/ ReqLock(r) \/ ReqBusy(r) \/ ReqUnrouted(r)
           \/ ReqReread(r) \/ ReqVirtualStart(r) \/ ReqSailRead(r)
  PROVE  ReqInv(r)' /\ reqs'[r] \in Thread /\ World' /\ Mild
<1> USE DEF IInv, ReqInv, ThreadsOK, Goes, Pcs
<1>0. /\ World' /\ Mild /\ script' = script /\ race' = race /\ boats' = boats /\ Entered' = Entered
      /\ reqs' = [reqs EXCEPT ![r] = reqs'[r]]
  <2>1. UNCHANGED <<race, boats, fixes, script>> /\ \E y : reqs' = [reqs EXCEPT ![r] = y]
    BY DEF ReqBoat, ReqRace, ReqLock, ReqBusy, ReqUnrouted, ReqReread, ReqVirtualStart, ReqSailRead
  <2>. QED
    BY <2>1, Quiet DEF Entered
<1>1. Open' = Open
  BY DEF ReqBoat, ReqRace, ReqLock, ReqBusy, ReqUnrouted, ReqReread, ReqVirtualStart, ReqSailRead,
         Open, SeenBy, GateApplies, Tracked
<1>2. reqs[r] \in Thread /\ race \in Row /\ now \in Times /\ RowsOK
  BY DEF ThreadInv, World, RowsOK
<1>3. CASE ReqBoat(r)
  <2>1. PICK b \in Entered : reqs'[r] = [Idle EXCEPT !.pc = "race", !.boat = b, !.sim = boats[b].sim]
    BY <1>2, <1>3 DEF ReqBoat
  <2>2. b \in Boats /\ b # None /\ boats[b].sim \in Times \cup {None}
    BY <1>2, StartLineAssumption DEF RowsOK, Boat
  <2>3. /\ reqs'[r] \in Thread /\ reqs'[r].pc = "race" /\ reqs'[r].boat = b
        /\ reqs'[r].vs = None /\ reqs'[r].rows = <<>>
    BY <2>1, <2>2, IdleType DEF Thread
  <2>. QED
    BY <1>0, <2>2, <2>3 DEF ThreadInv, Loaded, InLock
<1>4. CASE ReqRace(r)
  <2>1. /\ reqs'[r] \in Thread /\ reqs'[r].pc = "lock" /\ reqs'[r].boat = reqs[r].boat
        /\ reqs'[r].race = race /\ reqs'[r].vs = reqs[r].vs /\ reqs'[r].rows = reqs[r].rows
    BY <1>2, <1>4 DEF ReqRace, Thread
  <2>. QED
    BY <1>0, <1>1, <1>4, <2>1 DEF ReqRace, ThreadInv, Loaded, InLock
<1>5. CASE ReqLock(r)
  <2>1. /\ reqs'[r] \in Thread /\ reqs'[r].pc \in {"unrouted", "start"} /\ reqs'[r].boat = reqs[r].boat
        /\ reqs'[r].race = reqs[r].race /\ reqs'[r].vs = reqs[r].vs /\ reqs'[r].rows = reqs[r].rows
    BY <1>2, <1>5 DEF ReqLock, Thread
  <2>. QED
    BY <1>0, <1>1, <1>5, <2>1 DEF ReqLock, ThreadInv, Loaded, InLock
<1>6. CASE ReqBusy(r)
  <2>1. /\ reqs'[r] \in Thread /\ reqs'[r].pc = "done" /\ reqs'[r].boat = None
        /\ reqs'[r].vs = None /\ reqs'[r].rows = <<>>
    BY <1>2, <1>6, IdleType DEF ReqBusy, Thread
  <2>. QED
    BY <1>0, <2>1 DEF ThreadInv, Loaded, InLock
<1>7. CASE ReqUnrouted(r)
  <2>1. Batch(reqs[r]) \in SUBSET Boats /\ VirtualStart(reqs[r].race) \in Times \cup {None}
    BY <1>2, VirtualStartType DEF Batch, RowsOK, Thread
  <2>2. /\ reqs'[r] \in Thread /\ reqs'[r].pc \in {"reread", "dock"} /\ reqs'[r].race = reqs[r].race
        /\ reqs'[r].boat = reqs[r].boat /\ reqs'[r].rows = reqs[r].rows
        /\ reqs'[r].vs \in {reqs[r].vs, VirtualStart(reqs[r].race)}
    BY <1>2, <1>7, <2>1 DEF ReqUnrouted, Thread
  <2>3. ~script.ran /\ VirtualStart(reqs[r].race) # None => Open
    BY <1>2, <1>7, StartFromGate DEF ReqUnrouted, World, ThreadInv, Loaded
  <2>. QED
    BY <1>0, <1>1, <1>7, <2>2, <2>3 DEF ReqUnrouted, ThreadInv, Loaded, InLock
<1>8. CASE ReqReread(r)
  <2>1. boats[reqs[r].boat].sim \in Times \cup {None}
    BY <1>2, <1>8 DEF ReqReread, ThreadInv, RowsOK, Boat
  <2>2. /\ reqs'[r] \in Thread /\ reqs'[r].pc = "start" /\ reqs'[r].boat = reqs[r].boat
        /\ reqs'[r].race = reqs[r].race /\ reqs'[r].vs = reqs[r].vs /\ reqs'[r].rows = reqs[r].rows
    BY <1>2, <1>8, <2>1 DEF ReqReread, Thread
  <2>. QED
    BY <1>0, <1>1, <1>8, <2>2 DEF ReqReread, ThreadInv, Loaded, InLock
<1>9. CASE ReqVirtualStart(r)
  <2>1. VirtualStart(reqs[r].race) \in Times \cup {None}
    BY <1>2, VirtualStartType DEF Thread
  <2>2. /\ reqs'[r] \in Thread /\ reqs'[r].pc = "line" /\ reqs'[r].boat = reqs[r].boat
        /\ reqs'[r].race = reqs[r].race /\ reqs'[r].vs = VirtualStart(reqs[r].race)
        /\ reqs'[r].rows = reqs[r].rows
    BY <1>2, <1>9, <2>1 DEF ReqVirtualStart, Thread
  <2>3. ~script.ran /\ VirtualStart(reqs[r].race) # None => Open
    BY <1>2, <1>9, StartFromGate DEF ReqVirtualStart, World, ThreadInv, Loaded
  <2>. QED
    BY <1>0, <1>1, <1>9, <2>2, <2>3 DEF ReqVirtualStart, ThreadInv, Loaded, InLock
<1>10. CASE ReqSailRead(r)
  <2>1. /\ reqs'[r] \in Thread /\ reqs'[r].pc = "sailing" /\ reqs'[r].boat = reqs[r].boat
        /\ reqs'[r].vs = None /\ reqs'[r].rows = Rows
    BY <1>2, <1>10, RowsType, IdleType DEF ReqSailRead, Thread
  <2>. QED
    BY <1>0, <1>10, <2>1, RowsType DEF ReqSailRead, ThreadInv, Loaded, InLock
<1>. QED
  BY <1>0, <1>3, <1>4, <1>5, <1>6, <1>7, <1>8, <1>9, <1>10

LEMMA RequestWrites ==
  ASSUME IInv, NEW r \in Requests,
         ReqDefault(r) \/ ReqLeaves(r) \/ ReqLine(r) \/ ReqSailWrite(r) \/ ReqSwap(r)
  PROVE  ReqInv(r)' /\ reqs'[r] \in Thread /\ World' /\ Mild
<1> USE DEF IInv, ReqInv, ThreadsOK, Goes, Reply, Pcs
<1>1. reqs[r] \in Thread /\ (reqs[r].pc \notin {"idle", "done"} => reqs[r].boat \in Entered)
  BY DEF ThreadInv
<1>2. ASSUME reqs'[r] = [Idle EXCEPT !.pc = "done"], World', Mild PROVE ReqInv(r)' /\ reqs'[r] \in Thread
  <2>1. /\ reqs'[r] \in Thread /\ reqs'[r].pc = "done" /\ reqs'[r].boat = None
        /\ reqs'[r].vs = None /\ reqs'[r].rows = <<>>
    BY <1>2, IdleType DEF Thread
  <2>. QED
    BY <2>1 DEF ThreadInv, Loaded, InLock
<1>3. CASE ReqDefault(r)
  <2>1. World' /\ Mild
    BY <1>3, Docking DEF ReqDefault
  <2>2. CASE Taken(reqs[r].batch) = {}
    <3>1. /\ reqs'[r] \in Thread /\ reqs'[r].pc = "reread" /\ reqs'[r].race = reqs[r].race
          /\ reqs'[r].boat = reqs[r].boat /\ reqs'[r].rows = reqs[r].rows /\ reqs'[r].vs = None
      <4>1. reqs'[r] = [reqs[r] EXCEPT !.pc = "reread", !.batch = {}, !.vs = None]
        BY <1>3, <2>2 DEF ReqDefault
      <4>. QED
        BY <1>1, <4>1 DEF Thread
    <3>2. \A b \in DOMAIN reqs[r].rows : b \in Entered' /\ boats'[b].route # "none"
          /\ (~script'.ran => boats'[b].sim # None)
      BY <2>1 DEF ThreadInv, Mild
    <3>3. race' = race /\ script' = script /\ lock' = lock /\ Entered' = Entered /\ reqs[r].pc = "dock"
      BY <1>3, <2>1, <2>2 DEF ReqDefault, Mild
    <3>4. ThreadInv(reqs[r])'
      BY <1>1, <3>1, <3>2, <3>3 DEF ThreadInv, Loaded
    <3>. QED
      BY <1>1, <2>1, <3>1, <3>3, <3>4 DEF InLock
  <2>3. CASE Taken(reqs[r].batch) # {}
    BY <1>2, <1>3, <2>1, <2>3 DEF ReqDefault
  <2>. QED
    BY <2>1, <2>2, <2>3
<1>4. CASE ReqLeaves(r)
  <2>1. PICK b \in Entered : b = reqs[r].boat
    BY <1>1, <1>4 DEF ReqLeaves
  <2>2. PICK t \in Times : t = reqs[r].now /\ t # None
    BY <1>1, StartLineAssumption DEF Thread, Times
  <2>3. PICK to \in Boat : to = [sim |-> t, started |-> t, route |-> "own"]
    BY DEF Boat
  <2>4. boats' = [boats EXCEPT ![b] = to] /\ UNCHANGED <<race, fixes, script>>
    BY <1>4, <2>1, <2>2, <2>3 DEF ReqLeaves, OnItsRoute
  <2>5. ~script.ran => race.rolling
    BY <1>4 DEF ReqLeaves, ThreadInv, Loaded, World, RowsOK, Row
  <2>6. World' /\ Mild
    BY <2>2, <2>3, <2>4, <2>5, OneBoat
  <2>. QED
    BY <1>2, <1>4, <2>6 DEF ReqLeaves
<1>5. CASE ReqLine(r)
  <2>1. PICK b \in Entered : b = reqs[r].boat
    BY <1>1, <1>5 DEF ReqLine
  <2>2. PICK t \in Times \cup {None} : t = reqs[r].vs
    BY <1>1 DEF Thread
  <2>3. PICK to \in Boat : /\ to.route # "none" /\ boats' = [boats EXCEPT ![b] = to]
                           /\ to.sim = (IF t = None THEN boats[b].sim ELSE t)
    <3>1. CASE t = None
      <4>1. [boats[b] EXCEPT !.route = "own"] \in Boat
        BY DEF World, RowsOK, Boat
      <4>. QED
        BY <1>5, <2>1, <2>2, <3>1, <4>1 DEF ReqLine, World, RowsOK, Boat
    <3>2. CASE t # None
      <4>1. [sim |-> t, started |-> t, route |-> "own"] \in Boat
        BY DEF Boat
      <4>. QED
        BY <1>5, <2>1, <2>2, <3>2, <4>1 DEF ReqLine, OnItsRoute
    <3>. QED
      BY <3>1, <3>2
  <2>4. ~script.ran /\ t # None => Open
    BY <2>2 DEF ThreadInv
  <2>5. UNCHANGED <<race, fixes, script>>
    BY <1>5 DEF ReqLine
  <2>6. World' /\ Mild
    BY <2>3, <2>4, <2>5, OneBoat
  <2>. QED
    BY <1>2, <1>5, <2>6 DEF ReqLine
<1>6. CASE ReqSailWrite(r)
  <2>1. World' /\ Mild
    BY <1>6, Sailing, StartLineAssumption DEF ReqSailWrite
  <2>2. /\ reqs'[r] \in Thread /\ reqs'[r].pc = "swap" /\ reqs'[r].boat = reqs[r].boat
        /\ reqs'[r].vs = None /\ reqs'[r].rows = <<>>
    BY <1>1, <1>6, IdleType DEF ReqSailWrite, Thread
  <2>3. lock' = lock /\ Entered' = Entered
    BY <1>6, <2>1 DEF ReqSailWrite, Mild
  <2>. QED
    BY <1>1, <1>6, <2>1, <2>2, <2>3 DEF ReqSailWrite, ThreadInv, Loaded, InLock
<1>7. CASE ReqSwap(r)
  <2>1. PICK b \in Entered : b = reqs[r].boat
    BY <1>1, <1>7 DEF ReqSwap
  <2>2. PICK to \in Boat : to.route # "none" /\ to.sim = boats[b].sim /\ boats' = [boats EXCEPT ![b] = to]
    <3>1. [boats[b] EXCEPT !.route = "own"] \in Boat
      BY DEF World, RowsOK, Boat
    <3>. QED
      BY <1>7, <2>1, <3>1 DEF ReqSwap, World, RowsOK, Boat
  <2>3. World' /\ Mild
    BY <1>7, <2>2, OneBoat DEF ReqSwap
  <2>. QED
    BY <1>2, <1>7, <2>3 DEF ReqSwap
<1>. QED
  BY <1>3, <1>4, <1>5, <1>6, <1>7

-----------------------------------------------------------------------------
(***************************************************************************)
(* The invariant: it holds in the beginning and every step keeps it.       *)
(***************************************************************************)
LEMMA InitIInv == Init => IInv
<1> SUFFICES ASSUME Init PROVE IInv
  OBVIOUS
<1>1. PICK setup \in Setups :
        /\ race = [gun |-> Gun, vs |-> None, needed |-> setup.needed, rolling |-> setup.rolling]
        /\ boats = [b \in setup.boats |-> [sim |-> None, started |-> None, route |-> "none"]]
        /\ fixes = [rb \in setup.real |-> {}]
        /\ script = [pc |-> "idle", race |-> Idle.race, sailing |-> FALSE, left |-> setup.scripts, ran |-> FALSE]
        /\ crashes = setup.crashes
        /\ reqs = [r \in Requests |-> IF r \in setup.requests THEN Idle ELSE [Idle EXCEPT !.pc = "done"]]
  BY DEF Init
<1>2. now = 0 /\ lock = "free" /\ ticker = Idle
  BY DEF Init
<1>3. /\ setup.boats \subseteq Boats /\ setup.real \subseteq RealBoats /\ setup.needed \in Nat
      /\ setup.rolling \in BOOLEAN /\ setup.scripts \in Nat /\ setup.crashes \in Nat
  BY StartLineAssumption
<1>4. Gun \in Times /\ 0 \in Times
  BY StartLineAssumption DEF Times
<1>5. RowsOK
  BY <1>1, <1>3, <1>4 DEF RowsOK, Row, Boat, Entered, Tracked
<1>6. ScriptOK
  BY <1>1, <1>3, IdleType DEF ScriptOK, Thread
<1>7. World
  BY <1>1, <1>5, <1>6 DEF World, Entered, WaitsForFleet
<1>8. [Idle EXCEPT !.pc = "done"] \in Thread /\ ThreadInv([Idle EXCEPT !.pc = "done"])
  BY IdleType DEF ThreadInv, Thread, Pcs, Loaded
<1>9. ThreadsOK
  BY <1>1, <1>2, <1>8, IdleType DEF ThreadsOK
<1>10. TickerInv
  BY <1>2, IdleType, IdleInv DEF TickerInv
<1>11. ASSUME NEW r \in Requests PROVE ReqInv(r)
  <2>1. PICK x : x = reqs[r]
    OBVIOUS
  <2>2. x = Idle \/ x = [Idle EXCEPT !.pc = "done"]
    BY <1>1, <1>11, <2>1
  <2>3. x.pc \in {"idle", "done"} /\ ThreadInv(x)
    BY <1>8, <2>2, IdleType, IdleInv DEF Thread
  <2>. QED
    BY <2>1, <2>3 DEF ReqInv, InLock
<1>. QED
  BY <1>1, <1>2, <1>3, <1>4, <1>7, <1>9, <1>10, <1>11 DEF IInv

LEMMA NextIInv == IInv /\ [Next]_vars => IInv'
<1> SUFFICES ASSUME IInv, [Next]_vars PROVE IInv'
  OBVIOUS
<1>1. CASE TickStep
  <2>1. /\ TickerInv' /\ ticker' \in Thread /\ World' /\ Mild
        /\ reqs' = reqs /\ now' = now /\ crashes' = crashes
        /\ lock' # lock => lock \in {"free", "ticker"} /\ lock' \in {"free", "ticker"}
    <3>1. CASE TickBegin \/ TickUnrouted \/ TickBusy \/ TickGate \/ TickSailRead
      <4>1. UNCHANGED <<race, boats, fixes, script, reqs, now, crashes>> /\ (lock' = lock \/ (lock = "free" /\ lock' = "ticker"))
        BY <3>1 DEF TickBegin, TickUnrouted, TickBusy, TickGate, TickSailRead
      <4>. QED
        BY <3>1, <4>1, TickerReads, Quiet DEF IInv
    <3>2. CASE TickDefault \/ OpenGate \/ TickSailWrite
      <4>1. UNCHANGED <<reqs, now, crashes>> /\ (lock' = lock \/ (lock = "ticker" /\ lock' = "free"))
        BY <3>2 DEF TickDefault, OpenGate, TickSailWrite, IInv, TickerInv
      <4>. QED
        BY <3>2, <4>1, TickerWrites
    <3>. QED
      BY <1>1, <3>1, <3>2 DEF TickStep
  <2>2. \A r \in Requests : ReqInv(r)'
    BY <2>1, RequestStays, StartLineAssumption
  <2>. QED
    BY <2>1, <2>2 DEF IInv, ThreadsOK
<1>2. ASSUME NEW r \in Requests, ReqStep(r) PROVE IInv'
  <2>1. /\ ReqInv(r)' /\ reqs'[r] \in Thread /\ World' /\ Mild
    BY <1>2, RequestReads, RequestWrites DEF ReqStep
  <2>2. /\ ticker' = ticker /\ now' = now /\ crashes' = crashes /\ race' = race
        /\ \E y : reqs' = [reqs EXCEPT ![r] = y]
        /\ lock' # lock => lock \in {"free", r} /\ lock' \in {"free", r}
    <3>1. CASE ReqBoat(r) \/ ReqRace(r) \/ ReqLock(r) \/ ReqBusy(r) \/ ReqUnrouted(r)
               \/ ReqReread(r) \/ ReqVirtualStart(r) \/ ReqSailRead(r)
      BY <3>1 DEF ReqBoat, ReqRace, ReqLock, ReqBusy, ReqUnrouted, ReqReread, ReqVirtualStart,
                  ReqSailRead, Goes
    <3>2. CASE ReqDefault(r) \/ ReqLeaves(r) \/ ReqLine(r) \/ ReqSailWrite(r) \/ ReqSwap(r)
      <4>1. reqs[r].pc \in InLock
        BY <3>2 DEF ReqDefault, ReqLeaves, ReqLine, ReqSailWrite, ReqSwap, InLock
      <4>2. lock = r
        BY <4>1 DEF IInv, ReqInv
      <4>3. lock' \in {lock, "free"}
        BY <3>2 DEF ReqDefault, ReqLeaves, ReqLine, ReqSailWrite, ReqSwap, Goes, Reply
      <4>4. /\ ticker' = ticker /\ now' = now /\ crashes' = crashes /\ race' = race
            /\ \E y : reqs' = [reqs EXCEPT ![r] = y]
        BY <3>2 DEF ReqDefault, ReqLeaves, ReqLine, ReqSailWrite, ReqSwap, Goes, Reply
      <4>. QED
        BY <4>2, <4>3, <4>4
    <3>. QED
      BY <1>2, <3>1, <3>2 DEF ReqStep
  <2>3. TickerInv'
    BY <2>1, <2>2, TickerStays, StartLineAssumption
  <2>4. reqs' = [reqs EXCEPT ![r] = reqs'[r]] /\ reqs' \in [Requests -> Thread]
    BY <2>1, <2>2 DEF IInv, ThreadsOK
  <2>5. ASSUME NEW q \in Requests PROVE ReqInv(q)'
    <3>1. CASE q = r
      BY <2>1, <3>1
    <3>2. CASE q # r
      <4>1. reqs'[q] = reqs[q] /\ (lock' # lock => lock # q)
        BY <2>2, <2>5, <3>2, StartLineAssumption
      <4>. QED
        BY <2>1, <2>5, <4>1, RequestStays
    <3>. QED
      BY <3>1, <3>2
  <2>6. lock' \in {"free", "ticker"} \cup Requests
    BY <1>2, <2>2 DEF IInv, ThreadsOK
  <2>. QED
    BY <2>1, <2>2, <2>3, <2>4, <2>5, <2>6 DEF IInv, ThreadsOK
<1>3. ASSUME World', Mild, script'.ran \/ race' = race,
             UNCHANGED <<lock, ticker, reqs, crashes>>, now' \in Times
      PROVE  IInv'
  <2>1. TickerInv' /\ \A r \in Requests : ReqInv(r)'
    BY <1>3, TickerStays, RequestStays
  <2>. QED
    BY <1>3, <2>1 DEF IInv, ThreadsOK
<1>4. CASE Clock
  <2>1. now' \in Times
    BY <1>4, StartLineAssumption DEF Clock, IInv, Times
  <2>. QED
    BY <1>3, <1>4, <2>1, Quiet DEF Clock, IInv
<1>5. CASE FixArrives
  BY <1>3, <1>5, Tracking DEF FixArrives, IInv
<1>6. CASE ScriptRead
  <2>1. PICK kind \in Scripts :
          script' = [pc |-> kind, race |-> race, left |-> script.left - 1, ran |-> TRUE,
                     sailing |-> \E b \in Entered : boats[b].sim # None /\ boats[b].sim > race.gun]
    BY <1>6 DEF ScriptRead
  <2>2. script.left - 1 \in Nat
    BY <1>6 DEF ScriptRead, IInv, World, ScriptOK
  <2>3. (\E b \in Entered : boats[b].sim # None /\ boats[b].sim > race.gun) \in BOOLEAN
    OBVIOUS
  <2>4. ScriptOK' /\ script'.ran
    BY <2>1, <2>2, <2>3 DEF ScriptOK, IInv, World, RowsOK
  <2>5. UNCHANGED <<race, boats, fixes, now, lock, ticker, reqs, crashes>>
    BY <1>6 DEF ScriptRead
  <2>6. World' /\ Mild
    BY <2>4, <2>5 DEF World, Mild, IInv, RowsOK, Entered, Tracked
  <2>. QED
    BY <1>3, <2>4, <2>5, <2>6 DEF IInv
<1>7. CASE SetVirtualStart \/ SetStart \/ SetFleetGate \/ RestartBoat
  <2>1. script.ran /\ script'.ran /\ UNCHANGED <<lock, ticker, reqs, crashes, now>>
    BY <1>7 DEF SetVirtualStart, SetStart, SetFleetGate, RestartBoat, ScriptEnds, IInv, World, ScriptOK
  <2>. QED
    BY <1>3, <1>7, <2>1, Committee DEF IInv
<1>8. CASE Crash
  <2>1. World' /\ Mild
    BY <1>8, Quiet DEF Crash, IInv
  <2>2. crashes' \in Nat
    BY <1>8 DEF Crash, IInv
  <2>3. [Idle EXCEPT !.pc = "done"] \in Thread
    BY IdleType DEF Thread, Pcs
  <2>4. ThreadsOK'
    BY <1>8, <2>3, IdleType DEF Crash, ThreadsOK
  <2>5. ThreadInv(ticker)'
    BY <1>8, IdleType DEF Crash, ThreadInv, Loaded
  <2>6. TickerInv'
    <3>1. ticker'.pc = "idle" /\ lock' = "free"
      BY <1>8, IdleType DEF Crash
    <3>. QED
      BY <2>5, <3>1 DEF TickerInv
  <2>7. ASSUME NEW r \in Requests PROVE ReqInv(r)'
    <3>1. /\ reqs'[r] \in Thread /\ reqs'[r].pc \in {"idle", "done"} /\ reqs'[r].boat = None
          /\ reqs'[r].vs = None /\ reqs'[r].rows = <<>>
      BY <1>8, <2>3, <2>7, IdleType DEF Crash, Thread
    <3>. QED
      BY <3>1 DEF ReqInv, ThreadInv, Loaded, InLock
  <2>. QED
    BY <1>8, <2>1, <2>2, <2>4, <2>6, <2>7 DEF Crash, IInv
<1>9. CASE UNCHANGED vars
  BY <1>3, <1>9, Quiet DEF vars, IInv
<1>. QED
  BY <1>1, <1>2, <1>4, <1>5, <1>6, <1>7, <1>8, <1>9 DEF Next, ScriptStep

LEMMA Always == Spec => []IInv
<1>. QED
  BY InitIInv, NextIInv, PTL DEF Spec

\* Of the moments the start has been at only fixes make more.
TheStartType == RowsOK => TheStart \in Times \cup {None}

LEMMA TheStartTyped == TheStartType
<1>1. SUFFICES ASSUME RowsOK PROVE TheStart \in Times \cup {None}
  BY DEF TheStartType
<1>2. PICK row \in Row : row = Unrecorded
  BY <1>1 DEF Unrecorded, RowsOK, Row
<1>. QED
  BY <1>1, <1>2, VirtualStartType DEF TheStart

LEMMA TheStartTypedNext == TheStartType'
BY TheStartTyped, PTL

LEMMA OpeningsSame ==
  ASSUME [Next]_vars, ~FixArrives, ~ScriptRead
  PROVE  openings' = openings
BY DEF Next, vars, TickStep, TickBegin, TickUnrouted, TickBusy, TickGate, TickSailRead,
       TickDefault, OpenGate, TickSailWrite, ReqStep, ReqBoat, ReqRace, ReqLock, ReqBusy,
       ReqUnrouted, ReqReread, ReqVirtualStart, ReqSailRead, ReqDefault, ReqLeaves, ReqLine,
       ReqSailWrite, ReqSwap, ScriptStep, SetVirtualStart, SetStart, SetFleetGate,
       RestartBoat, Clock, Crash

OpeningsOK == openings \subseteq Times

LEMMA OpeningsStay == IInv /\ OpeningsOK /\ [Next]_vars => OpeningsOK'
<1> SUFFICES ASSUME IInv, OpeningsOK, [Next]_vars PROVE OpeningsOK'
  OBVIOUS
<1>1. CASE FixArrives
  <2>1. RowsOK'
    BY NextIInv DEF IInv, World
  <2>2. TheStart' \in Times \cup {None}
    BY <2>1, TheStartTypedNext DEF TheStartType, Times
  <2>3. openings' \subseteq openings \cup ({TheStart'} \ {None})
    BY <1>1 DEF FixArrives
  <2>. QED
    BY <2>2, <2>3 DEF OpeningsOK, Times
<1>2. CASE ScriptRead
  BY <1>2 DEF ScriptRead, OpeningsOK
<1>3. CASE ~FixArrives /\ ~ScriptRead
  BY <1>3, OpeningsSame DEF OpeningsOK, Times
<1>. QED
  BY <1>1, <1>2, <1>3

LEMMA AlwaysOpenings == Spec => []OpeningsOK
<1>1. Init => OpeningsOK
  BY StartLineAssumption DEF Init, OpeningsOK
<1>. QED
  BY <1>1, OpeningsStay, Always, PTL DEF Spec

-----------------------------------------------------------------------------
(***************************************************************************)
(* A boat that has a start has a route, and who writes boats from rows it  *)
(* has read holds the engine lock.                                         *)
(***************************************************************************)
THEOREM NobodySailsWithoutRoute == Spec => []SailsWithRoute
<1>1. IInv /\ OpeningsOK => SailsWithRoute
  BY DEF IInv, World, TypeOK, TickerInv, ReqInv, SailsWithRoute, Inside, InLock, OpeningsOK
<1>. QED
  BY <1>1, Always, AlwaysOpenings, PTL

(***************************************************************************)
(* No boat of a race that waits for its fleet is given a start before      *)
(* enough of the fleet has been seen.                                      *)
(***************************************************************************)
THEOREM TheGateHolds == Spec => []WaitsForFleet
<1>1. IInv => WaitsForFleet
  <2>1. SUFFICES ASSUME IInv, NEW b \in Entered, boats[b].sim # None, ~race.rolling, ~script.ran
                 PROVE  Open
    BY DEF WaitsForFleet, Open
  <2>. QED
    BY <2>1 DEF IInv, World, WaitsForFleet, Open
<1>. QED
  BY <1>1, Always, PTL

(***************************************************************************)
(* A start on record is not changed by what the tracker reports later, and *)
(* a navigator's own route is never replaced by the default course.        *)
(***************************************************************************)
OwnKept == \A b \in Entered : boats[b].route = "own" => boats'[b].route = "own"

LEMMA DockingKeepsOwn ==
  ASSUME IInv, NEW x, ThreadInv(x), boats' = DefaultCourse(x.batch, x.vs)
  PROVE  OwnKept
<1>1. x.batch \in SUBSET Boats
  BY DEF ThreadInv, Thread
<1>2. ASSUME NEW b \in Entered, boats[b].route = "own" PROVE boats'[b].route = "own"
  <2>1. b \notin Docked(x.batch)
    BY <1>1, <1>2, DockedUnrouted
  <2>. QED
    BY <1>2, <2>1 DEF DefaultCourse
<1>. QED
  BY <1>2 DEF OwnKept

LEMMA OthersKeepOwn ==
  ASSUME IInv, [Next]_vars,
         ~TickDefault, \A r \in Requests : ~ReqDefault(r)
  PROVE  OwnKept
<1> USE DEF IInv, World, RowsOK, Boat, OwnKept
<1>1. CASE UNCHANGED boats
  BY <1>1
<1>2. ASSUME NEW x, ThreadInv(x), NEW steps \in Nat, boats' = Sailed(x, steps) PROVE OwnKept
  BY <1>2 DEF Sailed
<1>3. CASE OpenGate
  BY <1>3 DEF OpenGate
<1>4. CASE TickSailWrite
  BY <1>2, <1>4, StartLineAssumption DEF TickSailWrite, TickerInv
<1>5. ASSUME NEW r \in Requests, ReqSailWrite(r) PROVE OwnKept
  BY <1>2, <1>5, StartLineAssumption DEF ReqSailWrite, ReqInv
<1>6. ASSUME NEW r \in Requests, ReqLeaves(r) \/ ReqLine(r) \/ ReqSwap(r) PROVE OwnKept
  BY <1>6 DEF ReqLeaves, ReqLine, ReqSwap, OnItsRoute
<1>7. CASE SetVirtualStart \/ SetStart \/ SetFleetGate
  <2>1. CASE SetVirtualStart
    BY <1>1, <2>1 DEF SetVirtualStart
  <2>2. CASE SetStart
    <3>1. CASE script.sailing
      BY <1>1, <2>2, <3>1 DEF SetStart
    <3>2. CASE ~script.sailing
      <4>1. PICK t : boats' = [b \in Entered |-> IF boats[b].sim = None THEN boats[b]
                                                 ELSE [boats[b] EXCEPT !.sim = t]]
        BY <2>2, <3>2 DEF SetStart
      <4>. QED
        BY <4>1
    <3>. QED
      BY <3>1, <3>2
  <2>3. CASE SetFleetGate
    <3>1. PICK n : boats' = [b \in Entered |-> IF n = 0 /\ Waiting(b)
                                               THEN [boats[b] EXCEPT !.sim = Max({race.gun, now})]
                                               ELSE boats[b]]
      BY <2>3 DEF SetFleetGate
    <3>. QED
      BY <3>1
  <2>. QED
    BY <1>7, <2>1, <2>2, <2>3
<1>8. CASE RestartBoat
  BY <1>8 DEF RestartBoat
<1>9. CASE TickBegin \/ TickUnrouted \/ TickBusy \/ TickGate \/ TickSailRead
  BY <1>1, <1>9 DEF TickBegin, TickUnrouted, TickBusy, TickGate, TickSailRead
<1>10. ASSUME NEW r \in Requests,
              ReqBoat(r) \/ ReqRace(r) \/ ReqLock(r) \/ ReqBusy(r) \/ ReqUnrouted(r)
                \/ ReqReread(r) \/ ReqVirtualStart(r) \/ ReqSailRead(r)
       PROVE  OwnKept
  BY <1>1, <1>10 DEF ReqBoat, ReqRace, ReqLock, ReqBusy, ReqUnrouted, ReqReread, ReqVirtualStart, ReqSailRead
<1>11. CASE Clock \/ FixArrives \/ ScriptRead \/ Crash \/ UNCHANGED vars
  BY <1>1, <1>11 DEF Clock, FixArrives, ScriptRead, Crash, vars
<1>. QED
  BY <1>3, <1>4, <1>5, <1>6, <1>7, <1>8, <1>9, <1>10, <1>11 DEF Next, TickStep, ReqStep, ScriptStep

LEMMA RecordStands ==
  ASSUME IInv, [Next]_vars, race.vs # None, ~script.ran
  PROVE  race'.vs = race.vs
<1>1. ~OpenGate
  BY DEF OpenGate, IInv, TickerInv
<1>2. script.pc = "idle"
  BY DEF IInv, World
<1>3. ~(SetVirtualStart \/ SetStart \/ SetFleetGate \/ RestartBoat)
  BY <1>2 DEF SetVirtualStart, SetStart, SetFleetGate, RestartBoat
<1>4. CASE TickBegin \/ TickUnrouted \/ TickBusy \/ TickGate \/ TickSailRead \/ TickDefault \/ TickSailWrite
  BY <1>4 DEF TickBegin, TickUnrouted, TickBusy, TickGate, TickSailRead, TickDefault, TickSailWrite
<1>5. ASSUME NEW r \in Requests, ReqStep(r) PROVE race'.vs = race.vs
  BY <1>5 DEF ReqStep, ReqBoat, ReqRace, ReqLock, ReqBusy, ReqUnrouted, ReqReread, ReqVirtualStart,
              ReqSailRead, ReqDefault, ReqLeaves, ReqLine, ReqSailWrite, ReqSwap
<1>6. CASE Clock \/ FixArrives \/ ScriptRead \/ Crash \/ UNCHANGED vars
  BY <1>6 DEF Clock, FixArrives, ScriptRead, Crash, vars
<1>. QED
  BY <1>1, <1>3, <1>4, <1>5, <1>6 DEF Next, TickStep, ScriptStep

THEOREM DecisionsAreKept == Spec => DecisionsStand
<1>1. IInv /\ [Next]_vars => [/\ race.vs # None /\ ~script.ran => race'.vs = race.vs
                              /\ \A b \in Entered : boats[b].route = "own" => boats'[b].route = "own"]_vars
  <2> SUFFICES ASSUME IInv, [Next]_vars
               PROVE  /\ race.vs # None /\ ~script.ran => race'.vs = race.vs
                      /\ OwnKept
    BY DEF OwnKept
  <2>1. CASE TickDefault
    BY <2>1, DockingKeepsOwn, RecordStands DEF TickDefault, IInv, TickerInv
  <2>2. ASSUME NEW r \in Requests, ReqDefault(r) PROVE OwnKept
    BY <2>2, DockingKeepsOwn DEF ReqDefault, IInv, ReqInv
  <2>. QED
    BY <2>1, <2>2, OthersKeepOwn, RecordStands
<1>. QED
  BY <1>1, Always, PTL DEF Spec, DecisionsStand


-----------------------------------------------------------------------------
(***************************************************************************)
(* One start.  Whatever start a thread holds, a boat has or the race has   *)
(* on record is a moment the start has been at by the fixes that were in,  *)
(* and of those only fixes make more: one, without a late fix.             *)
(***************************************************************************)
Given(t) == t \in openings \cup {None}

Settled ==
  ~script.ran =>
    /\ Given(TheStart) /\ Given(race.vs) /\ Given(ticker.vs)
    /\ \A t \in openings : t >= race.gun
    /\ \A r \in Requests : Given(reqs[r].vs)
    /\ ~race.rolling => \A b \in Entered : Given(boats[b].started)

LEMMA StartIsGiven ==
  ASSUME RowsOK, Given(race.vs), Given(TheStart), NEW row \in {race, Unrecorded}
  PROVE  Given(VirtualStart(row))
<1>1. row.vs # None => row.vs = race.vs
  BY DEF Unrecorded, RowsOK, Row
<1>2. row.vs = None => row = Unrecorded
  BY DEF Unrecorded, RowsOK, Row
<1>. QED
  BY <1>1, <1>2 DEF Given, TheStart, VirtualStart

\* Without a script none of the committee's steps is taken.
LEMMA NoScript ==
  ASSUME IInv, ~script'.ran
  PROVE  ~(ScriptRead \/ SetVirtualStart \/ SetStart \/ SetFleetGate \/ RestartBoat)
<1>1. ~ScriptRead
  BY DEF ScriptRead
<1>2. ASSUME script.pc # "idle", ScriptEnds PROVE FALSE
  BY <1>2 DEF ScriptEnds, IInv, World, ScriptOK
<1>. QED
  BY <1>1, <1>2 DEF SetVirtualStart, SetStart, SetFleetGate, RestartBoat

LEMMA NextMild ==
  ASSUME IInv, [Next]_vars
  PROVE  Mild
<1> USE DEF IInv
<1>1. CASE TickStep
  <2>1. CASE TickBegin \/ TickUnrouted \/ TickBusy \/ TickGate \/ TickSailRead
    <3>1. UNCHANGED <<race, boats, fixes, script>>
      BY <2>1 DEF TickBegin, TickUnrouted, TickBusy, TickGate, TickSailRead
    <3>. QED
      BY <3>1, Quiet
  <2>2. CASE TickDefault \/ OpenGate \/ TickSailWrite
    BY <2>2, TickerWrites
  <2>. QED
    BY <1>1, <2>1, <2>2 DEF TickStep
<1>2. ASSUME NEW r \in Requests, ReqStep(r) PROVE Mild
  BY <1>2, RequestReads, RequestWrites DEF ReqStep
<1>3. CASE Clock \/ Crash \/ UNCHANGED vars
  <2>1. UNCHANGED <<race, boats, fixes, script>>
    BY <1>3 DEF Clock, Crash, vars
  <2>. QED
    BY <2>1, Quiet
<1>4. CASE FixArrives
  BY <1>4, Tracking
<1>5. CASE ScriptRead
  BY <1>5 DEF ScriptRead, Mild, Entered
<1>6. CASE SetVirtualStart \/ SetStart \/ SetFleetGate \/ RestartBoat
  BY <1>6, Committee
<1>. QED
  BY <1>1, <1>2, <1>3, <1>4, <1>5, <1>6 DEF Next, ScriptStep

\* No thread comes by another start than the race's.
LEMMA TickerGiven ==
  ASSUME IInv, Settled, TickStep, ~script.ran
  PROVE  /\ Given(race'.vs) /\ Given(ticker'.vs) /\ reqs' = reqs
         /\ ~race.rolling => \A b \in Entered : Given(boats'[b].started)
<1> USE DEF IInv, Settled
<1>1. /\ Given(None) /\ Given(ticker.vs) /\ Given(race.vs) /\ ticker \in Thread /\ Idle.vs = None
      /\ ~race.rolling => \A b \in Entered : Given(boats[b].started)
  BY IdleType DEF Given, ThreadsOK
<1>2. CASE TickBegin
  <2>1. ticker'.vs = None
    BY <1>2, IdleType DEF TickBegin, Thread
  <2>. QED
    BY <1>1, <1>2, <2>1 DEF TickBegin
<1>3. CASE TickUnrouted
  <2>1. Given(VirtualStart(ticker.race))
    BY <1>1, <1>3, StartIsGiven DEF TickUnrouted, TickerInv, World
  <2>2. ticker'.vs \in {ticker.vs, VirtualStart(ticker.race)}
    BY <1>1, <1>3 DEF TickUnrouted, Thread
  <2>. QED
    BY <1>1, <1>3, <2>1, <2>2 DEF TickUnrouted
<1>4. CASE TickBusy \/ TickDefault
  <2>1. ticker'.vs = None
    BY <1>1, <1>4 DEF TickBusy, TickDefault, Thread
  <2>2. ASSUME NEW b \in Entered PROVE boats'[b] = boats[b] \/ boats'[b].started = ticker.vs
    BY <1>4, <2>2 DEF TickBusy, TickDefault, DefaultCourse
  <2>. QED
    BY <1>1, <1>4, <2>1, <2>2 DEF TickBusy, TickDefault
<1>5. CASE TickGate
  <2>1. ASSUME GateOpens(ticker.race) PROVE Given(OpenAt(ticker.race))
    <3>1. Given(VirtualStart(ticker.race))
      BY <1>1, <1>5, StartIsGiven DEF TickGate, TickerInv, World
    <3>. QED
      BY <2>1, <3>1 DEF GateOpens, VirtualStart
  <2>2. ticker'.vs = IF GateOpens(ticker.race) THEN OpenAt(ticker.race) ELSE None
    BY <1>1, <1>5, IdleType DEF TickGate, ToSail, Thread
  <2>. QED
    BY <1>1, <1>5, <2>1, <2>2 DEF TickGate
<1>6. CASE OpenGate
  <2>1. ticker'.vs = None
    BY <1>6, IdleType DEF OpenGate, ToSail, Thread
  <2>2. race'.vs = ticker.vs
    BY <1>6 DEF OpenGate, World, RowsOK, Row
  <2>3. ASSUME NEW b \in Entered PROVE boats'[b] = boats[b] \/ boats'[b].started = ticker.vs
    BY <1>6, <2>3 DEF OpenGate, World, RowsOK, Boat
  <2>. QED
    BY <1>1, <1>6, <2>1, <2>2, <2>3 DEF OpenGate
<1>7. CASE TickSailRead \/ TickSailWrite
  <2>1. Given(ticker'.vs)
    BY <1>1, <1>7 DEF TickSailRead, TickSailWrite, Thread
  <2>2. ASSUME NEW b \in Entered PROVE boats'[b].started = boats[b].started
    BY <1>7, <2>2 DEF TickSailRead, TickSailWrite, Sailed, World, RowsOK, Boat
  <2>. QED
    BY <1>1, <1>7, <2>1, <2>2 DEF TickSailRead, TickSailWrite
<1>. QED
  BY <1>2, <1>3, <1>4, <1>5, <1>6, <1>7 DEF TickStep

LEMMA RequestGiven ==
  ASSUME IInv, Settled, NEW r \in Requests, ReqStep(r), ~script.ran
  PROVE  /\ race' = race /\ ticker' = ticker
         /\ \A q \in Requests : Given(reqs'[q].vs)
         /\ ~race.rolling => \A b \in Entered : Given(boats'[b].started)
<1> USE DEF IInv, Settled, Goes, Reply
<1>1. /\ Given(None) /\ Given(reqs[r].vs) /\ reqs \in [Requests -> Thread] /\ reqs[r] \in Thread
      /\ ~race.rolling => \A b \in Entered : Given(boats[b].started)
  BY DEF Given, ThreadsOK
<1>2. Idle.vs = None /\ [Idle EXCEPT !.pc = "done"].vs = None /\ World /\ ReqInv(r)
  BY IdleType DEF Thread
<1>3. ASSUME \E x : reqs' = [reqs EXCEPT ![r] = x], Given(reqs'[r].vs)
      PROVE  \A q \in Requests : Given(reqs'[q].vs)
  BY <1>1, <1>3
<1>4. ASSUME reqs[r].pc \in Loaded PROVE Given(VirtualStart(reqs[r].race))
  BY <1>1, <1>2, <1>4, StartIsGiven DEF ReqInv, ThreadInv, World, Unrecorded
<1>5. CASE ReqBoat(r)
  <2>1. PICK b \in Entered : reqs' = [reqs EXCEPT ![r] = [Idle EXCEPT !.pc = "race", !.boat = b, !.sim = boats[b].sim]]
    BY <1>5 DEF ReqBoat
  <2>2. [Idle EXCEPT !.pc = "race", !.boat = b, !.sim = boats[b].sim].vs = None
    BY IdleType DEF Thread
  <2>. QED
    BY <1>1, <1>3, <1>5, <2>1, <2>2 DEF ReqBoat
<1>6. CASE ReqRace(r) \/ ReqLock(r) \/ ReqReread(r)
  <2>1. PICK x : reqs' = [reqs EXCEPT ![r] = x] /\ x.vs = reqs[r].vs
    BY <1>1, <1>6, ZenonT(30) DEF ReqRace, ReqLock, ReqReread, Thread
  <2>. QED
    BY <1>1, <1>3, <1>6, <2>1 DEF ReqRace, ReqLock, ReqReread
<1>7. CASE ReqBusy(r)
  BY <1>1, <1>2, <1>3, <1>7 DEF ReqBusy
<1>8. CASE ReqUnrouted(r)
  <2>1. reqs'[r].vs \in {reqs[r].vs, VirtualStart(reqs[r].race)}
    BY <1>1, <1>8 DEF ReqUnrouted, Thread
  <2>2. Given(reqs'[r].vs)
    BY <1>1, <1>4, <1>8, <2>1 DEF ReqUnrouted, Loaded
  <2>. QED
    BY <1>1, <1>3, <1>8, <2>1, <2>2 DEF ReqUnrouted
<1>9. CASE ReqDefault(r)
  <2>1. ASSUME NEW b \in Entered PROVE boats'[b] = boats[b] \/ boats'[b].started = reqs[r].vs
    BY <1>9, <2>1 DEF ReqDefault, DefaultCourse
  <2>2. PICK x : reqs' = [reqs EXCEPT ![r] = x] /\ x.vs = None
    BY <1>1, <1>2, <1>9 DEF ReqDefault, Thread
  <2>. QED
    BY <1>1, <1>3, <1>9, <2>1, <2>2 DEF ReqDefault
<1>10. CASE ReqLeaves(r)
  <2>1. race.rolling
    BY <1>2, <1>10 DEF ReqLeaves, ReqInv, ThreadInv, Loaded, World, RowsOK, Row
  <2>. QED
    BY <1>1, <1>2, <1>3, <1>10, <2>1 DEF ReqLeaves
<1>11. CASE ReqVirtualStart(r)
  <2>1. reqs'[r].vs = VirtualStart(reqs[r].race)
    BY <1>1, <1>11 DEF ReqVirtualStart, Thread
  <2>2. Given(reqs'[r].vs)
    BY <1>4, <1>11, <2>1 DEF ReqVirtualStart, Loaded
  <2>. QED
    BY <1>1, <1>3, <1>11, <2>1, <2>2 DEF ReqVirtualStart
<1>12. CASE ReqLine(r)
  <2>1. ASSUME NEW b \in Entered PROVE boats'[b].started \in {boats[b].started, reqs[r].vs}
    BY <1>2, <1>12, <2>1 DEF ReqLine, OnItsRoute, World, RowsOK, Boat
  <2>. QED
    BY <1>1, <1>2, <1>3, <1>12, <2>1 DEF ReqLine
<1>13. CASE ReqSailRead(r) \/ ReqSailWrite(r) \/ ReqSwap(r)
  <2>1. ASSUME NEW b \in Entered PROVE boats'[b].started = boats[b].started
    BY <1>2, <1>13, <2>1 DEF ReqSailRead, ReqSailWrite, ReqSwap, Sailed, World, RowsOK, Boat
  <2>2. reqs'[r].vs = None
    <3>1. CASE ReqSailRead(r)
      BY <1>1, <3>1, IdleType DEF ReqSailRead, Thread
    <3>2. CASE ReqSailWrite(r)
      BY <1>1, <3>2, IdleType DEF ReqSailWrite, Thread
    <3>3. CASE ReqSwap(r)
      BY <1>1, <1>2, <3>3 DEF ReqSwap
    <3>. QED
      BY <1>13, <3>1, <3>2, <3>3
  <2>. QED
    BY <1>1, <1>3, <1>13, <2>1, <2>2 DEF ReqSailRead, ReqSailWrite, ReqSwap
<1>. QED
  BY <1>5, <1>6, <1>7, <1>8, <1>9, <1>10, <1>11, <1>12, <1>13 DEF ReqStep

\* The start, where it is known, is not before the gun, and is the gun without a gate.
StartOK ==
  RowsOK => /\ race.gun \in Times
            /\ TheStart # None => TheStart \in Times /\ TheStart >= race.gun
            /\ ~GateApplies(race) => TheStart = race.gun

LEMMA StartAfterGun == StartOK
<1> SUFFICES ASSUME RowsOK
             PROVE  /\ race.gun \in Times
                    /\ TheStart # None => TheStart \in Times /\ TheStart >= race.gun
                    /\ ~GateApplies(race) => TheStart = race.gun
  BY DEF StartOK
<1>1. PICK row \in Row : row = Unrecorded /\ row.vs = None /\ row.gun = race.gun /\ row.needed = race.needed
  <2>1. /\ Unrecorded \in Row /\ Unrecorded.vs = None /\ Unrecorded.gun = race.gun
        /\ Unrecorded.needed = race.needed
    BY DEF Unrecorded, RowsOK, Row
  <2>. QED
    BY <2>1
<1>2. race.gun \in Times /\ race.gun \in Nat
  BY StartLineAssumption DEF RowsOK, Row, Times
<1>3. GateApplies(row) <=> GateApplies(race)
  BY <1>1 DEF GateApplies
<1>4. TheStart = IF GateApplies(race) THEN OpenAt(row) ELSE race.gun
  BY <1>1, <1>3 DEF TheStart, VirtualStart
<1>5. ASSUME GateApplies(race), TheStart # None PROVE TheStart \in Times /\ TheStart >= race.gun
  <2>1. PICK enough : enough = {t \in Times : Cardinality(SeenBy(row, t)) >= row.needed}
    OBVIOUS
  <2>2. enough \in SUBSET Nat /\ enough # {} /\ TheStart = Min(enough)
    BY <1>4, <1>5, <2>1, StartLineAssumption DEF OpenAt, Times
  <2>3. TheStart \in enough
    BY <2>2, LeastOf
  <2>4. PICK t \in Times : t = TheStart /\ Cardinality(SeenBy(row, t)) >= row.needed
    BY <2>1, <2>3
  <2>5. row.needed > 0 /\ row.needed \in Nat
    BY <1>1, <1>5 DEF GateApplies, Row
  <2>6. SeenBy(row, t) # {}
    <3>1. SUFFICES ASSUME SeenBy(row, t) = {} PROVE FALSE
      OBVIOUS
    <3>2. Cardinality({}) >= row.needed
      BY <2>4, <3>1
    <3>3. 0 >= row.needed
      BY <3>2, FS_EmptySet
    <3>. QED
      BY <2>5, <3>3
  <2>7. PICK rb \in Tracked : \E f \in fixes[rb] : race.gun <= f /\ f <= t
    BY <1>1, <2>6 DEF SeenBy
  <2>8. fixes[rb] \subseteq Times
    BY <2>7 DEF RowsOK
  <2>. QED
    BY <1>2, <2>4, <2>7, <2>8 DEF Times
<1>. QED
  BY <1>2, <1>4, <1>5

LEMMA StartIsOKNext == StartOK'
BY StartAfterGun, PTL

LEMMA StartMoves ==
  ASSUME IInv, OpeningsOK, Settled, [Next]_vars, ~script.ran, ~script'.ran
  PROVE  /\ openings \subseteq openings'
         /\ TheStart' \in openings' \cup {None}
         /\ \A t \in openings' : t >= race'.gun
<1>1. ~ScriptStep /\ ~ScriptRead
  BY NoScript DEF ScriptStep
<1>2. RowsOK' /\ race'.gun = race.gun /\ Unrecorded' = Unrecorded
  <2>1. Mild /\ RowsOK'
    BY NextMild, NextIInv DEF IInv, World
  <2>2. race' = race \/ \E t \in Times : race' = [race EXCEPT !.vs = t]
    BY <2>1 DEF Mild
  <2>. QED
    BY <2>1, <2>2 DEF Unrecorded, IInv, World, RowsOK, Row
<1>3. CASE FixArrives
  <2>1. openings' = openings \cup ({TheStart'} \ {None})
    BY <1>3 DEF FixArrives
  <2>2. TheStart' # None => TheStart' >= race'.gun
    BY <1>2, StartIsOKNext DEF StartOK
  <2>. QED
    BY <1>2, <2>1, <2>2 DEF Settled
<1>4. CASE ~FixArrives
  <2>1. openings' = openings
    BY <1>1, <1>4, OpeningsSame
  <2>2. fixes' = fixes
    BY <1>1, <1>4 DEF Next, vars, TickStep, TickBegin, TickUnrouted, TickBusy, TickGate, TickSailRead,
       TickDefault, OpenGate, TickSailWrite, ReqStep, ReqBoat, ReqRace, ReqLock, ReqBusy,
       ReqUnrouted, ReqReread, ReqVirtualStart, ReqSailRead, ReqDefault, ReqLeaves, ReqLine,
       ReqSailWrite, ReqSwap, Clock, Crash
  <2>3. TheStart' = TheStart
    BY <1>2, <2>2 DEF TheStart, VirtualStart, GateApplies, OpenAt, SeenBy, Tracked
  <2>. QED
    BY <1>2, <2>1, <2>3 DEF Settled, Given
<1>. QED
  BY <1>3, <1>4

LEMMA SettledStays ==
  ASSUME IInv, OpeningsOK, Settled, [Next]_vars
  PROVE  Settled'
<1> SUFFICES ASSUME ~script'.ran PROVE Settled'
  BY DEF Settled
<1>1. ~script.ran
  <2>1. Mild
    BY NextMild
  <2>. QED
    BY <2>1 DEF Mild
<1>2. /\ Given(race'.vs) /\ Given(ticker'.vs)
      /\ \A r \in Requests : Given(reqs'[r].vs)
      /\ ~race.rolling => \A b \in Entered : Given(boats'[b].started)
  <2>1. CASE TickStep
    BY <1>1, <2>1, TickerGiven DEF Settled
  <2>2. ASSUME NEW r \in Requests, ReqStep(r)
        PROVE  /\ Given(race'.vs) /\ Given(ticker'.vs)
               /\ \A q \in Requests : Given(reqs'[q].vs)
               /\ ~race.rolling => \A b \in Entered : Given(boats'[b].started)
    BY <1>1, <2>2, RequestGiven DEF Settled
  <2>3. CASE Clock \/ FixArrives \/ UNCHANGED vars
    BY <1>1, <2>3 DEF Clock, FixArrives, vars, Settled
  <2>4. CASE Crash
    <3>1. ticker'.vs = None /\ \A r \in Requests : reqs'[r].vs = None
      BY <2>4, IdleType DEF Crash, Thread
    <3>. QED
      BY <1>1, <2>4, <3>1 DEF Crash, Settled, Given
  <2>5. ~ScriptStep
    BY NoScript DEF ScriptStep
  <2>. QED
    BY <2>1, <2>2, <2>3, <2>4, <2>5 DEF Next
<1>3. /\ openings \subseteq openings' /\ TheStart' \in openings' \cup {None}
      /\ \A t \in openings' : t >= race'.gun
  BY <1>1, StartMoves
<1>4. race'.rolling = race.rolling /\ Entered' = Entered
  <2>1. Mild
    BY NextMild
  <2>. QED
    BY <2>1 DEF Mild, IInv, World, RowsOK, Row
<1>. QED
  BY <1>2, <1>3, <1>4 DEF Settled, Given

LEMMA AlwaysSettled == Spec => []Settled
<1>1. Init => Settled
  <2> SUFFICES ASSUME Init PROVE Settled
    OBVIOUS
  <2>1. PICK setup \in Setups :
          /\ race = [gun |-> Gun, vs |-> None, needed |-> setup.needed, rolling |-> setup.rolling]
          /\ boats = [b \in setup.boats |-> [sim |-> None, started |-> None, route |-> "none"]]
          /\ fixes = [rb \in setup.real |-> {}]
          /\ ticker = Idle
          /\ reqs = [r \in Requests |-> IF r \in setup.requests THEN Idle ELSE [Idle EXCEPT !.pc = "done"]]
          /\ openings = IF setup.needed > 0 /\ setup.real # {} THEN {} ELSE {Gun}
    BY DEF Init
  <2>2. Idle.vs = None /\ [Idle EXCEPT !.pc = "done"].vs = None
    BY IdleType DEF Thread
  <2>3. \A t \in openings : t >= race.gun
    BY <2>1, StartLineAssumption DEF Times
  <2>4. Given(TheStart)
    <3>1. CASE GateApplies(race)
      <4>1. PICK row : row = Unrecorded
        OBVIOUS
      <4>2. row.vs = None /\ row.needed = setup.needed /\ GateApplies(row) /\ setup.needed > 0
        BY <2>1, <3>1, <4>1 DEF Unrecorded, GateApplies
      <4>3. ASSUME NEW t \in Times PROVE SeenBy(row, t) = {}
        BY <2>1 DEF SeenBy, Tracked
      <4>4. setup.needed \in Nat
        BY StartLineAssumption
      <4>5. {t \in Times : Cardinality(SeenBy(row, t)) >= row.needed} = {}
        BY <4>2, <4>3, <4>4, FS_EmptySet
      <4>6. OpenAt(row) = None
        BY <4>5 DEF OpenAt
      <4>. QED
        BY <4>1, <4>2, <4>6 DEF Given, TheStart, VirtualStart
    <3>2. CASE ~GateApplies(race)
      <4>1. ~(setup.needed > 0 /\ setup.real # {})
        BY <2>1, <3>2 DEF GateApplies, Tracked
      <4>2. TheStart = Gun
        BY <2>1, <3>2 DEF TheStart, Unrecorded, VirtualStart, GateApplies
      <4>. QED
        BY <2>1, <4>1, <4>2 DEF Given
    <3>. QED
      BY <3>1, <3>2
  <2>. QED
    BY <2>1, <2>2, <2>3, <2>4 DEF Settled, Given, Entered
<1>. QED
  BY <1>1, SettledStays, Always, AlwaysOpenings, PTL DEF Spec

(***************************************************************************)
(* All boats that start together start from the same moment, the one on    *)
(* record when there is one; two starts are two moments the gate has       *)
(* opened at, one by the fixes in time and one by those that came late.    *)
(***************************************************************************)
THEOREM AllStartTogether == Spec => []OneStart
<1>1. IInv /\ Settled => OneStart
  <2> SUFFICES ASSUME IInv, Settled, ~race.rolling, ~script.ran
               PROVE  Starts \subseteq openings /\ \A s, t \in Starts : s # t => Moved
    BY DEF OneStart
  <2>1. Starts \subseteq openings
    BY DEF Settled, Given, Starts
  <2>. QED
    BY <2>1 DEF Moved
<1>. QED
  BY <1>1, Always, AlwaysSettled, PTL


-----------------------------------------------------------------------------
(***************************************************************************)
(* Time never rewinds.  Up to the gun a boat is on the dock or on the      *)
(* line; who sails boats has them as they are, and a request that is about *)
(* to send a boat off finds it where the boat's start would put it.        *)
(***************************************************************************)
Loose == race.rolling /\ GateApplies(race)

OnTheLine(b) ==
  boats[b].sim = boats[b].started /\ (Loose \/ Given(boats[b].started))

Exact(x) == x.pc = "sailing" => \A b \in DOMAIN x.rows : b \in Entered /\ x.rows[b] = boats[b].sim

Sending(x) == x.pc \in {"start", "line"} /\ x.sim = None

Fresh(x) ==
  /\ x.now <= now
  /\ Exact(x)
  /\ x.pc = "line" => x.sim = None
  /\ Sending(x) => /\ OnTheLine(x.boat)
                   /\ race.rolling /\ x.now >= race.gun /\ ~Loose => boats[x.boat].sim = None

Calm ==
  /\ race.rolling /\ ~Loose => ticker.pc # "open"
  /\ \A b \in Entered : /\ boats[b].sim = None <=> boats[b].started = None
                        /\ boats[b].sim # None => boats[b].sim >= race.gun
  /\ now <= race.gun => \A b \in Entered : OnTheLine(b)
  /\ Exact(ticker) /\ ticker.now <= now
  /\ \A r \in Requests : Fresh(reqs[r])

\* What a step makes of one boat.
Leads(b) ==
  /\ boats[b].sim # None => Forward(b) \/ StartedAgain(b)
  /\ boats'[b].sim = None <=> boats'[b].started = None
  /\ boats'[b].sim # None => boats'[b].sim >= race.gun
  /\ now <= race.gun => /\ boats'[b].sim = boats'[b].started
                        /\ Loose \/ Given(boats'[b].started)

LEMMA SailToForward ==
  ASSUME NEW sim \in Times, NEW until \in Times, NEW steps \in Nat
  PROVE  /\ SailTo(sim, until, steps) \in Times /\ SailTo(sim, until, steps) >= sim
         /\ until <= sim => SailTo(sim, until, steps) = sim
<1> USE DEF Times
<1>1. PICK m : m = Min({until, sim + steps})
  OBVIOUS
<1>2. m \in {until, sim + steps} /\ m <= until
  <2>1. {until, sim + steps} \in SUBSET Nat
    BY StartLineAssumption
  <2>. QED
    BY <1>1, <2>1, LeastOf
<1>3. m \in Times
  BY <1>2, StartLineAssumption
<1>4. PICK top : top = Max({sim, m})
  OBVIOUS
<1>5. \E x \in {sim, m} : \A y \in {sim, m} : x >= y
  BY <1>3, StartLineAssumption
<1>6. top \in {sim, m} /\ top >= sim /\ top >= m
  BY <1>4, <1>5 DEF Max
<1>7. SailTo(sim, until, steps) = top
  BY <1>1, <1>4 DEF SailTo
<1>. QED
  BY <1>2, <1>3, <1>6, <1>7, StartLineAssumption

LEMMA DockGoes ==
  ASSUME IInv, Settled, Calm, ~script.ran, NEW x, ThreadInv(x), Given(x.vs),
         boats' = DefaultCourse(x.batch, x.vs), NEW b \in Entered
  PROVE  Leads(b)
<1>1. x.batch \in SUBSET Boats
  BY DEF ThreadInv, Thread
<1>2. CASE b \in Docked(x.batch)
  <2>1. boats[b].route = "none"
    BY <1>1, <1>2, DockedUnrouted
  <2>2. boats[b].sim = None /\ boats[b].started = None
    BY <2>1 DEF IInv, World, Calm
  <2>3. boats'[b].sim = x.vs /\ boats'[b].started = x.vs
    BY <1>2 DEF DefaultCourse
  <2>. QED
    BY <2>2, <2>3 DEF Leads, Settled, Given
<1>3. CASE b \notin Docked(x.batch)
  <2>1. boats'[b] = boats[b]
    BY <1>3 DEF DefaultCourse
  <2>2. boats[b].sim # None => boats[b].sim \in Nat
    BY StartLineAssumption DEF IInv, World, RowsOK, Boat, Times
  <2>. QED
    BY <2>1, <2>2 DEF Leads, Forward, Calm, OnTheLine
<1>. QED
  BY <1>2, <1>3

LEMMA SailGoes ==
  ASSUME IInv, Calm, NEW x, ThreadInv(x), Exact(x), x.pc = "sailing", x.now <= now,
         NEW steps \in Nat, boats' = Sailed(x, steps), NEW b \in Entered
  PROVE  Leads(b)
<1>1. boats[b].sim # None => boats[b].sim \in Nat
  BY StartLineAssumption DEF IInv, World, RowsOK, Boat, Times
<1>2. CASE b \in DOMAIN x.rows /\ SailTo(x.rows[b], x.now, steps) > x.rows[b]
  <2>1. x.rows[b] \in Times /\ x.now \in Times /\ now \in Times
    BY <1>2 DEF ThreadInv, Thread, RowsRead, IInv
  <2>2. PICK sim \in Times, until \in Times : sim = x.rows[b] /\ until = x.now
    BY <2>1
  <2>3. PICK t : t = SailTo(sim, until, steps)
    OBVIOUS
  <2>4. t \in Times /\ t >= sim /\ (until <= sim => t = sim)
    BY <2>3, SailToForward
  <2>5. boats[b].sim = sim /\ boats'[b] = [boats[b] EXCEPT !.sim = t]
    BY <1>2, <2>2, <2>3 DEF Exact, Sailed
  <2>6. boats'[b].sim = t /\ boats'[b].started = boats[b].started /\ t # None /\ sim # None
    <3>1. boats[b] \in Boat
      BY DEF IInv, World, RowsOK
    <3>2. t # None /\ sim # None
      BY <2>1, <2>2, <2>4, StartLineAssumption DEF Times
    <3>. QED
      BY <2>5, <3>1, <3>2 DEF Boat
  <2>7. ~(now <= race.gun)
    <3>1. SUFFICES ASSUME now <= race.gun PROVE FALSE
      OBVIOUS
    <3>2. race.gun \in Nat /\ sim \in Nat /\ until \in Nat /\ now \in Nat
      BY <2>1, <2>2, StartLineAssumption DEF IInv, World, RowsOK, Row, Times
    <3>3. sim >= race.gun
      BY <2>5, <2>6 DEF Calm
    <3>4. until <= sim
      BY <2>2, <3>1, <3>2, <3>3
    <3>. QED
      BY <1>2, <2>2, <2>3, <2>4, <3>2, <3>4
  <2>8. sim \in Nat /\ t \in Nat /\ race.gun \in Nat
    BY <2>2, <2>4, StartLineAssumption DEF IInv, World, RowsOK, Row, Times
  <2>. QED
    BY <2>4, <2>5, <2>6, <2>7, <2>8 DEF Leads, Forward, Calm
<1>3. CASE ~(b \in DOMAIN x.rows /\ SailTo(x.rows[b], x.now, steps) > x.rows[b])
  <2>1. boats'[b] = boats[b]
    BY <1>3 DEF Sailed
  <2>. QED
    BY <1>1, <2>1 DEF Leads, Forward, Calm, OnTheLine
<1>. QED
  BY <1>2, <1>3


LEMMA OthersLead ==
  ASSUME IInv, Calm, NEW b \in Entered, boats'[b] = boats[b]
  PROVE  Leads(b)
<1>1. boats[b].sim # None => boats[b].sim \in Nat
  BY StartLineAssumption DEF IInv, World, RowsOK, Boat, Times
<1>. QED
  BY <1>1 DEF Leads, Forward, Calm, OnTheLine

LEMMA TickerLeads ==
  ASSUME IInv, Settled, Calm, ~script.ran, TickStep, NEW b \in Entered
  PROVE  Leads(b)
<1>1. Given(ticker.vs) /\ ThreadInv(ticker) /\ Exact(ticker) /\ ticker.now <= now
  BY DEF IInv, TickerInv, Settled, Calm
<1>2. CASE boats' = boats
  BY <1>2, OthersLead
<1>3. CASE TickDefault
  BY <1>1, <1>3, DockGoes DEF TickDefault
<1>4. CASE TickSailWrite
  BY <1>1, <1>4, SailGoes, StartLineAssumption DEF TickSailWrite
<1>5. CASE OpenGate
  <2>1. CASE Waiting(b)
    <3>1. boats[b] \in Boat /\ boats[b].sim = None /\ boats[b].started = None /\ ticker.vs # None
      BY <1>5, <2>1 DEF OpenGate, IInv, TickerInv, World, RowsOK, Waiting, Calm
    <3>2. boats'[b].sim = ticker.vs /\ boats'[b].started = ticker.vs
      BY <1>5, <2>1, <3>1 DEF OpenGate, Boat
    <3>. QED
      BY <1>1, <3>1, <3>2 DEF Leads, Settled, Given
  <2>2. CASE ~Waiting(b)
    BY <1>5, <2>2, OthersLead DEF OpenGate
  <2>. QED
    BY <2>1, <2>2
<1>6. CASE TickBegin \/ TickUnrouted \/ TickBusy \/ TickGate \/ TickSailRead
  BY <1>2, <1>6 DEF TickBegin, TickUnrouted, TickBusy, TickGate, TickSailRead
<1>. QED
  BY <1>3, <1>4, <1>5, <1>6 DEF TickStep

LEMMA RequestLeads ==
  ASSUME IInv, Settled, Calm, ~script.ran, NEW r \in Requests, ReqStep(r), NEW b \in Entered
  PROVE  Leads(b)
<1>1. PICK x \in Thread : x = reqs[r]
  BY DEF IInv, ThreadsOK
<1>2. Given(x.vs) /\ ThreadInv(x) /\ Fresh(x) /\ Exact(x) /\ x.now <= now
  BY <1>1 DEF IInv, ReqInv, Settled, Calm, Fresh
<1>3. CASE boats' = boats
  BY <1>3, OthersLead
<1>4. CASE ReqDefault(r)
  BY <1>1, <1>2, <1>4, DockGoes DEF ReqDefault
<1>5. CASE ReqSailWrite(r)
  BY <1>1, <1>2, <1>5, SailGoes, StartLineAssumption DEF ReqSailWrite
<1>6. boats \in [Entered -> Boat] /\ boats[b] \in Boat
  BY DEF IInv, World, RowsOK
<1>7. ASSUME b # x.boat, ReqLeaves(r) \/ ReqLine(r) \/ ReqSwap(r) PROVE Leads(b)
  <2>1. boats'[b] = boats[b]
    BY <1>1, <1>6, <1>7 DEF ReqLeaves, ReqLine, ReqSwap, OnItsRoute
  <2>. QED
    BY <2>1, OthersLead
<1>8. CASE ReqSwap(r) \/ (ReqLine(r) /\ x.vs = None)
  <2>1. boats'[b].sim = boats[b].sim /\ boats'[b].started = boats[b].started
    BY <1>1, <1>6, <1>8 DEF ReqSwap, ReqLine, Boat
  <2>2. boats[b].sim # None => boats[b].sim \in Nat
    BY <1>6, StartLineAssumption DEF Boat, Times
  <2>. QED
    BY <2>1, <2>2 DEF Leads, Forward, Calm, OnTheLine
<1>9. CASE ReqLine(r) /\ x.vs # None /\ b = x.boat
  <2>1. boats'[b].sim = x.vs /\ boats'[b].started = x.vs
    BY <1>1, <1>6, <1>9 DEF ReqLine, OnItsRoute
  <2>2. Sending(x)
    BY <1>1, <1>2, <1>9 DEF ReqLine, Fresh, Sending
  <2>3. boats[b].sim = boats[b].started /\ (Loose \/ Given(boats[b].started))
    BY <1>2, <1>9, <2>2 DEF Fresh, OnTheLine
  <2>4. x.vs \in Nat /\ x.vs \in openings /\ x.vs >= race.gun
    BY <1>1, <1>2, <1>9, StartLineAssumption DEF Thread, Times, Settled, Given
  <2>5. ASSUME boats[b].sim # None, boats[b].sim # x.vs PROVE StartedAgain(b)
    <3>1. Loose \/ boats[b].started \in openings
      BY <2>3, <2>5 DEF Given
    <3>2. Loose \/ Moved
      BY <2>3, <2>4, <2>5, <3>1 DEF Moved
    <3>. QED
      BY <1>9, <2>1, <2>3, <3>2 DEF StartedAgain, Loose
  <2>6. ASSUME boats[b].sim = x.vs PROVE Forward(b)
    BY <1>9, <2>1, <2>3, <2>4, <2>6 DEF Forward
  <2>. QED
    BY <1>2, <1>9, <2>1, <2>4, <2>5, <2>6 DEF Leads
<1>10. CASE ReqLeaves(r) /\ b = x.boat
  <2>1. boats'[b].sim = x.now /\ boats'[b].started = x.now
    BY <1>1, <1>6, <1>10 DEF ReqLeaves, OnItsRoute
  <2>2. Sending(x) /\ x.race \in {race, Unrecorded} /\ x.race.rolling /\ x.now >= x.race.gun
    BY <1>1, <1>2, <1>10 DEF ReqLeaves, Sending, ThreadInv, Loaded, Unrecorded
  <2>3. race.rolling /\ x.now >= race.gun
    BY <2>2 DEF Unrecorded, IInv, World, RowsOK, Row
  <2>4. boats[b].sim = boats[b].started /\ (~Loose => boats[b].sim = None)
    BY <1>2, <1>10, <2>2, <2>3 DEF Fresh, OnTheLine
  <2>5. x.now \in Nat /\ now \in Nat /\ race.gun \in Nat /\ x.now # None
    BY StartLineAssumption DEF Thread, Times, IInv, World, RowsOK, Row
  <2>6. ASSUME ~Loose, now <= race.gun PROVE Given(x.now)
    <3>1. TheStart = race.gun
      BY <2>3, <2>6, StartAfterGun DEF StartOK, Loose, IInv, World
    <3>2. x.now = race.gun
      BY <1>2, <2>3, <2>5, <2>6
    <3>. QED
      BY <3>1, <3>2 DEF Settled
  <2>7. ASSUME boats[b].sim # None PROVE StartedAgain(b)
    BY <2>1, <2>4, <2>5, <2>7 DEF StartedAgain, Loose
  <2>. QED
    BY <2>1, <2>3, <2>5, <2>6, <2>7 DEF Leads
<1>11. CASE ReqBoat(r) \/ ReqRace(r) \/ ReqLock(r) \/ ReqBusy(r) \/ ReqUnrouted(r)
             \/ ReqReread(r) \/ ReqVirtualStart(r) \/ ReqSailRead(r)
  BY <1>3, <1>11 DEF ReqBoat, ReqRace, ReqLock, ReqBusy, ReqUnrouted, ReqReread, ReqVirtualStart,
                     ReqSailRead
<1>. QED
  BY <1>4, <1>5, <1>7, <1>8, <1>9, <1>10, <1>11 DEF ReqStep

\* Who holds the lock finds the boats as it left them, but for the gate.
LEMMA Frozen ==
  ASSUME IInv, [Next]_vars, ~script'.ran, lock # "free"
  PROVE  \/ boats' = boats
         \/ OpenGate
         \/ TickSailWrite /\ lock = "ticker"
         \/ \E r \in Requests : ReqStep(r) /\ lock = r /\ reqs'[r].pc # reqs[r].pc
<1>1. CASE TickStep
  <2>1. TickSailWrite => lock = "ticker"
    BY DEF TickSailWrite, IInv, TickerInv
  <2>. QED
    BY <1>1, <2>1 DEF TickStep, TickBegin, TickUnrouted, TickDefault, TickBusy, TickGate, TickSailRead
<1>2. ASSUME NEW r \in Requests, ReqStep(r), boats' # boats
      PROVE  lock = r /\ reqs'[r].pc # reqs[r].pc
  <2>1. ReqDefault(r) \/ ReqLeaves(r) \/ ReqLine(r) \/ ReqSailWrite(r) \/ ReqSwap(r)
    BY <1>2 DEF ReqStep, ReqBoat, ReqRace, ReqLock, ReqBusy, ReqUnrouted, ReqReread, ReqVirtualStart,
                ReqSailRead
  <2>2. reqs[r].pc \in InLock
    BY <2>1 DEF ReqDefault, ReqLeaves, ReqLine, ReqSailWrite, ReqSwap, InLock
  <2>3. lock = r
    BY <2>2 DEF IInv, ReqInv
  <2>4. reqs \in [Requests -> Thread] /\ Idle \in Thread
    BY IdleType DEF IInv, ThreadsOK
  <2>5. ASSUME reqs' = [reqs EXCEPT ![r] = [Idle EXCEPT !.pc = "done"]], reqs[r].pc \in InLock
        PROVE  reqs'[r].pc # reqs[r].pc
    BY <1>2, <2>4, <2>5 DEF Thread, InLock
  <2>6. CASE ReqDefault(r)
    <3>1. CASE Taken(reqs[r].batch) = {}
      <4>1. reqs' = [reqs EXCEPT ![r] = [reqs[r] EXCEPT !.pc = "reread", !.batch = {}, !.vs = None]]
        BY <2>6, <3>1 DEF ReqDefault, Goes
      <4>2. reqs[r].pc = "dock"
        BY <2>6 DEF ReqDefault
      <4>. QED
        BY <1>2, <2>3, <2>4, <4>1, <4>2 DEF Thread
    <3>. QED
      BY <1>2, <2>2, <2>3, <2>5, <2>6, <3>1 DEF ReqDefault, Reply, Goes
  <2>7. CASE ReqSailWrite(r)
    BY <1>2, <2>3, <2>4, <2>7 DEF ReqSailWrite, Goes, Thread
  <2>8. CASE ReqLeaves(r) \/ ReqLine(r) \/ ReqSwap(r)
    BY <1>2, <2>2, <2>3, <2>5, <2>8 DEF ReqLeaves, ReqLine, ReqSwap, Reply, Goes
  <2>. QED
    BY <2>1, <2>3, <2>6, <2>7, <2>8
<1>3. CASE Clock \/ FixArrives \/ Crash \/ UNCHANGED vars
  BY <1>3 DEF Clock, FixArrives, Crash, vars
<1>4. ~ScriptStep
  BY NoScript DEF ScriptStep
<1>. QED
  BY <1>1, <1>2, <1>3, <1>4 DEF Next


\* Whether the race is rolling and waits for a fleet does not change.
LEMMA LooseStays ==
  ASSUME IInv, [Next]_vars, ~script'.ran
  PROVE  Loose' = Loose
<1>1. race'.rolling = race.rolling /\ race'.needed = race.needed
  BY NextMild DEF Mild, IInv, World, RowsOK, Row
<1>2. Tracked' = Tracked
  <2>1. fixes' = fixes \/ FixArrives
    BY NoScript DEF Next, vars, TickStep, TickBegin, TickUnrouted, TickBusy, TickGate, TickSailRead,
       TickDefault, OpenGate, TickSailWrite, ReqStep, ReqBoat, ReqRace, ReqLock, ReqBusy,
       ReqUnrouted, ReqReread, ReqVirtualStart, ReqSailRead, ReqDefault, ReqLeaves, ReqLine,
       ReqSailWrite, ReqSwap, ScriptStep, Clock, Crash
  <2>. QED
    BY <2>1 DEF FixArrives, Tracked
<1>. QED
  BY <1>1, <1>2 DEF Loose, GateApplies

\* What a request relies on survives the steps of the others.
LEMMA FreshStays ==
  ASSUME IInv, OpeningsOK, Settled, Calm, [Next]_vars, ~script'.ran,
         NEW r \in Requests, reqs'[r] = reqs[r], now' >= now
  PROVE  Fresh(reqs[r])'
<1>1. PICK x \in Thread : x = reqs[r]
  BY DEF IInv, ThreadsOK
<1>2. Fresh(x) /\ ThreadInv(x) /\ (x.pc \in InLock => lock = r) /\ (x.pc \notin {"idle", "done"} => x.boat # None)
  BY <1>1 DEF Calm, IInv, ReqInv
<1>3. ~script.ran /\ race'.gun = race.gun /\ race'.rolling = race.rolling /\ Entered' = Entered
  BY NextMild DEF Mild, IInv, World, RowsOK, Row
<1>4. x.now <= now'
  <2>1. now' \in Times /\ now \in Times /\ x.now \in Times
    BY <1>1, NextIInv DEF IInv, Thread
  <2>. QED
    BY <1>2, <2>1, StartLineAssumption DEF Fresh, Times
<1>5. ASSUME x.pc \in InLock PROVE boats' = boats \/ OpenGate
  <2>1. lock = r /\ lock # "free" /\ lock # "ticker"
    BY <1>2, <1>5, StartLineAssumption
  <2>. QED
    BY <2>1, Frozen
<1>6. ASSUME x.pc = "sailing", NEW b \in DOMAIN x.rows
      PROVE  b \in Entered /\ x.rows[b] = boats'[b].sim
  <2>1. b \in Entered /\ x.rows[b] = boats[b].sim /\ boats[b].sim # None
    BY <1>2, <1>3, <1>6 DEF Fresh, Exact, ThreadInv
  <2>2. boats' = boats \/ OpenGate
    BY <1>5, <1>6 DEF InLock
  <2>. QED
    BY <2>1, <2>2 DEF OpenGate, Waiting
<1>7. Loose' = Loose /\ openings \subseteq openings'
  BY <1>3, LooseStays, StartMoves
<1>8. ASSUME Sending(x)
      PROVE  /\ boats'[x.boat].sim = boats'[x.boat].started
             /\ Loose \/ boats'[x.boat].started \in openings' \cup {None}
             /\ race.rolling /\ x.now >= race.gun /\ ~Loose => boats'[x.boat].sim = None
  <2>1. OnTheLine(x.boat) /\ (race.rolling /\ x.now >= race.gun /\ ~Loose => boats[x.boat].sim = None)
    BY <1>2, <1>8 DEF Fresh
  <2>2. boats' = boats \/ OpenGate
    BY <1>5, <1>8 DEF InLock, Sending
  <2>3. x.boat \in Entered /\ boats[x.boat] \in Boat
    BY <1>2, <1>8 DEF Sending, ThreadInv, IInv, World, RowsOK
  <2>4. CASE boats' = boats
    BY <1>7, <2>1, <2>4 DEF OnTheLine, Given
  <2>5. CASE OpenGate
    <3>1. Given(ticker.vs)
      BY <1>3, <2>1 DEF Settled
    <3>2. \/ boats'[x.boat] = boats[x.boat]
          \/ (boats'[x.boat].sim = ticker.vs /\ boats'[x.boat].started = ticker.vs)
      <4>1. CASE Waiting(x.boat)
        <5>1. boats'[x.boat] = [boats[x.boat] EXCEPT !.sim = ticker.vs, !.started = ticker.vs]
          BY <2>3, <2>5, <4>1 DEF OpenGate
        <5>2. PICK old : old = boats[x.boat]
          OBVIOUS
        <5>3. PICK vs : vs = ticker.vs
          OBVIOUS
        <5>4. old \in Boat /\ boats'[x.boat] = [old EXCEPT !.sim = vs, !.started = vs]
          BY <2>3, <5>1, <5>2, <5>3
        <5>5. boats'[x.boat].sim = vs /\ boats'[x.boat].started = vs
          BY <5>4 DEF Boat
        <5>. QED
          BY <5>3, <5>5
      <4>2. CASE ~Waiting(x.boat)
        BY <2>3, <2>5, <4>2 DEF OpenGate
      <4>. QED
        BY <4>1, <4>2
    <3>3. ~(race.rolling /\ ~Loose)
      BY <2>5 DEF Calm, OpenGate
    <3>. QED
      BY <1>7, <2>1, <3>1, <3>2, <3>3 DEF OnTheLine, Given
  <2>. QED
    BY <2>2, <2>4, <2>5
<1>. QED
  BY <1>1, <1>2, <1>3, <1>4, <1>6, <1>7, <1>8 DEF Fresh, Exact, Sending, OnTheLine, Given

\* A request's own steps.
LEMMA FreshMoves ==
  ASSUME IInv, Settled, Calm, ~script.ran, NEW r \in Requests, ReqStep(r)
  PROVE  Fresh(reqs[r])'
<1> USE DEF Goes, Reply
<1>1. PICK x \in Thread : x = reqs[r] /\ reqs \in [Requests -> Thread]
  BY DEF IInv, ThreadsOK
<1>2. Fresh(x) /\ ThreadInv(x) /\ (x.pc \notin {"idle", "done"} => x.boat # None)
  BY <1>1 DEF Calm, IInv, ReqInv
<1>3. now \in Nat /\ x.now \in Nat /\ race.gun \in Nat /\ x.race.gun \in Nat /\ Idle \in Thread /\ Idle.now = 0 /\ Idle.pc = "idle"
  BY IdleType, StartLineAssumption DEF IInv, Thread, Row, World, RowsOK, Times, Idle
<1>0. ASSUME UNCHANGED <<race, boats, fixes, openings>>
      PROVE  Loose' = Loose /\ openings' = openings
  BY <1>0 DEF Loose, GateApplies, Tracked
<1>4. ASSUME reqs'[r].now <= now, now' = now, reqs'[r].pc \notin {"sailing", "start", "line"}
      PROVE  Fresh(reqs[r])'
  BY <1>4 DEF Fresh, Exact, Sending
<1>5. CASE ReqBoat(r)
  <2>1. PICK b \in Entered : reqs'[r] = [Idle EXCEPT !.pc = "race", !.boat = b, !.sim = boats[b].sim]
    BY <1>1, <1>5 DEF ReqBoat
  <2>2. b \in Boats /\ boats[b].sim \in Times \cup {None}
    BY DEF IInv, World, RowsOK, Boat
  <2>3. PICK y \in Thread : y = reqs'[r] /\ y.pc = "race" /\ y.now = 0
    <3>1. PICK y : y = [Idle EXCEPT !.pc = "race", !.boat = b, !.sim = boats[b].sim]
      OBVIOUS
    <3>2. y \in Thread /\ y.pc = "race" /\ y.now = 0
      BY <1>3, <2>2, <3>1 DEF Thread, Pcs
    <3>. QED
      BY <2>1, <3>1, <3>2
  <2>. QED
    BY <1>3, <1>4, <1>5, <2>3 DEF ReqBoat
<1>6. CASE ReqRace(r) \/ ReqUnrouted(r)
  <2>1. reqs'[r] \in Thread
    BY <1>6, RequestReads
  <2>2. reqs'[r].pc \in {"lock", "reread", "dock"} /\ reqs'[r].now \in {x.now, now}
    <3>1. CASE ReqRace(r)
      BY <1>1, <3>1 DEF ReqRace, Thread
    <3>2. CASE ReqUnrouted(r)
      BY <1>1, <3>2 DEF ReqUnrouted, Thread
    <3>. QED
      BY <1>6, <3>1, <3>2
  <2>3. now' = now /\ reqs'[r].now <= now
    BY <1>2, <1>3, <1>6, <2>2 DEF ReqRace, ReqUnrouted, Fresh
  <2>. QED
    BY <1>4, <2>1, <2>2, <2>3
<1>7. CASE ReqLock(r)
  <2>1. PICK y : y = reqs'[r]
    OBVIOUS
  <2>2. /\ y.now = x.now /\ y.boat = x.boat /\ y.sim = x.sim /\ now' = now /\ boats' = boats
        /\ race' = race /\ fixes' = fixes /\ openings' = openings /\ now <= x.now + Patience
        /\ y.pc = IF x.sim = None /\ x.now >= x.race.gun THEN "unrouted" ELSE "start"
    BY <1>1, <1>7, <2>1 DEF ReqLock, Thread
  <2>3. x.race.gun = race.gun /\ x.boat \in Entered
    BY <1>1, <1>2, <1>7 DEF ReqLock, ThreadInv, Loaded, IInv, World, RowsOK, Row
  <2>4. Sending(y) => OnTheLine(x.boat) /\ ~(y.now >= race.gun)
    <3>1. SUFFICES ASSUME Sending(y) PROVE OnTheLine(x.boat) /\ ~(y.now >= race.gun)
      OBVIOUS
    <3>2. ~(x.now >= race.gun)
      BY <2>2, <2>3, <3>1 DEF Sending
    <3>3. now <= race.gun
      BY <1>3, <2>2, <3>2, StartLineAssumption
    <3>. QED
      BY <2>2, <2>3, <3>2, <3>3 DEF Calm
  <2>5. Loose' = Loose
    BY <1>0, <2>2
  <2>6. y.now <= now /\ y.pc \notin {"sailing", "line"}
    BY <1>2, <2>2 DEF Fresh
  <2>. QED
    BY <2>1, <2>2, <2>4, <2>5, <2>6 DEF Fresh, Exact, Sending, OnTheLine, Given
<1>8. CASE ReqReread(r)
  <2>1. PICK y : y = reqs'[r]
    OBVIOUS
  <2>2. /\ y.now = x.now /\ y.boat = x.boat /\ y.sim = boats[x.boat].sim /\ now' = now /\ boats' = boats
        /\ race' = race /\ fixes' = fixes /\ openings' = openings /\ y.pc = "start"
    BY <1>1, <1>8, <2>1 DEF ReqReread, Thread
  <2>3. x.boat \in Entered
    BY <1>1, <1>2, <1>8 DEF ReqReread, ThreadInv
  <2>4. Sending(y) => boats[y.boat].sim = None /\ boats[y.boat].started = None
    BY <2>2, <2>3 DEF Sending, Calm
  <2>5. y.now <= now /\ Loose' = Loose
    BY <1>0, <1>2, <2>2 DEF Fresh
  <2>. QED
    BY <2>1, <2>2, <2>4, <2>5 DEF Fresh, Exact, Sending, OnTheLine, Given
<1>9. CASE ReqVirtualStart(r)
  <2>1. PICK y : y = reqs'[r]
    OBVIOUS
  <2>2. /\ y.now = x.now /\ y.boat = x.boat /\ y.sim = x.sim /\ now' = now /\ boats' = boats
        /\ race' = race /\ fixes' = fixes /\ openings' = openings /\ y.pc = "line" /\ x.sim = None /\ x.pc = "start"
    BY <1>1, <1>9, <2>1 DEF ReqVirtualStart, Thread
  <2>3. Loose' = Loose
    BY <1>0, <2>2
  <2>. QED
    BY <1>2, <2>1, <2>2, <2>3 DEF Fresh, Exact, Sending, OnTheLine, Given
<1>10. CASE ReqSailRead(r)
  <2>1. PICK y : y = reqs'[r]
    OBVIOUS
  <2>2. /\ y.now = x.now /\ y.rows = Rows /\ now' = now /\ boats' = boats /\ y.pc = "sailing"
    BY <1>1, <1>3, <1>10, <2>1 DEF ReqSailRead, Thread
  <2>3. \A b \in DOMAIN Rows : b \in Entered /\ Rows[b] = boats[b].sim
    BY DEF Rows
  <2>4. Entered' = Entered /\ y.now <= now
    BY <1>2, <2>2 DEF Entered, Fresh
  <2>. QED
    BY <2>1, <2>2, <2>3, <2>4 DEF Fresh, Exact, Sending
<1>11. CASE ReqDefault(r) \/ ReqLeaves(r) \/ ReqLine(r) \/ ReqSailWrite(r) \/ ReqSwap(r) \/ ReqBusy(r)
  <2>1. reqs'[r] \in Thread /\ now' = now
    BY <1>11, RequestReads, RequestWrites
       DEF ReqDefault, ReqLeaves, ReqLine, ReqSailWrite, ReqSwap, ReqBusy
  <2>2. /\ [Idle EXCEPT !.pc = "done"].pc = "done" /\ [Idle EXCEPT !.pc = "done"].now = 0
        /\ [Idle EXCEPT !.pc = "swap", !.boat = x.boat].pc = "swap"
        /\ [Idle EXCEPT !.pc = "swap", !.boat = x.boat].now = 0
        /\ [x EXCEPT !.pc = "reread", !.batch = {}, !.vs = None].pc = "reread"
        /\ [x EXCEPT !.pc = "reread", !.batch = {}, !.vs = None].now = x.now
    BY <1>3 DEF Thread
  <2>3. reqs'[r] \in {[Idle EXCEPT !.pc = "done"], [Idle EXCEPT !.pc = "swap", !.boat = x.boat],
                      [x EXCEPT !.pc = "reread", !.batch = {}, !.vs = None]}
    BY <1>1, <1>11 DEF ReqDefault, ReqLeaves, ReqLine, ReqSailWrite, ReqSwap, ReqBusy
  <2>4. reqs'[r].pc \in {"done", "swap", "reread"} /\ reqs'[r].now \in {0, x.now}
    BY <2>2, <2>3
  <2>. QED
    BY <1>2, <1>3, <1>4, <2>1, <2>4 DEF Fresh
<1>. QED
  BY <1>5, <1>6, <1>7, <1>8, <1>9, <1>10, <1>11 DEF ReqStep


LEMMA NextLeads ==
  ASSUME IInv, Settled, Calm, [Next]_vars, ~script.ran, ~script'.ran, NEW b \in Entered
  PROVE  Leads(b)
<1>1. CASE TickStep
  BY <1>1, TickerLeads
<1>2. ASSUME NEW r \in Requests, ReqStep(r) PROVE Leads(b)
  BY <1>2, RequestLeads
<1>3. CASE boats' = boats
  BY <1>3, OthersLead
<1>. QED
  BY <1>1, <1>2, <1>3, NoScript DEF Next, ScriptStep, Clock, FixArrives, Crash, vars

LEMMA CalmStays ==
  ASSUME IInv, OpeningsOK, Settled, Calm, [Next]_vars, ~script'.ran
  PROVE  Calm'
<1>1. /\ ~script.ran /\ race'.gun = race.gun /\ race'.rolling = race.rolling /\ race'.needed = race.needed
      /\ Entered' = Entered
  BY NextMild DEF Mild, IInv, World, RowsOK, Row
<1>2. Loose' = Loose
  BY LooseStays
<1>3. now' >= now /\ (~Clock => now' = now) /\ now \in Nat /\ now' \in Nat /\ race.gun \in Nat
  <2>1. ~Clock => now' = now
    BY NoScript DEF Next, vars, TickStep, TickBegin, TickUnrouted, TickBusy, TickGate, TickSailRead,
       TickDefault, OpenGate, TickSailWrite, ReqStep, ReqBoat, ReqRace, ReqLock, ReqBusy,
       ReqUnrouted, ReqReread, ReqVirtualStart, ReqSailRead, ReqDefault, ReqLeaves, ReqLine,
       ReqSailWrite, ReqSwap, ScriptStep, FixArrives, Crash
  <2>2. now \in Nat /\ now' \in Nat /\ race.gun \in Nat
    BY NextIInv, StartLineAssumption DEF IInv, World, RowsOK, Row, Times
  <2>. QED
    BY <2>1, <2>2 DEF Clock
<1>4. ASSUME NEW b \in Entered PROVE Leads(b)
  BY <1>1, <1>4, NextLeads
<1>5. openings \subseteq openings'
  BY <1>1, StartMoves
<1>6. /\ \A b \in Entered' : /\ boats'[b].sim = None <=> boats'[b].started = None
                             /\ boats'[b].sim # None => boats'[b].sim >= race'.gun
      /\ now' <= race'.gun => \A b \in Entered' : OnTheLine(b)'
  BY <1>1, <1>2, <1>3, <1>4, <1>5 DEF Leads, OnTheLine, Given
<1>7. race'.rolling /\ ~Loose' => ticker'.pc # "open"
  <2>1. SUFFICES ASSUME race.rolling, ~Loose PROVE ticker'.pc # "open"
    BY <1>1, <1>2
  <2>2. ~GateApplies(race)
    BY <2>1 DEF Loose
  <2>3. ticker'.pc = "open" => ticker.pc = "open" \/ GateApplies(race)
    <3>1. CASE TickStep
      <4>1. ticker \in Thread /\ Idle \in Thread
        BY IdleType DEF IInv, ThreadsOK
      <4>2. CASE TickBegin \/ TickUnrouted \/ TickDefault \/ TickBusy
        BY <4>1, <4>2 DEF TickBegin, TickUnrouted, TickDefault, TickBusy, Thread
      <4>3. CASE OpenGate \/ TickSailRead \/ TickSailWrite
        <5>1. ToSail.pc = "sail" /\ Idle.pc = "idle"
          BY <4>1, IdleType DEF ToSail, Thread
        <5>. QED
          BY <4>1, <4>3, <5>1 DEF OpenGate, TickSailRead, TickSailWrite, Thread
      <4>4. CASE TickGate
        <5>1. ticker.race = race
          BY <1>1, <4>4 DEF TickGate, IInv, TickerInv
        <5>2. ToSail.pc = "sail"
          BY <4>1 DEF ToSail, Thread
        <5>. QED
          BY <4>4, <5>1, <5>2 DEF TickGate, GateOpens
      <4>. QED
        BY <3>1, <4>2, <4>3, <4>4 DEF TickStep
    <3>2. CASE ticker' = ticker
      BY <3>2
    <3>3. CASE Crash
      BY <3>3, IdleType DEF Crash
    <3>4. ASSUME NEW r \in Requests, ReqStep(r) PROVE ticker' = ticker
      BY <1>1, <3>4, RequestGiven
    <3>. QED
      BY <3>1, <3>2, <3>3, <3>4, NoScript DEF Next, ScriptStep, Clock, FixArrives, vars
  <2>. QED
    BY <2>1, <2>2, <2>3 DEF Calm
<1>8. Exact(ticker)' /\ ticker'.now <= now'
  <2>1. PICK x \in Thread : x = ticker /\ x.now \in Nat /\ x.now <= now /\ Exact(x)
    BY StartLineAssumption DEF IInv, ThreadsOK, Thread, Times, Calm
  <2>2. Idle \in Thread /\ Idle.now = 0 /\ Idle.pc = "idle"
    BY IdleType DEF Idle
  <2>3. CASE TickStep
    <3>1. now' = now
      BY <2>3 DEF TickStep, TickBegin, TickUnrouted, TickBusy, TickGate, TickSailRead, TickDefault,
                  OpenGate, TickSailWrite
    <3>2. CASE TickSailRead
      <4>1. ticker'.now = x.now /\ ticker'.rows = Rows /\ boats' = boats
        BY <2>1, <3>2 DEF TickSailRead, Thread
      <4>. QED
        BY <1>1, <1>3, <2>1, <3>1, <4>1 DEF Exact, Rows
    <3>3. CASE ~TickSailRead
      <4>1. ticker'.pc # "sailing" /\ ticker'.now \in {0, x.now, now}
        <5>1. CASE TickBegin \/ TickUnrouted \/ TickDefault \/ TickBusy
          BY <2>1, <2>2, <5>1 DEF TickBegin, TickUnrouted, TickDefault, TickBusy, Thread
        <5>2. CASE TickGate \/ OpenGate \/ TickSailWrite
          BY <2>1, <2>2, <5>2 DEF TickGate, OpenGate, ToSail, TickSailWrite, Thread
        <5>. QED
          BY <2>3, <3>3, <5>1, <5>2 DEF TickStep
      <4>. QED
        BY <1>3, <2>1, <3>1, <4>1 DEF Exact
    <3>. QED
      BY <3>2, <3>3
  <2>4. CASE ticker' = ticker
    <3>1. ASSUME x.pc = "sailing" PROVE boats' = boats
      <4>1. lock = "ticker" /\ lock # "free" /\ lock \notin Requests
        BY <2>1, <3>1, StartLineAssumption DEF IInv, TickerInv
      <4>2. ~OpenGate
        BY <2>1, <3>1 DEF OpenGate
      <4>3. ~TickSailWrite
        BY <2>1, <2>2, <2>4, <3>1 DEF TickSailWrite
      <4>. QED
        BY <4>1, <4>2, <4>3, Frozen
    <3>. QED
      BY <1>1, <1>3, <2>1, <2>4, <3>1 DEF Exact
  <2>5. CASE Crash
    BY <1>3, <2>2, <2>5 DEF Crash, Exact
  <2>6. ASSUME NEW r \in Requests, ReqStep(r) PROVE ticker' = ticker
    BY <1>1, <2>6, RequestGiven
  <2>. QED
    BY <2>3, <2>4, <2>5, <2>6, NoScript DEF Next, ScriptStep, Clock, FixArrives, vars
<1>9. ASSUME NEW r \in Requests PROVE Fresh(reqs[r])'
  <2>1. CASE reqs'[r] = reqs[r]
    BY <1>3, <1>9, <2>1, FreshStays
  <2>2. CASE ReqStep(r)
    BY <1>1, <1>9, <2>2, FreshMoves
  <2>3. CASE Crash
    <3>1. Idle \in Thread /\ Idle.now = 0 /\ Idle.pc = "idle"
      BY IdleType DEF Idle
    <3>2. reqs'[r].now = 0 /\ reqs'[r].pc \in {"idle", "done"}
      BY <1>9, <2>3, <3>1 DEF Crash, Thread
    <3>. QED
      BY <1>3, <3>2 DEF Fresh, Exact, Sending
  <2>4. ASSUME NEW q \in Requests, ReqStep(q), q # r PROVE reqs'[r] = reqs[r]
    <3>1. \E y : reqs' = [reqs EXCEPT ![q] = y]
      BY <2>4 DEF ReqStep, ReqBoat, ReqRace, ReqLock, ReqBusy, ReqUnrouted, ReqReread, ReqVirtualStart,
                  ReqSailRead, ReqDefault, ReqLeaves, ReqLine, ReqSailWrite, ReqSwap, Goes, Reply
    <3>. QED
      BY <1>9, <2>4, <3>1 DEF IInv, ThreadsOK
  <2>5. CASE TickStep \/ Clock \/ FixArrives \/ UNCHANGED vars
    BY <2>1, <2>5 DEF TickStep, TickBegin, TickUnrouted, TickBusy, TickGate, TickSailRead, TickDefault,
                      OpenGate, TickSailWrite, Clock, FixArrives, vars
  <2>. QED
    BY <2>1, <2>2, <2>3, <2>4, <2>5, NoScript DEF Next, ScriptStep
<1>. QED
  BY <1>1, <1>6, <1>7, <1>8, <1>9 DEF Calm

(***************************************************************************)
(* While the committee does not interfere, no boat's time goes back and    *)
(* its start is given once, but for a boat not yet sailed that open_gate   *)
(* and a request send off to two starts.                                   *)
(***************************************************************************)
THEOREM TimeGoesForward == Spec => TimeNeverRewinds
<1> DEFINE Inv == ~script.ran => Calm
<1>1. Init => Inv
  <2> SUFFICES ASSUME Init PROVE Calm
    OBVIOUS
  <2>1. PICK setup \in Setups :
          /\ race = [gun |-> Gun, vs |-> None, needed |-> setup.needed, rolling |-> setup.rolling]
          /\ boats = [b \in setup.boats |-> [sim |-> None, started |-> None, route |-> "none"]]
          /\ fixes = [rb \in setup.real |-> {}]
          /\ now = 0 /\ ticker = Idle
          /\ reqs = [r \in Requests |-> IF r \in setup.requests THEN Idle ELSE [Idle EXCEPT !.pc = "done"]]
    BY DEF Init
  <2>2. /\ Idle.vs = None /\ Idle.now = 0 /\ Idle.pc = "idle" /\ [Idle EXCEPT !.pc = "done"].vs = None
        /\ [Idle EXCEPT !.pc = "done"].now = 0 /\ [Idle EXCEPT !.pc = "done"].pc = "done"
    BY DEF Idle
  <2>3. ASSUME NEW r \in Requests PROVE Fresh(reqs[r])
    <3>1. reqs[r].now = 0 /\ reqs[r].pc \in {"idle", "done"}
      BY <2>1, <2>2, <2>3
    <3>. QED
      BY <2>1, <3>1 DEF Fresh, Exact, Sending
  <2>. QED
    BY <2>1, <2>2, <2>3 DEF Calm, Exact, OnTheLine, Given, Entered
<1>2. IInv /\ OpeningsOK /\ Settled /\ Inv /\ [Next]_vars => Inv'
  <2>1. ASSUME IInv, OpeningsOK, Settled, Inv, [Next]_vars, ~script'.ran PROVE Calm'
    <3>1. ~script.ran
      BY <2>1, NextMild DEF Mild
    <3>. QED
      BY <2>1, <3>1, CalmStays
  <2>. QED
    BY <2>1
<1>3. IInv /\ Settled /\ Inv /\ [Next]_vars
      => [~script'.ran => \A b \in Entered : boats[b].sim # None => Forward(b) \/ StartedAgain(b)]_vars
  <2> SUFFICES ASSUME IInv, Settled, Inv, [Next]_vars, ~script'.ran, NEW b \in Entered, boats[b].sim # None
               PROVE  Forward(b) \/ StartedAgain(b)
    OBVIOUS
  <2>1. ~script.ran
    BY NextMild DEF Mild
  <2>2. Leads(b)
    BY <2>1, NextLeads
  <2>. QED
    BY <2>2 DEF Leads
<1>. QED
  BY <1>1, <1>2, <1>3, Always, AlwaysOpenings, AlwaysSettled, PTL DEF Spec, TimeNeverRewinds
=============================================================================
