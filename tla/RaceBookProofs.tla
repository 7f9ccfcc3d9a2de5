---------------------------- MODULE RaceBookProofs ----------------------------
(***************************************************************************)
(* Proofs about the race board, for any board, any number of web threads   *)
(* and consoles, and any amount of work: at most one practice edition      *)
(* takes entries, an id given out again carries nothing over, and no mark  *)
(* is lost.                                                                *)
(***************************************************************************)
EXTENDS RaceBook, FiniteSetTheorems, WellFoundedInduction, TLAPS

LEMMA Constants ==
  /\ EntryTime \in Nat \ {0} /\ DayTime \in Nat \ {0} /\ MonthTime \in Nat \ {0}
  /\ None \notin Int /\ None \notin Nat
  /\ \A s \in Setups : SetupOK(s)
BY RaceBookAssumption

(***************************************************************************)
(* Numbers: a set of them has a least, and one that is bounded a largest,  *)
(* so that the id the table gives out is one it does not have.             *)
(***************************************************************************)
Before == {p \in Nat \X Nat : p[1] < p[2]}

LEMMA BeforeWellFounded == IsWellFoundedOn(Before, Nat)
BY NatLessThanWellFounded DEF OpToRel, Before

LEMMA LeastOf ==
  ASSUME NEW S \in SUBSET Nat, S # {}
  PROVE  \E x \in S : \A y \in S : x <= y
<1>1. PICK x \in S : \A y \in S : ~(<<y, x>> \in Before)
  BY BeforeWellFounded, WFMin, Zenon
<1>2. ASSUME NEW y \in S PROVE x <= y
  <2>1. <<y, x>> \notin Before
    BY <1>1
  <2>. QED
    BY <2>1 DEF Before
<1>. QED
  BY <1>2

LEMMA LeastIsMin ==
  ASSUME NEW S \in SUBSET Nat, S # {}
  PROVE  Min(S) \in S /\ \A y \in S : Min(S) <= y
BY LeastOf DEF Min

LEMMA GreatestIsMax ==
  ASSUME NEW n \in Nat, NEW S \in SUBSET (1..n), S # {}
  PROVE  Max(S) \in S /\ \A y \in S : y <= Max(S)
<1> DEFINE bounds == {b \in Nat : \A y \in S : y <= b}
<1>1. bounds \in SUBSET Nat /\ n \in bounds
  OBVIOUS
<1>2. PICK m \in bounds : \A b \in bounds : m <= b
  BY <1>1, LeastOf
<1>3. m \in Nat /\ \A y \in S : y <= m
  BY <1>2
<1>4. m \in S
  <2> SUFFICES ASSUME m \notin S PROVE FALSE
    OBVIOUS
  <2>1. \A y \in S : y \in Nat /\ 1 <= y /\ y < m
    BY <1>3
  <2>2. m - 1 \in Nat
    <3>1. PICK y \in S : TRUE
      OBVIOUS
    <3>2. m \in Nat /\ y \in Nat /\ 1 <= y /\ y < m
      BY <1>3, <2>1
    <3>. QED
      BY <3>2
  <2>3. \A y \in S : y <= m - 1
    BY <1>3, <2>1
  <2>4. m - 1 \in bounds
    BY <2>2, <2>3
  <2> HIDE DEF bounds
  <2>. QED
    BY <1>2, <1>3, <2>4
<1>. QED
  BY <1>3, <1>4 DEF Max

IsTable(table) == table = [x \in DOMAIN table |-> table[x]]

LEMMA IdIsNew ==
  ASSUME NEW n \in Nat, NEW table, IsTable(table), DOMAIN table \subseteq 1..n
  PROVE  NextId(table) \in 1..(n + 1) /\ NextId(table) \notin DOMAIN table
<1>1. CASE table = <<>>
  BY <1>1 DEF NextId
<1>2. CASE table # <<>> /\ DOMAIN table # {}
  <2>1. Max(DOMAIN table) \in DOMAIN table /\ \A y \in DOMAIN table : y <= Max(DOMAIN table)
    BY <1>2, GreatestIsMax
  <2>. QED
    BY <1>2, <2>1 DEF NextId
<1>3. CASE table # <<>> /\ DOMAIN table = {}
  BY <1>3 DEF IsTable
<1>. QED
  BY <1>1, <1>2, <1>3

-----------------------------------------------------------------------------
(***************************************************************************)
(* OneEdition.  An edition is opened only when none takes entries, with    *)
(* the clock as its gun, and the clock only runs forward.                  *)
(***************************************************************************)
GunsOK ==
  /\ now \in Nat
  /\ \A r \in DOMAIN races : races[r].gun \in Nat /\ races[r].rolling \in BOOLEAN

EditionInv == GunsOK /\ OneEdition

LEMMA EditionStep ==
  ASSUME EditionInv, [Next]_vars
  PROVE  EditionInv'
<1> USE Constants
<1>1. ASSUME \A r \in DOMAIN races' : r \in DOMAIN races /\ races'[r] = races[r], now' \in Nat, now <= now'
      PROVE  EditionInv'
  BY <1>1 DEF EditionInv, GunsOK, OneEdition, EntriesOpen, EntriesCloseAt
<1>2. CASE Clock
  BY <1>1, <1>2 DEF Clock, EditionInv, GunsOK
<1>3. CASE OpenPractice
  <2>1. PICK name : Inserts(name, now, TRUE) /\ EditionDue /\ now' = now
    BY <1>3 DEF OpenPractice
  <2>2. PICK id : /\ DOMAIN races' = DOMAIN races \cup {id}
                  /\ races'[id].gun = now /\ races'[id].rolling = TRUE
                  /\ \A r \in DOMAIN races \ {id} : races'[r] = races[r]
    BY <2>1 DEF Inserts, With, RaceRow
  <2>3. \A r \in DOMAIN races : ~(races[r].rolling /\ EntriesOpen(r))
    BY <2>1 DEF EditionDue, OpenEdition, EntriesOpen, EntriesCloseAt, EditionInv, GunsOK
  <2>. QED
    BY <2>1, <2>2, <2>3 DEF EditionInv, GunsOK, OneEdition, EntriesOpen, EntriesCloseAt
<1>4. CASE CommitteeCreates \/ PageCreates \/ DocsCreate
  <2>1. Inserts(<<>>, now + 1, FALSE) /\ now' = now
    BY <1>4 DEF CommitteeCreates, PageCreates, DocsCreate
  <2>2. now + 1 \in Nat /\ FALSE \in BOOLEAN
    BY DEF EditionInv, GunsOK
  <2>3. PICK id : /\ DOMAIN races' = DOMAIN races \cup {id}
                  /\ races'[id].gun = now + 1 /\ races'[id].rolling = FALSE
                  /\ \A r \in DOMAIN races \ {id} : races'[r] = races[r]
    BY <2>1 DEF Inserts, With, RaceRow
  <2>. QED
    BY <2>1, <2>2, <2>3 DEF EditionInv, GunsOK, OneEdition, EntriesOpen, EntriesCloseAt
<1>5. ASSUME NEW c \in Consoles, Deletes(c) PROVE EditionInv'
  <2>1. \A r \in DOMAIN races' : r \in DOMAIN races /\ races'[r] = races[r]
    BY <1>5 DEF Deletes, Without
  <2>2. now' = now
    BY <1>5 DEF Deletes
  <2>. QED
    BY <1>1, <2>1, <2>2 DEF EditionInv, GunsOK
<1>6. ASSUME races' = races, now' = now PROVE EditionInv'
  BY <1>1, <1>6 DEF EditionInv, GunsOK
<1>. QED
  BY <1>2, <1>3, <1>4, <1>5, <1>6
     DEF Next, vars, Holds, Saves, Registers, Enters, Uploads, Attaches, Starts, Reroutes, Routes, Removes, Lists,
         Counts, Adds

(***************************************************************************)
(* At no time do two practice editions take entries.                       *)
(***************************************************************************)
THEOREM EditionsDoNotOverlap == Spec => []OneEdition
<1>1. Init => EditionInv
  <2> SUFFICES ASSUME Init PROVE EditionInv
    OBVIOUS
  <2>1. now = 0 /\ \A r \in DOMAIN races : r = 1 /\ races[r].gun = 1 /\ races[r].rolling = FALSE
    <3>1. /\ now = 0
          /\ races = <<>> \/ races = [r \in {1} |-> [born |-> 0, name |-> <<>>, gun |-> 1, rolling |-> FALSE]]
      BY DEF Init
    <3>. QED
      BY <3>1
  <2>2. OneEdition
    BY <2>1, Zenon DEF OneEdition
  <2>3. now \in Nat /\ \A r \in DOMAIN races : races[r].gun \in Nat
    BY <2>1
  <2>4. \A r \in DOMAIN races : races[r].rolling \in BOOLEAN
    BY <2>1, Zenon
  <2>. QED
    BY <2>2, <2>3, <2>4, Zenon DEF EditionInv, GunsOK
<1>2. EditionInv /\ [Next]_vars => EditionInv'
  BY EditionStep
<1>3. EditionInv => OneEdition
  BY DEF EditionInv
<1>. QED
  BY <1>1, <1>2, <1>3, PTL DEF Spec

-----------------------------------------------------------------------------
(***************************************************************************)
(* OwnRows.  A process that holds a boat, or a race, writes under its id   *)
(* later on: the id is then still of that birth, or the birth is in        *)
(* crossed.  So are the rows written, and the races boats stand in.        *)
(***************************************************************************)
BoatRows == [born : Nat, race : Nat, entered : Nat, started : BOOLEAN, next : Nat \ {0}]

OwnedRows == [table : {"route_wps", "track", "race_docs"}, id : Nat, born : Nat]

Pcs == {"idle", "held", "entering", "routing", "attaching", "deleting", "adding"}

BoatStands(i, born) == (i \in DOMAIN boats /\ boats[i].born = born) \/ born \in crossed

RaceStands(r, born) == (r \in DOMAIN races /\ races[r].born = born) \/ born \in crossed

RacesOK ==
  /\ IsTable(races) /\ DOMAIN races \subseteq 1..fresh
  /\ \A r \in DOMAIN races :
       races[r].born \in 0..(fresh - 1) /\ races[r].gun \in Nat /\ races[r].rolling \in BOOLEAN

BoatsOK ==
  /\ IsTable(boats) /\ DOMAIN boats \subseteq 1..fresh
  /\ \A i \in DOMAIN boats : boats[i] \in BoatRows /\ boats[i].born < fresh

TablesOK ==
  /\ now \in Nat /\ fresh \in Nat /\ left \in [Jobs -> Nat]
  /\ RacesOK /\ BoatsOK /\ rows \subseteq OwnedRows

Holder(x) ==
  /\ x.pc \in Pcs /\ DOMAIN x = DOMAIN Idle /\ (x.pc = "idle" => x = Idle)
  /\ \A i \in DOMAIN x.held : i \in Nat /\ x.held[i] \in BoatRows /\ BoatStands(i, x.held[i].born)
  /\ x.pc = "held" => x.seq \in Nat /\ DOMAIN x.held # {}
  /\ x.pc \in {"entering", "attaching"} => x.race \in Nat /\ x.born \in Nat /\ RaceStands(x.race, x.born)

HoldersOK == DOMAIN pr = Processes /\ \A p \in Processes : Holder(pr[p])

RowsStand ==
  /\ \A x \in rows : IF x.table = "race_docs" THEN RaceStands(x.id, x.born) ELSE BoatStands(x.id, x.born)
  /\ \A i \in DOMAIN boats : RaceStands(boats[i].race, boats[i].entered)

Standing == TablesOK /\ HoldersOK /\ RowsStand

(***************************************************************************)
(* A step that deletes nothing takes no birth from its id.                 *)
(***************************************************************************)
Calm ==
  /\ crossed' = crossed
  /\ \A i \in DOMAIN boats : i \in DOMAIN boats' /\ boats'[i].born = boats[i].born
                             /\ boats'[i].race = boats[i].race /\ boats'[i].entered = boats[i].entered
  /\ \A r \in DOMAIN races : r \in DOMAIN races' /\ races'[r].born = races[r].born

LEMMA StandsOn ==
  ASSUME Calm, NEW i, NEW b
  PROVE  /\ BoatStands(i, b) => BoatStands(i, b)'
         /\ RaceStands(i, b) => RaceStands(i, b)'
BY DEF Calm, BoatStands, RaceStands

LEMMA HolderStays ==
  ASSUME Calm, NEW x, Holder(x)
  PROVE  Holder(x)'
BY StandsOn DEF Holder

LEMMA IdleHolder == Holder(Idle)
<1>1. Idle.pc = "idle" /\ DOMAIN Idle.held = {}
  BY DEF Idle
<1>. QED
  BY <1>1 DEF Holder, Pcs

(***************************************************************************)
(* One process goes on, the others hold what they held.                    *)
(***************************************************************************)
LEMMA OneGoes ==
  ASSUME HoldersOK, NEW p \in Processes, NEW x, pr' = [pr EXCEPT ![p] = x], Holder(x)',
         \A q \in Processes \ {p} : \A y : y = pr[q] /\ Holder(y) => Holder(y)'
  PROVE  HoldersOK'
<1>1. DOMAIN pr' = Processes
  BY DEF HoldersOK
<1>2. ASSUME NEW q \in Processes PROVE Holder(pr[q])'
  <2>1. PICK y : y = pr'[q]
    OBVIOUS
  <2>2. Holder(y)'
    <3>1. CASE q = p
      BY <2>1, <3>1 DEF HoldersOK
    <3>2. CASE q # p
      BY <2>1, <3>2 DEF HoldersOK
    <3>. QED
      BY <3>1, <3>2
  <2>. QED
    BY <2>1, <2>2 DEF Holder
<1>. QED
  BY <1>1, <1>2 DEF HoldersOK, Processes

(***************************************************************************)
(* Each kind of write.                                                     *)
(***************************************************************************)
LEMMA Inserting ==
  ASSUME TablesOK, NEW name, NEW gun \in Nat, NEW rolling \in BOOLEAN, NEW row,
         row = RaceRow(name, gun, rolling),
         races' = With(races, NextId(races), row), fresh' = fresh + 3, UNCHANGED <<boats, crossed>>
  PROVE  RacesOK' /\ BoatsOK' /\ Calm
<1>1. fresh \in Nat
  BY DEF TablesOK
<1>2. PICK id : id = NextId(races) /\ id \in 1..(fresh + 1) /\ id \notin DOMAIN races
  BY <1>1, IdIsNew DEF TablesOK, RacesOK
<1>3. row.born = fresh /\ row.gun \in Nat /\ row.rolling \in BOOLEAN
  BY DEF RaceRow
<1>4. /\ IsTable(races') /\ DOMAIN races' = DOMAIN races \cup {id}
      /\ races'[id] = row /\ \A r \in DOMAIN races : races'[r] = races[r]
  BY <1>2 DEF With, IsTable
<1>5. DOMAIN races' \subseteq 1..fresh'
  BY <1>1, <1>2, <1>4 DEF TablesOK, RacesOK
<1>6. \A r \in DOMAIN races' : races'[r].born \in 0..(fresh' - 1) /\ races'[r].gun \in Nat
  BY <1>1, <1>2, <1>3, <1>4 DEF TablesOK, RacesOK
<1>7. \A r \in DOMAIN races' : races'[r].rolling \in BOOLEAN
  BY <1>2, <1>3, <1>4, Zenon DEF TablesOK, RacesOK
<1>8. RacesOK'
  BY <1>4, <1>5, <1>6, <1>7 DEF RacesOK, IsTable
<1>9. BoatsOK'
  BY <1>1 DEF TablesOK, BoatsOK, BoatRows
<1>. QED
  BY <1>2, <1>4, <1>8, <1>9 DEF Calm

LEMMA Entering ==
  ASSUME TablesOK, NEW r \in Nat, NEW b \in Nat,
         boats' = With(boats, NextId(boats), BoatRow(fresh, r, b)), fresh' = fresh + 1, UNCHANGED <<races, crossed>>
  PROVE  /\ RacesOK' /\ BoatsOK' /\ Calm
         /\ \A i \in DOMAIN boats' : i \in DOMAIN boats \/ (boats'[i].race = r /\ boats'[i].entered = b)
<1>1. fresh \in Nat
  BY DEF TablesOK
<1>2. PICK id : id = NextId(boats) /\ id \in 1..(fresh + 1) /\ id \notin DOMAIN boats
  BY <1>1, IdIsNew DEF TablesOK, BoatsOK
<1>3. PICK row : row = BoatRow(fresh, r, b) /\ row \in BoatRows /\ row.born = fresh /\ row.race = r /\ row.entered = b
  <2>1. PICK row : row = BoatRow(fresh, r, b)
    OBVIOUS
  <2>2. row = [born |-> fresh, race |-> r, entered |-> b, started |-> FALSE, next |-> 1]
    BY <2>1 DEF BoatRow
  <2>3. row \in BoatRows
    BY <1>1, <2>2 DEF BoatRows
  <2>4. row.born = fresh /\ row.race = r /\ row.entered = b
    BY <2>2
  <2>. QED
    BY <2>1, <2>3, <2>4
<1>4. /\ IsTable(boats') /\ DOMAIN boats' = DOMAIN boats \cup {id}
      /\ boats'[id] = row /\ \A i \in DOMAIN boats : boats'[i] = boats[i]
  BY <1>2, <1>3 DEF With, IsTable
<1>5. DOMAIN boats' \subseteq 1..fresh'
  BY <1>1, <1>2, <1>4 DEF TablesOK, BoatsOK
<1>6. \A i \in DOMAIN boats' : boats'[i] \in BoatRows /\ boats'[i].born < fresh'
  <2>1. \A i \in DOMAIN boats : boats[i] \in BoatRows /\ boats[i].born \in Nat /\ boats[i].born < fresh
    BY DEF TablesOK, BoatsOK, BoatRows
  <2>. QED
    BY <1>1, <1>2, <1>3, <1>4, <2>1
<1>7. BoatsOK'
  BY <1>4, <1>5, <1>6 DEF BoatsOK, IsTable
<1>8. RacesOK'
  <2>1. \A q \in DOMAIN races : races[q].born \in 0..fresh /\ races[q].gun \in Nat
    BY <1>1 DEF TablesOK, RacesOK
  <2>. QED
    BY <1>1, <2>1 DEF TablesOK, RacesOK, IsTable
<1>. QED
  BY <1>3, <1>4, <1>7, <1>8 DEF Calm

LEMMA Updating ==
  ASSUME TablesOK, IsTable(boats'), DOMAIN boats' = DOMAIN boats, UNCHANGED <<races, crossed>>, fresh' \in Nat, fresh <= fresh',
         \A i \in DOMAIN boats : /\ boats'[i] \in BoatRows /\ boats'[i].born = boats[i].born
                                /\ boats'[i].race = boats[i].race /\ boats'[i].entered = boats[i].entered
  PROVE  RacesOK' /\ BoatsOK' /\ Calm
<1>1. \A i \in DOMAIN boats : boats[i].born \in Nat /\ boats[i].born < fresh
  BY DEF TablesOK, BoatsOK, BoatRows
<1>2. fresh \in Nat /\ DOMAIN boats' \subseteq 1..fresh'
  BY DEF TablesOK, BoatsOK
<1>3. BoatsOK'
  BY <1>1, <1>2 DEF TablesOK, BoatsOK, IsTable
<1>4. RacesOK'
  BY <1>2 DEF TablesOK, RacesOK, IsTable
<1>. QED
  BY <1>3, <1>4 DEF Calm

(***************************************************************************)
(* What is written stands for as long as what it was written for.          *)
(***************************************************************************)
LEMMA RowsStay ==
  ASSUME RowsStand, Calm, NEW new,
         \A x \in new : IF x.table = "race_docs" THEN RaceStands(x.id, x.born) ELSE BoatStands(x.id, x.born),
         rows' \subseteq rows \cup new,
         \A i \in DOMAIN boats' : \/ i \in DOMAIN boats
                                 \/ RaceStands(boats'[i].race, boats'[i].entered)
  PROVE  RowsStand'
<1>1. ASSUME NEW x \in rows'
      PROVE  IF x.table = "race_docs" THEN RaceStands(x.id, x.born)' ELSE BoatStands(x.id, x.born)'
  <2>1. IF x.table = "race_docs" THEN RaceStands(x.id, x.born) ELSE BoatStands(x.id, x.born)
    BY DEF RowsStand
  <2>. QED
    BY <2>1, StandsOn
<1>2. ASSUME NEW i \in DOMAIN boats'
      PROVE  RaceStands(boats[i].race, boats[i].entered)'
  <2>1. PICK r, e : r = boats'[i].race /\ e = boats'[i].entered
    OBVIOUS
  <2>2. RaceStands(r, e)
    BY <2>1 DEF RowsStand, Calm
  <2>3. RaceStands(r, e)'
    BY <2>2, StandsOn
  <2>. QED
    BY <2>1, <2>3 DEF RaceStands
<1>. QED
  BY <1>1, <1>2 DEF RowsStand

LEMMA RowsUnwritten ==
  ASSUME RowsStand, Calm, rows' = rows,
         \A i \in DOMAIN boats' : \/ i \in DOMAIN boats
                                 \/ RaceStands(boats'[i].race, boats'[i].entered)
  PROVE  RowsStand'
<1>1. PICK new : new = {}
  OBVIOUS
<1>2. /\ \A x \in new : IF x.table = "race_docs" THEN RaceStands(x.id, x.born) ELSE BoatStands(x.id, x.born)
      /\ rows' \subseteq rows \cup new
  BY <1>1
<1>. QED
  BY <1>2, RowsStay

LEMMA RowWritten ==
  ASSUME RowsStand, Calm, NEW y, rows' = rows \cup {y},
         IF y.table = "race_docs" THEN RaceStands(y.id, y.born) ELSE BoatStands(y.id, y.born),
         \A i \in DOMAIN boats' : \/ i \in DOMAIN boats
                                 \/ RaceStands(boats'[i].race, boats'[i].entered)
  PROVE  RowsStand'
<1>1. PICK new : new = {y}
  OBVIOUS
<1>2. /\ \A x \in new : IF x.table = "race_docs" THEN RaceStands(x.id, x.born) ELSE BoatStands(x.id, x.born)
      /\ rows' \subseteq rows \cup new
  BY <1>1
<1>. QED
  BY <1>2, RowsStay

(***************************************************************************)
(* The marks of a standing race are numbered from 0 without a gap.         *)
(***************************************************************************)
MarksOK ==
  /\ \A k \in DOMAIN marks : k \in (DOMAIN races) \X Nat /\ marks[k] \in 0..(fresh - 1)
  /\ \A r \in DOMAIN races : \E n \in Nat : Seqs(r) = 0..(n - 1)

LEMMA Numbered ==
  ASSUME NEW S, NEW n \in Nat, S = 0..(n - 1)
  PROVE  Cardinality(S) = n
<1>1. Cardinality(0..(n - 1)) = IF 0 > n - 1 THEN 0 ELSE (n - 1) - 0 + 1
  BY FS_Interval
<1>. QED
  BY <1>1

LEMMA CourseLength ==
  ASSUME MarksOK, NEW r \in DOMAIN races
  PROVE  Cardinality(Seqs(r)) \in Nat /\ Seqs(r) = 0..(Cardinality(Seqs(r)) - 1)
<1>1. PICK n \in Nat : Seqs(r) = 0..(n - 1)
  BY DEF MarksOK
<1>2. Cardinality(Seqs(r)) = n
  BY <1>1, Numbered
<1>. QED
  BY <1>1, <1>2

(***************************************************************************)
(* The steps that delete nothing.                                          *)
(***************************************************************************)
LEMMA DoesOK ==
  ASSUME TablesOK, NEW j \in Jobs, Does(j)
  PROVE  left' \in [Jobs -> Nat]
BY DEF TablesOK, Does

LEMMA CalmGoes ==
  ASSUME Standing, Calm, TablesOK', RowsStand', NEW p \in Processes, NEW x, Holder(x), pr' = [pr EXCEPT ![p] = x]
  PROVE  Standing'
<1>1. Holder(x)' /\ \A q \in Processes \ {p} : \A y : y = pr[q] /\ Holder(y) => Holder(y)'
  BY HolderStays
<1>2. HoldersOK'
  BY <1>1, OneGoes DEF Standing
<1>. QED
  BY <1>2 DEF Standing

LEMMA CalmStays ==
  ASSUME Standing, Calm, TablesOK', RowsStand', pr' = pr
  PROVE  Standing'
<1>1. ASSUME NEW p \in Processes PROVE Holder(pr[p])'
  <2>1. PICK y : y = pr[p] /\ y = pr'[p]
    OBVIOUS
  <2>2. Holder(y)'
    BY <2>1, HolderStays DEF Standing, HoldersOK
  <2>. QED
    BY <2>1, <2>2 DEF Holder
<1>2. HoldersOK'
  BY <1>1 DEF Standing, HoldersOK, Processes
<1>. QED
  BY <1>2 DEF Standing

LEMMA Reading ==
  ASSUME Standing, NEW p \in Processes, NEW x, Holder(x), pr' = [pr EXCEPT ![p] = x],
         UNCHANGED <<now, races, boats, rows, crossed, fresh>>, left' \in [Jobs -> Nat]
  PROVE  Standing' /\ Calm
<1>1. Calm
  BY DEF Calm
<1>2. RowsStand'
  BY <1>1, RowsUnwritten DEF Standing
<1>3. TablesOK'
  BY DEF Standing, TablesOK, RacesOK, BoatsOK, IsTable
<1>. QED
  BY <1>1, <1>2, <1>3, CalmGoes

LEMMA HeldRows ==
  ASSUME Standing, NEW S, S \subseteq DOMAIN boats, NEW x, DOMAIN x.held = S, \A i \in S : x.held[i] = boats[i]
  PROVE  \A i \in DOMAIN x.held : i \in Nat /\ x.held[i] \in BoatRows /\ BoatStands(i, x.held[i].born)
BY DEF Standing, TablesOK, BoatsOK, BoatStands

LEMMA ReadsStanding ==
  ASSUME Standing, MarksOK,
         \/ \E r \in DOMAIN races : Holds(r)
         \/ \E w \in Webs : \/ \E r \in DOMAIN races : Registers(w, r) \/ Uploads(w, r)
                           \/ \E i \in DOMAIN boats : Reroutes(w, i)
         \/ \E c \in Consoles, r \in DOMAIN races : Lists(c, r) \/ Counts(c, r)
  PROVE  Standing' /\ Calm
<1>1. ASSUME NEW p \in Processes, NEW j \in Jobs, Does(j), NEW x, Holder(x), pr' = [pr EXCEPT ![p] = x],
             UNCHANGED <<now, races, boats, rows, crossed, fresh>>
      PROVE  Standing' /\ Calm
  BY <1>1, DoesOK, Reading DEF Standing
<1>2. "ticker" \in Processes /\ Webs \subseteq Processes /\ Consoles \subseteq Processes
  BY DEF Processes
<1>3. ASSUME NEW r \in DOMAIN races, Holds(r) PROVE Standing' /\ Calm
  <2> DEFINE b == {i \in InRace(r) : boats[i].started}
  <2>1. PICK x : x = [Idle EXCEPT !.pc = "held", !.race = r, !.seq = Cardinality(Seqs(r)), !.held = [i \in b |-> boats[i]]]
    OBVIOUS
  <2>2. /\ x.pc = "held" /\ DOMAIN x = DOMAIN Idle /\ x.seq = Cardinality(Seqs(r))
        /\ DOMAIN x.held = b /\ \A i \in b : x.held[i] = boats[i]
    <3> HIDE DEF b
    <3>. QED
      BY <2>1 DEF Idle
  <2>3. b # {} /\ b \subseteq DOMAIN boats
    BY <1>3 DEF Holds, InRace
  <2>4. \A i \in DOMAIN x.held : i \in Nat /\ x.held[i] \in BoatRows /\ BoatStands(i, x.held[i].born)
    <3> HIDE DEF b
    <3>. QED
      BY <2>2, <2>3, HeldRows
  <2>5. Holder(x)
    BY <2>2, <2>3, <2>4, CourseLength DEF Holder, Pcs
  <2>6. Does("hold") /\ pr' = [pr EXCEPT !["ticker"] = x] /\ UNCHANGED <<now, races, boats, rows, crossed, fresh>>
    BY <1>3, <2>1 DEF Holds, Goes
  <2>7. "hold" \in Jobs
    BY DEF Jobs
  <2>. QED
    BY <1>1, <1>2, <2>5, <2>6, <2>7
<1>4. ASSUME NEW w \in Webs, NEW r \in DOMAIN races, Registers(w, r) \/ Uploads(w, r) PROVE Standing' /\ Calm
  <2>1. PICK x : x = pr'[w]
    OBVIOUS
  <2>2. \/ x = [Idle EXCEPT !.pc = "entering", !.race = r, !.born = races[r].born]
        \/ x = [Idle EXCEPT !.pc = "attaching", !.race = r, !.born = races[r].born]
    BY <1>2, <1>4, <2>1 DEF Registers, Uploads, Goes, Standing, HoldersOK
  <2>3. /\ x.pc \in {"entering", "attaching"} /\ DOMAIN x = DOMAIN Idle /\ x.race = r
        /\ x.born = races[r].born /\ DOMAIN x.held = {}
    <3>1. CASE x = [Idle EXCEPT !.pc = "entering", !.race = r, !.born = races[r].born]
      BY <3>1 DEF Idle
    <3>2. CASE x = [Idle EXCEPT !.pc = "attaching", !.race = r, !.born = races[r].born]
      BY <3>2 DEF Idle
    <3>. QED
      BY <2>2, <3>1, <3>2
  <2>4. r \in Nat /\ races[r].born \in Nat
    BY DEF Standing, TablesOK, RacesOK
  <2>5. Holder(x)
    BY <2>3, <2>4 DEF Holder, Pcs, RaceStands
  <2>6. PICK j \in {"register", "upload"} : Does(j)
    BY <1>4 DEF Registers, Uploads
  <2>7. pr' = [pr EXCEPT ![w] = x] /\ UNCHANGED <<now, races, boats, rows, crossed, fresh>>
    BY <1>2, <1>4, <2>1 DEF Registers, Uploads, Goes, Standing, HoldersOK
  <2>8. j \in Jobs
    BY DEF Jobs
  <2>. QED
    BY <1>1, <1>2, <2>5, <2>6, <2>7, <2>8
<1>5. ASSUME NEW w \in Webs, NEW i \in DOMAIN boats, Reroutes(w, i) PROVE Standing' /\ Calm
  <2>1. PICK x : x = [Idle EXCEPT !.pc = "routing", !.held = [j \in {i} |-> boats[j]]]
    OBVIOUS
  <2>2. x.pc = "routing" /\ DOMAIN x = DOMAIN Idle /\ DOMAIN x.held = {i} /\ \A j \in {i} : x.held[j] = boats[j]
    BY <2>1 DEF Idle
  <2>3. \A j \in DOMAIN x.held : j \in Nat /\ x.held[j] \in BoatRows /\ BoatStands(j, x.held[j].born)
    BY <2>2, HeldRows
  <2>4. Holder(x)
    BY <2>2, <2>3 DEF Holder, Pcs
  <2>5. Does("submit") /\ pr' = [pr EXCEPT ![w] = x] /\ UNCHANGED <<now, races, boats, rows, crossed, fresh>>
    BY <1>5, <2>1 DEF Reroutes, Goes
  <2>6. "submit" \in Jobs
    BY DEF Jobs
  <2>. QED
    BY <1>1, <1>2, <2>4, <2>5, <2>6
<1>6. ASSUME NEW c \in Consoles, NEW r \in DOMAIN races, Lists(c, r) PROVE Standing' /\ Calm
  <2>1. PICK x : x = [Idle EXCEPT !.pc = "deleting", !.race = r, !.held = [i \in InRace(r) |-> boats[i]]]
    OBVIOUS
  <2>2. /\ x.pc = "deleting" /\ DOMAIN x = DOMAIN Idle
        /\ DOMAIN x.held = InRace(r) /\ \A j \in InRace(r) : x.held[j] = boats[j]
    BY <2>1 DEF Idle
  <2>3. InRace(r) \subseteq DOMAIN boats
    BY DEF InRace
  <2>4. \A j \in DOMAIN x.held : j \in Nat /\ x.held[j] \in BoatRows /\ BoatStands(j, x.held[j].born)
    BY <2>2, <2>3, HeldRows
  <2>5. Holder(x)
    BY <2>2, <2>4 DEF Holder, Pcs
  <2>6. Does("delete") /\ pr' = [pr EXCEPT ![c] = x] /\ UNCHANGED <<now, races, boats, rows, crossed, fresh>>
    BY <1>6, <2>1 DEF Lists, Goes
  <2>7. "delete" \in Jobs
    BY DEF Jobs
  <2>. QED
    BY <1>1, <1>2, <2>5, <2>6, <2>7
<1>7. ASSUME NEW c \in Consoles, NEW r \in DOMAIN races, Counts(c, r) PROVE Standing' /\ Calm
  <2>1. PICK seq : Goes(c, [Idle EXCEPT !.pc = "adding", !.race = r, !.seq = seq,
                                     !.born = races[r].born, !.count = Counted(r)])
    BY <1>7 DEF Counts
  <2>2. PICK x : x = [Idle EXCEPT !.pc = "adding", !.race = r, !.seq = seq, !.born = races[r].born, !.count = Counted(r)]
    OBVIOUS
  <2>3. x.pc = "adding" /\ DOMAIN x = DOMAIN Idle /\ DOMAIN x.held = {}
    BY <2>2 DEF Idle
  <2>4. Holder(x)
    BY <2>3 DEF Holder, Pcs
  <2>5. Does("add_mark") /\ pr' = [pr EXCEPT ![c] = x] /\ UNCHANGED <<now, races, boats, rows, crossed, fresh>>
    BY <1>7, <2>1, <2>2 DEF Counts, Goes
  <2>6. "add_mark" \in Jobs
    BY DEF Jobs
  <2>. QED
    BY <1>1, <1>2, <2>4, <2>5, <2>6
<1>. QED
  BY <1>3, <1>4, <1>5, <1>6, <1>7

(***************************************************************************)
(* The steps that add a race.                                              *)
(***************************************************************************)
LEMMA CreatesStanding ==
  ASSUME Standing, OpenPractice \/ CommitteeCreates \/ PageCreates \/ DocsCreate
  PROVE  Standing' /\ Calm
<1>1. now \in Nat /\ fresh \in Nat /\ TablesOK /\ "create" \in Jobs
  BY DEF Standing, TablesOK, Jobs
<1>2. PICK name, t, rolling : /\ t \in {now, now + 1} /\ rolling \in BOOLEAN
                              /\ races' = With(races, NextId(races), RaceRow(name, t, rolling)) /\ fresh' = fresh + 3
  <2>1. CASE OpenPractice
    <3>1. PICK name : Inserts(name, now, TRUE)
      BY <2>1 DEF OpenPractice
    <3>. QED
      BY <3>1 DEF Inserts
  <2>2. CASE CommitteeCreates \/ PageCreates \/ DocsCreate
    <3>1. Inserts(<<>>, now + 1, FALSE)
      BY <2>2 DEF CommitteeCreates, PageCreates, DocsCreate
    <3>. QED
      BY <3>1 DEF Inserts
  <2>. QED
    BY <2>1, <2>2
<1>3. PICK row : row = RaceRow(name, t, rolling)
  OBVIOUS
<1>4. UNCHANGED <<now, boats, crossed, pr>>
  BY DEF OpenPractice, CommitteeCreates, PageCreates, DocsCreate
<1>5. RacesOK' /\ BoatsOK' /\ Calm
  <2>1. t \in Nat /\ races' = With(races, NextId(races), row) /\ UNCHANGED <<boats, crossed>>
    BY <1>1, <1>2, <1>3, <1>4
  <2>. QED
    BY <1>1, <1>2, <1>3, <2>1, Inserting
<1>6. left' \in [Jobs -> Nat]
  <2>1. left' = left \/ Does("create")
    BY DEF OpenPractice, CommitteeCreates, PageCreates, DocsCreate
  <2>. QED
    BY <1>1, <2>1, DoesOK DEF TablesOK
<1>7. RowsStand' /\ rows' \subseteq OwnedRows
  <2>1. CASE rows' = rows
    BY <1>1, <1>4, <1>5, <2>1, RowsUnwritten DEF Standing, TablesOK
  <2>2. CASE DocsCreate
    <3>1. PICK id : id = NextId(races) /\ id \in 1..(fresh + 1) /\ id \notin DOMAIN races
      BY <1>1, IdIsNew DEF TablesOK, RacesOK
    <3>2. PICK x : x = DocRow(id, fresh)
      OBVIOUS
    <3>3. x = [table |-> "race_docs", id |-> id, born |-> fresh]
      BY <3>2 DEF DocRow
    <3>4. x \in OwnedRows
      BY <1>1, <3>1, <3>3 DEF OwnedRows
    <3>5. rows' = rows \cup {x}
      BY <2>2, <3>1, <3>2 DEF DocsCreate
    <3>6. races'[id].born = fresh /\ id \in DOMAIN races'
      BY <1>2, <3>1 DEF With, RaceRow
    <3>7. RaceStands(x.id, x.born)'
      BY <3>3, <3>6 DEF RaceStands
    <3>8. \A y \in rows : IF y.table = "race_docs" THEN RaceStands(y.id, y.born)' ELSE BoatStands(y.id, y.born)'
      BY <1>5, StandsOn DEF Standing, RowsStand
    <3>9. \A i \in DOMAIN boats' : RaceStands(boats[i].race, boats[i].entered)'
      <4> SUFFICES ASSUME NEW i \in DOMAIN boats' PROVE RaceStands(boats[i].race, boats[i].entered)'
        OBVIOUS
      <4>1. PICK r, e : r = boats'[i].race /\ e = boats'[i].entered
        OBVIOUS
      <4>2. RaceStands(r, e)'
        BY <1>4, <1>5, <4>1, StandsOn DEF Standing, RowsStand
      <4>. QED
        BY <4>1, <4>2 DEF RaceStands
    <3>10. \A y \in rows' : IF y.table = "race_docs" THEN RaceStands(y.id, y.born)' ELSE BoatStands(y.id, y.born)'
      BY <3>3, <3>5, <3>7, <3>8
    <3>. QED
      BY <1>1, <3>4, <3>5, <3>9, <3>10 DEF RowsStand, TablesOK
  <2>. QED
    BY <2>1, <2>2 DEF OpenPractice, CommitteeCreates, PageCreates
<1>8. TablesOK'
  BY <1>1, <1>2, <1>4, <1>5, <1>6, <1>7 DEF TablesOK
<1>. QED
  BY <1>4, <1>5, <1>7, <1>8, CalmStays

(***************************************************************************)
(* The steps that write under an id read earlier, or under a boat's own.   *)
(***************************************************************************)
LEMMA SavesStanding ==
  ASSUME Standing, Saves
  PROVE  Standing' /\ Calm
<1>1. PICK t : t = pr["ticker"] /\ Holder(t) /\ t.pc = "held"
  BY DEF Standing, HoldersOK, Processes, Saves, At
<1>2. PICK i : i = Min(DOMAIN t.held)
  OBVIOUS
<1>3. i \in DOMAIN t.held /\ i \in Nat
  <2>1. DOMAIN t.held \in SUBSET Nat /\ DOMAIN t.held # {}
    BY <1>1 DEF Holder
  <2>. QED
    BY <1>2, <2>1, LeastIsMin
<1>4. PICK h : h = t.held[i] /\ h \in BoatRows /\ BoatStands(i, h.born)
  BY <1>1, <1>3 DEF Holder
<1>5. PICK rest : rest = Without(t.held, {i})
  OBVIOUS
<1>6. PICK x : x = IF rest = <<>> THEN Idle ELSE [t EXCEPT !.held = rest]
  OBVIOUS
<1>7. PICK next \in h.next..t.seq : boats' = Sailed(i, next)
  BY <1>1, <1>2, <1>4 DEF Saves
<1>8. /\ rows' = rows \cup {[table |-> "track", id |-> i, born |-> h.born]}
      /\ pr' = [pr EXCEPT !["ticker"] = x]
      /\ UNCHANGED <<now, races, marks, crossed, fresh, left>>
  BY <1>1, <1>2, <1>4, <1>5, <1>6 DEF Saves, Goes
<1>9. Holder(x)
  <2>1. CASE rest = <<>>
    BY <1>6, <2>1, IdleHolder
  <2>2. CASE rest # <<>>
    <3>1. DOMAIN rest = DOMAIN t.held \ {i} /\ \A j \in DOMAIN rest : rest[j] = t.held[j]
      BY <1>5 DEF Without
    <3>2. DOMAIN rest # {}
      BY <1>5, <2>2 DEF Without
    <3>3. DOMAIN t = {"pc", "race", "born", "seq", "count", "held"}
      BY <1>1 DEF Holder, Idle
    <3>4. x = [t EXCEPT !.held = rest]
      BY <1>6, <2>2
    <3>5. x.held = rest /\ x.pc = t.pc /\ x.seq = t.seq /\ DOMAIN x = DOMAIN t
      BY <3>3, <3>4
    <3>6. \A j \in DOMAIN x.held : j \in Nat /\ x.held[j] \in BoatRows /\ BoatStands(j, x.held[j].born)
      BY <1>1, <3>1, <3>5 DEF Holder
    <3>. QED
      BY <1>1, <3>2, <3>5, <3>6 DEF Holder
  <2>. QED
    BY <2>1, <2>2
<1>10. /\ IsTable(boats') /\ DOMAIN boats' = DOMAIN boats
       /\ \A j \in DOMAIN boats : /\ boats'[j] \in BoatRows /\ boats'[j].born = boats[j].born
                                 /\ boats'[j].race = boats[j].race /\ boats'[j].entered = boats[j].entered
  <2>1. next \in Nat \ {0}
    BY <1>1, <1>4, <1>7 DEF BoatRows, Holder
  <2>2. IsTable(boats) /\ \A j \in DOMAIN boats : boats[j] \in BoatRows
    BY DEF Standing, TablesOK, BoatsOK
  <2>3. CASE i \notin DOMAIN boats
    BY <1>7, <2>2, <2>3 DEF Sailed
  <2>4. CASE i \in DOMAIN boats
    <3>1. PICK row : row = [boats[i] EXCEPT !.started = TRUE, !.next = next]
      OBVIOUS
    <3>2. /\ row \in BoatRows /\ row.born = boats[i].born /\ row.race = boats[i].race
          /\ row.entered = boats[i].entered
      BY <2>1, <2>2, <2>4, <3>1 DEF BoatRows
    <3>3. DOMAIN boats' = DOMAIN boats /\ IsTable(boats') /\ \A j \in DOMAIN boats : boats'[j] = IF j = i THEN row ELSE boats[j]
      BY <1>7, <2>4, <3>1 DEF Sailed, IsTable
    <3>. QED
      BY <2>2, <3>2, <3>3
  <2>. QED
    BY <2>3, <2>4
<1>11. RacesOK' /\ BoatsOK' /\ Calm
  BY <1>8, <1>10, Updating DEF Standing, TablesOK
<1>12. PICK y : y = [table |-> "track", id |-> i, born |-> h.born]
  OBVIOUS
<1>13. y \in OwnedRows /\ y.table # "race_docs" /\ y.id = i /\ y.born = h.born
  BY <1>3, <1>4, <1>12 DEF OwnedRows, BoatRows
<1>14. RowsStand'
  <2>1. IF y.table = "race_docs" THEN RaceStands(y.id, y.born) ELSE BoatStands(y.id, y.born)
    BY <1>4, <1>13
  <2>2. rows' = rows \cup {y} /\ \A j \in DOMAIN boats' : j \in DOMAIN boats
    BY <1>8, <1>10, <1>12
  <2>. QED
    BY <1>11, <2>1, <2>2, RowWritten DEF Standing
<1>15. TablesOK'
  BY <1>8, <1>11, <1>12, <1>13 DEF Standing, TablesOK
<1>. QED
  BY <1>8, <1>9, <1>11, <1>14, <1>15, CalmGoes DEF Processes

LEMMA EntersStanding ==
  ASSUME Standing, NEW w \in Webs, Enters(w)
  PROVE  Standing' /\ Calm
<1>1. PICK t : t = pr[w] /\ Holder(t) /\ t.pc = "entering" /\ w \in Processes
  BY DEF Standing, HoldersOK, Processes, Enters, At
<1>2. PICK r, b : r = t.race /\ b = t.born /\ r \in Nat /\ b \in Nat /\ RaceStands(r, b)
  BY <1>1 DEF Holder
<1>3. /\ boats' = With(boats, NextId(boats), BoatRow(fresh, r, b)) /\ fresh' = fresh + 1
      /\ pr' = [pr EXCEPT ![w] = Idle] /\ UNCHANGED <<now, races, marks, rows, crossed, left>>
  BY <1>1, <1>2 DEF Enters, Goes
<1>4. /\ RacesOK' /\ BoatsOK' /\ Calm
      /\ \A i \in DOMAIN boats' : i \in DOMAIN boats \/ (boats'[i].race = r /\ boats'[i].entered = b)
  BY <1>2, <1>3, Entering DEF Standing
<1>5. RowsStand'
  <2>1. \A i \in DOMAIN boats' : i \in DOMAIN boats \/ RaceStands(boats'[i].race, boats'[i].entered)
    BY <1>2, <1>4
  <2>. QED
    BY <1>3, <1>4, <2>1, RowsUnwritten DEF Standing
<1>6. TablesOK'
  BY <1>3, <1>4 DEF Standing, TablesOK
<1>. QED
  BY <1>1, <1>3, <1>4, <1>5, <1>6, IdleHolder, CalmGoes

(***************************************************************************)
(* Of the boats nothing changes but where they are.                        *)
(***************************************************************************)
LEMMA SameBoats ==
  ASSUME Standing, UNCHANGED <<boats, races, crossed, fresh>>
  PROVE  RacesOK' /\ BoatsOK' /\ Calm /\ \A i \in DOMAIN boats' : i \in DOMAIN boats
BY DEF Standing, TablesOK, RacesOK, BoatsOK, IsTable, Calm

LEMMA WritesStanding ==
  ASSUME Standing, NEW w \in Webs, Attaches(w) \/ Routes(w) \/ \E i \in DOMAIN boats : Starts(w, i)
  PROVE  Standing' /\ Calm
<1>1. w \in Processes
  BY DEF Processes
<1>2. PICK t : t = pr[w] /\ Holder(t)
  BY <1>1 DEF Standing, HoldersOK
<1>3. CASE Attaches(w)
  <2>1. t.pc = "attaching" /\ t.race \in Nat /\ t.born \in Nat /\ RaceStands(t.race, t.born)
    BY <1>2, <1>3 DEF Attaches, At, Holder
  <2>2. PICK y : y = DocRow(t.race, t.born)
    OBVIOUS
  <2>3. y \in OwnedRows /\ y.table = "race_docs" /\ y.id = t.race /\ y.born = t.born
    BY <2>1, <2>2 DEF DocRow, OwnedRows
  <2>4. /\ rows' = rows \cup {y} /\ pr' = [pr EXCEPT ![w] = Idle]
        /\ UNCHANGED <<now, races, marks, boats, crossed, fresh, left>>
    BY <1>2, <1>3, <2>2 DEF Attaches, Goes
  <2>5. RacesOK' /\ BoatsOK' /\ Calm /\ \A i \in DOMAIN boats' : i \in DOMAIN boats
    BY <2>4, SameBoats
  <2>6. RowsStand'
    <3>1. IF y.table = "race_docs" THEN RaceStands(y.id, y.born) ELSE BoatStands(y.id, y.born)
      BY <2>1, <2>3
    <3>. QED
      BY <2>4, <2>5, <3>1, RowWritten DEF Standing
  <2>7. TablesOK'
    BY <2>3, <2>4, <2>5 DEF Standing, TablesOK
  <2>. QED
    BY <1>1, <2>4, <2>5, <2>6, <2>7, IdleHolder, CalmGoes
<1>4. CASE Routes(w)
  <2>1. \A i \in DOMAIN t.held : i \in Nat /\ t.held[i] \in BoatRows /\ BoatStands(i, t.held[i].born)
    BY <1>2 DEF Holder
  <2>2. PICK new : new = {RouteRow(i, t.held[i].born) : i \in DOMAIN t.held}
    OBVIOUS
  <2>3. \A y \in new : y \in OwnedRows /\ y.table # "race_docs" /\ BoatStands(y.id, y.born)
    <3> SUFFICES ASSUME NEW i \in DOMAIN t.held, NEW y, y = RouteRow(i, t.held[i].born)
                 PROVE  y \in OwnedRows /\ y.table # "race_docs" /\ BoatStands(y.id, y.born)
      BY <2>2
    <3>1. y.table = "route_wps" /\ y.id = i /\ y.born = t.held[i].born
      BY DEF RouteRow
    <3>2. y \in OwnedRows
      BY <2>1 DEF RouteRow, OwnedRows, BoatRows
    <3>. QED
      BY <2>1, <3>1, <3>2
  <2>4. /\ rows' = rows \cup new /\ pr' = [pr EXCEPT ![w] = Idle]
        /\ UNCHANGED <<now, races, marks, boats, crossed, fresh, left>>
    BY <1>2, <1>4, <2>2 DEF Routes, Goes
  <2>5. RacesOK' /\ BoatsOK' /\ Calm /\ \A i \in DOMAIN boats' : i \in DOMAIN boats
    BY <2>4, SameBoats
  <2>6. RowsStand'
    BY <2>3, <2>4, <2>5, RowsStay DEF Standing
  <2>7. TablesOK'
    BY <2>3, <2>4, <2>5 DEF Standing, TablesOK
  <2>. QED
    BY <1>1, <2>4, <2>5, <2>6, <2>7, IdleHolder, CalmGoes
<1>5. ASSUME NEW i \in DOMAIN boats, Starts(w, i) PROVE Standing' /\ Calm
  <2>1. PICK y : y = RouteRow(i, boats[i].born)
    OBVIOUS
  <2>2. IsTable(boats) /\ i \in Nat /\ boats[i].born \in Nat /\ \A j \in DOMAIN boats : boats[j] \in BoatRows
    BY DEF Standing, TablesOK, BoatsOK, BoatRows
  <2>3. y \in OwnedRows /\ y.table = "route_wps" /\ y.id = i /\ y.born = boats[i].born
    BY <2>1, <2>2 DEF RouteRow, OwnedRows
  <2>4. /\ rows' = rows \cup {y} /\ UNCHANGED <<now, races, marks, crossed, fresh, pr>>
        /\ boats' = [boats EXCEPT ![i].started = TRUE, ![i].next = 1] /\ Does("submit")
    BY <1>5, <2>1 DEF Starts
  <2>5. /\ IsTable(boats') /\ DOMAIN boats' = DOMAIN boats
        /\ \A j \in DOMAIN boats : /\ boats'[j] \in BoatRows /\ boats'[j].born = boats[j].born
                                  /\ boats'[j].race = boats[j].race /\ boats'[j].entered = boats[j].entered
    <3>1. PICK row : row = [boats[i] EXCEPT !.started = TRUE, !.next = 1]
      OBVIOUS
    <3>2. /\ row \in BoatRows /\ row.born = boats[i].born /\ row.race = boats[i].race
          /\ row.entered = boats[i].entered
      <4>1. PICK old, n : old = boats[i] /\ n = 1 /\ old \in BoatRows /\ n \in Nat \ {0}
        BY <2>2
      <4>2. row = [old EXCEPT !.started = TRUE, !.next = n]
        BY <3>1, <4>1
      <4>3. row \in BoatRows /\ row.born = old.born /\ row.race = old.race /\ row.entered = old.entered
        BY <4>1, <4>2 DEF BoatRows
      <4>. QED
        BY <4>1, <4>3
    <3>3. boats' = [boats EXCEPT ![i] = row]
      <4>1. row = [[boats[i] EXCEPT !.started = TRUE] EXCEPT !.next = 1]
        BY <3>1
      <4>2. DOMAIN boats' = DOMAIN boats /\ \A j \in DOMAIN boats : boats'[j] = IF j = i THEN row ELSE boats[j]
        BY <2>4, <4>1
      <4>. QED
        BY <2>4, <4>2
    <3>4. DOMAIN boats' = DOMAIN boats /\ IsTable(boats') /\ \A j \in DOMAIN boats : boats'[j] = IF j = i THEN row ELSE boats[j]
      BY <2>2, <3>3 DEF IsTable
    <3>. QED
      BY <2>2, <3>2, <3>4
  <2>6. RacesOK' /\ BoatsOK' /\ Calm
    BY <2>4, <2>5, Updating DEF Standing, TablesOK
  <2>7. BoatStands(y.id, y.born)
    BY <2>3 DEF BoatStands
  <2>8. RowsStand'
    <3>1. IF y.table = "race_docs" THEN RaceStands(y.id, y.born) ELSE BoatStands(y.id, y.born)
      BY <2>3, <2>7
    <3>. QED
      BY <2>4, <2>5, <2>6, <3>1, RowWritten DEF Standing
  <2>9. "submit" \in Jobs
    BY DEF Jobs
  <2>10. TablesOK'
    BY <2>3, <2>4, <2>6, <2>9, DoesOK DEF Standing, TablesOK
  <2>. QED
    BY <2>4, <2>6, <2>8, <2>10, CalmStays
<1>. QED
  BY <1>3, <1>4, <1>5

LEMMA AddsStanding ==
  ASSUME Standing, NEW c \in Consoles, Adds(c)
  PROVE  Standing' /\ Calm
<1>1. PICK r, seq : /\ boats' = Shifted(r, seq) \/ boats' = boats
                    /\ fresh' = fresh + 1 \/ fresh' = fresh
  BY DEF Adds
<1>2. pr' = [pr EXCEPT ![c] = Idle] /\ UNCHANGED <<now, races, rows, crossed, left>> /\ c \in Processes
  BY DEF Adds, Goes, Processes
<1>3. IsTable(boats) /\ \A j \in DOMAIN boats : boats[j] \in BoatRows
  BY DEF Standing, TablesOK, BoatsOK
<1>4. /\ IsTable(boats') /\ DOMAIN boats' = DOMAIN boats
      /\ \A j \in DOMAIN boats : /\ boats'[j] \in BoatRows /\ boats'[j].born = boats[j].born
                                /\ boats'[j].race = boats[j].race /\ boats'[j].entered = boats[j].entered
  <2>1. CASE boats' = boats
    BY <1>3, <2>1
  <2>2. CASE boats' = Shifted(r, seq)
    <3>1. DOMAIN boats' = DOMAIN boats /\ IsTable(boats')
      BY <2>2 DEF Shifted, IsTable
    <3>2. ASSUME NEW j \in DOMAIN boats
          PROVE  /\ boats'[j] \in BoatRows /\ boats'[j].born = boats[j].born
                 /\ boats'[j].race = boats[j].race /\ boats'[j].entered = boats[j].entered
      <4>1. boats'[j] = boats[j] \/ boats'[j] = [boats[j] EXCEPT !.next = @ + 1]
        BY <2>2 DEF Shifted
      <4>. QED
        BY <1>3, <4>1 DEF BoatRows
    <3>. QED
      BY <3>1, <3>2
  <2>. QED
    BY <1>1, <2>1, <2>2
<1>5. fresh' \in Nat /\ fresh <= fresh'
  BY <1>1 DEF Standing, TablesOK
<1>6. RacesOK' /\ BoatsOK' /\ Calm
  BY <1>2, <1>4, <1>5, Updating DEF Standing
<1>7. RowsStand'
  BY <1>2, <1>4, <1>6, RowsUnwritten DEF Standing
<1>8. TablesOK'
  BY <1>2, <1>5, <1>6 DEF Standing, TablesOK
<1>. QED
  BY <1>2, <1>6, <1>7, <1>8, IdleHolder, CalmGoes

LEMMA ClockStanding ==
  ASSUME Standing, Clock
  PROVE  Standing' /\ Calm
<1>1. now' = now + 1 /\ Does("clock") /\ UNCHANGED <<races, marks, boats, rows, crossed, fresh, pr>>
  BY DEF Clock
<1>2. RacesOK' /\ BoatsOK' /\ Calm /\ \A i \in DOMAIN boats' : i \in DOMAIN boats
  BY <1>1, SameBoats
<1>3. RowsStand'
  BY <1>1, <1>2, RowsUnwritten DEF Standing
<1>4. "clock" \in Jobs
  BY DEF Jobs
<1>5. TablesOK'
  BY <1>1, <1>2, <1>4, DoesOK DEF Standing, TablesOK
<1>. QED
  BY <1>1, <1>2, <1>3, <1>5, CalmStays

(***************************************************************************)
(* The steps that delete, under which others hold what they hold.          *)
(***************************************************************************)
LEMMA HeldByOthers ==
  ASSUME NEW c \in Processes, NEW q \in Processes \ {c}, NEW x, x = pr[q]
  PROVE  x.born \in HeldBy(c) /\ \A i \in DOMAIN x.held : x.held[i].born \in HeldBy(c)
BY DEF HeldBy

LEMMA Swept ==
  ASSUME Standing, NEW c \in Processes, NEW G, NEW R,
         races' = Without(races, R), boats' = Without(boats, G), UNCHANGED <<now, fresh>>,
         left' \in [Jobs -> Nat], crossed \subseteq crossed',
         \A i \in G \cap DOMAIN boats : boats[i].born \in HeldBy(c) => boats[i].born \in crossed',
         \A r \in R \cap DOMAIN races : races[r].born \in HeldBy(c) => races[r].born \in crossed',
         rows' \subseteq rows,
         \A x \in rows' : IF x.table = "race_docs" THEN x.id \notin R
                          ELSE x.id \in G \cap DOMAIN boats => boats[x.id].born \in crossed',
         \A i \in DOMAIN boats \ G : boats[i].race \notin R,
         DOMAIN pr' = Processes, pr'[c] = Idle, \A q \in Processes \ {c} : pr'[q] = pr[q]
  PROVE  Standing'
<1>1. /\ IsTable(races') /\ DOMAIN races' = DOMAIN races \ R /\ \A r \in DOMAIN races' : races'[r] = races[r]
      /\ IsTable(boats') /\ DOMAIN boats' = DOMAIN boats \ G /\ \A i \in DOMAIN boats' : boats'[i] = boats[i]
  BY DEF Without, IsTable
<1>2. ASSUME NEW i, NEW b, BoatStands(i, b), i \in G \cap DOMAIN boats /\ boats[i].born = b => b \in crossed'
      PROVE  BoatStands(i, b)'
  BY <1>1, <1>2 DEF BoatStands
<1>3. ASSUME NEW r, NEW b, RaceStands(r, b), r \in R \cap DOMAIN races /\ races[r].born = b => b \in crossed'
      PROVE  RaceStands(r, b)'
  BY <1>1, <1>3 DEF RaceStands
<1>4. RacesOK'
  BY <1>1 DEF Standing, TablesOK, RacesOK, IsTable
<1>5. BoatsOK'
  BY <1>1 DEF Standing, TablesOK, BoatsOK, IsTable
<1>6. TablesOK'
  BY <1>4, <1>5 DEF Standing, TablesOK
<1>7. RowsStand'
  <2>1. ASSUME NEW x \in rows'
        PROVE  IF x.table = "race_docs" THEN RaceStands(x.id, x.born)' ELSE BoatStands(x.id, x.born)'
    <3>1. x \in rows
      OBVIOUS
    <3>2. CASE x.table = "race_docs"
      BY <1>3, <3>1, <3>2 DEF Standing, RowsStand
    <3>3. CASE x.table # "race_docs"
      BY <1>2, <3>1, <3>3 DEF Standing, RowsStand
    <3>. QED
      BY <3>2, <3>3
  <2>2. ASSUME NEW i \in DOMAIN boats' PROVE RaceStands(boats[i].race, boats[i].entered)'
    <3>1. PICK r, e : r = boats[i].race /\ e = boats[i].entered /\ r = boats'[i].race /\ e = boats'[i].entered
      BY <1>1
    <3>2. RaceStands(r, e) /\ r \notin R
      BY <1>1, <3>1 DEF Standing, RowsStand
    <3>3. RaceStands(r, e)'
      BY <1>3, <3>2
    <3>. QED
      BY <3>1, <3>3 DEF RaceStands
  <2>. QED
    BY <2>1, <2>2 DEF RowsStand
<1>8. HoldersOK'
  <2>1. ASSUME NEW q \in Processes \ {c}, NEW x, x = pr[q] PROVE Holder(x)'
    <3>1. Holder(x)
      BY <2>1 DEF Standing, HoldersOK
    <3>2. x.born \in HeldBy(c) /\ \A i \in DOMAIN x.held : x.held[i].born \in HeldBy(c)
      BY <2>1, HeldByOthers
    <3>3. ASSUME NEW i \in DOMAIN x.held PROVE BoatStands(i, x.held[i].born)'
      BY <1>2, <3>1, <3>2 DEF Holder
    <3>4. ASSUME RaceStands(x.race, x.born) PROVE RaceStands(x.race, x.born)'
      BY <1>3, <3>2, <3>4
    <3>. QED
      BY <3>1, <3>3, <3>4 DEF Holder
  <2>2. Holder(Idle)'
    <3>1. Idle.pc = "idle" /\ DOMAIN Idle.held = {}
      BY DEF Idle
    <3>. QED
      BY <3>1 DEF Holder, Pcs
  <2>3. ASSUME NEW p \in Processes PROVE Holder(pr[p])'
    <3>1. PICK x : x = pr'[p]
      OBVIOUS
    <3>2. Holder(x)'
      <4>1. CASE p = c
        BY <2>2, <3>1, <4>1
      <4>2. CASE p # c
        BY <2>1, <3>1, <4>2
      <4>. QED
        BY <4>1, <4>2
    <3>. QED
      BY <3>1, <3>2 DEF Holder
  <2>. QED
    BY <2>3 DEF HoldersOK, Processes
<1>. QED
  BY <1>6, <1>7, <1>8 DEF Standing

LEMMA RemovesStanding ==
  ASSUME Standing, NEW c \in Consoles, NEW i \in DOMAIN boats, Removes(c, i)
  PROVE  Standing'
<1>1. c \in Processes /\ DOMAIN pr = Processes /\ pr[c] = Idle
  BY DEF Processes, Standing, HoldersOK, Holder, Removes, At
<1>2. /\ boats' = Without(boats, {i}) /\ UNCHANGED <<now, races, fresh, pr>>
      /\ crossed' = crossed \cup ({boats[i].born} \cap HeldBy(c)) /\ rows' = RowsGo({i})
  BY DEF Removes
<1>3. races' = Without(races, {})
  BY <1>2 DEF Standing, TablesOK, RacesOK, IsTable, Without
<1>4. left' \in [Jobs -> Nat]
  <2>1. "remove" \in Jobs /\ Does("remove")
    BY DEF Jobs, Removes
  <2>. QED
    BY <2>1, DoesOK DEF Standing
<1>5. rows' \subseteq rows /\ \A x \in rows' : x.table = "race_docs" \/ x.id # i
  BY <1>2 DEF RowsGo
<1>6. PICK G, R : G = {i} /\ R = {}
  OBVIOUS
<1>7. /\ races' = Without(races, R) /\ boats' = Without(boats, G) /\ rows' \subseteq rows /\ crossed \subseteq crossed'
      /\ \A j \in G \cap DOMAIN boats : boats[j].born \in HeldBy(c) => boats[j].born \in crossed'
      /\ \A r \in R \cap DOMAIN races : races[r].born \in HeldBy(c) => races[r].born \in crossed'
      /\ \A j \in DOMAIN boats \ G : boats[j].race \notin R
  BY <1>2, <1>3, <1>5, <1>6
<1>8. \A x \in rows' : IF x.table = "race_docs" THEN x.id \notin R
                       ELSE x.id \in G \cap DOMAIN boats => boats[x.id].born \in crossed'
  BY <1>5, <1>6
<1>9. DOMAIN pr' = Processes /\ pr'[c] = Idle /\ \A q \in Processes \ {c} : pr'[q] = pr[q]
  BY <1>1, <1>2
<1>. QED
  BY <1>1, <1>2, <1>4, <1>7, <1>8, <1>9, Swept

LEMMA DeletesStanding ==
  ASSUME Standing, NEW c \in Consoles, Deletes(c)
  PROVE  Standing'
<1>1. c \in Processes /\ DOMAIN pr = Processes
  BY DEF Processes, Standing, HoldersOK
<1>2. PICK r, listed : r = pr[c].race /\ listed = DOMAIN pr[c].held
  OBVIOUS
<1>3. PICK G : G = Gone(c)
  OBVIOUS
<1>4. /\ boats' = Without(boats, G) /\ races' = Without(races, {r}) /\ UNCHANGED <<now, fresh, left>>
      /\ pr' = [pr EXCEPT ![c] = Idle]
      /\ rows' = {x \in RowsGo(listed) : x.table # "race_docs" \/ x.id # r}
      /\ crossed' = crossed
             \cup (({boats[i].born : i \in G \cap listed}
                     \cup {races[q].born : q \in {r} \cap DOMAIN races}) \cap HeldBy(c))
             \cup {boats[i].born : i \in G \ listed}
  BY <1>2, <1>3 DEF Deletes, Goes
<1>5. G = {i \in DOMAIN boats : boats[i].race = r}
  BY <1>2, <1>3 DEF Gone, InRace
<1>6. \A i \in G \cap DOMAIN boats : boats[i].born \in HeldBy(c) => boats[i].born \in crossed'
  BY <1>4
<1>7. \A q \in {r} \cap DOMAIN races : races[q].born \in HeldBy(c) => races[q].born \in crossed'
  BY <1>4
<1>8. rows' \subseteq rows /\ crossed \subseteq crossed'
  BY <1>4 DEF RowsGo
<1>9. \A x \in rows' : IF x.table = "race_docs" THEN x.id \notin {r}
                       ELSE x.id \in G \cap DOMAIN boats => boats[x.id].born \in crossed'
  BY <1>4 DEF RowsGo
<1>10. \A i \in DOMAIN boats \ G : boats[i].race \notin {r}
  BY <1>5
<1>11. left' \in [Jobs -> Nat] /\ DOMAIN pr' = Processes /\ pr'[c] = Idle /\ \A q \in Processes \ {c} : pr'[q] = pr[q]
  BY <1>1, <1>4 DEF Standing, TablesOK
<1>. QED
  BY <1>1, <1>4, <1>6, <1>7, <1>8, <1>9, <1>10, <1>11, Swept

LEMMA StandingStep ==
  ASSUME Standing, MarksOK, [Next]_vars
  PROVE  /\ Standing'
         /\ (\A c \in Consoles : ~Deletes(c) /\ \A i \in DOMAIN boats : ~Removes(c, i)) => Calm
<1>1. CASE UNCHANGED vars
  <2>1. Calm /\ RowsStand' /\ TablesOK' /\ pr' = pr
    BY <1>1 DEF vars, Calm, RowsStand, TablesOK, RacesOK, BoatsOK, IsTable, RaceStands, BoatStands, Standing
  <2>. QED
    BY <2>1, CalmStays
<1>2. ASSUME NEW w \in Webs,
             \/ Enters(w) \/ Routes(w) \/ Attaches(w)
             \/ \E r \in DOMAIN races : Registers(w, r) \/ Uploads(w, r)
             \/ \E i \in DOMAIN boats : Starts(w, i) \/ Reroutes(w, i)
      PROVE  Standing' /\ Calm
  <2>1. CASE Enters(w)
    BY <2>1, EntersStanding
  <2>2. CASE Attaches(w) \/ Routes(w) \/ \E i \in DOMAIN boats : Starts(w, i)
    BY <2>2, WritesStanding
  <2>3. CASE (\E r \in DOMAIN races : Registers(w, r) \/ Uploads(w, r)) \/ (\E i \in DOMAIN boats : Reroutes(w, i))
    BY <2>3, ReadsStanding
  <2>. QED
    BY <1>2, <2>1, <2>2, <2>3, Zenon
<1>3. ASSUME NEW c \in Consoles,
             \/ Deletes(c) \/ Adds(c)
             \/ \E r \in DOMAIN races : Lists(c, r) \/ Counts(c, r)
             \/ \E i \in DOMAIN boats : Removes(c, i)
      PROVE  /\ Standing'
             /\ ~Deletes(c) /\ (\A i \in DOMAIN boats : ~Removes(c, i)) => Calm
  <2>1. CASE Deletes(c)
    BY <2>1, DeletesStanding
  <2>2. CASE \E i \in DOMAIN boats : Removes(c, i)
    BY <2>2, RemovesStanding
  <2>3. CASE Adds(c)
    BY <2>3, AddsStanding
  <2>4. CASE \E r \in DOMAIN races : Lists(c, r) \/ Counts(c, r)
    BY <2>4, ReadsStanding
  <2>. QED
    BY <1>3, <2>1, <2>2, <2>3, <2>4, Zenon
<1>4. CASE Clock
  BY <1>4, ClockStanding
<1>5. CASE OpenPractice \/ CommitteeCreates \/ PageCreates \/ DocsCreate
  BY <1>5, CreatesStanding
<1>6. CASE Saves
  BY <1>6, SavesStanding
<1>7. CASE \E r \in DOMAIN races : Holds(r)
  BY <1>7, ReadsStanding
<1>. QED
  BY <1>1, <1>2, <1>3, <1>4, <1>5, <1>6, <1>7, Zenon DEF Next

-----------------------------------------------------------------------------
(***************************************************************************)
(* Courses.  A race that stands has its marks numbered without a gap, and  *)
(* one that does not has none.                                             *)
(***************************************************************************)
LEMMA Course ==
  ASSUME MarksOK, NEW r
  PROVE  \E n \in Nat : Seqs(r) = 0..(n - 1) /\ Cardinality(Seqs(r)) = n
<1>1. CASE r \in DOMAIN races
  BY <1>1, CourseLength
<1>2. CASE r \notin DOMAIN races
  <2>1. Seqs(r) = {}
    BY <1>2 DEF MarksOK, Seqs
  <2>2. Seqs(r) = 0..(0 - 1)
    BY <2>1
  <2>. QED
    BY <2>2, Numbered
<1>. QED
  BY <1>1, <1>2

LEMMA SeqIn ==
  ASSUME MarksOK, NEW r, NEW s
  PROVE  s \in Seqs(r) <=> <<r, s>> \in DOMAIN marks
<1>1. ASSUME NEW k \in DOMAIN marks, k[1] = r, k[2] = s
      PROVE  <<r, s>> \in DOMAIN marks
  <2>1. k \in (DOMAIN races) \X Nat
    BY DEF MarksOK
  <2>2. k = <<k[1], k[2]>>
    BY <2>1
  <2>. QED
    BY <1>1, <2>2
<1>. QED
  BY <1>1 DEF Seqs

(***************************************************************************)
(* A longer course.                                                        *)
(***************************************************************************)
LEMMA LongerCourse ==
  ASSUME NEW m \in Nat, NEW n \in Nat, 0..(m - 1) \subseteq 0..(n - 1)
  PROVE  m <= n
<1>1. CASE m = 0
  BY <1>1
<1>2. CASE m # 0
  <2>1. m - 1 \in 0..(m - 1)
    BY <1>2
  <2>2. m - 1 \in 0..(n - 1)
    BY <2>1
  <2>. QED
    BY <2>2
<1>. QED
  BY <1>1, <1>2

NoShorter(r) ==
  /\ Cardinality(Seqs(r)) \in Nat /\ Cardinality(Seqs(r)') \in Nat
  /\ Cardinality(Seqs(r)) <= Cardinality(Seqs(r)')

Lengthened == \A r : Seqs(r) \subseteq Seqs(r)' /\ NoShorter(r)

LEMMA Lengthens ==
  ASSUME MarksOK, MarksOK', \A r : Seqs(r) \subseteq Seqs(r)'
  PROVE  Lengthened
<1>1. ASSUME NEW r PROVE NoShorter(r)
  <2>1. PICK m \in Nat : Seqs(r) = 0..(m - 1) /\ Cardinality(Seqs(r)) = m
    BY Course
  <2>2. PICK S : S = Seqs(r)'
    OBVIOUS
  <2>3. PICK n \in Nat : S = 0..(n - 1) /\ Cardinality(S) = n
    <3>1. CASE r \in DOMAIN races'
      <4>1. PICK n \in Nat : S = 0..(n - 1)
        BY <2>2, <3>1 DEF MarksOK
      <4>. QED
        BY <4>1, Numbered
    <3>2. CASE r \notin DOMAIN races'
      <4>1. S = {}
        BY <2>2, <3>2 DEF MarksOK, Seqs
      <4>2. S = 0..(0 - 1)
        BY <4>1
      <4>. QED
        BY <4>2, Numbered
    <3>. QED
      BY <3>1, <3>2
  <2>4. m <= n
    BY <2>1, <2>2, <2>3, LongerCourse
  <2>. QED
    BY <2>1, <2>2, <2>3, <2>4 DEF NoShorter
<1>. QED
  BY <1>1 DEF Lengthened

(***************************************************************************)
(* A race that is made has two marks, under an id that no mark has.        *)
(***************************************************************************)
LEMMA InsertsMarks ==
  ASSUME TablesOK, MarksOK, NEW name, NEW gun, NEW rolling, Inserts(name, gun, rolling)
  PROVE  /\ MarksOK' /\ Lengthened
         /\ \A k \in DOMAIN marks : k \in DOMAIN marks' /\ marks'[k] = marks[k]
         /\ \A r \in DOMAIN races : r \in DOMAIN races' /\ Seqs(r)' = Seqs(r)
<1>1. fresh \in Nat
  BY DEF TablesOK
<1>2. PICK id : id = NextId(races) /\ id \in 1..(fresh + 1) /\ id \notin DOMAIN races
  BY <1>1, IdIsNew DEF TablesOK, RacesOK
<1>3. PICK two : two = {id} \X (0..1)
  OBVIOUS
<1>4. /\ DOMAIN races' = DOMAIN races \cup {id} /\ fresh' = fresh + 3
      /\ DOMAIN marks' = DOMAIN marks \cup two
      /\ \A k \in DOMAIN marks \cup two : marks'[k] = IF k \in two THEN fresh + 1 + k[2] ELSE marks[k]
  BY <1>2, <1>3 DEF Inserts, With
<1>5. \A k \in DOMAIN marks : k[1] \in DOMAIN races /\ k \in (DOMAIN races) \X Nat /\ marks[k] \in 0..(fresh - 1) /\ k \notin two
  BY <1>2, <1>3 DEF MarksOK
<1>6. \A k \in two : k[1] = id /\ k[2] \in 0..1 /\ k = <<id, k[2]>>
  BY <1>3
<1>7. \A k \in DOMAIN marks : k \in DOMAIN marks' /\ marks'[k] = marks[k]
  BY <1>4, <1>5
<1>8. ASSUME NEW r, r # id PROVE Seqs(r)' = Seqs(r)
  <2>1. {k \in DOMAIN marks' : k[1] = r} = {k \in DOMAIN marks : k[1] = r}
    BY <1>4, <1>6, <1>8
  <2>. QED
    BY <2>1 DEF Seqs
<1>9. Seqs(id)' = 0..(2 - 1) /\ Seqs(id) = {}
  <2>1. {k \in DOMAIN marks' : k[1] = id} = two /\ {k \in DOMAIN marks : k[1] = id} = {}
    BY <1>2, <1>4, <1>5, <1>6
  <2>2. Seqs(id)' = {k[2] : k \in two} /\ Seqs(id) = {}
    BY <2>1 DEF Seqs
  <2>3. {k[2] : k \in two} = 0..1
    <3>1. \A k \in two : k[2] \in 0..1
      BY <1>6
    <3>2. ASSUME NEW s \in 0..1 PROVE \E k \in two : k[2] = s
      <4>1. <<id, s>> \in two /\ <<id, s>>[2] = s
        BY <1>3
      <4>. QED
        BY <4>1
    <3>. QED
      BY <3>1, <3>2
  <2>. QED
    BY <2>2, <2>3
<1>10. MarksOK'
  <2>1. ASSUME NEW k \in DOMAIN marks' PROVE k \in (DOMAIN races') \X Nat /\ marks'[k] \in 0..(fresh' - 1)
    <3>1. CASE k \in two
      BY <1>1, <1>3, <1>4, <1>6, <3>1
    <3>2. CASE k \notin two
      BY <1>1, <1>4, <1>5, <3>2
    <3>. QED
      BY <3>1, <3>2
  <2>2. ASSUME NEW r \in DOMAIN races' PROVE \E n \in Nat : Seqs(r)' = 0..(n - 1)
    <3>1. CASE r = id
      BY <1>9, <3>1
    <3>2. CASE r # id
      BY <1>4, <1>8, <3>2 DEF MarksOK
    <3>. QED
      BY <3>1, <3>2
  <2>. QED
    BY <2>1, <2>2 DEF MarksOK, Seqs
<1>11. \A r : Seqs(r) \subseteq Seqs(r)'
  <2> SUFFICES ASSUME NEW r PROVE Seqs(r) \subseteq Seqs(r)'
    OBVIOUS
  <2>1. CASE r = id
    BY <1>9, <2>1
  <2>2. CASE r # id
    BY <1>8, <2>2
  <2>. QED
    BY <2>1, <2>2
<1>. QED
  BY <1>2, <1>4, <1>7, <1>8, <1>10, <1>11, Lengthens

(***************************************************************************)
(* add_mark.py's scripts.  A race that is deleted while one adds a mark to *)
(* it does not occur (SetupOK); the marks it has counted stay.             *)
(***************************************************************************)
Excluded ==
  \/ left["delete"] = 0 /\ \A p \in Processes : ~At(p, "deleting")
  \/ left["add_mark"] = 0 /\ \A p \in Processes : ~At(p, "adding")

AddersOK ==
  \A p \in Processes : At(p, "adding") =>
    /\ pr[p].race \in DOMAIN races /\ pr[p].count \in Nat /\ pr[p].seq \in 0..pr[p].count
    /\ 0..(pr[p].count - 1) \subseteq Seqs(pr[p].race)

LEMMA AddsMarks ==
  ASSUME TablesOK, MarksOK, AddersOK, NEW c \in Processes, Adds(c)
  PROVE  \/ UNCHANGED <<marks, boats, fresh>>
         \/ \E r \in DOMAIN races, n \in Nat : \E seq \in 0..n :
              /\ Seqs(r) = 0..(n - 1) /\ DOMAIN marks' = DOMAIN marks \cup {<<r, n>>}
              /\ <<r, n>> \notin DOMAIN marks
              /\ marks'[<<r, seq>>] = fresh /\ fresh' = fresh + 1
              /\ \A s \in seq..(n - 1) : marks'[<<r, s + 1>>] = marks[<<r, s>>]
              /\ \A k \in DOMAIN marks : k[1] # r \/ k[2] < seq => marks'[k] = marks[k]
              /\ boats' = Shifted(r, seq)
<1>1. PICK r, n, seq : r = pr[c].race /\ n = pr[c].count /\ seq = pr[c].seq
  OBVIOUS
<1>2. r \in DOMAIN races /\ n \in Nat /\ seq \in 0..n /\ 0..(n - 1) \subseteq Seqs(r)
  BY <1>1 DEF AddersOK, Adds
<1>3. SUFFICES ASSUME Fits(r, n)
               PROVE  \E q \in DOMAIN races, m \in Nat : \E seq2 \in 0..m :
              /\ Seqs(q) = 0..(m - 1) /\ DOMAIN marks' = DOMAIN marks \cup {<<q, m>>}
              /\ <<q, m>> \notin DOMAIN marks
              /\ marks'[<<q, seq2>>] = fresh /\ fresh' = fresh + 1
              /\ \A s \in seq2..(m - 1) : marks'[<<q, s + 1>>] = marks[<<q, s>>]
              /\ \A k \in DOMAIN marks : k[1] # q \/ k[2] < seq2 => marks'[k] = marks[k]
              /\ boats' = Shifted(q, seq2)
  BY <1>1 DEF Adds
<1>4. PICK m \in Nat : Seqs(r) = 0..(m - 1)
  BY <1>2 DEF MarksOK
<1>5. n \notin Seqs(r) /\ <<r, n>> \notin DOMAIN marks
  BY <1>3, SeqIn DEF Fits
<1>6. m = n
  <2>1. n <= m
    BY <1>2, <1>4, LongerCourse
  <2>. QED
    BY <1>2, <1>4, <1>5, <2>1
<1>7. PICK up : up = {s \in Seqs(r) : seq <= s /\ s < n}
  OBVIOUS
<1>8. up = seq..(n - 1)
  BY <1>2, <1>4, <1>6, <1>7
<1>9. PICK D : D = DOMAIN marks \cup {<<r, s + 1>> : s \in up \cup {seq - 1}}
  OBVIOUS
<1>10. /\ marks' = [k \in D |-> CASE k = <<r, seq>> -> fresh
                              [] k[1] = r /\ k[2] - 1 \in up -> marks[<<r, k[2] - 1>>]
                              [] OTHER -> marks[k]]
       /\ boats' = Shifted(r, seq) /\ fresh' = fresh + 1
  BY <1>1, <1>3, <1>7, <1>9 DEF Adds
<1>11. \A s \in 0..(n - 1) : <<r, s>> \in DOMAIN marks
  BY <1>4, <1>6, SeqIn
<1>12. D = DOMAIN marks \cup {<<r, n>>}
  <2>1. ASSUME NEW s \in up \cup {seq - 1} PROVE <<r, s + 1>> \in DOMAIN marks \cup {<<r, n>>}
    <3>1. s + 1 \in 0..n
      BY <1>2, <1>8
    <3>2. CASE s + 1 = n
      BY <3>2
    <3>3. CASE s + 1 # n
      <4>1. s + 1 \in 0..(n - 1)
        BY <1>2, <3>1, <3>3
      <4>. QED
        BY <1>11, <4>1
    <3>. QED
      BY <3>2, <3>3
  <2>2. <<r, n>> \in {<<r, s + 1>> : s \in up \cup {seq - 1}}
    <3>1. n - 1 \in up \cup {seq - 1}
      BY <1>2, <1>8
    <3>2. (n - 1) + 1 = n
      BY <1>2
    <3>3. PICK s \in up \cup {seq - 1} : s + 1 = n
      BY <3>1, <3>2
    <3>. QED
      BY <3>3
  <2>. QED
    BY <1>9, <2>1, <2>2
<1>13. marks'[<<r, seq>>] = fresh
  <2>1. <<r, seq>> \in D
    <3>1. CASE seq = n
      BY <1>12, <3>1
    <3>2. CASE seq # n
      <4>1. seq \in 0..(n - 1)
        BY <1>2, <3>2
      <4>. QED
        BY <1>11, <1>12, <4>1
    <3>. QED
      BY <3>1, <3>2
  <2>2. PICK k : k = <<r, seq>>
    OBVIOUS
  <2>3. k \in D /\ k[2] - 1 \notin up
    BY <1>2, <1>8, <2>1, <2>2
  <2>4. marks'[k] = CASE k = <<r, seq>> -> fresh
                      [] k[1] = r /\ k[2] - 1 \in up -> marks[<<r, k[2] - 1>>]
                      [] OTHER -> marks[k]
    BY <1>10, <2>3
  <2>5. marks'[k] = fresh
    BY <2>2, <2>3, <2>4
  <2>. QED
    BY <2>2, <2>5
<1>14. ASSUME NEW s \in seq..(n - 1) PROVE marks'[<<r, s + 1>>] = marks[<<r, s>>]
  <2>1. PICK k : k = <<r, s + 1>>
    OBVIOUS
  <2>2. s \in up /\ k[1] = r /\ k[2] = s + 1 /\ k[2] - 1 = s /\ k # <<r, seq>>
    BY <1>2, <1>8, <2>1
  <2>3. k \in D
    <3>1. k \in {<<r, s2 + 1>> : s2 \in up \cup {seq - 1}}
      BY <2>1, <2>2
    <3>. QED
      BY <1>9, <3>1
  <2>4. marks'[k] = marks[<<r, k[2] - 1>>]
    BY <1>10, <2>2, <2>3
  <2>. QED
    BY <2>1, <2>2, <2>4
<1>15. ASSUME NEW k \in DOMAIN marks, k[1] # r \/ k[2] < seq PROVE marks'[k] = marks[k]
  <2>1. k \in (DOMAIN races) \X Nat /\ k \in D
    BY <1>9 DEF MarksOK
  <2>2. k # <<r, seq>>
    BY <1>2, <1>15, <2>1
  <2>3. ~(k[1] = r /\ k[2] - 1 \in up)
    BY <1>2, <1>8, <1>15, <2>1
  <2>. QED
    BY <1>10, <2>1, <2>2, <2>3
<1>. QED
  BY <1>2, <1>4, <1>5, <1>6, <1>10, <1>12, <1>13, <1>14, <1>15

(***************************************************************************)
(* What one step does to the processes and to the work left.               *)
(***************************************************************************)
StillHeld(p, x) ==
  x.pc = "held" /\ At(p, "held") /\ x.seq = pr[p].seq /\ DOMAIN x.held \subseteq DOMAIN pr[p].held

NewlyHeld(x) ==
  /\ x.pc = "held" /\ UNCHANGED <<marks, boats>>
  /\ \E r \in DOMAIN races : /\ x.seq = Cardinality(Seqs(r))
                            /\ \A i \in DOMAIN x.held : i \in DOMAIN boats => boats[i].race = r

NewlyAdding(x) ==
  /\ x.pc = "adding" /\ left["add_mark"] > 0 /\ UNCHANGED <<marks, races>>
  /\ x.race \in DOMAIN races /\ x.count = Counted(x.race) /\ x.seq \in 0..x.count

Going(p, x) ==
  \/ x.pc \notin {"held", "adding", "deleting"}
  \/ StillHeld(p, x) \/ NewlyHeld(x) \/ NewlyAdding(x)
  \/ x.pc = "deleting" /\ left["delete"] > 0

LEMMA IdleGoing ==
  ASSUME NEW p
  PROVE  Going(p, Idle)
BY DEF Going, Idle

LEMMA ConsolesGo ==
  ASSUME NEW c \in Consoles,
         \/ Deletes(c) \/ Adds(c)
         \/ \E r \in DOMAIN races : Lists(c, r) \/ Counts(c, r)
  PROVE  \E x : pr' = [pr EXCEPT ![c] = x] /\ Going(c, x)
<1>1. CASE Deletes(c) \/ Adds(c)
  <2>1. pr' = [pr EXCEPT ![c] = Idle]
    BY <1>1 DEF Deletes, Adds, Goes
  <2>. QED
    BY <2>1, IdleGoing
<1>2. ASSUME NEW r \in DOMAIN races, Lists(c, r)
      PROVE  \E x : pr' = [pr EXCEPT ![c] = x] /\ Going(c, x)
  <2>1. PICK x : x = [Idle EXCEPT !.pc = "deleting", !.race = r, !.held = [i \in InRace(r) |-> boats[i]]]
    OBVIOUS
  <2>2. x.pc = "deleting"
    BY <2>1 DEF Idle
  <2>3. pr' = [pr EXCEPT ![c] = x] /\ left["delete"] > 0
    BY <1>2, <2>1 DEF Lists, Goes, Does
  <2>. QED
    BY <2>2, <2>3 DEF Going
<1>3. ASSUME NEW r \in DOMAIN races, Counts(c, r)
      PROVE  \E x : pr' = [pr EXCEPT ![c] = x] /\ Going(c, x)
  <2>1. PICK seq \in 0..Counted(r) : Goes(c, [Idle EXCEPT !.pc = "adding", !.race = r, !.seq = seq,
                                                     !.born = races[r].born, !.count = Counted(r)])
    BY <1>3 DEF Counts
  <2>2. PICK x : x = [Idle EXCEPT !.pc = "adding", !.race = r, !.seq = seq, !.born = races[r].born, !.count = Counted(r)]
    OBVIOUS
  <2>3. x.pc = "adding" /\ x.race = r /\ x.seq = seq /\ x.count = Counted(r)
    BY <2>2 DEF Idle
  <2>4. pr' = [pr EXCEPT ![c] = x] /\ left["add_mark"] > 0 /\ UNCHANGED <<marks, races>>
    BY <1>3, <2>1, <2>2 DEF Counts, Goes, Does
  <2>5. NewlyAdding(x)
    BY <2>1, <2>3, <2>4 DEF NewlyAdding
  <2>. QED
    BY <2>4, <2>5 DEF Going
<1>. QED
  BY <1>1, <1>2, <1>3

LEMMA WebsGo ==
  ASSUME NEW w \in Webs,
         \/ Enters(w) \/ Routes(w) \/ Attaches(w)
         \/ \E r \in DOMAIN races : Registers(w, r) \/ Uploads(w, r)
         \/ \E i \in DOMAIN boats : Reroutes(w, i)
  PROVE  \E x : pr' = [pr EXCEPT ![w] = x] /\ Going(w, x)
<1>1. CASE Enters(w) \/ Routes(w) \/ Attaches(w)
  <2>1. pr' = [pr EXCEPT ![w] = Idle]
    BY <1>1 DEF Enters, Routes, Attaches, Goes
  <2>. QED
    BY <2>1, IdleGoing
<1>2. ASSUME NEW r \in DOMAIN races, Registers(w, r)
      PROVE  \E x : pr' = [pr EXCEPT ![w] = x] /\ Going(w, x)
  <2>1. PICK x : x = [Idle EXCEPT !.pc = "entering", !.race = r, !.born = races[r].born]
    OBVIOUS
  <2>2. x.pc = "entering"
    BY <2>1 DEF Idle
  <2>3. pr' = [pr EXCEPT ![w] = x]
    BY <1>2, <2>1 DEF Registers, Goes
  <2>. QED
    BY <2>2, <2>3 DEF Going
<1>3. ASSUME NEW r \in DOMAIN races, Uploads(w, r)
      PROVE  \E x : pr' = [pr EXCEPT ![w] = x] /\ Going(w, x)
  <2>1. PICK x : x = [Idle EXCEPT !.pc = "attaching", !.race = r, !.born = races[r].born]
    OBVIOUS
  <2>2. x.pc = "attaching"
    BY <2>1 DEF Idle
  <2>3. pr' = [pr EXCEPT ![w] = x]
    BY <1>3, <2>1 DEF Uploads, Goes
  <2>. QED
    BY <2>2, <2>3 DEF Going
<1>4. ASSUME NEW i \in DOMAIN boats, Reroutes(w, i)
      PROVE  \E x : pr' = [pr EXCEPT ![w] = x] /\ Going(w, x)
  <2>1. PICK x : x = [Idle EXCEPT !.pc = "routing", !.held = [j \in {i} |-> boats[j]]]
    OBVIOUS
  <2>2. x.pc = "routing"
    BY <2>1 DEF Idle
  <2>3. pr' = [pr EXCEPT ![w] = x]
    BY <1>4, <2>1 DEF Reroutes, Goes
  <2>. QED
    BY <2>2, <2>3 DEF Going
<1>. QED
  BY <1>1, <1>2, <1>3, <1>4

LEMMA TickerGoes ==
  ASSUME Standing, Saves \/ \E r \in DOMAIN races : Holds(r)
  PROVE  \E x : pr' = [pr EXCEPT !["ticker"] = x] /\ Going("ticker", x)
<1>1. CASE Saves
  <2>1. PICK t : t = pr["ticker"] /\ Holder(t) /\ t.pc = "held"
    BY <1>1 DEF Standing, HoldersOK, Processes, Saves, At
  <2>2. PICK rest : rest = Without(t.held, {Min(DOMAIN t.held)})
    OBVIOUS
  <2>3. PICK x : x = IF rest = <<>> THEN Idle ELSE [t EXCEPT !.held = rest]
    OBVIOUS
  <2>4. pr' = [pr EXCEPT !["ticker"] = x]
    BY <1>1, <2>1, <2>2, <2>3 DEF Saves, Goes
  <2>5. CASE rest = <<>>
    BY <2>3, <2>4, <2>5, IdleGoing
  <2>6. CASE rest # <<>>
    <3>1. DOMAIN t = {"pc", "race", "born", "seq", "count", "held"}
      BY <2>1 DEF Holder, Idle
    <3>2. x.held = rest /\ x.pc = t.pc /\ x.seq = t.seq
      BY <2>3, <2>6, <3>1
    <3>3. DOMAIN rest \subseteq DOMAIN t.held
      BY <2>2 DEF Without
    <3>4. StillHeld("ticker", x)
      BY <2>1, <3>2, <3>3 DEF StillHeld, At
    <3>. QED
      BY <2>4, <3>4 DEF Going
  <2>. QED
    BY <2>5, <2>6
<1>2. ASSUME NEW r \in DOMAIN races, Holds(r)
      PROVE  \E x : pr' = [pr EXCEPT !["ticker"] = x] /\ Going("ticker", x)
  <2>1. PICK b : b = {i \in InRace(r) : boats[i].started}
    OBVIOUS
  <2>2. PICK x : x = [Idle EXCEPT !.pc = "held", !.race = r, !.seq = Cardinality(Seqs(r)), !.held = [i \in b |-> boats[i]]]
    OBVIOUS
  <2>3. x.pc = "held" /\ x.seq = Cardinality(Seqs(r)) /\ DOMAIN x.held = b
    BY <2>2 DEF Idle
  <2>4. pr' = [pr EXCEPT !["ticker"] = x] /\ UNCHANGED <<marks, boats>>
    BY <1>2, <2>1, <2>2 DEF Holds, Goes
  <2>5. \A i \in DOMAIN x.held : boats[i].race = r
    BY <2>1, <2>3 DEF InRace
  <2>6. NewlyHeld(x)
    BY <2>3, <2>4, <2>5 DEF NewlyHeld
  <2>. QED
    BY <2>4, <2>6 DEF Going
<1>. QED
  BY <1>1, <1>2

LEMMA SomebodyGoes ==
  ASSUME Standing, [Next]_vars
  PROVE  \/ pr' = pr
         \/ \E p \in Processes : \E x : pr' = [pr EXCEPT ![p] = x] /\ Going(p, x)
<1>1. "ticker" \in Processes /\ Webs \subseteq Processes /\ Consoles \subseteq Processes
  BY DEF Processes
<1>2. CASE UNCHANGED vars \/ Clock \/ OpenPractice \/ CommitteeCreates \/ PageCreates \/ DocsCreate
  BY <1>2 DEF vars, Clock, OpenPractice, CommitteeCreates, PageCreates, DocsCreate
<1>3. CASE Saves \/ \E r \in DOMAIN races : Holds(r)
  BY <1>1, <1>3, TickerGoes
<1>4. ASSUME NEW w \in Webs, NEW i \in DOMAIN boats, Starts(w, i) PROVE pr' = pr
  BY <1>4 DEF Starts
<1>5. ASSUME NEW w \in Webs,
             \/ Enters(w) \/ Routes(w) \/ Attaches(w)
             \/ \E r \in DOMAIN races : Registers(w, r) \/ Uploads(w, r)
             \/ \E i \in DOMAIN boats : Reroutes(w, i)
      PROVE  \E p \in Processes : \E x : pr' = [pr EXCEPT ![p] = x] /\ Going(p, x)
  BY <1>1, <1>5, WebsGo
<1>6. ASSUME NEW c \in Consoles, NEW i \in DOMAIN boats, Removes(c, i) PROVE pr' = pr
  BY <1>6 DEF Removes
<1>7. ASSUME NEW c \in Consoles,
             \/ Deletes(c) \/ Adds(c)
             \/ \E r \in DOMAIN races : Lists(c, r) \/ Counts(c, r)
      PROVE  \E p \in Processes : \E x : pr' = [pr EXCEPT ![p] = x] /\ Going(p, x)
  BY <1>1, <1>7, ConsolesGo
<1>. QED
  BY <1>2, <1>3, <1>4, <1>5, <1>6, <1>7, Zenon DEF Next

LEMMA WorkRunsOut ==
  ASSUME TablesOK, [Next]_vars
  PROVE  \A j \in Jobs : left'[j] <= left[j]
<1>1. left \in [Jobs -> Nat]
  BY DEF TablesOK
<1>2. left' = left \/ \E j : left' = [left EXCEPT ![j] = @ - 1]
  <2>1. left' = left \/ \E j : Does(j)
    BY DEF Next, vars, Clock, OpenPractice, CommitteeCreates, PageCreates, DocsCreate, Saves, Holds, Enters, Routes,
           Attaches, Registers, Uploads, Starts, Reroutes, Deletes, Adds, Lists, Counts, Removes
  <2>. QED
    BY <2>1 DEF Does
<1>. QED
  BY <1>1, <1>2

(***************************************************************************)
(* The inductive invariant.  Until somebody's boat or race is deleted      *)
(* while held, a boat's next mark, and the course the engine has read for  *)
(* it, are no further than its race's course.                              *)
(***************************************************************************)
NextsOK ==
  crossed = {} =>
    /\ \A i \in DOMAIN boats : boats[i].next <= Cardinality(Seqs(boats[i].race)) + 1
    /\ \A p \in Processes : At(p, "held") =>
         \A i \in DOMAIN pr[p].held : i \in DOMAIN boats => pr[p].seq <= Cardinality(Seqs(boats[i].race))

BookInv == Standing /\ MarksOK /\ Excluded /\ AddersOK /\ NextsOK

LEMMA AddsLengthens ==
  ASSUME TablesOK, MarksOK, AddersOK, NEW c \in Processes, Adds(c)
  PROVE  MarksOK' /\ Lengthened
<1>1. races' = races
  BY DEF Adds
<1>2. CASE UNCHANGED <<marks, boats, fresh>>
  <2>1. MarksOK'
    BY <1>1, <1>2 DEF MarksOK, Seqs
  <2>2. \A r : Seqs(r) \subseteq Seqs(r)'
    BY <1>2 DEF Seqs
  <2>. QED
    BY <2>1, <2>2, Lengthens
<1>3. ASSUME NEW r \in DOMAIN races, NEW n \in Nat, NEW seq \in 0..n,
             /\ Seqs(r) = 0..(n - 1) /\ DOMAIN marks' = DOMAIN marks \cup {<<r, n>>}
             /\ <<r, n>> \notin DOMAIN marks
             /\ marks'[<<r, seq>>] = fresh /\ fresh' = fresh + 1
             /\ \A s \in seq..(n - 1) : marks'[<<r, s + 1>>] = marks[<<r, s>>]
             /\ \A k \in DOMAIN marks : k[1] # r \/ k[2] < seq => marks'[k] = marks[k]
      PROVE  MarksOK' /\ Lengthened
  <2>1. fresh \in Nat
    BY DEF TablesOK
  <2>2. \A k \in DOMAIN marks : k \in (DOMAIN races) \X Nat /\ marks[k] \in 0..(fresh - 1)
    BY DEF MarksOK
  <2>3. ASSUME NEW k \in DOMAIN marks' PROVE k \in (DOMAIN races) \X Nat /\ marks'[k] \in 0..fresh
    <3>1. k \in (DOMAIN races) \X Nat
      BY <1>3, <2>2
    <3>2. CASE k[1] # r \/ k[2] < seq
      <4>1. k \in DOMAIN marks
        BY <1>3, <3>2
      <4>. QED
        BY <1>3, <2>1, <2>2, <3>1, <3>2, <4>1
    <3>3. CASE k = <<r, seq>>
      BY <1>3, <2>1, <3>1, <3>3
    <3>4. CASE k[1] = r /\ k[2] > seq
      <4>1. PICK s : s = k[2] - 1
        OBVIOUS
      <4>2. k = <<r, s + 1>> /\ s \in Nat /\ seq <= s
        BY <3>1, <3>4, <4>1
      <4>3. s <= n - 1
        <5>1. CASE k \in DOMAIN marks
          <6>1. k[2] \in Seqs(r)
            BY <3>4, <5>1 DEF Seqs
          <6>2. k[2] \in 0..(n - 1)
            BY <1>3, <6>1
          <6>. QED
            BY <4>1, <4>2, <6>2
        <5>2. CASE k = <<r, n>>
          BY <4>1, <4>2, <5>2
        <5>. QED
          BY <1>3, <5>1, <5>2
      <4>4. s \in seq..(n - 1) /\ s \in Seqs(r)
        BY <1>3, <4>2, <4>3
      <4>5. <<r, s>> \in DOMAIN marks
        BY <4>4, SeqIn
      <4>6. marks[<<r, s>>] \in 0..(fresh - 1) /\ marks'[k] = marks[<<r, s>>]
        BY <1>3, <2>2, <4>2, <4>4, <4>5
      <4>. QED
        BY <2>1, <3>1, <4>6
    <3>. QED
      <4>1. k[1] = r /\ k[2] = seq => k = <<r, seq>>
        BY <3>1
      <4>2. k[1] # r \/ k[2] < seq \/ k[2] = seq \/ k[2] > seq
        BY <3>1
      <4>. QED
        BY <3>2, <3>3, <3>4, <4>1, <4>2
  <2>4. ASSUME NEW q, q # r PROVE Seqs(q)' = Seqs(q)
    <3>1. {k \in DOMAIN marks' : k[1] = q} = {k \in DOMAIN marks : k[1] = q}
      BY <1>3, <2>4
    <3>. QED
      BY <3>1 DEF Seqs
  <2>5. Seqs(r)' = Seqs(r) \cup {n}
    <3>0. PICK j : j = <<r, n>>
      OBVIOUS
    <3>1. j[1] = r /\ j[2] = n
      BY <3>0
    <3>2. {k \in DOMAIN marks' : k[1] = r} = {k \in DOMAIN marks : k[1] = r} \cup {j}
      BY <1>3, <3>0, <3>1
    <3>3. PICK S : S = {k \in DOMAIN marks : k[1] = r}
      OBVIOUS
    <3>4. Seqs(r) = {k[2] : k \in S} /\ Seqs(r)' = {k[2] : k \in S \cup {j}}
      BY <3>2, <3>3 DEF Seqs
    <3>. QED
      BY <3>1, <3>4
  <2>6. Seqs(r)' = 0..((n + 1) - 1) /\ n + 1 \in Nat
    BY <1>3, <2>5
  <2>7. MarksOK'
    <3>1. \A q \in DOMAIN races : \E m \in Nat : Seqs(q)' = 0..(m - 1)
      <4> SUFFICES ASSUME NEW q \in DOMAIN races PROVE \E m \in Nat : Seqs(q)' = 0..(m - 1)
        OBVIOUS
      <4>1. CASE q = r
        BY <2>6, <4>1
      <4>2. CASE q # r
        BY <2>4, <4>2 DEF MarksOK
      <4>. QED
        BY <4>1, <4>2
    <3>2. fresh = fresh' - 1
      BY <1>3, <2>1
    <3>. QED
      BY <1>1, <2>3, <3>1, <3>2 DEF MarksOK, Seqs
  <2>8. \A q : Seqs(q) \subseteq Seqs(q)'
    <3> SUFFICES ASSUME NEW q PROVE Seqs(q) \subseteq Seqs(q)'
      OBVIOUS
    <3>1. CASE q = r
      BY <2>5, <3>1
    <3>2. CASE q # r
      BY <2>4, <3>2
    <3>. QED
      BY <3>1, <3>2
  <2>. QED
    BY <2>7, <2>8, Lengthens
<1>. QED
  BY <1>2, <1>3, AddsMarks

LEMMA DeletesMarks ==
  ASSUME TablesOK, MarksOK, NEW c \in Processes, Deletes(c)
  PROVE  MarksOK' /\ \A q : q # pr[c].race => Seqs(q)' = Seqs(q)
<1>1. PICK r : r = pr[c].race
  OBVIOUS
<1>2. marks' = Without(marks, {r} \X Seqs(r)) /\ races' = Without(races, {r}) /\ fresh' = fresh
  BY <1>1 DEF Deletes
<1>3. ASSUME NEW k \in DOMAIN marks PROVE k \in (DOMAIN races) \X Nat /\ (k \in {r} \X Seqs(r) <=> k[1] = r)
  <2>1. k \in (DOMAIN races) \X Nat
    BY DEF MarksOK
  <2>2. k[1] = r => k[2] \in Seqs(r)
    BY DEF Seqs
  <2>. QED
    BY <2>1, <2>2
<1>4. DOMAIN marks' = {k \in DOMAIN marks : k[1] # r} /\ \A k \in DOMAIN marks' : marks'[k] = marks[k]
  BY <1>2, <1>3 DEF Without
<1>5. DOMAIN races' = DOMAIN races \ {r}
  BY <1>2 DEF Without
<1>6. ASSUME NEW q, q # r PROVE Seqs(q)' = Seqs(q)
  <2>1. {k \in DOMAIN marks' : k[1] = q} = {k \in DOMAIN marks : k[1] = q}
    BY <1>4, <1>6
  <2>. QED
    BY <2>1 DEF Seqs
<1>7. \A k \in DOMAIN marks' : k \in (DOMAIN races') \X Nat /\ marks'[k] \in 0..(fresh' - 1)
  BY <1>2, <1>3, <1>4, <1>5 DEF MarksOK
<1>8. \A q \in DOMAIN races' : \E n \in Nat : Seqs(q)' = 0..(n - 1)
  BY <1>5, <1>6 DEF MarksOK
<1>. QED
  BY <1>1, <1>6, <1>7, <1>8 DEF MarksOK, Seqs

LEMMA MarksStep ==
  ASSUME Standing, MarksOK, AddersOK, [Next]_vars
  PROVE  MarksOK' /\ ((\A c \in Consoles : ~Deletes(c)) => Lengthened)
<1>0. TablesOK /\ Consoles \subseteq Processes
  BY DEF Standing, Processes
<1>1. ASSUME UNCHANGED <<marks, races>>, fresh' \in Nat, fresh <= fresh' PROVE MarksOK' /\ Lengthened
  <2>1. fresh \in Nat
    BY <1>0 DEF TablesOK
  <2>2. \A k \in DOMAIN marks : marks[k] \in 0..(fresh - 1) => marks[k] \in 0..(fresh' - 1)
    BY <1>1, <2>1
  <2>3. MarksOK'
    BY <1>1, <2>2 DEF MarksOK, Seqs
  <2>4. \A r : Seqs(r) \subseteq Seqs(r)'
    BY <1>1 DEF Seqs
  <2>. QED
    BY <2>3, <2>4, Lengthens
<1>2. CASE OpenPractice \/ CommitteeCreates \/ PageCreates \/ DocsCreate
  <2>1. PICK name, t, rolling : Inserts(name, t, rolling)
    BY <1>2 DEF OpenPractice, CommitteeCreates, PageCreates, DocsCreate
  <2>. QED
    BY <1>0, <2>1, InsertsMarks
<1>3. ASSUME NEW c \in Consoles, Adds(c) PROVE MarksOK' /\ Lengthened
  BY <1>0, <1>3, AddsLengthens
<1>4. ASSUME NEW c \in Consoles, Deletes(c) PROVE MarksOK'
  BY <1>0, <1>4, DeletesMarks
<1>5. CASE UNCHANGED <<marks, races, fresh>>
  BY <1>0, <1>1, <1>5 DEF TablesOK
<1>6. ASSUME NEW w \in Webs, Enters(w) PROVE MarksOK' /\ Lengthened
  BY <1>0, <1>1, <1>6 DEF Enters, TablesOK
<1>. QED
  BY <1>2, <1>3, <1>4, <1>5, <1>6
     DEF Next, vars, Clock, Saves, Holds, Routes, Attaches, Registers, Uploads, Starts, Reroutes, Lists, Counts, Removes

LEMMA ExcludedStep ==
  ASSUME Standing, Standing', Excluded, [Next]_vars
  PROVE  Excluded'
<1>1. "delete" \in Jobs /\ "add_mark" \in Jobs /\ left \in [Jobs -> Nat] /\ left' \in [Jobs -> Nat]
  BY DEF Jobs, Standing, TablesOK
<1>2. left'["delete"] <= left["delete"] /\ left'["add_mark"] <= left["add_mark"]
  BY <1>1, WorkRunsOut DEF Standing
<1>3. ASSUME NEW p \in Processes, pr'[p].pc = "deleting" PROVE pr[p].pc = "deleting" \/ left["delete"] > 0
  <2>1. CASE pr' = pr
    BY <1>3, <2>1
  <2>2. ASSUME NEW q \in Processes, NEW x, pr' = [pr EXCEPT ![q] = x], Going(q, x)
        PROVE  pr[p].pc = "deleting" \/ left["delete"] > 0
    BY <1>3, <2>2 DEF Going, StillHeld, NewlyHeld, NewlyAdding, Standing, HoldersOK
  <2>. QED
    BY <2>1, <2>2, SomebodyGoes
<1>4. ASSUME NEW p \in Processes, pr'[p].pc = "adding" PROVE pr[p].pc = "adding" \/ left["add_mark"] > 0
  <2>1. CASE pr' = pr
    BY <1>4, <2>1
  <2>2. ASSUME NEW q \in Processes, NEW x, pr' = [pr EXCEPT ![q] = x], Going(q, x)
        PROVE  pr[p].pc = "adding" \/ left["add_mark"] > 0
    BY <1>4, <2>2 DEF Going, StillHeld, NewlyHeld, NewlyAdding, Standing, HoldersOK
  <2>. QED
    BY <2>1, <2>2, SomebodyGoes
<1>5. CASE left["delete"] = 0 /\ \A p \in Processes : ~At(p, "deleting")
  <2>1. left'["delete"] = 0
    BY <1>1, <1>2, <1>5
  <2>2. \A p \in Processes : pr'[p].pc # "deleting"
    BY <1>3, <1>5 DEF At
  <2>. QED
    BY <2>1, <2>2 DEF Excluded, At, Processes
<1>6. CASE left["add_mark"] = 0 /\ \A p \in Processes : ~At(p, "adding")
  <2>1. left'["add_mark"] = 0
    BY <1>1, <1>2, <1>6
  <2>2. \A p \in Processes : pr'[p].pc # "adding"
    BY <1>4, <1>6 DEF At
  <2>. QED
    BY <2>1, <2>2 DEF Excluded, At, Processes
<1>. QED
  BY <1>5, <1>6 DEF Excluded

LEMMA AddersStep ==
  ASSUME Standing, MarksOK, Excluded, AddersOK, [Next]_vars,
         (\A c \in Consoles : ~Deletes(c) /\ \A i \in DOMAIN boats : ~Removes(c, i)) => Calm,
         (\A c \in Consoles : ~Deletes(c)) => Lengthened
  PROVE  AddersOK'
<1>1. ASSUME NEW c \in Consoles, Deletes(c) PROVE AddersOK'
  <2>1. \A p \in Processes : pr[p].pc # "adding"
    BY <1>1 DEF Excluded, Deletes, At, Processes
  <2>2. pr' = [pr EXCEPT ![c] = Idle]
    BY <1>1 DEF Deletes, Goes
  <2>3. \A p \in Processes : pr'[p].pc # "adding"
    <3>1. Idle.pc = "idle" /\ DOMAIN pr = Processes
      BY DEF Idle, Standing, HoldersOK
    <3>. QED
      BY <2>1, <2>2, <3>1
  <2>. QED
    BY <2>3 DEF AddersOK, At, Processes
<1>2. CASE \A c \in Consoles : ~Deletes(c)
  <2>1. Lengthened
    BY <1>2
  <2>2. DOMAIN races \subseteq DOMAIN races'
    <3>1. CASE \A c \in Consoles : ~Deletes(c) /\ \A i \in DOMAIN boats : ~Removes(c, i)
      BY <3>1 DEF Calm
    <3>2. ASSUME NEW c \in Consoles, NEW i \in DOMAIN boats, Removes(c, i) PROVE DOMAIN races \subseteq DOMAIN races'
      BY <3>2 DEF Removes
    <3>. QED
      BY <1>2, <3>1, <3>2
  <2>3. ASSUME NEW x, NEW S, S = Seqs(x.race)',
               /\ x.race \in DOMAIN races /\ x.count \in Nat /\ x.seq \in 0..x.count
               /\ 0..(x.count - 1) \subseteq Seqs(x.race)
        PROVE  /\ x.race \in DOMAIN races' /\ x.count \in Nat /\ x.seq \in 0..x.count
               /\ 0..(x.count - 1) \subseteq S
    BY <2>1, <2>2, <2>3 DEF Lengthened
  <2>4. ASSUME NEW p \in Processes, pr'[p].pc = "adding", NEW x, x = pr'[p]
        PROVE  /\ x.race \in DOMAIN races /\ x.count \in Nat /\ x.seq \in 0..x.count
               /\ 0..(x.count - 1) \subseteq Seqs(x.race)
    <3>1. CASE pr'[p] = pr[p]
      BY <2>4, <3>1 DEF AddersOK, At
    <3>2. CASE NewlyAdding(x)
      <4>1. x.race \in DOMAIN races /\ x.count = Cardinality(Seqs(x.race)) /\ x.seq \in 0..x.count
        BY <3>2 DEF NewlyAdding, Counted
      <4>2. PICK r : r = x.race
        OBVIOUS
      <4>3. Cardinality(Seqs(r)) \in Nat /\ Seqs(r) = 0..(Cardinality(Seqs(r)) - 1)
        BY <4>1, <4>2, CourseLength
      <4>. QED
        BY <4>1, <4>2, <4>3
    <3>3. pr'[p] = pr[p] \/ NewlyAdding(x)
      <4>1. CASE pr' = pr
        BY <4>1
      <4>2. ASSUME NEW q \in Processes, NEW y, pr' = [pr EXCEPT ![q] = y], Going(q, y)
            PROVE  pr'[p] = pr[p] \/ NewlyAdding(x)
        <5>1. CASE p # q
          BY <4>2, <5>1 DEF Standing, HoldersOK
        <5>2. CASE p = q
          <6>1. y = x /\ y.pc = "adding"
            BY <2>4, <4>2, <5>2 DEF Standing, HoldersOK
          <6>2. NewlyAdding(y)
            BY <4>2, <6>1 DEF Going, StillHeld, NewlyHeld
          <6>. QED
            BY <6>1, <6>2
        <5>. QED
          BY <5>1, <5>2
      <4>. QED
        BY <4>1, <4>2, SomebodyGoes
    <3>. QED
      BY <3>1, <3>2, <3>3
  <2>5. ASSUME NEW p \in Processes, pr'[p].pc = "adding"
        PROVE  /\ pr'[p].race \in DOMAIN races' /\ pr'[p].count \in Nat /\ pr'[p].seq \in 0..pr'[p].count
               /\ 0..(pr'[p].count - 1) \subseteq Seqs(pr[p].race)'
    <3>1. PICK x, r : x = pr'[p] /\ r = x.race
      OBVIOUS
    <3>2. /\ r \in DOMAIN races /\ x.count \in Nat /\ x.seq \in 0..x.count
          /\ 0..(x.count - 1) \subseteq Seqs(r)
      BY <2>4, <2>5, <3>1
    <3>3. Seqs(r) \subseteq Seqs(r)'
      BY <2>1 DEF Lengthened
    <3>4. Seqs(pr[p].race)' = Seqs(r)'
      BY <3>1 DEF Seqs
    <3>. QED
      BY <2>2, <3>1, <3>2, <3>3, <3>4
  <2>. QED
    BY <2>5 DEF AddersOK, At, Processes
<1>. QED
  BY <1>1, <1>2

(***************************************************************************)
(* NextsOK, for the boats a step leaves in the race they were in.          *)
(***************************************************************************)
StillRacing ==
  \A i \in DOMAIN boats \cap DOMAIN boats' :
    boats'[i].race = boats[i].race /\ \A r : r = boats[i].race => NoShorter(r)

LEMMA HeldCourses ==
  ASSUME Standing, MarksOK, NextsOK, crossed = {}, StillRacing, [Next]_vars,
         NEW p \in Processes, pr'[p].pc = "held", NEW i \in DOMAIN pr'[p].held, i \in DOMAIN boats',
         NEW r, r = boats'[i].race, HoldersOK'
  PROVE  pr'[p].seq <= Cardinality(Seqs(r)')
<1>1. PICK x : x = pr'[p]
  OBVIOUS
<1>2. x.pc = "held" /\ i \in DOMAIN x.held /\ x.seq \in Nat
  BY <1>1 DEF HoldersOK, Holder
<1>3. \/ x = pr[p] \/ StillHeld(p, x) \/ NewlyHeld(x)
  <2>1. CASE pr' = pr
    BY <1>1, <2>1
  <2>2. ASSUME NEW q \in Processes, NEW y, pr' = [pr EXCEPT ![q] = y], Going(q, y)
        PROVE  \/ x = pr[p] \/ StillHeld(p, x) \/ NewlyHeld(x)
    <3>1. CASE p # q
      BY <1>1, <2>2, <3>1 DEF Standing, HoldersOK
    <3>2. CASE p = q
      <4>1. y = x
        BY <1>1, <2>2, <3>2 DEF Standing, HoldersOK
      <4>. QED
        BY <1>2, <2>2, <3>2, <4>1 DEF Going, NewlyAdding
    <3>. QED
      BY <3>1, <3>2
  <2>. QED
    BY <2>1, <2>2, SomebodyGoes
<1>4. CASE x = pr[p] \/ StillHeld(p, x)
  <2>1. PICK y : y = pr[p] /\ Holder(y) /\ At(p, "held") /\ y.seq = x.seq /\ i \in DOMAIN y.held
    BY <1>2, <1>4 DEF StillHeld, At, Standing, HoldersOK
  <2>2. i \in DOMAIN boats
    BY <2>1 DEF Holder, BoatStands
  <2>3. PICK q : q = boats[i].race
    OBVIOUS
  <2>4. y.seq <= Cardinality(Seqs(q))
    BY <2>1, <2>2, <2>3 DEF NextsOK
  <2>5. q = r /\ NoShorter(q)
    BY <2>2, <2>3 DEF StillRacing
  <2>. QED
    BY <1>1, <1>2, <2>1, <2>4, <2>5 DEF NoShorter
<1>5. CASE NewlyHeld(x)
  <2>1. UNCHANGED <<marks, boats>> /\ x.seq = Cardinality(Seqs(r))
    BY <1>2, <1>5 DEF NewlyHeld
  <2>2. Seqs(r)' = Seqs(r)
    BY <2>1 DEF Seqs
  <2>. QED
    BY <1>1, <1>2, <2>1, <2>2
<1>. QED
  BY <1>3, <1>4, <1>5

LEMMA NextsFrom ==
  ASSUME Standing, MarksOK, NextsOK, [Next]_vars, StillRacing, HoldersOK', crossed \subseteq crossed',
         crossed' = {} => \A i \in DOMAIN boats' : \A r : r = boats'[i].race => boats'[i].next <= Cardinality(Seqs(r)') + 1
  PROVE  NextsOK'
<1> SUFFICES ASSUME crossed' = {} PROVE NextsOK'
  BY DEF NextsOK
<1>1. crossed = {}
  OBVIOUS
<1>2. ASSUME NEW i \in DOMAIN boats' PROVE boats'[i].next <= Cardinality(Seqs(boats[i].race)') + 1
  <2>1. PICK r : r = boats'[i].race
    OBVIOUS
  <2>2. Seqs(boats[i].race)' = Seqs(r)'
    BY <2>1 DEF Seqs
  <2>. QED
    BY <2>1, <2>2
<1>3. ASSUME NEW p \in Processes, pr'[p].pc = "held", NEW i \in DOMAIN pr'[p].held, i \in DOMAIN boats'
      PROVE  pr'[p].seq <= Cardinality(Seqs(boats[i].race)')
  <2>1. PICK r : r = boats'[i].race
    OBVIOUS
  <2>2. Seqs(boats[i].race)' = Seqs(r)'
    BY <2>1 DEF Seqs
  <2>. QED
    BY <1>1, <1>3, <2>1, <2>2, HeldCourses
<1>. QED
  BY <1>2, <1>3 DEF NextsOK, At, Processes

LEMMA SameNexts ==
  ASSUME Standing, NextsOK, StillRacing, crossed \subseteq crossed',
         \A i \in DOMAIN boats' : i \in DOMAIN boats /\ boats'[i].next \in {boats[i].next, 1}
  PROVE  crossed' = {} => \A i \in DOMAIN boats' : \A r : r = boats'[i].race => boats'[i].next <= Cardinality(Seqs(r)') + 1
<1> SUFFICES ASSUME crossed' = {}, NEW i \in DOMAIN boats', NEW r, r = boats'[i].race
             PROVE  boats'[i].next <= Cardinality(Seqs(r)') + 1
  OBVIOUS
<1>1. i \in DOMAIN boats /\ boats[i].race = r /\ NoShorter(r) /\ crossed = {}
  BY DEF StillRacing
<1>2. boats[i].next \in Nat /\ boats[i].next <= Cardinality(Seqs(r)) + 1
  BY <1>1 DEF NextsOK, Standing, TablesOK, BoatsOK, BoatRows
<1>3. boats'[i].next \in {boats[i].next, 1}
  OBVIOUS
<1>. QED
  BY <1>1, <1>2, <1>3 DEF NoShorter

LEMMA SaveNexts ==
  ASSUME Standing, MarksOK, NextsOK, StillRacing, Saves
  PROVE  crossed' = {} => \A i \in DOMAIN boats' : \A r : r = boats'[i].race => boats'[i].next <= Cardinality(Seqs(r)') + 1
<1> SUFFICES ASSUME crossed' = {}, NEW i \in DOMAIN boats', NEW r, r = boats'[i].race
             PROVE  boats'[i].next <= Cardinality(Seqs(r)') + 1
  OBVIOUS
<1>1. PICK t : t = pr["ticker"] /\ Holder(t) /\ t.pc = "held" /\ At("ticker", "held") /\ "ticker" \in Processes
  BY DEF Standing, HoldersOK, Processes, Saves, At
<1>2. PICK j : j = Min(DOMAIN t.held)
  OBVIOUS
<1>3. j \in DOMAIN t.held /\ t.held[j] \in BoatRows
  <2>1. DOMAIN t.held \in SUBSET Nat /\ DOMAIN t.held # {}
    BY <1>1 DEF Holder
  <2>. QED
    BY <1>1, <1>2, <2>1, LeastIsMin DEF Holder
<1>4. PICK next \in t.held[j].next..t.seq : boats' = Sailed(j, next)
  BY <1>1, <1>2 DEF Saves
<1>5. crossed = {} /\ UNCHANGED marks
  BY DEF Saves
<1>6. i \in DOMAIN boats /\ (boats'[i].next = boats[i].next \/ (i = j /\ boats'[i].next = next))
  <2>1. CASE j \notin DOMAIN boats
    BY <1>4, <2>1 DEF Sailed
  <2>2. CASE j \in DOMAIN boats
    <3>1. PICK row, old : old = boats[j] /\ row = [old EXCEPT !.started = TRUE, !.next = next]
      OBVIOUS
    <3>2. old \in BoatRows
      BY <2>2, <3>1 DEF Standing, TablesOK, BoatsOK
    <3>3. row.next = next
      BY <3>1, <3>2 DEF BoatRows
    <3>4. DOMAIN boats' = DOMAIN boats /\ \A k \in DOMAIN boats : boats'[k] = IF k = j THEN row ELSE boats[k]
      BY <1>4, <2>2, <3>1 DEF Sailed
    <3>. QED
      BY <3>3, <3>4
  <2>. QED
    BY <2>1, <2>2
<1>7. r = boats[i].race /\ NoShorter(r)
  BY <1>6 DEF StillRacing
<1>8. boats[i].next \in Nat /\ boats[i].next <= Cardinality(Seqs(r)) + 1
  BY <1>5, <1>6, <1>7 DEF NextsOK, Standing, TablesOK, BoatsOK, BoatRows
<1>9. CASE boats'[i].next = boats[i].next
  BY <1>7, <1>8, <1>9 DEF NoShorter
<1>10. CASE i = j /\ boats'[i].next = next
  <2>1. t.seq <= Cardinality(Seqs(r))
    BY <1>1, <1>3, <1>5, <1>6, <1>7, <1>10 DEF NextsOK
  <2>2. t.seq \in Nat /\ t.held[j].next \in Nat /\ next \in Nat /\ next <= t.seq
    BY <1>1, <1>3, <1>4 DEF Holder, BoatRows
  <2>. QED
    BY <1>7, <1>10, <2>1, <2>2 DEF NoShorter
<1>. QED
  BY <1>6, <1>9, <1>10

LEMMA AddNexts ==
  ASSUME Standing, MarksOK, AddersOK, NextsOK, NEW c \in Processes, Adds(c)
  PROVE  crossed' = {} => \A i \in DOMAIN boats' : \A r : r = boats'[i].race => boats'[i].next <= Cardinality(Seqs(r)') + 1
<1> SUFFICES ASSUME crossed' = {}, NEW i \in DOMAIN boats', NEW q, q = boats'[i].race
             PROVE  boats'[i].next <= Cardinality(Seqs(q)') + 1
  OBVIOUS
<1>1. crossed = {} /\ TablesOK
  BY DEF Adds, Standing
<1>2. Lengthened
  BY <1>1, AddsLengthens
<1>3. CASE boats' = boats
  <2>1. boats[i].next \in Nat /\ boats[i].next <= Cardinality(Seqs(q)) + 1
    BY <1>1, <1>3 DEF NextsOK, TablesOK, BoatsOK, BoatRows
  <2>. QED
    BY <1>2, <1>3, <2>1 DEF Lengthened, NoShorter
<1>4. ASSUME NEW r \in DOMAIN races, NEW n \in Nat, NEW seq \in 0..n,
             Seqs(r) = 0..(n - 1), DOMAIN marks' = DOMAIN marks \cup {<<r, n>>}, boats' = Shifted(r, seq)
      PROVE  boats'[i].next <= Cardinality(Seqs(q)') + 1
  <2>1. i \in DOMAIN boats /\ DOMAIN boats' = DOMAIN boats
    BY <1>4 DEF Shifted
  <2>2. PICK old : old = boats[i] /\ old \in BoatRows
    BY <2>1, <1>1 DEF TablesOK, BoatsOK
  <2>3. \/ boats'[i] = old
        \/ old.race = r /\ boats'[i] = [old EXCEPT !.next = @ + 1]
    BY <1>4, <2>1, <2>2 DEF Shifted
  <2>4. old.race = q /\ (boats'[i].next = old.next \/ (q = r /\ boats'[i].next = old.next + 1))
    BY <2>2, <2>3 DEF BoatRows
  <2>5. old.next \in Nat /\ old.next <= Cardinality(Seqs(q)) + 1
    BY <1>1, <2>1, <2>2, <2>4 DEF NextsOK, BoatRows
  <2>6. CASE boats'[i].next = old.next
    BY <1>2, <2>5, <2>6 DEF Lengthened, NoShorter
  <2>7. CASE q = r /\ boats'[i].next = old.next + 1
    <3>1. Cardinality(Seqs(r)) = n
      BY <1>4, Numbered
    <3>2. n \in Seqs(r)'
      <4>1. PICK k : k = <<r, n>>
        OBVIOUS
      <4>2. k \in DOMAIN marks' /\ k[1] = r /\ k[2] = n
        BY <1>4, <4>1
      <4>. QED
        BY <4>2 DEF Seqs
    <3>3. n + 1 <= Cardinality(Seqs(r)')
      <4>1. PICK S : S = Seqs(r)'
        OBVIOUS
      <4>2. MarksOK' /\ r \in DOMAIN races'
        BY <1>1, AddsLengthens DEF Adds
      <4>3. PICK m \in Nat : S = 0..(m - 1)
        BY <4>1, <4>2 DEF MarksOK
      <4>4. Cardinality(S) = m
        BY <4>3, Numbered
      <4>5. n + 1 <= m
        BY <3>2, <4>1, <4>3
      <4>. QED
        BY <4>1, <4>4, <4>5
    <3>. QED
      BY <1>2, <2>5, <2>7, <3>1, <3>3 DEF Lengthened, NoShorter
  <2>. QED
    BY <2>4, <2>6, <2>7
<1>. QED
  BY <1>1, <1>3, <1>4, AddsMarks

LEMMA NextsStep ==
  ASSUME BookInv, [Next]_vars, Standing',
         (\A c \in Consoles : ~Deletes(c) /\ \A i \in DOMAIN boats : ~Removes(c, i)) => Calm,
         (\A c \in Consoles : ~Deletes(c)) => Lengthened
  PROVE  NextsOK'
<1>1. Standing /\ MarksOK /\ AddersOK /\ NextsOK /\ HoldersOK' /\ Consoles \subseteq Processes /\ Webs \subseteq Processes
  BY DEF BookInv, Standing, Processes
<1>2. ASSUME NEW c \in Consoles, Deletes(c) PROVE NextsOK'
  <2>1. TablesOK /\ \A q : q # pr[c].race => Seqs(q)' = Seqs(q)
    BY <1>1, <1>2, DeletesMarks DEF Standing
  <2>2. crossed \subseteq crossed' /\ boats' = Without(boats, Gone(c))
    BY <1>2 DEF Deletes
  <2>3. \A i \in DOMAIN boats' : i \in DOMAIN boats /\ boats'[i] = boats[i] /\ boats[i].race # pr[c].race
    BY <2>2 DEF Without, Gone, InRace
  <2>4. ASSUME NEW q, q # pr[c].race PROVE NoShorter(q)
    <3>1. Seqs(q)' = Seqs(q) /\ Cardinality(Seqs(q)) \in Nat
      BY <1>1, <2>1, <2>4, Course
    <3>. QED
      BY <3>1 DEF NoShorter
  <2>5. StillRacing
    BY <2>3, <2>4 DEF StillRacing
  <2>. QED
    BY <1>1, <2>2, <2>3, <2>5, SameNexts, NextsFrom
<1>3. ASSUME NEW c \in Consoles, NEW i \in DOMAIN boats, Removes(c, i), \A d \in Consoles : ~Deletes(d) PROVE NextsOK'
  <2>1. crossed \subseteq crossed' /\ boats' = Without(boats, {i}) /\ Lengthened
    BY <1>3 DEF Removes
  <2>2. \A j \in DOMAIN boats' : j \in DOMAIN boats /\ boats'[j] = boats[j]
    BY <2>1 DEF Without
  <2>3. StillRacing
    BY <2>1, <2>2 DEF StillRacing, Lengthened
  <2>. QED
    BY <1>1, <2>1, <2>2, <2>3, SameNexts, NextsFrom
<1>4. ASSUME Calm, Lengthened PROVE NextsOK'
  <2>1. StillRacing /\ crossed \subseteq crossed'
    BY <1>4 DEF StillRacing, Calm, Lengthened
  <2>2. ASSUME NEW w \in Webs, Enters(w) PROVE NextsOK'
    <3>1. PICK id, row : row = BoatRow(fresh, pr[w].race, pr[w].born) /\ boats' = With(boats, id, row)
      BY <2>2 DEF Enters
    <3>2. row.next = 1 /\ \A i \in DOMAIN boats' : (i \in DOMAIN boats /\ boats'[i] = boats[i]) \/ boats'[i] = row
      BY <3>1 DEF With, BoatRow
    <3>3. ASSUME crossed' = {}, NEW i \in DOMAIN boats', NEW r, r = boats'[i].race
          PROVE  boats'[i].next <= Cardinality(Seqs(r)') + 1
      <4>1. NoShorter(r)
        BY <1>4 DEF Lengthened
      <4>2. CASE boats'[i] = row
        BY <3>2, <4>1, <4>2 DEF NoShorter
      <4>3. CASE i \in DOMAIN boats /\ boats'[i] = boats[i]
        <5>1. boats[i].next \in Nat /\ boats[i].next <= Cardinality(Seqs(r)) + 1
          BY <1>1, <2>1, <3>3, <4>3 DEF NextsOK, Standing, TablesOK, BoatsOK, BoatRows
        <5>. QED
          BY <4>1, <4>3, <5>1 DEF NoShorter
      <4>. QED
        BY <3>2, <4>2, <4>3
    <3>. QED
      BY <1>1, <2>1, <3>3, NextsFrom
  <2>3. CASE Saves
    BY <1>1, <2>1, <2>3, SaveNexts, NextsFrom
  <2>4. ASSUME NEW c \in Consoles, Adds(c) PROVE NextsOK'
    BY <1>1, <2>1, <2>4, AddNexts, NextsFrom
  <2>5. CASE boats' = boats
    BY <1>1, <2>1, <2>5, SameNexts, NextsFrom
  <2>6. ASSUME NEW w \in Webs, NEW i \in DOMAIN boats, Starts(w, i) PROVE NextsOK'
    <3>1. boats' = [boats EXCEPT ![i].started = TRUE, ![i].next = 1]
      BY <2>6 DEF Starts
    <3>2. PICK row, old : old = boats[i] /\ row = [old EXCEPT !.started = TRUE, !.next = 1]
      OBVIOUS
    <3>3. old \in BoatRows
      BY <1>1, <3>2 DEF Standing, TablesOK, BoatsOK
    <3>4. row.next = 1
      BY <3>2, <3>3 DEF BoatRows
    <3>5. \A j \in DOMAIN boats' : j \in DOMAIN boats /\ (boats'[j] = boats[j] \/ boats'[j] = row)
      BY <3>1, <3>2
    <3>6. \A j \in DOMAIN boats' : j \in DOMAIN boats /\ boats'[j].next \in {boats[j].next, 1}
      BY <3>4, <3>5
    <3>. QED
      BY <1>1, <2>1, <3>6, SameNexts, NextsFrom
  <2>7. ASSUME NEW c \in Consoles, Deletes(c) PROVE NextsOK'
    BY <1>2, <2>7
  <2>8. ASSUME NEW c \in Consoles, NEW i \in DOMAIN boats, Removes(c, i) PROVE NextsOK'
    BY <1>2, <1>3, <2>8
  <2>. QED
    BY <2>2, <2>3, <2>4, <2>5, <2>6, <2>7, <2>8
       DEF Next, vars, Clock, OpenPractice, CommitteeCreates, PageCreates, DocsCreate, Holds, Routes, Attaches,
           Registers, Uploads, Reroutes, Lists, Counts
<1>. QED
  BY <1>2, <1>3, <1>4

LEMMA BookStep ==
  ASSUME BookInv, [Next]_vars
  PROVE  /\ BookInv'
         /\ (\A c \in Consoles : ~Deletes(c) /\ \A i \in DOMAIN boats : ~Removes(c, i)) => Calm
<1>1. Standing /\ MarksOK /\ Excluded /\ AddersOK
  BY DEF BookInv
<1>2. /\ Standing'
      /\ (\A c \in Consoles : ~Deletes(c) /\ \A i \in DOMAIN boats : ~Removes(c, i)) => Calm
  BY <1>1, StandingStep
<1>3. MarksOK' /\ ((\A c \in Consoles : ~Deletes(c)) => Lengthened)
  BY <1>1, MarksStep
<1>4. Excluded'
  BY <1>1, <1>2, ExcludedStep
<1>5. AddersOK'
  BY <1>1, <1>2, <1>3, AddersStep
<1>6. NextsOK'
  BY <1>2, <1>3, NextsStep
<1>. QED
  BY <1>2, <1>3, <1>4, <1>5, <1>6 DEF BookInv

LEMMA InitBook ==
  ASSUME Init
  PROVE  BookInv
<1>1. PICK s \in Setups :
        /\ now = 0 /\ rows = {} /\ crossed = {}
        /\ races = IF s.course = 0 THEN <<>>
                   ELSE [r \in {1} |-> [born |-> 0, name |-> <<>>, gun |-> 1, rolling |-> FALSE]]
        /\ marks = [k \in {1} \X (0..(s.course - 1)) |-> k[2]]
        /\ boats = [i \in 1..s.boats |-> BoatRow(i, 1, 0)]
        /\ fresh = s.course + s.boats + 1
        /\ pr = [p \in Processes |-> Idle]
        /\ left = s.jobs
  BY DEF Init
<1>2. PICK m, b : m = s.course /\ b = s.boats
  OBVIOUS
<1>3. /\ m \in Nat /\ b \in Nat /\ s.jobs \in [Jobs -> Nat] /\ (m = 0 => b = 0)
      /\ s.jobs["add_mark"] = 0 \/ s.jobs["delete"] = 0
  BY <1>2, Constants DEF SetupOK
<1>4. fresh = m + b + 1 /\ fresh \in Nat
  BY <1>1, <1>2, <1>3
<1>5. /\ IsTable(races) /\ DOMAIN races = IF m = 0 THEN {} ELSE {1}
      /\ \A r \in DOMAIN races : r = 1 /\ races[r].born = 0 /\ races[r].gun = 1 /\ races[r].rolling = FALSE
  <2>1. CASE m = 0
    <3>1. races = <<>>
      BY <1>1, <1>2, <2>1
    <3>. QED
      BY <2>1, <3>1 DEF IsTable
  <2>2. CASE m # 0
    <3>1. races = [r \in {1} |-> [born |-> 0, name |-> <<>>, gun |-> 1, rolling |-> FALSE]]
      BY <1>1, <1>2, <2>2
    <3>. QED
      BY <2>2, <3>1 DEF IsTable
  <2>. QED
    BY <2>1, <2>2
<1>6. RacesOK
  <2>1. \A r \in DOMAIN races : races[r].born \in 0..(fresh - 1) /\ races[r].gun \in Nat /\ r \in 1..fresh
    BY <1>3, <1>4, <1>5
  <2>2. \A r \in DOMAIN races : races[r].rolling \in BOOLEAN
    BY <1>5, Zenon
  <2>. QED
    BY <1>5, <2>1, <2>2 DEF RacesOK
<1>7. \A i \in 1..b : boats[i] \in BoatRows /\ boats[i].born = i /\ boats[i].race = 1 /\ boats[i].entered = 0 /\ boats[i].next = 1
  <2> SUFFICES ASSUME NEW i \in 1..b
               PROVE  boats[i] \in BoatRows /\ boats[i].born = i /\ boats[i].race = 1 /\ boats[i].entered = 0 /\ boats[i].next = 1
    OBVIOUS
  <2>1. PICK row : row = boats[i]
    OBVIOUS
  <2>2. row = [born |-> i, race |-> 1, entered |-> 0, started |-> FALSE, next |-> 1]
    BY <1>1, <1>2, <2>1 DEF BoatRow
  <2>3. row \in BoatRows
    BY <1>3, <2>2 DEF BoatRows
  <2>. QED
    BY <2>1, <2>2, <2>3
<1>8. DOMAIN boats = 1..b /\ IsTable(boats)
  BY <1>1, <1>2 DEF IsTable
<1>9. BoatsOK
  BY <1>3, <1>4, <1>7, <1>8 DEF BoatsOK
<1>10. TablesOK
  BY <1>1, <1>3, <1>4, <1>6, <1>9 DEF TablesOK
<1>11. DOMAIN pr = Processes /\ \A p \in Processes : pr[p] = Idle
  BY <1>1
<1>12. HoldersOK
  BY <1>11, IdleHolder DEF HoldersOK
<1>13. RowsStand
  <2>1. \A i \in DOMAIN boats : boats[i].race \in DOMAIN races /\ races[boats[i].race].born = boats[i].entered
    BY <1>3, <1>5, <1>7, <1>8
  <2>. QED
    BY <1>1, <2>1 DEF RowsStand, RaceStands
<1>14. DOMAIN marks = {1} \X (0..(m - 1)) /\ \A k \in DOMAIN marks : marks[k] = k[2]
  BY <1>1, <1>2
<1>15. MarksOK
  <2>1. ASSUME NEW k \in DOMAIN marks PROVE k \in (DOMAIN races) \X Nat /\ marks[k] \in 0..(fresh - 1)
    <3>1. k[1] = 1 /\ k[2] \in 0..(m - 1) /\ k = <<k[1], k[2]>>
      BY <1>14
    <3>2. 1 \in DOMAIN races
      BY <1>3, <1>5, <3>1
    <3>. QED
      BY <1>3, <1>4, <1>14, <3>1, <3>2
  <2>2. Seqs(1) = 0..(m - 1)
    <3>1. ASSUME NEW q \in 0..(m - 1) PROVE \E k \in DOMAIN marks : k[1] = 1 /\ k[2] = q
      <4>1. PICK k : k = <<1, q>>
        OBVIOUS
      <4>2. k \in DOMAIN marks /\ k[1] = 1 /\ k[2] = q
        BY <1>14, <4>1
      <4>. QED
        BY <4>2
    <3>2. \A k \in DOMAIN marks : k[2] \in 0..(m - 1)
      BY <1>14
    <3>. QED
      BY <3>1, <3>2 DEF Seqs
  <2>3. \A r \in DOMAIN races : \E n \in Nat : Seqs(r) = 0..(n - 1)
    BY <1>3, <1>5, <2>2
  <2>. QED
    BY <2>1, <2>3 DEF MarksOK
<1>16. Idle.pc = "idle"
  BY DEF Idle
<1>17. Excluded /\ AddersOK
  BY <1>1, <1>3, <1>11, <1>16 DEF Excluded, AddersOK, At
<1>18. NextsOK
  <2>1. ASSUME NEW i \in DOMAIN boats PROVE boats[i].next <= Cardinality(Seqs(boats[i].race)) + 1
    <3>1. PICK r : r = boats[i].race
      OBVIOUS
    <3>2. Cardinality(Seqs(r)) \in Nat
      BY <1>15, Course
    <3>. QED
      BY <1>7, <1>8, <3>1, <3>2
  <2>. QED
    BY <1>11, <1>16, <2>1 DEF NextsOK, At
<1>. QED
  BY <1>10, <1>12, <1>13, <1>15, <1>17, <1>18 DEF BookInv, Standing

LEMMA BookTypes ==
  ASSUME BookInv
  PROVE  TypeOK
<1>1. TablesOK /\ MarksOK /\ NextsOK /\ HoldersOK
  BY DEF BookInv, Standing
<1>2. ASSUME NEW r \in DOMAIN races
      PROVE  /\ races[r].born < fresh /\ races[r].gun \in Nat /\ races[r].rolling \in BOOLEAN
             /\ Seqs(r) = 0..(Cardinality(Seqs(r)) - 1)
  <2>1. races[r].born < fresh
    BY <1>1 DEF TablesOK, RacesOK
  <2>2. races[r].gun \in Nat /\ races[r].rolling \in BOOLEAN
    BY <1>1, Zenon DEF TablesOK, RacesOK
  <2>. QED
    BY <1>1, <2>1, <2>2, CourseLength
<1>3. ASSUME NEW i \in DOMAIN boats
      PROVE  /\ boats[i].born < fresh /\ boats[i].started \in BOOLEAN
             /\ crossed = {} => boats[i].next \in 1..(Cardinality(Seqs(boats[i].race)) + 1)
  <2>1. boats[i] \in BoatRows /\ boats[i].born < fresh
    BY <1>1 DEF TablesOK, BoatsOK
  <2>2. boats[i].next \in Nat \ {0}
    BY <2>1 DEF BoatRows
  <2>3. boats[i].started \in BOOLEAN
    BY <2>1, Zenon DEF BoatRows
  <2>4. PICK r : r = boats[i].race
    OBVIOUS
  <2>5. Cardinality(Seqs(r)) \in Nat
    BY <1>1, Course
  <2>6. ASSUME crossed = {} PROVE boats[i].next \in 1..(Cardinality(Seqs(r)) + 1)
    <3>1. boats[i].next <= Cardinality(Seqs(r)) + 1
      BY <1>1, <2>4, <2>6 DEF NextsOK
    <3>. QED
      BY <2>2, <2>5, <3>1
  <2>. QED
    BY <2>1, <2>3, <2>4, <2>6, Zenon
<1>4. \A p \in Processes : pr[p].pc \in {"idle", "held", "entering", "routing", "attaching", "deleting", "adding"}
  BY <1>1 DEF HoldersOK, Holder, Pcs
<1>. QED
  BY <1>1, <1>2, <1>3, <1>4, Zenon DEF TypeOK, TablesOK, HoldersOK

LEMMA BookOwns ==
  ASSUME BookInv
  PROVE  OwnRows
<1>1. ASSUME NEW x \in rows
      PROVE  LET table == IF x.table = "race_docs" THEN races ELSE boats
             IN x.id \in DOMAIN table /\ table[x.id].born # x.born => x.born \in crossed
  BY DEF BookInv, Standing, RowsStand, RaceStands, BoatStands
<1>2. \A i \in DOMAIN boats :
        LET r == boats[i].race
        IN r \in DOMAIN races /\ races[r].born # boats[i].entered => boats[i].entered \in crossed
  BY DEF BookInv, Standing, RowsStand, RaceStands
<1>. QED
  BY <1>1, <1>2, BookTypes DEF OwnRows

(***************************************************************************)
(* An id given out again carries nothing over: rows are their owner's, and *)
(* a boat stands in the race that was entered.                             *)
(***************************************************************************)
THEOREM IdsCarryNothingOver == Spec => []OwnRows
<1>1. BookInv /\ [Next]_vars => BookInv'
  BY BookStep
<1>. QED
  BY <1>1, InitBook, BookOwns, PTL DEF Spec

-----------------------------------------------------------------------------
(***************************************************************************)
(* MarksKept, kind of step by kind of step.                                *)
(***************************************************************************)
StandsThrough(k) == k[1] \in DOMAIN races \cap DOMAIN races' /\ races[k[1]].born = races'[k[1]].born

InOrder ==
  \A k1, k2 \in DOMAIN marks :
    /\ k1[1] = k2[1] /\ k1[2] < k2[2]
    /\ k1[1] \in DOMAIN races \cap DOMAIN races' /\ races[k1[1]].born = races'[k1[1]].born
    => \E j1, j2 \in DOMAIN marks' :
         /\ j1[1] = k1[1] /\ j2[1] = k1[1] /\ j1[2] < j2[2]
         /\ marks'[j1] = marks[k1] /\ marks'[j2] = marks[k2]

OwedStay ==
  marks' # marks =>
    \A i \in DOMAIN boats \cap DOMAIN boats' :
      boats[i].born = boats'[i].born /\ boats[i].race \in DOMAIN races'
      => Owed(i)' \cap {marks[k] : k \in DOMAIN marks} = Owed(i)

LEMMA OwedIs ==
  ASSUME NEW i, NEW v
  PROVE  /\ v \in Owed(i) <=> \E k \in DOMAIN marks : v = marks[k] /\ k[1] = boats[i].race /\ k[2] >= boats[i].next
         /\ v \in Owed(i)' <=> \E k \in DOMAIN marks' : v = marks'[k] /\ k[1] = boats'[i].race /\ k[2] >= boats'[i].next
BY DEF Owed

LEMMA SameMarksKept ==
  ASSUME \A k \in DOMAIN marks : StandsThrough(k) => k \in DOMAIN marks' /\ marks'[k] = marks[k]
  PROVE  InOrder
BY DEF InOrder, StandsThrough

LEMMA InsertsKeep ==
  ASSUME TablesOK, MarksOK, NEW name, NEW gun, NEW rolling, Inserts(name, gun, rolling), boats' = boats
  PROVE  InOrder /\ OwedStay
<1>1. \A k \in DOMAIN marks : k \in DOMAIN marks' /\ marks'[k] = marks[k]
  BY InsertsMarks
<1>2. \A k \in DOMAIN marks' : k \in DOMAIN marks \/ marks'[k] \in {fresh + 1, fresh + 2}
  <2>1. PICK two : two = {NextId(races)} \X (0..1)
    OBVIOUS
  <2>2. marks' = [k \in DOMAIN marks \cup two |-> IF k \in two THEN fresh + 1 + k[2] ELSE marks[k]]
    BY <2>1 DEF Inserts
  <2>3. \A k \in two : k[2] \in 0..1
    BY <2>1
  <2>. QED
    BY <2>2, <2>3 DEF TablesOK
<1>3. \A k \in DOMAIN marks : marks[k] \notin {fresh + 1, fresh + 2}
  BY DEF MarksOK, TablesOK
<1>4. ASSUME NEW i \in DOMAIN boats, NEW v
      PROVE  v \in Owed(i)' /\ (\E k \in DOMAIN marks : v = marks[k]) <=> v \in Owed(i)
  <2>1. ASSUME v \in Owed(i) PROVE v \in Owed(i)' /\ \E k \in DOMAIN marks : v = marks[k]
    BY <1>1, <2>1, OwedIs
  <2>2. ASSUME v \in Owed(i)', NEW j \in DOMAIN marks, v = marks[j] PROVE v \in Owed(i)
    <3>1. PICK k \in DOMAIN marks' : v = marks'[k] /\ k[1] = boats[i].race /\ k[2] >= boats[i].next
      BY <2>2, OwedIs
    <3>2. k \in DOMAIN marks
      BY <1>2, <1>3, <2>2, <3>1
    <3>. QED
      BY <1>1, <3>1, <3>2, OwedIs
  <2>. QED
    BY <2>1, <2>2
<1>5. OwedStay
  BY <1>4 DEF OwedStay
<1>. QED
  BY <1>1, <1>5, SameMarksKept

LEMMA DeletesKeep ==
  ASSUME TablesOK, MarksOK, NEW c \in Processes, Deletes(c)
  PROVE  InOrder /\ OwedStay
<1>1. PICK r : r = pr[c].race
  OBVIOUS
<1>2. marks' = Without(marks, {r} \X Seqs(r)) /\ races' = Without(races, {r}) /\ boats' = Without(boats, Gone(c))
  BY <1>1 DEF Deletes
<1>3. /\ \A k \in DOMAIN marks : k[1] # r => k \in DOMAIN marks' /\ marks'[k] = marks[k]
      /\ \A k \in DOMAIN marks' : k \in DOMAIN marks /\ marks'[k] = marks[k]
  BY <1>2 DEF Without
<1>4. r \notin DOMAIN races'
  BY <1>2 DEF Without
<1>5. InOrder
  BY <1>3, <1>4, SameMarksKept DEF StandsThrough
<1>6. ASSUME NEW i \in DOMAIN boats \cap DOMAIN boats' PROVE boats'[i] = boats[i] /\ boats[i].race # r
  BY <1>1, <1>2 DEF Without, Gone, InRace
<1>7. ASSUME NEW i \in DOMAIN boats \cap DOMAIN boats', NEW v
      PROVE  v \in Owed(i)' /\ (\E k \in DOMAIN marks : v = marks[k]) <=> v \in Owed(i)
  BY <1>3, <1>6, OwedIs
<1>8. OwedStay
  BY <1>7 DEF OwedStay
<1>. QED
  BY <1>5, <1>8

LEMMA AddsKeep ==
  ASSUME TablesOK, MarksOK, AddersOK, NEW c \in Processes, Adds(c)
  PROVE  InOrder /\ OwedStay
<1>1. CASE marks' = marks
  BY <1>1, SameMarksKept DEF OwedStay
<1>2. ASSUME NEW r \in DOMAIN races, NEW n \in Nat, NEW seq \in 0..n,
             /\ Seqs(r) = 0..(n - 1) /\ DOMAIN marks' = DOMAIN marks \cup {<<r, n>>}
             /\ <<r, n>> \notin DOMAIN marks
             /\ marks'[<<r, seq>>] = fresh /\ fresh' = fresh + 1
             /\ \A s \in seq..(n - 1) : marks'[<<r, s + 1>>] = marks[<<r, s>>]
             /\ \A k \in DOMAIN marks : k[1] # r \/ k[2] < seq => marks'[k] = marks[k]
             /\ boats' = Shifted(r, seq)
      PROVE  InOrder /\ OwedStay
  <2>1. fresh \in Nat
    BY DEF TablesOK
  <2>2. \A k \in DOMAIN marks : k[1] \in DOMAIN races /\ k[2] \in Nat /\ k = <<k[1], k[2]>> /\ marks[k] \in 0..(fresh - 1)
    BY DEF MarksOK
  <2>3. ASSUME NEW s \in 0..n PROVE <<r, s>> \in DOMAIN marks'
    <3>1. CASE s = n
      BY <1>2, <3>1
    <3>2. CASE s # n
      <4>1. s \in Seqs(r)
        BY <1>2, <3>2
      <4>2. <<r, s>> \in DOMAIN marks
        BY <4>1, SeqIn
      <4>. QED
        BY <1>2, <4>2
    <3>. QED
      BY <3>1, <3>2
  <2>4. ASSUME NEW k \in DOMAIN marks
        PROVE  \E j \in DOMAIN marks' : /\ marks'[j] = marks[k] /\ j[1] = k[1]
                                       /\ j[2] = IF k[1] = r /\ k[2] >= seq THEN k[2] + 1 ELSE k[2]
    <3>1. CASE k[1] # r \/ k[2] < seq
      <4>1. k \in DOMAIN marks' /\ marks'[k] = marks[k] /\ ~(k[1] = r /\ k[2] >= seq)
        BY <1>2, <2>2, <3>1
      <4>. QED
        BY <4>1
    <3>2. CASE k[1] = r /\ k[2] >= seq
      <4>1. k[2] \in Seqs(r)
        BY <3>2 DEF Seqs
      <4>2. PICK s : s = k[2] /\ s \in seq..(n - 1) /\ s + 1 \in 0..n /\ k = <<r, s>>
        BY <1>2, <2>2, <3>2, <4>1
      <4>3. PICK j : j = <<r, s + 1>>
        OBVIOUS
      <4>4. j \in DOMAIN marks' /\ marks'[j] = marks[k] /\ j[1] = r /\ j[2] = s + 1
        BY <1>2, <2>3, <4>2, <4>3
      <4>. QED
        BY <3>2, <4>2, <4>4
    <3>. QED
      BY <2>2, <3>1, <3>2
  <2>5. ASSUME NEW j \in DOMAIN marks'
        PROVE  \/ marks'[j] = fresh
               \/ \E k \in DOMAIN marks : /\ marks'[j] = marks[k] /\ j[1] = k[1]
                                         /\ j[2] = IF k[1] = r /\ k[2] >= seq THEN k[2] + 1 ELSE k[2]
    <3>1. PICK q, s : j = <<q, s>> /\ j[1] = q /\ j[2] = s /\ s \in Nat
      <4>1. CASE j \in DOMAIN marks
        BY <2>2, <4>1
      <4>2. CASE j = <<r, n>>
        BY <4>2
      <4>. QED
        BY <1>2, <4>1, <4>2
    <3>2. CASE q # r \/ s < seq
      <4>1. j \in DOMAIN marks
        BY <1>2, <3>1, <3>2
      <4>2. marks'[j] = marks[j] /\ ~(q = r /\ s >= seq)
        BY <1>2, <3>1, <3>2, <4>1
      <4>. QED
        BY <3>1, <4>1, <4>2
    <3>3. CASE q = r /\ s = seq
      BY <1>2, <3>1, <3>3
    <3>4. CASE q = r /\ s > seq
      <4>1. PICK t : t = s - 1
        OBVIOUS
      <4>2. t \in Nat /\ seq <= t /\ s = t + 1
        BY <3>1, <3>4, <4>1
      <4>3. s <= n
        <5>1. CASE j \in DOMAIN marks
          <6>1. s \in Seqs(r)
            BY <3>1, <3>4, <5>1 DEF Seqs
          <6>. QED
            BY <1>2, <6>1
        <5>2. CASE j = <<r, n>>
          BY <3>1, <5>2
        <5>. QED
          BY <1>2, <5>1, <5>2
      <4>4. t \in seq..(n - 1) /\ t \in Seqs(r)
        BY <1>2, <4>2, <4>3
      <4>5. PICK k : k = <<r, t>>
        OBVIOUS
      <4>6. k \in DOMAIN marks /\ k[1] = r /\ k[2] = t
        BY <4>4, <4>5, SeqIn
      <4>7. marks'[j] = marks[k]
        BY <1>2, <3>1, <3>4, <4>2, <4>4, <4>5
      <4>. QED
        BY <3>1, <3>4, <4>2, <4>6, <4>7
    <3>. QED
      BY <3>1, <3>2, <3>3, <3>4
  <2>6. InOrder
    <3>1. ASSUME NEW k1 \in DOMAIN marks, NEW k2 \in DOMAIN marks, k1[1] = k2[1], k1[2] < k2[2]
          PROVE  \E j1, j2 \in DOMAIN marks' :
                   /\ j1[1] = k1[1] /\ j2[1] = k1[1] /\ j1[2] < j2[2]
                   /\ marks'[j1] = marks[k1] /\ marks'[j2] = marks[k2]
      <4>1. PICK j1 \in DOMAIN marks' : /\ marks'[j1] = marks[k1] /\ j1[1] = k1[1]
                                        /\ j1[2] = IF k1[1] = r /\ k1[2] >= seq THEN k1[2] + 1 ELSE k1[2]
        BY <2>4
      <4>2. PICK j2 \in DOMAIN marks' : /\ marks'[j2] = marks[k2] /\ j2[1] = k2[1]
                                        /\ j2[2] = IF k2[1] = r /\ k2[2] >= seq THEN k2[2] + 1 ELSE k2[2]
        BY <2>4
      <4>3. j1[2] < j2[2]
        BY <2>2, <3>1, <4>1, <4>2
      <4>. QED
        BY <3>1, <4>1, <4>2, <4>3
    <3>. QED
      BY <3>1 DEF InOrder
  <2>7. ASSUME NEW i \in DOMAIN boats
        PROVE  /\ boats'[i].race = boats[i].race /\ boats[i].next \in Nat
               /\ boats'[i].next = IF boats[i].race = r /\ boats[i].next > seq THEN boats[i].next + 1 ELSE boats[i].next
    <3>1. PICK old : old = boats[i] /\ old \in BoatRows
      BY DEF TablesOK, BoatsOK
    <3>2. boats'[i] = IF old.race = r /\ old.next > seq THEN [old EXCEPT !.next = @ + 1] ELSE old
      BY <1>2, <3>1 DEF Shifted
    <3>. QED
      BY <3>1, <3>2 DEF BoatRows
  <2>8. ASSUME NEW i \in DOMAIN boats, NEW v
        PROVE  v \in Owed(i)' /\ (\E k \in DOMAIN marks : v = marks[k]) <=> v \in Owed(i)
    <3>1. ASSUME v \in Owed(i) PROVE v \in Owed(i)' /\ \E k \in DOMAIN marks : v = marks[k]
      <4>1. PICK k \in DOMAIN marks : v = marks[k] /\ k[1] = boats[i].race /\ k[2] >= boats[i].next
        BY <3>1, OwedIs
      <4>2. PICK j \in DOMAIN marks' : /\ marks'[j] = marks[k] /\ j[1] = k[1]
                                       /\ j[2] = IF k[1] = r /\ k[2] >= seq THEN k[2] + 1 ELSE k[2]
        BY <2>4
      <4>3. j[1] = boats'[i].race /\ j[2] >= boats'[i].next
        BY <2>2, <2>7, <4>1, <4>2
      <4>. QED
        BY <4>1, <4>2, <4>3, OwedIs
    <3>2. ASSUME v \in Owed(i)', NEW m \in DOMAIN marks, v = marks[m] PROVE v \in Owed(i)
      <4>1. PICK j \in DOMAIN marks' : v = marks'[j] /\ j[1] = boats'[i].race /\ j[2] >= boats'[i].next
        BY <3>2, OwedIs
      <4>2. marks'[j] # fresh
        <5>1. marks[m] \in 0..(fresh - 1)
          BY <2>2
        <5>2. marks'[j] = marks[m]
          BY <3>2, <4>1
        <5>. QED
          BY <2>1, <5>1, <5>2
      <4>3. PICK k \in DOMAIN marks : /\ marks'[j] = marks[k] /\ j[1] = k[1]
                                      /\ j[2] = IF k[1] = r /\ k[2] >= seq THEN k[2] + 1 ELSE k[2]
        BY <2>5, <4>2
      <4>4. k[1] = boats[i].race /\ k[2] >= boats[i].next
        <5>1. PICK p, s : p = boats[i].next /\ s = k[2] /\ p \in Nat /\ s \in Nat
          BY <2>2, <2>7
        <5>2. k[1] = boats[i].race
          BY <2>7, <4>1, <4>3
        <5>3. CASE k[1] = r
          <6>1. (IF s >= seq THEN s + 1 ELSE s) >= (IF p > seq THEN p + 1 ELSE p)
            BY <2>7, <4>1, <4>3, <5>1, <5>2, <5>3
          <6>. QED
            BY <5>1, <5>2, <6>1
        <5>4. CASE k[1] # r
          BY <2>7, <4>1, <4>3, <5>1, <5>2, <5>4
        <5>. QED
          BY <5>3, <5>4
      <4>. QED
        BY <4>1, <4>3, <4>4, OwedIs
    <3>. QED
      BY <3>1, <3>2
  <2>9. OwedStay
    BY <2>8 DEF OwedStay
  <2>. QED
    BY <2>6, <2>9
<1>. QED
  BY <1>1, <1>2, AddsMarks

LEMMA StepKeeps ==
  ASSUME BookInv, [Next]_vars
  PROVE  InOrder /\ OwedStay
<1>1. TablesOK /\ MarksOK /\ AddersOK /\ Consoles \subseteq Processes
  BY DEF BookInv, Standing, Processes
<1>2. CASE marks' = marks
  BY <1>2, SameMarksKept DEF OwedStay
<1>3. CASE OpenPractice \/ CommitteeCreates \/ PageCreates \/ DocsCreate
  <2>1. PICK name, t, rolling : Inserts(name, t, rolling)
    BY <1>3 DEF OpenPractice, CommitteeCreates, PageCreates, DocsCreate
  <2>2. boats' = boats
    BY <1>3 DEF OpenPractice, CommitteeCreates, PageCreates, DocsCreate
  <2>. QED
    BY <1>1, <2>1, <2>2, InsertsKeep
<1>4. ASSUME NEW c \in Consoles, Adds(c) PROVE InOrder /\ OwedStay
  BY <1>1, <1>4, AddsKeep
<1>5. ASSUME NEW c \in Consoles, Deletes(c) PROVE InOrder /\ OwedStay
  BY <1>1, <1>5, DeletesKeep
<1>. QED
  BY <1>2, <1>3, <1>4, <1>5
     DEF Next, vars, Clock, Saves, Holds, Enters, Routes, Attaches, Registers, Uploads, Starts, Reroutes, Lists, Counts,
         Removes

(***************************************************************************)
(* No mark of a standing race is lost or overtaken by another, and a boat  *)
(* owes what it owed, however many add marks at a time.                    *)
(***************************************************************************)
THEOREM MarksAreKept == Spec => MarksKept
<1>1. BookInv /\ [Next]_vars => BookInv'
  BY BookStep
<1>2. BookInv /\ [Next]_vars => [InOrder /\ OwedStay]_vars
  BY StepKeeps
<1>3. Spec => [][InOrder /\ OwedStay]_vars
  BY <1>1, <1>2, InitBook, PTL DEF Spec
<1>. QED
  BY <1>3, PTL DEF MarksKept, InOrder, OwedStay
=============================================================================
