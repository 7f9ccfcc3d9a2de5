---------------------------- MODULE ResultsProofs ----------------------------
(***************************************************************************)
(* Proofs about the committee's results and the roster, for any roster,    *)
(* tables and teams, and any number of imports, sheets and links at a      *)
(* time: what match_roster pairs, what is left of an import, and that the  *)
(* tracker's teams have one boat each.                                     *)
(***************************************************************************)
EXTENDS Results, FiniteSetTheorems, SequenceTheorems, WellFoundedInduction, TLAPS

LEMMA Constants ==
  /\ Blank \notin Sails /\ None \notin Sails /\ None # Blank
  /\ \A n \in Int : n # None
  /\ \A a, b \in Int : <<a, b>> # None
  /\ Tables \subseteq Seq([name : Names, sail : Sails \cup {None}])
  /\ Rosters \subseteq Seq([name : Names, sail : SailNos, yb : {None}, shows : {None}])
  /\ \A r \in Rosters : \A i, j \in DOMAIN r : r[i].name = r[j].name => i = j
  /\ Days \subseteq [Jobs -> Nat]
  /\ None \notin YbIds /\ TeamLists \subseteq Seq(Team) \ {<<>>}
<1>1. ASSUME NEW a \in Int, NEW b \in Int PROVE <<a, b>> # None
  <2>1. <<a, b>> \in Int \X Int
    OBVIOUS
  <2>. QED
    BY <2>1, ResultsAssumption
<1>2. None \notin Int /\ None # Blank /\ None \notin Sails /\ Blank \notin Sails
  BY ResultsAssumption
<1>. QED
  BY <1>1, <1>2, ResultsAssumption, Zenon

IsTable(t) == t = [x \in DOMAIN t |-> t[x]]

(***************************************************************************)
(* A set of numbers has a least one.                                       *)
(***************************************************************************)
Before == {p \in Nat \X Nat : p[1] < p[2]}

LEMMA BeforeWellFounded == IsWellFoundedOn(Before, Nat)
BY NatLessThanWellFounded DEF OpToRel, Before

LEMMA LeastOf ==
  ASSUME NEW S \in SUBSET Nat, S # {}
  PROVE  \E x \in S : \A y \in S : x <= y
<1>1. PICK x \in S : \A y \in S : ~(<<y, x>> \in Before)
  BY BeforeWellFounded, WFMin, Zenon
<1>2. ASSUME NEW y \in S PROVE x <= y
  <2>1. <<y, x>> \notin Before
    BY <1>1
  <2>. QED
    BY <2>1 DEF Before
<1>. QED
  BY <1>2

-----------------------------------------------------------------------------
(***************************************************************************)
(* match_roster's loop: what it has paired after each row.                 *)
(***************************************************************************)
Loop(boats, rows, m) ==
  m = [k \in 0..Len(rows) |-> IF k = 0 THEN <<>> ELSE Paired(boats, rows, m[k - 1], k)]

LoopTo(boats, rows, m, n) ==
  m = [k \in 0..n |-> IF k = 0 THEN <<>> ELSE Paired(boats, rows, m[k - 1], k)]

LEMMA LoopRuns ==
  ASSUME NEW boats, NEW rows, NEW n \in Nat
  PROVE  \E m : LoopTo(boats, rows, m, n)
<1> DEFINE stuck == {k \in Nat : ~\E m : LoopTo(boats, rows, m, k)}
<1> SUFFICES ASSUME stuck # {} PROVE FALSE
  OBVIOUS
<1>1. PICK k \in stuck : \A j \in stuck : k <= j
  <2>1. stuck \in SUBSET Nat
    OBVIOUS
  <2> HIDE DEF stuck
  <2>. QED
    BY <2>1, LeastOf
<1>2. k \in Nat /\ ~\E m : LoopTo(boats, rows, m, k)
  BY <1>1
<1>3. CASE k = 0
  <2>1. PICK m : m = [j \in 0..0 |-> <<>>]
    OBVIOUS
  <2>2. LoopTo(boats, rows, m, 0)
    BY <2>1 DEF LoopTo
  <2>. QED
    BY <1>2, <1>3, <2>2
<1>4. CASE k # 0
  <2>1. k - 1 \in Nat /\ k - 1 \notin stuck
    <3>1. k - 1 \in Nat /\ ~(k <= k - 1)
      BY <1>2, <1>4
    <3> HIDE DEF stuck
    <3>. QED
      BY <1>1, <3>1
  <2>2. PICK m : LoopTo(boats, rows, m, k - 1)
    BY <2>1
  <2>3. PICK f : f = [j \in 0..k |-> IF j = k THEN Paired(boats, rows, m[k - 1], k) ELSE m[j]]
    OBVIOUS
  <2>4. ASSUME NEW j \in 0..k
        PROVE  f[j] = IF j = 0 THEN <<>> ELSE Paired(boats, rows, f[j - 1], j)
    <3>1. CASE j = k
      <4>1. f[j - 1] = m[k - 1] /\ f[j] = Paired(boats, rows, m[k - 1], k)
        BY <1>2, <1>4, <2>3, <3>1
      <4>. QED
        BY <1>4, <3>1, <4>1
    <3>2. CASE j # k
      <4>1. j \in 0..(k - 1)
        BY <1>2, <3>2
      <4>2. m[j] = IF j = 0 THEN <<>> ELSE Paired(boats, rows, m[j - 1], j)
        BY <2>2, <4>1 DEF LoopTo
      <4>3. f[j] = m[j] /\ (j # 0 => f[j - 1] = m[j - 1])
        BY <1>2, <2>3, <3>2, <4>1
      <4>. QED
        BY <4>2, <4>3
    <3>. QED
      BY <3>1, <3>2
  <2>5. LoopTo(boats, rows, f, k)
    <3>1. f = [j \in 0..k |-> f[j]]
      BY <2>3
    <3>. QED
      BY <2>4, <3>1 DEF LoopTo
  <2>. QED
    BY <1>2, <2>5
<1>. QED
  BY <1>3, <1>4

LEMMA MatchIsLoop ==
  ASSUME NEW boats, NEW rows, Len(rows) \in Nat
  PROVE  \E m : Loop(boats, rows, m) /\ MatchRoster(boats, rows) = m[Len(rows)]
<1> DEFINE m[k \in 0..Len(rows)] == IF k = 0 THEN <<>> ELSE Paired(boats, rows, m[k - 1], k)
<1>1. Loop(boats, rows, m)
  <2> DEFINE P(g) == g = [k \in 0..Len(rows) |-> IF k = 0 THEN <<>> ELSE Paired(boats, rows, g[k - 1], k)]
  <2>1. \E g : P(g)
    <3>1. PICK n \in Nat : n = Len(rows)
      OBVIOUS
    <3>2. PICK g : LoopTo(boats, rows, g, n)
      BY LoopRuns
    <3>3. P(g)
      BY <3>1, <3>2 DEF LoopTo
    <3> HIDE DEF P
    <3>. QED
      BY <3>3
  <2>2. P(CHOOSE g : P(g))
    <3> HIDE DEF P
    <3>. QED
      BY <2>1, Zenon
  <2>3. m = CHOOSE g : P(g)
    OBVIOUS
  <2>. QED
    BY <2>2, <2>3 DEF Loop
<1>2. MatchRoster(boats, rows) = m[Len(rows)]
  BY DEF MatchRoster
<1> HIDE DEF m
<1>. QED
  BY <1>1, <1>2

(***************************************************************************)
(* One row.                                                                *)
(***************************************************************************)
LEMMA One ==
  ASSUME NEW S, IsFiniteSet(S)
  PROVE  Cardinality(S) = 1 <=> \E x : S = {x}
BY FS_Singleton

LEMMA HitPoints ==
  ASSUME NEW boats, NEW m, NEW res, NEW i \in Hit(res, Free(boats, m))
  PROVE  i \in DOMAIN boats \ DOMAIN m /\ Points(res, boats[i])
<1>1. PICK free : free = Free(boats, m)
  OBVIOUS
<1>2. DOMAIN free = DOMAIN boats \ DOMAIN m /\ \A j \in DOMAIN free : free[j] = boats[j]
  BY <1>1 DEF Free
<1>3. i \in DOMAIN free /\ (SameSail(res, free[i]) \/ Alike(res, free[i]))
  BY <1>1 DEF Hit
<1>. QED
  BY <1>2, <1>3 DEF Points

PairedAs(boats, rows, m, k, q) ==
  \/ q = m /\ \A i : Hit(rows[k], Free(boats, m)) # {i}
  \/ \E i \in DOMAIN boats \ DOMAIN m :
       /\ Hit(rows[k], Free(boats, m)) = {i} /\ DOMAIN q = DOMAIN m \cup {i} /\ IsTable(q)
       /\ q[i] = k /\ \A j \in DOMAIN m : q[j] = m[j]

LEMMA PairedOne ==
  ASSUME NEW boats, IsFiniteSet(DOMAIN boats), NEW rows, NEW m, NEW k, NEW q, q = Paired(boats, rows, m, k)
  PROVE  PairedAs(boats, rows, m, k, q)
<1>1. PICK hit : hit = Hit(rows[k], Free(boats, m))
  OBVIOUS
<1>2. hit \subseteq DOMAIN boats \ DOMAIN m
  BY <1>1, HitPoints
<1>3. IsFiniteSet(hit)
  BY <1>2, FS_Subset
<1>4. CASE Cardinality(hit) = 1
  <2>1. PICK i : hit = {i}
    BY <1>3, <1>4, One
  <2>2. q = [j \in DOMAIN m \cup {i} |-> IF j \in {i} THEN k ELSE m[j]]
    BY <1>1, <1>4, <2>1 DEF Paired
  <2>3. i \in DOMAIN boats \ DOMAIN m
    BY <1>2, <2>1
  <2>. QED
    BY <1>1, <2>1, <2>2, <2>3 DEF IsTable, PairedAs
<1>5. CASE Cardinality(hit) # 1
  <2>1. q = m
    BY <1>1, <1>5 DEF Paired
  <2>2. \A i : hit # {i}
    BY <1>3, <1>5, One
  <2>. QED
    BY <1>1, <2>1, <2>2 DEF PairedAs
<1>. QED
  BY <1>4, <1>5

(***************************************************************************)
(* The loop pairs a boat with a row exactly when, at that row, it was the  *)
(* one to be hit.                                                          *)
(***************************************************************************)
HitAt(boats, rows, m, r) == Hit(rows[r], Free(boats, m[r - 1]))

LoopOK(boats, rows, m, k) ==
  /\ IsTable(m[k])
  /\ \A i \in DOMAIN m[k] : /\ i \in DOMAIN boats /\ m[k][i] \in 1..k
                            /\ HitAt(boats, rows, m, m[k][i]) = {i}
  /\ \A r \in 1..k : \A i : HitAt(boats, rows, m, r) = {i} => i \in DOMAIN m[k] /\ m[k][i] = r

LEMMA LoopInvariant ==
  ASSUME NEW boats, IsFiniteSet(DOMAIN boats), NEW rows, Len(rows) \in Nat, NEW m, Loop(boats, rows, m),
         NEW n \in 0..Len(rows)
  PROVE  LoopOK(boats, rows, m, n)
<1> DEFINE bad == {k \in 0..Len(rows) : ~LoopOK(boats, rows, m, k)}
<1> SUFFICES ASSUME bad # {} PROVE FALSE
  OBVIOUS
<1>1. PICK k \in bad : \A j \in bad : k <= j
  <2>1. bad \in SUBSET Nat
    OBVIOUS
  <2> HIDE DEF bad
  <2>. QED
    BY <2>1, LeastOf
<1>2. k \in 0..Len(rows) /\ ~LoopOK(boats, rows, m, k)
  BY <1>1
<1>3. CASE k = 0
  <2>1. m[0] = <<>>
    BY <1>2 DEF Loop
  <2>. QED
    BY <1>2, <1>3, <2>1 DEF LoopOK, IsTable
<1>4. CASE k # 0
  <2>1. k - 1 \in 0..Len(rows) /\ LoopOK(boats, rows, m, k - 1)
    <3>1. k - 1 \in 0..Len(rows) /\ ~(k <= k - 1)
      BY <1>2, <1>4
    <3>2. k - 1 \notin bad
      <4> HIDE DEF bad
      <4>. QED
        BY <1>1, <3>1
    <3>. QED
      BY <3>1, <3>2
  <2>2. PICK p, q : p = m[k - 1] /\ q = m[k]
    OBVIOUS
  <2>3. q = Paired(boats, rows, p, k)
    BY <1>2, <1>4, <2>2 DEF Loop
  <2>4. HitAt(boats, rows, m, k) = Hit(rows[k], Free(boats, p))
    BY <2>2 DEF HitAt
  <2>5. /\ IsTable(p)
        /\ \A i \in DOMAIN p : i \in DOMAIN boats /\ p[i] \in 1..(k - 1) /\ HitAt(boats, rows, m, p[i]) = {i}
        /\ \A r \in 1..(k - 1) : \A i : HitAt(boats, rows, m, r) = {i} => i \in DOMAIN p /\ p[i] = r
    BY <2>1, <2>2 DEF LoopOK
  <2>6. CASE q = p /\ \A i : Hit(rows[k], Free(boats, p)) # {i}
    <3>1. \A r \in 1..k : \A i : HitAt(boats, rows, m, r) = {i} => i \in DOMAIN q /\ q[i] = r
      <4> SUFFICES ASSUME NEW r \in 1..k, NEW i, HitAt(boats, rows, m, r) = {i} PROVE i \in DOMAIN q /\ q[i] = r
        OBVIOUS
      <4>1. r # k
        BY <2>4, <2>6
      <4>2. r \in 1..(k - 1)
        BY <1>2, <4>1
      <4>. QED
        BY <2>5, <2>6, <4>2
    <3>2. \A i \in DOMAIN q : i \in DOMAIN boats /\ q[i] \in 1..k /\ HitAt(boats, rows, m, q[i]) = {i}
      BY <1>2, <2>5, <2>6
    <3>. QED
      BY <1>2, <2>2, <2>5, <2>6, <3>1, <3>2 DEF LoopOK
  <2>7. ASSUME NEW x \in DOMAIN boats \ DOMAIN p,
               /\ Hit(rows[k], Free(boats, p)) = {x} /\ DOMAIN q = DOMAIN p \cup {x} /\ IsTable(q)
               /\ q[x] = k /\ \A j \in DOMAIN p : q[j] = p[j]
        PROVE  FALSE
    <3>1. ASSUME NEW r \in 1..k, NEW i, HitAt(boats, rows, m, r) = {i} PROVE i \in DOMAIN q /\ q[i] = r
      <4>1. CASE r = k
        <5>1. i = x
          BY <2>4, <2>7, <3>1, <4>1
        <5>. QED
          BY <2>7, <4>1, <5>1
      <4>2. CASE r # k
        <5>1. r \in 1..(k - 1)
          BY <1>2, <4>2
        <5>. QED
          BY <2>5, <2>7, <3>1, <5>1
      <4>. QED
        BY <4>1, <4>2
    <3>2. ASSUME NEW i \in DOMAIN q PROVE i \in DOMAIN boats /\ q[i] \in 1..k /\ HitAt(boats, rows, m, q[i]) = {i}
      <4>1. CASE i = x
        BY <1>2, <1>4, <2>4, <2>7, <4>1
      <4>2. CASE i \in DOMAIN p
        BY <1>2, <2>5, <2>7, <4>2
      <4>. QED
        BY <2>7, <4>1, <4>2
    <3>. QED
      BY <1>2, <2>2, <2>7, <3>1, <3>2 DEF LoopOK
  <2>8. PairedAs(boats, rows, p, k, q)
    <3> HIDE DEF bad
    <3>. QED
      BY <2>3, PairedOne
  <2>. QED
    BY <2>6, <2>7, <2>8, Zenon DEF PairedAs
<1>. QED
  BY <1>3, <1>4

-----------------------------------------------------------------------------
(***************************************************************************)
(* Which boat a row hits.                                                  *)
(***************************************************************************)
OfSail(res, free) == {i \in DOMAIN free : SameSail(res, free[i])}
OfName(res, free) == {i \in DOMAIN free : Alike(res, free[i])}
OfBoth(res, free) == {i \in OfSail(res, free) : free[i].name = res.name}

HitFrom(hit, s, b, n) ==
  /\ (\E x : s = {x}) => hit = s
  /\ (~\E x : s = {x}) /\ (\E x : b = {x}) => hit = b
  /\ (~\E x : s = {x}) /\ (~\E x : b = {x}) => hit = n

LEMMA HitIs ==
  ASSUME NEW free, IsFiniteSet(DOMAIN free), NEW res, NEW hit, hit = Hit(res, free)
  PROVE  HitFrom(hit, OfSail(res, free), OfBoth(res, free), OfName(res, free))
<1>1. PICK s, b, n : s = OfSail(res, free) /\ b = OfBoth(res, free) /\ n = OfName(res, free)
  OBVIOUS
<1>2. IsFiniteSet(s) /\ IsFiniteSet(b)
  <2>1. s \subseteq DOMAIN free /\ b \subseteq DOMAIN free
    BY <1>1 DEF OfSail, OfBoth
  <2>. QED
    BY <2>1, FS_Subset
<1>3. (Cardinality(s) = 1 <=> \E x : s = {x}) /\ (Cardinality(b) = 1 <=> \E x : b = {x})
  BY <1>2, One
<1>4. hit = IF Cardinality(s) = 1 THEN s ELSE IF Cardinality(b) = 1 THEN b ELSE n
  BY <1>1 DEF Hit, OfSail, OfBoth, OfName
<1>. QED
  BY <1>1, <1>3, <1>4 DEF HitFrom

Alone(boats, rows, i, k) ==
  /\ {j \in DOMAIN boats : SameSail(rows[k], boats[j])} = {i}
  /\ {j \in DOMAIN rows : Points(rows[j], boats[i])} = {k}

(* A row whose sail number one boat has gets that boat, if no other row    *)
(* points at it.                                                           *)
LEMMA SailFirst ==
  ASSUME NEW boats, IsFiniteSet(DOMAIN boats), NEW rows, Len(rows) \in Nat, DOMAIN rows = 1..Len(rows),
         NEW k \in DOMAIN rows, NEW i,
         Alone(boats, rows, i, k), NEW matched, matched = MatchRoster(boats, rows)
  PROVE  i \in DOMAIN matched /\ matched[i] = k
<1>1. PICK m : Loop(boats, rows, m) /\ matched = m[Len(rows)]
  BY MatchIsLoop
<1>2. k \in 1..Len(rows) /\ k - 1 \in 0..Len(rows) /\ Len(rows) \in 0..Len(rows)
  OBVIOUS
<1>3. LoopOK(boats, rows, m, k - 1) /\ LoopOK(boats, rows, m, Len(rows))
  BY <1>1, <1>2, LoopInvariant
<1>4. i \in DOMAIN boats /\ i \notin DOMAIN m[k - 1]
  <2>1. i \in DOMAIN boats
    BY DEF Alone
  <2>2. ASSUME i \in DOMAIN m[k - 1] PROVE FALSE
    <3>1. PICK r : r = m[k - 1][i]
      OBVIOUS
    <3>2. r \in 1..(k - 1) /\ HitAt(boats, rows, m, r) = {i}
      BY <1>3, <2>2, <3>1 DEF LoopOK
    <3>3. Points(rows[r], boats[i])
      <4>1. i \in Hit(rows[r], Free(boats, m[r - 1]))
        BY <3>2 DEF HitAt
      <4>. QED
        BY <4>1, HitPoints
    <3>4. r \in DOMAIN rows /\ r # k
      BY <1>2, <3>2
    <3>. QED
      BY <3>3, <3>4 DEF Alone
  <2>. QED
    BY <2>1, <2>2
<1>5. PICK free : free = Free(boats, m[k - 1])
  OBVIOUS
<1>6. DOMAIN free = DOMAIN boats \ DOMAIN m[k - 1] /\ \A j \in DOMAIN free : free[j] = boats[j]
  BY <1>5 DEF Free
<1>7. OfSail(rows[k], free) = {i}
  BY <1>4, <1>6 DEF OfSail, Alone
<1>8. HitAt(boats, rows, m, k) = {i}
  <2>1. IsFiniteSet(DOMAIN free)
    BY <1>6, FS_Subset
  <2>2. PICK hit : hit = Hit(rows[k], free)
    OBVIOUS
  <2>3. hit = {i}
    BY <1>7, <2>1, <2>2, HitIs DEF HitFrom
  <2>. QED
    BY <1>5, <2>2, <2>3 DEF HitAt
<1>9. i \in DOMAIN m[Len(rows)] /\ m[Len(rows)][i] = k
  BY <1>2, <1>3, <1>8 DEF LoopOK
<1>. QED
  BY <1>1, <1>9

-----------------------------------------------------------------------------
(***************************************************************************)
(* The roster an import leaves, and the same table imported again.         *)
(***************************************************************************)
Filled(B, matched, rows, n) ==
  [i \in DOMAIN B |-> IF i \in DOMAIN matched
                      THEN [B[i] EXCEPT !.shows = <<n, matched[i]>>, !.sail = Coalesce(@, rows[matched[i]].sail)]
                      ELSE B[i]]

Boats == [name : Names, sail : SailNos, yb : YbIds \cup {None}, shows : {None} \cup (Int \X Int)]

Roster(B) == IsTable(B) /\ IsFiniteSet(DOMAIN B) /\ \A i \in DOMAIN B : B[i] \in Boats

Rows == [name : Names, sail : Sails \cup {None}]

LEMMA MatchOK ==
  ASSUME NEW boats, IsFiniteSet(DOMAIN boats), NEW rows \in Seq(Rows), NEW matched, matched = MatchRoster(boats, rows)
  PROVE  IsTable(matched) /\ \A i \in DOMAIN matched : i \in DOMAIN boats /\ matched[i] \in 1..Len(rows)
<1>1. Len(rows) \in Nat
  OBVIOUS
<1>2. PICK m : Loop(boats, rows, m) /\ matched = m[Len(rows)]
  BY <1>1, MatchIsLoop
<1>3. LoopOK(boats, rows, m, Len(rows))
  BY <1>1, <1>2, LoopInvariant
<1>. QED
  BY <1>2, <1>3 DEF LoopOK

FilledAs(F, B, matched, rows, n) ==
  /\ DOMAIN F = DOMAIN B
  /\ \A i \in DOMAIN B :
       /\ F[i].name = B[i].name /\ F[i].yb = B[i].yb
       /\ F[i].shows = IF i \in DOMAIN matched THEN <<n, matched[i]>> ELSE B[i].shows
       /\ i \in DOMAIN matched /\ B[i].sail = None => F[i].sail = rows[matched[i]].sail
       /\ i \notin DOMAIN matched \/ B[i].sail # None => F[i].sail = B[i].sail

LEMMA FilledIs ==
  ASSUME NEW B, Roster(B), NEW rows \in Seq(Rows), NEW n \in Int,
         NEW matched, \A i \in DOMAIN matched : matched[i] \in 1..Len(rows), NEW F, F = Filled(B, matched, rows, n)
  PROVE  Roster(F) /\ FilledAs(F, B, matched, rows, n)
<1>1. IsTable(F) /\ DOMAIN F = DOMAIN B /\ IsFiniteSet(DOMAIN B)
  BY DEF Filled, IsTable, Roster
<1>2. ASSUME NEW i \in DOMAIN B
      PROVE  /\ F[i] \in Boats
             /\ F[i].name = B[i].name /\ F[i].yb = B[i].yb
             /\ F[i].shows = IF i \in DOMAIN matched THEN <<n, matched[i]>> ELSE B[i].shows
             /\ i \in DOMAIN matched /\ B[i].sail = None => F[i].sail = rows[matched[i]].sail
             /\ i \notin DOMAIN matched \/ B[i].sail # None => F[i].sail = B[i].sail
  <2>1. B[i] \in Boats
    BY DEF Roster
  <2>2. CASE i \in DOMAIN matched
    <3>1. PICK k : k = matched[i]
      OBVIOUS
    <3>2. k \in 1..Len(rows)
      BY <2>2, <3>1
    <3>3. rows[k] \in Rows
      BY <3>2
    <3>4. PICK s : s = rows[k].sail
      OBVIOUS
    <3>5. s \in SailNos
      BY <3>3, <3>4 DEF Rows, SailNos
    <3>6. F[i] = [B[i] EXCEPT !.shows = <<n, k>>, !.sail = Coalesce(B[i].sail, s)]
      BY <2>2, <3>1, <3>4 DEF Filled
    <3>7. <<n, k>> \in Int \X Int
      BY <3>2
    <3>. QED
      BY <2>1, <2>2, <3>1, <3>4, <3>5, <3>6, <3>7 DEF Boats, Coalesce
  <2>3. CASE i \notin DOMAIN matched
    <3>1. F[i] = B[i]
      BY <2>3 DEF Filled
    <3>. QED
      BY <2>1, <2>3, <3>1
  <2>. QED
    BY <2>2, <2>3
<1>. QED
  BY <1>1, <1>2 DEF Roster, FilledAs

OneSailEach(rows) ==
  \A j, k \in Sailed(rows) : rows[j].sail = rows[k].sail => j = k

(* The sail numbers filled in by the first import lead the second to the   *)
(* boats they came from.                                                   *)
LEMMA HitAgain ==
  ASSUME NEW B, Roster(B), NEW rows \in Seq(Rows), OneSailEach(rows), NEW n \in Int,
         NEW m, Loop(B, rows, m), m[Len(rows)] = MatchRoster(B, rows),
         NEW F, F = Filled(B, m[Len(rows)], rows, n), NEW k \in 1..Len(rows),
         NEW p, p = m[k - 1]
  PROVE  Hit(rows[k], Free(F, p)) = Hit(rows[k], Free(B, p))
<1>1. PICK all : all = m[Len(rows)]
  OBVIOUS
<1>2. PICK res : res = rows[k]
  OBVIOUS
<1>3. PICK f, g : f = Free(B, p) /\ g = Free(F, p)
  OBVIOUS
<1>4. /\ DOMAIN F = DOMAIN B
      /\ \A i \in DOMAIN B :
           /\ F[i].name = B[i].name
           /\ i \in DOMAIN all /\ B[i].sail = None => F[i].sail = rows[all[i]].sail
           /\ i \notin DOMAIN all \/ B[i].sail # None => F[i].sail = B[i].sail
  <2>1. F = Filled(B, all, rows, n) /\ all = MatchRoster(B, rows)
    BY <1>1
  <2>. \A i \in DOMAIN all : all[i] \in 1..Len(rows)
    BY <2>1, MatchOK DEF Roster
  <2>2. FilledAs(F, B, all, rows, n)
    BY <2>1, FilledIs
  <2>. QED
    BY <2>2 DEF FilledAs
<1>5. /\ DOMAIN f = DOMAIN g /\ IsFiniteSet(DOMAIN f) /\ DOMAIN f \subseteq DOMAIN B
      /\ \A i \in DOMAIN f : f[i] = B[i] /\ g[i] = F[i] /\ f[i].name = g[i].name
  <2>1. IsFiniteSet(DOMAIN B)
    BY DEF Roster
  <2>2. DOMAIN f = DOMAIN B \ DOMAIN p /\ DOMAIN g = DOMAIN B \ DOMAIN p
    BY <1>3, <1>4 DEF Free
  <2>3. IsFiniteSet(DOMAIN f)
    BY <2>1, <2>2, FS_Subset
  <2>. QED
    BY <1>3, <1>4, <2>2, <2>3 DEF Free
<1>6. PICK x, y : x = Hit(res, f) /\ y = Hit(res, g)
  OBVIOUS
<1>7. PICK s, t : s = OfSail(res, f) /\ t = OfSail(res, g)
  OBVIOUS
<1>8. PICK a : a = OfName(res, f)
  OBVIOUS
<1>9. a = OfName(res, g)
  BY <1>5, <1>8 DEF OfName, Alike
<1>10. s \subseteq t
  <2> SUFFICES ASSUME NEW i \in s PROVE i \in t
    OBVIOUS
  <2>1. i \in DOMAIN f /\ res.sail \in Sails /\ B[i].sail = res.sail
    BY <1>5, <1>7 DEF OfSail, SameSail
  <2>2. B[i].sail # None
    BY <2>1, Constants
  <2>3. g[i].sail = res.sail
    BY <1>4, <1>5, <2>1, <2>2
  <2>. QED
    BY <1>5, <1>7, <2>1, <2>3 DEF OfSail, SameSail
<1>11. ASSUME NEW i \in t \ s PROVE x = {i} /\ i \notin s
  <2>1. i \in DOMAIN f /\ res.sail \in Sails /\ F[i].sail = res.sail /\ B[i].sail # res.sail
    BY <1>5, <1>7 DEF OfSail, SameSail
  <2>2. i \in DOMAIN all /\ B[i].sail = None /\ rows[all[i]].sail = res.sail
    BY <1>4, <1>5, <2>1
  <2>3. PICK r : r = all[i]
    OBVIOUS
  <2>4. LoopOK(B, rows, m, Len(rows))
    <3>1. Len(rows) \in Nat /\ Len(rows) \in 0..Len(rows)
      OBVIOUS
    <3>. QED
      BY <3>1, LoopInvariant DEF Roster
  <2>5. r \in 1..Len(rows) /\ HitAt(B, rows, m, r) = {i}
    BY <1>1, <2>2, <2>3, <2>4 DEF LoopOK
  <2>6. r = k
    <3>1. r \in Sailed(rows) /\ k \in Sailed(rows) /\ rows[r].sail = rows[k].sail
      BY <1>2, <2>1, <2>2, <2>3, <2>5 DEF Sailed
    <3>. QED
      BY <3>1 DEF OneSailEach
  <2>. QED
    BY <1>2, <1>3, <1>6, <2>5, <2>6 DEF HitAt
<1>12. PICK b, c : b = OfBoth(res, f) /\ c = OfBoth(res, g)
  OBVIOUS
<1>13. HitFrom(x, s, b, a) /\ HitFrom(y, t, c, a)
  <2>1. HitFrom(x, OfSail(res, f), OfBoth(res, f), OfName(res, f))
    BY <1>5, <1>6, HitIs
  <2>2. IsFiniteSet(DOMAIN g)
    BY <1>5
  <2>3. HitFrom(y, OfSail(res, g), OfBoth(res, g), OfName(res, g))
    BY <1>6, <2>2, HitIs
  <2>. QED
    BY <1>7, <1>8, <1>9, <1>12, <2>1, <2>3
<1>14. x = y
  <2>1. CASE s = t
    <3>1. b = c
      BY <1>5, <1>7, <1>12, <2>1 DEF OfBoth, OfSail
    <3>. QED
      BY <1>13, <2>1, <3>1 DEF HitFrom
  <2>2. CASE s # t
    <3>1. PICK i : i \in t \ s
      BY <1>10, <2>2
    <3>2. x = {i} /\ i \notin s
      BY <1>11, <3>1
    <3>3. a = {i}
      <4>1. b \subseteq s
        BY <1>7, <1>12 DEF OfBoth
      <4>. QED
        BY <1>13, <3>2, <4>1 DEF HitFrom
    <3>4. c \subseteq a
      BY <1>9, <1>12 DEF OfBoth, OfSail, OfName, Alike, NameMatches, Variants
    <3>5. i \in t
      BY <3>1
    <3>. QED
      BY <1>13, <3>2, <3>3, <3>4, <3>5 DEF HitFrom
  <2>. QED
    BY <2>1, <2>2
<1>. QED
  BY <1>2, <1>3, <1>6, <1>14

LEMMA Again ==
  ASSUME NEW B, Roster(B), NEW rows \in Seq(Rows), OneSailEach(rows), NEW n \in Int,
         NEW matched, matched = MatchRoster(B, rows), NEW F, F = Filled(B, matched, rows, n)
  PROVE  MatchRoster(F, rows) = matched
<1>1. Len(rows) \in Nat
  OBVIOUS
<1>2. PICK m : Loop(B, rows, m) /\ MatchRoster(B, rows) = m[Len(rows)]
  BY <1>1, MatchIsLoop
<1>3. PICK g : Loop(F, rows, g) /\ MatchRoster(F, rows) = g[Len(rows)]
  BY <1>1, MatchIsLoop
<1> DEFINE bad == {k \in 0..Len(rows) : m[k] # g[k]}
<1>4. ASSUME bad # {} PROVE FALSE
  <2>1. PICK k \in bad : \A j \in bad : k <= j
    <3>1. bad \in SUBSET Nat
      OBVIOUS
    <3> HIDE DEF bad
    <3>. QED
      BY <1>4, <3>1, LeastOf
  <2>2. k \in 0..Len(rows) /\ m[k] # g[k]
    BY <2>1
  <2>3. k # 0
    BY <1>2, <1>3, <2>2 DEF Loop
  <2>4. k \in 1..Len(rows) /\ k - 1 \in 0..Len(rows)
    BY <2>2, <2>3
  <2>5. m[k - 1] = g[k - 1]
    <3>1. ~(k <= k - 1)
      BY <2>2
    <3>2. k - 1 \notin bad
      <4> HIDE DEF bad
      <4>. QED
        BY <2>1, <3>1
    <3>. QED
      BY <2>4, <3>2
  <2>6. PICK p : p = m[k - 1]
    OBVIOUS
  <2>7. Hit(rows[k], Free(F, p)) = Hit(rows[k], Free(B, p))
    <3> HIDE DEF bad
    <3>1. m[Len(rows)] = MatchRoster(B, rows) /\ F = Filled(B, m[Len(rows)], rows, n)
      BY <1>2
    <3>. QED
      BY <1>2, <2>4, <2>6, <3>1, HitAgain
  <2>8. Paired(F, rows, p, k) = Paired(B, rows, p, k)
    BY <2>7 DEF Paired
  <2>9. m[k] = Paired(B, rows, p, k) /\ g[k] = Paired(F, rows, p, k)
    BY <1>2, <1>3, <2>2, <2>3, <2>5, <2>6 DEF Loop
  <2>. QED
    BY <2>2, <2>8, <2>9
<1>5. Len(rows) \in 0..Len(rows)
  BY <1>1
<1>. QED
  BY <1>2, <1>3, <1>4, <1>5

-----------------------------------------------------------------------------
(***************************************************************************)
(* The invariant.  A boat stays what it was entered as; a roster nothing   *)
(* has touched since the last import is what that import left; an import   *)
(* nothing has crossed holds the roster as it is; a boat has the yb_id of  *)
(* a team of its name.                                                     *)
(***************************************************************************)
BoatsOK(R, n) ==
  /\ Roster(R) /\ \E c \in Nat : DOMAIN R = 1..c
  /\ \A i, j \in DOMAIN R : R[i].name = R[j].name => i = j
  /\ \A i \in DOMAIN R : R[i].shows = None \/ R[i].shows[1] \in 1..n

AllIn(R, ts) ==
  \A k \in DOMAIN ts : LastOf(ts[k].name, ts) = k => \E i \in DOMAIN R : R[i].name = ts[k].name /\ R[i].yb = ts[k].yb

GivenIn(R, g) == \A i \in DOMAIN R : R[i].yb # None => [name |-> R[i].name, yb |-> R[i].yb] \in g

TeamsIn(R, ts, g) == AllIn(R, ts) /\ GivenIn(R, g)

IsLast(l) ==
  /\ l = [n |-> l.n, table |-> l.table, clean |-> l.clean]
  /\ l.n \in Nat /\ l.table \in Tables \cup {<<>>} /\ l.clean \in BOOLEAN

LeftBy(R, l, B) ==
  /\ Roster(B) /\ l.table \in Tables
  /\ \A i \in DOMAIN B : B[i].shows = None \/ B[i].shows[1] < l.n
  /\ R = Filled(B, MatchRoster(B, l.table), l.table, l.n)

CleanOK(R, l) == l.clean => \E B : LeftBy(R, l, B)

Looked(f) == \E n \in Names : \E s \in Sails \cup {Blank} : \E S : f = <<n, s, S>>

GotTeams(f) == \E ts \in TeamLists : \E S : f = <<ts, S>>

ProcOK(x, R) ==
  /\ x = [pc |-> x.pc, table |-> x.table, boats |-> x.boats, first |-> x.first, crossed |-> x.crossed]
  /\ x.crossed \in BOOLEAN
  /\ x.pc \in {"fetched", "matched"} => x.table \in Tables
  /\ x.pc = "sheet" => Looked(x.first)
  /\ x.pc = "link" => GotTeams(x.first)
  /\ x.pc = "matched" => Roster(x.boats)
  /\ x.pc = "matched" /\ ~x.crossed => x.boats = R

ProcsOK(P, R) ==
  /\ P = [p \in Importers \cup Linkers |-> P[p]]
  /\ \A p \in Importers \cup Linkers : ProcOK(P[p], R)

Columns ==
  /\ table \in Tables /\ left \in [Jobs -> Nat]
  /\ slug \in TeamLists \cup {<<>>} /\ given \subseteq Team

IInv ==
  /\ Columns /\ IsLast(last)
  /\ BoatsOK(roster, last.n) /\ TeamsIn(roster, slug, given)
  /\ CleanOK(roster, last) /\ ProcsOK(pr, roster)

-----------------------------------------------------------------------------
(***************************************************************************)
(* What each writer does to the boats.                                     *)
(***************************************************************************)
Shows(R, Q) == \A i \in DOMAIN R : i \in DOMAIN Q /\ Q[i].shows = R[i].shows

(* A boat keeps its name and its team, and one entered has none.           *)
SameTeams(R, Q) ==
  /\ \A i \in DOMAIN R : i \in DOMAIN Q /\ Q[i].name = R[i].name /\ Q[i].yb = R[i].yb
  /\ \A i \in DOMAIN Q \ DOMAIN R : Q[i].yb = None

LEMMA TeamsStay ==
  ASSUME NEW R, NEW Q, SameTeams(R, Q), NEW ts, NEW g, TeamsIn(R, ts, g)
  PROVE  TeamsIn(Q, ts, g)
<1>1. AllIn(Q, ts)
  BY DEF TeamsIn, AllIn, SameTeams
<1>2. ASSUME NEW i \in DOMAIN Q, Q[i].yb # None PROVE [name |-> Q[i].name, yb |-> Q[i].yb] \in g
  <2>1. i \in DOMAIN R
    BY <1>2 DEF SameTeams
  <2>2. Q[i].name = R[i].name /\ Q[i].yb = R[i].yb
    BY <2>1 DEF SameTeams
  <2>. QED
    BY <1>2, <2>1, <2>2 DEF TeamsIn, GivenIn
<1>. QED
  BY <1>1, <1>2 DEF TeamsIn, GivenIn

LEMMA TeamsAre ==
  ASSUME NEW ts \in TeamLists
  PROVE  /\ DOMAIN ts = 1..Len(ts) /\ Len(ts) \in Nat
         /\ DOMAIN ts \subseteq Nat /\ IsFiniteSet(DOMAIN ts)
         /\ \A k \in DOMAIN ts : /\ ts[k] \in Team
                                 /\ ts[k].name \in Names /\ ts[k].yb \in YbIds /\ ts[k].yb # None
                                 /\ [name |-> ts[k].name, yb |-> ts[k].yb] = ts[k]
<1>1. ts \in Seq(Team)
  BY Constants
<1>2. DOMAIN ts = 1..Len(ts) /\ Len(ts) \in Nat
  BY <1>1
<1>3. IsFiniteSet(DOMAIN ts)
  BY <1>2, FS_Interval
<1>4. ASSUME NEW k \in DOMAIN ts
      PROVE  /\ ts[k] \in Team
             /\ ts[k].name \in Names /\ ts[k].yb \in YbIds /\ ts[k].yb # None
             /\ [name |-> ts[k].name, yb |-> ts[k].yb] = ts[k]
  <2>1. PICK t : t = ts[k]
    OBVIOUS
  <2>2. t \in Team
    BY <1>1, <2>1
  <2>. QED
    BY <2>1, <2>2, Constants DEF Team
<1>. QED
  BY <1>2, <1>3, <1>4

(* The last team of a name is one.                                         *)
LEMMA LastIs ==
  ASSUME NEW ts \in TeamLists, NEW n, TeamsOf(n, ts) # {}
  PROVE  LastOf(n, ts) \in DOMAIN ts /\ ts[LastOf(n, ts)].name = n
<1>1. PICK N : N = Len(ts)
  OBVIOUS
<1>2. N \in Nat /\ DOMAIN ts = 1..N
  BY <1>1, TeamsAre
<1>3. PICK S : S = TeamsOf(n, ts)
  OBVIOUS
<1>4. S \subseteq 1..N /\ S # {}
  BY <1>2, <1>3 DEF TeamsOf
<1>5. PICK D : D = {N - k : k \in S}
  OBVIOUS
<1>6. D \in SUBSET Nat /\ D # {}
  <2>1. ASSUME NEW k \in S PROVE N - k \in Nat
    <3>1. k \in 1..N
      BY <1>4
    <3>. QED
      BY <1>2, <3>1
  <2>. QED
    BY <1>4, <1>5, <2>1
<1>7. PICK d \in D : \A e \in D : d <= e
  BY <1>6, LeastOf
<1>8. PICK l \in S : d = N - l
  BY <1>5, <1>7
<1>9. ASSUME NEW j \in S PROVE j <= l
  <2>1. N - j \in D
    BY <1>5
  <2>2. N - l <= N - j
    BY <1>7, <1>8, <2>1
  <2>3. j \in Int /\ l \in Int
    BY <1>4
  <2>. QED
    BY <1>2, <2>2, <2>3
<1>10. LastOf(n, ts) \in S
  BY <1>3, <1>8, <1>9 DEF LastOf
<1>. QED
  BY <1>3, <1>10 DEF TeamsOf

LEMMA EntryKeeps ==
  ASSUME NEW R, NEW n \in Nat, BoatsOK(R, n), NEW b \in Boats, b.shows = None, b.yb = None,
         \A i \in DOMAIN R : R[i].name # b.name,
         NEW Q, Q = With(R, Cardinality(DOMAIN R) + 1, b)
  PROVE  BoatsOK(Q, n) /\ SameTeams(R, Q) /\ Shows(R, Q)
<1>1. PICK c \in Nat : DOMAIN R = 1..c
  BY DEF BoatsOK
<1>2. Cardinality(DOMAIN R) = c
  BY <1>1, FS_Interval
<1>3. /\ DOMAIN Q = 1..(c + 1) /\ IsTable(Q) /\ Q[c + 1] = b
      /\ \A i \in DOMAIN R : Q[i] = R[i]
  BY <1>1, <1>2 DEF With, IsTable
<1>4. DOMAIN Q = DOMAIN R \cup {c + 1} /\ c + 1 \notin DOMAIN R
  <2>1. 1..(c + 1) = 1..c \cup {c + 1} /\ c + 1 \notin 1..c
    OBVIOUS
  <2>2. DOMAIN Q = 1..(c + 1)
    BY <1>3
  <2>. QED
    BY <1>1, <2>1, <2>2, Zenon
<1>5. Roster(Q)
  <2>1. IsFiniteSet(DOMAIN Q)
    <3>1. IsFiniteSet(1..(c + 1))
      BY FS_Interval
    <3>2. DOMAIN Q = 1..(c + 1)
      BY <1>3
    <3>. QED
      BY <3>1, <3>2
  <2>. QED
    BY <1>3, <1>4, <2>1 DEF Roster, BoatsOK
<1>6. \A i, j \in DOMAIN Q : Q[i].name = Q[j].name => i = j
  BY <1>3, <1>4 DEF BoatsOK
<1>7. \A i \in DOMAIN Q : Q[i].shows = None \/ Q[i].shows[1] \in 1..n
  BY <1>3, <1>4 DEF BoatsOK
<1>8. BoatsOK(Q, n)
  BY <1>3, <1>5, <1>6, <1>7 DEF BoatsOK
<1>9. SameTeams(R, Q)
  BY <1>3, <1>4 DEF SameTeams
<1>10. Shows(R, Q)
  BY <1>3, <1>4 DEF Shows
<1>. QED
  BY <1>8, <1>9, <1>10

RefreshedIn(R, S, s) == [i \in DOMAIN R |-> IF i \in S THEN Refreshed(R[i], s) ELSE R[i]]

LEMMA RefreshKeeps ==
  ASSUME NEW R, NEW n \in Nat, BoatsOK(R, n), NEW S, NEW s \in Sails \cup {Blank},
         NEW Q, Q = RefreshedIn(R, S, s)
  PROVE  BoatsOK(Q, n) /\ SameTeams(R, Q) /\ Shows(R, Q)
<1>1. DOMAIN Q = DOMAIN R /\ IsTable(Q)
  BY DEF IsTable, RefreshedIn
<1>2. ASSUME NEW i \in DOMAIN R
      PROVE  Q[i] \in Boats /\ Q[i].name = R[i].name /\ Q[i].yb = R[i].yb /\ Q[i].shows = R[i].shows
  <2>1. R[i] \in Boats
    BY DEF BoatsOK, Roster
  <2>2. Q[i] = [R[i] EXCEPT !.sail = s] \/ Q[i] = R[i]
    BY DEF Refreshed, RefreshedIn
  <2>. QED
    BY <2>1, <2>2 DEF Boats, SailNos
<1>3. Roster(Q)
  BY <1>1, <1>2 DEF Roster, BoatsOK
<1>4. BoatsOK(Q, n)
  BY <1>1, <1>2, <1>3 DEF BoatsOK
<1>. QED
  BY <1>1, <1>2, <1>4 DEF SameTeams, Shows

Scored(R, Q, n) ==
  /\ DOMAIN Q = DOMAIN R
  /\ \A i \in DOMAIN R : Q[i].shows = R[i].shows \/ (Q[i].shows # None /\ Q[i].shows[1] = n)

InRows(matched, rows) == \A i \in DOMAIN matched : matched[i] \in 1..Len(rows)

LEMMA FillKeeps ==
  ASSUME NEW R, NEW n \in Nat, BoatsOK(R, n), NEW rows \in Seq(Rows),
         NEW matched, InRows(matched, rows),
         NEW Q, Q = Filled(R, matched, rows, n + 1)
  PROVE  BoatsOK(Q, n + 1) /\ SameTeams(R, Q) /\ Scored(R, Q, n + 1)
<1>1. Roster(R) /\ n + 1 \in Int
  BY DEF BoatsOK
<1>2. Roster(Q) /\ FilledAs(Q, R, matched, rows, n + 1)
  BY <1>1, FilledIs DEF InRows
<1>3. DOMAIN Q = DOMAIN R
  BY <1>2 DEF FilledAs
<1>4. ASSUME NEW i \in DOMAIN R
      PROVE  /\ Q[i].name = R[i].name /\ Q[i].yb = R[i].yb
             /\ Q[i].shows = R[i].shows \/ (Q[i].shows # None /\ Q[i].shows[1] = n + 1)
  <2>1. CASE i \in DOMAIN matched
    <3>1. PICK a : a = matched[i]
      OBVIOUS
    <3>2. Q[i].shows = <<n + 1, a>> /\ Q[i].name = R[i].name /\ Q[i].yb = R[i].yb
      BY <1>2, <2>1, <3>1 DEF FilledAs
    <3>3. a \in Int
      BY <2>1, <3>1 DEF InRows
    <3>4. <<n + 1, a>> # None
      BY <1>1, <3>3, Constants
    <3>5. PICK sh : sh = <<n + 1, a>>
      OBVIOUS
    <3>6. sh[1] = n + 1 /\ sh # None
      BY <3>4, <3>5
    <3>7. Q[i].shows = sh
      BY <3>2, <3>5, Zenon
    <3>. QED
      BY <3>2, <3>6, <3>7, Zenon
  <2>2. CASE i \notin DOMAIN matched
    BY <1>2, <2>2 DEF FilledAs
  <2>. QED
    BY <2>1, <2>2
<1>5. \A i \in DOMAIN Q : Q[i].shows = None \/ Q[i].shows[1] \in 1..(n + 1)
  BY <1>3, <1>4 DEF BoatsOK
<1>6. BoatsOK(Q, n + 1)
  BY <1>2, <1>3, <1>4, <1>5 DEF BoatsOK
<1>7. SameTeams(R, Q)
  BY <1>3, <1>4 DEF SameTeams
<1>. QED
  BY <1>3, <1>4, <1>6, <1>7 DEF Scored

(* Ids given out in order are all those there are, each once.              *)
Increasing(at, M) == \A i, j \in M : i < j => at[i] < at[j]

Fills(at, M, lo, hi) ==
  /\ \A i, j \in M : at[i] = at[j] => i = j
  /\ \A y \in lo..hi : \E i \in M : at[i] = y

LEMMA Ids ==
  ASSUME NEW M \in SUBSET Int, IsFiniteSet(M), NEW c \in Nat, NEW k, k = Cardinality(M),
         NEW at \in [M -> (c + 1)..(c + k)], Increasing(at, M)
  PROVE  Fills(at, M, c + 1, c + k)
<1>1. k = Cardinality(M)
  OBVIOUS
<1>2. k \in Nat
  BY <1>1, FS_CardinalityType
<1>3. PICK T : T = (c + 1)..(c + k)
  OBVIOUS
<1>4. at \in [M -> T]
  BY <1>1, <1>3
<1>5. \A i, j \in M : at[i] = at[j] => i = j
  <2> SUFFICES ASSUME NEW i \in M, NEW j \in M, at[i] = at[j], i # j PROVE FALSE
    OBVIOUS
  <2>1. at[i] \in Int /\ at[j] \in Int
    BY <1>2, <1>3, <1>4
  <2>2. i < j \/ j < i
    OBVIOUS
  <2>. QED
    BY <2>1, <2>2 DEF Increasing
<1>6. at \in Injection(M, T)
  BY <1>4, <1>5 DEF Injection, IsInjective
<1>7. IsFiniteSet(T) /\ Cardinality(T) = k
  <2>1. IsFiniteSet((c + 1)..(c + k)) /\ Cardinality((c + 1)..(c + k)) = k
    <3>1. c + 1 \in Int /\ c + k \in Int
      BY <1>2
    <3>2. PICK a, b : a = c + 1 /\ b = c + k
      OBVIOUS
    <3>3. IsFiniteSet(a..b) /\ Cardinality(a..b) = IF a > b THEN 0 ELSE b - a + 1
      BY <3>1, <3>2, FS_Interval
    <3>4. (IF a > b THEN 0 ELSE b - a + 1) = k
      BY <1>2, <3>2
    <3>. QED
      BY <3>2, <3>3, <3>4
  <2>. QED
    BY <1>3, <2>1
<1>8. at \in Surjection(M, T)
  BY <1>1, <1>6, <1>7, FS_Injection
<1>. QED
  BY <1>1, <1>3, <1>5, <1>8 DEF Surjection, Fills

LEMMA LinkedIs ==
  ASSUME NEW ts \in TeamLists, NEW b \in Boats
  PROVE  /\ Linked(b, ts) \in Boats /\ Linked(b, ts).name = b.name /\ Linked(b, ts).shows = b.shows
         /\ TeamsOf(b.name, ts) # {} => Linked(b, ts).yb = ts[LastOf(b.name, ts)].yb
         /\ TeamsOf(b.name, ts) = {} => Linked(b, ts).yb = b.yb
<1>1. CASE TeamsOf(b.name, ts) # {}
  <2>1. PICK y : y = ts[LastOf(b.name, ts)].yb
    OBVIOUS
  <2>2. y \in YbIds
    BY <1>1, <2>1, LastIs, TeamsAre
  <2>3. Linked(b, ts) = [b EXCEPT !.yb = y]
    BY <1>1, <2>1 DEF Linked
  <2>. QED
    BY <1>1, <2>1, <2>2, <2>3 DEF Boats
<1>2. CASE TeamsOf(b.name, ts) = {}
  <2>1. Linked(b, ts) = b
    BY <1>2 DEF Linked
  <2>. QED
    BY <1>2, <2>1
<1>. QED
  BY <1>1, <1>2

NewBoat(t, ts) == Boat(t.name, None, ts[LastOf(t.name, ts)].yb)

LinkedTo(R, ts, M, at) ==
  [y \in DOMAIN R \cup {at[i] : i \in M} |->
     IF y \in DOMAIN R THEN Linked(R[y], ts)
     ELSE LET i == CHOOSE i \in M : at[i] = y IN NewBoat(ts[i], ts)]

MissingIn(R, ts) ==
  {k \in DOMAIN ts : /\ {i \in DOMAIN R : R[i].name = ts[k].name} = {}
                     /\ \A j \in TeamsOf(ts[k].name, ts) : k <= j}

LEMMA LinkKeeps ==
  ASSUME NEW R, NEW n \in Nat, BoatsOK(R, n), NEW ts \in TeamLists, NEW g, GivenIn(R, g),
         NEW M, M = MissingIn(R, ts),
         NEW c \in Nat, DOMAIN R = 1..c,
         NEW at \in [M -> (c + 1)..(c + Cardinality(M))], Increasing(at, M),
         NEW Q, Q = LinkedTo(R, ts, M, at)
  PROVE  BoatsOK(Q, n) /\ TeamsIn(Q, ts, g \cup {ts[k] : k \in DOMAIN ts}) /\ Shows(R, Q)
<1>1. M \in SUBSET DOMAIN ts /\ M \in SUBSET Int /\ IsFiniteSet(M)
  BY TeamsAre, FS_Subset DEF MissingIn
<1>2. PICK k : k = Cardinality(M)
  OBVIOUS
<1>3. k \in Nat
  BY <1>1, <1>2, FS_CardinalityType
<1>4. at \in [M -> (c + 1)..(c + k)]
  BY <1>2
<1>5. /\ \A i, j \in M : at[i] = at[j] => i = j
      /\ \A y \in (c + 1)..(c + k) : \E i \in M : at[i] = y
  <2>1. Fills(at, M, c + 1, c + k)
    BY <1>1, <1>2, <1>4, Ids
  <2>. QED
    BY <2>1 DEF Fills
<1>6. {at[i] : i \in M} = (c + 1)..(c + k)
  BY <1>4, <1>5
<1>7. DOMAIN Q = 1..(c + k) /\ IsTable(Q) /\ DOMAIN Q = DOMAIN R \cup {at[i] : i \in M}
  <2>1. 1..c \cup (c + 1)..(c + k) = 1..(c + k)
    BY <1>3
  <2>. QED
    BY <1>6, <2>1 DEF LinkedTo, IsTable
<1>8. ASSUME NEW y \in DOMAIN R
      PROVE  /\ Q[y] \in Boats /\ Q[y].name = R[y].name /\ Q[y].shows = R[y].shows
             /\ TeamsOf(R[y].name, ts) # {} => Q[y].yb = ts[LastOf(R[y].name, ts)].yb
             /\ TeamsOf(R[y].name, ts) = {} => Q[y].yb = R[y].yb
  <2>1. PICK b : b = R[y]
    OBVIOUS
  <2>2. b \in Boats
    BY <2>1 DEF BoatsOK, Roster
  <2>3. PICK a : a = Linked(b, ts)
    OBVIOUS
  <2>4. Q[y] = a
    BY <2>1, <2>3 DEF LinkedTo
  <2>5. /\ a \in Boats /\ a.name = b.name /\ a.shows = b.shows
        /\ TeamsOf(b.name, ts) # {} => a.yb = ts[LastOf(b.name, ts)].yb
        /\ TeamsOf(b.name, ts) = {} => a.yb = b.yb
    BY <2>2, <2>3, LinkedIs
  <2>. QED
    BY <2>1, <2>4, <2>5, Zenon
<1>9. ASSUME NEW i \in M
      PROVE  /\ at[i] \in DOMAIN Q \ DOMAIN R /\ Q[at[i]] \in Boats
             /\ Q[at[i]].name = ts[i].name /\ Q[at[i]].shows = None
             /\ TeamsOf(ts[i].name, ts) # {} /\ Q[at[i]].yb = ts[LastOf(ts[i].name, ts)].yb
  <2>1. at[i] \in DOMAIN Q \ DOMAIN R
    BY <1>3, <1>4, <1>7
  <2>2. (CHOOSE j \in M : at[j] = at[i]) = i
    BY <1>5
  <2>3. Q[at[i]] = NewBoat(ts[i], ts)
    <3>1. PICK y : y = at[i]
      OBVIOUS
    <3>2. Q[y] = LET j == CHOOSE j \in M : at[j] = y IN NewBoat(ts[j], ts)
      BY <1>7, <2>1, <3>1 DEF LinkedTo
    <3>. QED
      BY <2>2, <3>1, <3>2
  <2>4. i \in DOMAIN ts /\ i \in TeamsOf(ts[i].name, ts)
    BY <1>1 DEF TeamsOf
  <2>5. PICK t, y : t = ts[i].name /\ y = ts[LastOf(ts[i].name, ts)].yb
    OBVIOUS
  <2>6. t \in Names /\ y \in YbIds
    BY <2>4, <2>5, TeamsAre, LastIs
  <2>7. Q[at[i]] = [name |-> t, sail |-> None, yb |-> y, shows |-> None]
    BY <2>3, <2>5 DEF NewBoat, Boat
  <2>8. Q[at[i]] \in Boats
    BY <2>6, <2>7 DEF Boats, SailNos
  <2>. QED
    BY <2>1, <2>4, <2>5, <2>7, <2>8
<1>10. \A y \in DOMAIN Q : y \in DOMAIN R \/ \E i \in M : y = at[i]
  BY <1>7
<1>11. Roster(Q)
  <2>1. IsFiniteSet(DOMAIN Q)
    <3>1. c + k \in Int
      BY <1>3
    <3>2. IsFiniteSet(1..(c + k))
      BY <3>1, FS_Interval
    <3>. QED
      BY <1>7, <3>2
  <2>. QED
    BY <1>7, <1>8, <1>9, <1>10, <2>1 DEF Roster
<1>12. \A y, z \in DOMAIN Q : Q[y].name = Q[z].name => y = z
  <2>1. ASSUME NEW i \in M, NEW z \in DOMAIN R PROVE R[z].name # ts[i].name
    <3>1. {j \in DOMAIN R : R[j].name = ts[i].name} = {}
      BY DEF MissingIn
    <3>. QED
      BY <3>1
  <2>2. ASSUME NEW i \in M, NEW j \in M, ts[i].name = ts[j].name PROVE i = j
    <3>1. i \in TeamsOf(ts[j].name, ts) /\ j \in TeamsOf(ts[i].name, ts)
      BY <1>1, <2>2 DEF TeamsOf
    <3>2. i <= j /\ j <= i /\ i \in Int /\ j \in Int
      BY <1>1, <3>1 DEF MissingIn
    <3>. QED
      BY <3>2
  <2> SUFFICES ASSUME NEW y \in DOMAIN Q, NEW z \in DOMAIN Q, Q[y].name = Q[z].name PROVE y = z
    OBVIOUS
  <2>3. CASE y \in DOMAIN R /\ z \in DOMAIN R
    BY <1>8, <2>3 DEF BoatsOK
  <2>4. CASE \E i \in M : y = at[i]
    BY <1>8, <1>9, <1>10, <2>1, <2>2, <2>4
  <2>5. CASE y \in DOMAIN R /\ \E j \in M : z = at[j]
    BY <1>8, <1>9, <2>1, <2>5
  <2>. QED
    BY <1>10, <2>3, <2>4, <2>5
<1>13. GivenIn(Q, g \cup {ts[i] : i \in DOMAIN ts})
  <2> SUFFICES ASSUME NEW y \in DOMAIN Q, Q[y].yb # None
               PROVE  [name |-> Q[y].name, yb |-> Q[y].yb] \in g \cup {ts[i] : i \in DOMAIN ts}
    BY DEF GivenIn
  <2>1. ASSUME TeamsOf(Q[y].name, ts) # {}, Q[y].yb = ts[LastOf(Q[y].name, ts)].yb
        PROVE  \E i \in DOMAIN ts : [name |-> Q[y].name, yb |-> Q[y].yb] = ts[i]
    <3>1. PICK i : i = LastOf(Q[y].name, ts)
      OBVIOUS
    <3>2. i \in DOMAIN ts /\ ts[i].name = Q[y].name /\ ts[i].yb = Q[y].yb
      BY <2>1, <3>1, LastIs
    <3>3. [name |-> ts[i].name, yb |-> ts[i].yb] = ts[i]
      BY <3>2, TeamsAre
    <3>. QED
      BY <3>2, <3>3
  <2>2. CASE \E i \in M : y = at[i]
    <3>1. PICK i \in M : y = at[i]
      BY <2>2
    <3>2. TeamsOf(Q[y].name, ts) # {} /\ Q[y].yb = ts[LastOf(Q[y].name, ts)].yb
      BY <1>9, <3>1
    <3>. QED
      BY <2>1, <3>2
  <2>3. CASE y \in DOMAIN R /\ TeamsOf(R[y].name, ts) # {}
    BY <1>8, <2>1, <2>3
  <2>4. CASE y \in DOMAIN R /\ TeamsOf(R[y].name, ts) = {}
    BY <1>8, <2>4 DEF GivenIn
  <2>. QED
    BY <1>10, <2>2, <2>3, <2>4
<1>14. \A y \in DOMAIN Q : Q[y].shows = None \/ Q[y].shows[1] \in 1..n
  BY <1>8, <1>9, <1>10 DEF BoatsOK
<1>15. BoatsOK(Q, n)
  <2>1. \E d \in Nat : DOMAIN Q = 1..d
    <3>1. c + k \in Nat /\ DOMAIN Q = 1..(c + k)
      BY <1>3, <1>7
    <3>. QED
      BY <3>1, Zenon
  <2>. QED
    BY <1>11, <1>12, <1>14, <2>1 DEF BoatsOK
<1>16. AllIn(Q, ts)
  <2> SUFFICES ASSUME NEW l \in DOMAIN ts, LastOf(ts[l].name, ts) = l
               PROVE  \E i \in DOMAIN Q : Q[i].name = ts[l].name /\ Q[i].yb = ts[l].yb
    BY DEF AllIn
  <2>1. l \in TeamsOf(ts[l].name, ts)
    BY DEF TeamsOf
  <2>2. CASE \E y \in DOMAIN R : R[y].name = ts[l].name
    <3>1. PICK y \in DOMAIN R : R[y].name = ts[l].name
      BY <2>2
    <3>2. y \in DOMAIN Q /\ Q[y].name = ts[l].name /\ Q[y].yb = ts[l].yb
      BY <1>7, <1>8, <2>1, <3>1
    <3>. QED
      BY <3>2
  <2>3. CASE \A y \in DOMAIN R : R[y].name # ts[l].name
    <3>1. PICK S : S = TeamsOf(ts[l].name, ts)
      OBVIOUS
    <3>2. S \in SUBSET Nat /\ S # {}
      BY <2>1, <3>1, TeamsAre DEF TeamsOf
    <3>3. PICK i \in S : \A j \in S : i <= j
      BY <3>2, LeastOf
    <3>4. i \in DOMAIN ts /\ ts[i].name = ts[l].name
      BY <3>1, <3>3 DEF TeamsOf
    <3>5. i \in M
      BY <2>3, <3>1, <3>3, <3>4 DEF MissingIn
    <3>6. at[i] \in DOMAIN Q /\ Q[at[i]].name = ts[l].name /\ Q[at[i]].yb = ts[l].yb
      BY <1>9, <3>4, <3>5
    <3>. QED
      BY <3>6
  <2>. QED
    BY <2>2, <2>3
<1>17. Shows(R, Q)
  BY <1>7, <1>8 DEF Shows
<1>. QED
  BY <1>13, <1>15, <1>16, <1>17 DEF TeamsIn

-----------------------------------------------------------------------------
(***************************************************************************)
(* The processes.                                                          *)
(***************************************************************************)
Procs == Importers \cup Linkers

LEMMA OneMoves ==
  ASSUME NEW P, NEW R, ProcsOK(P, R), NEW p, NEW now, ProcOK(now, R), NEW Q, Q = [P EXCEPT ![p] = now]
  PROVE  ProcsOK(Q, R)
BY DEF ProcsOK

LEMMA AllCross ==
  ASSUME NEW P, NEW R, ProcsOK(P, R), NEW S, NEW p, NEW now, ProcOK(now, S), NEW Q,
         Q = [q \in DOMAIN P |-> IF q = p THEN now ELSE [P[q] EXCEPT !.crossed = @ \/ P[q].pc = "matched"]]
  PROVE  ProcsOK(Q, S)
<1>1. DOMAIN P = Procs /\ DOMAIN Q = Procs /\ Q = [q \in Procs |-> Q[q]]
  BY DEF ProcsOK, Procs
<1>2. ASSUME NEW q \in Procs PROVE ProcOK(Q[q], S)
  <2>1. CASE q = p
    BY <1>1, <2>1
  <2>2. CASE q # p
    <3>1. PICK x, y : x = P[q] /\ y = Q[q]
      OBVIOUS
    <3>2. ProcOK(x, R)
      BY <3>1 DEF ProcsOK, Procs
    <3>3. y = [x EXCEPT !.crossed = x.crossed \/ x.pc = "matched"]
      BY <1>1, <2>2, <3>1
    <3>4. PICK c : c = (x.crossed \/ x.pc = "matched")
      OBVIOUS
    <3>5. c \in BOOLEAN /\ (x.pc = "matched" => c)
      BY <3>2, <3>4, Zenon DEF ProcOK
    <3>6. y = [x EXCEPT !.crossed = c]
      BY <3>3, <3>4
    <3>7. y = [pc |-> x.pc, table |-> x.table, boats |-> x.boats, first |-> x.first, crossed |-> c]
      BY <3>2, <3>6 DEF ProcOK
    <3>8. y.pc = x.pc /\ y.table = x.table /\ y.boats = x.boats /\ y.first = x.first /\ y.crossed = c
      BY <3>7
    <3>9. ProcOK(y, S)
      <4>1. y = [pc |-> y.pc, table |-> y.table, boats |-> y.boats, first |-> y.first, crossed |-> y.crossed]
        BY <3>7, <3>8
      <4>. QED
        BY <3>2, <3>5, <3>8, <4>1, Zenon DEF ProcOK
    <3>. QED
      BY <3>1, <3>9
  <2>. QED
    BY <2>1, <2>2
<1>. QED
  BY <1>1, <1>2 DEF ProcsOK, Procs

LEMMA IdleOK ==
  ASSUME NEW R
  PROVE  ProcOK(Idle, R)
BY DEF ProcOK, Idle

LEMMA TableRows ==
  ASSUME NEW t \in Tables
  PROVE  t \in Seq(Rows)
BY Constants DEF Rows

LEMMA InitIInv ==
  Init => IInv
<1> SUFFICES ASSUME Init PROVE IInv
  OBVIOUS
<1>1. Columns
  BY Constants DEF Columns, Init
<1>2. IsLast(last) /\ last.clean = FALSE
  BY DEF Init, IsLast
<1>3. BoatsOK(roster, last.n)
  <2>1. /\ roster \in Rosters
        /\ roster \in Seq([name : Names, sail : SailNos, yb : {None}, shows : {None}])
        /\ \A i, j \in DOMAIN roster : roster[i].name = roster[j].name => i = j
    BY Constants DEF Init
  <2>2. PICK c \in Nat : DOMAIN roster = 1..c /\ IsTable(roster)
    <3>1. Len(roster) \in Nat /\ DOMAIN roster = 1..Len(roster) /\ IsTable(roster)
      BY <2>1 DEF IsTable
    <3>. QED
      BY <3>1, Zenon
  <2>3. ASSUME NEW i \in DOMAIN roster
        PROVE  roster[i] \in Boats /\ roster[i].yb = None /\ roster[i].shows = None
    <3>1. roster[i] \in [name : Names, sail : SailNos, yb : {None}, shows : {None}]
      <4>1. PICK X : X = [name : Names, sail : SailNos, yb : {None}, shows : {None}]
        OBVIOUS
      <4>2. roster \in Seq(X)
        BY <2>1, <4>1
      <4>3. roster[i] \in X
        BY <4>2
      <4>. QED
        BY <4>1, <4>3
    <3>. QED
      BY <3>1 DEF Boats
  <2>4. IsFiniteSet(DOMAIN roster)
    BY <2>2, FS_Interval
  <2>. QED
    BY <2>1, <2>2, <2>3, <2>4 DEF BoatsOK, Roster
<1>4. ProcsOK(pr, roster)
  BY IdleOK DEF Init, ProcsOK
<1>5. TeamsIn(roster, slug, given)
  <2>1. roster \in Seq([name : Names, sail : SailNos, yb : {None}, shows : {None}])
    BY Constants DEF Init
  <2>2. ASSUME NEW i \in DOMAIN roster PROVE roster[i].yb = None
    <3>1. PICK X : X = [name : Names, sail : SailNos, yb : {None}, shows : {None}]
      OBVIOUS
    <3>2. roster \in Seq(X)
      BY <2>1, <3>1
    <3>3. roster[i] \in X
      BY <3>2
    <3>. QED
      BY <3>1, <3>3
  <2>3. DOMAIN slug = {}
    BY DEF Init
  <2>. QED
    BY <2>2, <2>3 DEF TeamsIn, AllIn, GivenIn
<1>. QED
  BY <1>1, <1>2, <1>3, <1>4, <1>5 DEF IInv, CleanOK

-----------------------------------------------------------------------------
(***************************************************************************)
(* The actions.                                                            *)
(***************************************************************************)
StaysAs ==
  \A i \in DOMAIN roster :
    roster[i].shows # None =>
      /\ i \in DOMAIN roster' /\ roster'[i].shows # None
      /\ roster'[i].shows = roster[i].shows \/ roster'[i].shows[1] = last'.n

LEMMA DoesColumns ==
  ASSUME Columns, NEW j \in Jobs, Does(j), table' \in Tables, UNCHANGED tracker
  PROVE  Columns'
BY DEF Columns, Does, tracker

(* Nothing of the roster changes.                                          *)
LEMMA Leaves ==
  ASSUME IInv, Columns', UNCHANGED <<roster, tracker, last>>, ProcsOK(pr', roster)
  PROVE  IInv' /\ StaysAs
<1>1. IsLast(last') /\ BoatsOK(roster', last'.n) /\ CleanOK(roster', last') /\ ProcsOK(pr', roster')
  BY DEF IInv
<1>2. TeamsIn(roster', slug', given')
  BY DEF IInv, tracker
<1>3. IInv'
  BY <1>1, <1>2 DEF IInv
<1>. QED
  BY <1>3 DEF StaysAs

(* A boat is entered, refreshed or linked.                                 *)
LEMMA Touches ==
  ASSUME IInv, Columns', Touched, BoatsOK(roster', last.n), TeamsIn(roster', slug', given'), Shows(roster, roster'),
         ProcsOK(pr', roster')
  PROVE  IInv' /\ StaysAs
<1>1. IsLast(last') /\ last'.n = last.n /\ ~last'.clean
  BY DEF IInv, IsLast, Touched
<1>2. CleanOK(roster', last')
  BY <1>1 DEF CleanOK
<1>3. IInv'
  BY <1>1, <1>2 DEF IInv
<1>. QED
  BY <1>3 DEF StaysAs, Shows

LEMMA AmendKeeps ==
  ASSUME IInv, Amend
  PROVE  IInv' /\ StaysAs
<1>1. Columns'
  BY DoesColumns DEF IInv, Columns, Amend, Jobs
<1>2. ProcsOK(pr', roster) /\ UNCHANGED <<roster, tracker, last>>
  BY DEF IInv, Amend
<1>. QED
  BY <1>1, <1>2, Leaves

LEMMA FetchKeeps ==
  ASSUME IInv, NEW p \in Importers, Fetch(p)
  PROVE  IInv' /\ StaysAs
<1>1. Columns'
  BY DoesColumns DEF IInv, Columns, Fetch, Jobs
<1>2. PICK now : now = [Idle EXCEPT !.pc = "fetched", !.table = table]
  OBVIOUS
<1>3. ProcOK(now, roster)
  BY <1>2 DEF Idle, ProcOK, IInv, Columns
<1>4. pr' = [pr EXCEPT ![p] = now]
  BY <1>2 DEF Fetch
<1>5. ProcsOK(pr', roster)
  BY <1>3, <1>4, OneMoves DEF IInv
<1>6. UNCHANGED <<roster, tracker, last>>
  BY DEF Fetch
<1>. QED
  BY <1>1, <1>5, <1>6, Leaves

LEMMA MatchKeeps ==
  ASSUME IInv, NEW p \in Importers, Match(p)
  PROVE  IInv' /\ StaysAs
<1>1. Columns'
  BY DEF IInv, Columns, Match, tracker
<1>2. PICK x : x = pr[p]
  OBVIOUS
<1>3. ProcOK(x, roster) /\ x.pc = "fetched" /\ p \in DOMAIN pr
  BY <1>2 DEF Match, At, IInv, ProcsOK
<1>4. PICK now : now = [x EXCEPT !.pc = "matched", !.boats = roster]
  OBVIOUS
<1>5. now = [pc |-> "matched", table |-> x.table, boats |-> roster, first |-> x.first, crossed |-> x.crossed]
  BY <1>3, <1>4 DEF ProcOK
<1>6. ProcOK(now, roster)
  BY <1>3, <1>5 DEF ProcOK, IInv, BoatsOK
<1>7. pr' = [pr EXCEPT ![p] = now]
  BY <1>2, <1>3, <1>4 DEF Match
<1>8. ProcsOK(pr', roster)
  BY <1>6, <1>7, OneMoves DEF IInv
<1>9. UNCHANGED <<roster, tracker, last>>
  BY DEF Match
<1>. QED
  BY <1>1, <1>8, <1>9, Leaves

LEMMA PreviewKeeps ==
  ASSUME IInv, NEW p \in Importers, Preview(p)
  PROVE  IInv' /\ StaysAs
<1>1. Columns' /\ UNCHANGED <<roster, tracker, last>>
  BY DEF IInv, Columns, Preview, tracker
<1>2. pr' = [pr EXCEPT ![p] = Idle]
  BY DEF Preview
<1>3. ProcsOK(pr', roster)
  BY <1>2, IdleOK, OneMoves DEF IInv
<1>. QED
  BY <1>1, <1>3, Leaves

LEMMA ApplyKeeps ==
  ASSUME IInv, NEW p \in Importers, Apply(p)
  PROVE  IInv' /\ StaysAs
<1>1. PICK x, R : x = pr[p] /\ R = roster
  OBVIOUS
<1>2. PICK rows, B, n : rows = x.table /\ B = x.boats /\ n = last.n
  OBVIOUS
<1>3. PICK matched : matched = MatchRoster(B, rows)
  OBVIOUS
<1>4. ProcOK(x, R) /\ x.pc = "matched"
  BY <1>1 DEF Apply, At, IInv, ProcsOK
<1>5. /\ rows \in Tables /\ rows \in Seq(Rows) /\ Roster(B) /\ x.crossed \in BOOLEAN
      /\ ~x.crossed => B = R
  BY <1>2, <1>4, TableRows DEF ProcOK
<1>6. IsTable(matched) /\ \A i \in DOMAIN matched : i \in DOMAIN B /\ matched[i] \in 1..Len(rows)
  BY <1>3, <1>5, MatchOK DEF Roster
<1>7. roster' = Filled(R, matched, rows, n + 1)
  BY <1>1, <1>2, <1>3 DEF Apply, Filled
<1>8. last' = [n |-> n + 1, table |-> rows, clean |-> ~x.crossed]
  BY <1>1, <1>2 DEF Apply
<1>9. n \in Nat /\ BoatsOK(R, n) /\ TeamsIn(R, slug, given)
  BY <1>1, <1>2 DEF IInv, IsLast
<1>10. PICK Q : Q = roster'
  OBVIOUS
<1>11. BoatsOK(Q, n + 1) /\ SameTeams(R, Q) /\ Scored(R, Q, n + 1)
  <2>1. InRows(matched, rows)
    BY <1>6 DEF InRows
  <2>2. Q = Filled(R, matched, rows, n + 1)
    BY <1>7, <1>10
  <2>. QED
    BY <1>5, <1>9, <2>1, <2>2, FillKeeps
<1>12. IsLast(last') /\ last'.n = n + 1 /\ last'.table = rows /\ (last'.clean <=> ~x.crossed)
  <2>1. PICK c : c = ~x.crossed
    OBVIOUS
  <2>2. c \in BOOLEAN
    BY <2>1
  <2>3. last' = [n |-> n + 1, table |-> rows, clean |-> c]
    BY <1>8, <2>1
  <2>4. last'.n = n + 1 /\ last'.table = rows /\ last'.clean = c
    BY <2>3
  <2>5. IsLast(last')
    BY <1>5, <1>9, <2>2, <2>3, <2>4 DEF IsLast
  <2>. QED
    BY <2>1, <2>4, <2>5, Zenon
<1>13. CleanOK(Q, last')
  <2> SUFFICES ASSUME last'.clean PROVE \E C : LeftBy(Q, last', C)
    BY DEF CleanOK
  <2>1. B = R
    BY <1>5, <1>12
  <2>2. \A i \in DOMAIN B : B[i].shows = None \/ B[i].shows[1] < n + 1
    BY <1>9, <2>1 DEF BoatsOK
  <2>3. Q = Filled(B, MatchRoster(B, rows), rows, n + 1)
    BY <1>3, <1>7, <1>10, <2>1
  <2>4. LeftBy(Q, last', B)
    BY <1>5, <1>12, <2>2, <2>3, Zenon DEF LeftBy
  <2>. QED
    BY <2>4
<1>14. ProcsOK(pr', Q)
  <2>1. pr' = [q \in DOMAIN pr |-> IF q = p THEN Idle ELSE [pr[q] EXCEPT !.crossed = @ \/ pr[q].pc = "matched"]]
    BY DEF Apply, Crosses
  <2>2. ProcsOK(pr, R)
    BY <1>1 DEF IInv
  <2>. QED
    BY <2>1, <2>2, IdleOK, AllCross
<1>15. Columns' /\ TeamsIn(Q, slug', given')
  <2>1. UNCHANGED tracker
    BY DEF Apply
  <2>2. Columns'
    BY <2>1 DEF Apply, IInv, Columns, tracker
  <2>. QED
    BY <1>9, <1>11, <2>1, <2>2, TeamsStay DEF tracker
<1>16. IInv'
  BY <1>10, <1>11, <1>12, <1>13, <1>14, <1>15, Zenon DEF IInv
<1>17. StaysAs
  BY <1>1, <1>10, <1>11, <1>12 DEF StaysAs, Scored
<1>. QED
  BY <1>16, <1>17

LEMMA AddKeeps ==
  ASSUME IInv, NEW n \in Names, AddRealBoat(n)
  PROVE  IInv' /\ StaysAs
<1>1. PICK R, Q, b : R = roster /\ Q = roster' /\ b = Boat(n, None, None)
  OBVIOUS
<1>2. b \in Boats /\ b.shows = None /\ b.yb = None /\ b.name = n
  BY <1>1 DEF Boat, Boats, SailNos
<1>3. \A i \in DOMAIN R : R[i].name # b.name
  BY <1>1, <1>2 DEF AddRealBoat, Refused, Named
<1>4. Q = With(R, Cardinality(DOMAIN R) + 1, b)
  BY <1>1 DEF AddRealBoat, NewId
<1>5. last.n \in Nat /\ BoatsOK(R, last.n) /\ TeamsIn(R, slug, given) /\ ProcsOK(pr, R)
  BY <1>1 DEF IInv, IsLast
<1>6. BoatsOK(Q, last.n) /\ SameTeams(R, Q) /\ Shows(R, Q)
  BY <1>2, <1>3, <1>4, <1>5, EntryKeeps
<1>7. pr' = [q \in DOMAIN pr |-> IF q = None THEN Idle ELSE [pr[q] EXCEPT !.crossed = @ \/ pr[q].pc = "matched"]]
  BY DEF AddRealBoat, Crosses
<1>8. ProcsOK(pr', Q)
  BY <1>5, <1>7, IdleOK, AllCross
<1>9. Columns'
  BY DoesColumns DEF IInv, Columns, AddRealBoat, Jobs
<1>10. Touched /\ UNCHANGED tracker
  BY DEF AddRealBoat
<1>11. TeamsIn(Q, slug', given')
  BY <1>5, <1>6, <1>10, TeamsStay DEF tracker
<1>. QED
  BY <1>1, <1>5, <1>6, <1>8, <1>9, <1>10, <1>11, Touches

LEMMA SheetReadsKeeps ==
  ASSUME IInv, NEW p \in Linkers, NEW n \in Names, NEW s \in Sails \cup {Blank}, SheetReads(p, n, s)
  PROVE  IInv' /\ StaysAs
<1>1. Columns'
  BY DoesColumns DEF IInv, Columns, SheetReads, Jobs
<1>2. PICK f : f = <<n, s, Named(n)>>
  OBVIOUS
<1>3. Looked(f)
  BY <1>2 DEF Looked
<1>4. PICK now : now = [Idle EXCEPT !.pc = "sheet", !.first = f]
  OBVIOUS
<1>5. ProcOK(now, roster)
  BY <1>3, <1>4 DEF Idle, ProcOK
<1>6. pr' = [pr EXCEPT ![p] = now]
  BY <1>2, <1>4 DEF SheetReads
<1>7. ProcsOK(pr', roster)
  BY <1>5, <1>6, OneMoves DEF IInv
<1>8. UNCHANGED <<roster, tracker, last>>
  BY DEF SheetReads
<1>. QED
  BY <1>1, <1>7, <1>8, Leaves

LEMMA SheetWritesKeeps ==
  ASSUME IInv, NEW p \in Linkers, SheetWrites(p)
  PROVE  IInv' /\ StaysAs
<1>1. Columns' /\ UNCHANGED tracker
  BY DEF IInv, Columns, SheetWrites, tracker
<1>2. PICK R, Q : R = roster /\ Q = roster'
  OBVIOUS
<1>3. last.n \in Nat /\ BoatsOK(R, last.n) /\ TeamsIn(R, slug, given) /\ ProcsOK(pr, R)
  BY <1>2 DEF IInv, IsLast
<1>4. Looked(pr[p].first)
  BY DEF IInv, ProcsOK, ProcOK, SheetWrites, At
<1>5. PICK n \in Names : \E s \in Sails \cup {Blank} : \E S : pr[p].first = <<n, s, S>>
  BY <1>4 DEF Looked
<1>6. PICK s \in Sails \cup {Blank} : \E S : pr[p].first = <<n, s, S>>
  BY <1>5
<1>7. PICK found : pr[p].first = <<n, s, found>>
  BY <1>6
<1>8. pr[p].first[1] = n /\ pr[p].first[2] = s /\ pr[p].first[3] = found
  BY <1>7
<1>9. CASE found = {} /\ Refused(n)
  <2>1. UNCHANGED <<roster, tracker, last>> /\ pr' = [pr EXCEPT ![p] = Idle]
    BY <1>8, <1>9 DEF SheetWrites
  <2>2. ProcsOK(pr', roster)
    BY <2>1, IdleOK, OneMoves DEF IInv
  <2>. QED
    BY <1>1, <2>1, <2>2, Leaves
<1>10. CASE ~(found = {} /\ Refused(n))
  <2>1. /\ Q = IF found = {} THEN With(R, Cardinality(DOMAIN R) + 1, Boat(n, s, None))
               ELSE [i \in DOMAIN R |-> IF i \in found THEN Refreshed(R[i], s) ELSE R[i]]
        /\ Crosses(p, Idle) /\ Touched
    BY <1>2, <1>8, <1>10 DEF SheetWrites, NewId
  <2>2. BoatsOK(Q, last.n) /\ SameTeams(R, Q) /\ Shows(R, Q)
    <3>1. CASE found = {}
      <4>1. PICK b : b = Boat(n, s, None)
        OBVIOUS
      <4>2. b \in Boats /\ b.shows = None /\ b.yb = None /\ b.name = n
        BY <4>1 DEF Boat, Boats, SailNos
      <4>3. \A i \in DOMAIN R : R[i].name # b.name
        BY <1>2, <1>10, <3>1, <4>2 DEF Refused, Named
      <4>4. Q = With(R, Cardinality(DOMAIN R) + 1, b)
        BY <2>1, <3>1, <4>1
      <4>. QED
        BY <1>3, <4>2, <4>3, <4>4, EntryKeeps
    <3>2. CASE found # {}
      <4>1. Q = RefreshedIn(R, found, s)
        BY <2>1, <3>2 DEF RefreshedIn
      <4>. QED
        BY <1>3, <4>1, RefreshKeeps
    <3>. QED
      BY <3>1, <3>2
  <2>3. pr' = [q \in DOMAIN pr |-> IF q = p THEN Idle ELSE [pr[q] EXCEPT !.crossed = @ \/ pr[q].pc = "matched"]]
    BY <2>1 DEF Crosses
  <2>4. ProcsOK(pr', Q)
    BY <1>3, <2>3, IdleOK, AllCross
  <2>5. TeamsIn(Q, slug', given')
    BY <1>1, <1>3, <2>2, TeamsStay DEF tracker
  <2>. QED
    BY <1>1, <1>2, <1>3, <2>1, <2>2, <2>4, <2>5, Touches
<1>. QED
  BY <1>9, <1>10

LEMMA LinkReadsKeeps ==
  ASSUME IInv, NEW p \in Linkers, LinkReads(p)
  PROVE  IInv' /\ StaysAs
<1>1. Columns'
  BY DoesColumns DEF IInv, Columns, LinkReads, Jobs
<1>2. PICK teams \in TeamLists :
        pr' = [pr EXCEPT ![p] = [Idle EXCEPT !.pc = "link", !.first = <<teams, Named(teams[1].name)>>]]
  BY DEF LinkReads
<1>3. PICK f : f = <<teams, Named(teams[1].name)>>
  OBVIOUS
<1>4. GotTeams(f)
  BY <1>3 DEF GotTeams
<1>5. PICK now : now = [Idle EXCEPT !.pc = "link", !.first = f]
  OBVIOUS
<1>6. ProcOK(now, roster)
  BY <1>4, <1>5 DEF Idle, ProcOK
<1>7. pr' = [pr EXCEPT ![p] = now]
  BY <1>2, <1>3, <1>5
<1>8. ProcsOK(pr', roster)
  BY <1>6, <1>7, OneMoves DEF IInv
<1>9. UNCHANGED <<roster, tracker, last>>
  BY DEF LinkReads
<1>. QED
  BY <1>1, <1>8, <1>9, Leaves

LEMMA LinkWritesKeeps ==
  ASSUME IInv, NEW p \in Linkers, LinkWrites(p)
  PROVE  IInv' /\ StaysAs
<1>1. PICK R, Q : R = roster /\ Q = roster'
  OBVIOUS
<1>2. last.n \in Nat /\ BoatsOK(R, last.n) /\ GivenIn(R, given) /\ ProcsOK(pr, R)
  BY <1>1 DEF IInv, IsLast, TeamsIn
<1> DEFINE ts    == pr[p].first[1]
<1> DEFINE found == pr[p].first[2]
<1>3. GotTeams(pr[p].first)
  BY DEF IInv, ProcsOK, ProcOK, LinkWrites, At
<1>4. ts \in TeamLists
  BY <1>3 DEF GotTeams
<1>5. found = {} /\ Refused(ts[1].name) => UNCHANGED <<roster, tracker, last>> /\ pr' = [pr EXCEPT ![p] = Idle]
  BY DEF LinkWrites
<1>6. ~(found = {} /\ Refused(ts[1].name)) =>
        /\ \E at \in [Missing(ts) -> NewId..(NewId + Cardinality(Missing(ts)) - 1)] :
             /\ \A i, j \in Missing(ts) : i < j => at[i] < at[j]
             /\ roster' = [n \in DOMAIN roster \cup {at[i] : i \in Missing(ts)} |->
                            IF n \in DOMAIN roster THEN Linked(roster[n], ts)
                            ELSE LET i == CHOOSE i \in Missing(ts) : at[i] = n
                                 IN Boat(ts[i].name, None, ts[LastOf(ts[i].name, ts)].yb)]
        /\ slug' = ts /\ given' = given \cup {ts[k] : k \in DOMAIN ts}
        /\ Crosses(p, Idle) /\ Touched
  BY DEF LinkWrites
<1> HIDE DEF ts, found
<1>7. CASE found = {} /\ Refused(ts[1].name)
  <2>1. UNCHANGED <<roster, tracker, last>> /\ pr' = [pr EXCEPT ![p] = Idle]
    BY <1>5, <1>7
  <2>2. ProcsOK(pr', roster)
    BY <2>1, IdleOK, OneMoves DEF IInv
  <2>3. Columns'
    BY <2>1 DEF IInv, Columns, LinkWrites, tracker
  <2>. QED
    BY <2>1, <2>2, <2>3, Leaves
<1>8. CASE ~(found = {} /\ Refused(ts[1].name))
  <2> DEFINE M == Missing(ts)
  <2>1. M = MissingIn(R, ts)
    BY <1>1 DEF Missing, MissingIn, Named
  <2>2. /\ slug' = ts /\ given' = given \cup {ts[k] : k \in DOMAIN ts}
        /\ Crosses(p, Idle) /\ Touched /\ UNCHANGED <<table, left>>
    BY <1>6, <1>8, Zenon DEF LinkWrites
  <2>3. PICK at \in [M -> NewId..(NewId + Cardinality(M) - 1)] :
          /\ \A i, j \in M : i < j => at[i] < at[j]
          /\ roster' = [n \in DOMAIN roster \cup {at[i] : i \in M} |->
                         IF n \in DOMAIN roster THEN Linked(roster[n], ts)
                         ELSE LET i == CHOOSE i \in M : at[i] = n
                              IN Boat(ts[i].name, None, ts[LastOf(ts[i].name, ts)].yb)]
    BY <1>6, <1>8
  <2> HIDE DEF M
  <2>4. Increasing(at, M) /\ Q = LinkedTo(R, ts, M, at)
    <3>1. Increasing(at, M)
      BY <2>3 DEF Increasing
    <3>2. roster' = LinkedTo(roster, ts, M, at)
      BY <2>3 DEF LinkedTo, NewBoat
    <3>. QED
      BY <1>1, <3>1, <3>2
  <2>5. PICK c \in Nat : DOMAIN R = 1..c
    BY <1>2 DEF BoatsOK
  <2>6. NewId = c + 1
    <3>1. Cardinality(1..c) = c
      BY FS_Interval
    <3>. QED
      BY <1>1, <2>5, <3>1 DEF NewId
  <2>7. at \in [M -> (c + 1)..(c + Cardinality(M))]
    <3>1. IsFiniteSet(M)
      BY <1>4, <2>1, TeamsAre, FS_Subset DEF MissingIn
    <3>2. PICK k : k = Cardinality(M)
      OBVIOUS
    <3>3. k \in Nat
      BY <3>1, <3>2, FS_CardinalityType
    <3>4. at \in [M -> (c + 1)..(c + 1 + k - 1)]
      BY <2>3, <2>6, <3>2
    <3>5. c + 1 + k - 1 = c + k
      BY <3>3
    <3>. QED
      BY <3>2, <3>4, <3>5
  <2>8. BoatsOK(Q, last.n) /\ TeamsIn(Q, slug', given') /\ Shows(R, Q)
    BY <1>2, <1>4, <2>1, <2>2, <2>4, <2>5, <2>7, LinkKeeps
  <2>9. pr' = [q \in DOMAIN pr |-> IF q = p THEN Idle ELSE [pr[q] EXCEPT !.crossed = @ \/ pr[q].pc = "matched"]]
    BY <2>2 DEF Crosses
  <2>10. ProcsOK(pr', Q)
    BY <1>2, <2>9, IdleOK, AllCross
  <2>11. Columns'
    <3>1. \A k \in DOMAIN ts : ts[k] \in Team
      BY <1>4, TeamsAre
    <3>. QED
      BY <1>4, <2>2, <3>1 DEF IInv, Columns
  <2>. QED
    BY <1>1, <2>2, <2>8, <2>10, <2>11, Touches
<1>. QED
  BY <1>7, <1>8

-----------------------------------------------------------------------------
(***************************************************************************)
(* The theorems.                                                           *)
(***************************************************************************)
LEMMA NextKeeps ==
  ASSUME IInv, Next
  PROVE  IInv' /\ StaysAs
<1>1. CASE Amend
  BY <1>1, AmendKeeps
<1>2. CASE \E p \in Importers : Fetch(p) \/ Match(p) \/ Preview(p) \/ Apply(p)
  <2>1. PICK p \in Importers : Fetch(p) \/ Match(p) \/ Preview(p) \/ Apply(p)
    BY <1>2
  <2>. QED
    BY <2>1, FetchKeeps, MatchKeeps, PreviewKeeps, ApplyKeeps, Zenon
<1>3. CASE \E n \in Names : AddRealBoat(n)
  BY <1>3, AddKeeps, Zenon
<1>4. CASE \E p \in Linkers :
             \/ SheetWrites(p) \/ LinkReads(p) \/ LinkWrites(p)
             \/ \E n \in Names : \E s \in Sails \cup {Blank} : SheetReads(p, n, s)
  <2>1. PICK p \in Linkers :
             \/ SheetWrites(p) \/ LinkReads(p) \/ LinkWrites(p)
             \/ \E n \in Names : \E s \in Sails \cup {Blank} : SheetReads(p, n, s)
    BY <1>4
  <2>. QED
    BY <2>1, SheetWritesKeeps, LinkReadsKeeps, LinkWritesKeeps, SheetReadsKeeps, Zenon
<1>. QED
  BY <1>1, <1>2, <1>3, <1>4 DEF Next

LEMMA StutterKeeps ==
  ASSUME IInv, UNCHANGED vars
  PROVE  IInv' /\ StaysAs
<1>1. Columns' /\ UNCHANGED <<roster, tracker, last>> /\ ProcsOK(pr', roster)
  BY DEF vars, IInv, Columns, tracker
<1>. QED
  BY <1>1, Leaves

LEMMA Invariant == Spec => []IInv
<1>1. IInv /\ [Next]_vars => IInv'
  BY NextKeeps, StutterKeeps
<1>. QED
  BY <1>1, InitIInv, PTL DEF Spec

(* What the boats show of the last import is what it paired.               *)
LEMMA ShownIs ==
  ASSUME NEW B, IsLast(last), LeftBy(roster, last, B)
  PROVE  Shown = MatchRoster(B, last.table)
<1>1. PICK m : m = MatchRoster(B, last.table)
  OBVIOUS
<1>2. last.table \in Seq(Rows) /\ last.n \in Nat /\ Roster(B)
  BY TableRows DEF LeftBy, IsLast
<1>3. IsTable(m) /\ \A i \in DOMAIN m : i \in DOMAIN B /\ m[i] \in 1..Len(last.table)
  BY <1>1, <1>2, MatchOK DEF Roster
<1>4. FilledAs(roster, B, m, last.table, last.n)
  <2>1. roster = Filled(B, m, last.table, last.n)
    BY <1>1 DEF LeftBy
  <2>2. \A i \in DOMAIN m : m[i] \in 1..Len(last.table)
    BY <1>3
  <2>3. PICK rows, n : rows = last.table /\ n = last.n
    OBVIOUS
  <2>4. roster = Filled(B, m, rows, n) /\ rows \in Seq(Rows) /\ n \in Int
        /\ \A i \in DOMAIN m : m[i] \in 1..Len(rows)
    BY <1>2, <2>1, <2>2, <2>3
  <2>5. FilledAs(roster, B, m, rows, n)
    BY <1>2, <2>4, FilledIs
  <2>. QED
    BY <2>3, <2>5
<1>5. ASSUME NEW i \in DOMAIN roster
      PROVE  /\ i \in DOMAIN m => roster[i].shows # None /\ roster[i].shows[1] = last.n /\ roster[i].shows[2] = m[i]
             /\ i \notin DOMAIN m => roster[i].shows = None \/ roster[i].shows[1] # last.n
  <2>1. CASE i \in DOMAIN m
    <3>1. PICK a, n, sh : a = m[i] /\ n = last.n /\ sh = <<n, a>>
      OBVIOUS
    <3>2. a \in Int /\ n \in Int
      BY <1>2, <1>3, <2>1, <3>1
    <3>3. roster[i].shows = sh
      BY <1>3, <1>4, <2>1, <3>1 DEF FilledAs
    <3>4. sh # None /\ sh[1] = n /\ sh[2] = a
      BY <3>1, <3>2, Constants
    <3>. QED
      BY <2>1, <3>1, <3>3, <3>4, Zenon
  <2>2. CASE i \notin DOMAIN m
    <3>1. i \in DOMAIN B /\ roster[i].shows = B[i].shows
      BY <1>4, <2>2 DEF FilledAs
    <3>2. B[i].shows = None \/ B[i].shows[1] < last.n
      BY <3>1 DEF LeftBy
    <3>3. B[i].shows = None \/ B[i].shows[1] # last.n
      <4>1. PICK a, n : a = B[i].shows[1] /\ n = last.n
        OBVIOUS
      <4>2. n \in Int /\ (B[i].shows = None \/ a < n)
        BY <1>2, <3>2, <4>1
      <4>3. B[i].shows # None => a \in Int
        BY <1>2, <3>1, <4>1 DEF Roster, Boats
      <4>. QED
        BY <4>1, <4>2, <4>3
    <3>. QED
      BY <2>2, <3>1, <3>3, Zenon
  <2>. QED
    BY <2>1, <2>2
<1>6. DOMAIN m = {j \in DOMAIN roster : roster[j].shows # None /\ roster[j].shows[1] = last.n}
  <2>1. DOMAIN m \subseteq DOMAIN roster
    BY <1>3, <1>4 DEF FilledAs
  <2>. QED
    BY <1>5, <2>1
<1>7. Shown = [i \in DOMAIN m |-> m[i]]
  <2>1. \A i \in DOMAIN m : roster[i].shows[2] = m[i]
    BY <1>5, <1>6
  <2>. QED
    BY <1>6, <2>1 DEF Shown
<1>. QED
  BY <1>1, <1>3, <1>7 DEF IsTable

(* A boat scored by the committee stays scored, whatever is linked later,  *)
(* and only an import changes what it shows.                               *)
THEOREM ResultsAreKept == Spec => ResultsStay
<1>1. IInv /\ [Next]_vars => [StaysAs]_vars
  BY NextKeeps, StutterKeeps
<1>2. [][StaysAs]_vars <=> ResultsStay
  BY PTL DEF StaysAs, ResultsStay
<1>. QED
  BY <1>1, <1>2, Invariant, PTL DEF Spec

(* Importing a table again changes nothing.                                *)
THEOREM ImportsAreSteady == Spec => []Steady
<1>1. IInv => Steady
  <2> SUFFICES ASSUME IInv, last.clean, OneSailEach(last.table) PROVE MatchRoster(roster, last.table) = Shown
    BY DEF Steady, OneSailEach
  <2>1. IsLast(last) /\ \E B : LeftBy(roster, last, B)
    BY DEF IInv, CleanOK
  <2>2. PICK B : LeftBy(roster, last, B)
    BY <2>1
  <2>3. Shown = MatchRoster(B, last.table)
    BY <2>1, <2>2, ShownIs
  <2>4. PICK rows, n, m : rows = last.table /\ n = last.n /\ m = MatchRoster(B, rows)
    OBVIOUS
  <2>5. Roster(B) /\ rows \in Seq(Rows) /\ n \in Int /\ OneSailEach(rows) /\ roster = Filled(B, m, rows, n)
    BY <2>1, <2>2, <2>4, TableRows DEF LeftBy, IsLast
  <2>6. MatchRoster(roster, rows) = m
    BY <2>4, <2>5, Again
  <2>. QED
    BY <2>3, <2>4, <2>6
<1>. QED
  BY <1>1, Invariant, PTL

(* A row and a boat alone in having a sail number get each other.          *)
THEOREM SailGoesFirst == Spec => []SailDecides
<1>1. IInv => SailDecides
  <2> SUFFICES ASSUME IInv, last.clean, NEW k \in DOMAIN last.table, NEW i \in DOMAIN roster,
                      {j \in DOMAIN roster : SameSail(last.table[k], roster[j])} = {i},
                      {j \in DOMAIN last.table : Points(last.table[j], roster[i])} = {k}
               PROVE  i \in DOMAIN Shown /\ Shown[i] = k
    BY DEF SailDecides
  <2>1. IsLast(last) /\ \E B : LeftBy(roster, last, B)
    BY DEF IInv, CleanOK
  <2>2. PICK B : LeftBy(roster, last, B)
    BY <2>1
  <2>3. PICK rows, n, m, F : rows = last.table /\ n = last.n /\ m = MatchRoster(B, rows) /\ F = roster
    OBVIOUS
  <2>4. Shown = m
    BY <2>1, <2>2, <2>3, ShownIs
  <2>5. Roster(B) /\ rows \in Seq(Rows) /\ n \in Int /\ F = Filled(B, m, rows, n)
    BY <2>1, <2>2, <2>3, TableRows DEF LeftBy, IsLast
  <2>6. \A j \in DOMAIN m : m[j] \in 1..Len(rows)
    BY <2>3, <2>5, MatchOK DEF Roster
  <2>7. FilledAs(F, B, m, rows, n)
    BY <2>5, <2>6, FilledIs
  <2>8. k \in DOMAIN rows /\ i \in DOMAIN B /\ DOMAIN rows = 1..Len(rows) /\ Len(rows) \in Nat
    BY <2>3, <2>5, <2>7 DEF FilledAs
  <2>9. rows[k].sail \in Sails /\ F[i].sail = rows[k].sail
    BY <2>3, <2>8 DEF SameSail
  <2>10. \A j \in DOMAIN rows : Points(rows[j], F[i]) => j = k
    BY <2>3
  <2>11. CASE i \in DOMAIN m /\ B[i].sail = None
    <3>1. F[i].sail = rows[m[i]].sail
      BY <2>7, <2>8, <2>11 DEF FilledAs
    <3>2. m[i] \in DOMAIN rows /\ Points(rows[m[i]], F[i])
      BY <2>6, <2>8, <2>9, <2>11, <3>1 DEF Points, SameSail
    <3>3. m[i] = k
      BY <2>10, <3>2
    <3>. QED
      BY <2>4, <2>11, <3>3
  <2>12. CASE i \notin DOMAIN m \/ B[i].sail # None
    <3>1. F[i].sail = B[i].sail /\ F[i].name = B[i].name
      BY <2>7, <2>8, <2>12 DEF FilledAs
    <3>2. {j \in DOMAIN B : SameSail(rows[k], B[j])} = {i}
      <4>1. SameSail(rows[k], B[i])
        BY <2>9, <3>1 DEF SameSail
      <4>2. ASSUME NEW j \in DOMAIN B, SameSail(rows[k], B[j]) PROVE j = i
        <5>1. B[j].sail \in Sails /\ B[j].sail = rows[k].sail
          BY <2>9, <4>2 DEF SameSail
        <5>2. B[j].sail # None
          BY <5>1, Constants
        <5>3. F[j].sail = rows[k].sail /\ j \in DOMAIN F
          BY <2>7, <5>1, <5>2 DEF FilledAs
        <5>. QED
          BY <2>3, <2>9, <5>3 DEF SameSail
      <4>. QED
        BY <2>8, <4>1, <4>2
    <3>3. {j \in DOMAIN rows : Points(rows[j], B[i])} = {k}
      <4>1. \A j \in DOMAIN rows : Points(rows[j], B[i]) <=> Points(rows[j], F[i])
        BY <3>1 DEF Points, SameSail, Alike, NameMatches
      <4>2. {j \in DOMAIN rows : Points(rows[j], F[i])} = {k}
        BY <2>3
      <4>. QED
        BY <4>1, <4>2
    <3>4. IsFiniteSet(DOMAIN B) /\ Alone(B, rows, i, k)
      BY <2>5, <3>2, <3>3 DEF Roster, Alone
    <3>. QED
      BY <2>3, <2>4, <2>8, <3>4, SailFirst
  <2>. QED
    BY <2>11, <2>12
<1>. QED
  BY <1>1, Invariant, PTL

(* Once the tracker is linked each of its teams has the boat of its name,  *)
(* and but for an id used for two names its fixes go to no other: whatever *)
(* lists it gives, teams renamed, left out or of one name.                 *)
THEOREM EachTeamItsBoat == Spec => []TeamsLinked
<1>1. IInv => TypeOK
  <2> SUFFICES ASSUME IInv PROVE TypeOK
    OBVIOUS
  <2>1. ASSUME NEW i \in DOMAIN roster
        PROVE  /\ roster[i].name \in Names /\ roster[i].sail \in SailNos
               /\ roster[i].yb \in YbIds \cup {None}
               /\ roster[i].shows = None \/ roster[i].shows[1] \in 1..last.n
               /\ Cardinality(Named(roster[i].name)) = 1
    <3>1. roster[i] \in Boats /\ (roster[i].shows = None \/ roster[i].shows[1] \in 1..last.n)
      BY DEF IInv, BoatsOK, Roster
    <3>2. Named(roster[i].name) = {i}
      BY DEF IInv, BoatsOK, Named
    <3>. QED
      BY <3>1, <3>2, FS_Singleton DEF Boats
  <2>. QED
    BY <2>1 DEF TypeOK, IInv, Columns, IsLast
<1>2. ASSUME IInv, NEW k \in DOMAIN slug, LastOf(slug[k].name, slug) = k,
             NEW boats, boats = {i \in DOMAIN roster : roster[i].yb = slug[k].yb}
      PROVE  /\ \E i \in boats : roster[i].name = slug[k].name
             /\ Cardinality(boats) = 1 \/ Renamed(slug[k].yb)
  <2>1. PICK i \in DOMAIN roster : roster[i].name = slug[k].name /\ roster[i].yb = slug[k].yb
    BY <1>2 DEF IInv, TeamsIn, AllIn
  <2>2. i \in boats
    BY <1>2, <2>1
  <2>3. CASE boats = {i}
    BY <2>2, <2>1, <2>3, FS_Singleton
  <2>4. CASE boats # {i}
    <3>1. PICK j \in boats : j # i
      BY <2>2, <2>4
    <3>2. j \in DOMAIN roster /\ roster[j].yb = slug[k].yb /\ roster[j].name # roster[i].name
      BY <1>2, <2>1, <3>1 DEF IInv, BoatsOK
    <3>3. slug \in TeamLists
      BY <1>2 DEF IInv, Columns
    <3>4. slug[k].yb # None
      BY <3>3, TeamsAre
    <3>5. PICK t, u : /\ t = [name |-> roster[i].name, yb |-> roster[i].yb]
                      /\ u = [name |-> roster[j].name, yb |-> roster[j].yb]
      OBVIOUS
    <3>6. t \in given /\ u \in given
      BY <1>2, <2>1, <3>2, <3>4, <3>5 DEF IInv, TeamsIn, GivenIn
    <3>7. t.yb = slug[k].yb /\ u.yb = slug[k].yb /\ t.name # u.name
      BY <2>1, <3>2, <3>5
    <3>. QED
      BY <2>1, <2>2, <3>6, <3>7 DEF Renamed
  <2>. QED
    BY <2>3, <2>4
<1>3. IInv => TeamsLinked
  BY <1>1, <1>2 DEF TeamsLinked, IInv, TeamsIn, GivenIn
<1>. QED
  BY <1>3, Invariant, PTL
=============================================================================
