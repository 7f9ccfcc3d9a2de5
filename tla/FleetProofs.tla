----------------------------- MODULE FleetProofs -----------------------------
(***************************************************************************)
(* Proofs about where boats are seen: the page and the copy of the state   *)
(* it is told from, the AIS feed, and the rows of the real boats.  For any *)
(* boats, polls and restarts; any roster, vessels, names they fit,         *)
(* sessions and scripts; any course, fixes, batches, results and wipes.    *)
(***************************************************************************)
EXTENDS LiveFleet, AisFeed, RealFleet, FiniteSetTheorems, WellFoundedInduction, TLAPS

Before == {p \in Nat \X Nat : p[1] < p[2]}

LEMMA BeforeWellFounded == IsWellFoundedOn(Before, Nat)
BY NatLessThanWellFounded DEF OpToRel, Before

(***************************************************************************)
(* A set of numbers has a least one.                                       *)
(***************************************************************************)
LEMMA LeastOf ==
  ASSUME NEW S \in SUBSET Nat, S # {}
  PROVE  \E x \in S : \A y \in S : x <= y
<1>1. PICK x \in S : \A y \in S : ~(<<y, x>> \in Before)
  BY BeforeWellFounded, WFMin, Zenon
<1>2. ASSUME NEW y \in S PROVE x <= y
  <2>1. <<y, x>> \notin Before
    BY <1>1
  <2>. QED
    BY <2>1 DEF Before
<1>. QED
  BY <1>2
-----------------------------------------------------------------------------
(***************************************************************************)
(* What Filtered keeps.  The loop's invariant is proved by the least index *)
(* at which it fails.                                                      *)
(***************************************************************************)
FilterTo(f, s, keep, n) ==
  f = [i \in 0..n |-> IF i = 0 THEN <<>> ELSE IF i \in keep THEN Append(f[i - 1], s[i]) ELSE f[i - 1]]

LEMMA FilterRuns ==
  ASSUME NEW s, NEW keep, NEW n \in Nat
  PROVE  \E f : FilterTo(f, s, keep, n)
<1> DEFINE stuck == {k \in Nat : ~\E f : FilterTo(f, s, keep, k)}
<1> SUFFICES ASSUME stuck # {} PROVE FALSE
  OBVIOUS
<1>1. PICK k \in stuck : \A j \in stuck : k <= j
  <2>1. stuck \in SUBSET Nat
    OBVIOUS
  <2> HIDE DEF stuck
  <2>. QED
    BY <2>1, LeastOf
<1>2. k \in Nat /\ ~\E f : FilterTo(f, s, keep, k)
  BY <1>1
<1>3. CASE k = 0
  <2>1. PICK f : f = [j \in 0..0 |-> <<>>]
    OBVIOUS
  <2>2. FilterTo(f, s, keep, 0)
    BY <2>1 DEF FilterTo
  <2>. QED
    BY <1>2, <1>3, <2>2
<1>4. CASE k # 0
  <2>1. k - 1 \in Nat /\ k - 1 \notin stuck
    <3>1. k - 1 \in Nat /\ ~(k <= k - 1)
      BY <1>2, <1>4
    <3> HIDE DEF stuck
    <3>. QED
      BY <1>1, <3>1
  <2>2. PICK w : FilterTo(w, s, keep, k - 1)
    BY <2>1
  <2>3. PICK tail : tail = IF k \in keep THEN Append(w[k - 1], s[k]) ELSE w[k - 1]
    OBVIOUS
  <2>4. PICK f : f = [j \in 0..k |-> IF j # k THEN w[j] ELSE tail]
    OBVIOUS
  <2>5. ASSUME NEW j \in 0..k
        PROVE  f[j] = IF j = 0 THEN <<>> ELSE IF j \in keep THEN Append(f[j - 1], s[j]) ELSE f[j - 1]
    <3>1. CASE j = k
      <4>1. f[j - 1] = w[k - 1]
        BY <1>2, <1>4, <2>4, <3>1
      <4>2. f[j] = tail
        BY <1>2, <2>4, <3>1
      <4>. QED
        BY <1>4, <2>3, <3>1, <4>1, <4>2
    <3>2. CASE j # k
      <4>1. j \in 0..(k - 1)
        BY <1>2, <3>2
      <4>2. w[j] = IF j = 0 THEN <<>> ELSE IF j \in keep THEN Append(w[j - 1], s[j]) ELSE w[j - 1]
        BY <2>2, <4>1 DEF FilterTo
      <4>3. f[j] = w[j] /\ (j # 0 => f[j - 1] = w[j - 1])
        BY <1>2, <2>4, <3>2, <4>1
      <4>. QED
        BY <4>2, <4>3
    <3>. QED
      BY <3>1, <3>2
  <2>6. FilterTo(f, s, keep, k)
    <3>1. f = [j \in 0..k |-> f[j]]
      BY <2>4
    <3>. QED
      BY <2>5, <3>1 DEF FilterTo
  <2>. QED
    BY <1>2, <2>6
<1>. QED
  BY <1>3, <1>4

\* r is the part of s at the indices keep, at tells from where.
PartOf(r, s, keep, at) ==
  /\ at \in [1..Len(r) -> keep]
  /\ \A i \in 1..Len(r) : r[i] = s[at[i]]
  /\ \A i, j \in 1..Len(r) : i < j => at[i] < at[j]

Until(keep, i) == {k \in keep : k <= i}

LEMMA UntilEnds ==
  ASSUME NEW n \in Nat, NEW keep, \A k \in keep : k \in 1..n
  PROVE  Until(keep, 0) = {} /\ Until(keep, n) = keep
BY DEF Until

LEMMA UntilBelow ==
  ASSUME NEW n \in Nat, NEW keep, \A k \in keep : k \in 1..n, NEW i \in 1..n
  PROVE  \A k \in Until(keep, i - 1) : k \in 1..n /\ k < i
BY DEF Until

LEMMA UntilSkips ==
  ASSUME NEW n \in Nat, NEW keep, \A k \in keep : k \in 1..n, NEW i \in 1..n, i \notin keep
  PROVE  Until(keep, i) = Until(keep, i - 1)
BY DEF Until

LEMMA UntilTakes ==
  ASSUME NEW n \in Nat, NEW keep, \A k \in keep : k \in 1..n, NEW i \in 1..n, i \in keep
  PROVE  Until(keep, i) = Until(keep, i - 1) \cup {i} /\ i \notin Until(keep, i - 1)
<1>1. \A k \in keep : k <= i <=> k <= i - 1 \/ k = i
  OBVIOUS
<1>2. i <= i /\ ~(i <= i - 1)
  OBVIOUS
<1>. QED
  BY <1>1, <1>2 DEF Until

LEMMA FilteredIs ==
  ASSUME NEW S, NEW s \in Seq(S), NEW keep, \A k \in keep : k \in 1..Len(s)
  PROVE  /\ Filtered(s, keep) \in Seq(S) /\ Len(Filtered(s, keep)) = Cardinality(keep)
         /\ \E at : PartOf(Filtered(s, keep), s, keep, at)
<1>1. PICK n \in Nat : n = Len(s)
  OBVIOUS
<1>2. PICK f : FilterTo(f, s, keep, n) /\ Filtered(s, keep) = f[n]
  <2>1. \E f : FilterTo(f, s, keep, Len(s))
    BY <1>1, FilterRuns
  <2>. QED
    BY <1>1, <2>1 DEF Filtered, FilterTo
<1> DEFINE Upto(i) == Until(keep, i)
<1>0. \A k \in keep : k \in 1..n
  BY <1>1
<1>a. Upto(0) = {} /\ Upto(n) = keep
  BY <1>0, UntilEnds
<1>b. ASSUME NEW i \in 1..n, i \notin keep PROVE Upto(i) = Upto(i - 1)
  BY <1>0, <1>b, UntilSkips
<1>c. ASSUME NEW i \in 1..n, i \in keep PROVE Upto(i) = Upto(i - 1) \cup {i} /\ i \notin Upto(i - 1)
  BY <1>0, <1>c, UntilTakes
<1>d. ASSUME NEW i \in 1..n PROVE \A k \in Upto(i - 1) : k \in 1..n /\ k < i
  BY <1>0, UntilBelow
<1>e. ASSUME NEW i \in 1..n PROVE f[i] = IF i \in keep THEN Append(f[i - 1], s[i]) ELSE f[i - 1]
  <2>1. i \in 0..n /\ i # 0
    OBVIOUS
  <2>. QED
    BY <1>2, <2>1 DEF FilterTo
<1> HIDE DEF Upto
<1> DEFINE Well(i) == /\ f[i] \in Seq(S) /\ Len(f[i]) = Cardinality(Upto(i))
                      /\ \E at : PartOf(f[i], s, Upto(i), at)
           ill == {i \in 0..n : ~Well(i)}
<1>3. Well(0)
  <2>1. f[0] = <<>>
    BY <1>2 DEF FilterTo
  <2>2. Upto(0) = {}
    BY <1>a
  <2>3. Cardinality({}) = 0
    BY FS_EmptySet
  <2>4. PICK at : at = [i \in 1..0 |-> 0]
    OBVIOUS
  <2>5. PartOf(<<>>, s, {}, at)
    <3>1. Len(<<>>) = 0 /\ \A i : i \notin 1..0
      OBVIOUS
    <3>2. at \in [1..0 -> {}]
      BY <2>4, <3>1
    <3>. QED
      BY <3>1, <3>2, Zenon DEF PartOf
  <2>6. <<>> \in Seq(S) /\ Len(<<>>) = 0
    OBVIOUS
  <2>. QED
    BY <2>1, <2>2, <2>3, <2>5, <2>6
<1>4. ASSUME NEW i \in 1..n, Well(i - 1) PROVE Well(i)
  <2>1. f[i] = IF i \in keep THEN Append(f[i - 1], s[i]) ELSE f[i - 1]
    BY <1>e
  <2>2. PICK at : PartOf(f[i - 1], s, Upto(i - 1), at)
    BY <1>4
  <2>3. f[i - 1] \in Seq(S) /\ Len(f[i - 1]) = Cardinality(Upto(i - 1))
    BY <1>4
  <2>4. CASE i \notin keep
    <3>1. Upto(i) = Upto(i - 1)
      BY <1>b, <2>4
    <3>. QED
      BY <2>1, <2>2, <2>3, <2>4, <3>1
  <2>5. CASE i \in keep
    <3>1. Upto(i) = Upto(i - 1) \cup {i} /\ i \notin Upto(i - 1)
      BY <1>c, <2>5
    <3>2. IsFiniteSet(Upto(i - 1))
      <4>1. IsFiniteSet(1..n)
        BY <1>1, FS_Interval
      <4>2. Upto(i - 1) \subseteq 1..n
        BY <1>d
      <4>. QED
        BY <4>1, <4>2, FS_Subset
    <3>3. Cardinality(Upto(i)) = Cardinality(Upto(i - 1)) + 1
      BY <3>1, <3>2, FS_AddElement
    <3>4. PICK r : r = f[i - 1]
      OBVIOUS
    <3>5. f[i] = Append(r, s[i]) /\ s[i] \in S /\ r \in Seq(S)
      BY <1>1, <2>1, <2>3, <2>5, <3>4
    <3>6. f[i] \in Seq(S) /\ Len(f[i]) = Len(r) + 1 /\ Len(r) \in Nat
          /\ f[i][Len(r) + 1] = s[i] /\ \A j \in 1..Len(r) : f[i][j] = r[j]
      BY <3>5
    <3>7. PICK k : k = Len(r) + 1
      OBVIOUS
    <3>8. PICK at2 : at2 = [j \in 1..k |-> IF j = k THEN i ELSE at[j]]
      OBVIOUS
    <3>9. at \in [1..Len(r) -> Upto(i - 1)] /\ (\A j \in 1..Len(r) : r[j] = s[at[j]])
          /\ \A j, l \in 1..Len(r) : j < l => at[j] < at[l]
      BY <2>2, <3>4 DEF PartOf
    <3>10. \A j \in 1..k : j # k => j \in 1..Len(r) /\ at2[j] = at[j] /\ at[j] \in Upto(i - 1)
      BY <3>6, <3>7, <3>8, <3>9
    <3>11. at2[k] = i /\ k \in 1..k
      BY <3>6, <3>7, <3>8
    <3>12. at2 \in [1..k -> Upto(i)]
      <4>1. \A j \in 1..k : at2[j] \in Upto(i)
        BY <3>1, <3>10, <3>11
      <4>. QED
        BY <3>8, <4>1
    <3>13. \A j \in 1..k : f[i][j] = s[at2[j]]
      BY <3>6, <3>7, <3>9, <3>10, <3>11
    <3>14. \A j, l \in 1..k : j < l => at2[j] < at2[l]
      <4> TAKE j, l \in 1..k
      <4> HAVE j < l
      <4>1. j # k /\ at2[j] = at[j] /\ at[j] < i
        <5>1. j # k
          BY <3>6, <3>7
        <5>2. at2[j] = at[j] /\ at[j] \in Upto(i - 1)
          BY <3>10, <5>1
        <5>. QED
          BY <1>d, <5>1, <5>2
      <4>2. CASE l = k
        BY <3>11, <4>1, <4>2
      <4>3. CASE l # k
        BY <3>9, <3>10, <4>1, <4>3
      <4>. QED
        BY <4>2, <4>3
    <3>15. PartOf(f[i], s, Upto(i), at2)
      <4>. QED
        BY <3>6, <3>7, <3>12, <3>13, <3>14 DEF PartOf
    <3>16. Len(f[i]) = Cardinality(Upto(i))
      BY <2>3, <3>3, <3>4, <3>6
    <3>. QED
      BY <3>6, <3>15, <3>16
  <2>. QED
    BY <2>4, <2>5
<1>5. Well(n)
  <2> SUFFICES ASSUME ill # {} PROVE FALSE
    <3> HIDE DEF Well
    <3>. QED
      OBVIOUS
  <2>1. PICK i \in ill : \A j \in ill : i <= j
    <3>1. ill \in SUBSET Nat
      OBVIOUS
    <3> HIDE DEF ill
    <3>. QED
      BY <3>1, LeastOf
  <2>2. i \in 0..n /\ ~Well(i)
    BY <2>1
  <2>3. i # 0
    <3> HIDE DEF Well
    <3>. QED
      BY <1>3, <2>2
  <2>4. i \in 1..n /\ i - 1 \in 0..n /\ ~(i <= i - 1)
    BY <2>2, <2>3
  <2>5. Well(i - 1)
    <3>1. i - 1 \notin ill
      <4> HIDE DEF ill
      <4>. QED
        BY <2>1, <2>4
    <3>. QED
      BY <2>4, <3>1
  <2> HIDE DEF Well
  <2>. QED
    BY <1>4, <2>2, <2>4, <2>5
<1>. QED
  BY <1>2, <1>5, <1>a

-----------------------------------------------------------------------------
(***************************************************************************)
(* What one read of a boat's track brings: fixes of one voyage, in order.  *)
(***************************************************************************)
ReadOf(s) ==
  s \in Seq(Fixes) /\ \A i, j \in DOMAIN s : s[i][1] = s[j][1] /\ (i < j => s[i][2] < s[j][2])

\* Those of the present voyage are on the track.
FromTrack(b, s) ==
  ReadOf(s) /\ \A i \in DOMAIN s : s[i][1] <= voyage[b] /\ (s[i][1] = voyage[b] => s[i][2] \in track[b])

LEMMA FixesAre ==
  ASSUME NEW b, voyage[b] \in 1..MaxVoyages, track[b] \in SUBSET Times, NEW since
  PROVE  /\ FromTrack(b, FixesOf(b, since))
         /\ \A i \in DOMAIN FixesOf(b, since) : FixesOf(b, since)[i][1] = voyage[b]
         /\ since = None => Len(FixesOf(b, since)) = Cardinality(track[b])
<1> USE LiveFleetAssumption DEF LiveFleetGiven
<1>1. PICK v : v = voyage[b]
  OBVIOUS
<1>2. PICK s : s = [t \in Times |-> <<v, t>>]
  OBVIOUS
<1>3. s \in Seq(Fixes) /\ Len(s) = MaxT /\ \A t \in Times : s[t][1] = v /\ s[t][2] = t
  BY <1>1, <1>2 DEF Fixes, Times
<1>4. PICK keep : keep = {t \in track[b] : since = None \/ t > since}
  OBVIOUS
<1>5. (\A t \in keep : t \in Times /\ t \in track[b]) /\ (since = None => keep = track[b])
  BY <1>4
<1>6. PICK r : r = Filtered(s, keep)
  OBVIOUS
<1>7. \A t \in keep : t \in 1..Len(s)
  BY <1>3, <1>5 DEF Times
<1>8. r \in Seq(Fixes) /\ Len(r) = Cardinality(keep) /\ \E at : PartOf(r, s, keep, at)
  BY <1>3, <1>6, <1>7, FilteredIs
<1>9. PICK at : PartOf(r, s, keep, at)
  BY <1>8
<1>10. \A i \in 1..Len(r) : at[i] \in keep /\ r[i] = s[at[i]]
  BY <1>9 DEF PartOf
<1>11. \A i \in 1..Len(r) : at[i] \in track[b] /\ r[i][1] = v /\ r[i][2] = at[i]
  BY <1>3, <1>5, <1>10
<1>12. \A i, j \in 1..Len(r) : i < j => at[i] < at[j]
  BY <1>9 DEF PartOf
<1>13. DOMAIN r = 1..Len(r)
  BY <1>8
<1>14. ReadOf(r)
  BY <1>8, <1>11, <1>12, <1>13 DEF ReadOf
<1>15. FromTrack(b, r)
  BY <1>1, <1>11, <1>13, <1>14 DEF FromTrack
<1>16. FixesOf(b, since) = r
  BY <1>1, <1>2, <1>4, <1>6 DEF FixesOf
<1>17. \A i \in DOMAIN r : r[i][1] = voyage[b]
  BY <1>1, <1>11, <1>13
<1>. QED
  BY <1>5, <1>8, <1>15, <1>16, <1>17

\* What is new is read in the same order, and is after what the page has.
LEMMA NewerAre ==
  ASSUME NEW e, ReadOf(e.fixes), NEW k
  PROVE  /\ ReadOf(Newer(e, k))
         /\ \A i \in DOMAIN Newer(e, k) :
              /\ \E j \in DOMAIN e.fixes : Newer(e, k)[i] = e.fixes[j]
              /\ k.last # None => Newer(e, k)[i][2] > k.last
<1>1. PICK s : s = e.fixes
  OBVIOUS
<1>2. s \in Seq(Fixes) /\ DOMAIN s = 1..Len(s) /\ ReadOf(s)
  BY <1>1 DEF ReadOf
<1>3. PICK keep : keep = {i \in DOMAIN s : k.last = None \/ s[i][2] > k.last}
  OBVIOUS
<1>4. \A i \in keep : i \in 1..Len(s) /\ i \in DOMAIN s /\ (k.last # None => s[i][2] > k.last)
  BY <1>2, <1>3
<1>5. PICK r : r = Filtered(s, keep)
  OBVIOUS
<1>6. r \in Seq(Fixes) /\ \E at : PartOf(r, s, keep, at)
  BY <1>2, <1>4, <1>5, FilteredIs
<1>7. PICK at : PartOf(r, s, keep, at)
  BY <1>6
<1>8. \A i \in 1..Len(r) : at[i] \in keep /\ r[i] = s[at[i]]
  BY <1>7 DEF PartOf
<1>9. \A i, j \in 1..Len(r) : i < j => at[i] < at[j]
  BY <1>7 DEF PartOf
<1>10. DOMAIN r = 1..Len(r)
  BY <1>6
<1>11. ReadOf(r)
  <2>1. \A i, j \in DOMAIN s : s[i][1] = s[j][1] /\ (i < j => s[i][2] < s[j][2])
    BY <1>2 DEF ReadOf
  <2>2. ASSUME NEW i \in DOMAIN r, NEW j \in DOMAIN r PROVE r[i][1] = r[j][1] /\ (i < j => r[i][2] < r[j][2])
    <3>1. at[i] \in DOMAIN s /\ at[j] \in DOMAIN s /\ r[i] = s[at[i]] /\ r[j] = s[at[j]] /\ (i < j => at[i] < at[j])
      BY <1>4, <1>8, <1>9, <1>10
    <3>. QED
      BY <2>1, <3>1
  <2>. QED
    BY <1>6, <2>2 DEF ReadOf
<1>12. ASSUME NEW i \in DOMAIN r
       PROVE  (\E j \in DOMAIN s : r[i] = s[j]) /\ (k.last # None => r[i][2] > k.last)
  <2>1. at[i] \in keep /\ r[i] = s[at[i]]
    BY <1>8, <1>10
  <2>. QED
    BY <1>4, <2>1
<1>13. Newer(e, k) = r
  BY <1>1, <1>3, <1>5 DEF Newer
<1>. QED
  BY <1>1, <1>11, <1>12, <1>13

\* A track has a last fix unless it is empty, and no more fixes than times.
LEMMA LastIs ==
  ASSUME NEW b, track[b] \in SUBSET Times
  PROVE  /\ LastT(b) \in Times \cup {None} /\ Cardinality(track[b]) \in 0..MaxT
         /\ \A t \in track[b] : LastT(b) # None /\ t <= LastT(b)
<1> USE LiveFleetAssumption DEF LiveFleetGiven
<1>1. PICK ts : ts = track[b]
  OBVIOUS
<1>2. \A t \in ts : t \in 1..MaxT
  BY <1>1 DEF Times
<1>3. Cardinality(ts) \in 0..MaxT
  <2>1. PICK all : all = 1..MaxT
    OBVIOUS
  <2>2. IsFiniteSet(all) /\ Cardinality(all) = MaxT /\ ts \in SUBSET all
    BY <1>2, <2>1, FS_Interval
  <2>3. Cardinality(ts) <= MaxT /\ IsFiniteSet(ts)
    BY <2>2, FS_Subset
  <2>4. Cardinality(ts) \in Nat
    BY <2>3, FS_CardinalityType
  <2>. QED
    BY <2>3, <2>4
<1>4. CASE ts = {}
  BY <1>1, <1>3, <1>4 DEF LastT
<1>5. CASE ts # {}
  <2> DEFINE back == {MaxT - t : t \in ts}
  <2>1. back \in SUBSET Nat /\ back # {}
    <3>1. \A x \in back : x \in Nat
      BY <1>2
    <3>. QED
      BY <1>5, <3>1
  <2>2. PICK x \in back : \A y \in back : x <= y
    <3> HIDE DEF back
    <3>. QED
      BY <2>1, LeastOf
  <2>3. PICK t \in ts : x = MaxT - t
    BY <2>2
  <2>4. ASSUME NEW u \in ts PROVE u <= t
    <3>1. MaxT - t <= MaxT - u
      BY <2>2, <2>3
    <3>2. u \in Int /\ t \in Int
      BY <1>2
    <3>. QED
      BY <3>1, <3>2
  <2>5. PICK l : l = CHOOSE t2 \in ts : \A u \in ts : u <= t2
    OBVIOUS
  <2>6. l \in ts /\ \A u \in ts : u <= l
    <3> HIDE DEF back
    <3>. QED
      BY <2>4, <2>5
  <2>7. LastT(b) = l
    BY <1>1, <1>5, <2>5 DEF LastT
  <2>8. l \in Times /\ l # None
    BY <1>2, <2>6 DEF Times
  <2> HIDE DEF back
  <2>. QED
    BY <1>1, <1>3, <2>6, <2>7, <2>8
<1>. QED
  BY <1>4, <1>5

-----------------------------------------------------------------------------
(***************************************************************************)
(* The shape of the state.  Tables have boats for keys.                    *)
(***************************************************************************)
TablesOf(T) == UNION {[S -> T] : S \in SUBSET Boats}

LEMMA ATable ==
  ASSUME NEW T, NEW S \in SUBSET Boats, NEW f \in [S -> T]
  PROVE  f \in TablesOf(T) /\ DOMAIN f = S
BY DEF TablesOf

LEMMA TableIs ==
  ASSUME NEW T, NEW f \in TablesOf(T)
  PROVE  f \in [DOMAIN f -> T] /\ DOMAIN f \in SUBSET Boats
BY DEF TablesOf

Copy == [kept : BOOLEAN, age : 0..CacheSeconds, entries : TablesOf(EntryOf), crossed : BOOLEAN]

Poll == [pc : {"idle", "sent", "meta", "store", "answered"}, since : Times \cup {None},
         tracks : TablesOf(Seq(Fixes)), entries : TablesOf(EntryOf), crossed : BOOLEAN]

Page == [tracks : TablesOf(TrackOf), count : 0..(FullEvery - 1), wantFull : BOOLEAN]

Shape ==
  /\ voyage \in [DOMAIN voyage -> 0..MaxVoyages] /\ DOMAIN voyage \in SUBSET Boats
  /\ track \in [DOMAIN voyage -> SUBSET Times]
  /\ pending \subseteq {"ticker", "request"}
  /\ left \in [restarts : Nat, lost : Nat]
  /\ cache \in Copy /\ polls \in [DOMAIN polls -> Poll] /\ page \in Page

(***************************************************************************)
(* What the copy, an answer and the page hold of a boat: fixes of no later *)
(* voyage than the present one, and of that one no later than the last     *)
(* they tell.                                                              *)
(***************************************************************************)
Told(b, fixes, til) ==
  \A i \in DOMAIN fixes : /\ fixes[i][1] <= voyage[b]
                          /\ fixes[i][1] = voyage[b] => til # None /\ fixes[i][2] <= til

EntriesGood(es) ==
  DOMAIN es \subseteq DOMAIN voyage /\ \A b \in DOMAIN es : ReadOf(es[b].fixes) /\ Told(b, es[b].fixes, es[b].last)

TracksGood(trs) ==
  DOMAIN trs \subseteq DOMAIN voyage /\ \A b \in DOMAIN trs : FromTrack(b, trs[b])

Sound ==
  /\ Shape /\ EntriesGood(cache.entries)
  /\ \A q \in DOMAIN polls : TracksGood(polls[q].tracks) /\ EntriesGood(polls[q].entries)
  /\ DOMAIN page.tracks \subseteq DOMAIN voyage

LEMMA NoTable ==
  ASSUME NEW T
  PROVE  <<>> \in TablesOf(T) /\ DOMAIN <<>> = {}
<1>1. <<>> \in [{} -> T] /\ {} \in SUBSET Boats
  OBVIOUS
<1>. QED
  BY <1>1, ATable

LEMMA QuietIs == Quiet \in Poll /\ DOMAIN Quiet.tracks = {} /\ DOMAIN Quiet.entries = {} /\ Quiet.since = None
                 /\ Quiet.pc = "idle"
<1>1. <<>> \in TablesOf(Seq(Fixes)) /\ <<>> \in TablesOf(EntryOf) /\ DOMAIN <<>> = {}
  BY NoTable
<1>. QED
  BY <1>1 DEF Quiet, Poll

LEMMA NoCopyIs == NoCopy \in Copy /\ DOMAIN NoCopy.entries = {} /\ ~NoCopy.kept
<1>1. <<>> \in TablesOf(EntryOf) /\ DOMAIN <<>> = {}
  BY NoTable
<1>2. 0 \in 0..CacheSeconds
  BY LiveFleetAssumption DEF LiveFleetGiven
<1>. QED
  BY <1>1, <1>2 DEF NoCopy, Copy

LEMMA InitSound == Init => Sound
<1> SUFFICES ASSUME Init PROVE Sound
  OBVIOUS
<1> USE LiveFleetAssumption DEF LiveFleetGiven
<1>1. PICK setup \in Setups :
         /\ voyage = [b \in setup.boats |-> IF b \in Real THEN 1 ELSE 0]
         /\ track = [b \in setup.boats |-> {}]
         /\ polls = [q \in setup.polls |-> Quiet]
         /\ left = [restarts |-> setup.restarts, lost |-> setup.lost]
  BY DEF Init
<1>2. pending = {} /\ cache = NoCopy /\ page = [tracks |-> <<>>, count |-> 0, wantFull |-> TRUE]
  BY DEF Init
<1>3. setup \in [boats : SUBSET Boats, polls : SUBSET Polls, restarts : Nat, lost : Nat]
  OBVIOUS
<1>4. voyage \in [setup.boats -> 0..MaxVoyages] /\ track \in [setup.boats -> SUBSET Times]
      /\ DOMAIN voyage = setup.boats /\ setup.boats \in SUBSET Boats
  BY <1>1, <1>3
<1>5. polls \in [DOMAIN polls -> Poll] /\ \A q \in DOMAIN polls : polls[q] = Quiet
  BY <1>1, QuietIs
<1>6. page \in Page /\ DOMAIN page.tracks = {}
  <2>1. <<>> \in TablesOf(TrackOf) /\ DOMAIN <<>> = {}
    BY NoTable
  <2>2. 0 \in 0..(FullEvery - 1)
    OBVIOUS
  <2>. QED
    BY <1>2, <2>1, <2>2 DEF Page
<1>7. left \in [restarts : Nat, lost : Nat]
  BY <1>1, <1>3
<1>8. Shape
  BY <1>2, <1>4, <1>5, <1>6, <1>7, NoCopyIs DEF Shape
<1>. QED
  BY <1>2, <1>5, <1>6, <1>8, QuietIs, NoCopyIs DEF Sound, EntriesGood, TracksGood

-----------------------------------------------------------------------------
(***************************************************************************)
(* The writers only add fixes to a voyage, or begin the next.              *)
(***************************************************************************)
Later ==
  /\ voyage' \in [DOMAIN voyage -> 0..MaxVoyages] /\ track' \in [DOMAIN voyage -> SUBSET Times]
  /\ \A b \in DOMAIN voyage : \/ voyage'[b] = voyage[b] /\ track[b] \subseteq track'[b]
                              \/ voyage'[b] > voyage[b]

LEMMA ReadIs ==
  ASSUME NEW s, ReadOf(s)
  PROVE  \A i \in DOMAIN s : s[i][1] \in 1..MaxVoyages /\ s[i][2] \in Times
BY DEF ReadOf, Fixes

LEMMA StaysTold ==
  ASSUME Shape, Later, NEW b \in DOMAIN voyage, NEW fixes, NEW til, Told(b, fixes, til),
         \A i \in DOMAIN fixes : fixes[i][1] \in Nat
  PROVE  Told(b, fixes, til)'
<1> USE LiveFleetAssumption DEF LiveFleetGiven
<1>1. voyage[b] \in 0..MaxVoyages /\ voyage'[b] \in 0..MaxVoyages
  BY DEF Shape, Later
<1>2. voyage'[b] = voyage[b] \/ voyage'[b] > voyage[b]
  BY DEF Later
<1>3. CASE voyage'[b] = voyage[b]
  BY <1>3 DEF Told
<1>4. CASE voyage'[b] > voyage[b]
  <2>1. \A i \in DOMAIN fixes : fixes[i][1] <= voyage'[b] /\ fixes[i][1] # voyage'[b]
    BY <1>1, <1>4 DEF Told
  <2>. QED
    BY <2>1 DEF Told
<1>. QED
  BY <1>2, <1>3, <1>4

LEMMA StaysRead ==
  ASSUME Shape, Later, NEW b \in DOMAIN voyage, NEW s, FromTrack(b, s)
  PROVE  FromTrack(b, s)'
<1> USE LiveFleetAssumption DEF LiveFleetGiven
<1>1. voyage[b] \in 0..MaxVoyages /\ voyage'[b] \in 0..MaxVoyages
  BY DEF Shape, Later
<1>2. ReadOf(s)' /\ ReadOf(s)
  BY DEF FromTrack, ReadOf
<1>3. \A i \in DOMAIN s : s[i][1] \in Nat /\ s[i][1] <= voyage[b] /\ (s[i][1] = voyage[b] => s[i][2] \in track[b])
  BY <1>2, ReadIs DEF FromTrack
<1>4. CASE voyage'[b] = voyage[b] /\ track[b] \subseteq track'[b]
  BY <1>2, <1>3, <1>4 DEF FromTrack
<1>5. CASE voyage'[b] > voyage[b]
  <2>1. \A i \in DOMAIN s : s[i][1] <= voyage'[b] /\ s[i][1] # voyage'[b]
    BY <1>1, <1>3, <1>5
  <2>. QED
    BY <1>2, <2>1 DEF FromTrack
<1>. QED
  BY <1>4, <1>5 DEF Later

LEMMA Grows ==
  ASSUME Sound, Later, UNCHANGED <<cache, polls, page>>, pending' \subseteq {"ticker", "request"},
         left' \in [restarts : Nat, lost : Nat]
  PROVE  Sound'
<1>1. Shape'
  <2>1. DOMAIN voyage' = DOMAIN voyage
    BY DEF Later
  <2>2. track' \in [DOMAIN voyage' -> SUBSET Times] /\ voyage' \in [DOMAIN voyage' -> 0..MaxVoyages]
    BY <2>1 DEF Later
  <2>3. cache' \in Copy /\ polls' \in [DOMAIN polls' -> Poll] /\ page' \in Page
    BY DEF Sound, Shape
  <2>. QED
    BY <2>1, <2>2, <2>3 DEF Sound, Shape
<1>2. DOMAIN voyage' = DOMAIN voyage /\ Shape
  BY DEF Later, Sound
<1>3. ASSUME NEW es, EntriesGood(es) PROVE EntriesGood(es)'
  <2>1. ASSUME NEW b \in DOMAIN es PROVE ReadOf(es[b].fixes)' /\ Told(b, es[b].fixes, es[b].last)'
    <3>1. b \in DOMAIN voyage /\ ReadOf(es[b].fixes) /\ Told(b, es[b].fixes, es[b].last)
      BY <1>3 DEF EntriesGood
    <3>2. \A i \in DOMAIN es[b].fixes : es[b].fixes[i][1] \in Nat
      BY <3>1, ReadIs
    <3>3. Told(b, es[b].fixes, es[b].last)'
      BY <1>2, <3>1, <3>2, StaysTold
    <3>. QED
      BY <3>1, <3>3 DEF ReadOf
  <2>. QED
    BY <1>2, <1>3, <2>1 DEF EntriesGood
<1>4. ASSUME NEW trs, TracksGood(trs) PROVE TracksGood(trs)'
  <2>1. ASSUME NEW b \in DOMAIN trs PROVE FromTrack(b, trs[b])'
    BY <1>2, <1>4, StaysRead DEF TracksGood
  <2>. QED
    BY <1>2, <1>4, <2>1 DEF TracksGood
<1>5. EntriesGood(cache.entries)'
  BY <1>3 DEF Sound
<1>6. ASSUME NEW q \in DOMAIN polls PROVE TracksGood(polls[q].tracks)' /\ EntriesGood(polls[q].entries)'
  BY <1>3, <1>4 DEF Sound
<1>. QED
  BY <1>1, <1>2, <1>5, <1>6 DEF Sound

LEMMA WritersSound ==
  ASSUME Sound, Tick \/ RealFix \/ Enters \/ Restarts
  PROVE  Sound' /\ Later /\ UNCHANGED <<cache, polls, page>>
<1> USE LiveFleetAssumption DEF LiveFleetGiven
<1>0. /\ voyage \in [DOMAIN voyage -> 0..MaxVoyages] /\ track \in [DOMAIN voyage -> SUBSET Times]
      /\ left \in [restarts : Nat, lost : Nat] /\ pending \subseteq {"ticker", "request"}
  BY DEF Sound, Shape
<1>1. CASE Tick
  <2>1. PICK b \in Virtual \cap Entered : \E until \in Times :
           (\A t \in track[b] : t < until) /\ track' = [track EXCEPT ![b] = 1..until]
    BY <1>1 DEF Tick
  <2>2. PICK until \in Times : (\A t \in track[b] : t < until) /\ track' = [track EXCEPT ![b] = 1..until]
    BY <2>1
  <2>3. b \in DOMAIN voyage /\ track[b] \in SUBSET Times
    BY <1>0 DEF Entered
  <2>4. \A t \in track[b] : t \in 1..until
    BY <2>2, <2>3 DEF Times
  <2>5. 1..until \in SUBSET Times
    BY DEF Times
  <2>6. UNCHANGED <<voyage, cache, polls, page, left>> /\ pending' = pending \cup {"ticker"}
    BY <1>1 DEF Tick
  <2>7. Later
    <3>1. track' \in [DOMAIN voyage -> SUBSET Times]
      BY <1>0, <2>2, <2>3, <2>5
    <3>2. \A c \in DOMAIN voyage : track[c] \subseteq track'[c]
      BY <1>0, <2>2, <2>4
    <3>. QED
      BY <1>0, <2>6, <3>1, <3>2 DEF Later
  <2>. QED
    BY <1>0, <2>6, <2>7, Grows
<1>2. CASE RealFix
  <2>1. PICK rb \in Real \cap Entered : \E t \in Times \ track[rb] : track' = [track EXCEPT ![rb] = @ \cup {t}]
    BY <1>2 DEF RealFix
  <2>2. PICK t \in Times : track' = [track EXCEPT ![rb] = track[rb] \cup {t}]
    BY <2>1
  <2>3. rb \in DOMAIN voyage /\ track[rb] \in SUBSET Times
    BY <1>0 DEF Entered
  <2>6. UNCHANGED <<voyage, cache, polls, page, left, pending>>
    BY <1>2 DEF RealFix
  <2>7. Later
    BY <1>0, <2>2, <2>3, <2>6 DEF Later
  <2>. QED
    BY <1>0, <2>6, <2>7, Grows
<1>3. CASE Enters
  <2>1. PICK b \in DOMAIN voyage : voyage[b] = 0 /\ voyage' = [voyage EXCEPT ![b] = 1]
    BY <1>3 DEF Enters
  <2>2. UNCHANGED <<track, cache, polls, page, left>> /\ pending' = pending \cup {"request"}
    BY <1>3 DEF Enters
  <2>3. Later
    <3>1. voyage' \in [DOMAIN voyage -> 0..MaxVoyages]
      BY <1>0, <2>1
    <3>2. \A c \in DOMAIN voyage : IF c = b THEN voyage'[c] > voyage[c] ELSE voyage'[c] = voyage[c]
      BY <1>0, <2>1
    <3>. QED
      BY <1>0, <2>2, <3>1, <3>2 DEF Later
  <2>. QED
    BY <1>0, <2>2, <2>3, Grows
<1>4. CASE Restarts
  <2>1. PICK b \in Virtual \cap Entered : voyage[b] < MaxVoyages
           /\ voyage' = [voyage EXCEPT ![b] = voyage[b] + 1] /\ track' = [track EXCEPT ![b] = {}]
    BY <1>4 DEF Restarts
  <2>2. UNCHANGED <<cache, polls, page, pending>> /\ left.restarts > 0
        /\ left' = [left EXCEPT !.restarts = left.restarts - 1]
    BY <1>4 DEF Restarts
  <2>3. b \in DOMAIN voyage
    BY DEF Entered
  <2>4. left' \in [restarts : Nat, lost : Nat]
    BY <1>0, <2>2
  <2>5. Later
    <3>1. voyage' \in [DOMAIN voyage -> 0..MaxVoyages] /\ track' \in [DOMAIN voyage -> SUBSET Times]
      BY <1>0, <2>1, <2>3
    <3>2. \A c \in DOMAIN voyage : IF c = b THEN voyage'[c] > voyage[c]
                                   ELSE voyage'[c] = voyage[c] /\ track'[c] = track[c]
      BY <1>0, <2>1, <2>3
    <3>. QED
      BY <3>1, <3>2 DEF Later
  <2>. QED
    BY <1>0, <2>2, <2>4, <2>5, Grows
<1>. QED
  BY <1>1, <1>2, <1>3, <1>4

-----------------------------------------------------------------------------
(***************************************************************************)
(* The server's steps and the page's, of one poll each.                    *)
(***************************************************************************)
LEMMA OnePoll ==
  ASSUME Sound, UNCHANGED <<voyage, track, pending>>, left' \in [restarts : Nat, lost : Nat],
         NEW q \in DOMAIN polls, NEW p \in Poll, TracksGood(p.tracks), EntriesGood(p.entries),
         polls' = [polls EXCEPT ![q] = p],
         cache' \in Copy, EntriesGood(cache'.entries),
         page' \in Page, DOMAIN page'.tracks \subseteq DOMAIN voyage
  PROVE  Sound'
<1>1. polls \in [DOMAIN polls -> Poll]
  BY DEF Sound, Shape
<1>2. polls' \in [DOMAIN polls -> Poll] /\ DOMAIN polls' = DOMAIN polls /\ polls'[q] = p
      /\ \A r \in DOMAIN polls : r # q => polls'[r] = polls[r]
  BY <1>1
<1>3. Shape'
  BY <1>2 DEF Sound, Shape
<1>4. ASSUME NEW es, EntriesGood(es) PROVE EntriesGood(es)'
  BY <1>4 DEF EntriesGood, ReadOf, Told
<1>5. ASSUME NEW trs, TracksGood(trs) PROVE TracksGood(trs)'
  BY <1>5 DEF TracksGood, FromTrack, ReadOf
<1>6. EntriesGood(cache.entries)'
  BY <1>4
<1>7. ASSUME NEW r \in DOMAIN polls PROVE TracksGood(polls[r].tracks)' /\ EntriesGood(polls[r].entries)'
  <2>1. TracksGood(polls'[r].tracks) /\ EntriesGood(polls'[r].entries)
    BY <1>2 DEF Sound
  <2>. QED
    BY <1>4, <1>5, <2>1
<1>. QED
  BY <1>2, <1>3, <1>6, <1>7 DEF Sound

LEMMA PollIs ==
  ASSUME Sound, NEW q \in DOMAIN polls
  PROVE  /\ polls[q] \in Poll /\ TracksGood(polls[q].tracks) /\ EntriesGood(polls[q].entries)
         /\ cache \in Copy /\ EntriesGood(cache.entries)
         /\ page \in Page /\ DOMAIN page.tracks \subseteq DOMAIN voyage
         /\ left \in [restarts : Nat, lost : Nat]
BY DEF Sound, Shape

LEMMA EnteredIs ==
  ASSUME Shape, NEW b \in Entered
  PROVE  b \in DOMAIN voyage /\ b \in Boats /\ voyage[b] \in 1..MaxVoyages /\ track[b] \in SUBSET Times
BY LiveFleetAssumption DEF Shape, Entered, LiveFleetGiven

LEMMA LookupSound ==
  ASSUME Sound, NEW q \in DOMAIN polls, Lookup(q)
  PROVE  /\ Sound'
         /\ Hit(q) \/ polls' = [polls EXCEPT ![q] = [polls[q] EXCEPT !.pc = "meta",
                                       !.tracks = [b \in Entered |-> FixesOf(b, polls[q].since)]]]
<1>0. /\ polls[q] \in Poll /\ TracksGood(polls[q].tracks) /\ EntriesGood(polls[q].entries)
      /\ cache \in Copy /\ EntriesGood(cache.entries)
      /\ page \in Page /\ DOMAIN page.tracks \subseteq DOMAIN voyage
      /\ left \in [restarts : Nat, lost : Nat]
  BY PollIs
<1>1. UNCHANGED <<voyage, track, pending, cache, page, left>>
  BY DEF Lookup, rows
<1>2. CASE Hit(q)
  <2>1. PICK p : p = [polls[q] EXCEPT !.pc = "answered", !.entries = cache.entries]
    OBVIOUS
  <2>2. polls' = [polls EXCEPT ![q] = p]
    BY <1>2, <2>1 DEF Lookup
  <2>3. p \in Poll /\ p.tracks = polls[q].tracks /\ p.entries = cache.entries
    BY <1>0, <2>1 DEF Poll, Copy
  <2>. QED
    BY <1>0, <1>1, <1>2, <2>2, <2>3, OnePoll
<1>3. CASE ~Hit(q)
  <2>1. PICK trs : trs = [b \in Entered |-> FixesOf(b, polls[q].since)]
    OBVIOUS
  <2>2. PICK p : p = [polls[q] EXCEPT !.pc = "meta", !.tracks = trs]
    OBVIOUS
  <2>3. polls' = [polls EXCEPT ![q] = p]
    BY <1>3, <2>1, <2>2 DEF Lookup
  <2>4. ASSUME NEW b \in Entered PROVE FromTrack(b, trs[b]) /\ trs[b] \in Seq(Fixes)
    <3>1. voyage[b] \in 1..MaxVoyages /\ track[b] \in SUBSET Times /\ trs[b] = FixesOf(b, polls[q].since)
      BY <2>1, EnteredIs DEF Sound
    <3>2. FromTrack(b, trs[b])
      BY <3>1, FixesAre
    <3>. QED
      BY <3>2 DEF FromTrack, ReadOf
  <2>5. DOMAIN trs = Entered /\ Entered \subseteq DOMAIN voyage /\ Entered \in SUBSET Boats
    BY <2>1 DEF Entered, Sound, Shape
  <2>6. trs \in [Entered -> Seq(Fixes)]
    BY <2>1, <2>4
  <2>7. trs \in TablesOf(Seq(Fixes))
    BY <2>5, <2>6, ATable
  <2>8. p \in Poll /\ p.tracks = trs /\ p.entries = polls[q].entries
    BY <1>0, <2>2, <2>7 DEF Poll
  <2>9. TracksGood(p.tracks)
    BY <2>4, <2>5, <2>8 DEF TracksGood
  <2>10. Sound'
    BY <1>0, <1>1, <2>3, <2>8, <2>9, OnePoll
  <2>. QED
    BY <2>1, <2>2, <2>3, <2>10
<1>. QED
  BY <1>2, <1>3

\* What the number and the last fix are put beside.
MetaOf(q) ==
  [b \in Entered |-> [fixes |-> IF b \in DOMAIN polls[q].tracks THEN polls[q].tracks[b] ELSE <<>>,
                      n |-> Cardinality(track[b]), last |-> LastT(b)]]

LEMMA MetaSound ==
  ASSUME Sound, NEW q \in DOMAIN polls, Meta(q)
  PROVE  /\ Sound'
         /\ polls' = [polls EXCEPT ![q] = [polls[q] EXCEPT !.pc = "store", !.tracks = <<>>, !.entries = MetaOf(q)]]
<1>0. /\ polls[q] \in Poll /\ TracksGood(polls[q].tracks) /\ EntriesGood(polls[q].entries)
      /\ cache \in Copy /\ EntriesGood(cache.entries)
      /\ page \in Page /\ DOMAIN page.tracks \subseteq DOMAIN voyage
      /\ left \in [restarts : Nat, lost : Nat]
  BY PollIs
<1>1. UNCHANGED <<voyage, track, pending, cache, page, left>>
  BY DEF Meta, rows
<1>2. PICK es : es = MetaOf(q)
  OBVIOUS
<1>3. PICK p : p = [polls[q] EXCEPT !.pc = "store", !.tracks = <<>>, !.entries = es]
  OBVIOUS
<1>4. polls' = [polls EXCEPT ![q] = p]
  BY <1>2, <1>3 DEF Meta, MetaOf
<1>5. ASSUME NEW b \in Entered
      PROVE  es[b] \in EntryOf /\ ReadOf(es[b].fixes) /\ Told(b, es[b].fixes, es[b].last)
  <2>1. b \in DOMAIN voyage /\ voyage[b] \in 1..MaxVoyages /\ track[b] \in SUBSET Times
    BY EnteredIs DEF Sound
  <2>2. PICK fs : fs = IF b \in DOMAIN polls[q].tracks THEN polls[q].tracks[b] ELSE <<>>
    OBVIOUS
  <2>3. es[b] = [fixes |-> fs, n |-> Cardinality(track[b]), last |-> LastT(b)]
    BY <1>2, <2>2 DEF MetaOf
  <2>4. /\ LastT(b) \in Times \cup {None} /\ Cardinality(track[b]) \in 0..MaxT
        /\ \A t \in track[b] : LastT(b) # None /\ t <= LastT(b)
    BY <2>1, LastIs
  <2>5. FromTrack(b, fs)
    <3>1. CASE b \in DOMAIN polls[q].tracks
      BY <1>0, <2>2, <3>1 DEF TracksGood
    <3>2. CASE b \notin DOMAIN polls[q].tracks
      BY <2>2, <3>2 DEF FromTrack, ReadOf
    <3>. QED
      BY <3>1, <3>2
  <2>6. fs \in Seq(Fixes) /\ ReadOf(fs)
    BY <2>5 DEF FromTrack, ReadOf
  <2>7. Told(b, fs, LastT(b))
    BY <2>4, <2>5 DEF FromTrack, Told
  <2>8. es[b] \in EntryOf
    BY <2>3, <2>4, <2>6 DEF EntryOf
  <2>. QED
    BY <2>3, <2>6, <2>7, <2>8
<1>6. DOMAIN es = Entered /\ Entered \subseteq DOMAIN voyage /\ Entered \in SUBSET Boats
  BY <1>2 DEF MetaOf, Entered, Sound, Shape
<1>7. es \in [Entered -> EntryOf]
  BY <1>2, <1>5 DEF MetaOf
<1>8. es \in TablesOf(EntryOf)
  BY <1>6, <1>7, ATable
<1>9. <<>> \in TablesOf(Seq(Fixes)) /\ DOMAIN <<>> = {}
  BY NoTable
<1>10. p \in Poll /\ p.tracks = <<>> /\ p.entries = es
  BY <1>0, <1>3, <1>8, <1>9 DEF Poll
<1>11. EntriesGood(p.entries) /\ TracksGood(p.tracks)
  BY <1>5, <1>6, <1>9, <1>10 DEF EntriesGood, TracksGood
<1>12. Sound'
  BY <1>0, <1>1, <1>4, <1>10, <1>11, OnePoll
<1>. QED
  BY <1>2, <1>3, <1>4, <1>12

LEMMA StoreSound ==
  ASSUME Sound, NEW q \in DOMAIN polls, Store(q)
  PROVE  /\ Sound'
         /\ polls' = [polls EXCEPT ![q] = [polls[q] EXCEPT !.pc = "answered", !.crossed = FALSE]]
<1>0. /\ polls[q] \in Poll /\ TracksGood(polls[q].tracks) /\ EntriesGood(polls[q].entries)
      /\ cache \in Copy /\ EntriesGood(cache.entries)
      /\ page \in Page /\ DOMAIN page.tracks \subseteq DOMAIN voyage
      /\ left \in [restarts : Nat, lost : Nat]
  BY PollIs
<1>1. UNCHANGED <<voyage, track, pending, page, left>>
  BY DEF Store, rows
<1>2. polls \in [DOMAIN polls -> Poll]
  BY DEF Sound, Shape
<1>3. PICK p : p = [polls[q] EXCEPT !.pc = "answered", !.crossed = FALSE]
  OBVIOUS
<1>4. p \in Poll /\ p.tracks = polls[q].tracks /\ p.entries = polls[q].entries
  BY <1>0, <1>3 DEF Poll
<1>5. polls' = [polls EXCEPT ![q] = p]
  BY <1>0, <1>2, <1>3 DEF Store, Poll
<1>6. cache' \in Copy /\ EntriesGood(cache'.entries)
  <2>1. CASE polls[q].since # None
    BY <1>0, <2>1 DEF Store
  <2>2. CASE polls[q].since = None
    <3>1. cache' = [kept |-> TRUE, age |-> 0, entries |-> polls[q].entries, crossed |-> polls[q].crossed]
      BY <2>2 DEF Store
    <3>2. 0 \in 0..CacheSeconds
      BY LiveFleetAssumption DEF LiveFleetGiven
    <3>. QED
      BY <1>0, <3>1, <3>2 DEF Copy, Poll
  <2>. QED
    BY <2>1, <2>2
<1>7. Sound'
  BY <1>0, <1>1, <1>4, <1>5, <1>6, OnePoll
<1>. QED
  BY <1>3, <1>5, <1>7

LEMMA AsksSound ==
  ASSUME Sound, NEW q \in DOMAIN polls, Asks(q)
  PROVE  /\ Sound' /\ page'.tracks = page.tracks
         /\ \E since : polls' = [polls EXCEPT ![q] = [polls[q] EXCEPT !.pc = "sent", !.since = since]]
<1> USE LiveFleetAssumption DEF LiveFleetGiven
<1>0. /\ polls[q] \in Poll /\ TracksGood(polls[q].tracks) /\ EntriesGood(polls[q].entries)
      /\ cache \in Copy /\ EntriesGood(cache.entries)
      /\ page \in Page /\ DOMAIN page.tracks \subseteq DOMAIN voyage
      /\ left \in [restarts : Nat, lost : Nat]
  BY PollIs
<1>1. UNCHANGED <<voyage, track, pending, cache, left>>
  BY DEF Asks, rows
<1>2. polls \in [DOMAIN polls -> Poll]
  BY DEF Sound, Shape
<1>3. Known \subseteq Times
  <2>1. page.tracks \in TablesOf(TrackOf)
    BY <1>0 DEF Page
  <2>2. page.tracks \in [DOMAIN page.tracks -> TrackOf]
    BY <2>1, TableIs
  <2>3. ASSUME NEW b \in DOMAIN page.tracks PROVE page.tracks[b].last \in Times \cup {None}
    BY <2>2 DEF TrackOf
  <2>. QED
    BY <2>3 DEF Known
<1> DEFINE asked == IF Full THEN None ELSE CHOOSE t \in Known : \A u \in Known : t <= u
<1>a. polls' = [polls EXCEPT ![q].pc = "sent", ![q].since = asked]
  BY DEF Asks
<1>b. asked = IF Full THEN None ELSE CHOOSE t \in Known : \A u \in Known : t <= u
  OBVIOUS
<1> HIDE DEF asked
<1>4. PICK since : since = asked
  OBVIOUS
<1>5. since \in Times \cup {None}
  <2>1. CASE Full
    BY <1>4, <1>b, <2>1
  <2>2. CASE ~Full
    <3>1. Known # {} /\ Known \in SUBSET Nat
      <4>1. \A t \in Known : t \in Nat
        BY <1>3 DEF Times
      <4>. QED
        BY <2>2, <4>1 DEF Full
    <3>2. \E t \in Known : \A u \in Known : t <= u
      BY <3>1, LeastOf
    <3>3. since \in Known
      BY <1>4, <1>b, <2>2, <3>2
    <3>. QED
      BY <1>3, <3>3
  <2>. QED
    BY <2>1, <2>2
<1>6. PICK p : p = [polls[q] EXCEPT !.pc = "sent", !.since = since]
  OBVIOUS
<1>7. p \in Poll /\ p.tracks = polls[q].tracks /\ p.entries = polls[q].entries
  BY <1>0, <1>5, <1>6 DEF Poll
<1>8. polls' = [polls EXCEPT ![q] = p]
  <2>2. polls' = [polls EXCEPT ![q].pc = "sent", ![q].since = since]
    BY <1>4, <1>a
  <2>. QED
    BY <1>0, <1>2, <1>6, <2>2 DEF Poll
<1>9. page' \in Page /\ page'.tracks = page.tracks
  <2>1. page' = [page EXCEPT !.count = (page.count + 1) % FullEvery, !.wantFull = FALSE]
    BY DEF Asks
  <2>2. (page.count + 1) % FullEvery \in 0..(FullEvery - 1)
    BY <1>0 DEF Page
  <2>. QED
    BY <1>0, <2>1, <2>2 DEF Page
<1>10. Sound'
  BY <1>0, <1>1, <1>7, <1>8, <1>9, OnePoll
<1>. QED
  BY <1>6, <1>8, <1>9, <1>10

\* What the page holds after an answer.
Merged(q) ==
  [b \in DOMAIN polls[q].entries |->
     IF polls[q].since = None \/ Stranger(b, polls[q].entries[b]) THEN AsSent(polls[q].entries[b])
     ELSE Extended(polls[q].entries[b], page.tracks[b])]

LEMMA MergesSound ==
  ASSUME Sound, NEW q \in DOMAIN polls, Merges(q)
  PROVE  /\ Sound' /\ page'.tracks = Merged(q)
         /\ polls' = [polls EXCEPT ![q] = Quiet]
<1>0. /\ polls[q] \in Poll /\ TracksGood(polls[q].tracks) /\ EntriesGood(polls[q].entries)
      /\ cache \in Copy /\ EntriesGood(cache.entries)
      /\ page \in Page /\ DOMAIN page.tracks \subseteq DOMAIN voyage
      /\ left \in [restarts : Nat, lost : Nat]
  BY PollIs
<1>1. UNCHANGED <<voyage, track, pending, cache, left>> /\ polls' = [polls EXCEPT ![q] = Quiet]
  BY DEF Merges, rows
<1>2. PICK es : es = polls[q].entries
  OBVIOUS
<1>3. es \in [DOMAIN es -> EntryOf] /\ DOMAIN es \in SUBSET Boats /\ DOMAIN es \subseteq DOMAIN voyage
  <2>1. es \in TablesOf(EntryOf)
    BY <1>0, <1>2 DEF Poll
  <2>. QED
    BY <1>0, <1>2, <2>1, TableIs DEF EntriesGood
<1>4. page.tracks \in [DOMAIN page.tracks -> TrackOf]
  <2>1. page.tracks \in TablesOf(TrackOf)
    BY <1>0 DEF Page
  <2>. QED
    BY <2>1, TableIs
<1>5. ASSUME NEW b \in DOMAIN es PROVE AsSent(es[b]) \in TrackOf
  BY <1>3 DEF EntryOf, TrackOf, AsSent
<1>6. ASSUME NEW b \in DOMAIN es, ~Stranger(b, es[b]) PROVE Extended(es[b], page.tracks[b]) \in TrackOf
  <2>1. PICK k : k = page.tracks[b]
    OBVIOUS
  <2>2. k \in TrackOf
    BY <1>4, <1>6, <2>1 DEF Stranger
  <2>3. es[b] \in EntryOf /\ ReadOf(es[b].fixes)
    BY <1>0, <1>2, <1>3 DEF EntriesGood
  <2>4. PICK new : new = Newer(es[b], k)
    OBVIOUS
  <2>5. new \in Seq(Fixes)
    <3>1. ReadOf(Newer(es[b], k))
      BY <2>3, NewerAre
    <3>. QED
      BY <2>4, <3>1 DEF ReadOf
  <2>6. Extended(es[b], k) = IF new = <<>> THEN [k EXCEPT !.n = es[b].n]
                             ELSE [pts |-> k.pts \o new, last |-> es[b].last, n |-> es[b].n]
    BY <2>4 DEF Extended
  <2>7. k.pts \o new \in Seq(Fixes)
    BY <2>2, <2>5 DEF TrackOf
  <2>8. es[b].n \in 0..MaxT /\ es[b].last \in Times \cup {None}
    BY <2>3 DEF EntryOf
  <2>9. [k EXCEPT !.n = es[b].n] \in TrackOf
    BY <2>2, <2>8 DEF TrackOf
  <2>10. [pts |-> k.pts \o new, last |-> es[b].last, n |-> es[b].n] \in TrackOf
    BY <2>7, <2>8 DEF TrackOf
  <2>. QED
    BY <2>1, <2>6, <2>9, <2>10
<1>7. PICK trs : trs = Merged(q)
  OBVIOUS
<1>8. DOMAIN trs = DOMAIN es /\ \A b \in DOMAIN es : trs[b] \in TrackOf
  <2>1. DOMAIN trs = DOMAIN es
    BY <1>2, <1>7 DEF Merged
  <2>2. ASSUME NEW b \in DOMAIN es PROVE trs[b] \in TrackOf
    <3>1. trs[b] = IF polls[q].since = None \/ Stranger(b, es[b]) THEN AsSent(es[b])
                   ELSE Extended(es[b], page.tracks[b])
      BY <1>2, <1>7 DEF Merged
    <3>. QED
      BY <1>5, <1>6, <3>1
  <2>. QED
    BY <2>1, <2>2
<1>9. trs \in TablesOf(TrackOf)
  <2>1. trs \in [DOMAIN es -> TrackOf]
    BY <1>7, <1>8 DEF Merged
  <2>. QED
    BY <1>3, <2>1, ATable
<1>10. page'.tracks = trs /\ page' \in Page
  <2>1. \E w \in BOOLEAN : page' = [page EXCEPT !.tracks = trs, !.wantFull = w]
    <3>1. page.wantFull \in BOOLEAN
      BY <1>0 DEF Page
    <3>2. page' = [page EXCEPT !.tracks = trs, !.wantFull = page.wantFull \/ (polls[q].since # None
                      /\ \E b \in DOMAIN polls[q].entries : Stranger(b, polls[q].entries[b]))]
      BY <1>7 DEF Merges, Merged
    <3>. QED
      BY <3>1, <3>2
  <2>. QED
    BY <1>0, <1>9, <2>1 DEF Page
<1>11. TracksGood(Quiet.tracks) /\ EntriesGood(Quiet.entries) /\ Quiet \in Poll
  BY QuietIs DEF TracksGood, EntriesGood
<1>12. Sound'
  BY <1>0, <1>1, <1>3, <1>8, <1>10, <1>11, OnePoll
<1>. QED
  BY <1>1, <1>7, <1>10, <1>12

LEMMA LosesSound ==
  ASSUME Sound, NEW q \in DOMAIN polls, Loses(q)
  PROVE  Sound' /\ page' = page /\ polls' = [polls EXCEPT ![q] = Quiet]
<1>0. /\ cache \in Copy /\ EntriesGood(cache.entries)
      /\ page \in Page /\ DOMAIN page.tracks \subseteq DOMAIN voyage
      /\ left \in [restarts : Nat, lost : Nat]
  BY PollIs
<1>1. UNCHANGED <<voyage, track, pending, cache, page>> /\ polls' = [polls EXCEPT ![q] = Quiet]
      /\ left.lost > 0 /\ left' = [left EXCEPT !.lost = left.lost - 1]
  BY DEF Loses, rows
<1>2. left' \in [restarts : Nat, lost : Nat]
  BY <1>0, <1>1
<1>3. TracksGood(Quiet.tracks) /\ EntriesGood(Quiet.entries) /\ Quiet \in Poll
  BY QuietIs DEF TracksGood, EntriesGood
<1>. QED
  BY <1>0, <1>1, <1>2, <1>3, OnePoll

LEMMA InvalidateSound ==
  ASSUME Sound, Invalidate
  PROVE  /\ Sound' /\ page' = page /\ DOMAIN polls' = DOMAIN polls
         /\ \A q \in DOMAIN polls : polls'[q] = [polls[q] EXCEPT !.crossed = Building(q)]
<1>1. UNCHANGED <<voyage, track, page, left>> /\ cache' = NoCopy
      /\ polls' = [q \in DOMAIN polls |-> [polls[q] EXCEPT !.crossed = Building(q)]]
  BY DEF Invalidate, rows
<1>2. pending' \subseteq {"ticker", "request"}
  BY DEF Invalidate, Sound, Shape
<1>3. ASSUME NEW q \in DOMAIN polls
      PROVE  polls'[q] \in Poll /\ polls'[q].tracks = polls[q].tracks /\ polls'[q].entries = polls[q].entries
  <2>1. polls[q] \in Poll /\ Building(q) \in BOOLEAN
    BY PollIs DEF Building
  <2>2. polls'[q] = [polls[q] EXCEPT !.crossed = Building(q)]
    BY <1>1
  <2>. QED
    BY <2>1, <2>2 DEF Poll
<1>4. Shape'
  <2>1. polls' \in [DOMAIN polls' -> Poll] /\ cache' \in Copy
    BY <1>1, <1>3, NoCopyIs
  <2>. QED
    BY <1>1, <1>2, <2>1 DEF Sound, Shape
<1>5. ASSUME NEW es, EntriesGood(es) PROVE EntriesGood(es)'
  BY <1>1, <1>5 DEF EntriesGood, ReadOf, Told
<1>6. ASSUME NEW trs, TracksGood(trs) PROVE TracksGood(trs)'
  BY <1>1, <1>6 DEF TracksGood, FromTrack, ReadOf
<1>7. ASSUME NEW q \in DOMAIN polls PROVE TracksGood(polls[q].tracks)' /\ EntriesGood(polls[q].entries)'
  BY <1>3, <1>5, <1>6 DEF Sound
<1>8. EntriesGood(cache.entries)'
  BY <1>1, NoCopyIs DEF EntriesGood
<1>9. Sound'
  BY <1>1, <1>4, <1>7, <1>8 DEF Sound
<1>. QED
  BY <1>1, <1>9

LEMMA StaysSound ==
  ASSUME Sound, UNCHANGED <<voyage, track, pending, polls, page, left>>,
         cache' \in Copy, cache'.entries = cache.entries
  PROVE  Sound'
<1>1. Shape'
  BY DEF Sound, Shape
<1>2. EntriesGood(cache.entries)'
  <2>1. PICK es : es = cache.entries
    OBVIOUS
  <2>2. EntriesGood(es)
    BY <2>1 DEF Sound
  <2>3. EntriesGood(es)'
    BY <2>2 DEF EntriesGood, ReadOf, Told
  <2>. QED
    BY <2>1, <2>3
<1>3. ASSUME NEW q \in DOMAIN polls PROVE TracksGood(polls[q].tracks)' /\ EntriesGood(polls[q].entries)'
  <2>1. TracksGood(polls[q].tracks) /\ EntriesGood(polls[q].entries)
    BY DEF Sound
  <2>2. TracksGood(polls[q].tracks)'
    BY <2>1 DEF TracksGood, FromTrack, ReadOf
  <2>3. EntriesGood(polls[q].entries)'
    BY <2>1 DEF EntriesGood, ReadOf, Told
  <2>. QED
    BY <2>2, <2>3
<1>. QED
  BY <1>1, <1>2, <1>3 DEF Sound

LEMMA ClockSound ==
  ASSUME Sound, Clock
  PROVE  Sound' /\ cache' = [cache EXCEPT !.age = cache.age + 1]
<1>1. UNCHANGED <<voyage, track, pending, polls, page, left>> /\ cache.age < CacheSeconds
      /\ cache' = [cache EXCEPT !.age = cache.age + 1]
  BY DEF Clock, rows
<1>2. cache \in Copy
  BY DEF Sound, Shape
<1>3. cache' \in Copy /\ cache'.entries = cache.entries
  BY <1>1, <1>2, LiveFleetAssumption DEF Copy, LiveFleetGiven
<1>. QED
  BY <1>1, <1>3, StaysSound

LEMMA StepSound == Sound /\ [Next]_vars => Sound'
<1> SUFFICES ASSUME Sound, [Next]_vars PROVE Sound'
  OBVIOUS
<1>1. CASE UNCHANGED vars
  BY <1>1, StaysSound DEF vars, Sound, Shape
<1>2. CASE Tick \/ RealFix \/ Enters \/ Restarts
  BY <1>2, WritersSound
<1>3. ASSUME NEW q \in DOMAIN polls, PollStep(q) \/ Loses(q) PROVE Sound'
  BY <1>3, LookupSound, MetaSound, StoreSound, AsksSound, MergesSound, LosesSound DEF PollStep
<1>. QED
  BY <1>1, <1>2, <1>3, InvalidateSound, ClockSound DEF Next

-----------------------------------------------------------------------------
(***************************************************************************)
(* The copy, and what is about to become it, have every boat and fix when  *)
(* no writer is about to drop it and no drop has passed.                   *)
(***************************************************************************)
Current(es) ==
  \A b \in Virtual \cap Entered :
    voyage[b] = 1 => b \in DOMAIN es /\ Len(es[b].fixes) = Cardinality(track[b])

CurrentTracks(trs) ==
  \A b \in Virtual \cap Entered : voyage[b] = 1 => b \in DOMAIN trs /\ Len(trs[b]) = Cardinality(track[b])

BuiltFresh(p) ==
  ~p.crossed /\ p.since = None => /\ p.pc = "meta" => CurrentTracks(p.tracks)
                                  /\ p.pc = "store" => Current(p.entries)

Fresh ==
  pending = {} => /\ cache.kept /\ ~cache.crossed => Current(cache.entries)
                  /\ \A q \in DOMAIN polls : BuiltFresh(polls[q])

LEMMA InitFresh == Init => Fresh
BY DEF Init, Fresh, NoCopy, Quiet, BuiltFresh

\* The first voyages of the virtual boats are as they were.
FirstsStay ==
  \A b \in Virtual \cap Entered' : voyage'[b] = 1 => b \in Entered /\ voyage[b] = 1 /\ track'[b] = track[b]

LEMMA StaysCurrent ==
  ASSUME FirstsStay
  PROVE  /\ \A es : Current(es) => Current(es)'
         /\ \A trs : CurrentTracks(trs) => CurrentTracks(trs)'
<1>1. ASSUME NEW es, Current(es) PROVE Current(es)'
  BY <1>1 DEF FirstsStay, Current
<1>2. ASSUME NEW trs, CurrentTracks(trs) PROVE CurrentTracks(trs)'
  BY <1>2 DEF FirstsStay, CurrentTracks
<1>. QED
  BY <1>1, <1>2

LEMMA StaysFresh ==
  ASSUME Fresh, FirstsStay, UNCHANGED <<pending, polls>>,
         cache'.kept = cache.kept, cache'.crossed = cache.crossed, cache'.entries = cache.entries
  PROVE  Fresh'
<1> SUFFICES ASSUME pending = {}
             PROVE  /\ cache.kept /\ ~cache.crossed => Current(cache.entries)'
                    /\ \A q \in DOMAIN polls : BuiltFresh(polls[q])'
  BY DEF Fresh
<1>1. cache.kept /\ ~cache.crossed => Current(cache.entries)'
  <2>1. Current(cache.entries) => Current(cache.entries)'
    <3>1. PICK es : es = cache.entries
      OBVIOUS
    <3>2. (Current(es) => Current(es)') /\ cache'.entries = es
      BY <3>1, StaysCurrent
    <3>. QED
      BY <3>1, <3>2 DEF Current
  <2>. QED
    BY <2>1 DEF Fresh
<1>2. ASSUME NEW q \in DOMAIN polls PROVE BuiltFresh(polls[q])'
  <2>1. PICK p : p = polls[q]
    OBVIOUS
  <2>2. BuiltFresh(p) /\ polls'[q] = p
    BY <2>1 DEF Fresh
  <2>3. PICK es : es = p.entries
    OBVIOUS
  <2>4. PICK trs : trs = p.tracks
    OBVIOUS
  <2>5. (Current(es) => Current(es)') /\ (CurrentTracks(trs) => CurrentTracks(trs)')
    BY StaysCurrent
  <2>. QED
    BY <2>2, <2>3, <2>4, <2>5 DEF BuiltFresh, Current, CurrentTracks
<1>. QED
  BY <1>1, <1>2

\* One poll's step, the rows staying as they are.
LEMMA OneFresh ==
  ASSUME Sound, Fresh, UNCHANGED <<voyage, track, pending>>, NEW q \in DOMAIN polls, NEW p,
         polls' = [polls EXCEPT ![q] = p],
         pending = {} => BuiltFresh(p) /\ (cache'.kept /\ ~cache'.crossed => Current(cache'.entries))
  PROVE  Fresh'
<1> SUFFICES ASSUME pending = {}
             PROVE  /\ cache'.kept /\ ~cache'.crossed => Current(cache.entries)'
                    /\ \A r \in DOMAIN polls' : BuiltFresh(polls[r])'
  BY DEF Fresh
<1>1. UNCHANGED Entered
  BY DEF Entered
<1>2. cache'.kept /\ ~cache'.crossed => Current(cache.entries)'
  BY <1>1 DEF Current
<1>3. ASSUME NEW r \in DOMAIN polls' PROVE BuiltFresh(polls[r])'
  <2>1. polls \in [DOMAIN polls -> Poll]
    BY DEF Sound, Shape
  <2>2. r \in DOMAIN polls /\ polls'[r] = IF r = q THEN p ELSE polls[r]
    BY <2>1
  <2>3. BuiltFresh(polls'[r])
    BY <2>2 DEF Fresh
  <2>. QED
    BY <1>1, <2>3 DEF BuiltFresh, Current, CurrentTracks
<1>. QED
  BY <1>2, <1>3

LEMMA StepFresh == Sound /\ Fresh /\ [Next]_vars => Fresh'
<1> SUFFICES ASSUME Sound, Fresh, [Next]_vars PROVE Fresh'
  OBVIOUS
<1> USE LiveFleetAssumption DEF LiveFleetGiven
<1>0. voyage \in [DOMAIN voyage -> 0..MaxVoyages] /\ track \in [DOMAIN voyage -> SUBSET Times]
      /\ polls \in [DOMAIN polls -> Poll] /\ cache \in Copy
  BY DEF Sound, Shape
<1>1. CASE UNCHANGED vars
  <2>1. FirstsStay
    BY <1>1 DEF vars, FirstsStay, Entered
  <2>. QED
    BY <1>1, <2>1, StaysFresh DEF vars
<1>2. CASE Tick \/ Enters
  <2>1. pending' # {}
    BY <1>2 DEF Tick, Enters
  <2>. QED
    BY <2>1 DEF Fresh
<1>3. CASE RealFix
  <2>1. PICK rb \in Real \cap Entered : \E t \in Times : track' = [track EXCEPT ![rb] = track[rb] \cup {t}]
    BY <1>3 DEF RealFix
  <2>2. UNCHANGED <<voyage, cache, polls, pending>>
    BY <1>3 DEF RealFix
  <2>3. FirstsStay
    BY <1>0, <2>1, <2>2 DEF FirstsStay, Entered
  <2>. QED
    BY <2>2, <2>3, StaysFresh
<1>4. CASE Restarts
  <2>1. PICK b \in Virtual \cap Entered : voyage' = [voyage EXCEPT ![b] = voyage[b] + 1]
           /\ track' = [track EXCEPT ![b] = {}]
    BY <1>4 DEF Restarts
  <2>2. UNCHANGED <<cache, polls, pending>>
    BY <1>4 DEF Restarts
  <2>3. FirstsStay
    <3>1. voyage[b] \in 1..MaxVoyages /\ b \in DOMAIN voyage
      BY EnteredIs DEF Sound
    <3>2. voyage'[b] # 1
      BY <1>0, <2>1, <3>1
    <3>3. \A c \in DOMAIN voyage \ {b} : voyage'[c] = voyage[c] /\ track'[c] = track[c]
      BY <1>0, <2>1
    <3>4. DOMAIN voyage' = DOMAIN voyage
      BY <1>0, <2>1
    <3>. QED
      BY <3>2, <3>3, <3>4 DEF FirstsStay, Entered
  <2>. QED
    BY <2>2, <2>3, StaysFresh
<1>5. CASE Invalidate
  <2>1. cache' = NoCopy
    BY <1>5 DEF Invalidate
  <2>2. ASSUME NEW q \in DOMAIN polls PROVE BuiltFresh(polls[q])'
    <3>1. polls'[q] = [polls[q] EXCEPT !.crossed = Building(q)] /\ polls[q] \in Poll
      BY <1>5, PollIs, InvalidateSound
    <3>2. polls'[q].crossed = Building(q) /\ polls'[q].pc = polls[q].pc
      BY <3>1 DEF Poll
    <3>. QED
      BY <3>2 DEF BuiltFresh, Building
  <2>3. DOMAIN polls' = DOMAIN polls
    BY <1>5, InvalidateSound
  <2>. QED
    BY <2>1, <2>2, <2>3, NoCopyIs DEF Fresh
<1>6. CASE Clock
  <2>1. UNCHANGED <<voyage, track, pending, polls>> /\ cache' = [cache EXCEPT !.age = cache.age + 1]
    BY <1>6 DEF Clock, rows
  <2>2. FirstsStay
    BY <2>1 DEF FirstsStay, Entered
  <2>3. cache'.kept = cache.kept /\ cache'.crossed = cache.crossed /\ cache'.entries = cache.entries
    BY <1>0, <2>1 DEF Copy
  <2>. QED
    BY <2>1, <2>2, <2>3, StaysFresh
<1>7. ASSUME NEW q \in DOMAIN polls, PollStep(q) \/ Loses(q) PROVE Fresh'
  <2>0. polls[q] \in Poll
    BY PollIs
  <2>1. CASE Lookup(q)
    <3>1. UNCHANGED <<voyage, track, pending, cache>>
      BY <2>1 DEF Lookup, rows
    <3>2. CASE Hit(q)
      <4>1. PICK p : p = [polls[q] EXCEPT !.pc = "answered", !.entries = cache.entries]
        OBVIOUS
      <4>2. polls' = [polls EXCEPT ![q] = p] /\ p.pc = "answered"
        BY <2>0, <2>1, <3>2, <4>1 DEF Lookup, Poll
      <4>. QED
        BY <3>1, <4>2, OneFresh DEF Fresh, BuiltFresh
    <3>3. CASE ~Hit(q)
      <4>1. PICK p : p = [polls[q] EXCEPT !.pc = "meta", !.tracks = [b \in Entered |-> FixesOf(b, polls[q].since)]]
        OBVIOUS
      <4>2. polls' = [polls EXCEPT ![q] = p] /\ p.pc = "meta" /\ p.since = polls[q].since
            /\ p.tracks = [b \in Entered |-> FixesOf(b, polls[q].since)]
        BY <2>0, <2>1, <3>3, <4>1 DEF Lookup, Poll
      <4>3. ASSUME p.since = None PROVE CurrentTracks(p.tracks)
        <5>1. ASSUME NEW b \in Virtual \cap Entered
              PROVE  b \in DOMAIN p.tracks /\ Len(p.tracks[b]) = Cardinality(track[b])
          <6>1. b \in DOMAIN voyage /\ voyage[b] \in 1..MaxVoyages /\ track[b] \in SUBSET Times
            BY EnteredIs DEF Sound
          <6>2. b \in DOMAIN p.tracks /\ p.tracks[b] = FixesOf(b, None)
            BY <4>2, <4>3
          <6>. QED
            BY <6>1, <6>2, FixesAre
        <5>. QED
          BY <5>1 DEF CurrentTracks
      <4>. QED
        BY <3>1, <4>2, <4>3, OneFresh DEF Fresh, BuiltFresh
    <3>. QED
      BY <3>2, <3>3
  <2>2. CASE Meta(q)
    <3>1. UNCHANGED <<voyage, track, pending, cache>> /\ polls[q].pc = "meta"
      BY <2>2 DEF Meta, rows
    <3>2. PICK es : es = MetaOf(q)
      OBVIOUS
    <3>3. PICK p : p = [polls[q] EXCEPT !.pc = "store", !.tracks = <<>>, !.entries = es]
      OBVIOUS
    <3>4. polls' = [polls EXCEPT ![q] = p]
      BY <2>2, <3>2, <3>3, MetaSound
    <3>5. p.pc = "store" /\ p.entries = es /\ p.since = polls[q].since /\ p.crossed = polls[q].crossed
      BY <2>0, <3>3 DEF Poll
    <3>6. CurrentTracks(polls[q].tracks) => Current(es)
      BY <3>2 DEF CurrentTracks, Current, MetaOf
    <3>7. pending = {} => BuiltFresh(p)
      BY <3>1, <3>5, <3>6 DEF Fresh, BuiltFresh
    <3>. QED
      BY <3>1, <3>4, <3>7, OneFresh DEF Fresh
  <2>3. CASE Store(q)
    <3>1. UNCHANGED <<voyage, track, pending>> /\ polls[q].pc = "store"
      BY <2>3 DEF Store, rows
    <3>2. PICK p : p = [polls[q] EXCEPT !.pc = "answered", !.crossed = FALSE]
      OBVIOUS
    <3>3. polls' = [polls EXCEPT ![q] = p] /\ p.pc = "answered"
      BY <2>0, <2>3, <3>2, StoreSound DEF Poll
    <3>4. pending = {} => (cache'.kept /\ ~cache'.crossed => Current(cache'.entries))
      <4>1. CASE polls[q].since # None
        BY <2>3, <4>1 DEF Store, Fresh
      <4>2. CASE polls[q].since = None
        <5>1. cache' = [kept |-> TRUE, age |-> 0, entries |-> polls[q].entries, crossed |-> polls[q].crossed]
          BY <2>3, <4>2 DEF Store
        <5>2. cache'.entries = polls[q].entries /\ cache'.crossed = polls[q].crossed
          BY <5>1
        <5>. QED
          BY <3>1, <4>2, <5>2 DEF Fresh, BuiltFresh
      <4>. QED
        BY <4>1, <4>2
    <3>. QED
      BY <3>1, <3>3, <3>4, OneFresh DEF BuiltFresh
  <2>4. CASE Asks(q)
    <3>1. UNCHANGED <<voyage, track, pending, cache>>
      BY <2>4 DEF Asks, rows
    <3>2. PICK since : polls' = [polls EXCEPT ![q] = [polls[q] EXCEPT !.pc = "sent", !.since = since]]
      BY <2>4, AsksSound
    <3>3. PICK p : p = [polls[q] EXCEPT !.pc = "sent", !.since = since]
      OBVIOUS
    <3>4. p.pc = "sent"
      BY <2>0, <3>3 DEF Poll
    <3>. QED
      BY <3>1, <3>2, <3>3, <3>4, OneFresh DEF Fresh, BuiltFresh
  <2>5. CASE Merges(q) \/ Loses(q)
    <3>1. UNCHANGED <<voyage, track, pending, cache>> /\ polls' = [polls EXCEPT ![q] = Quiet]
      BY <2>5 DEF Merges, Loses, rows
    <3>. QED
      BY <3>1, QuietIs, OneFresh DEF Fresh, BuiltFresh
  <2>. QED
    BY <1>7, <2>1, <2>2, <2>3, <2>4, <2>5 DEF PollStep
<1>. QED
  BY <1>1, <1>2, <1>3, <1>4, <1>5, <1>6, <1>7 DEF Next

(***************************************************************************)
(* The copy is as good as the rows, whoever writes and reads them.         *)
(***************************************************************************)
THEOREM CopyIsCurrent == Spec => []CopyCurrent
<1>1. Sound /\ Fresh => CopyCurrent
  <2> SUFFICES ASSUME Sound, Fresh PROVE CopyCurrent
    OBVIOUS
  <2>1. cache.entries \in [DOMAIN cache.entries -> EntryOf] /\ cache.age \in 0..CacheSeconds
    <3>1. cache.entries \in TablesOf(EntryOf) /\ cache.age \in 0..CacheSeconds
      BY DEF Sound, Shape, Copy
    <3>. QED
      BY <3>1, TableIs
  <2>2. page.tracks \in [DOMAIN page.tracks -> TrackOf] /\ DOMAIN page.tracks \subseteq Boats
        /\ page.count \in 0..(FullEvery - 1) /\ page.wantFull \in BOOLEAN
    <3>1. page.tracks \in TablesOf(TrackOf) /\ page.count \in 0..(FullEvery - 1) /\ page.wantFull \in BOOLEAN
      BY DEF Sound, Shape, Page
    <3>. QED
      BY <3>1, TableIs
  <2>3. ASSUME NEW q \in DOMAIN polls
        PROVE  polls[q].since \in Times \cup {None}
               /\ \A b \in DOMAIN polls[q].entries : polls[q].entries[b] \in EntryOf
    <3>1. polls[q].since \in Times \cup {None} /\ polls[q].entries \in TablesOf(EntryOf)
      BY PollIs DEF Poll
    <3>2. polls[q].entries \in [DOMAIN polls[q].entries -> EntryOf]
      BY <3>1, TableIs
    <3>. QED
      BY <3>1, <3>2
  <2>4. TypeOK
    BY <2>1, <2>2, <2>3 DEF TypeOK, Sound, Shape
  <2>. QED
    BY <2>4 DEF CopyCurrent, Fresh, Current
<1>2. Init => Sound /\ Fresh
  BY InitSound, InitFresh
<1>3. Sound /\ Fresh /\ [Next]_vars => (Sound /\ Fresh)'
  BY StepSound, StepFresh
<1>. QED
  BY <1>1, <1>2, <1>3, PTL DEF Spec

-----------------------------------------------------------------------------
(***************************************************************************)
(* How the page draws.  Restarts and overlapping polls are kept apart.     *)
(***************************************************************************)
Untangled == \A setup \in Setups : setup.restarts = 0 \/ \A p, q \in setup.polls : p = q

Forward(pts) == \A i, j \in DOMAIN pts : i < j /\ pts[i][1] = pts[j][1] => pts[i][2] < pts[j][2]

PageGood == \A b \in DOMAIN page.tracks : Forward(page.tracks[b].pts) /\ Told(b, page.tracks[b].pts, page.tracks[b].last)

\* What the page has of a boat is of no later voyage than s, and of the same
\* one no later than the last it knows.
Behind(k, s) ==
  \A i \in DOMAIN k.pts, j \in DOMAIN s :
    k.pts[i][1] <= s[j][1] /\ (k.pts[i][1] = s[j][1] => k.last # None /\ k.pts[i][2] <= k.last)

BehindAll(tracks, p) ==
  \A b \in DOMAIN tracks : /\ b \in DOMAIN p.tracks => Behind(tracks[b], p.tracks[b])
                           /\ b \in DOMAIN p.entries => Behind(tracks[b], p.entries[b].fixes)

NotAhead ==
  \A q \in DOMAIN polls : polls[q].since # None \/ polls[q].pc = "idle" => BehindAll(page.tracks, polls[q])

Alone == \A p, q \in DOMAIN polls : p = q

Calm == left.restarts = 0 /\ \A b \in DOMAIN voyage : voyage[b] <= 1

Drawn == PageGood /\ ((Alone /\ NotAhead) \/ Calm)

LEMMA PageTrackIs ==
  ASSUME Sound, NEW b \in DOMAIN page.tracks
  PROVE  page.tracks[b] \in TrackOf /\ b \in DOMAIN voyage /\ voyage[b] \in 0..MaxVoyages
<1>1. page.tracks \in [DOMAIN page.tracks -> TrackOf]
  <2>1. page.tracks \in TablesOf(TrackOf)
    BY DEF Sound, Shape, Page
  <2>. QED
    BY <2>1, TableIs
<1>. QED
  BY <1>1 DEF Sound, Shape

\* With first voyages only, whatever is read is of the voyage the page draws.
LEMMA FirstIsBehind ==
  ASSUME LiveFleetGiven, NEW b, voyage[b] \in Nat, voyage[b] <= 1, NEW k \in TrackOf, Told(b, k.pts, k.last),
         NEW s, ReadOf(s)
  PROVE  Behind(k, s)
<1> SUFFICES ASSUME NEW i \in DOMAIN k.pts, NEW j \in DOMAIN s
             PROVE  k.pts[i][1] <= s[j][1] /\ k.last # None /\ k.pts[i][2] <= k.last
  BY DEF Behind
<1>1. s[j][1] \in Nat /\ s[j][1] >= 1
  BY ReadIs DEF LiveFleetGiven
<1>2. k.pts[i][1] \in Nat /\ k.pts[i][1] >= 1 /\ k.pts[i][1] <= voyage[b]
  BY DEF TrackOf, Fixes, Told, LiveFleetGiven
<1>3. k.pts[i][1] = voyage[b] /\ k.pts[i][1] = 1
  BY <1>2
<1>. QED
  BY <1>1, <1>3 DEF Told

LEMMA CalmIsBehind == Sound /\ PageGood /\ Calm => NotAhead
<1> SUFFICES ASSUME Sound, PageGood, Calm, NEW q \in DOMAIN polls PROVE BehindAll(page.tracks, polls[q])
  BY DEF NotAhead
<1>0. TracksGood(polls[q].tracks) /\ EntriesGood(polls[q].entries)
  BY PollIs
<1>1. ASSUME NEW b \in DOMAIN page.tracks
      PROVE  /\ page.tracks[b] \in TrackOf /\ voyage[b] \in Nat /\ voyage[b] <= 1
             /\ Told(b, page.tracks[b].pts, page.tracks[b].last)
  BY PageTrackIs, LiveFleetAssumption DEF PageGood, Calm, LiveFleetGiven
<1>2. ASSUME NEW b \in DOMAIN page.tracks, NEW s, ReadOf(s) PROVE Behind(page.tracks[b], s)
  BY <1>1, <1>2, FirstIsBehind, LiveFleetAssumption
<1>. QED
  BY <1>0, <1>2 DEF BehindAll, TracksGood, EntriesGood, FromTrack

LEMMA InitDrawn == Untangled /\ Init => Drawn
<1> SUFFICES ASSUME Untangled, Init PROVE Drawn
  OBVIOUS
<1>1. PICK setup \in Setups :
         /\ voyage = [b \in setup.boats |-> IF b \in Real THEN 1 ELSE 0]
         /\ polls = [q \in setup.polls |-> Quiet] /\ left = [restarts |-> setup.restarts, lost |-> setup.lost]
  BY DEF Init
<1>2. PageGood
  <2>1. page.tracks = <<>> /\ DOMAIN <<>> = {}
    BY DEF Init
  <2>. QED
    BY <2>1 DEF PageGood
<1>3. NotAhead
  BY <1>1, QuietIs DEF NotAhead, BehindAll
<1>4. CASE setup.restarts = 0
  BY <1>1, <1>2, <1>4 DEF Drawn, Calm
<1>5. CASE \A p, q \in setup.polls : p = q
  BY <1>1, <1>2, <1>3, <1>5 DEF Drawn, Alone
<1>. QED
  BY <1>4, <1>5 DEF Untangled

LEMMA FixIs ==
  ASSUME NEW f \in Fixes
  PROVE  f[1] \in Nat /\ f[2] \in Nat
BY LiveFleetAssumption DEF Fixes, Times, LiveFleetGiven

(***************************************************************************)
(* What a merge leaves of a track the page knows: the newer fixes follow   *)
(* the last it has.                                                        *)
(***************************************************************************)
LEMMA ExtendedIs ==
  ASSUME NEW b, NEW e \in EntryOf, ReadOf(e.fixes), Told(b, e.fixes, e.last),
         NEW k \in TrackOf, Forward(k.pts), Told(b, k.pts, k.last), Behind(k, e.fixes), voyage[b] \in Nat
  PROVE  Forward(Extended(e, k).pts) /\ Told(b, Extended(e, k).pts, Extended(e, k).last)
<1> USE LiveFleetAssumption DEF LiveFleetGiven
<1>1. PICK new : new = Newer(e, k)
  OBVIOUS
<1>2. ReadOf(new) /\ \A j \in DOMAIN new : /\ \E m \in DOMAIN e.fixes : new[j] = e.fixes[m]
                                           /\ k.last # None => new[j][2] > k.last
  BY <1>1, NewerAre
<1>3. new \in Seq(Fixes) /\ k.pts \in Seq(Fixes)
      /\ k.last \in Times \cup {None} /\ e.last \in Times \cup {None}
  BY <1>2 DEF ReadOf, TrackOf, EntryOf
<1>4. CASE new = <<>>
  <2>1. Extended(e, k) = [k EXCEPT !.n = e.n]
    BY <1>1, <1>4 DEF Extended
  <2>2. Extended(e, k).pts = k.pts /\ Extended(e, k).last = k.last
    BY <2>1 DEF TrackOf
  <2>. QED
    BY <2>2
<1>5. CASE new # <<>>
  <2>1. PICK pts : pts = k.pts \o new
    OBVIOUS
  <2>2. Extended(e, k) = [pts |-> pts, last |-> e.last, n |-> e.n]
    BY <1>1, <1>5, <2>1 DEF Extended
  <2>3. Extended(e, k).pts = pts /\ Extended(e, k).last = e.last
    BY <2>2
  <2>4. ASSUME NEW i \in DOMAIN k.pts, NEW j \in DOMAIN new
        PROVE  /\ k.pts[i][1] <= new[j][1] /\ new[j][1] <= voyage[b]
               /\ k.pts[i][1] = new[j][1] => k.pts[i][2] < new[j][2]
    <3>1. PICK m \in DOMAIN e.fixes : new[j] = e.fixes[m]
      BY <1>2
    <3>2. k.pts[i][1] <= new[j][1] /\ (k.pts[i][1] = new[j][1] => k.last # None /\ k.pts[i][2] <= k.last)
      BY <3>1 DEF Behind
    <3>3. k.last # None => new[j][2] > k.last
      BY <1>2
    <3>4. k.pts[i][2] \in Nat /\ new[j][2] \in Nat /\ (k.last # None => k.last \in Nat)
      <4>1. k.pts[i] \in Fixes /\ new[j] \in Fixes
        BY <1>3
      <4>. QED
        BY <1>3, <4>1, FixIs DEF Times
    <3>5. new[j][1] <= voyage[b]
      BY <3>1 DEF Told
    <3>. QED
      BY <3>2, <3>3, <3>4, <3>5
  <2>5. Told(b, new, e.last)
    <3>1. ASSUME NEW j \in DOMAIN new PROVE \E m \in DOMAIN e.fixes : new[j] = e.fixes[m]
      BY <1>2
    <3>. QED
      BY <3>1 DEF Told
  <2>6. \A i \in DOMAIN pts : \/ i \in DOMAIN k.pts /\ pts[i] = k.pts[i]
                              \/ i > Len(k.pts) /\ i - Len(k.pts) \in DOMAIN new /\ pts[i] = new[i - Len(k.pts)]
    BY <1>3, <2>1
  <2>7. Forward(pts)
    <3> SUFFICES ASSUME NEW i \in DOMAIN pts, NEW j \in DOMAIN pts, i < j, pts[i][1] = pts[j][1]
                 PROVE  pts[i][2] < pts[j][2]
      BY DEF Forward
    <3>1. i \in Nat /\ j \in Nat /\ Len(k.pts) \in Nat /\ DOMAIN k.pts = 1..Len(k.pts)
      BY <1>3, <2>1
    <3>2. CASE j \in DOMAIN k.pts
      <4>1. i \in DOMAIN k.pts /\ pts[i] = k.pts[i] /\ pts[j] = k.pts[j]
        BY <2>6, <3>1, <3>2
      <4>. QED
        BY <3>2, <4>1 DEF Forward
    <3>3. CASE i \in DOMAIN k.pts /\ j \notin DOMAIN k.pts
      <4>1. pts[i] = k.pts[i] /\ j - Len(k.pts) \in DOMAIN new /\ pts[j] = new[j - Len(k.pts)]
        BY <2>6, <3>1, <3>3
      <4>. QED
        BY <2>4, <3>3, <4>1
    <3>4. CASE i \notin DOMAIN k.pts
      <4>1. i - Len(k.pts) \in DOMAIN new /\ pts[i] = new[i - Len(k.pts)]
        BY <2>6, <3>4
      <4>2. j - Len(k.pts) \in DOMAIN new /\ pts[j] = new[j - Len(k.pts)]
        BY <2>6, <3>1, <3>4
      <4>3. i - Len(k.pts) < j - Len(k.pts)
        BY <3>1
      <4>. QED
        BY <1>2, <4>1, <4>2, <4>3 DEF ReadOf
    <3>. QED
      BY <3>2, <3>3, <3>4
  <2>8. Told(b, pts, e.last)
    <3> SUFFICES ASSUME NEW i \in DOMAIN pts
                 PROVE  pts[i][1] <= voyage[b] /\ (pts[i][1] = voyage[b] => e.last # None /\ pts[i][2] <= e.last)
      BY DEF Told
    <3>1. CASE i \in DOMAIN k.pts /\ pts[i] = k.pts[i]
      <4>1. 1 \in DOMAIN new
        BY <1>3, <1>5
      <4>2. k.pts[i][1] \in Nat /\ k.pts[i][2] \in Nat /\ new[1][1] \in Nat /\ new[1][2] \in Nat
        <5>1. k.pts[i] \in Fixes /\ new[1] \in Fixes
          BY <1>3, <3>1, <4>1
        <5>. QED
          BY <5>1, FixIs
      <4>3. k.pts[i][1] <= new[1][1] /\ new[1][1] <= voyage[b]
            /\ (k.pts[i][1] = new[1][1] => k.pts[i][2] < new[1][2])
        BY <2>4, <3>1, <4>1
      <4>4. new[1][1] = voyage[b] => e.last # None /\ new[1][2] <= e.last
        BY <2>5, <4>1 DEF Told
      <4>5. e.last # None => e.last \in Nat
        BY <1>3 DEF Times
      <4>. QED
        BY <3>1, <4>2, <4>3, <4>4, <4>5
    <3>2. CASE i - Len(k.pts) \in DOMAIN new /\ pts[i] = new[i - Len(k.pts)]
      BY <2>5, <3>2 DEF Told
    <3>. QED
      BY <2>6, <3>1, <3>2
  <2>. QED
    BY <2>3, <2>7, <2>8
<1>. QED
  BY <1>4, <1>5

(***************************************************************************)
(* A merge draws on, given that what is merged is not behind the page.     *)
(***************************************************************************)
LEMMA MergesDraw ==
  ASSUME Sound, PageGood, NotAhead, NEW q \in DOMAIN polls, Merges(q)
  PROVE  PageGood'
<1>1. page'.tracks = Merged(q)
  BY MergesSound
<1>2. UNCHANGED <<voyage, track>>
  BY DEF Merges, rows
<1>3. EntriesGood(polls[q].entries) /\ polls[q].entries \in TablesOf(EntryOf)
  BY PollIs DEF Poll
<1>4. PICK es : es = polls[q].entries
  OBVIOUS
<1>5. es \in [DOMAIN es -> EntryOf]
  BY <1>3, <1>4, TableIs
<1>6. ASSUME NEW b \in DOMAIN es
      PROVE  es[b] \in EntryOf /\ ReadOf(es[b].fixes) /\ Told(b, es[b].fixes, es[b].last)
  BY <1>3, <1>4, <1>5 DEF EntriesGood
<1>7. ASSUME NEW b \in DOMAIN es
      PROVE  Forward(page'.tracks[b].pts) /\ Told(b, page'.tracks[b].pts, page'.tracks[b].last)
  <2>1. page'.tracks[b] = IF polls[q].since = None \/ Stranger(b, es[b]) THEN AsSent(es[b])
                          ELSE Extended(es[b], page.tracks[b])
    BY <1>1, <1>4 DEF Merged
  <2>2. CASE polls[q].since = None \/ Stranger(b, es[b])
    <3>1. page'.tracks[b].pts = es[b].fixes /\ page'.tracks[b].last = es[b].last
      BY <2>1, <2>2 DEF AsSent
    <3>. QED
      BY <1>6, <3>1 DEF Forward, ReadOf
  <2>3. CASE polls[q].since # None /\ ~Stranger(b, es[b])
    <3>1. b \in DOMAIN page.tracks
      BY <2>3 DEF Stranger
    <3>2. PICK k : k = page.tracks[b]
      OBVIOUS
    <3>3. k \in TrackOf /\ voyage[b] \in Nat
      BY <3>1, <3>2, PageTrackIs, LiveFleetAssumption DEF LiveFleetGiven
    <3>4. Forward(k.pts) /\ Told(b, k.pts, k.last)
      BY <3>1, <3>2 DEF PageGood
    <3>5. Behind(k, es[b].fixes)
      BY <1>4, <2>3, <3>1, <3>2 DEF NotAhead, BehindAll
    <3>6. page'.tracks[b] = Extended(es[b], k)
      BY <2>1, <2>3, <3>2
    <3>. QED
      BY <1>6, <3>3, <3>4, <3>5, <3>6, ExtendedIs
  <2>. QED
    BY <2>2, <2>3
<1>8. DOMAIN page'.tracks = DOMAIN es
  BY <1>1, <1>4 DEF Merged
<1>. QED
  BY <1>2, <1>7, <1>8 DEF PageGood, Forward, Told

\* Whoever writes, what the page has does not turn back.
LEMMA WritersDraw ==
  ASSUME Sound, PageGood, Later, UNCHANGED page
  PROVE  PageGood'
<1>1. ASSUME NEW b \in DOMAIN page.tracks PROVE Told(b, page.tracks[b].pts, page.tracks[b].last)'
  <2>1. page.tracks[b] \in TrackOf /\ b \in DOMAIN voyage
    BY PageTrackIs
  <2>2. \A i \in DOMAIN page.tracks[b].pts : page.tracks[b].pts[i][1] \in Nat
    <3>1. page.tracks[b].pts \in Seq(Fixes)
      BY <2>1 DEF TrackOf
    <3>. QED
      BY <3>1, FixIs
  <2>3. Told(b, page.tracks[b].pts, page.tracks[b].last)
    BY DEF PageGood
  <2>4. PICK pts, til : pts = page.tracks[b].pts /\ til = page.tracks[b].last
    OBVIOUS
  <2>5. Told(b, pts, til)'
    BY <2>1, <2>2, <2>3, <2>4, StaysTold DEF Sound
  <2>. QED
    BY <2>4, <2>5 DEF Told
<1>. QED
  BY <1>1 DEF PageGood, Forward, Told

LEMMA OneAhead ==
  ASSUME Sound, Alone, NEW q \in DOMAIN polls, NEW p, polls' = [polls EXCEPT ![q] = p],
         p.since # None \/ p.pc = "idle" => BehindAll(page'.tracks, p)
  PROVE  NotAhead'
<1>1. DOMAIN polls' = DOMAIN polls /\ polls'[q] = p
  OBVIOUS
<1>2. \A r \in DOMAIN polls' : r = q
  BY <1>1 DEF Alone
<1>3. \A r \in DOMAIN polls' : polls'[r].since # None \/ polls'[r].pc = "idle" => BehindAll(page'.tracks, polls'[r])
  BY <1>1, <1>2
<1>. QED
  BY <1>3 DEF NotAhead, BehindAll, Behind

(***************************************************************************)
(* With one poll at a time what it brings is not behind the page: its      *)
(* tracks were read after the page got what it has.                        *)
(***************************************************************************)
LEMMA PollAhead ==
  ASSUME Sound, PageGood, Alone, NotAhead, NEW q \in DOMAIN polls, PollStep(q) \/ Loses(q)
  PROVE  NotAhead'
<1>0. polls[q] \in Poll
  BY PollIs
<1>b. polls[q].since # None \/ polls[q].pc = "idle" => BehindAll(page.tracks, polls[q])
  BY DEF NotAhead
<1>1. CASE Lookup(q)
  <2>0. UNCHANGED page /\ polls[q].pc = "sent"
    BY <1>1 DEF Lookup
  <2>1. CASE Hit(q)
    <3>1. PICK p : p = [polls[q] EXCEPT !.pc = "answered", !.entries = cache.entries]
      OBVIOUS
    <3>2. polls' = [polls EXCEPT ![q] = p]
      BY <1>1, <2>1, <3>1 DEF Lookup
    <3>3. p.since = None /\ p.pc = "answered"
      BY <1>0, <2>1, <3>1 DEF Hit, Poll
    <3>. QED
      BY <3>2, <3>3, OneAhead
  <2>2. CASE ~Hit(q)
    <3>1. PICK trs : trs = [b \in Entered |-> FixesOf(b, polls[q].since)]
      OBVIOUS
    <3>2. PICK p : p = [polls[q] EXCEPT !.pc = "meta", !.tracks = trs]
      OBVIOUS
    <3>3. polls' = [polls EXCEPT ![q] = p]
      BY <1>1, <2>2, <3>1, <3>2 DEF Lookup
    <3>4. p.since = polls[q].since /\ p.pc = "meta" /\ p.tracks = trs /\ p.entries = polls[q].entries
      BY <1>0, <3>2 DEF Poll
    <3>5. ASSUME NEW b \in DOMAIN page.tracks, b \in Entered PROVE Behind(page.tracks[b], trs[b])
      <4>1. voyage[b] \in 1..MaxVoyages /\ track[b] \in SUBSET Times /\ trs[b] = FixesOf(b, polls[q].since)
        BY <3>1, <3>5, EnteredIs DEF Sound
      <4>2. \A j \in DOMAIN trs[b] : trs[b][j][1] = voyage[b]
        BY <4>1, FixesAre
      <4>3. Told(b, page.tracks[b].pts, page.tracks[b].last)
        BY DEF PageGood
      <4>. QED
        BY <4>2, <4>3 DEF Behind, Told
    <3>6. p.since # None => BehindAll(page.tracks, p)
      BY <1>b, <3>1, <3>4, <3>5 DEF BehindAll
    <3>. QED
      BY <2>0, <3>3, <3>4, <3>6, OneAhead
  <2>. QED
    BY <2>1, <2>2
<1>2. CASE Meta(q)
  <2>0. UNCHANGED page /\ polls[q].pc = "meta"
    BY <1>2 DEF Meta
  <2>1. PICK es : es = MetaOf(q)
    OBVIOUS
  <2>2. PICK p : p = [polls[q] EXCEPT !.pc = "store", !.tracks = <<>>, !.entries = es]
    OBVIOUS
  <2>3. polls' = [polls EXCEPT ![q] = p]
    BY <1>2, <2>1, <2>2, MetaSound
  <2>4. p.since = polls[q].since /\ p.pc = "store" /\ p.tracks = <<>> /\ p.entries = es /\ DOMAIN <<>> = {}
    BY <1>0, <2>2 DEF Poll
  <2>5. ASSUME NEW b \in DOMAIN es
        PROVE  es[b].fixes = IF b \in DOMAIN polls[q].tracks THEN polls[q].tracks[b] ELSE <<>>
    BY <2>1 DEF MetaOf
  <2>6. ASSUME p.since # None PROVE BehindAll(page.tracks, p)
    <3>1. BehindAll(page.tracks, polls[q])
      BY <1>b, <2>4, <2>6
    <3>2. ASSUME NEW b \in DOMAIN page.tracks, b \in DOMAIN es PROVE Behind(page.tracks[b], es[b].fixes)
      <4>1. CASE b \in DOMAIN polls[q].tracks
        BY <2>5, <3>1, <3>2, <4>1 DEF BehindAll
      <4>2. CASE b \notin DOMAIN polls[q].tracks
        BY <2>5, <3>2, <4>2 DEF Behind
      <4>. QED
        BY <4>1, <4>2
    <3>. QED
      BY <2>4, <3>2 DEF BehindAll
  <2>. QED
    BY <2>0, <2>3, <2>4, <2>6, OneAhead
<1>3. CASE Store(q)
  <2>0. UNCHANGED page /\ polls[q].pc = "store"
    BY <1>3 DEF Store
  <2>1. PICK p : p = [polls[q] EXCEPT !.pc = "answered", !.crossed = FALSE]
    OBVIOUS
  <2>2. polls' = [polls EXCEPT ![q] = p]
    BY <1>3, <2>1, StoreSound
  <2>3. p.since = polls[q].since /\ p.pc = "answered" /\ p.tracks = polls[q].tracks /\ p.entries = polls[q].entries
    BY <1>0, <2>1 DEF Poll
  <2>. QED
    BY <1>b, <2>0, <2>2, <2>3, OneAhead DEF BehindAll
<1>4. CASE Asks(q)
  <2>0. page'.tracks = page.tracks /\ polls[q].pc = "idle"
    BY <1>4, AsksSound DEF Asks
  <2>1. PICK since : polls' = [polls EXCEPT ![q] = [polls[q] EXCEPT !.pc = "sent", !.since = since]]
    BY <1>4, AsksSound
  <2>2. PICK p : p = [polls[q] EXCEPT !.pc = "sent", !.since = since]
    OBVIOUS
  <2>3. p.tracks = polls[q].tracks /\ p.entries = polls[q].entries
    BY <1>0, <2>2 DEF Poll
  <2>4. BehindAll(page'.tracks, p)
    BY <1>b, <2>0, <2>3 DEF BehindAll
  <2>. QED
    BY <2>1, <2>2, <2>4, OneAhead
<1>5. CASE Merges(q) \/ Loses(q)
  <2>1. polls' = [polls EXCEPT ![q] = Quiet]
    BY <1>5 DEF Merges, Loses
  <2>2. BehindAll(page'.tracks, Quiet)
    BY QuietIs DEF BehindAll
  <2>. QED
    BY <2>1, <2>2, OneAhead
<1>. QED
  BY <1>1, <1>2, <1>3, <1>4, <1>5 DEF PollStep

LEMMA StaysDrawn == Drawn /\ UNCHANGED <<voyage, polls, page, left>> => Drawn'
<1> SUFFICES ASSUME Drawn, UNCHANGED <<voyage, polls, page, left>> PROVE Drawn'
  OBVIOUS
<1>1. PageGood'
  BY DEF Drawn, PageGood, Forward, Told
<1>2. NotAhead => NotAhead'
  BY DEF NotAhead, BehindAll, Behind
<1>3. (Alone => Alone') /\ (Calm => Calm')
  BY DEF Alone, Calm
<1>. QED
  BY <1>1, <1>2, <1>3 DEF Drawn

LEMMA StepDrawn == Sound /\ Drawn /\ [Next]_vars => Drawn'
<1> SUFFICES ASSUME Sound, Drawn, [Next]_vars PROVE Drawn'
  OBVIOUS
<1>a. PageGood /\ NotAhead
  BY CalmIsBehind DEF Drawn
<1>1. CASE UNCHANGED vars
  BY <1>1, StaysDrawn DEF vars
<1>2. CASE Tick \/ RealFix \/ Enters \/ Restarts
  <2>1. Later /\ UNCHANGED <<polls, page>>
    BY <1>2, WritersSound
  <2>2. PageGood'
    BY <1>a, <2>1, WritersDraw
  <2>3. Alone => Alone' /\ NotAhead'
    BY <1>a, <2>1 DEF Alone, NotAhead, BehindAll, Behind
  <2>4. ASSUME Calm PROVE Calm'
    <3>1. voyage \in [DOMAIN voyage -> 0..MaxVoyages]
      BY DEF Sound, Shape
    <3>2. CASE Tick \/ RealFix
      BY <2>4, <3>2 DEF Tick, RealFix, Calm
    <3>3. CASE Enters
      <4>1. PICK b \in DOMAIN voyage : voyage' = [voyage EXCEPT ![b] = 1]
        BY <3>3 DEF Enters
      <4>2. UNCHANGED left
        BY <3>3 DEF Enters
      <4>. QED
        BY <2>4, <3>1, <4>1, <4>2 DEF Calm
    <3>4. CASE Restarts
      BY <2>4, <3>4 DEF Restarts, Calm
    <3>. QED
      BY <1>2, <3>2, <3>3, <3>4
  <2>. QED
    BY <1>a, <2>2, <2>3, <2>4 DEF Drawn
<1>3. CASE Clock
  BY <1>3, StaysDrawn DEF Clock, rows
<1>4. CASE Invalidate
  <2>1. UNCHANGED <<voyage, track, page, left>> /\ DOMAIN polls' = DOMAIN polls
    BY <1>4 DEF Invalidate, rows
  <2>2. ASSUME NEW q \in DOMAIN polls
        PROVE  /\ polls'[q].since = polls[q].since /\ polls'[q].pc = polls[q].pc
               /\ polls'[q].tracks = polls[q].tracks /\ polls'[q].entries = polls[q].entries
    <3>1. polls'[q] = [polls[q] EXCEPT !.crossed = Building(q)] /\ polls[q] \in Poll
      BY <1>4, InvalidateSound, PollIs
    <3>. QED
      BY <3>1 DEF Poll
  <2>3. NotAhead'
    BY <1>a, <2>1, <2>2 DEF NotAhead, BehindAll, Behind
  <2>4. PageGood'
    BY <1>a, <2>1 DEF PageGood, Forward, Told
  <2>. QED
    BY <2>1, <2>3, <2>4 DEF Drawn, Alone, Calm
<1>5. ASSUME NEW q \in DOMAIN polls, PollStep(q) \/ Loses(q) PROVE Drawn'
  <2>1. UNCHANGED <<voyage, track>> /\ DOMAIN polls' = DOMAIN polls
    BY <1>5 DEF PollStep, Lookup, Meta, Store, Asks, Merges, Loses, rows
  <2>2. PageGood'
    <3>1. CASE Merges(q)
      BY <1>a, <3>1, MergesDraw
    <3>2. CASE ~Merges(q)
      <4>1. page'.tracks = page.tracks
        BY <1>5, <3>2, AsksSound DEF PollStep, Lookup, Meta, Store, Loses
      <4>. QED
        BY <1>a, <2>1, <4>1 DEF PageGood, Forward, Told
    <3>. QED
      BY <3>1, <3>2
  <2>3. Alone => Alone' /\ NotAhead'
    BY <1>5, <1>a, <2>1, PollAhead DEF Alone
  <2>4. Calm => Calm'
    <3>1. left' = left \/ left' = [left EXCEPT !.lost = left.lost - 1]
      BY <1>5 DEF PollStep, Lookup, Meta, Store, Asks, Merges, Loses
    <3>2. left'.restarts = left.restarts
      BY <3>1 DEF Sound, Shape
    <3>. QED
      BY <2>1, <3>2 DEF Calm
  <2>. QED
    BY <2>2, <2>3, <2>4 DEF Drawn
<1>. QED
  BY <1>1, <1>2, <1>3, <1>4, <1>5 DEF Next

(***************************************************************************)
(* Unless a boat is restarted while polls overlap, what the page draws of  *)
(* a voyage only goes forward in time.                                     *)
(***************************************************************************)
THEOREM LinesGoForward == Untangled => (Spec => []DrawnForward)
<1>1. Untangled => (Init => Sound /\ Drawn)
  BY InitSound, InitDrawn
<1>2. Sound /\ Drawn /\ [Next]_vars => (Sound /\ Drawn)'
  BY StepSound, StepDrawn
<1>3. Sound /\ Drawn => DrawnForward
  BY DEF Drawn, PageGood, Forward, DrawnForward
<1>. QED
  BY <1>1, <1>2, <1>3, PTL DEF Spec

-----------------------------------------------------------------------------
(***************************************************************************)
(* The AIS feed.  What is in memory agrees with the record as long as no   *)
(* script has come between: who is bound, to which vessel, and who is not. *)
(***************************************************************************)
Agrees ==
  fresh /\ roster.on =>
    /\ \A v \in DOMAIN roster.by : mmsi[roster.by[v]] = v
    /\ \A b \in roster.unbound : mmsi[b] = None
    /\ \A b \in RealBoats : mmsi[b] # None => mmsi[b] \in DOMAIN roster.by

OneBoat ==
  scripts = 0 => /\ script = NoScript /\ fresh
                 /\ \A b, c \in RealBoats : mmsi[b] = mmsi[c] /\ mmsi[b] # None => b = c

(***************************************************************************)
(* No fix is stored later than the last one remembered, and the fix being  *)
(* stored is Gap behind all the others.                                    *)
(***************************************************************************)
GapKept ==
  restarts = 0 =>
    /\ \A b \in RealBoats : \A t \in DOMAIN heard[b] : t <= last[b]
    /\ \A b \in RealBoats : \A t, u \in DOMAIN heard[b] : t < u => u - t >= Gap
    /\ point # NoPoint => /\ last[point.boat] = point.t
                          /\ \A t \in DOMAIN heard[point.boat] : point.t - t >= Gap

LEMMA RosterReadOK ==
  ASSUME RowsOK
  PROVE  /\ Roster.by \in [{mmsi[b] : b \in Bound} -> RealBoats]
         /\ \A v \in {mmsi[b] : b \in Bound} : Roster.by[v] \in Bound /\ mmsi[Roster.by[v]] = v
         /\ {mmsi[b] : b \in Bound} \subseteq Vessels
<1> DEFINE V == {mmsi[b] : b \in Bound}
           Newest(v) == CHOOSE b \in Bound : mmsi[b] = v /\ \A c \in Bound : mmsi[c] = v => c <= b
<1>1. ASSUME NEW v \in V PROVE Newest(v) \in Bound /\ mmsi[Newest(v)] = v
  <2> DEFINE S == {b \in Bound : mmsi[b] = v}
  <2>1. S \in SUBSET RealBoats /\ S # {}
    BY <1>1 DEF Bound
  <2>2. PICK b \in S : \A c \in S : c <= b
    BY <2>1, AisFeedAssumption DEF AisGiven
  <2>. QED
    BY <2>2
<1>2. Roster.by = [v \in V |-> Newest(v)]
  BY DEF Roster
<1>3. V \subseteq Vessels
  BY DEF RowsOK, Bound
<1> HIDE DEF Newest
<1>. QED
  BY <1>1, <1>2, <1>3 DEF Bound

LEMMA FeedInitOK == AisInit => AisTypeOK /\ Agrees /\ OneBoat /\ GapKept
<1> SUFFICES ASSUME AisInit PROVE AisTypeOK /\ Agrees /\ OneBoat /\ GapKept
  OBVIOUS
<1> USE AisFeedAssumption DEF AisGiven
<1>1. FeedOK
  <2>1. roster = [on |-> FALSE, by |-> <<>>, unbound |-> {}] /\ <<>> \in [{} -> RealBoats]
    BY DEF AisInit, NoRoster
  <2>2. <<>> \in UNION {[S -> RealBoats] : S \in SUBSET Vessels}
    BY <2>1
  <2>3. roster \in [on : BOOLEAN, by : UNION {[S -> RealBoats] : S \in SUBSET Vessels},
                   unbound : SUBSET RealBoats]
    BY <2>1, <2>2
  <2>4. DOMAIN roster.by = {}
    BY <2>1
  <2>5. types \subseteq Vessels /\ last \in [RealBoats -> 0..now] /\ point = NoPoint
    BY DEF AisInit
  <2>. QED
    BY <2>3, <2>4, <2>5 DEF FeedOK
<1>2. RowsOK
  <2>1. <<>> \in [{} -> Vessels] /\ {} \in SUBSET (1..now)
    OBVIOUS
  <2>2. <<>> \in UNION {[S -> Vessels] : S \in SUBSET (1..now)}
    BY <2>1
  <2>3. heard = [b \in RealBoats |-> <<>>] /\ mmsi = [b \in RealBoats |-> None] /\ now = 1
    BY DEF AisInit
  <2>4. heard \in [RealBoats -> UNION {[S -> Vessels] : S \in SUBSET (1..now)}]
    BY <2>2, <2>3, Zenon
  <2>. QED
    BY <2>3, <2>4 DEF RowsOK
<1>3. ScriptOK
  BY DEF AisInit, ScriptOK, NoScript
<1>4. over \in BOOLEAN /\ fresh \in BOOLEAN
  BY DEF AisInit
<1>5. Agrees /\ OneBoat /\ GapKept
  BY DEF AisInit, Agrees, OneBoat, GapKept, NoRoster
<1>. QED
  BY <1>1, <1>2, <1>3, <1>4, <1>5 DEF AisTypeOK

FeedHolds == AisTypeOK /\ Agrees /\ OneBoat /\ GapKept

LEMMA ConnectOK == FeedHolds /\ Connect => FeedHolds'
<1> SUFFICES ASSUME FeedHolds, Connect PROVE FeedHolds'
  OBVIOUS
<1> USE AisFeedAssumption DEF AisGiven
<1> DEFINE V == {mmsi[b] : b \in Bound}
<1>1. roster' = Roster /\ fresh' = TRUE
      /\ UNCHANGED <<mmsi, heard, over, types, last, point, script, now, scripts, restarts>>
  BY DEF Connect
<1>2. Roster = [on |-> TRUE, by |-> Roster.by, unbound |-> RealBoats \ Bound]
  BY DEF Roster
<1>3. Roster.by \in [V -> RealBoats] /\ V \in SUBSET Vessels
      /\ \A v \in V : Roster.by[v] \in Bound /\ mmsi[Roster.by[v]] = v
  BY RosterReadOK DEF FeedHolds, AisTypeOK
<1>4. DOMAIN Roster.by = V
  BY <1>3
<1>5. Roster.by \in UNION {[S -> RealBoats] : S \in SUBSET Vessels}
  BY <1>3, Zenon
<1> HIDE DEF V
<1>6. FeedOK'
  <2>1. roster'.on = TRUE /\ roster'.by = Roster.by /\ roster'.unbound = RealBoats \ Bound
    BY <1>1, <1>2
  <2>2. roster' \in [on : BOOLEAN, by : UNION {[S -> RealBoats] : S \in SUBSET Vessels},
                    unbound : SUBSET RealBoats]
    <3>1. PICK f : f = Roster.by
      OBVIOUS
    <3>2. roster' = [on |-> TRUE, by |-> f, unbound |-> RealBoats \ Bound]
      BY <1>1, <1>2, <3>1
    <3>. QED
      BY <1>5, <3>1, <3>2
  <2>3. \A v \in DOMAIN roster'.by : roster'.by[v] \notin roster'.unbound
    BY <2>1, <1>3, <1>4
  <2>. QED
    BY <1>1, <2>2, <2>3 DEF FeedHolds, AisTypeOK, FeedOK
<1>7. AisTypeOK'
  BY <1>1, <1>6 DEF FeedHolds, AisTypeOK, RowsOK, ScriptOK
<1>8. Agrees'
  BY <1>1, <1>2, <1>3, <1>4 DEF Agrees, Bound, V
<1>9. OneBoat' /\ GapKept'
  BY <1>1 DEF FeedHolds, OneBoat, GapKept
<1>. QED
  BY <1>7, <1>8, <1>9 DEF FeedHolds

(***************************************************************************)
(* The fix of a report, if it is not too close.                            *)
(***************************************************************************)
LEMMA TakeOK ==
  ASSUME FeedHolds, point = NoPoint, NEW b \in RealBoats, NEW v \in Vessels, NEW t \in 1..now,
         Take(b, v, t), UNCHANGED <<heard, now, restarts>>
  PROVE  /\ last' \in [RealBoats -> 0..now]
         /\ point' # NoPoint => point' = [boat |-> b, vessel |-> v, t |-> t]
         /\ GapKept'
<1> USE AisFeedAssumption DEF AisGiven
<1>1. last \in [RealBoats -> 0..now] /\ now \in Nat
      /\ heard \in [RealBoats -> UNION {[S -> Vessels] : S \in SUBSET (1..now)}]
  BY DEF FeedHolds, AisTypeOK, FeedOK, RowsOK
<1>2. \A c \in RealBoats : \A u \in DOMAIN heard[c] : u \in Int
  <2>1. ASSUME NEW c \in RealBoats PROVE DOMAIN heard[c] \subseteq 1..now
    <3>0. heard[c] \in UNION {[S -> Vessels] : S \in SUBSET (1..now)}
      BY <1>1, Zenon
    <3>1. PICK S \in SUBSET (1..now) : heard[c] \in [S -> Vessels]
      BY <3>0
    <3>. QED
      BY <3>1
  <2>. QED
    BY <2>1, <1>1
<1>3. CASE Spaced(b, t)
  <2>1. last' = [last EXCEPT ![b] = t] /\ point' = [boat |-> b, vessel |-> v, t |-> t]
        /\ t - last[b] >= Gap
    BY <1>3 DEF Take, Spaced
  <2>2. ASSUME restarts = 0 PROVE GapKept'
    <3>1. /\ \A c \in RealBoats : \A u \in DOMAIN heard[c] : u <= last[c]
          /\ \A c \in RealBoats : \A u, w \in DOMAIN heard[c] : u < w => w - u >= Gap
      BY <2>2 DEF FeedHolds, GapKept
    <3>2. ASSUME NEW u \in DOMAIN heard[b] PROVE t - u >= Gap /\ u <= t
      <4>1. u \in Int /\ t \in Int /\ last[b] \in Int /\ Gap \in Nat
        BY <1>1, <1>2
      <4>2. u <= last[b] /\ t - last[b] >= Gap
        BY <2>1, <3>1
      <4>. QED
        BY <4>1, <4>2
    <3>3. \A c \in RealBoats : \A u \in DOMAIN heard[c] : u <= last'[c]
      BY <1>1, <2>1, <3>1, <3>2
    <3>4. point' # NoPoint => /\ last'[point'.boat] = point'.t
                              /\ \A u \in DOMAIN heard[point'.boat] : point'.t - u >= Gap
      BY <1>1, <2>1, <3>2
    <3>5. heard' = heard
      OBVIOUS
    <3>. QED
      BY <3>1, <3>3, <3>4, <3>5 DEF GapKept
  <2>. QED
    BY <1>1, <2>1, <2>2 DEF GapKept
<1>4. CASE ~Spaced(b, t)
  BY <1>1, <1>4 DEF Take, FeedHolds, GapKept
<1>. QED
  BY <1>3, <1>4

LEMMA ReportKnownOK ==
  ASSUME FeedHolds, NEW v \in Vessels, NEW t \in 1..now, ReportKnown(v, t) PROVE FeedHolds'
<1> USE AisFeedAssumption DEF AisGiven
<1>1. /\ roster.on /\ point = NoPoint /\ v \in DOMAIN roster.by /\ Take(roster.by[v], v, t)
      /\ UNCHANGED <<mmsi, heard, over, roster, types, script, now, scripts, restarts, fresh>>
  BY DEF ReportKnown
<1>2. roster.by[v] \in RealBoats
  <2>1. PICK S \in SUBSET Vessels : roster.by \in [S -> RealBoats]
    BY DEF FeedHolds, AisTypeOK, FeedOK
  <2>. QED
    BY <1>1, <2>1
<1>3. last' \in [RealBoats -> 0..now] /\ GapKept'
      /\ (point' # NoPoint => point' = [boat |-> roster.by[v], vessel |-> v, t |-> t])
  BY <1>1, <1>2, TakeOK
<1>4. FeedOK'
  BY <1>1, <1>2, <1>3 DEF FeedHolds, AisTypeOK, FeedOK
<1>5. AisTypeOK'
  BY <1>1, <1>4 DEF FeedHolds, AisTypeOK, RowsOK, ScriptOK
<1>6. Agrees' /\ OneBoat'
  BY <1>1 DEF FeedHolds, Agrees, OneBoat
<1>. QED
  BY <1>3, <1>5, <1>6 DEF FeedHolds

LEMMA ReportNewOK ==
  ASSUME FeedHolds, NEW v \in Vessels, NEW t \in 1..now, ReportNew(v, t) PROVE FeedHolds'
<1> USE AisFeedAssumption DEF AisGiven
<1>1. PICK b \in Fits(v) :
        /\ mmsi' = [mmsi EXCEPT ![b] = IF mmsi[b] = None THEN v ELSE mmsi[b]]
        /\ roster' = [roster EXCEPT !.unbound = roster.unbound \ {b},
                        !.by = [u \in DOMAIN roster.by \cup {v} |-> IF u = v THEN b ELSE roster.by[u]]]
        /\ Take(b, v, t)
  BY DEF ReportNew, Bind
<1>2. roster.on /\ point = NoPoint /\ v \notin DOMAIN roster.by
      /\ UNCHANGED <<heard, over, types, script, now, scripts, restarts, fresh>>
  BY DEF ReportNew
<1>3. b \in roster.unbound /\ b \in RealBoats
  BY <1>1 DEF Fits, FeedHolds, AisTypeOK, FeedOK
<1>4. last' \in [RealBoats -> 0..now] /\ GapKept'
      /\ (point' # NoPoint => point' = [boat |-> b, vessel |-> v, t |-> t])
  BY <1>1, <1>2, <1>3, TakeOK
<1>5. PICK S \in SUBSET Vessels : roster.by \in [S -> RealBoats]
  BY DEF FeedHolds, AisTypeOK, FeedOK
<1> DEFINE by2 == [u \in DOMAIN roster.by \cup {v} |-> IF u = v THEN b ELSE roster.by[u]]
<1>6. by2 \in [S \cup {v} -> RealBoats] /\ S \cup {v} \in SUBSET Vessels
  BY <1>3, <1>5
<1>7. by2 \in UNION {[X -> RealBoats] : X \in SUBSET Vessels}
  BY <1>6, Zenon
<1>8. roster'.on = roster.on /\ roster'.by = by2 /\ roster'.unbound = roster.unbound \ {b}
      /\ roster' \in [on : BOOLEAN, by : UNION {[X -> RealBoats] : X \in SUBSET Vessels},
                      unbound : SUBSET RealBoats]
  BY <1>1, <1>7 DEF FeedHolds, AisTypeOK, FeedOK
<1>9. \A u \in DOMAIN by2 : by2[u] \notin roster.unbound \ {b}
  BY <1>3, <1>5 DEF FeedHolds, AisTypeOK, FeedOK
<1>10. FeedOK'
  <2>1. point' # NoPoint => point' \in [boat : RealBoats, vessel : Vessels, t : 1..now]
    BY <1>3, <1>4
  <2>. QED
    BY <1>2, <1>4, <1>8, <1>9, <2>1 DEF FeedHolds, AisTypeOK, FeedOK
<1>11. mmsi' \in [RealBoats -> Vessels \cup {None}]
  BY <1>1 DEF FeedHolds, AisTypeOK, RowsOK
<1>12. AisTypeOK'
  BY <1>2, <1>10, <1>11 DEF FeedHolds, AisTypeOK, RowsOK, ScriptOK
<1>13. ASSUME fresh PROVE mmsi[b] = None /\ mmsi'[b] = v /\ \A c \in RealBoats : mmsi[c] # v
  BY <1>1, <1>2, <1>3, <1>13 DEF FeedHolds, Agrees, AisTypeOK, RowsOK
<1>14. \A c \in RealBoats \ {b} : mmsi'[c] = mmsi[c]
  BY <1>1 DEF FeedHolds, AisTypeOK, RowsOK
<1>15. Agrees'
  <2>1. SUFFICES ASSUME fresh, roster.on
                 PROVE  /\ \A u \in DOMAIN by2 : mmsi'[by2[u]] = u
                        /\ \A c \in roster.unbound \ {b} : mmsi'[c] = None
                        /\ \A c \in RealBoats : mmsi'[c] # None => mmsi'[c] \in DOMAIN by2
    BY <1>2, <1>8 DEF Agrees
  <2>2. /\ \A u \in DOMAIN roster.by : mmsi[roster.by[u]] = u
        /\ \A c \in roster.unbound : mmsi[c] = None
        /\ \A c \in RealBoats : mmsi[c] # None => mmsi[c] \in DOMAIN roster.by
    BY <2>1 DEF FeedHolds, Agrees
  <2>3. ASSUME NEW u \in DOMAIN by2 PROVE mmsi'[by2[u]] = u
    BY <1>3, <1>5, <1>13, <1>14, <2>1, <2>2, <2>3, ZenonT(30) DEF FeedHolds, AisTypeOK, FeedOK
  <2>4. roster.unbound \subseteq RealBoats
    BY DEF FeedHolds, AisTypeOK, FeedOK
  <2>. QED
    BY <1>13, <1>14, <2>1, <2>2, <2>3, <2>4
<1>16. OneBoat'
  <2>1. SUFFICES ASSUME scripts = 0
                 PROVE  script = NoScript /\ fresh
                        /\ \A c, d \in RealBoats : mmsi'[c] = mmsi'[d] /\ mmsi'[c] # None => c = d
    BY <1>2 DEF OneBoat
  <2>2. script = NoScript /\ fresh /\ \A c, d \in RealBoats : mmsi[c] = mmsi[d] /\ mmsi[c] # None => c = d
    BY <2>1 DEF FeedHolds, OneBoat
  <2>. QED
    BY <1>13, <1>14, <2>2
<1>. QED
  BY <1>4, <1>12, <1>15, <1>16 DEF FeedHolds

LEMMA StoreOK == FeedHolds /\ StoreFix => FeedHolds'
<1> SUFFICES ASSUME FeedHolds, StoreFix PROVE FeedHolds'
  OBVIOUS
<1> USE AisFeedAssumption DEF AisGiven
<1> DEFINE b == point.boat
           stored == [t \in DOMAIN heard[point.boat] \cup {point.t} |->
                        IF t \in DOMAIN heard[point.boat] THEN heard[point.boat][t] ELSE point.vessel]
<1>1. /\ point # NoPoint /\ point' = NoPoint /\ heard' = [heard EXCEPT ![point.boat] = stored]
      /\ UNCHANGED <<mmsi, over, roster, types, last, script, now, scripts, restarts, fresh>>
  BY DEF StoreFix
<1>2. b \in RealBoats /\ point.vessel \in Vessels /\ point.t \in 1..now
      /\ heard \in [RealBoats -> UNION {[S -> Vessels] : S \in SUBSET (1..now)}]
      /\ last \in [RealBoats -> 0..now] /\ now \in Nat
  BY <1>1 DEF FeedHolds, AisTypeOK, FeedOK, RowsOK
<1>3. ASSUME NEW c \in RealBoats
      PROVE  \E S \in SUBSET (1..now) : heard[c] \in [S -> Vessels] /\ DOMAIN heard[c] = S
  <2>1. heard[c] \in UNION {[S -> Vessels] : S \in SUBSET (1..now)}
    BY <1>2, Zenon
  <2>. QED
    BY <2>1
<1>4. PICK S \in SUBSET (1..now) : heard[b] \in [S -> Vessels] /\ DOMAIN heard[b] = S
  BY <1>2, <1>3
<1>5. stored \in [S \cup {point.t} -> Vessels] /\ S \cup {point.t} \in SUBSET (1..now)
      /\ DOMAIN stored = S \cup {point.t}
  BY <1>2, <1>4
<1>6. stored \in UNION {[X -> Vessels] : X \in SUBSET (1..now)}
  BY <1>5, Zenon
<1>7. heard' \in [RealBoats -> UNION {[X -> Vessels] : X \in SUBSET (1..now)}]
      /\ heard'[b] = stored /\ \A c \in RealBoats \ {b} : heard'[c] = heard[c]
  <2> HIDE DEF stored
  <2>. QED
    BY <1>1, <1>2, <1>6
<1>8. AisTypeOK'
  BY <1>1, <1>7 DEF FeedHolds, AisTypeOK, FeedOK, RowsOK, ScriptOK
<1>9. Agrees' /\ OneBoat'
  BY <1>1 DEF FeedHolds, Agrees, OneBoat
<1>10. ASSUME restarts = 0
       PROVE  /\ \A c \in RealBoats : \A t \in DOMAIN heard'[c] : t <= last[c]
              /\ \A c \in RealBoats : \A t, u \in DOMAIN heard'[c] : t < u => u - t >= Gap
  <2>1. /\ \A c \in RealBoats : \A t \in DOMAIN heard[c] : t <= last[c]
        /\ \A c \in RealBoats : \A t, u \in DOMAIN heard[c] : t < u => u - t >= Gap
        /\ last[b] = point.t /\ \A t \in DOMAIN heard[b] : point.t - t >= Gap
    BY <1>1, <1>10 DEF FeedHolds, GapKept
  <2>0. S \subseteq Int /\ point.t \in Int
    BY <1>2, <1>4
  <2>a. last[b] = point.t /\ \A t \in S : t <= last[b]
    BY <1>2, <1>4, <2>1
  <2>b. point.t <= last[b]
    BY <2>0, <2>a
  <2>2. \A t \in S \cup {point.t} : t <= last[b] /\ t \in Int
    <3> HIDE DEF stored, b
    <3>. QED
      BY <2>0, <2>a, <2>b
  <2>3. \A t, u \in S : t < u => u - t >= Gap
    BY <1>2, <1>4, <2>1
  <2>4. \A t \in S : point.t - t >= Gap
    BY <1>4, <2>1
  <2>5. ASSUME NEW t \in S \cup {point.t}, NEW u \in S \cup {point.t}, t < u PROVE u - t >= Gap
    BY <2>0, <2>1, <2>2, <2>3, <2>4, <2>5
  <2> HIDE DEF stored, b
  <2>. QED
    BY <1>5, <1>7, <2>1, <2>2, <2>5
<1>11. GapKept'
  BY <1>1, <1>10 DEF GapKept
<1>. QED
  BY <1>8, <1>9, <1>11 DEF FeedHolds

LEMMA ScriptWritesOK == FeedHolds /\ ScriptWrites => FeedHolds'
<1> SUFFICES ASSUME FeedHolds, ScriptWrites PROVE FeedHolds'
  OBVIOUS
<1> USE AisFeedAssumption DEF AisGiven
<1>1. /\ script # NoScript /\ script' = NoScript /\ fresh' = FALSE
      /\ heard' = heard \/ heard' = [heard EXCEPT ![script.boat] = <<>>]
      /\ UNCHANGED <<over, feedVars, now, scripts, restarts>>
  BY DEF ScriptWrites
<1>2. mmsi' \in [RealBoats -> Vessels \cup {None}]
  BY DEF ScriptWrites, FeedHolds, AisTypeOK, RowsOK, ScriptOK
<1>3. heard \in [RealBoats -> UNION {[S -> Vessels] : S \in SUBSET (1..now)}] /\ now \in Nat
  BY DEF FeedHolds, AisTypeOK, RowsOK
<1>4. heard' \in [RealBoats -> UNION {[S -> Vessels] : S \in SUBSET (1..now)}]
  <2>1. <<>> \in [{} -> Vessels] /\ {} \in SUBSET (1..now)
    OBVIOUS
  <2>2. <<>> \in UNION {[S -> Vessels] : S \in SUBSET (1..now)}
    BY <2>1
  <2>. QED
    BY <1>1, <1>3, <2>2, ZenonT(30)
<1>5. \A c \in RealBoats : heard'[c] = heard[c] \/ (heard'[c] = <<>> /\ DOMAIN heard'[c] = {})
  BY <1>1, <1>3
<1>6. AisTypeOK'
  BY <1>1, <1>2, <1>4 DEF feedVars, FeedHolds, AisTypeOK, FeedOK, RowsOK, ScriptOK, NoScript
<1>7. Agrees'
  BY <1>1 DEF Agrees
<1>8. OneBoat'
  BY <1>1 DEF FeedHolds, OneBoat
<1>9. ASSUME restarts = 0 PROVE GapKept'
  <2>1. /\ \A b \in RealBoats : \A t \in DOMAIN heard[b] : t <= last[b]
        /\ \A b \in RealBoats : \A t, u \in DOMAIN heard[b] : t < u => u - t >= Gap
        /\ point # NoPoint => /\ last[point.boat] = point.t /\ point.boat \in RealBoats
                              /\ \A t \in DOMAIN heard[point.boat] : point.t - t >= Gap
    BY <1>9 DEF FeedHolds, GapKept, AisTypeOK, FeedOK
  <2>. QED
    BY <1>1, <1>5, <2>1 DEF GapKept, feedVars
<1>10. GapKept'
  BY <1>1, <1>9 DEF GapKept
<1>. QED
  BY <1>6, <1>7, <1>8, <1>10 DEF FeedHolds

LEMMA RestartOK == FeedHolds /\ Restart => FeedHolds'
<1> SUFFICES ASSUME FeedHolds, Restart PROVE FeedHolds'
  OBVIOUS
<1> USE AisFeedAssumption DEF AisGiven
<1>1. /\ restarts' = restarts + 1 /\ roster' = [on |-> FALSE, by |-> <<>>, unbound |-> {}]
      /\ types' = {} /\ last' = [b \in RealBoats |-> 0] /\ point' = NoPoint
      /\ UNCHANGED <<mmsi, heard, over, script, now, scripts, fresh>>
  BY DEF Restart, NoRoster
<1>2. <<>> \in [{} -> RealBoats] /\ {} \in SUBSET Vessels /\ DOMAIN <<>> = {}
  OBVIOUS
<1>3. <<>> \in UNION {[S -> RealBoats] : S \in SUBSET Vessels}
  BY <1>2
<1>4. roster' \in [on : BOOLEAN, by : UNION {[S -> RealBoats] : S \in SUBSET Vessels},
                 unbound : SUBSET RealBoats]
      /\ DOMAIN roster'.by = {} /\ ~roster'.on
  BY <1>1, <1>2, <1>3
<1>5. FeedOK'
  <2>1. now \in Nat
    BY DEF FeedHolds, AisTypeOK, RowsOK
  <2>2. last' \in [RealBoats -> 0..now']
    BY <1>1, <2>1
  <2>. QED
    BY <1>1, <1>4, <2>1, <2>2 DEF FeedOK
<1>6. AisTypeOK'
  BY <1>1, <1>5 DEF FeedHolds, AisTypeOK, RowsOK, ScriptOK
<1>7. restarts' # 0
  BY <1>1 DEF FeedHolds, AisTypeOK, ScriptOK
<1>8. Agrees' /\ OneBoat' /\ GapKept'
  BY <1>1, <1>4, <1>7 DEF FeedHolds, Agrees, OneBoat, GapKept
<1>. QED
  BY <1>6, <1>8 DEF FeedHolds

LEMMA FeedStepOK == FeedHolds /\ [AisNext]_aisVars => FeedHolds'
<1> SUFFICES ASSUME FeedHolds, [AisNext]_aisVars PROVE FeedHolds'
  OBVIOUS
<1> USE AisFeedAssumption DEF AisGiven
<1>1. CASE AisClock
  <2>1. now' = now + 1 /\ UNCHANGED <<mmsi, heard, over, feedVars, script, scripts, restarts, fresh>>
    BY <1>1 DEF AisClock
  <2>2. now \in Nat /\ 1..now \subseteq 1..now' /\ 0..now \subseteq 0..now'
    BY <2>1 DEF FeedHolds, AisTypeOK, RowsOK
  <2>3. SUBSET (1..now) \subseteq SUBSET (1..now')
    BY <2>2
  <2>4. UNION {[S -> Vessels] : S \in SUBSET (1..now)} \subseteq UNION {[S -> Vessels] : S \in SUBSET (1..now')}
    BY <2>3, Zenon
  <2>5. RowsOK'
    BY <2>1, <2>2, <2>4 DEF FeedHolds, AisTypeOK, RowsOK
  <2>6. FeedOK'
    BY <2>1, <2>2 DEF FeedHolds, AisTypeOK, FeedOK, feedVars
  <2>7. AisTypeOK'
    BY <2>1, <2>5, <2>6 DEF FeedHolds, AisTypeOK, ScriptOK
  <2>8. Agrees' /\ OneBoat' /\ GapKept'
    BY <2>1 DEF FeedHolds, Agrees, OneBoat, GapKept, feedVars
  <2>. QED
    BY <2>7, <2>8 DEF FeedHolds
<1>2. CASE ResultsIn
  <2>1. over' = TRUE /\ UNCHANGED <<mmsi, heard, feedVars, script, now, scripts, restarts, fresh>>
    BY <1>2 DEF ResultsIn
  <2>. QED
    BY <2>1 DEF FeedHolds, AisTypeOK, FeedOK, RowsOK, ScriptOK, Agrees, OneBoat, GapKept, feedVars
<1>3. CASE SessionEnds
  <2>1. roster' = [roster EXCEPT !.on = FALSE]
        /\ UNCHANGED <<mmsi, heard, over, types, last, point, script, now, scripts, restarts, fresh>>
    BY <1>3 DEF SessionEnds
  <2>2. roster' \in [on : BOOLEAN, by : UNION {[S -> RealBoats] : S \in SUBSET Vessels}, unbound : SUBSET RealBoats]
        /\ roster'.by = roster.by /\ roster'.unbound = roster.unbound /\ ~roster'.on
    BY <2>1 DEF FeedHolds, AisTypeOK, FeedOK
  <2>. QED
    BY <2>1, <2>2 DEF FeedHolds, AisTypeOK, FeedOK, RowsOK, ScriptOK, Agrees, OneBoat, GapKept
<1>4. CASE ScriptReads
  <2>1. scripts' = scripts + 1 /\ UNCHANGED <<mmsi, heard, over, feedVars, now, restarts, fresh>>
    BY <1>4 DEF ScriptReads
  <2>2. script' \in [boat : RealBoats \cup {None}, to : Vessels \cup {None}, other : BOOLEAN]
    <3>1. \E b \in RealBoats, v \in Vessels \cup {None} :
            script' = [boat |-> b, to |-> v, other |-> v # None /\ \E c \in RealBoats \ {b} : mmsi[c] = v]
      BY <1>4 DEF ScriptReads
    <3>2. \E b \in RealBoats, v \in Vessels \cup {None}, o \in BOOLEAN : script' = [boat |-> b, to |-> v, other |-> o]
      BY <3>1, Zenon
    <3>. QED
      BY <3>2
  <2>3. ScriptOK' /\ scripts' # 0
    BY <2>1, <2>2 DEF FeedHolds, AisTypeOK, ScriptOK
  <2>. QED
    BY <2>1, <2>3 DEF FeedHolds, AisTypeOK, FeedOK, RowsOK, Agrees, OneBoat, GapKept, feedVars
<1>5. ASSUME NEW v \in Vessels, StaticReport(v) PROVE FeedHolds'
  <2>1. types' = types \cup {v}
        /\ UNCHANGED <<mmsi, heard, over, roster, last, point, script, now, scripts, restarts, fresh>>
    BY <1>5 DEF StaticReport
  <2>. QED
    BY <2>1 DEF FeedHolds, AisTypeOK, FeedOK, RowsOK, ScriptOK, Agrees, OneBoat, GapKept
<1>6. ASSUME NEW v \in Vessels, Report(v) PROVE FeedHolds'
  BY <1>6, ReportKnownOK, ReportNewOK DEF Report
<1>7. CASE UNCHANGED aisVars
  BY <1>7 DEF aisVars, FeedHolds, AisTypeOK, FeedOK, RowsOK, ScriptOK, Agrees, OneBoat, GapKept, feedVars
<1>. QED
  BY <1>1, <1>2, <1>3, <1>4, <1>5, <1>6, <1>7, ConnectOK, StoreOK, ScriptWritesOK, RestartOK DEF AisNext

LEMMA FeedAlwaysHolds == AisSpec => []FeedHolds
<1>1. AisInit => FeedHolds
  BY FeedInitOK DEF FeedHolds
<1>2. FeedHolds /\ [AisNext]_aisVars => FeedHolds'
  BY FeedStepOK
<1>. QED
  BY <1>1, <1>2, PTL DEF AisSpec

(***************************************************************************)
(* The feed by itself never gives a transponder to two boats, and never    *)
(* stores two fixes of a boat closer than Gap.                             *)
(***************************************************************************)
THEOREM OneBoatEach == AisSpec => []OneBoatPerVessel
<1>1. FeedHolds => OneBoatPerVessel
  BY DEF FeedHolds, OneBoat, GapKept, OneBoatPerVessel
<1>. QED
  BY <1>1, FeedAlwaysHolds, PTL

(***************************************************************************)
(* A binding on record is never changed by the feed, and a fix goes to the *)
(* boat its vessel is bound to in every session without a script.          *)
(***************************************************************************)
THEOREM RecordIsKept == AisSpec => KeepsToRecord
<1>1. FeedHolds /\ [AisNext]_aisVars =>
        [/\ script' = script => \A b \in RealBoats : mmsi[b] # None => mmsi'[b] = mmsi[b]
         /\ fresh /\ point' \notin {point, NoPoint} => mmsi'[point'.boat] = point'.vessel]_aisVars
  <2> SUFFICES ASSUME FeedHolds, AisNext
               PROVE  /\ script' = script => \A b \in RealBoats : mmsi[b] # None => mmsi'[b] = mmsi[b]
                      /\ fresh /\ point' \notin {point, NoPoint} => mmsi'[point'.boat] = point'.vessel
    OBVIOUS
  <2> USE AisFeedAssumption DEF AisGiven
  <2>1. ASSUME NEW v \in Vessels, NEW t \in 1..now, ReportKnown(v, t)
        PROVE  mmsi' = mmsi /\ (fresh /\ point' \notin {point, NoPoint} => mmsi'[point'.boat] = point'.vessel)
    <3>1. mmsi' = mmsi /\ roster.on /\ v \in DOMAIN roster.by
      BY <2>1 DEF ReportKnown
    <3>2. point' # point => point' = [boat |-> roster.by[v], vessel |-> v, t |-> t]
      BY <2>1 DEF ReportKnown, Take
    <3>. QED
      BY <3>1, <3>2 DEF FeedHolds, Agrees
  <2>2. ASSUME NEW v \in Vessels, NEW t \in 1..now, ReportNew(v, t)
        PROVE  /\ \A b \in RealBoats : mmsi[b] # None => mmsi'[b] = mmsi[b]
               /\ fresh /\ point' \notin {point, NoPoint} => mmsi'[point'.boat] = point'.vessel
    <3>1. PICK b \in Fits(v) : /\ mmsi' = [mmsi EXCEPT ![b] = IF mmsi[b] = None THEN v ELSE mmsi[b]]
                               /\ point' # point => point' = [boat |-> b, vessel |-> v, t |-> t]
      BY <2>2 DEF ReportNew, Bind, Take
    <3>2. b \in RealBoats /\ b \in roster.unbound /\ roster.on
      BY <2>2, <3>1 DEF ReportNew, Fits, FeedHolds, AisTypeOK, FeedOK
    <3>3. mmsi \in [RealBoats -> Vessels \cup {None}]
      BY DEF FeedHolds, AisTypeOK, RowsOK
    <3>4. \A c \in RealBoats : mmsi[c] # None => mmsi'[c] = mmsi[c]
      BY <3>1, <3>2, <3>3
    <3>5. ASSUME fresh PROVE mmsi'[b] = v
      <4>1. mmsi[b] = None
        BY <3>2, <3>5 DEF FeedHolds, Agrees
      <4>. QED
        BY <3>1, <3>2, <3>3, <4>1
    <3>6. point' # point => point'.boat = b /\ point'.vessel = v
      BY <3>1
    <3>. QED
      BY <3>4, <3>5, <3>6
  <2>3. CASE ScriptWrites
    <3>1. script' # script
      BY <2>3 DEF ScriptWrites
    <3>2. point' = point
      BY <2>3 DEF ScriptWrites, feedVars
    <3>. QED
      BY <3>1, <3>2
  <2>4. CASE AisClock \/ ResultsIn \/ Connect \/ SessionEnds \/ StoreFix \/ ScriptReads \/ Restart
             \/ \E v \in Vessels : StaticReport(v)
    <3>1. mmsi' = mmsi /\ point' \in {point, NoPoint}
      BY <2>4 DEF AisClock, ResultsIn, Connect, SessionEnds, StoreFix, ScriptReads, Restart, StaticReport, feedVars
    <3>. QED
      BY <3>1
  <2>. QED
    BY <2>1, <2>2, <2>3, <2>4 DEF AisNext, Report
<1>. QED
  BY <1>1, FeedAlwaysHolds, PTL DEF AisSpec, KeepsToRecord

-----------------------------------------------------------------------------
(***************************************************************************)
(* The row of a real boat.                                                 *)
(***************************************************************************)
IsTable(f) == f = [x \in DOMAIN f |-> f[x]]

-----------------------------------------------------------------------------
(***************************************************************************)
(* The marks one fix passes.                                               *)
(***************************************************************************)
LEMMA NextMark ==
  ASSUME NEW n \in 1..(Finish + 1), NEW p \in Places
  PROVE  /\ NextAfter(n, p) \in n..(Finish + 1)
         /\ NextAfter(n, p) \notin Near[p] /\ n..(NextAfter(n, p) - 1) \subseteq Near[p]
<1> USE RealFleetAssumption DEF FleetGiven
<1> DEFINE far == {m \in n..(Finish + 1) : m \notin Near[p]}
<1>1. far # {} /\ far \in SUBSET Nat
  <2>1. Finish + 1 \notin Near[p]
    OBVIOUS
  <2>. QED
    BY <2>1
<1>2. PICK m \in far : \A y \in far : m <= y
  <2> HIDE DEF far
  <2>. QED
    BY <1>1, LeastOf
<1>3. m \in n..(Finish + 1) /\ m \notin Near[p]
  BY <1>2
<1>4. ASSUME NEW k \in n..(m - 1) PROVE k \in Near[p]
  <2>1. k \in n..(Finish + 1) /\ ~(m <= k)
    BY <1>3, <1>4
  <2>. QED
    BY <1>2, <2>1
<1>5. n..(m - 1) \subseteq Near[p]
  BY <1>4
<1>. QED
  BY <1>3, <1>5 DEF NextAfter

(***************************************************************************)
(* A fix later than the track.  What was passed by then stays as it was;   *)
(* of the marks that follow, those are passed that are near in a row.      *)
(***************************************************************************)
OneMore(tr, tr2, t, p) ==
  /\ t \in FixTimes /\ p \in Places
  /\ DOMAIN tr \subseteq FixTimes /\ \A u \in DOMAIN tr : u < t
  /\ DOMAIN tr2 = DOMAIN tr \cup {t} /\ tr2[t] = p
  /\ \A u \in DOMAIN tr : tr2[u] = tr[u]

LEMMA PassedEarlier ==
  ASSUME NEW tr, NEW tr2, NEW t, NEW p, OneMore(tr, tr2, t, p), NEW m \in Nat, NEW u \in DOMAIN tr
  PROVE  PassedBy(tr2, m, u) <=> PassedBy(tr, m, u)
<1>1. {x \in DOMAIN tr2 : x <= u} = {x \in DOMAIN tr : x <= u}
  BY DEF OneMore, FixTimes
<1>2. \A x \in {y \in DOMAIN tr : y <= u} : tr2[x] = tr[x]
  BY DEF OneMore
<1>. QED
  BY <1>1, <1>2 DEF PassedBy

\* How far the row of a boat with this track has come.
Come(next, fix, tr) ==
  /\ next \in 1..(Finish + 1) /\ fix \in DOMAIN tr \cup {None}
  /\ \A u \in DOMAIN tr : fix # None /\ u <= fix
  /\ \A m \in 1..Finish : next > m <=> fix # None /\ PassedBy(tr, m, fix)

\* Marks passed on the way to one passed are passed.
LEMMA PassedOnTheWay ==
  ASSUME NEW tr, NEW t, NEW m \in Nat, NEW k \in 0..m, PassedBy(tr, m, t)
  PROVE  PassedBy(tr, k, t)
<1>1. PICK at \in [1..m -> {u \in DOMAIN tr : u <= t}] :
         /\ \A i \in 1..m : i \in Near[tr[at[i]]]
         /\ \A i, j \in 1..m : i <= j => at[i] <= at[j]
  BY DEF PassedBy
<1>2. 1..k \subseteq 1..m
  OBVIOUS
<1>3. PICK a : a = [i \in 1..k |-> at[i]]
  OBVIOUS
<1>4. a \in [1..k -> {u \in DOMAIN tr : u <= t}]
  BY <1>1, <1>2, <1>3
<1>. QED
  BY <1>1, <1>2, <1>3, <1>4 DEF PassedBy

\* Marks near the last fix are passed once those before them are.
LEMMA PassesNear ==
  ASSUME NEW tr, DOMAIN tr \subseteq FixTimes, NEW t \in DOMAIN tr, NEW k \in Nat, NEW m \in Nat, k <= m,
         PassedBy(tr, k, t), \A i \in (k + 1)..m : i \in Near[tr[t]]
  PROVE  PassedBy(tr, m, t)
<1>1. PICK at \in [1..k -> {u \in DOMAIN tr : u <= t}] :
         /\ \A i \in 1..k : i \in Near[tr[at[i]]]
         /\ \A i, j \in 1..k : i <= j => at[i] <= at[j]
  BY DEF PassedBy
<1>2. PICK a : a = [i \in 1..m |-> IF i <= k THEN at[i] ELSE t]
  OBVIOUS
<1>3. t \in {u \in DOMAIN tr : u <= t}
  BY DEF FixTimes
<1>4. \A i \in 1..m : i <= k => i \in 1..k /\ a[i] = at[i]
  BY <1>2
<1>5. \A i \in 1..m : ~(i <= k) => i \in (k + 1)..m /\ a[i] = t
  BY <1>2
<1>6. \A i \in 1..k : at[i] \in DOMAIN tr /\ at[i] <= t
  BY <1>1
<1>7. a \in [1..m -> {u \in DOMAIN tr : u <= t}]
  BY <1>1, <1>2, <1>3, <1>4
<1>8. \A i \in 1..m : i \in Near[tr[a[i]]]
  BY <1>1, <1>4, <1>5
<1>9. ASSUME NEW i \in 1..m, NEW j \in 1..m, i <= j PROVE a[i] <= a[j]
  <2>1. CASE j <= k
    BY <1>1, <1>4, <1>9, <2>1
  <2>2. CASE ~(j <= k) /\ i <= k
    BY <1>4, <1>5, <1>6, <2>2
  <2>3. CASE ~(j <= k) /\ ~(i <= k)
    BY <1>3, <1>5, <2>3
  <2>. QED
    BY <2>1, <2>2, <2>3
<1>. QED
  BY <1>7, <1>8, <1>9 DEF PassedBy

\* If they are passed by the last fix, those not passed before are near it.
LEMMA NearIfPassed ==
  ASSUME NEW tr, NEW tr2, NEW t, NEW p, OneMore(tr, tr2, t, p), NEW m \in Nat, PassedBy(tr2, m, t)
  PROVE  \E k \in 0..m : /\ \A i \in (k + 1)..m : i \in Near[p]
                         /\ k > 0 => \E u \in DOMAIN tr : PassedBy(tr, k, u)
<1>1. PICK at \in [1..m -> {u \in DOMAIN tr2 : u <= t}] :
         /\ \A i \in 1..m : i \in Near[tr2[at[i]]]
         /\ \A i, j \in 1..m : i <= j => at[i] <= at[j]
  BY DEF PassedBy
<1>2. \A i \in 1..m : at[i] \in DOMAIN tr2 /\ (at[i] = t \/ at[i] \in DOMAIN tr)
  BY <1>1 DEF OneMore
<1> DEFINE late == {i \in 1..m : at[i] = t}
<1>3. CASE late = {}
  <2>1. CASE m = 0
    BY <2>1
  <2>2. CASE m > 0
    <3>1. \A i \in 1..m : at[i] \in DOMAIN tr /\ at[i] <= at[m]
      BY <1>1, <1>2, <1>3, <2>2
    <3>2. at \in [1..m -> {u \in DOMAIN tr : u <= at[m]}]
      BY <1>1, <3>1
    <3>3. \A i \in 1..m : i \in Near[tr[at[i]]]
      BY <1>1, <3>1 DEF OneMore
    <3>4. PassedBy(tr, m, at[m]) /\ at[m] \in DOMAIN tr
      BY <1>1, <2>2, <3>1, <3>2, <3>3 DEF PassedBy
    <3>. QED
      BY <3>4
  <2>. QED
    BY <2>1, <2>2
<1>4. CASE late # {}
  <2>1. PICK f \in late : \A i \in late : f <= i
    <3>1. late \in SUBSET Nat
      OBVIOUS
    <3> HIDE DEF late
    <3>. QED
      BY <1>4, <3>1, LeastOf
  <2>2. f \in 1..m /\ at[f] = t
    BY <2>1
  <2>3. ASSUME NEW i \in f..m PROVE i \in Near[p]
    <3>1. i \in 1..m /\ t <= at[i] /\ at[i] <= t
      BY <1>1, <2>2, <2>3
    <3>2. at[i] = t
      BY <1>2, <3>1 DEF OneMore, FixTimes
    <3>. QED
      BY <1>1, <3>1, <3>2 DEF OneMore
  <2>4. ASSUME NEW i \in 1..(f - 1) PROVE i \in 1..m /\ at[i] \in DOMAIN tr
    <3>1. i \in 1..m /\ ~(f <= i)
      BY <2>2, <2>4
    <3>2. i \notin late
      BY <2>1, <3>1
    <3>. QED
      BY <1>2, <3>1, <3>2
  <2>5. CASE f = 1
    <3>1. 0 \in 0..m /\ \A i \in (0 + 1)..m : i \in Near[p]
      BY <2>3, <2>5
    <3>. QED
      BY <3>1
  <2>6. CASE f > 1
    <3>1. PICK k : k = f - 1
      OBVIOUS
    <3>2. k \in 1..m /\ k + 1 = f /\ k = f - 1
      BY <2>2, <2>6, <3>1
    <3>3. PICK a : a = [i \in 1..k |-> at[i]]
      OBVIOUS
    <3>4. \A i \in 1..k : i \in 1..m /\ a[i] = at[i] /\ at[i] \in DOMAIN tr /\ at[i] <= at[k]
      BY <1>1, <2>4, <3>2, <3>3
    <3>5. a \in [1..k -> {u \in DOMAIN tr : u <= at[k]}]
      BY <3>3, <3>4
    <3>6. \A i \in 1..k : i \in Near[tr[a[i]]]
      BY <1>1, <3>4 DEF OneMore
    <3>7. \A i, j \in 1..k : i <= j => a[i] <= a[j]
      BY <1>1, <3>4
    <3>8. PassedBy(tr, k, at[k]) /\ at[k] \in DOMAIN tr
      BY <3>2, <3>4, <3>5, <3>6, <3>7, SMTT(30) DEF PassedBy
    <3>9. k \in 0..m /\ \A i \in (k + 1)..m : i \in Near[p]
      BY <2>3, <3>2
    <3>10. \E u \in DOMAIN tr : PassedBy(tr, k, u)
      BY <3>8
    <3>. QED
      BY <3>9, <3>10, Zenon
  <2>. QED
    BY <2>2, <2>5, <2>6
<1>. QED
  BY <1>3, <1>4

LEMMA PassedLater ==
  ASSUME NEW tr, DOMAIN tr \subseteq FixTimes, NEW m, NEW t \in FixTimes, NEW u \in FixTimes, t <= u, PassedBy(tr, m, t)
  PROVE  PassedBy(tr, m, u)
<1>1. {x \in DOMAIN tr : x <= t} \subseteq {x \in DOMAIN tr : x <= u}
  BY DEF FixTimes
<1>. QED
  BY <1>1 DEF PassedBy

LEMMA ComesOn ==
  ASSUME NEW tr, NEW tr2, NEW t, NEW p, OneMore(tr, tr2, t, p),
         NEW n, NEW fix, Come(n, fix, tr)
  PROVE  Come(NextAfter(n, p), t, tr2)
<1> USE RealFleetAssumption DEF FleetGiven
<1>1. PICK n2 : n2 = NextAfter(n, p)
  OBVIOUS
<1>2. n \in 1..(Finish + 1) /\ n2 \in n..(Finish + 1) /\ n2 \notin Near[p] /\ n..(n2 - 1) \subseteq Near[p]
  BY <1>1, NextMark DEF Come, OneMore
<1>3. n2 \in 1..(Finish + 1)
  BY <1>2
<1>4. t \in DOMAIN tr2 /\ (\A u \in DOMAIN tr2 : u <= t) /\ DOMAIN tr2 \subseteq FixTimes /\ t # None
  BY DEF OneMore, FixTimes
<1>5. n > 1 => fix \in DOMAIN tr /\ PassedBy(tr, n - 1, fix)
  BY <1>2 DEF Come
<1>6. PassedBy(tr2, n - 1, t)
  <2>1. CASE n = 1
    <3>1. n - 1 = 0
      BY <2>1
    <3>2. \E at : at \in [1..0 -> {u \in DOMAIN tr2 : u <= t}]
      <4>1. [i \in 1..0 |-> t] \in [1..0 -> {u \in DOMAIN tr2 : u <= t}]
        OBVIOUS
      <4>. QED
        BY <4>1
    <3>3. \A i : i \notin 1..0
      OBVIOUS
    <3>. QED
      BY <3>1, <3>2, <3>3 DEF PassedBy
  <2>2. CASE n > 1
    <3>1. PassedBy(tr2, n - 1, fix) /\ fix \in DOMAIN tr /\ n - 1 \in Nat
      BY <1>2, <1>5, <2>2, PassedEarlier
    <3>2. fix \in FixTimes /\ t \in FixTimes /\ fix <= t
      BY <3>1 DEF OneMore, FixTimes
    <3>. QED
      BY <1>4, <3>1, <3>2, PassedLater
  <2>. QED
    BY <1>2, <2>1, <2>2
<1>7. ASSUME NEW m \in 1..Finish, n2 > m PROVE PassedBy(tr2, m, t)
  <2>1. CASE m < n
    <3>1. m \in 0..(n - 1) /\ n - 1 \in Nat
      BY <1>2, <2>1
    <3>. QED
      BY <1>6, <3>1, PassedOnTheWay
  <2>2. CASE ~(m < n)
    <3>1. n - 1 \in Nat /\ m \in Nat /\ n - 1 <= m
      BY <1>2, <2>2
    <3>2. \A i \in ((n - 1) + 1)..m : i \in n..(n2 - 1)
      BY <1>2, <1>7
    <3>3. \A i \in ((n - 1) + 1)..m : i \in Near[tr2[t]]
      BY <1>2, <3>2 DEF OneMore
    <3>. QED
      BY <1>4, <1>6, <3>1, <3>3, PassesNear
  <2>. QED
    BY <2>1, <2>2
<1>8. ASSUME NEW m \in 1..Finish, PassedBy(tr2, m, t) PROVE n2 > m
  <2>1. PICK k \in 0..m : /\ \A i \in (k + 1)..m : i \in Near[p]
                          /\ k > 0 => \E u \in DOMAIN tr : PassedBy(tr, k, u)
    <3>1. m \in Nat
      OBVIOUS
    <3>2. PassedBy(tr2, m, t)
      BY <1>8
    <3>. QED
      BY <3>1, <3>2, NearIfPassed
  <2>2. n > k
    <3>1. CASE k = 0
      BY <1>2, <3>1
    <3>2. CASE k > 0
      <4>1. PICK u \in DOMAIN tr : PassedBy(tr, k, u)
        BY <2>1, <3>2
      <4>2. fix \in DOMAIN tr /\ u <= fix /\ DOMAIN tr \subseteq FixTimes
        BY <4>1 DEF Come, OneMore
      <4>3. PassedBy(tr, k, fix)
        BY <4>1, <4>2, PassedLater
      <4>4. k \in 1..Finish /\ fix # None
        BY <3>2, <4>2 DEF FixTimes
      <4>. QED
        BY <4>3, <4>4 DEF Come
    <3>. QED
      BY <3>1, <3>2
  <2>3. SUFFICES ASSUME n2 <= m PROVE FALSE
    BY <1>2
  <2>4. n2 \in (k + 1)..m
    BY <1>2, <2>2, <2>3
  <2>. QED
    BY <1>2, <2>1, <2>4
<1>. QED
  BY <1>1, <1>3, <1>4, <1>7, <1>8 DEF Come

(***************************************************************************)
(* One fix of a walk: the tracker's finish is at the fix that first passes *)
(* the last mark.                                                          *)
(***************************************************************************)
Tracked(r, tr) == r.status = None => IF r.next <= Finish THEN r.fin = None ELSE FinishesAt(tr, r.fin)

Walked(r, tr) == r \in Row /\ Come(r.next, r.last, tr) /\ Tracked(r, tr)

LEMMA WalksOn ==
  ASSUME NEW tr, NEW tr2, NEW t, NEW p, OneMore(tr, tr2, t, p), NEW r, Walked(r, tr)
  PROVE  /\ Walked(WalkFix(r, t, p), tr2)
         /\ WalkFix(r, t, p).status = r.status /\ WalkFix(r, t, p).ofin = r.ofin
         /\ r.status # None \/ r.fin # None => WalkFix(r, t, p).fin = r.fin
<1> USE RealFleetAssumption DEF FleetGiven
<1>1. PICK n : n = NextAfter(r.next, p)
  OBVIOUS
<1>2. PICK q : q = WalkFix(r, t, p)
  OBVIOUS
<1>3. r \in Row /\ r.next \in 1..(Finish + 1)
  BY DEF Walked, Come
<1>4. Come(n, t, tr2) /\ n \in r.next..(Finish + 1)
  BY <1>1, <1>3, ComesOn, NextMark DEF Walked, OneMore
<1>5. /\ q.last = t /\ q.next = n /\ q.status = r.status /\ q.ofin = r.ofin
      /\ q.fin = IF r.next <= Finish /\ n > Finish /\ r.fin = None /\ r.status = None THEN t ELSE r.fin
  BY <1>1, <1>2, <1>3 DEF WalkFix, Row
<1>6. q \in Row
  <2>1. t \in FixTimes /\ n \in 1..(Finish + 1)
    BY <1>4 DEF OneMore, Come
  <2>. QED
    BY <1>1, <1>2, <1>3, <2>1 DEF WalkFix, Row
<1>7. ASSUME q.status = None PROVE IF n <= Finish THEN q.fin = None ELSE FinishesAt(tr2, q.fin)
  <2>1. IF r.next <= Finish THEN r.fin = None ELSE FinishesAt(tr, r.fin)
    BY <1>5, <1>7 DEF Walked, Tracked
  <2>2. CASE n <= Finish
    BY <1>3, <1>4, <1>5, <2>1, <2>2
  <2>3. CASE r.next <= Finish /\ n > Finish
    <3>1. q.fin = t
      BY <1>5, <1>7, <2>1, <2>3
    <3>2. Finish \in 1..Finish /\ t \in DOMAIN tr2 /\ PassedBy(tr2, Finish, t)
      BY <1>4, <2>3 DEF Come
    <3>3. ASSUME NEW u \in DOMAIN tr2, u < t PROVE ~PassedBy(tr2, Finish, u)
      <4>1. u \in DOMAIN tr /\ DOMAIN tr \subseteq FixTimes
        BY <3>3 DEF OneMore, FixTimes
      <4>2. r.last \in DOMAIN tr /\ u <= r.last /\ r.last # None /\ ~PassedBy(tr, Finish, r.last)
        BY <2>3, <3>2, <4>1 DEF Walked, Come, FixTimes
      <4>3. ~PassedBy(tr, Finish, u)
        BY <4>1, <4>2, PassedLater
      <4>. QED
        BY <4>1, <4>3, PassedEarlier
    <3>4. ~(n <= Finish)
      BY <1>3, <1>4, <2>3
    <3>5. FinishesAt(tr2, t)
      BY <3>2, <3>3 DEF FinishesAt
    <3>. QED
      BY <3>1, <3>4, <3>5
  <2>4. CASE ~(r.next <= Finish)
    <3>1. q.fin = r.fin /\ FinishesAt(tr, r.fin) /\ r.fin \in DOMAIN tr
      BY <1>5, <2>1, <2>4 DEF FinishesAt
    <3>2. r.fin \in DOMAIN tr2 /\ PassedBy(tr2, Finish, r.fin)
      BY <3>1, PassedEarlier DEF FinishesAt, OneMore
    <3>3. ASSUME NEW u \in DOMAIN tr2, u < r.fin PROVE ~PassedBy(tr2, Finish, u)
      <4>1. u \in DOMAIN tr
        BY <3>1, <3>3 DEF OneMore, FixTimes
      <4>. QED
        BY <3>1, <3>3, <4>1, PassedEarlier DEF FinishesAt
    <3>4. ~(n <= Finish)
      BY <1>3, <1>4, <2>4
    <3>. QED
      BY <3>1, <3>2, <3>3, <3>4 DEF FinishesAt
  <2>. QED
    BY <1>3, <1>4, <2>2, <2>3, <2>4
<1>8. Walked(q, tr2)
  BY <1>4, <1>5, <1>6, <1>7 DEF Walked, Tracked
<1>. QED
  BY <1>2, <1>5, <1>8

-----------------------------------------------------------------------------
(***************************************************************************)
(* A walk, as the fixes are met.  The loop's invariant is proved by the    *)
(* least time at which it fails.                                           *)
(***************************************************************************)
WalkTo(w, r, pts, n) ==
  w = [t \in 0..n |-> IF t = 0 THEN r
                      ELSE IF t \in DOMAIN pts THEN WalkFix(w[t - 1], t, pts[t]) ELSE w[t - 1]]

LEMMA WalkRuns ==
  ASSUME NEW r, NEW pts, NEW n \in Nat
  PROVE  \E w : WalkTo(w, r, pts, n)
<1> DEFINE stuck == {k \in Nat : ~\E w : WalkTo(w, r, pts, k)}
<1> SUFFICES ASSUME stuck # {} PROVE FALSE
  OBVIOUS
<1>1. PICK k \in stuck : \A j \in stuck : k <= j
  <2>1. stuck \in SUBSET Nat
    OBVIOUS
  <2> HIDE DEF stuck
  <2>. QED
    BY <2>1, LeastOf
<1>2. k \in Nat /\ ~\E w : WalkTo(w, r, pts, k)
  BY <1>1
<1>3. CASE k = 0
  <2>1. PICK w : w = [j \in 0..0 |-> r]
    OBVIOUS
  <2>2. WalkTo(w, r, pts, 0)
    BY <2>1 DEF WalkTo
  <2>. QED
    BY <1>2, <1>3, <2>2
<1>4. CASE k # 0
  <2>1. k - 1 \in Nat /\ k - 1 \notin stuck
    <3>1. k - 1 \in Nat /\ ~(k <= k - 1)
      BY <1>2, <1>4
    <3> HIDE DEF stuck
    <3>. QED
      BY <1>1, <3>1
  <2>2. PICK w : WalkTo(w, r, pts, k - 1)
    BY <2>1
  <2>3. PICK f : f = [j \in 0..k |-> IF j # k THEN w[j]
                                    ELSE IF k \in DOMAIN pts THEN WalkFix(w[k - 1], k, pts[k]) ELSE w[k - 1]]
    OBVIOUS
  <2>4. ASSUME NEW j \in 0..k
        PROVE  f[j] = IF j = 0 THEN r
                      ELSE IF j \in DOMAIN pts THEN WalkFix(f[j - 1], j, pts[j]) ELSE f[j - 1]
    <3>1. CASE j = k
      <4>1. f[j - 1] = w[k - 1]
        BY <1>2, <1>4, <2>3, <3>1
      <4>2. f[j] = IF k \in DOMAIN pts THEN WalkFix(w[k - 1], k, pts[k]) ELSE w[k - 1]
        BY <1>2, <2>3, <3>1
      <4>. QED
        BY <1>4, <3>1, <4>1, <4>2
    <3>2. CASE j # k
      <4>1. j \in 0..(k - 1)
        BY <1>2, <3>2
      <4>2. w[j] = IF j = 0 THEN r ELSE IF j \in DOMAIN pts THEN WalkFix(w[j - 1], j, pts[j]) ELSE w[j - 1]
        BY <2>2, <4>1 DEF WalkTo
      <4>3. f[j] = w[j] /\ (j # 0 => f[j - 1] = w[j - 1])
        BY <1>2, <2>3, <3>2, <4>1
      <4>. QED
        BY <4>2, <4>3
    <3>. QED
      BY <3>1, <3>2
  <2>5. WalkTo(f, r, pts, k)
    <3>1. f = [j \in 0..k |-> f[j]]
      BY <2>3
    <3>. QED
      BY <2>4, <3>1 DEF WalkTo
  <2>. QED
    BY <1>2, <2>5
<1>. QED
  BY <1>3, <1>4

LEMMA WalkIs ==
  ASSUME NEW r, NEW pts
  PROVE  \E w : WalkTo(w, r, pts, LastFix) /\ Walk(r, pts) = w[LastFix]
<1>1. \E w : WalkTo(w, r, pts, LastFix)
  BY WalkRuns, RealFleetAssumption DEF FleetGiven
<1>. QED
  BY <1>1 DEF Walk, WalkTo

\* The track with the fixes up to a time.
Upto(tr, pts, t) ==
  [u \in DOMAIN tr \cup {v \in DOMAIN pts : v <= t} |-> IF u \in DOMAIN tr THEN tr[u] ELSE pts[u]]

IsTrack(tr) == DOMAIN tr \subseteq FixTimes /\ tr \in [DOMAIN tr -> Places]

LEMMA WalkAll ==
  ASSUME NEW tr, IsTrack(tr), NEW pts, IsTrack(pts),
         \A u \in DOMAIN tr, v \in DOMAIN pts : u < v,
         NEW r, Walked(r, tr)
  PROVE  /\ Walked(Walk(r, pts), Stored(tr, pts))
         /\ Walk(r, pts).status = r.status /\ Walk(r, pts).ofin = r.ofin
         /\ r.status # None \/ r.fin # None => Walk(r, pts).fin = r.fin
<1> USE RealFleetAssumption DEF FleetGiven
<1>1. PICK w : WalkTo(w, r, pts, LastFix) /\ Walk(r, pts) = w[LastFix]
  BY WalkIs
<1> DEFINE Well(t) == /\ Walked(w[t], Upto(tr, pts, t))
                      /\ w[t].status = r.status /\ w[t].ofin = r.ofin
                      /\ r.status # None \/ r.fin # None => w[t].fin = r.fin
           ill == {t \in 0..LastFix : ~Well(t)}
<1>2. w[0] = r /\ \A t \in 1..LastFix :
        w[t] = IF t \in DOMAIN pts THEN WalkFix(w[t - 1], t, pts[t]) ELSE w[t - 1]
  BY <1>1 DEF WalkTo
<1>3. Well(0)
  <2>1. Upto(tr, pts, 0) = tr
    <3>1. {v \in DOMAIN pts : v <= 0} = {}
      BY DEF IsTrack, FixTimes
    <3>2. Upto(tr, pts, 0) = [u \in DOMAIN tr |-> tr[u]]
      BY <3>1 DEF Upto
    <3>. QED
      BY <3>2 DEF IsTrack
  <2>. QED
    BY <1>2, <2>1
<1>4. ASSUME NEW t \in 1..LastFix, Well(t - 1) PROVE Well(t)
  <2>1. CASE t \notin DOMAIN pts
    <3>1. w[t] = w[t - 1]
      BY <1>2, <2>1
    <3>2. {v \in DOMAIN pts : v <= t} = {v \in DOMAIN pts : v <= t - 1}
      BY <2>1 DEF IsTrack, FixTimes
    <3>3. Upto(tr, pts, t) = Upto(tr, pts, t - 1)
      BY <3>2 DEF Upto
    <3>. QED
      BY <1>4, <3>1, <3>3
  <2>2. CASE t \in DOMAIN pts
    <3>1. w[t] = WalkFix(w[t - 1], t, pts[t])
      BY <1>2, <2>2
    <3>2. PICK a, b : a = Upto(tr, pts, t - 1) /\ b = Upto(tr, pts, t)
      OBVIOUS
    <3>3. DOMAIN a = DOMAIN tr \cup {v \in DOMAIN pts : v <= t - 1}
          /\ \A u \in DOMAIN a : a[u] = IF u \in DOMAIN tr THEN tr[u] ELSE pts[u]
      BY <3>2 DEF Upto
    <3>4. DOMAIN b = DOMAIN tr \cup {v \in DOMAIN pts : v <= t}
          /\ \A u \in DOMAIN b : b[u] = IF u \in DOMAIN tr THEN tr[u] ELSE pts[u]
      BY <3>2 DEF Upto
    <3>5. DOMAIN b = DOMAIN a \cup {t} /\ DOMAIN a \subseteq FixTimes /\ \A u \in DOMAIN a : u < t
      BY <2>2, <3>3, <3>4 DEF IsTrack, FixTimes
    <3>6. b[t] = pts[t] /\ pts[t] \in Places /\ t \in FixTimes
      BY <2>2, <3>3, <3>4, <3>5 DEF IsTrack, FixTimes
    <3>7. OneMore(a, b, t, pts[t])
      BY <3>3, <3>4, <3>5, <3>6 DEF OneMore
    <3>8. Walked(w[t - 1], a)
      BY <1>4, <3>2
    <3>. QED
      BY <1>4, <3>1, <3>2, <3>7, <3>8, WalksOn
  <2>. QED
    BY <2>1, <2>2
<1>5. Well(LastFix)
  <2> SUFFICES ASSUME ill # {} PROVE FALSE
    OBVIOUS
  <2>1. PICK t \in ill : \A u \in ill : t <= u
    <3>1. ill \in SUBSET Nat
      OBVIOUS
    <3> HIDE DEF ill
    <3>. QED
      BY <3>1, LeastOf
  <2>2. t \in 0..LastFix /\ ~Well(t)
    BY <2>1
  <2>3. t # 0
    <3> HIDE DEF Well
    <3>. QED
      BY <1>3, <2>2
  <2>4. t \in 1..LastFix /\ t - 1 \in 0..LastFix /\ ~(t <= t - 1)
    BY <2>2, <2>3
  <2>5. Well(t - 1)
    <3>1. t - 1 \notin ill
      <4> HIDE DEF ill
      <4>. QED
        BY <2>1, <2>4
    <3>. QED
      BY <2>4, <3>1
  <2> HIDE DEF Well
  <2>. QED
    BY <1>4, <2>2, <2>4, <2>5
<1>6. Upto(tr, pts, LastFix) = Stored(tr, pts)
  <2>1. \A v \in DOMAIN pts : v <= LastFix
    BY DEF IsTrack, FixTimes
  <2>2. {v \in DOMAIN pts : v <= LastFix} = DOMAIN pts
    BY <2>1
  <2>. QED
    BY <2>2 DEF Upto, Stored
<1>. QED
  BY <1>1, <1>5, <1>6

(***************************************************************************)
(* A walk from any row, as old as it may be, ends in one, at the last of   *)
(* the fixes.                                                              *)
(***************************************************************************)
LEMMA FixTypes ==
  ASSUME NEW r \in Row, NEW t \in FixTimes, NEW p \in Places
  PROVE  WalkFix(r, t, p) \in Row /\ WalkFix(r, t, p).last = t
<1> USE RealFleetAssumption DEF FleetGiven
<1>1. PICK n : n = NextAfter(r.next, p)
  OBVIOUS
<1>2. r.next \in 1..(Finish + 1)
  BY DEF Row
<1>3. n \in 1..(Finish + 1)
  <2>1. n \in r.next..(Finish + 1)
    BY <1>1, <1>2, NextMark
  <2>. QED
    BY <1>2, <2>1
<1>4. PICK g : g = IF r.next <= Finish /\ n > Finish /\ r.fin = None /\ r.status = None THEN t ELSE r.fin
  OBVIOUS
<1>5. g \in FixTimes \cup FinTimes \cup {None}
  BY <1>4 DEF Row
<1>6. WalkFix(r, t, p) = [r EXCEPT !.last = t, !.next = n, !.fin = g]
  BY <1>1, <1>4 DEF WalkFix
<1>. QED
  BY <1>3, <1>5, <1>6 DEF Row

LEMMA WalkTypes ==
  ASSUME NEW r \in Row, NEW pts, IsTrack(pts)
  PROVE  /\ Walk(r, pts) \in Row
         /\ DOMAIN pts # {} => Walk(r, pts).last \in DOMAIN pts
<1> USE RealFleetAssumption DEF FleetGiven
<1>1. PICK w : WalkTo(w, r, pts, LastFix) /\ Walk(r, pts) = w[LastFix]
  BY WalkIs
<1> DEFINE Well(t) == /\ w[t] \in Row
                      /\ (\E u \in DOMAIN pts : u <= t) => w[t].last \in DOMAIN pts
           ill == {t \in 0..LastFix : ~Well(t)}
<1>2. w[0] = r /\ \A t \in 1..LastFix :
        w[t] = IF t \in DOMAIN pts THEN WalkFix(w[t - 1], t, pts[t]) ELSE w[t - 1]
  BY <1>1 DEF WalkTo
<1>3. Well(0)
  BY <1>2 DEF IsTrack, FixTimes
<1>4. ASSUME NEW t \in 1..LastFix, Well(t - 1) PROVE Well(t)
  <2>1. CASE t \notin DOMAIN pts
    <3>1. w[t] = w[t - 1]
      BY <1>2, <2>1
    <3>2. (\E u \in DOMAIN pts : u <= t) => \E u \in DOMAIN pts : u <= t - 1
      BY <2>1 DEF IsTrack, FixTimes
    <3>. QED
      BY <1>4, <3>1, <3>2
  <2>2. CASE t \in DOMAIN pts
    <3>1. w[t] = WalkFix(w[t - 1], t, pts[t])
      BY <1>2, <2>2
    <3>2. pts[t] \in Places /\ t \in FixTimes
      BY <2>2 DEF IsTrack
    <3>3. w[t] \in Row /\ w[t].last = t
      BY <1>4, <3>1, <3>2, FixTypes
    <3>. QED
      BY <2>2, <3>3
  <2>. QED
    BY <2>1, <2>2
<1>5. Well(LastFix)
  <2> SUFFICES ASSUME ill # {} PROVE FALSE
    OBVIOUS
  <2>1. PICK t \in ill : \A u \in ill : t <= u
    <3>1. ill \in SUBSET Nat
      OBVIOUS
    <3> HIDE DEF ill
    <3>. QED
      BY <3>1, LeastOf
  <2>2. t \in 0..LastFix /\ ~Well(t)
    BY <2>1
  <2>3. t # 0
    <3> HIDE DEF Well
    <3>. QED
      BY <1>3, <2>2
  <2>4. t \in 1..LastFix /\ t - 1 \in 0..LastFix /\ ~(t <= t - 1)
    BY <2>2, <2>3
  <2>5. Well(t - 1)
    <3>1. t - 1 \notin ill
      <4> HIDE DEF ill
      <4>. QED
        BY <2>1, <2>4
    <3>. QED
      BY <2>4, <3>1
  <2> HIDE DEF Well
  <2>. QED
    BY <1>4, <2>2, <2>4, <2>5
<1>6. \A u \in DOMAIN pts : u <= LastFix
  BY DEF IsTrack, FixTimes
<1>. QED
  BY <1>1, <1>5, <1>6

LEMMA Rebuilt ==
  ASSUME NEW tr, IsTrack(tr), NEW r \in Row, r.status = None => r.ofin = None
  PROVE  /\ Walked(Recomputed(r, tr), tr)
         /\ Recomputed(r, tr).status = r.status /\ Recomputed(r, tr).ofin = r.ofin
         /\ r.status # None => Recomputed(r, tr).fin = r.ofin
<1> USE RealFleetAssumption DEF FleetGiven
<1>1. PICK q : q = [r EXCEPT !.last = None, !.next = 1, !.fin = r.ofin]
  OBVIOUS
<1>2. q \in Row /\ q.last = None /\ q.next = 1 /\ q.fin = r.ofin /\ q.status = r.status /\ q.ofin = r.ofin
  <2>1. 1 \in 1..(Finish + 1) /\ r.ofin \in FixTimes \cup FinTimes \cup {None}
    BY DEF Row
  <2>. QED
    BY <1>1, <2>1 DEF Row
<1>3. PICK none : none = [u \in {} |-> Places]
  OBVIOUS
<1>4. IsTrack(none) /\ DOMAIN none = {}
  BY <1>3 DEF IsTrack
<1>5. Walked(q, none)
  <2>1. Come(1, None, none)
    <3>1. 1 \in 1..(Finish + 1) /\ \A m \in 1..Finish : ~(1 > m)
      OBVIOUS
    <3>. QED
      BY <1>4, <3>1 DEF Come
  <2>. QED
    BY <1>2, <2>1 DEF Walked, Tracked
<1>6. Stored(none, tr) = tr
  BY <1>4 DEF Stored, IsTrack
<1>7. Recomputed(r, tr) = Walk(q, tr)
  BY <1>1 DEF Recomputed
<1>. QED
  BY <1>2, <1>4, <1>5, <1>6, <1>7, WalkAll

-----------------------------------------------------------------------------
(***************************************************************************)
(* The writers.  An ingest walks on from the row as it read it: what is    *)
(* proved needs that row to be the one it writes to, whoever writes        *)
(* meanwhile.  A single writer sees to that; a check at the write would.   *)
(***************************************************************************)
NothingStale == \A t \in Threads : IngestWrite(t) => th[t].row = row

WritesWhatItRead == [][NothingStale]_rowVars

RowGood ==
  /\ IsTrack(sailed) /\ Walked(row, sailed)
  /\ row.status = None => row.ofin = None
  /\ row.status = "OUT" /\ row.ofin = None => row.fin = None

Doing == [pc : {"idle", "ingest"}, pts : Batches \cup {<<>>}, row : Row]

ThreadsGood ==
  /\ th \in [Threads -> Doing]
  /\ \A t \in Threads : th[t].pc = "ingest" => th[t].pts \in Batches

RowInv == RowGood /\ ThreadsGood

LEMMA IdleIs ==
  /\ Idle \in Doing /\ Idle.pc = "idle" /\ Idle.row \in Row
  /\ Idle.row = [last |-> None, next |-> 1, fin |-> None, status |-> None, ofin |-> None]
<1>1. 1 \in 1..(Finish + 1)
  BY RealFleetAssumption DEF FleetGiven
<1>2. Idle.row \in Row
  BY <1>1 DEF Idle, Row
<1>. QED
  BY <1>2 DEF Idle, Doing

LEMMA NothingWalked ==
  ASSUME NEW r \in Row, r.last = None, r.next = 1, r.fin = None
  PROVE  IsTrack(<<>>) /\ Walked(r, <<>>)
<1>1. DOMAIN <<>> = {}
  OBVIOUS
<1>2. 1 \in 1..(Finish + 1) /\ \A m \in 1..Finish : ~(1 > m)
  BY RealFleetAssumption DEF FleetGiven
<1>3. 1 <= Finish
  BY RealFleetAssumption DEF FleetGiven
<1>4. Come(1, None, <<>>)
  BY <1>1, <1>2 DEF Come
<1>. QED
  BY <1>1, <1>3, <1>4 DEF Walked, Tracked, IsTrack

LEMMA InitGood == RowInit => RowInv
<1> SUFFICES ASSUME RowInit PROVE RowInv
  OBVIOUS
<1>1. row = Idle.row /\ sailed = <<>> /\ th = [t \in Threads |-> Idle]
  BY DEF RowInit
<1>2. RowGood
  <2>1. IsTrack(<<>>) /\ Walked(Idle.row, <<>>)
    BY IdleIs, NothingWalked
  <2>. QED
    BY <1>1, <2>1, IdleIs DEF RowGood
<1>3. ThreadsGood
  BY <1>1, IdleIs DEF ThreadsGood
<1>. QED
  BY <1>2, <1>3 DEF RowInv

LEMMA BatchIs ==
  ASSUME NEW pts \in Batches
  PROVE  IsTrack(pts) /\ DOMAIN pts # {}
BY DEF Batches, IsTrack

LEMMA StoredIs ==
  ASSUME IsTrack(sailed), NEW pts, IsTrack(pts)
  PROVE  IsTrack(Stored(sailed, pts))
BY DEF Stored, IsTrack

\* What an ingest makes of the row.
IngestGood ==
  /\ IsTrack(sailed') /\ Walked(row', sailed')
  /\ row'.status = row.status /\ row'.ofin = row.ofin
  /\ row.status # None => row'.fin \in {row.fin, row.ofin}

LEMMA Ingests ==
  ASSUME RowInv, NEW t \in Threads, IngestWrite(t), th[t].row = row
  PROVE  IngestGood
<1>1. PICK pts : pts = th[t].pts
  OBVIOUS
<1>2. th[t].row = row /\ IsTrack(pts) /\ DOMAIN pts # {}
  BY <1>1, BatchIs DEF IngestWrite, RowInv, ThreadsGood
<1>3. PICK new : new = IF Backfill(row, pts) THEN Recomputed(row, sailed') ELSE Walk(row, pts)
  OBVIOUS
<1>4. sailed' = Stored(sailed, pts) /\ row' = [row EXCEPT !.last = new.last, !.next = new.next, !.fin = new.fin]
  BY <1>1, <1>2, <1>3 DEF IngestWrite
<1>5. IsTrack(sailed')
  BY <1>2, <1>4, StoredIs DEF RowInv, RowGood
<1>6. row \in Row /\ Walked(row, sailed)
  BY DEF RowInv, RowGood, Walked
<1>7. /\ Walked(new, sailed') /\ new.status = row.status /\ new.ofin = row.ofin
      /\ row.status # None => new.fin \in {row.fin, row.ofin}
  <2>1. CASE Backfill(row, pts)
    <3>1. new = Recomputed(row, sailed')
      BY <1>3, <2>1
    <3>. QED
      BY <1>5, <1>6, <3>1, Rebuilt DEF RowInv, RowGood
  <2>2. CASE ~Backfill(row, pts)
    <3>1. \A u \in DOMAIN sailed, v \in DOMAIN pts : u < v
      <4> TAKE u \in DOMAIN sailed, v \in DOMAIN pts
      <4>1. row.last # None /\ u <= row.last /\ row.last \in DOMAIN sailed
        BY <1>6 DEF Walked, Come
      <4>2. ~(v <= row.last)
        BY <2>2, <4>1 DEF Backfill
      <4>. QED
        BY <1>2, <4>1, <4>2 DEF RowInv, RowGood, IsTrack, FixTimes
    <3>2. new = Walk(row, pts)
      BY <1>3, <2>2
    <3>. QED
      BY <1>2, <1>4, <1>6, <3>1, <3>2, WalkAll DEF RowInv, RowGood
  <2>. QED
    BY <2>1, <2>2
<1>8. row' = new
  BY <1>4, <1>6, <1>7 DEF Walked, Row
<1>. QED
  BY <1>5, <1>7, <1>8 DEF IngestGood

LEMMA GoodIsWalk == RowInv => RowIsWalk
BY DEF RowInv, RowGood, ThreadsGood, Doing, Walked, Come, Tracked, IsTrack, RowIsWalk, RowTypeOK

LEMMA ResultIs ==
  ASSUME row \in Row, NEW t \in Threads, Results(t)
  PROVE  /\ row' \in Row /\ row'.last = row.last /\ row'.next = row.next
         /\ row'.status \in Statuses /\ row'.status # None
         /\ row'.status # "FIN" => row'.fin = None
<1>1. PICK s \in Statuses, f \in FinTimes \cup {None} :
         row' = [row EXCEPT !.status = s, !.ofin = f,
                            !.fin = IF s # "FIN" THEN None ELSE IF f # None THEN f ELSE row.fin]
  BY DEF Results
<1>2. PICK g : g = IF s # "FIN" THEN None ELSE IF f # None THEN f ELSE row.fin
  OBVIOUS
<1>3. g \in FixTimes \cup FinTimes \cup {None} /\ s # None
  BY <1>2, RealFleetAssumption DEF Row, FleetGiven
<1>. QED
  BY <1>1, <1>2, <1>3 DEF Row

LEMMA RowStep == ASSUME RowInv, [RowNext]_rowVars, [NothingStale]_rowVars PROVE RowInv'
<1>1. ASSUME NEW t \in Threads, IngestRead(t) PROVE RowInv'
  <2>1. PICK pts \in Batches : th' = [th EXCEPT ![t] = [pc |-> "ingest", pts |-> pts, row |-> row]]
    BY <1>1 DEF IngestRead, Does
  <2>2. UNCHANGED <<sailed, row>> /\ row \in Row
    BY <1>1 DEF IngestRead, RowInv, RowGood, Walked
  <2>3. [pc |-> "ingest", pts |-> pts, row |-> row] \in Doing
    BY <2>2 DEF Doing
  <2>4. ThreadsGood'
    BY <2>1, <2>2, <2>3 DEF RowInv, ThreadsGood
  <2>. QED
    BY <2>2, <2>4 DEF RowInv, RowGood
<1>2. ASSUME NEW t \in Threads, IngestWrite(t) PROVE RowInv'
  <2>1. CASE NothingStale
    <3>1. IngestGood
      BY <1>2, <2>1, Ingests DEF NothingStale
    <3>2. RowGood'
      BY <3>1, RealFleetAssumption DEF FleetGiven, IngestGood, RowInv, RowGood
    <3>3. th' = [th EXCEPT ![t] = Idle]
      BY <1>2 DEF IngestWrite, Does
    <3>4. ThreadsGood'
      BY <3>3, IdleIs DEF RowInv, ThreadsGood
    <3>. QED
      BY <3>2, <3>4 DEF RowInv
  <2>2. CASE UNCHANGED rowVars
    BY <2>2 DEF rowVars, RowInv, RowGood, ThreadsGood
  <2>. QED
    BY <2>1, <2>2
<1>3. ASSUME NEW t \in Threads, Results(t) PROVE RowInv'
  <2>1. UNCHANGED <<sailed, th>> /\ row \in Row /\ Walked(row, sailed)
    BY <1>3 DEF Results, RowInv, RowGood, Walked
  <2>2. /\ row' \in Row /\ row'.last = row.last /\ row'.next = row.next
        /\ row'.status # None /\ (row'.status # "FIN" => row'.fin = None)
    BY <1>3, <2>1, ResultIs
  <2>3. RowGood'
    BY <2>1, <2>2 DEF RowInv, RowGood, Walked, Tracked
  <2>. QED
    BY <2>1, <2>3 DEF RowInv, ThreadsGood
<1>4. ASSUME NEW t \in Threads, Wipe(t) PROVE RowInv'
  <2>1. sailed' = <<>> /\ row' = [row EXCEPT !.last = None, !.next = 1, !.fin = None] /\ th' = th
    BY <1>4 DEF Wipe
  <2>2. row \in Row
    BY DEF RowInv, RowGood, Walked
  <2>3. row' \in Row /\ row'.last = None /\ row'.next = 1 /\ row'.fin = None
        /\ row'.status = row.status /\ row'.ofin = row.ofin
    <3>1. 1 \in 1..(Finish + 1)
      BY RealFleetAssumption DEF FleetGiven
    <3>. QED
      BY <2>1, <2>2, <3>1 DEF Row
  <2>4. RowGood'
    BY <2>1, <2>3, NothingWalked DEF RowInv, RowGood
  <2>. QED
    BY <2>1, <2>4 DEF RowInv, ThreadsGood
<1>5. CASE UNCHANGED rowVars
  BY <1>5 DEF rowVars, RowInv, RowGood, ThreadsGood
<1>. QED
  BY <1>1, <1>2, <1>3, <1>4, <1>5 DEF RowNext

LEMMA RowAlways == RowSpec /\ WritesWhatItRead => []RowInv
<1>1. RowInv /\ [RowNext]_rowVars /\ [NothingStale]_rowVars => RowInv'
  BY RowStep
<1>. QED
  BY <1>1, InitGood, PTL DEF RowSpec, WritesWhatItRead

(***************************************************************************)
(* However many write, if no ingest writes to a row that has changed since *)
(* it read it, the row is what a walk over the whole track gives, whatever *)
(* fixes came in what batches, results and wipes between.                  *)
(***************************************************************************)
THEOREM RowAlwaysIsWalk == RowSpec /\ WritesWhatItRead => []RowIsWalk
BY GoodIsWalk, RowAlways, PTL

(***************************************************************************)
(* Nor does a fix then move the finish the committee gave.                 *)
(***************************************************************************)
StaysOfficial ==
  th' # th /\ row.status = "FIN" /\ row.ofin # None /\ row.fin = row.ofin => row'.fin = row.fin

THEOREM FinishIsTheCommittees == RowSpec /\ WritesWhatItRead => OfficialFinish
<1>1. RowInv /\ [RowNext]_rowVars /\ [NothingStale]_rowVars => [StaysOfficial]_rowVars
  <2> SUFFICES ASSUME RowInv, RowNext, NothingStale, th' # th, row.status = "FIN", row.fin = row.ofin
               PROVE  row'.fin = row.fin
    BY DEF StaysOfficial, rowVars
  <2>1. PICK t \in Threads : IngestRead(t) \/ IngestWrite(t)
    BY DEF RowNext, Results, Wipe
  <2>2. CASE IngestRead(t)
    BY <2>2 DEF IngestRead
  <2>3. CASE IngestWrite(t)
    <3>1. IngestGood /\ row.status # None
      BY <2>3, Ingests, RealFleetAssumption DEF NothingStale, FleetGiven
    <3>. QED
      BY <3>1 DEF IngestGood
  <2>. QED
    BY <2>1, <2>2, <2>3
<1>2. [][StaysOfficial]_rowVars <=> OfficialFinish
  BY PTL DEF StaysOfficial, OfficialFinish
<1>. QED
  BY <1>1, <1>2, RowAlways, PTL DEF RowSpec, WritesWhatItRead

(***************************************************************************)
(* Any number of writers, from rows as old as they may be.  The row can be *)
(* wrong then, but it is a row, of a last fix that is on the track, and    *)
(* only a boat the committee has scored has a finish of the committee's.   *)
(***************************************************************************)
AnyRow ==
  /\ IsTrack(sailed) /\ row \in Row /\ row.last \in DOMAIN sailed \cup {None}
  /\ row.status = None => row.ofin = None

Untidy == AnyRow /\ ThreadsGood

LEMMA WrittenIs ==
  ASSUME Untidy, NEW t \in Threads, IngestWrite(t)
  PROVE  AnyRow' /\ (Backfill(th[t].row, th[t].pts) => RowGood')
<1>1. PICK pts, old : pts = th[t].pts /\ old = th[t].row
  OBVIOUS
<1>2. old \in Row /\ IsTrack(pts) /\ DOMAIN pts # {}
  BY <1>1, BatchIs DEF IngestWrite, Untidy, ThreadsGood, Doing
<1>3. PICK new : new = IF Backfill(old, pts) THEN Recomputed(row, sailed') ELSE Walk(old, pts)
  OBVIOUS
<1>4. sailed' = Stored(sailed, pts) /\ row' = [row EXCEPT !.last = new.last, !.next = new.next, !.fin = new.fin]
  BY <1>1, <1>3 DEF IngestWrite
<1>5. IsTrack(sailed') /\ DOMAIN sailed' = DOMAIN sailed \cup DOMAIN pts
  BY <1>2, <1>4, StoredIs DEF Untidy, AnyRow, Stored
<1>6. row \in Row /\ (row.status = None => row.ofin = None)
  BY DEF Untidy, AnyRow
<1>7. CASE Backfill(old, pts)
  <2>1. /\ Walked(new, sailed') /\ new.status = row.status /\ new.ofin = row.ofin
        /\ row.status # None => new.fin = row.ofin
    BY <1>3, <1>5, <1>6, <1>7, Rebuilt
  <2>2. row' = new
    BY <1>4, <1>6, <2>1 DEF Walked, Row
  <2>3. RowGood'
    BY <1>5, <1>6, <2>1, <2>2, RealFleetAssumption DEF RowGood, FleetGiven
  <2>4. AnyRow'
    BY <2>3 DEF RowGood, AnyRow, Walked, Come
  <2>. QED
    BY <2>3, <2>4
<1>8. CASE ~Backfill(old, pts)
  <2>1. new \in Row /\ new.last \in DOMAIN pts
    BY <1>2, <1>3, <1>8, WalkTypes
  <2>2. row' \in Row /\ row'.last = new.last /\ row'.status = row.status /\ row'.ofin = row.ofin
    BY <1>4, <1>6, <2>1 DEF Row
  <2>3. AnyRow'
    BY <1>5, <1>6, <2>1, <2>2 DEF AnyRow
  <2>. QED
    BY <1>1, <1>8, <2>3
<1>. QED
  BY <1>7, <1>8

LEMMA UntidyStep == Untidy /\ [RowNext]_rowVars => Untidy'
<1> SUFFICES ASSUME Untidy, [RowNext]_rowVars PROVE Untidy'
  OBVIOUS
<1>1. ASSUME NEW t \in Threads, IngestRead(t) PROVE Untidy'
  <2>1. PICK pts \in Batches : th' = [th EXCEPT ![t] = [pc |-> "ingest", pts |-> pts, row |-> row]]
    BY <1>1 DEF IngestRead, Does
  <2>2. UNCHANGED <<sailed, row>> /\ row \in Row
    BY <1>1 DEF IngestRead, Untidy, AnyRow
  <2>3. [pc |-> "ingest", pts |-> pts, row |-> row] \in Doing
    BY <2>2 DEF Doing
  <2>4. ThreadsGood'
    BY <2>1, <2>2, <2>3 DEF Untidy, ThreadsGood
  <2>. QED
    BY <2>2, <2>4 DEF Untidy, AnyRow
<1>2. ASSUME NEW t \in Threads, IngestWrite(t) PROVE Untidy'
  <2>1. th' = [th EXCEPT ![t] = Idle]
    BY <1>2 DEF IngestWrite, Does
  <2>2. ThreadsGood'
    BY <2>1, IdleIs DEF Untidy, ThreadsGood
  <2>. QED
    BY <1>2, <2>2, WrittenIs DEF Untidy
<1>3. ASSUME NEW t \in Threads, Results(t) PROVE Untidy'
  <2>1. UNCHANGED <<sailed, th>>
    BY <1>3 DEF Results
  <2>2. row' \in Row /\ row'.last = row.last /\ row'.status # None
    BY <1>3, ResultIs DEF Untidy, AnyRow
  <2>. QED
    BY <2>1, <2>2 DEF Untidy, AnyRow, ThreadsGood
<1>4. ASSUME NEW t \in Threads, Wipe(t) PROVE Untidy'
  <2>1. sailed' = <<>> /\ row' = [row EXCEPT !.last = None, !.next = 1, !.fin = None] /\ th' = th
    BY <1>4 DEF Wipe
  <2>2. 1 \in 1..(Finish + 1)
    BY RealFleetAssumption DEF FleetGiven
  <2>3. row' \in Row /\ row'.last = None /\ row'.status = row.status /\ row'.ofin = row.ofin
    BY <2>1, <2>2 DEF Untidy, AnyRow, Row
  <2>4. IsTrack(<<>>)
    BY DEF IsTrack
  <2>. QED
    BY <2>1, <2>3, <2>4 DEF Untidy, AnyRow, ThreadsGood
<1>5. CASE UNCHANGED rowVars
  BY <1>5 DEF rowVars, Untidy, AnyRow, ThreadsGood
<1>. QED
  BY <1>1, <1>2, <1>3, <1>4, <1>5 DEF RowNext

LEMMA AlwaysUntidy == RowSpec => []Untidy
<1>1. RowInit => Untidy
  <2>1. RowInv => Untidy
    BY DEF RowInv, RowGood, Untidy, AnyRow, Walked, Come
  <2>. QED
    BY <2>1, InitGood
<1>. QED
  BY <1>1, UntidyStep, PTL DEF RowSpec

(***************************************************************************)
(* Whoever writes from whatever he has read, the row's last fix is on the  *)
(* track and its columns are what they may be.                             *)
(***************************************************************************)
THEOREM RowStaysARow == RowSpec => []RowTypeOK
<1>1. Untidy => RowTypeOK
  BY DEF Untidy, AnyRow, ThreadsGood, Doing, IsTrack, RowTypeOK
<1>. QED
  BY <1>1, AlwaysUntidy, PTL

(***************************************************************************)
(* And a batch that comes late rebuilds the row from the track, so that it *)
(* is right again, whatever was saved over what before.                    *)
(***************************************************************************)
LateBatch == \E t \in Threads : IngestWrite(t) /\ Backfill(th[t].row, th[t].pts)

THEOREM RebuildHeals == RowSpec => [][LateBatch => RowIsWalk']_rowVars
<1>1. Untidy /\ [RowNext]_rowVars => [LateBatch => RowInv']_rowVars
  BY WrittenIs, UntidyStep DEF LateBatch, Untidy, RowInv
<1>. QED
  BY <1>1, AlwaysUntidy, GoodIsWalk, PTL DEF RowSpec

(***************************************************************************)
(* One writer at a time, as when the poller alone feeds the race, never    *)
(* writes to a row that has changed since it read it.                      *)
(***************************************************************************)
OneWriter == \A t, u \in Threads : t = u

AsRead ==
  /\ DOMAIN th = Threads
  /\ \A t \in Threads : th[t].pc = "ingest" => th[t].row = row

THEOREM SoleWriterIsEnough == OneWriter => (RowSpec => WritesWhatItRead)
<1> SUFFICES ASSUME OneWriter PROVE RowSpec => WritesWhatItRead
  OBVIOUS
<1>1. RowInit => AsRead
  BY DEF RowInit, Idle, AsRead
<1>2. AsRead /\ [RowNext]_rowVars => AsRead'
  <2> SUFFICES ASSUME AsRead, [RowNext]_rowVars PROVE AsRead'
    OBVIOUS
  <2>1. ASSUME NEW t \in Threads, IngestRead(t) PROVE AsRead'
    BY <2>1 DEF IngestRead, Does, AsRead
  <2>2. ASSUME NEW t \in Threads, IngestWrite(t) PROVE AsRead'
    <3>1. DOMAIN th' = Threads /\ \A u \in Threads : th'[u].pc = "idle"
      BY <2>2 DEF IngestWrite, Does, Idle, AsRead, OneWriter
    <3>. QED
      BY <3>1 DEF AsRead
  <2>3. ASSUME NEW t \in Threads, Results(t) \/ Wipe(t) PROVE AsRead'
    <3>1. th' = th /\ \A u \in Threads : th[u].pc = "idle"
      BY <2>3 DEF Results, Wipe, OneWriter
    <3>. QED
      BY <3>1 DEF AsRead
  <2>4. CASE UNCHANGED rowVars
    BY <2>4 DEF rowVars, AsRead
  <2>. QED
    BY <2>1, <2>2, <2>3, <2>4 DEF RowNext
<1>3. AsRead /\ [RowNext]_rowVars => [NothingStale]_rowVars
  BY DEF AsRead, NothingStale, IngestWrite
<1>. QED
  BY <1>1, <1>2, <1>3, PTL DEF RowSpec, WritesWhatItRead
=============================================================================
