---------------------------- MODULE AccountsProofs ----------------------------
(***************************************************************************)
(* Proofs about accounts, for any names, boats, links and number of        *)
(* threads, however requests overlap.  A handler writes on what it has     *)
(* read, and another may write in between: the invariants say that what a  *)
(* request has read is still so, for everything no two requests have been  *)
(* about at a time (crossed).                                              *)
(***************************************************************************)
EXTENDS Accounts, FiniteSetTheorems, WellFoundedInduction, TLAPS

(***************************************************************************)
(* Row ids.                                                                *)
(***************************************************************************)
Before == {p \in Nat \X Nat : p[1] < p[2]}

LEMMA BeforeWellFounded == IsWellFoundedOn(Before, Nat)
BY NatLessThanWellFounded DEF OpToRel, Before

LEMMA LeastOf ==
  ASSUME NEW S \in SUBSET Nat, S # {}
  PROVE  \E x \in S : \A y \in S : x <= y
<1>1. PICK x \in S : \A y \in S : ~(<<y, x>> \in Before)
  BY BeforeWellFounded, WFMin, Zenon
<1>2. ASSUME NEW y \in S PROVE x <= y
  <2>1. <<y, x>> \notin Before
    BY <1>1
  <2>. QED
    BY <2>1 DEF Before
<1>. QED
  BY <1>2

LEMMA GreatestIsMax ==
  ASSUME NEW n \in Nat, NEW S \in SUBSET (1..n), S # {}
  PROVE  Max(S) \in S /\ \A y \in S : y <= Max(S)
<1> DEFINE bounds == {b \in Nat : \A y \in S : y <= b}
<1>1. bounds \in SUBSET Nat /\ n \in bounds
  OBVIOUS
<1>2. PICK m \in bounds : \A b \in bounds : m <= b
  BY <1>1, LeastOf
<1>3. m \in Nat /\ \A y \in S : y <= m
  BY <1>2
<1>4. m \in S
  <2> SUFFICES ASSUME m \notin S PROVE FALSE
    OBVIOUS
  <2>1. \A y \in S : y \in Nat /\ 1 <= y /\ y < m
    BY <1>3
  <2>2. m - 1 \in Nat
    <3>1. PICK y \in S : TRUE
      OBVIOUS
    <3>2. m \in Nat /\ y \in Nat /\ 1 <= y /\ y < m
      BY <1>3, <2>1
    <3>. QED
      BY <3>2
  <2>3. \A y \in S : y <= m - 1
    BY <1>3, <2>1
  <2>4. m - 1 \in bounds
    BY <2>2, <2>3
  <2> HIDE DEF bounds
  <2>. QED
    BY <1>2, <1>3, <2>4
<1>. QED
  BY <1>3, <1>4 DEF Max

LEMMA IdIsNew ==
  ASSUME DOMAIN users \subseteq Ids
  PROVE  NewId \notin DOMAIN users /\ (DOMAIN users = {} => NewId = 1)
<1>1. CASE DOMAIN users = {}
  BY <1>1 DEF NewId
<1>2. CASE DOMAIN users # {}
  <2>1. PICK S, m : S = DOMAIN users /\ m = Max(S)
    OBVIOUS
  <2>2. MaxId \in Nat /\ S \in SUBSET (1..MaxId) /\ S # {}
    BY <1>2, <2>1, AccountsAssumption DEF Ids
  <2>3. m \in S /\ \A y \in S : y <= m
    BY <2>1, <2>2, GreatestIsMax
  <2>4. m + 1 \notin S
    BY <2>2, <2>3
  <2>. QED
    BY <1>2, <2>1, <2>4 DEF NewId
<1>. QED
  BY <1>1, <1>2

-----------------------------------------------------------------------------
(***************************************************************************)
(* What a thread holds, and what a step of it has read.                    *)
(***************************************************************************)
Shaped(x) ==
  /\ x = [pc |-> x.pc, id |-> x.id, name |-> x.name, admin |-> x.admin, target |-> x.target,
          boat |-> x.boat, mine |-> x.mine, token |-> x.token]
  /\ x.admin \in BOOLEAN
  /\ x.pc = "register" => x.name \in Names
  /\ x.pc \notin {"idle", "register"} => x.id \in Ids

ThreadsShaped == th = [t \in Threads |-> th[t]] /\ \A t \in Threads : Shaped(th[t])

UsedOK == usedBy \in [Tokens -> Nat]

TypeInv == TypeOK /\ UsedOK /\ ThreadsShaped

\* There is an admin besides u.
Besides(u) == \E v \in DOMAIN users \ {u} : users[v].admin

\* Nobody else is needed to let u go.
Spare(u) == ~users[u].admin \/ Besides(u)

\* What a request that has only read, y before, knows.
Learnt(x, y) ==
  /\ x.pc = "register" => (x.admin <=> DOMAIN users = {})
  /\ x.pc \notin {"idle", "register", "reset", "setrole"} => x.id \in DOMAIN users
  /\ x.pc = "setrole" =>
       /\ y.pc = "role" /\ x.id = y.id
       /\ x.target \in DOMAIN users /\ (x.admin \/ Spare(x.target))
  /\ x.pc = "erase" => Spare(x.id) /\ x.mine = Owned(x.id)
  /\ x.pc = "claim" => x.boat \in DOMAIN boats /\ boats[x.boat] = None
  /\ x.pc = "reset" => x.token \in DOMAIN resets /\ resets[x.token].id = x.id /\ ~resets[x.token].used

FirstRead(t) ==
  \/ RegisterRead(t) \/ LoginRead(t) \/ SetAdminRead(t) \/ DeleteRead(t) \/ EnterRead(t)
  \/ ClaimRead(t) \/ ForgotRead(t) \/ ResetRead(t)

SecondRead(t) == RegisterTaken(t) \/ SetAdminCheck(t) \/ DeleteCheck(t)

Writing(t) ==
  \/ RegisterWrite(t) \/ StartSession(t) \/ SetAdminWrite(t) \/ DeleteWrite(t)
  \/ EnterWrite(t) \/ ClaimWrite(t) \/ ForgotWrite(t) \/ ResetWrite(t)


(* The count lets an admin go only if there is another.                    *)
LEMMA OthersAreAdmins ==
  ASSUME NEW u \in DOMAIN users, MayRevoke(u)
  PROVE  Spare(u)
<1> SUFFICES ASSUME users[u].admin, \A v \in DOMAIN users \ {u} : ~users[v].admin PROVE FALSE
  BY DEF Spare, Besides
<1>1. Admins = {u}
  BY DEF Admins
<1>2. Cardinality(Admins) = 1
  BY <1>1, FS_Singleton
<1>. QED
  BY <1>2 DEF MayRevoke

LEMMA NextIs ==
  Next => SessionEnds \/ \E t \in Threads : FirstRead(t) \/ SecondRead(t) \/ Writing(t)
BY Zenon DEF Next, FirstRead, SecondRead, Writing

LEMMA IdleShaped == Shaped(Idle) /\ Idle.pc = "idle"
BY DEF Shaped, Idle

LEMMA ReadsLeave ==
  ASSUME NEW t \in Threads, FirstRead(t) \/ SecondRead(t)
  PROVE  UNCHANGED <<users, sessions, boats, resets, promoted, usedBy>>
BY DEF FirstRead, SecondRead, RegisterRead, LoginRead, SetAdminRead, DeleteRead, EnterRead, ClaimRead,
       ForgotRead, ResetRead, RegisterTaken, SetAdminCheck, DeleteCheck

LEMMA FirstReadShaped ==
  ASSUME TypeInv, NEW t \in Threads, FirstRead(t)
  PROVE  \E x : th' = [th EXCEPT ![t] = x] /\ Shaped(x) /\ Learnt(x, th[t])
<1>1. CASE RegisterRead(t)
  <2>1. PICK n \in Names : th' = [th EXCEPT ![t] = [Idle EXCEPT !.pc = "register", !.name = n, !.admin = DOMAIN users = {}]]
    BY <1>1 DEF RegisterRead, Does
  <2>2. PICK a : a = (DOMAIN users = {})
    OBVIOUS
  <2>3. PICK x : x = [Idle EXCEPT !.pc = "register", !.name = n, !.admin = a]
    OBVIOUS
  <2>4. x.pc = "register" /\ x.name = n /\ x.admin = a
        /\ x = [pc |-> x.pc, id |-> x.id, name |-> x.name, admin |-> x.admin, target |-> x.target,
                boat |-> x.boat, mine |-> x.mine, token |-> x.token]
    BY <2>3 DEF Idle
  <2>5. a \in BOOLEAN
    BY <2>2
  <2>6. Shaped(x) /\ Learnt(x, th[t])
    BY <2>2, <2>4, <2>5, Zenon DEF Shaped, Learnt
  <2>. QED
    BY <2>1, <2>2, <2>3, <2>6
<1>2. CASE LoginRead(t) \/ SetAdminRead(t) \/ DeleteRead(t) \/ EnterRead(t) \/ ForgotRead(t)
  <2>1. PICK pc \in {"session", "role", "delete", "enter", "forgot"} :
          \E u \in DOMAIN users : th' = [th EXCEPT ![t] = [Idle EXCEPT !.pc = pc, !.id = u]]
    BY <1>2 DEF LoginRead, SetAdminRead, DeleteRead, EnterRead, ForgotRead, Does, SignedIn
  <2>2. PICK u \in DOMAIN users : th' = [th EXCEPT ![t] = [Idle EXCEPT !.pc = pc, !.id = u]]
    BY <2>1
  <2>3. PICK x : x = [Idle EXCEPT !.pc = pc, !.id = u]
    OBVIOUS
  <2>4. u \in Ids
    BY DEF TypeInv, TypeOK
  <2>5. Shaped(x) /\ Learnt(x, th[t])
    BY <2>1, <2>3, <2>4 DEF Shaped, Learnt, Idle
  <2>. QED
    BY <2>2, <2>3, <2>5
<1>3. CASE ClaimRead(t)
  <2>1. PICK u \in SignedIn : \E b \in DOMAIN boats \cap Legacy :
          boats[b] = None /\ th' = [th EXCEPT ![t] = [Idle EXCEPT !.pc = "claim", !.id = u, !.boat = b]]
    BY <1>3 DEF ClaimRead, Does
  <2>2. PICK b \in DOMAIN boats \cap Legacy :
          boats[b] = None /\ th' = [th EXCEPT ![t] = [Idle EXCEPT !.pc = "claim", !.id = u, !.boat = b]]
    BY <2>1
  <2>3. PICK x : x = [Idle EXCEPT !.pc = "claim", !.id = u, !.boat = b]
    OBVIOUS
  <2>4. u \in Ids /\ u \in DOMAIN users
    BY DEF TypeInv, TypeOK, SignedIn
  <2>5. Shaped(x) /\ Learnt(x, th[t])
    BY <2>2, <2>3, <2>4 DEF Shaped, Learnt, Idle
  <2>. QED
    BY <2>2, <2>3, <2>5
<1>4. CASE ResetRead(t)
  <2>1. PICK k \in DOMAIN resets :
          ~resets[k].used /\ th' = [th EXCEPT ![t] = [Idle EXCEPT !.pc = "reset", !.id = resets[k].id, !.token = k]]
    BY <1>4 DEF ResetRead, Does
  <2>2. PICK u : u = resets[k].id
    OBVIOUS
  <2>3. u \in Ids
    <3>1. resets[k] \in [id : Ids, used : BOOLEAN]
      BY DEF TypeInv, TypeOK
    <3>. QED
      BY <2>2, <3>1
  <2>4. PICK x : x = [Idle EXCEPT !.pc = "reset", !.id = u, !.token = k]
    OBVIOUS
  <2>5. Shaped(x) /\ Learnt(x, th[t])
    BY <2>1, <2>2, <2>3, <2>4 DEF Shaped, Learnt, Idle
  <2>. QED
    BY <2>1, <2>2, <2>4, <2>5
<1>. QED
  BY <1>1, <1>2, <1>3, <1>4 DEF FirstRead

LEMMA SecondReadShaped ==
  ASSUME TypeInv, NEW t \in Threads, SecondRead(t)
  PROVE  \E x : th' = [th EXCEPT ![t] = x] /\ Shaped(x) /\ Learnt(x, th[t])
<1>1. CASE Done(t)
  BY <1>1, IdleShaped DEF Done, Does, Learnt
<1>2. PICK y : y = th[t]
  OBVIOUS
<1>3. Shaped(y)
  BY <1>2 DEF TypeInv, ThreadsShaped
<1>4. CASE SetAdminCheck(t) /\ ~Done(t)
  <2>1. PICK u \in DOMAIN users, grant \in BOOLEAN :
          (grant \/ MayRevoke(u)) /\ th' = [th EXCEPT ![t] = [y EXCEPT !.pc = "setrole", !.target = u, !.admin = grant]]
    BY <1>2, <1>4 DEF SetAdminCheck, Does
  <2>2. PICK x : x = [y EXCEPT !.pc = "setrole", !.target = u, !.admin = grant]
    OBVIOUS
  <2>3. x = [pc |-> "setrole", id |-> y.id, name |-> y.name, admin |-> grant, target |-> u,
             boat |-> y.boat, mine |-> y.mine, token |-> y.token]
    BY <1>3, <2>2 DEF Shaped
  <2>4. y.pc = "role"
    BY <1>2, <1>4 DEF SetAdminCheck
  <2>5. grant \/ Spare(u)
    BY <2>1, OthersAreAdmins
  <2>6. Shaped(x) /\ Learnt(x, y)
    BY <1>3, <2>3, <2>4, <2>5 DEF Shaped, Learnt
  <2>. QED
    BY <1>2, <2>1, <2>2, <2>6
<1>5. CASE DeleteCheck(t) /\ ~Done(t)
  <2>1. /\ y.pc = "delete" /\ y.id \in DOMAIN users /\ MayRevoke(y.id)
        /\ th' = [th EXCEPT ![t] = [y EXCEPT !.pc = "erase", !.mine = Owned(y.id)]]
    BY <1>2, <1>5 DEF DeleteCheck, Does
  <2>2. PICK mine : mine = Owned(y.id)
    OBVIOUS
  <2>3. PICK x : x = [y EXCEPT !.pc = "erase", !.mine = mine]
    OBVIOUS
  <2>4. x = [pc |-> "erase", id |-> y.id, name |-> y.name, admin |-> y.admin, target |-> y.target,
             boat |-> y.boat, mine |-> mine, token |-> y.token]
    BY <1>3, <2>3 DEF Shaped
  <2>5. Spare(y.id)
    BY <2>1, OthersAreAdmins
  <2>6. Shaped(x) /\ Learnt(x, y)
    BY <1>3, <2>1, <2>2, <2>4, <2>5 DEF Shaped, Learnt
  <2>. QED
    BY <1>2, <2>1, <2>2, <2>3, <2>6
<1>. QED
  BY <1>1, <1>4, <1>5 DEF SecondRead, RegisterTaken

\* What a request that has written leaves.
Ends(x) == Shaped(x) /\ x.pc \in {"idle", "session"} /\ (x.pc = "session" => x.id \in DOMAIN users')

LEMMA WriteShaped ==
  ASSUME TypeInv, NEW t \in Threads, Writing(t)
  PROVE  \E x : th' = [th EXCEPT ![t] = x] /\ Ends(x)
<1>1. CASE Done(t)
  <2>1. Ends(Idle)
    BY IdleShaped DEF Ends
  <2>. QED
    BY <1>1, <2>1 DEF Done, Does
<1>2. CASE ~Done(t)
  <2>1. PICK i \in Ids : i \in DOMAIN users' /\ th' = [th EXCEPT ![t] = [Idle EXCEPT !.pc = "session", !.id = i]]
    <3>1. CASE RegisterWrite(t)
      BY <3>1 DEF RegisterWrite, Does, With
    <3>2. CASE ResetWrite(t)
      <4>1. /\ th[t].id \in DOMAIN users /\ UNCHANGED users
            /\ th' = [th EXCEPT ![t] = [Idle EXCEPT !.pc = "session", !.id = th[t].id]]
        BY <1>2, <3>2 DEF ResetWrite, Does
      <4>. QED
        BY <4>1 DEF TypeInv, TypeOK
    <3>. QED
      BY <1>2, <3>1, <3>2 DEF Writing, StartSession, SetAdminWrite, DeleteWrite, EnterWrite, ClaimWrite, ForgotWrite
  <2>2. PICK x : x = [Idle EXCEPT !.pc = "session", !.id = i]
    OBVIOUS
  <2>3. Shaped(x) /\ x.pc = "session" /\ x.id = i
    BY <2>2 DEF Shaped, Idle
  <2>4. Ends(x)
    BY <2>1, <2>3 DEF Ends
  <2>. QED
    BY <2>1, <2>2, <2>4
<1>. QED
  BY <1>1, <1>2

LEMMA Written ==
  ASSUME NEW t \in Threads, Writing(t)
  PROVE  /\ RegisterWrite(t) \/ SetAdminWrite(t) \/ DeleteWrite(t) \/ UNCHANGED users
         /\ RegisterWrite(t) \/ DeleteWrite(t) \/ UNCHANGED promoted
         /\ ResetWrite(t) \/ UNCHANGED usedBy
         /\ DeleteWrite(t) \/ EnterWrite(t) \/ ClaimWrite(t) \/ UNCHANGED boats
BY DEF Writing, RegisterWrite, StartSession, SetAdminWrite, DeleteWrite, EnterWrite, ClaimWrite, ForgotWrite, ResetWrite

LEMMA Registered ==
  ASSUME TypeInv, NEW t \in Threads, RegisterWrite(t)
  PROVE  /\ NewId \in Ids \ DOMAIN users /\ (DOMAIN users = {} => NewId = 1)
         /\ DOMAIN users' = DOMAIN users \cup {NewId} /\ \A u \in DOMAIN users : users'[u] = users[u]
         /\ users'[NewId] \in [name : Names, admin : BOOLEAN] /\ users'[NewId].admin = th[t].admin
         /\ promoted' = promoted \cup (IF th[t].admin THEN {NewId} ELSE {})
<1>1. PICK y, i, U : y = th[t] /\ i = NewId /\ U = users
  OBVIOUS
<1>2. Shaped(y) /\ y.pc = "register"
  BY <1>1 DEF TypeInv, ThreadsShaped, RegisterWrite
<1>3. i \in Ids \ DOMAIN U /\ (DOMAIN U = {} => i = 1)
  BY <1>1, IdIsNew DEF TypeInv, TypeOK, RegisterWrite
<1>4. PICK row : row = [name |-> y.name, admin |-> y.admin]
  OBVIOUS
<1>5. row \in [name : Names, admin : BOOLEAN] /\ row.admin = y.admin
  BY <1>2, <1>4 DEF Shaped
<1>6. users' = With(U, i, row) /\ promoted' = IF y.admin THEN promoted \cup {i} ELSE promoted
  BY <1>1, <1>4 DEF RegisterWrite
<1>7. DOMAIN users' = DOMAIN U \cup {i} /\ users'[i] = row /\ \A u \in DOMAIN U : users'[u] = U[u]
  BY <1>3, <1>6 DEF With
<1>. QED
  BY <1>1, <1>3, <1>5, <1>6, <1>7

LEMMA Promoted ==
  ASSUME TypeInv, NEW t \in Threads, SetAdminWrite(t), th[t].target \in DOMAIN users
  PROVE  /\ DOMAIN users' = DOMAIN users /\ \A u \in DOMAIN users \ {th[t].target} : users'[u] = users[u]
         /\ users'[th[t].target] \in [name : Names, admin : BOOLEAN]
         /\ users'[th[t].target].admin = th[t].admin
<1>1. PICK y, U, V : y = th[t] /\ U = users /\ V = users'
  OBVIOUS
<1>2. y.target \in DOMAIN U /\ y.admin \in BOOLEAN
  BY <1>1 DEF TypeInv, ThreadsShaped, Shaped
<1>3. V = [U EXCEPT ![y.target].admin = y.admin]
  BY <1>1 DEF SetAdminWrite
<1>4. U[y.target] \in [name : Names, admin : BOOLEAN]
  BY <1>1, <1>2 DEF TypeInv, TypeOK
<1>5. PICK row : row = [U[y.target] EXCEPT !.admin = y.admin]
  OBVIOUS
<1>6. row \in [name : Names, admin : BOOLEAN] /\ row.admin = y.admin
  BY <1>2, <1>4, <1>5
<1>7. DOMAIN V = DOMAIN U /\ V[y.target] = row /\ \A u \in DOMAIN U \ {y.target} : V[u] = U[u]
  BY <1>2, <1>3, <1>5
<1>. QED
  BY <1>1, <1>6, <1>7

LEMMA Deleted ==
  ASSUME NEW t \in Threads, DeleteWrite(t)
  PROVE  /\ DOMAIN users' = DOMAIN users \ {th[t].id} /\ \A u \in DOMAIN users' : users'[u] = users[u]
         /\ sessions' = sessions \ {th[t].id} /\ promoted' = promoted \ {th[t].id}
         /\ DOMAIN boats' = DOMAIN boats \ th[t].mine /\ \A b \in DOMAIN boats' : boats'[b] = boats[b]
         /\ DOMAIN resets' = {k \in DOMAIN resets : resets[k].id # th[t].id}
         /\ \A k \in DOMAIN resets' : resets'[k] = resets[k]
BY DEF DeleteWrite, Without

LEMMA Entered ==
  ASSUME NEW t \in Threads, EnterWrite(t) \/ ClaimWrite(t)
  PROVE  /\ UNCHANGED <<users, sessions, resets, promoted, usedBy>>
         /\ UNCHANGED boats \/ \E b \in Boats \cup DOMAIN boats :
              /\ DOMAIN boats' \in {DOMAIN boats, DOMAIN boats \cup {b}}
              /\ b \in DOMAIN boats' => boats'[b] \in {th[t].id} \cup {boats[c] : c \in DOMAIN boats \cap {b}}
              /\ \A c \in DOMAIN boats \ {b} : boats'[c] = boats[c]
              /\ b \in DOMAIN boats /\ boats'[b] # boats[b] => ClaimWrite(t) /\ b = th[t].boat
<1>1. CASE EnterWrite(t)
  <2>1. PICK b \in Boats : boats' = IF b \in DOMAIN boats THEN boats ELSE With(boats, b, th[t].id)
    BY <1>1 DEF EnterWrite
  <2>2. CASE b \in DOMAIN boats
    BY <1>1, <2>1, <2>2 DEF EnterWrite
  <2>3. CASE b \notin DOMAIN boats
    <3>1. DOMAIN boats' = DOMAIN boats \cup {b} /\ boats'[b] = th[t].id /\ \A c \in DOMAIN boats : boats'[c] = boats[c]
      BY <2>1, <2>3 DEF With
    <3>. QED
      BY <1>1, <2>1, <2>3, <3>1 DEF EnterWrite
  <2>. QED
    BY <2>2, <2>3
<1>2. CASE ClaimWrite(t)
  <2>1. CASE th[t].boat \in DOMAIN boats
    <3>1. boats' = [boats EXCEPT ![th[t].boat] = th[t].id]
      BY <1>2, <2>1 DEF ClaimWrite
    <3>. QED
      BY <1>2, <2>1, <3>1 DEF ClaimWrite
  <2>2. CASE th[t].boat \notin DOMAIN boats
    BY <1>2, <2>2 DEF ClaimWrite
  <2>. QED
    BY <2>1, <2>2
<1>. QED
  BY <1>1, <1>2

LEMMA Forgotten ==
  ASSUME NEW t \in Threads, ForgotWrite(t)
  PROVE  /\ UNCHANGED <<users, sessions, boats, promoted, usedBy>>
         /\ \E k \in Tokens \ DOMAIN resets :
              /\ usedBy[k] = 0 /\ DOMAIN resets' = DOMAIN resets \cup {k}
              /\ resets'[k] = [id |-> th[t].id, used |-> FALSE]
              /\ \A j \in DOMAIN resets : resets'[j] = resets[j]
BY DEF ForgotWrite, Sendable, With

LEMMA Reset ==
  ASSUME TypeInv, NEW t \in Threads, ResetWrite(t)
  PROVE  /\ UNCHANGED <<users, boats, promoted>> /\ sessions' \subseteq sessions
         /\ DOMAIN resets' = DOMAIN resets
         /\ UNCHANGED usedBy \/ usedBy' = [usedBy EXCEPT ![th[t].token] = usedBy[th[t].token] + 1]
         /\ \A k \in DOMAIN resets : /\ resets'[k] \in [id : Ids, used : BOOLEAN] /\ resets'[k].id = resets[k].id
                                     /\ resets'[k].used <=> resets[k].used \/ k = th[t].token
<1>1. PICK k : k = th[t].token
  OBVIOUS
<1>2. \A j \in DOMAIN resets : resets[j] \in [id : Ids, used : BOOLEAN]
  BY DEF TypeInv, TypeOK
<1>3. CASE k \in DOMAIN resets
  <2>1. PICK row : row = [resets[k] EXCEPT !.used = TRUE]
    OBVIOUS
  <2>2. row \in [id : Ids, used : BOOLEAN] /\ row.id = resets[k].id /\ row.used
    BY <1>2, <1>3, <2>1
  <2>3. resets' = [resets EXCEPT ![k] = row]
    BY <1>1, <1>3, <2>1 DEF ResetWrite
  <2>4. /\ DOMAIN resets' = DOMAIN resets /\ resets'[k] = row
        /\ \A j \in DOMAIN resets \ {k} : resets'[j] = resets[j]
    BY <1>3, <2>3
  <2>. QED
    BY <1>1, <1>2, <2>2, <2>4 DEF ResetWrite
<1>4. CASE k \notin DOMAIN resets
  BY <1>1, <1>2, <1>4 DEF ResetWrite
<1>. QED
  BY <1>3, <1>4

(* The threads after a step of a request that reads, and one that writes.  *)
LEMMA OneThread ==
  ASSUME TypeInv, NEW t \in Threads, NEW x, th' = [th EXCEPT ![t] = x], Shaped(x)
  PROVE  ThreadsShaped' /\ th'[t] = x /\ \A u \in Threads \ {t} : th'[u] = th[u]
<1>1. th = [u \in Threads |-> th[u]] /\ \A u \in Threads : Shaped(th[u])
  BY DEF TypeInv, ThreadsShaped
<1>2. th' = [u \in Threads |-> th'[u]] /\ th'[t] = x /\ \A u \in Threads \ {t} : th'[u] = th[u]
  BY <1>1
<1>3. \A u \in Threads : Shaped(th'[u])
  BY <1>1, <1>2
<1>. QED
  BY <1>2, <1>3 DEF ThreadsShaped

LEMMA AfterRead ==
  ASSUME TypeInv, NEW t \in Threads, FirstRead(t) \/ SecondRead(t)
  PROVE  /\ ThreadsShaped' /\ Learnt(th'[t], th[t]) /\ \A u \in Threads \ {t} : th'[u] = th[u]
         /\ UNCHANGED <<users, sessions, boats, resets, promoted, usedBy>>
<1>1. PICK x : th' = [th EXCEPT ![t] = x] /\ Shaped(x) /\ Learnt(x, th[t])
  BY FirstReadShaped, SecondReadShaped
<1>2. ThreadsShaped' /\ th'[t] = x /\ \A u \in Threads \ {t} : th'[u] = th[u]
  BY <1>1, OneThread
<1>. QED
  BY <1>1, <1>2, ReadsLeave

LEMMA AfterWrite ==
  ASSUME TypeInv, NEW t \in Threads, Writing(t)
  PROVE  /\ ThreadsShaped' /\ th'[t].pc \in {"idle", "session"}
         /\ th'[t].pc = "session" => th'[t].id \in DOMAIN users'
         /\ \A u \in Threads \ {t} : th'[u] = th[u]
<1>1. PICK x : th' = [th EXCEPT ![t] = x] /\ Ends(x)
  BY WriteShaped
<1>2. ThreadsShaped' /\ th'[t] = x /\ \A u \in Threads \ {t} : th'[u] = th[u]
  BY <1>1, OneThread DEF Ends
<1>. QED
  BY <1>1, <1>2 DEF Ends

LEMMA ThreadsKept == TypeInv /\ [Next]_vars => ThreadsShaped'
<1> SUFFICES ASSUME TypeInv, [Next]_vars PROVE ThreadsShaped'
  OBVIOUS
<1>1. SessionEnds \/ UNCHANGED vars => UNCHANGED th
  BY DEF SessionEnds, vars
<1>2. UNCHANGED th => ThreadsShaped'
  BY DEF TypeInv, ThreadsShaped
<1>3. ASSUME NEW t \in Threads, FirstRead(t) \/ SecondRead(t) \/ Writing(t) PROVE ThreadsShaped'
  BY <1>3, AfterRead, AfterWrite
<1>. QED
  BY <1>1, <1>2, <1>3, NextIs

LEMMA UsesCounted == TypeInv /\ [Next]_vars => UsedOK'
<1> SUFFICES ASSUME TypeInv, [Next]_vars PROVE UsedOK'
  OBVIOUS
<1>1. UNCHANGED usedBy => UsedOK'
  BY DEF TypeInv, UsedOK
<1>2. ASSUME NEW t \in Threads, ResetWrite(t) PROVE UsedOK'
  <2>1. PICK k : k = th[t].token
    OBVIOUS
  <2>2. UNCHANGED usedBy \/ usedBy' = [usedBy EXCEPT ![k] = usedBy[k] + 1]
    BY <1>2, <2>1, Reset
  <2>3. CASE k \in Tokens
    BY <1>1, <2>2, <2>3 DEF TypeInv, UsedOK
  <2>4. CASE k \notin Tokens
    BY <1>1, <2>2, <2>4 DEF TypeInv, UsedOK
  <2>. QED
    BY <2>3, <2>4
<1>3. SessionEnds \/ UNCHANGED vars => UNCHANGED usedBy
  BY DEF SessionEnds, vars
<1>. QED
  BY <1>1, <1>2, <1>3, NextIs, ReadsLeave, Written

LEMMA TypesKept == TypeInv /\ [Next]_vars => TypeInv'
<1> SUFFICES ASSUME TypeInv, [Next]_vars PROVE TypeOK'
  BY ThreadsKept, UsesCounted DEF TypeInv
<1> USE DEF TypeInv, TypeOK
<1>1. CASE UNCHANGED vars
  BY <1>1 DEF vars
<1>2. CASE SessionEnds
  BY <1>2 DEF SessionEnds
<1>3. ASSUME NEW t \in Threads, FirstRead(t) \/ SecondRead(t) PROVE TypeOK'
  BY <1>3, ReadsLeave
<1>4. ASSUME NEW t \in Threads, Writing(t) PROVE TypeOK'
  <2>1. th[t].pc \notin {"idle", "register"} => th[t].id \in Ids
    BY DEF ThreadsShaped, Shaped
  <2>2. CASE RegisterWrite(t)
    <3>1. UNCHANGED <<sessions, boats, resets, usedBy>>
      BY <2>2 DEF RegisterWrite
    <3>. QED
      BY <2>2, <3>1, Registered
  <2>3. CASE StartSession(t)
    BY <2>1, <2>3 DEF StartSession
  <2>4. CASE SetAdminWrite(t)
    <3>1. UNCHANGED <<sessions, boats, resets, promoted, usedBy>>
      BY <2>4 DEF SetAdminWrite
    <3>2. CASE th[t].target \in DOMAIN users
      BY <2>4, <3>1, <3>2, Promoted
    <3>3. CASE th[t].target \notin DOMAIN users
      BY <2>4, <3>1, <3>3 DEF SetAdminWrite
    <3>. QED
      BY <3>2, <3>3
  <2>5. CASE DeleteWrite(t)
    <3>1. promoted' \subseteq promoted
      BY <2>5, Deleted
    <3>2. /\ DOMAIN users' \subseteq DOMAIN users /\ \A u \in DOMAIN users' : users'[u] = users[u]
          /\ sessions' \subseteq sessions
          /\ DOMAIN boats' \subseteq DOMAIN boats /\ \A b \in DOMAIN boats' : boats'[b] = boats[b]
          /\ DOMAIN resets' \subseteq DOMAIN resets /\ \A k \in DOMAIN resets' : resets'[k] = resets[k]
      BY <2>5, Deleted
    <3>. QED
      BY <3>1, <3>2
  <2>6. CASE EnterWrite(t) \/ ClaimWrite(t)
    <3>1. th[t].id \in Ids
      BY <2>1, <2>6 DEF EnterWrite, ClaimWrite
    <3>2. UNCHANGED <<users, sessions, resets, promoted, usedBy>>
      BY <2>6, Entered
    <3>3. CASE UNCHANGED boats
      BY <3>2, <3>3
    <3>4. CASE ~UNCHANGED boats
      <4>1. PICK b \in Boats \cup DOMAIN boats :
              /\ DOMAIN boats' \in {DOMAIN boats, DOMAIN boats \cup {b}}
              /\ b \in DOMAIN boats' => boats'[b] \in {th[t].id} \cup {boats[c] : c \in DOMAIN boats \cap {b}}
              /\ \A c \in DOMAIN boats \ {b} : boats'[c] = boats[c]
        BY <2>6, <3>4, Entered
      <4>2. DOMAIN boats' \subseteq Boats
        BY <4>1
      <4>3. \A c \in DOMAIN boats' : boats'[c] = th[t].id \/ (c \in DOMAIN boats /\ boats'[c] = boats[c])
        BY <4>1
      <4>4. \A c \in DOMAIN boats' : boats'[c] \in Ids \/ (c \in Legacy /\ boats'[c] = None)
        BY <3>1, <4>3
      <4>5. /\ (DOMAIN users \subseteq Ids)'
            /\ (\A u \in DOMAIN users : users[u] \in [name : Names, admin : BOOLEAN])'
            /\ (sessions \subseteq Ids /\ promoted \subseteq Ids /\ DOMAIN resets \subseteq Tokens)'
            /\ (\A k \in DOMAIN resets : resets[k] \in [id : Ids, used : BOOLEAN])'
        BY <3>2
      <4>. QED
        BY <4>2, <4>4, <4>5
    <3>. QED
      BY <3>3, <3>4
  <2>7. CASE ForgotWrite(t)
    <3>1. th[t].id \in Ids
      BY <2>1, <2>7 DEF ForgotWrite
    <3>2. UNCHANGED <<users, sessions, boats, promoted, usedBy>>
      BY <2>7, Forgotten
    <3>3. PICK k \in Tokens \ DOMAIN resets :
            /\ DOMAIN resets' = DOMAIN resets \cup {k} /\ resets'[k] = [id |-> th[t].id, used |-> FALSE]
            /\ \A j \in DOMAIN resets : resets'[j] = resets[j]
      BY <2>7, Forgotten
    <3>4. PICK row : row = [id |-> th[t].id, used |-> FALSE]
      OBVIOUS
    <3>5. row \in [id : Ids, used : BOOLEAN] /\ resets'[k] = row
      BY <3>1, <3>3, <3>4
    <3>6. DOMAIN resets' \subseteq Tokens /\ \A j \in DOMAIN resets' : resets'[j] \in [id : Ids, used : BOOLEAN]
      BY <3>3, <3>5
    <3>. QED
      BY <3>2, <3>6
  <2>8. CASE ResetWrite(t)
    BY <2>8, Reset
  <2>. QED
    BY <1>4, <2>2, <2>3, <2>4, <2>5, <2>6, <2>7, <2>8 DEF Writing
<1>. QED
  BY <1>1, <1>2, <1>3, <1>4, NextIs

LEMMA InitTypes == Init => TypeInv
<1> SUFFICES ASSUME Init PROVE TypeInv
  OBVIOUS
<1>1. TypeOK /\ UsedOK
  BY AccountsAssumption DEF Init, TypeOK, UsedOK
<1>2. ThreadsShaped
  BY IdleShaped DEF Init, ThreadsShaped
<1>. QED
  BY <1>1, <1>2 DEF TypeInv

LEMMA TypesHold == Spec => []TypeInv
BY InitTypes, TypesKept, PTL DEF Spec

-----------------------------------------------------------------------------
(***************************************************************************)
(* What is crossed stays so, and what two requests are about now is.       *)
(***************************************************************************)
CrossedInv == Crossing(th) \subseteq crossed

LEMMA CrossedKept == CrossedInv /\ [Next]_vars => CrossedInv' /\ crossed \subseteq crossed'
<1> SUFFICES ASSUME CrossedInv, [Next]_vars PROVE CrossedInv' /\ crossed \subseteq crossed'
  OBVIOUS
<1>1. UNCHANGED <<th, crossed>> => CrossedInv' /\ crossed \subseteq crossed'
  BY DEF CrossedInv
<1>3. ASSUME NEW t \in Threads, FirstRead(t) \/ SecondRead(t) \/ Writing(t)
      PROVE  crossed' = crossed \cup Crossing(th')
  <2>1. CASE FirstRead(t)
    BY <2>1 DEF FirstRead, Does, RegisterRead, LoginRead, SetAdminRead, DeleteRead, EnterRead, ClaimRead,
                ForgotRead, ResetRead
  <2>2. CASE SecondRead(t)
    BY <2>2 DEF SecondRead, Does, Done, RegisterTaken, SetAdminCheck, DeleteCheck
  <2>3. CASE Writing(t)
    BY <2>3 DEF Writing, Does, Done, RegisterWrite, StartSession, SetAdminWrite, DeleteWrite, EnterWrite,
                ClaimWrite, ForgotWrite, ResetWrite
  <2>. QED
    BY <1>3, <2>1, <2>2, <2>3
<1>4. SessionEnds \/ UNCHANGED vars => UNCHANGED <<th, crossed>>
  BY DEF SessionEnds, vars
<1>. QED
  BY <1>1, <1>3, <1>4, NextIs DEF CrossedInv

LEMMA InitCrossed == Init => CrossedInv
<1> SUFFICES ASSUME Init, NEW e \in Crossing(th) PROVE FALSE
  BY DEF CrossedInv
<1>1. \A t \in Threads : th[t] = Idle
  BY DEF Init
<1>2. \A t \in Threads : th[t].pc = "idle"
  BY <1>1 DEF Idle
<1>3. \A t \in Threads : About(th[t]) = {}
  BY <1>2 DEF About
<1>. QED
  BY <1>2, <1>3 DEF Crossing, Pairs

(* What two threads are about at a time is crossed.                        *)
LEMMA BothAbout ==
  ASSUME CrossedInv, NEW t \in Threads, NEW u \in Threads, t # u,
         NEW e, e \in About(th[t]), e \in About(th[u])
  PROVE  e \in crossed
<1>1. <<t, u>> \in Pairs
  BY DEF Pairs
<1>2. PICK p \in Pairs : p[1] = t /\ p[2] = u
  BY <1>1
<1>3. e \in About(th[p[1]]) \cap About(th[p[2]])
  BY <1>2
<1>. QED
  BY <1>3 DEF CrossedInv, Crossing

LEMMA BothOf ==
  ASSUME CrossedInv, NEW t \in Threads, NEW u \in Threads, t # u,
         th[t].pc = "erase", th[u].id = th[t].id
  PROVE  <<"account", th[t].id>> \in crossed
<1>1. <<t, u>> \in Pairs
  BY DEF Pairs
<1>2. PICK p \in Pairs : p[1] = t /\ p[2] = u
  BY <1>1
<1>3. th[p[1]].pc = "erase" /\ th[p[2]].id = th[p[1]].id /\ th[p[1]].id = th[t].id
  BY <1>2
<1>. QED
  BY <1>3 DEF CrossedInv, Crossing

-----------------------------------------------------------------------------
(***************************************************************************)
(* There is an admin.  The count lets one admin go only if there is        *)
(* another, who stays one while nobody else is about to let one go; so the *)
(* last account never goes, and who registers as no admin because he saw   *)
(* an account is right for ever.                                           *)
(***************************************************************************)
Revoking(x) == x.pc = "erase" \/ (x.pc = "setrole" /\ ~x.admin)
Revoked(x) == IF x.pc = "erase" THEN x.id ELSE x.target

AdminsSeen ==
  /\ DOMAIN users # {} => \E v \in DOMAIN users : users[v].admin
  /\ \A t \in Threads : th[t].pc = "register" /\ ~th[t].admin => DOMAIN users # {}
  /\ \A t \in Threads : Revoking(th[t]) => Besides(Revoked(th[t]))

AdminInv == <<"admins", None>> \notin crossed => AdminsSeen

LEMMA OneRevokes ==
  ASSUME CrossedInv, <<"admins", None>> \notin crossed,
         NEW t \in Threads, NEW u \in Threads, t # u, Revoking(th[t])
  PROVE  ~Revoking(th[u])
<1> SUFFICES ASSUME Revoking(th[u]) PROVE FALSE
  OBVIOUS
<1>1. \A x : Revoking(x) => <<"admins", None>> \in About(x)
  BY DEF Revoking, About
<1>. QED
  BY <1>1, BothAbout

\* Every account is still there, and every admin one.
AdminsStay == \A v \in DOMAIN users : v \in DOMAIN users' /\ (users[v].admin => users'[v].admin)

LEMMA WhoWrites ==
  ASSUME TypeInv, NEW t \in Threads, Writing(t)
  PROVE  Revoking(th[t]) \/ AdminsStay
<1>1. CASE RegisterWrite(t)
  BY <1>1, Registered DEF AdminsStay
<1>2. CASE SetAdminWrite(t) /\ th[t].admin
  <2>1. CASE th[t].target \in DOMAIN users
    BY <1>2, <2>1, Promoted DEF AdminsStay
  <2>2. CASE th[t].target \notin DOMAIN users
    BY <1>2, <2>2 DEF SetAdminWrite, AdminsStay
  <2>. QED
    BY <2>1, <2>2
<1>3. SetAdminWrite(t) /\ ~th[t].admin => Revoking(th[t])
  BY DEF SetAdminWrite, Revoking
<1>4. DeleteWrite(t) => Revoking(th[t])
  BY DEF DeleteWrite, Revoking
<1>5. UNCHANGED users => AdminsStay
  BY DEF AdminsStay
<1>. QED
  BY <1>1, <1>2, <1>3, <1>4, <1>5, Written

\* One that lets an admin go leaves another.
LEMMA RevokerLeaves ==
  ASSUME TypeInv, NEW t \in Threads, Writing(t), Revoking(th[t]), Besides(Revoked(th[t]))
  PROVE  \E v \in DOMAIN users' : users'[v].admin
<1>1. PICK v \in DOMAIN users \ {Revoked(th[t])} : users[v].admin
  BY DEF Besides
<1>2. CASE SetAdminWrite(t)
  <2>1. v # th[t].target
    BY <1>1, <1>2 DEF SetAdminWrite, Revoked
  <2>2. CASE th[t].target \in DOMAIN users
    BY <1>1, <1>2, <2>1, <2>2, Promoted
  <2>3. CASE th[t].target \notin DOMAIN users
    BY <1>1, <1>2, <2>3 DEF SetAdminWrite
  <2>. QED
    BY <2>2, <2>3
<1>3. CASE DeleteWrite(t)
  <2>1. v # th[t].id
    BY <1>1, <1>3 DEF DeleteWrite, Revoked
  <2>. QED
    BY <1>1, <1>3, <2>1, Deleted
<1>. QED
  BY <1>2, <1>3 DEF Writing, Revoking, RegisterWrite, StartSession, EnterWrite, ClaimWrite, ForgotWrite, ResetWrite

LEMMA AdminsRead ==
  ASSUME TypeInv, AdminsSeen, NEW t \in Threads, FirstRead(t) \/ SecondRead(t)
  PROVE  AdminsSeen'
<1>1. /\ Learnt(th'[t], th[t]) /\ \A u \in Threads \ {t} : th'[u] = th[u]
      /\ UNCHANGED users
  BY AfterRead
<1>2. \A u : Besides(u) <=> Besides(u)'
  BY <1>1 DEF Besides
<1>3. th'[t].pc = "register" /\ ~th'[t].admin => DOMAIN users # {}
  BY <1>1 DEF Learnt
<1>4. Revoking(th'[t]) => Besides(Revoked(th'[t]))
  <2> SUFFICES ASSUME Revoking(th'[t]) PROVE Besides(Revoked(th'[t]))
    OBVIOUS
  <2>1. Revoked(th'[t]) \in DOMAIN users /\ Spare(Revoked(th'[t]))
    BY <1>1 DEF Learnt, Revoking, Revoked
  <2>2. PICK v \in DOMAIN users : users[v].admin
    BY <2>1 DEF AdminsSeen
  <2>. QED
    BY <2>1, <2>2 DEF Spare, Besides
<1>5. \A u \in Threads : th'[u].pc = "register" /\ ~th'[u].admin => DOMAIN users # {}
  BY <1>1, <1>3 DEF AdminsSeen
<1>6. \A u \in Threads : Revoking(th'[u]) => Besides(Revoked(th'[u]))
  BY <1>1, <1>4 DEF AdminsSeen
<1>. QED
  BY <1>1, <1>2, <1>5, <1>6 DEF AdminsSeen, Besides, Revoking, Revoked

LEMMA AdminsWritten ==
  ASSUME TypeInv, CrossedInv, <<"admins", None>> \notin crossed, AdminsSeen, NEW t \in Threads, Writing(t)
  PROVE  AdminsSeen'
<1>1. /\ th'[t].pc \in {"idle", "session"} /\ \A u \in Threads \ {t} : th'[u] = th[u]
  BY AfterWrite
<1>2. ~Revoking(th'[t]) /\ th'[t].pc # "register"
  BY <1>1 DEF Revoking
<1>3. CASE Revoking(th[t])
  <2>1. \E v \in DOMAIN users' : users'[v].admin
    BY <1>3, RevokerLeaves DEF AdminsSeen
  <2>2. \A u \in Threads : ~Revoking(th'[u])
    BY <1>1, <1>2, <1>3, OneRevokes
  <2>. QED
    BY <2>1, <2>2 DEF AdminsSeen, Revoking
<1>4. CASE ~Revoking(th[t]) /\ AdminsStay
  <2>1. \A u \in Threads : th'[u].pc = "register" /\ ~th'[u].admin => DOMAIN users' # {}
    BY <1>1, <1>2, <1>4 DEF AdminsStay, AdminsSeen
  <2>2. \A u : Besides(u) => \E v \in DOMAIN users' \ {u} : users'[v].admin
    BY <1>4 DEF AdminsStay, Besides
  <2>3. \A u \in Threads : Revoking(th'[u]) => \E v \in DOMAIN users' \ {Revoked(th'[u])} : users'[v].admin
    BY <1>1, <1>2, <2>2 DEF AdminsSeen
  <2>4. DOMAIN users' # {} => \E v \in DOMAIN users' : users'[v].admin
    <3>1. CASE DOMAIN users # {}
      BY <1>4, <3>1 DEF AdminsStay, AdminsSeen
    <3>2. CASE DOMAIN users = {} /\ RegisterWrite(t)
      <4>1. th[t].admin
        BY <3>2 DEF AdminsSeen, RegisterWrite
      <4>. QED
        BY <3>2, <4>1, Registered
    <3>3. CASE DOMAIN users = {} /\ DOMAIN users' = {}
      BY <3>3
    <3>4. DOMAIN users = {} => RegisterWrite(t) \/ DOMAIN users' = {}
      <4>1. DeleteWrite(t) \/ SetAdminWrite(t) => DOMAIN users' \subseteq DOMAIN users
        BY Deleted DEF SetAdminWrite
      <4>. QED
        BY <4>1, Written
    <3>. QED
      BY <3>1, <3>2, <3>3, <3>4
  <2>. QED
    BY <2>1, <2>3, <2>4 DEF AdminsSeen, Besides, Revoking, Revoked
<1>. QED
  BY <1>3, <1>4, WhoWrites

LEMMA AdminsKept == TypeInv /\ CrossedInv /\ AdminInv /\ [Next]_vars => AdminInv'
<1> SUFFICES ASSUME TypeInv, CrossedInv, AdminInv, [Next]_vars, <<"admins", None>> \notin crossed'
             PROVE  AdminsSeen'
  BY DEF AdminInv
<1>1. <<"admins", None>> \notin crossed /\ AdminsSeen
  BY CrossedKept DEF AdminInv
<1>2. SessionEnds \/ UNCHANGED vars => UNCHANGED <<users, th>>
  BY DEF SessionEnds, vars
<1>3. UNCHANGED <<users, th>> => AdminsSeen'
  BY <1>1 DEF AdminsSeen, Besides
<1>4. ASSUME NEW t \in Threads, FirstRead(t) \/ SecondRead(t) PROVE AdminsSeen'
  BY <1>1, <1>4, AdminsRead
<1>5. ASSUME NEW t \in Threads, Writing(t) PROVE AdminsSeen'
  BY <1>1, <1>5, AdminsWritten
<1>. QED
  BY <1>2, <1>3, <1>4, <1>5, NextIs

-----------------------------------------------------------------------------
(***************************************************************************)
(* No row outlives its account.  While nobody deletes it under the feet of *)
(* its own requests, whoever acts for an account still has it, and who     *)
(* deletes it knows all its boats.                                         *)
(***************************************************************************)
Acts(x, u) == x.pc \notin {"idle", "register"} /\ x.id = u

Named(u) == u \in sessions \/ Owned(u) # {} \/ \E k \in DOMAIN resets : resets[k].id = u

Held(u) ==
  /\ Named(u) => u \in DOMAIN users
  /\ \A t \in Threads : Acts(th[t], u) => u \in DOMAIN users
  /\ \A t \in Threads : th[t].pc = "erase" /\ th[t].id = u => Owned(u) \subseteq th[t].mine

RowsInv == \A u \in Ids : <<"account", u>> \notin crossed => Held(u)

\* Who reads is sure of the account, or has found its number in a link.
LEMMA RowsRead ==
  ASSUME TypeInv, NEW u \in Ids, Held(u), NEW t \in Threads, FirstRead(t) \/ SecondRead(t)
  PROVE  Held(u)'
<1>1. /\ Learnt(th'[t], th[t]) /\ \A v \in Threads \ {t} : th'[v] = th[v]
      /\ UNCHANGED <<users, sessions, boats, resets>>
  BY AfterRead
<1>2. Acts(th'[t], u) => u \in DOMAIN users
  <2>1. CASE th'[t].pc = "setrole"
    BY <1>1, <2>1 DEF Learnt, Acts, Held
  <2>2. CASE th'[t].pc = "reset"
    BY <1>1, <2>2 DEF Learnt, Acts, Held, Named
  <2>. QED
    BY <1>1, <2>1, <2>2 DEF Learnt, Acts
<1>3. th'[t].pc = "erase" /\ th'[t].id = u => Owned(u) \subseteq th'[t].mine
  BY <1>1 DEF Learnt
<1>4. \A v \in Threads : Acts(th'[v], u) => u \in DOMAIN users
  BY <1>1, <1>2 DEF Held
<1>5. \A v \in Threads : th'[v].pc = "erase" /\ th'[v].id = u => Owned(u) \subseteq th'[v].mine
  BY <1>1, <1>3 DEF Held
<1>. QED
  BY <1>1, <1>4, <1>5 DEF Held, Acts, Owned, Named

\* A step of a request that acts for another account leaves u no new row.
LEMMA NothingNew ==
  ASSUME TypeInv, NEW u \in Ids, NEW t \in Threads, Writing(t), ~Acts(th[t], u)
  PROVE  Owned(u)' \subseteq Owned(u) /\ (Named(u)' => Named(u))
<1>1. CASE RegisterWrite(t) \/ SetAdminWrite(t)
  BY <1>1 DEF RegisterWrite, SetAdminWrite, Owned, Named
<1>2. CASE StartSession(t)
  BY <1>2 DEF StartSession, Acts, Owned, Named
<1>3. CASE DeleteWrite(t)
  <2>1. /\ sessions' \subseteq sessions
        /\ DOMAIN boats' \subseteq DOMAIN boats /\ \A b \in DOMAIN boats' : boats'[b] = boats[b]
        /\ DOMAIN resets' \subseteq DOMAIN resets /\ \A k \in DOMAIN resets' : resets'[k] = resets[k]
    BY <1>3, Deleted
  <2>. QED
    BY <2>1 DEF Owned, Named
<1>4. CASE EnterWrite(t) \/ ClaimWrite(t)
  <2>1. UNCHANGED <<sessions, resets>> /\ th[t].id # u
    BY <1>4, Entered DEF EnterWrite, ClaimWrite, Acts
  <2>2. \A c \in DOMAIN boats' : boats'[c] = th[t].id \/ (c \in DOMAIN boats /\ boats'[c] = boats[c])
    <3>1. CASE UNCHANGED boats
      BY <3>1
    <3>2. CASE ~UNCHANGED boats
      <4>1. PICK b \in Boats \cup DOMAIN boats :
              /\ DOMAIN boats' \in {DOMAIN boats, DOMAIN boats \cup {b}}
              /\ b \in DOMAIN boats' => boats'[b] \in {th[t].id} \cup {boats[c] : c \in DOMAIN boats \cap {b}}
              /\ \A c \in DOMAIN boats \ {b} : boats'[c] = boats[c]
        BY <1>4, <3>2, Entered
      <4>. QED
        BY <4>1
    <3>. QED
      BY <3>1, <3>2
  <2>. QED
    BY <2>1, <2>2 DEF Owned, Named
<1>5. CASE ForgotWrite(t)
  <2>1. UNCHANGED <<sessions, boats>> /\ th[t].id # u
    BY <1>5, Forgotten DEF ForgotWrite, Acts
  <2>2. PICK k \in Tokens \ DOMAIN resets :
          /\ DOMAIN resets' = DOMAIN resets \cup {k} /\ resets'[k] = [id |-> th[t].id, used |-> FALSE]
          /\ \A j \in DOMAIN resets : resets'[j] = resets[j]
    BY <1>5, Forgotten
  <2>3. resets'[k].id = th[t].id
    BY <2>2
  <2>. QED
    BY <2>1, <2>2, <2>3 DEF Owned, Named
<1>6. CASE ResetWrite(t)
  <2>1. /\ UNCHANGED boats /\ sessions' \subseteq sessions /\ DOMAIN resets' = DOMAIN resets
        /\ \A k \in DOMAIN resets : resets'[k].id = resets[k].id
    BY <1>6, Reset
  <2>. QED
    BY <2>1 DEF Owned, Named
<1>. QED
  BY <1>1, <1>2, <1>3, <1>4, <1>5, <1>6 DEF Writing

\* An account goes with its own deletion only.
LEMMA AccountStays ==
  ASSUME TypeInv, NEW u \in DOMAIN users, NEW t \in Threads, Writing(t),
         ~(DeleteWrite(t) /\ th[t].id = u)
  PROVE  u \in DOMAIN users'
<1>1. CASE SetAdminWrite(t)
  <2>1. CASE th[t].target \in DOMAIN users
    BY <1>1, <2>1, Promoted
  <2>2. CASE th[t].target \notin DOMAIN users
    BY <1>1, <2>2 DEF SetAdminWrite
  <2>. QED
    BY <2>1, <2>2
<1>2. RegisterWrite(t) \/ DeleteWrite(t) => u \in DOMAIN users'
  BY Registered, Deleted
<1>. QED
  BY <1>1, <1>2, Written

LEMMA RowsWritten ==
  ASSUME TypeInv, CrossedInv, NEW u \in Ids, <<"account", u>> \notin crossed, Held(u),
         NEW t \in Threads, Writing(t)
  PROVE  Held(u)'
<1>1. /\ th'[t].pc \in {"idle", "session"} /\ \A v \in Threads \ {t} : th'[v] = th[v]
      /\ th'[t].pc = "session" => th'[t].id \in DOMAIN users'
  BY AfterWrite
<1>2. \A v \in Threads \ {t} : th[t].pc = "erase" /\ th[t].id = u => th[v].id # u
  BY BothOf
<1>3. \A v \in Threads \ {t} : th[v].pc = "erase" /\ th[v].id = u => th[t].id # u
  BY BothOf
<1>4. CASE DeleteWrite(t) /\ th[t].id = u
  <2>1. th[t].pc = "erase" /\ Owned(u) \subseteq th[t].mine
    BY <1>4 DEF DeleteWrite, Held
  <2>2. ~Named(u)'
    <3>1. /\ u \notin sessions'
          /\ DOMAIN boats' = DOMAIN boats \ th[t].mine /\ \A b \in DOMAIN boats' : boats'[b] = boats[b]
          /\ DOMAIN resets' = {k \in DOMAIN resets : resets[k].id # u}
          /\ \A k \in DOMAIN resets' : resets'[k] = resets[k]
      BY <1>4, Deleted
    <3>. QED
      BY <2>1, <3>1 DEF Named, Owned
  <2>3. th'[t].pc = "session" => th'[t].id # u
    BY <1>1, <1>4, Deleted
  <2>4. \A v \in Threads : ~Acts(th'[v], u) /\ ~(th'[v].pc = "erase" /\ th'[v].id = u)
    BY <1>1, <1>2, <1>4, <2>1, <2>3 DEF Acts
  <2>. QED
    BY <2>2, <2>4 DEF Held, Acts
<1>5. CASE ~(DeleteWrite(t) /\ th[t].id = u)
  <2>1. u \in DOMAIN users => u \in DOMAIN users'
    BY <1>5, AccountStays
  <2>2. Named(u)' => u \in DOMAIN users'
    BY <2>1, NothingNew DEF Held
  <2>3. \A v \in Threads : Acts(th'[v], u) => u \in DOMAIN users'
    BY <1>1, <2>1 DEF Held, Acts
  <2>4. \A v \in Threads : th'[v].pc = "erase" /\ th'[v].id = u => Owned(u)' \subseteq th'[v].mine
    <3> SUFFICES ASSUME NEW v \in Threads, th'[v].pc = "erase" /\ th'[v].id = u
                 PROVE  Owned(u)' \subseteq th'[v].mine
      OBVIOUS
    <3>1. v # t /\ th'[v] = th[v]
      BY <1>1
    <3>2. Owned(u) \subseteq th[v].mine /\ ~Acts(th[t], u)
      BY <1>3, <3>1 DEF Held, Acts
    <3>. QED
      BY <3>1, <3>2, NothingNew
  <2>. QED
    BY <2>2, <2>3, <2>4 DEF Held, Acts
<1>. QED
  BY <1>4, <1>5

LEMMA RowsKept == TypeInv /\ CrossedInv /\ RowsInv /\ [Next]_vars => RowsInv'
<1> SUFFICES ASSUME TypeInv, CrossedInv, RowsInv, [Next]_vars,
                    NEW u \in Ids, <<"account", u>> \notin crossed'
             PROVE  Held(u)'
  BY DEF RowsInv
<1>1. <<"account", u>> \notin crossed /\ Held(u)
  BY CrossedKept DEF RowsInv
<1>2. UNCHANGED vars => Held(u)'
  BY <1>1 DEF vars, Held, Acts, Named, Owned
<1>3. SessionEnds => Held(u)'
  BY <1>1 DEF SessionEnds, Held, Acts, Named, Owned
<1>4. ASSUME NEW t \in Threads, FirstRead(t) \/ SecondRead(t) PROVE Held(u)'
  BY <1>1, <1>4, RowsRead
<1>5. ASSUME NEW t \in Threads, Writing(t) PROVE Held(u)'
  BY <1>1, <1>5, RowsWritten
<1>. QED
  BY <1>2, <1>3, <1>4, <1>5, NextIs

LEMMA RowsAnswered == TypeOK /\ RowsInv => NothingLeftBehind
<1> SUFFICES ASSUME TypeOK, RowsInv PROVE NothingLeftBehind
  OBVIOUS
<1>1. \A u \in Ids : Named(u) => Answerable(u)
  BY DEF RowsInv, Held, Answerable
<1>2. \A b \in DOMAIN boats : boats[b] # None => boats[b] \in Ids /\ Named(boats[b])
  BY DEF TypeOK, Named, Owned
<1>3. \A k \in DOMAIN resets : resets[k].id \in Ids /\ Named(resets[k].id)
  BY DEF TypeOK, Named
<1>. QED
  BY <1>1, <1>2, <1>3 DEF NothingLeftBehind, TypeOK, Named

-----------------------------------------------------------------------------
(***************************************************************************)
(* A link sets one password: a link that is not marked used has set none,  *)
(* and nobody else is about to use the one a request has looked up.        *)
(***************************************************************************)
Unspent(k) ==
  /\ usedBy[k] <= 1
  /\ k \in DOMAIN resets /\ ~resets[k].used => usedBy[k] = 0
  /\ \A t \in Threads : th[t].pc = "reset" /\ th[t].token = k => usedBy[k] = 0

LinksInv == \A k \in Tokens : <<"link", k>> \notin crossed => Unspent(k)

LEMMA LinksRead ==
  ASSUME TypeInv, NEW k \in Tokens, Unspent(k), NEW t \in Threads, FirstRead(t) \/ SecondRead(t)
  PROVE  Unspent(k)'
<1>1. /\ Learnt(th'[t], th[t]) /\ \A v \in Threads \ {t} : th'[v] = th[v]
      /\ UNCHANGED <<resets, usedBy>>
  BY AfterRead
<1>2. th'[t].pc = "reset" /\ th'[t].token = k => usedBy[k] = 0
  BY <1>1 DEF Learnt, Unspent
<1>. QED
  BY <1>1, <1>2 DEF Unspent

LEMMA LinksWritten ==
  ASSUME TypeInv, CrossedInv, NEW k \in Tokens, <<"link", k>> \notin crossed, Unspent(k),
         NEW t \in Threads, Writing(t)
  PROVE  Unspent(k)'
<1>1. th'[t].pc # "reset" /\ \A v \in Threads \ {t} : th'[v] = th[v]
  BY AfterWrite
<1>2. CASE ResetWrite(t) /\ th[t].token = k
  <2>1. usedBy \in [Tokens -> Nat] /\ usedBy[k] = 0
    BY <1>2 DEF TypeInv, UsedOK, Unspent, ResetWrite
  <2>2. usedBy'[k] <= 1
    BY <1>2, <2>1, Reset
  <2>3. k \in DOMAIN resets' => resets'[k].used
    BY <1>2, Reset
  <2>4. \A v \in Threads : ~(th'[v].pc = "reset" /\ th'[v].token = k)
    <3> SUFFICES ASSUME NEW v \in Threads \ {t}, th[v].pc = "reset", th[v].token = k PROVE FALSE
      BY <1>1
    <3>1. <<"link", k>> \in About(th[t]) /\ <<"link", k>> \in About(th[v])
      BY <1>2 DEF About, ResetWrite
    <3>. QED
      BY <3>1, BothAbout
  <2>. QED
    BY <2>2, <2>3, <2>4 DEF Unspent
<1>3. CASE ~(ResetWrite(t) /\ th[t].token = k)
  <2>1. usedBy'[k] = usedBy[k]
    <3>1. CASE ResetWrite(t)
      BY <1>3, <3>1, Reset DEF TypeInv, UsedOK
    <3>. QED
      BY <3>1, Written
  <2>2. k \in DOMAIN resets' /\ ~resets'[k].used => usedBy[k] = 0
    <3>1. CASE ForgotWrite(t)
      <4>1. PICK j \in Tokens \ DOMAIN resets :
              /\ usedBy[j] = 0 /\ DOMAIN resets' = DOMAIN resets \cup {j}
              /\ \A i \in DOMAIN resets : resets'[i] = resets[i]
        BY <3>1, Forgotten
      <4>. QED
        BY <4>1 DEF Unspent
    <3>2. CASE ResetWrite(t)
      BY <3>2, Reset DEF Unspent
    <3>3. CASE DeleteWrite(t)
      BY <3>3, Deleted DEF Unspent
    <3>4. CASE UNCHANGED resets
      BY <3>4 DEF Unspent
    <3>. QED
      BY <3>1, <3>2, <3>3, <3>4 DEF Writing, RegisterWrite, StartSession, SetAdminWrite, EnterWrite, ClaimWrite
  <2>. QED
    BY <1>1, <2>1, <2>2 DEF Unspent
<1>. QED
  BY <1>2, <1>3

LEMMA LinksKept == TypeInv /\ CrossedInv /\ LinksInv /\ [Next]_vars => LinksInv'
<1> SUFFICES ASSUME TypeInv, CrossedInv, LinksInv, [Next]_vars,
                    NEW k \in Tokens, <<"link", k>> \notin crossed'
             PROVE  Unspent(k)'
  BY DEF LinksInv
<1>1. <<"link", k>> \notin crossed /\ Unspent(k)
  BY CrossedKept DEF LinksInv
<1>2. SessionEnds \/ UNCHANGED vars => Unspent(k)'
  BY <1>1 DEF SessionEnds, vars, Unspent
<1>3. ASSUME NEW t \in Threads, FirstRead(t) \/ SecondRead(t) PROVE Unspent(k)'
  BY <1>1, <1>3, LinksRead
<1>4. ASSUME NEW t \in Threads, Writing(t) PROVE Unspent(k)'
  BY <1>1, <1>4, LinksWritten
<1>. QED
  BY <1>2, <1>3, <1>4, NextIs

-----------------------------------------------------------------------------
(***************************************************************************)
(* One account is made admin by registering: who is about to has seen no   *)
(* account, and no other request is about to.                              *)
(***************************************************************************)
FirstOnly ==
  /\ \E i \in Ids \cup {0} : promoted \subseteq {i}
  /\ \A t \in Threads : th[t].pc = "register" /\ th[t].admin => promoted = {}

FirstInv == promoted \subseteq DOMAIN users /\ (<<"first", None>> \notin crossed => FirstOnly)

LEMMA PromotedThere ==
  ASSUME TypeInv, promoted \subseteq DOMAIN users, [Next]_vars
  PROVE  promoted' \subseteq DOMAIN users'
<1>1. SessionEnds \/ UNCHANGED vars => UNCHANGED <<users, promoted>>
  BY DEF SessionEnds, vars
<1>2. ASSUME NEW t \in Threads, FirstRead(t) \/ SecondRead(t) PROVE UNCHANGED <<users, promoted>>
  BY <1>2, ReadsLeave
<1>3. ASSUME NEW t \in Threads, Writing(t) PROVE promoted' \subseteq DOMAIN users'
  <2>1. CASE RegisterWrite(t)
    BY <2>1, Registered
  <2>2. CASE DeleteWrite(t)
    BY <2>2, Deleted
  <2>3. CASE ~RegisterWrite(t) /\ ~DeleteWrite(t)
    <3>1. UNCHANGED promoted
      BY <1>3, <2>3, Written
    <3>. QED
      BY <1>3, <2>3, <3>1, AccountStays
  <2>. QED
    BY <2>1, <2>2, <2>3
<1>. QED
  BY <1>1, <1>2, <1>3, NextIs

LEMMA FirstWritten ==
  ASSUME TypeInv, CrossedInv, <<"first", None>> \notin crossed, FirstOnly, NEW t \in Threads, Writing(t)
  PROVE  FirstOnly'
<1>1. th'[t].pc # "register" /\ \A v \in Threads \ {t} : th'[v] = th[v]
  BY AfterWrite
<1>2. CASE RegisterWrite(t) /\ th[t].admin
  <2>1. promoted' = {NewId} /\ NewId \in Ids
    BY <1>2, Registered DEF FirstOnly, RegisterWrite
  <2>2. \A v \in Threads : ~(th'[v].pc = "register" /\ th'[v].admin)
    <3> SUFFICES ASSUME NEW v \in Threads \ {t}, th[v].pc = "register", th[v].admin PROVE FALSE
      BY <1>1
    <3>1. <<"first", None>> \in About(th[t]) /\ <<"first", None>> \in About(th[v])
      BY <1>2 DEF About, RegisterWrite
    <3>. QED
      BY <3>1, BothAbout
  <2>. QED
    BY <2>1, <2>2 DEF FirstOnly, Ids
<1>3. CASE ~(RegisterWrite(t) /\ th[t].admin)
  <2>1. promoted' \subseteq promoted
    BY <1>3, Registered, Deleted, Written
  <2>. QED
    BY <1>1, <2>1 DEF FirstOnly, Ids
<1>. QED
  BY <1>2, <1>3

LEMMA FirstLooked ==
  ASSUME TypeInv, FirstInv, FirstOnly, NEW t \in Threads, FirstRead(t) \/ SecondRead(t)
  PROVE  FirstOnly'
<1>1. /\ Learnt(th'[t], th[t]) /\ \A v \in Threads \ {t} : th'[v] = th[v]
      /\ UNCHANGED <<users, promoted>>
  BY AfterRead
<1>2. th'[t].pc = "register" /\ th'[t].admin => promoted = {}
  BY <1>1 DEF Learnt, FirstInv
<1>. QED
  BY <1>1, <1>2 DEF FirstOnly, Ids

LEMMA FirstKept == TypeInv /\ CrossedInv /\ FirstInv /\ [Next]_vars => FirstInv'
<1> SUFFICES ASSUME TypeInv, CrossedInv, FirstInv, [Next]_vars, <<"first", None>> \notin crossed'
             PROVE  FirstOnly'
  BY PromotedThere DEF FirstInv
<1>1. <<"first", None>> \notin crossed /\ FirstOnly
  BY CrossedKept DEF FirstInv
<1>2. SessionEnds \/ UNCHANGED vars => FirstOnly'
  BY <1>1 DEF SessionEnds, vars, FirstOnly, Ids
<1>3. ASSUME NEW t \in Threads, FirstRead(t) \/ SecondRead(t) PROVE FirstOnly'
  BY <1>1, <1>3, FirstLooked
<1>4. ASSUME NEW t \in Threads, Writing(t) PROVE FirstOnly'
  BY <1>1, <1>4, FirstWritten
<1>. QED
  BY <1>2, <1>3, <1>4, NextIs

-----------------------------------------------------------------------------
(***************************************************************************)
(* A boat has one owner: an unclaimed boat is nobody's to delete, and only *)
(* one who claims it at the same time can take it from who does.           *)
(***************************************************************************)
NobodysStay == \A t \in Threads : th[t].pc = "erase" =>
                 \A b \in DOMAIN boats : b \in th[t].mine => boats[b] # None

Claimable(b) == \A t \in Threads : th[t].pc = "claim" /\ th[t].boat = b => b \in DOMAIN boats /\ boats[b] = None

BoatsInv == NobodysStay /\ \A b \in Boats : <<"boat", b>> \notin crossed => Claimable(b)

LEMMA BoatsRead ==
  ASSUME TypeInv, NEW t \in Threads, FirstRead(t) \/ SecondRead(t)
  PROVE  /\ NobodysStay => NobodysStay'
         /\ \A b \in Boats : Claimable(b) => Claimable(b)'
<1>1. /\ Learnt(th'[t], th[t]) /\ \A v \in Threads \ {t} : th'[v] = th[v]
      /\ UNCHANGED boats
  BY AfterRead
<1>2. th'[t].pc = "erase" => \A b \in DOMAIN boats : b \in th'[t].mine => boats[b] # None
  BY <1>1, AccountsAssumption DEF Learnt, Owned, TypeInv, TypeOK, Ids
<1>3. th'[t].pc = "claim" => th'[t].boat \in DOMAIN boats /\ boats[th'[t].boat] = None
  BY <1>1 DEF Learnt
<1>4. NobodysStay => NobodysStay'
  BY <1>1, <1>2 DEF NobodysStay
<1>5. \A b \in Boats : Claimable(b) => Claimable(b)'
  BY <1>1, <1>3 DEF Claimable
<1>. QED
  BY <1>4, <1>5

\* A step may claim an unclaimed boat; no other becomes unclaimed.
LEMMA Claimed ==
  ASSUME TypeInv, NobodysStay, NEW t \in Threads, Writing(t), NEW b \in Boats
  PROVE  /\ b \in DOMAIN boats' /\ boats'[b] = None => b \in DOMAIN boats /\ boats[b] = None
         /\ b \in DOMAIN boats /\ boats[b] = None /\ ~(ClaimWrite(t) /\ th[t].boat = b)
              => b \in DOMAIN boats' /\ boats'[b] = None
<1>1. CASE UNCHANGED boats
  BY <1>1
<1>2. CASE DeleteWrite(t)
  <2>1. /\ th[t].pc = "erase"
        /\ DOMAIN boats' = DOMAIN boats \ th[t].mine /\ \A c \in DOMAIN boats' : boats'[c] = boats[c]
    BY <1>2, Deleted DEF DeleteWrite
  <2>. QED
    BY <2>1 DEF NobodysStay
<1>3. CASE (EnterWrite(t) \/ ClaimWrite(t)) /\ ~UNCHANGED boats
  <2>1. th[t].id \in Ids /\ th[t].id # None
    BY <1>3, AccountsAssumption DEF EnterWrite, ClaimWrite, TypeInv, ThreadsShaped, Shaped, Ids
  <2>2. PICK c \in Boats \cup DOMAIN boats :
          /\ DOMAIN boats' \in {DOMAIN boats, DOMAIN boats \cup {c}}
          /\ c \in DOMAIN boats' => boats'[c] \in {th[t].id} \cup {boats[d] : d \in DOMAIN boats \cap {c}}
          /\ \A d \in DOMAIN boats \ {c} : boats'[d] = boats[d]
          /\ c \in DOMAIN boats /\ boats'[c] # boats[c] => ClaimWrite(t) /\ c = th[t].boat
    BY <1>3, Entered
  <2>. QED
    BY <2>1, <2>2
<1>. QED
  BY <1>1, <1>2, <1>3, Written

LEMMA BoatsWritten ==
  ASSUME TypeInv, CrossedInv, NobodysStay, NEW t \in Threads, Writing(t)
  PROVE  /\ NobodysStay'
         /\ \A b \in Boats : <<"boat", b>> \notin crossed /\ Claimable(b) => Claimable(b)'
<1>1. th'[t].pc \notin {"erase", "claim"} /\ \A v \in Threads \ {t} : th'[v] = th[v]
  BY AfterWrite
<1>2. NobodysStay'
  <2> SUFFICES ASSUME NEW v \in Threads, th'[v].pc = "erase", NEW b \in DOMAIN boats', b \in th'[v].mine,
                      boats'[b] = None
               PROVE  FALSE
    BY DEF NobodysStay
  <2>1. v # t /\ th'[v] = th[v]
    BY <1>1
  <2>2. b \in Boats
    BY TypesKept, NextIs DEF TypeInv, TypeOK, Next, Writing
  <2>3. b \in DOMAIN boats /\ boats[b] = None
    BY <2>2, Claimed
  <2>. QED
    BY <2>1, <2>3 DEF NobodysStay
<1>3. ASSUME NEW b \in Boats, <<"boat", b>> \notin crossed, Claimable(b) PROVE Claimable(b)'
  <2> SUFFICES ASSUME NEW v \in Threads, th'[v].pc = "claim", th'[v].boat = b
               PROVE  b \in DOMAIN boats' /\ boats'[b] = None
    BY DEF Claimable
  <2>1. v # t /\ th[v].pc = "claim" /\ th[v].boat = b
    BY <1>1
  <2>2. b \in DOMAIN boats /\ boats[b] = None
    BY <1>3, <2>1 DEF Claimable
  <2>3. ~(ClaimWrite(t) /\ th[t].boat = b)
    <3> SUFFICES ASSUME ClaimWrite(t), th[t].boat = b PROVE FALSE
      OBVIOUS
    <3>1. <<"boat", b>> \in About(th[t]) /\ <<"boat", b>> \in About(th[v])
      BY <2>1 DEF About, ClaimWrite
    <3>. QED
      BY <1>3, <2>1, <3>1, BothAbout
  <2>. QED
    BY <2>2, <2>3, Claimed
<1>. QED
  BY <1>2, <1>3

LEMMA BoatsKept == TypeInv /\ CrossedInv /\ BoatsInv /\ [Next]_vars => BoatsInv'
<1> SUFFICES ASSUME TypeInv, CrossedInv, BoatsInv, [Next]_vars PROVE BoatsInv'
  OBVIOUS
<1>1. \A b \in Boats : <<"boat", b>> \notin crossed' => <<"boat", b>> \notin crossed /\ Claimable(b)
  BY CrossedKept DEF BoatsInv
<1>2. SessionEnds \/ UNCHANGED vars => BoatsInv'
  BY <1>1 DEF SessionEnds, vars, BoatsInv, NobodysStay, Claimable
<1>3. ASSUME NEW t \in Threads, FirstRead(t) \/ SecondRead(t) PROVE BoatsInv'
  BY <1>1, <1>3, BoatsRead DEF BoatsInv
<1>4. ASSUME NEW t \in Threads, Writing(t) PROVE BoatsInv'
  BY <1>1, <1>4, BoatsWritten DEF BoatsInv
<1>. QED
  BY <1>2, <1>3, <1>4, NextIs

OwnersStay ==
  \A b \in DOMAIN boats \cap DOMAIN boats' :
    boats[b] # None => boats'[b] = boats[b] \/ <<"boat", b>> \in crossed

LEMMA OwnersKept == TypeInv /\ BoatsInv /\ [Next]_vars => [OwnersStay]_vars
<1> SUFFICES ASSUME TypeInv, BoatsInv, Next, NEW b \in DOMAIN boats \cap DOMAIN boats',
                    boats[b] # None, boats'[b] # boats[b], <<"boat", b>> \notin crossed
             PROVE  FALSE
  BY DEF OwnersStay
<1>1. b \in Boats /\ Claimable(b)
  BY DEF TypeInv, TypeOK, BoatsInv
<1>2. PICK t \in Threads : Writing(t)
  BY NextIs, ReadsLeave DEF SessionEnds
<1>3. EnterWrite(t) \/ ClaimWrite(t)
  BY <1>2, Deleted, Written
<1>4. ClaimWrite(t) /\ th[t].boat = b
  BY <1>3, Entered
<1>. QED
  BY <1>1, <1>4 DEF Claimable, ClaimWrite

-----------------------------------------------------------------------------
(***************************************************************************)
(* All of it together.                                                     *)
(***************************************************************************)
Inv == TypeInv /\ CrossedInv /\ AdminInv /\ RowsInv /\ LinksInv /\ FirstInv /\ BoatsInv

LEMMA InitInv == Init => Inv
<1> SUFFICES ASSUME Init PROVE Inv
  OBVIOUS
<1>1. TypeInv /\ CrossedInv
  BY InitTypes, InitCrossed
<1>2. \A t \in Threads : th[t].pc = "idle"
  BY DEF Init, Idle
<1>3. users = <<>> /\ DOMAIN users = {} /\ sessions = {} /\ DOMAIN resets = {} /\ promoted = {}
  BY DEF Init
<1>4. AdminInv
  BY <1>2, <1>3 DEF AdminInv, AdminsSeen, Revoking
<1>5. RowsInv
  <2>1. \A u \in Ids : Owned(u) = {}
    BY AccountsAssumption DEF Init, Owned, Ids
  <2>. QED
    BY <1>2, <1>3, <2>1 DEF RowsInv, Held, Named, Acts
<1>6. LinksInv
  BY <1>2, <1>3 DEF Init, LinksInv, Unspent
<1>7. FirstInv
  BY <1>2, <1>3 DEF FirstInv, FirstOnly
<1>8. BoatsInv
  BY <1>2 DEF BoatsInv, NobodysStay, Claimable
<1>. QED
  BY <1>1, <1>4, <1>5, <1>6, <1>7, <1>8 DEF Inv

LEMMA InvKept == Inv /\ [Next]_vars => Inv' /\ [OwnersStay]_vars
BY TypesKept, CrossedKept, AdminsKept, RowsKept, LinksKept, FirstKept, BoatsKept, OwnersKept DEF Inv

LEMMA InvHolds == Spec => []Inv /\ [][OwnersStay]_vars
BY InitInv, InvKept, PTL DEF Spec

LEMMA OnceIsOnce == Inv => SingleUse /\ OneFirstAdmin
<1> SUFFICES ASSUME Inv PROVE SingleUse /\ OneFirstAdmin
  OBVIOUS
<1>1. SingleUse
  BY DEF Inv, LinksInv, Unspent, SingleUse
<1>2. OneFirstAdmin
  <2> SUFFICES ASSUME <<"first", None>> \notin crossed PROVE Cardinality(promoted) <= 1
    BY DEF OneFirstAdmin
  <2>1. PICK i \in Ids \cup {0} : promoted \subseteq {i}
    BY DEF Inv, FirstInv, FirstOnly
  <2>2. IsFiniteSet({i}) /\ Cardinality({i}) = 1
    BY FS_Singleton
  <2>. QED
    BY <2>1, <2>2, FS_Subset
<1>. QED
  BY <1>1, <1>2

-----------------------------------------------------------------------------
(***************************************************************************)
(* The theorems.                                                           *)
(***************************************************************************)
(* Whatever requests overlap, the tables keep their types: ids in range,   *)
(* and every boat but the unclaimed ones from before accounts has an owner.*)
THEOREM TypesStay == Spec => []TypeOK
BY TypesHold, PTL DEF TypeInv

(* Whatever registers, signs in, is promoted, demoted or deleted, on any   *)
(* number of threads and in any order of their reads and writes: there is  *)
(* an admin whenever there are accounts, unless two revocations have been  *)
(* between their count and their write at the same time.                   *)
THEOREM LastAdminStays == Spec => []SomeAdmin
<1>1. Inv => SomeAdmin
  BY DEF Inv, AdminInv, AdminsSeen, SomeAdmin, Admins
<1>. QED
  BY <1>1, InvHolds, PTL

(* However requests overlap, no session, boat or link names an account     *)
(* that is gone, and the next account of that number inherits nothing,     *)
(* unless a request of that very account was under way while it was being  *)
(* deleted.                                                                *)
THEOREM DeletingIsThorough == Spec => []NothingLeftBehind
<1>1. Inv => NothingLeftBehind
  BY RowsAnswered DEF Inv, TypeInv
<1>. QED
  BY <1>1, InvHolds, PTL

(* However requests overlap, a link sets one password, one account is made *)
(* admin by registering, and a boat that has an owner is not claimed again;*)
(* only two requests about that link, that boat or the first account at    *)
(* the same time can do it twice, and only that.                           *)
THEOREM ChecksHold == Spec => DoneOnce
BY OnceIsOnce, InvHolds, PTL DEF DoneOnce, OwnersStay
=============================================================================
