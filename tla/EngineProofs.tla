---------------------------- MODULE EngineProofs ----------------------------
(***************************************************************************)
(* Proofs about the engine, for every course, step, cap and clock.         *)
(***************************************************************************)
EXTENDS Engine, SequenceTheorems, TLAPS

(***************************************************************************)
(* What holds inside a catch-up: the fixes not yet written continue the    *)
(* track from the boats row, and the local waypoints are what the local    *)
(* count of passed ones leaves of the route.                               *)
(***************************************************************************)
RunInv ==
  /\ boat.finished = None
  /\ boat.sim_time <= run.t /\ run.t <= until
  /\ run.n = 0 <=> run.t = boat.sim_time
  /\ run.t = boat.sim_time + run.n * Step
  /\ lock = "ticker" => run.n <= MaxSteps
  /\ Voy!Gapless(DOMAIN run.fixes, boat.sim_time, run.t)
  /\ run.t \in DOMAIN run.fixes => run.fixes[run.t] = run.pos
  /\ run.finished # None <=> run.next = Finish + 1
  /\ run.finished # None => run.finished = run.t
  /\ passed <= run.passed /\ run.passed <= Len(route)
  /\ run.wps = SubSeq(route, run.passed + 1, Len(route))

IInv ==
  /\ TypeOK
  /\ RowMatchesTrack
  /\ until <= now
  /\ pc = "sail" => RunInv
  /\ pc = "enforce" => boat.finished = None

LEMMA FinishType == Finish \in Nat /\ Finish >= 2
BY MarksAssumption DEF Finish

LEMMA InitIInv == Init => IInv
<1> SUFFICES ASSUME Init PROVE IInv
  OBVIOUS
<1> USE MarksAssumption, NumbersAssumption, NoneAssumption, PlacesAssumption
<1>1. Marks[1] \in Places /\ Finish \in Nat /\ Finish >= 2
  BY DEF Finish
<1>2. SubSeq(Marks, 2, Finish) \in Seq(Places)
  BY <1>1, SubSeqProperties, \A i \in 2..Finish : Marks[i] \in Places DEF Finish
<1>3. TypeOK
  <2>1. DatabaseOK
    BY <1>1, <1>2 DEF Init, DatabaseOK
  <2>2. ControlOK
    BY DEF Init, ControlOK
  <2>3. RunOK /\ PlanOK
    BY <1>1 DEF Init, RunOK, PlanOK, NoRun, NoPlan
  <2>. QED
    BY <2>1, <2>2, <2>3 DEF TypeOK
<1>4. RowMatchesTrack
  BY <1>1 DEF Init, RowMatchesTrack, Voy!Gapless
<1>. QED
  BY <1>3, <1>4 DEF Init, IInv

(***************************************************************************)
(* Two gapless stretches, end to end, are one.                             *)
(***************************************************************************)
LEMMA GaplessJoin ==
  ASSUME NEW A \in SUBSET Int, NEW B \in SUBSET Int,
         NEW from \in Int, NEW mid \in Int, NEW to \in Int,
         from <= mid, mid <= to,
         Voy!Gapless(A, from, mid), Voy!Gapless(B, mid, to)
  PROVE  /\ Voy!Gapless(A \cup B, from, to)
         /\ (A \cup B) \ A = B
<1> USE NumbersAssumption DEF Voy!Gapless
<1>1. \A t \in A \cup B : from < t /\ t <= to
  OBVIOUS
<1>2. ASSUME NEW t \in A \cup B PROVE t - Step = from \/ t - Step \in A \cup B
  <2>1. CASE t \in A
    BY <2>1
  <2>2. CASE t \in B /\ t - Step = mid
    BY <2>2
  <2>3. CASE t \in B /\ t - Step \in B
    BY <2>3
  <2>. QED
    BY <2>1, <2>2, <2>3
<1>3. from < to => to \in A \cup B
  OBVIOUS
<1>4. A \cap B = {}
  OBVIOUS
<1>. QED
  BY <1>1, <1>2, <1>3, <1>4

(***************************************************************************)
(* Steps that leave the database and the catch-up alone.                   *)
(***************************************************************************)
LEMMA Frame ==
  ASSUME IInv, TypeOK', UNCHANGED <<dbVars, run>>, now <= now', until' <= now',
         pc' = "sail" => pc = "sail" /\ until' = until /\ lock' = lock,
         pc' = "enforce" => boat.finished = None
  PROVE  IInv'
<1>1. RowMatchesTrack'
  BY DEF IInv, TypeOK, DatabaseOK, ControlOK, RowMatchesTrack, Voy!Gapless, dbVars
<1>2. pc' = "sail" => RunInv'
  BY DEF IInv, RunInv, Voy!Gapless, dbVars
<1>. QED
  BY <1>1, <1>2 DEF IInv, dbVars

LEMMA TickStep == ASSUME IInv, Tick PROVE IInv'
<1>1. UNCHANGED <<dbVars, run, plan, lock, pc, until>> /\ now <= now' /\ until' <= now'
  BY DEF IInv, TypeOK, ControlOK, Tick
<1>2. ControlOK'
  BY DEF IInv, TypeOK, ControlOK, Tick
<1>3. TypeOK'
  BY <1>1, <1>2 DEF IInv, TypeOK, DatabaseOK, RunOK, PlanOK, dbVars
<1>. QED
  BY <1>1, <1>3, Frame DEF IInv

LEMMA AcquireStep ==
  ASSUME IInv, NEW who \in {"ticker", "request"}, NEW u \in Gun..now, Acquire(who, u)
  PROVE  IInv'
<1>1. UNCHANGED <<dbVars, run, plan>> /\ now <= now' /\ until' <= now' /\ pc' = "read"
  BY NumbersAssumption DEF IInv, TypeOK, ControlOK, Acquire
<1>2. ControlOK'
  BY NumbersAssumption DEF IInv, TypeOK, ControlOK, Acquire
<1>3. TypeOK'
  BY <1>1, <1>2 DEF IInv, TypeOK, DatabaseOK, RunOK, PlanOK, dbVars
<1>. QED
  BY <1>1, <1>3, Frame

LEMMA ReadBoatStep == ASSUME IInv, ReadBoat PROVE IInv'
<1> USE NumbersAssumption, NoneAssumption
<1> DEFINE w == SubSeq(route, passed + 1, Len(route))
<1>1. w \in Seq(Places)
  <2>1. \A i \in (passed + 1)..Len(route) : route[i] \in Places
    BY DEF IInv, TypeOK, DatabaseOK
  <2>2. passed + 1 \in Int /\ Len(route) \in Int
    BY DEF IInv, TypeOK, DatabaseOK
  <2>. QED
    BY <2>1, <2>2, SubSeqProperties
<1>2. run' = [t |-> boat.sim_time, pos |-> boat.pos, next |-> boat.next, finished |-> None,
              wps |-> w, passed |-> passed, fixes |-> <<>>, n |-> 0, path |-> <<>>]
  BY DEF ReadBoat, NoRun
<1> HIDE DEF w
<1>3. UNCHANGED <<boat, track, route, passed, lock, until, plan, now, crashes>>
      /\ pc = "read" /\ pc' = "sail" /\ ~NothingToSail
  BY DEF ReadBoat, dbVars
<1>4. TypeOK'
  <2>1. RunOK'
    BY <1>1, <1>2 DEF IInv, TypeOK, DatabaseOK, RunOK
  <2>2. ControlOK'
    BY <1>3 DEF IInv, TypeOK, ControlOK
  <2>. QED
    BY <1>3, <2>1, <2>2 DEF IInv, TypeOK, DatabaseOK, PlanOK
<1>5. RowMatchesTrack'
  BY <1>3 DEF IInv, RowMatchesTrack, Voy!Gapless
<1>6. RunInv'
  <2>1. boat.sim_time \in Int /\ until \in Int /\ passed <= Len(route) /\ passed \in Nat
    BY DEF IInv, TypeOK, DatabaseOK, ControlOK
  <2>2. boat.finished = None /\ boat.sim_time < until
    BY <1>3, <2>1 DEF NothingToSail
  <2>3. boat.next # Finish + 1
    BY <2>2 DEF IInv, RowMatchesTrack
  <2>. QED
    BY <1>2, <1>3, <2>1, <2>2, <2>3 DEF RunInv, Voy!Gapless, w
<1>. QED
  BY <1>3, <1>4, <1>5, <1>6 DEF IInv

\* What is left of what is left.
LEMMA RestOfRest ==
  ASSUME NEW S, NEW s \in Seq(S), NEW p \in 0..Len(s), NEW k \in 0..(Len(s) - p)
  PROVE  /\ Len(SubSeq(s, p + 1, Len(s))) = Len(s) - p
         /\ SubSeq(SubSeq(s, p + 1, Len(s)), k + 1, Len(s) - p) = SubSeq(s, p + k + 1, Len(s))
<1> DEFINE r == SubSeq(s, p + 1, Len(s))
           a == SubSeq(r, k + 1, Len(s) - p)
           b == SubSeq(s, p + k + 1, Len(s))
<1>1. /\ r \in Seq(S) /\ Len(r) = Len(s) - p
      /\ \A i \in 1..(Len(s) - p) : r[i] = s[p + i]
  <2>1. \A i \in (p + 1)..Len(s) : s[i] \in S
    OBVIOUS
  <2>. QED
    BY <2>1, SubSeqProperties
<1> HIDE DEF r
<1>2. /\ a \in Seq(S) /\ Len(a) = Len(s) - p - k
      /\ \A i \in 1..(Len(s) - p - k) : a[i] = r[k + i]
  <2>1. \A i \in (k + 1)..(Len(s) - p) : r[i] \in S
    BY <1>1
  <2>. QED
    BY <2>1, SubSeqProperties
<1>3. /\ b \in Seq(S) /\ Len(b) = Len(s) - p - k
      /\ \A i \in 1..(Len(s) - p - k) : b[i] = s[p + k + i]
  <2>1. \A i \in (p + k + 1)..Len(s) : s[i] \in S
    OBVIOUS
  <2>. QED
    BY <2>1, SubSeqProperties
<1> HIDE DEF a, b
<1>4. \A i \in 1..(Len(s) - p - k) : a[i] = b[i]
  BY <1>1, <1>2, <1>3
<1>5. a = b
  BY <1>2, <1>3, <1>4, SeqEqual
<1>. QED
  BY <1>1, <1>5 DEF a, b, r

LEMMA SailStep == ASSUME IInv, Sail PROVE IInv'
<1> USE NumbersAssumption, NoneAssumption
<1>1. PICK k \in 0..Len(run.wps), place \in Places, n \in run.next..(Finish + 1) :
        /\ run'.t = run.t + Step
        /\ run'.pos = place
        /\ run'.next = n
        /\ run'.finished = IF n > Finish THEN run.t + Step ELSE None
        /\ run'.wps = SubSeq(run.wps, k + 1, Len(run.wps))
        /\ run'.passed = run.passed + k
        /\ run'.fixes = [t \in DOMAIN run.fixes \cup {run.t + Step} |->
                           IF t = run.t + Step THEN place ELSE run.fixes[t]]
        /\ run'.n = run.n + 1
  <2>1. PICK k \in 0..Len(run.wps) : Sail!2!(k)
    BY DEF Sail
  <2>. QED
    BY <2>1
<1>2. UNCHANGED <<boat, track, route, passed, lock, pc, until, plan, now, crashes>>
      /\ pc = "sail" /\ MoreToSail
  BY DEF Sail, dbVars
<1>3. RunInv /\ RunOK /\ DatabaseOK /\ ControlOK
  BY <1>2 DEF IInv, TypeOK
<1>4. /\ run.passed + k <= Len(route)
      /\ run'.wps = SubSeq(route, run.passed + k + 1, Len(route))
  <2>1. run.passed \in 0..Len(route) /\ route \in Seq(Places)
    BY <1>3 DEF RunInv, RunOK, DatabaseOK
  <2>2. Len(run.wps) = Len(route) - run.passed
    BY <2>1, <1>3, RestOfRest DEF RunInv
  <2>3. k \in 0..(Len(route) - run.passed)
    BY <2>2
  <2>4. SubSeq(run.wps, k + 1, Len(route) - run.passed) = SubSeq(route, run.passed + k + 1, Len(route))
    BY <2>1, <2>3, <1>3, RestOfRest DEF RunInv
  <2>5. run.passed + k <= Len(route)
    BY <2>1, <2>3
  <2>6. run'.wps = SubSeq(run.wps, k + 1, Len(route) - run.passed)
    BY <1>1, <2>2
  <2>. QED
    BY <2>4, <2>5, <2>6
<1>5. RunOK'
  <2>1. /\ run.passed + k + 1 \in Int /\ Len(route) \in Int
        /\ \A i \in (run.passed + k + 1)..Len(route) : route[i] \in Places
    BY <1>3, SMTT(30) DEF DatabaseOK, RunOK
  <2>2. run'.wps \in Seq(Places)
    BY <1>4, <2>1, SubSeqProperties
  <2>3. /\ run'.t \in Int /\ run'.pos \in Places /\ run'.next \in 2..(Finish + 1)
        /\ run'.finished \in Int \cup {None} /\ run'.passed \in Nat /\ run'.n \in Nat
    <3>1. run.t \in Int /\ run.next \in 2..(Finish + 1) /\ run.passed \in Nat /\ run.n \in Nat
      BY <1>3 DEF RunOK
    <3>2. run.t + Step \in Int
      BY <3>1
    <3>3. /\ run'.t = run.t + Step /\ run'.pos = place /\ run'.next = n
          /\ run'.finished \in {run.t + Step, None}
          /\ run'.passed = run.passed + k /\ run'.n = run.n + 1
      BY <1>1
    <3>4. k \in Nat
      OBVIOUS
    <3>5. n \in 2..(Finish + 1)
      BY <3>1, FinishType
    <3>6. run.passed + k \in Nat /\ run.n + 1 \in Nat
      BY <3>1, <3>4
    <3>. QED
      BY <3>2, <3>3, <3>5, <3>6
  <2>4. DOMAIN run'.fixes \subseteq Int /\ \A t \in DOMAIN run'.fixes : run'.fixes[t] \in Places
    <3>1. /\ DOMAIN run.fixes \subseteq Int /\ run.t + Step \in Int
          /\ \A t \in DOMAIN run.fixes : run.fixes[t] \in Places
      BY <1>3 DEF RunOK
    <3>2. run'.fixes = [t \in DOMAIN run.fixes \cup {run.t + Step} |->
                          IF t = run.t + Step THEN place ELSE run.fixes[t]]
      BY <1>1
    <3>. QED
      BY <3>1, <3>2
  <2>. QED
    BY <2>2, <2>3, <2>4 DEF RunOK
<1>6. TypeOK'
  BY <1>2, <1>5 DEF IInv, TypeOK, DatabaseOK, ControlOK, PlanOK
<1>7. RowMatchesTrack'
  BY <1>2 DEF IInv, RowMatchesTrack, Voy!Gapless
<1>8. RunInv'
  <2>1. run'.t \in Int /\ run.t \in Int /\ run.n \in Nat /\ boat.sim_time \in Int /\ until \in Int
        /\ run.passed \in Nat /\ passed \in Nat /\ run.next \in 2..(Finish + 1)
    BY <1>1, <1>3, SMTT(30) DEF RunOK, DatabaseOK, ControlOK
  <2>2. /\ run.t + Step <= until
        /\ lock = "ticker" => run.n < MaxSteps
        /\ boat.sim_time <= run.t
        /\ run.t = boat.sim_time + run.n * Step
        /\ run'.t = run.t + Step /\ run'.n = run.n + 1
    BY <1>1, <1>2, <1>3 DEF RunInv, MoreToSail
  <2>3. /\ boat.sim_time <= run'.t /\ run'.t <= until /\ run'.n # 0 /\ run'.t # boat.sim_time
        /\ run'.t = boat.sim_time + run'.n * Step
        /\ lock = "ticker" => run'.n <= MaxSteps
    <3>1. (run.n + 1) * Step = run.n * Step + Step /\ run.n * Step \in Int
      BY <2>1
    <3>2. run'.t = boat.sim_time + run'.n * Step
      <4>1. run'.n * Step = run.n * Step + Step
        BY <2>2, <3>1
      <4>2. run.t = boat.sim_time + run.n * Step /\ run'.t = run.t + Step
        BY <2>2
      <4>3. boat.sim_time \in Int /\ run.n * Step \in Int /\ Step \in Int
        BY <2>1, <3>1
      <4> DEFINE sailed == run.n * Step
      <4>4. run'.n * Step = sailed + Step /\ run.t = boat.sim_time + sailed /\ sailed \in Int
        BY <4>1, <4>2, <4>3
      <4> HIDE DEF sailed
      <4>. QED
        BY <4>2, <4>3, <4>4
    <3>3. /\ boat.sim_time <= run'.t /\ run'.t <= until /\ run'.n # 0 /\ run'.t # boat.sim_time
      <4>1. /\ run.t + Step <= until /\ boat.sim_time <= run.t
            /\ run'.t = run.t + Step /\ run'.n = run.n + 1
        BY <2>2
      <4>. QED
        BY <2>1, <4>1, SMTT(30)
    <3>4. lock = "ticker" => run'.n <= MaxSteps
      BY <2>1, <2>2
    <3>. QED
      BY <3>2, <3>3, <3>4
  <2>4. Voy!Gapless(DOMAIN run'.fixes, boat.sim_time, run'.t)
    <3>1. DOMAIN run'.fixes = DOMAIN run.fixes \cup {run.t + Step} /\ run'.t = run.t + Step
      BY <1>1
    <3>2. Voy!Gapless({run.t + Step}, run.t, run.t + Step)
      BY <2>1 DEF Voy!Gapless
    <3>3. DOMAIN run.fixes \in SUBSET Int /\ {run.t + Step} \in SUBSET Int
      BY <1>3, <2>1 DEF RunOK
    <3>4. Voy!Gapless(DOMAIN run.fixes, boat.sim_time, run.t) /\ boat.sim_time <= run.t
      BY <1>3 DEF RunInv
    <3>5. Voy!Gapless(DOMAIN run.fixes \cup {run.t + Step}, boat.sim_time, run.t + Step)
      BY <2>1, <3>2, <3>3, <3>4, GaplessJoin, SMTT(30)
    <3>. QED
      BY <3>1, <3>5
  <2>5. run'.fixes[run'.t] = run'.pos
    BY <1>1
  <2>6. /\ run'.finished # None <=> run'.next = Finish + 1
        /\ run'.finished # None => run'.finished = run'.t
    BY <1>1, <2>1, FinishType, SMTT(30)
  <2>7. passed <= run'.passed
    BY <1>1, <1>3, <2>1, SMTT(30) DEF RunInv
  <2>8. boat.finished = None /\ run'.passed <= Len(route)
        /\ run'.wps = SubSeq(route, run'.passed + 1, Len(route))
    BY <1>1, <1>3, <1>4 DEF RunInv
  <2>. QED
    BY <1>2, <2>3, <2>4, <2>5, <2>6, <2>7, <2>8 DEF RunInv, Voy!Gapless
<1>. QED
  BY <1>2, <1>6, <1>7, <1>8 DEF IInv

(***************************************************************************)
(* The steps of a holder of the lock that touch neither the database nor,  *)
(* but to clear them, the locals.                                          *)
(***************************************************************************)
LEMMA NoTypes == NoRun \in [t : Int, pos : Places, next : 2..(Finish + 1), finished : {None},
                             wps : Seq(Places), passed : Nat, fixes : {<<>>}, n : Nat, path : {<<>>}]
                 /\ NoPlan \in [wps : Seq(Places), mark : 2..(Finish + 1), from : Nat \ {0}]
BY FinishType, MarksAssumption, NumbersAssumption DEF NoRun, NoPlan

LEMMA IdleSteps ==
  ASSUME IInv, ReadIdle \/ WriteNothing \/ TickDone \/ RefuseFinished \/ Crash
  PROVE  IInv'
<1>1. UNCHANGED <<boat, track, route, passed, until, now>> /\ pc' # "sail" /\ pc' # "enforce"
  BY DEF ReadIdle, WriteNothing, TickDone, RefuseFinished, Crash, dbVars
<1>2. ControlOK'
  BY DEF IInv, TypeOK, ControlOK, ReadIdle, WriteNothing, TickDone, RefuseFinished, Crash, dbVars
<1>3. (run' = run \/ run' = NoRun) /\ (plan' = plan \/ plan' = NoPlan)
  BY DEF ReadIdle, WriteNothing, TickDone, RefuseFinished, Crash
<1>4. RunOK' /\ PlanOK'
  <2>1. CASE run' = run
    BY <2>1, <1>3, NoTypes DEF IInv, TypeOK, RunOK, PlanOK
  <2>2. CASE run' = NoRun
    BY <2>2, <1>3, NoTypes DEF IInv, TypeOK, RunOK, PlanOK, NoRun
  <2>. QED
    BY <1>3, <2>1, <2>2
<1>5. DatabaseOK'
  BY <1>1 DEF IInv, TypeOK, DatabaseOK
<1>6. RowMatchesTrack'
  BY <1>1 DEF IInv, RowMatchesTrack, Voy!Gapless
<1>. QED
  BY <1>1, <1>2, <1>4, <1>5, <1>6 DEF IInv, TypeOK

(***************************************************************************)
(* What a write does to the database, whatever else is true.               *)
(***************************************************************************)
LEMMA WriteExtends ==
  ASSUME IInv, Write
  PROVE  /\ boat.finished = None
         /\ boat.sim_time < boat'.sim_time
         /\ boat'.sim_time = boat.sim_time + run.n * Step
         /\ lock = "ticker" => run.n <= MaxSteps
         /\ boat'.sim_time <= now
         /\ boat'.finished \in {None, boat'.sim_time}
         /\ boat'.finished # None <=> boat'.next = Finish + 1
         /\ DOMAIN track' = DOMAIN track \cup DOMAIN run.fixes
         /\ DOMAIN track' \ DOMAIN track = DOMAIN run.fixes
         /\ \A t \in DOMAIN track : track'[t] = track[t]
         /\ Voy!Gapless(DOMAIN run.fixes, boat.sim_time, boat'.sim_time)
         /\ Voy!Gapless(DOMAIN track', Gun, boat'.sim_time)
         /\ track'[boat'.sim_time] = boat'.pos
         /\ passed <= passed' /\ passed' <= Len(route)
<1> USE NumbersAssumption, NoneAssumption
<1>1. RunInv /\ RunOK /\ DatabaseOK /\ ControlOK /\ RowMatchesTrack /\ until <= now
  BY DEF IInv, TypeOK, Write
<1>2. /\ track' = [t \in DOMAIN track \cup DOMAIN run.fixes |->
                     IF t \in DOMAIN run.fixes THEN run.fixes[t] ELSE track[t]]
      /\ boat' = [sim_time |-> run.t, pos |-> run.pos, next |-> run.next, finished |-> run.finished]
      /\ passed' = run.passed /\ run.n > 0
  BY DEF Write
<1>3. /\ boat.sim_time \in Int /\ run.t \in Int /\ until \in Int /\ now \in Int /\ run.n \in Nat
      /\ DOMAIN track \in SUBSET Int /\ DOMAIN run.fixes \in SUBSET Int
  BY <1>1 DEF RunOK, DatabaseOK, ControlOK
<1>4. boat.sim_time < run.t /\ run.t <= now
  <2>1. run.n # 0 /\ boat.sim_time <= run.t /\ run.t <= until /\ (run.n = 0 <=> run.t = boat.sim_time)
    BY <1>1, <1>2, <1>3 DEF RunInv
  <2>. QED
    BY <1>1, <1>3, <2>1
<1>5. Voy!Gapless(DOMAIN run.fixes, boat.sim_time, run.t) /\ Voy!Gapless(DOMAIN track, Gun, boat.sim_time)
      /\ Gun <= boat.sim_time
  BY <1>1 DEF RunInv, RowMatchesTrack
<1>6. /\ Voy!Gapless(DOMAIN track \cup DOMAIN run.fixes, Gun, run.t)
      /\ (DOMAIN track \cup DOMAIN run.fixes) \ DOMAIN track = DOMAIN run.fixes
  <2>1. Gun \in Int /\ boat.sim_time <= run.t
    BY <1>3, <1>4
  <2>. QED
    BY ONLY <1>3, <1>5, <2>1, GaplessJoin
<1>7. run.t \in DOMAIN run.fixes
  BY <1>4, <1>5 DEF Voy!Gapless
<1>8. boat'.sim_time = run.t /\ boat'.pos = run.pos /\ boat'.next = run.next /\ boat'.finished = run.finished
  BY <1>2
<1>9. DOMAIN track' = DOMAIN track \cup DOMAIN run.fixes
  BY <1>2
<1>10. \A t \in DOMAIN track : track'[t] = track[t]
  <2>1. \A t \in DOMAIN track : t \notin DOMAIN run.fixes
    BY <1>6
  <2>. QED
    BY <1>2, <2>1
<1>11. track'[boat'.sim_time] = boat'.pos
  BY <1>1, <1>2, <1>7, <1>8 DEF RunInv
<1>12. /\ boat.finished = None
       /\ boat'.sim_time = boat.sim_time + run.n * Step
       /\ lock = "ticker" => run.n <= MaxSteps
       /\ boat'.finished \in {None, boat'.sim_time}
       /\ boat'.finished # None <=> boat'.next = Finish + 1
       /\ passed <= passed' /\ passed' <= Len(route)
  BY <1>1, <1>2, <1>8 DEF RunInv
<1>. QED
  BY <1>4, <1>5, <1>6, <1>8, <1>9, <1>10, <1>11, <1>12

LEMMA WriteStep == ASSUME IInv, Write PROVE IInv'
<1> USE NumbersAssumption, NoneAssumption
<1>1. RunOK /\ DatabaseOK /\ ControlOK /\ PlanOK /\ RowMatchesTrack
  BY DEF IInv, TypeOK
<1>2. UNCHANGED <<route, lock, until, plan, now, crashes>> /\ pc' = "caught_up" /\ pc = "sail"
      /\ run' = NoRun /\ passed' = run.passed
      /\ boat' = [sim_time |-> run.t, pos |-> run.pos, next |-> run.next, finished |-> run.finished]
      /\ track' = [t \in DOMAIN track \cup DOMAIN run.fixes |->
                     IF t \in DOMAIN run.fixes THEN run.fixes[t] ELSE track[t]]
  BY DEF Write
<1>3. DatabaseOK'
  <2>1. boat' \in [sim_time : Int, pos : Places, next : 2..(Finish + 1), finished : Int \cup {None}]
    BY <1>1, <1>2 DEF RunOK
  <2>2. DOMAIN track' \subseteq Int /\ \A t \in DOMAIN track' : track'[t] \in Places
    BY <1>1, <1>2 DEF RunOK, DatabaseOK
  <2>3. passed' \in 0..Len(route')
    BY <1>1, <1>2, WriteExtends DEF RunOK, DatabaseOK
  <2>. QED
    BY <1>1, <1>2, <2>1, <2>2, <2>3 DEF DatabaseOK
<1>4. ControlOK'
  BY <1>1, <1>2 DEF ControlOK
<1>5. RunOK' /\ PlanOK'
  BY <1>1, <1>2, NoTypes DEF RunOK, PlanOK, NoRun
<1>6. RowMatchesTrack'
  <2>1. Gun <= boat'.sim_time
    BY <1>1, <1>3, WriteExtends DEF RowMatchesTrack, DatabaseOK
  <2>. QED
    BY <1>2, <2>1, WriteExtends DEF RowMatchesTrack, Voy!Gapless
<1>. QED
  BY <1>2, <1>3, <1>4, <1>5, <1>6 DEF IInv, TypeOK

(***************************************************************************)
(* Reconciling a routing touches only the plan.                            *)
(***************************************************************************)
LEMMA PlanFrame ==
  ASSUME IInv, PlanOK', UNCHANGED <<dbVars, lock, until, run, now, crashes>>,
         pc # "sail", pc # "idle", pc' = "enforce", boat.finished = None
  PROVE  IInv'
<1>1. TypeOK'
  BY DEF IInv, TypeOK, DatabaseOK, ControlOK, RunOK, dbVars
<1>2. now <= now' /\ until' <= now' /\ pc' # "sail" /\ UNCHANGED <<dbVars, run>>
  BY DEF IInv, TypeOK, ControlOK
<1>. QED
  BY <1>1, <1>2, Frame

LEMMA JoinStep == ASSUME IInv, Join PROVE IInv'
<1>1. PICK wps \in Routings : \E u \in Nat \ {0} :
        plan' = [wps |-> SubSeq(wps, u, Len(wps)), mark |-> boat.next, from |-> 1]
  <2>1. PICK wps \in Routings : \E k \in 1..Len(wps) : \E u \in k..(Len(wps) + 1) :
          plan' = [wps |-> SubSeq(wps, u, Len(wps)), mark |-> boat.next, from |-> 1]
    BY DEF Join
  <2>2. \A k \in 1..Len(wps) : \A u \in k..(Len(wps) + 1) : u \in Nat \ {0}
    OBVIOUS
  <2>. QED
    BY <2>1, <2>2
<1>0. PICK u \in Nat \ {0} : plan' = [wps |-> SubSeq(wps, u, Len(wps)), mark |-> boat.next, from |-> 1]
  BY <1>1
<1>2. wps \in Seq(Places) /\ SubSeq(wps, u, Len(wps)) \in Seq(Places)
  <2>1. wps \in Seq(Places)
    BY RoutingsAssumption
  <2>2. \A i \in u..Len(wps) : wps[i] \in Places
    BY <2>1
  <2>3. u \in Int /\ Len(wps) \in Int
    BY <2>1
  <2>. QED
    BY <2>1, <2>2, <2>3, SubSeqProperties
<1>3. PlanOK'
  BY <1>0, <1>2 DEF IInv, TypeOK, DatabaseOK, PlanOK
<1>4. UNCHANGED <<dbVars, lock, until, run, now, crashes>> /\ pc = "caught_up" /\ pc' = "enforce"
      /\ boat.finished = None
  BY DEF Join
<1>. QED
  BY <1>3, <1>4, PlanFrame

LEMMA MarkReachedStep == ASSUME IInv, MarkReached PROVE IInv'
<1>1. PICK i \in plan.from..Len(plan.wps) : plan' = [plan EXCEPT !.mark = @ + 1, !.from = i + 1]
  BY DEF MarkReached
<1>2. PlanOK /\ plan.mark <= Finish
  BY DEF IInv, TypeOK, MarkReached
<1>3. PlanOK'
  <2>1. plan.from \in Nat \ {0} /\ plan.mark \in 2..(Finish + 1) /\ Len(plan.wps) \in Nat
    BY <1>2 DEF PlanOK
  <2>2. i + 1 \in Nat \ {0} /\ plan.mark + 1 \in 2..(Finish + 1)
    BY <1>2, <2>1, FinishType
  <2>. QED
    BY <1>1, <1>2, <2>2 DEF PlanOK
<1>4. UNCHANGED <<dbVars, lock, until, run, now, crashes>> /\ pc = "enforce" /\ pc' = "enforce"
      /\ boat.finished = None
  BY DEF MarkReached, IInv
<1>. QED
  BY <1>3, <1>4, PlanFrame

LEMMA MarkInsertedStep == ASSUME IInv, MarkInserted PROVE IInv'
<1>1. PICK best \in (plan.from - 1)..Len(plan.wps) :
        plan' = [wps  |-> InsertAt(plan.wps, best + 1, Marks[plan.mark]),
                 mark |-> plan.mark + 1, from |-> best + 2]
  BY DEF MarkInserted
<1>2. PlanOK /\ plan.mark <= Finish
  BY DEF IInv, TypeOK, MarkInserted
<1>3. Marks[plan.mark] \in Places
  BY <1>2, FinishType, MarksAssumption DEF PlanOK, Finish
<1>4. /\ best \in Nat /\ plan.wps \in Seq(Places) /\ Len(plan.wps) \in Nat /\ best <= Len(plan.wps)
  BY <1>2 DEF PlanOK
<1>5. InsertAt(plan.wps, best + 1, Marks[plan.mark]) \in Seq(Places)
  <2>1. SubSeq(plan.wps, 1, best) \in Seq(Places)
    <3>1. \A i \in 1..best : plan.wps[i] \in Places
      BY <1>4
    <3>. QED
      BY <1>4, <3>1, SubSeqProperties
  <2>2. SubSeq(plan.wps, best + 1, Len(plan.wps)) \in Seq(Places)
    <3>1. \A i \in (best + 1)..Len(plan.wps) : plan.wps[i] \in Places
      BY <1>4
    <3>. QED
      BY <1>4, <3>1, SubSeqProperties
  <2>3. (best + 1) - 1 = best
    BY <1>4
  <2>. QED
    BY <1>3, <2>1, <2>2, <2>3 DEF InsertAt
<1>6. PlanOK'
  BY <1>1, <1>2, <1>4, <1>5, FinishType DEF PlanOK
<1>7. UNCHANGED <<dbVars, lock, until, run, now, crashes>> /\ pc = "enforce" /\ pc' = "enforce"
      /\ boat.finished = None
  BY DEF MarkInserted, IInv
<1>. QED
  BY <1>6, <1>7, PlanFrame

(***************************************************************************)
(* A new route begins with the waypoints already passed.                   *)
(***************************************************************************)
LEMMA ReplaceKeepsPassed ==
  ASSUME IInv, Replace
  PROVE  /\ route' \in Seq(Places) /\ passed' \in 0..Len(route')
         /\ SubSeq(route', 1, passed') = SubSeq(route, 1, passed)
<1> DEFINE kept == SubSeq(route, 1, passed)
           new  == kept \o plan.wps
<1>1. route \in Seq(Places) /\ passed \in 0..Len(route) /\ plan.wps \in Seq(Places)
  BY DEF IInv, TypeOK, DatabaseOK, PlanOK
<1>2. kept \in Seq(Places) /\ Len(kept) = passed
  <2>1. \A i \in 1..passed : route[i] \in Places
    BY <1>1
  <2>. QED
    BY <1>1, <2>1, SubSeqProperties
<1>3. route' = new /\ passed' = passed
  BY DEF Replace
<1> HIDE DEF kept
<1>4. /\ new \in Seq(Places) /\ Len(new) = passed + Len(plan.wps)
      /\ \A i \in 1..passed : new[i] = kept[i]
  <2>1. /\ new \in Seq(Places) /\ Len(new) = Len(kept) + Len(plan.wps)
        /\ \A i \in 1..(Len(kept) + Len(plan.wps)) :
             new[i] = IF i <= Len(kept) THEN kept[i] ELSE plan.wps[i - Len(kept)]
    BY <1>1, <1>2, ConcatProperties
  <2>2. Len(kept) = passed /\ passed \in Nat /\ Len(plan.wps) \in Nat
    BY <1>1, <1>2
  <2> HIDE DEF new
  <2>3. \A i \in 1..passed : i \in 1..(Len(kept) + Len(plan.wps)) /\ i <= Len(kept)
    BY <2>2
  <2>. QED
    BY <2>1, <2>2, <2>3
<1> HIDE DEF new
<1>5. SubSeq(new, 1, passed) = kept
  <2>1. /\ SubSeq(new, 1, passed) \in Seq(Places) /\ Len(SubSeq(new, 1, passed)) = passed
        /\ \A i \in 1..passed : SubSeq(new, 1, passed)[i] = new[i]
    <3>1. \A i \in 1..passed : new[i] \in Places
      BY <1>2, <1>4
    <3>. QED
      BY <1>1, <3>1, SubSeqProperties
  <2>. QED
    BY <1>2, <1>4, <2>1, SeqEqual
<1>. QED
  BY <1>1, <1>3, <1>4, <1>5 DEF kept

LEMMA ReplaceStep == ASSUME IInv, Replace PROVE IInv'
<1>1. UNCHANGED <<boat, track, passed, until, run, now, crashes>> /\ plan' = NoPlan
      /\ lock' = "free" /\ pc' = "idle"
  BY DEF Replace
<1>2. DatabaseOK'
  BY <1>1, ReplaceKeepsPassed DEF IInv, TypeOK, DatabaseOK
<1>3. ControlOK'
  BY <1>1 DEF IInv, TypeOK, ControlOK
<1>4. RunOK' /\ PlanOK'
  BY <1>1, NoTypes DEF IInv, TypeOK, RunOK, PlanOK
<1>5. RowMatchesTrack'
  BY <1>1 DEF IInv, RowMatchesTrack, Voy!Gapless
<1>. QED
  BY <1>1, <1>2, <1>3, <1>4, <1>5 DEF IInv, TypeOK
-----------------------------------------------------------------------------
LEMMA NextIInv == IInv /\ [Next]_vars => IInv'
<1> SUFFICES ASSUME IInv, [Next]_vars PROVE IInv'
  OBVIOUS
<1>1. CASE Tick
  BY <1>1, TickStep
<1>2. ASSUME NEW who \in {"ticker", "request"}, NEW u \in Gun..now, Acquire(who, u) PROVE IInv'
  BY <1>2, AcquireStep
<1>3. CASE CatchUp
  BY <1>3, IdleSteps, ReadBoatStep, SailStep, WriteStep DEF CatchUp
<1>4. CASE Replan
  BY <1>4, IdleSteps, JoinStep, MarkReachedStep, MarkInsertedStep, ReplaceStep DEF Replan
<1>5. CASE Crash
  BY <1>5, IdleSteps
<1>6. CASE UNCHANGED vars
  BY <1>6, Frame DEF vars, dbVars, IInv, TypeOK, DatabaseOK, ControlOK, RunOK, PlanOK,
                     RowMatchesTrack, RunInv, Voy!Gapless
<1>. QED
  BY <1>1, <1>2, <1>3, <1>4, <1>5, <1>6 DEF Next

LEMMA Invariant == Spec => []IInv
BY InitIInv, NextIInv, PTL DEF Spec

(***************************************************************************)
(* Every variable of the engine keeps its type.                            *)
(***************************************************************************)
THEOREM TypeCorrect == Spec => []TypeOK
<1>1. IInv => TypeOK
  BY DEF IInv
<1>. QED
  BY <1>1, Invariant, PTL

(***************************************************************************)
(* The boats row and the track always tell the same story: no fix missing, *)
(* none after the boat's own time, none ahead of the clock, finished       *)
(* exactly when every mark is behind.                                      *)
(***************************************************************************)
THEOREM RowAlwaysMatchesTrack == Spec => []RowMatchesTrack
<1>1. IInv => RowMatchesTrack
  BY DEF IInv
<1>. QED
  BY <1>1, Invariant, PTL

(***************************************************************************)
(* A tick moves a boat by at most MaxSteps steps.                          *)
(***************************************************************************)
THEOREM TicksAreBounded == Spec => TickIsBounded
<1>1. IInv /\ [Next]_vars =>
        [lock = "ticker" => boat'.sim_time - boat.sim_time <= MaxSteps * Step]_vars
  <2> SUFFICES ASSUME IInv, Next, lock = "ticker"
               PROVE  boat'.sim_time - boat.sim_time <= MaxSteps * Step
    OBVIOUS
  <2>1. CASE Write
    <3>1. /\ boat'.sim_time = boat.sim_time + run.n * Step /\ run.n <= MaxSteps
      BY <2>1, WriteExtends
    <3>2. run.n \in Nat /\ boat.sim_time \in Int
      BY DEF IInv, TypeOK, RunOK, DatabaseOK
    <3>3. run.n * Step <= MaxSteps * Step
      BY <3>1, <3>2, NumbersAssumption
    <3>. QED
      BY <3>1, <3>2, <3>3, NumbersAssumption
  <2>2. CASE boat' = boat
    <3>1. 0 <= MaxSteps * Step /\ boat.sim_time \in Int
      BY NumbersAssumption DEF IInv, TypeOK, DatabaseOK
    <3>. QED
      BY <2>2, <3>1
  <2>3. Write \/ boat' = boat
    BY DEF Next, Tick, Acquire, CatchUp, Replan, Crash, ReadIdle, ReadBoat, Sail, WriteNothing,
           TickDone, RefuseFinished, Join, MarkReached, MarkInserted, Replace, dbVars
  <2>. QED
    BY <2>1, <2>2, <2>3
<1>. QED
  BY <1>1, Invariant, PTL DEF Spec, TickIsBounded

\* A shorter prefix is a prefix of a longer one.
LEMMA PrefixOfPrefix ==
  ASSUME NEW S, NEW s \in Seq(S), NEW p \in Nat, NEW q \in Nat, p <= q, q <= Len(s)
  PROVE  /\ Len(SubSeq(s, 1, p)) <= Len(SubSeq(s, 1, q))
         /\ SubSeq(SubSeq(s, 1, q), 1, Len(SubSeq(s, 1, p))) = SubSeq(s, 1, p)
<1> DEFINE old == SubSeq(s, 1, p)
           new == SubSeq(s, 1, q)
           cut == SubSeq(new, 1, p)
<1>1. old \in Seq(S) /\ Len(old) = p /\ \A i \in 1..p : old[i] = s[i]
  <2>1. \A i \in 1..p : s[i] \in S
    OBVIOUS
  <2>. QED
    BY <2>1, SubSeqProperties
<1>2. new \in Seq(S) /\ Len(new) = q /\ \A i \in 1..q : new[i] = s[i]
  <2>1. \A i \in 1..q : s[i] \in S
    OBVIOUS
  <2>. QED
    BY <2>1, SubSeqProperties
<1> HIDE DEF old, new
<1>3. cut \in Seq(S) /\ Len(cut) = p /\ \A i \in 1..p : cut[i] = new[i]
  <2>1. \A i \in 1..p : new[i] \in S
    BY <1>2
  <2>. QED
    BY <1>2, <2>1, SubSeqProperties
<1> HIDE DEF cut
<1>4. cut = old
  <2>1. \A i \in 1..p : cut[i] = old[i]
    BY <1>1, <1>2, <1>3
  <2>. QED
    BY <1>1, <1>3, <2>1, SeqEqual
<1>. QED
  BY <1>1, <1>2, <1>4 DEF old, new, cut

(***************************************************************************)
(* What the boat has sailed only grows: a write adds a gapless stretch of  *)
(* fixes and waypoints passed, nothing else touches either.                *)
(***************************************************************************)
LEMMA WriteSailsOn == ASSUME IInv, Write PROVE Voy!SailOn
<1>1. boat.finished = None /\ boat.sim_time < boat'.sim_time /\ boat'.finished \in {None, boat'.sim_time}
  BY WriteExtends
<1>2. /\ DOMAIN track \subseteq DOMAIN track'
      /\ \A t \in DOMAIN track : track'[t] = track[t]
  BY WriteExtends
<1>3. Voy!Gapless(DOMAIN track' \ DOMAIN track, boat.sim_time, boat'.sim_time)
  BY WriteExtends
<1>4. /\ Len(SubSeq(route, 1, passed)) <= Len(SubSeq(route', 1, passed'))
      /\ SubSeq(SubSeq(route', 1, passed'), 1, Len(SubSeq(route, 1, passed))) = SubSeq(route, 1, passed)
  <2>1. /\ route \in Seq(Places) /\ passed \in Nat /\ passed' \in Nat /\ route' = route
        /\ passed <= passed' /\ passed' <= Len(route)
    BY WriteExtends DEF IInv, TypeOK, DatabaseOK, RunOK, Write
  <2>. QED
    BY <2>1, PrefixOfPrefix
<1>. QED
  BY <1>1, <1>2, <1>3, <1>4 DEF Voy!SailOn

(***************************************************************************)
(* The engine implements Voyage: under every interleaving of ticks,        *)
(* submissions and crashes, fixes are added and never rewritten, the       *)
(* waypoints passed stay as they were, a finished boat is not moved.       *)
(***************************************************************************)
THEOREM EngineIsVoyage == Spec => IsVoyage
<1>1. Init => Voy!Init
  <2> SUFFICES ASSUME Init PROVE Voy!Init
    OBVIOUS
  <2>1. IInv
    BY InitIInv
  <2>2. SubSeq(route, 1, 0) = <<>>
    BY SubSeqEmpty
  <2>. QED
    BY <2>2 DEF Init, Voy!Init
<1>2. IInv /\ [Next]_vars => [Voy!Next]_(Voy!vars)
  <2> SUFFICES ASSUME IInv, [Next]_vars PROVE [Voy!Next]_(Voy!vars)
    OBVIOUS
  <2>1. CASE Write
    BY <2>1, WriteSailsOn DEF Voy!Next
  <2>2. CASE Replace
    <3>1. UNCHANGED <<boat, track>>
      BY <2>2 DEF Replace
    <3>2. SubSeq(route', 1, passed') = SubSeq(route, 1, passed)
      BY <2>2, ReplaceKeepsPassed
    <3>. QED
      BY <3>1, <3>2 DEF Voy!vars
  <2>3. CASE UNCHANGED dbVars
    BY <2>3 DEF Voy!vars, dbVars
  <2>4. Write \/ Replace \/ UNCHANGED dbVars
    BY DEF Next, vars, dbVars, Tick, Acquire, CatchUp, Replan, Crash, ReadIdle, ReadBoat, Sail,
           WriteNothing, TickDone, RefuseFinished, Join, MarkReached, MarkInserted
  <2>. QED
    BY <2>1, <2>2, <2>3, <2>4
<1>. QED
  BY <1>1, <1>2, Invariant, PTL DEF Spec, IsVoyage, Voy!Spec

-----------------------------------------------------------------------------
(***************************************************************************)
(* A boat never parks short of the finish: what is left of its route       *)
(* visits, in order, every mark it still owes, for every course, radius,   *)
(* stream, routing and interleaving.                                       *)
(***************************************************************************)

(***************************************************************************)
(* The route as far as enforce_course has reconciled it: the marks before  *)
(* plan.mark are visited by the waypoints before plan.from.                *)
(***************************************************************************)
Reconciled ==
  /\ boat.next <= plan.mark
  /\ \E at \in [boat.next..(plan.mark - 1) -> 1..Len(plan.wps)] :
       /\ \A m \in boat.next..(plan.mark - 1) :
            Dist(plan.wps[at[m]], Marks[m]) <= Radius /\ at[m] < plan.from
       /\ \A m1, m2 \in boat.next..(plan.mark - 1) : m1 <= m2 => at[m1] <= at[m2]

(***************************************************************************)
(* RouteStillVisits says it of the database; within a catch-up it must     *)
(* hold of the waypoints not yet passed there, within a replacement of the *)
(* part of the routing already looked at.                                  *)
(***************************************************************************)
VInv ==
  /\ IInv
  /\ RouteStillVisits
  /\ pc = "sail" /\ run.finished = None => Visits(run.wps, run.next, Finish)
  /\ pc = "enforce" => Reconciled

\* What is left of a sequence after its first p elements.
LEMMA RestOf ==
  ASSUME NEW S, NEW s \in Seq(S), NEW p \in 0..Len(s)
  PROVE  /\ SubSeq(s, p + 1, Len(s)) \in Seq(S)
         /\ Len(SubSeq(s, p + 1, Len(s))) = Len(s) - p
         /\ \A i \in 1..(Len(s) - p) : SubSeq(s, p + 1, Len(s))[i] = s[p + i]
<1>1. \A i \in (p + 1)..Len(s) : s[i] \in S
  OBVIOUS
<1>. QED
  BY <1>1, SubSeqProperties

LEMMA FirstOf ==
  ASSUME NEW S, NEW s \in Seq(S), NEW p \in 0..Len(s)
  PROVE  /\ SubSeq(s, 1, p) \in Seq(S)
         /\ Len(SubSeq(s, 1, p)) = p
         /\ \A i \in 1..p : SubSeq(s, 1, p)[i] = s[i]
<1>1. \A i \in 1..p : s[i] \in S
  OBVIOUS
<1>. QED
  BY <1>1, SubSeqProperties

LEMMA MarkPlaces == \A m \in 1..Finish : Marks[m] \in Places /\ Marks[m] \in Int
<1> SUFFICES ASSUME NEW m \in 1..Finish PROVE Marks[m] \in Places /\ Marks[m] \in Int
  OBVIOUS
<1>1. Marks \in Seq(Places) /\ m \in 1..Len(Marks)
  BY MarksAssumption DEF Finish
<1>2. Marks[m] \in Places
  BY <1>1
<1>. QED
  BY <1>2, PlacesAssumption

LEMMA InitVisits == Init => VInv
<1> SUFFICES ASSUME Init PROVE VInv
  OBVIOUS
<1>1. IInv
  BY InitIInv
<1> DEFINE s == SubSeq(Marks, 2, Finish)
<1>2. s \in Seq(Places) /\ Len(s) = Finish - 1 /\ \A i \in 1..(Finish - 1) : s[i] = Marks[1 + i]
  BY MarksAssumption, FinishType, RestOf DEF Finish
<1>3. route = s /\ passed = 0 /\ boat.next = 2 /\ pc = "idle"
  BY DEF Init
<1> HIDE DEF s
<1> DEFINE r == SubSeq(s, 0 + 1, Len(s))
<1>4. Len(r) = Finish - 1 /\ \A i \in 1..(Finish - 1) : r[i] = Marks[1 + i]
  <2>1. /\ Len(r) = Len(s) - 0 /\ \A i \in 1..(Len(s) - 0) : r[i] = s[0 + i]
    BY <1>2, FinishType, RestOf
  <2> HIDE DEF r
  <2>. QED
    BY <1>2, <2>1, FinishType
<1> HIDE DEF r
<1>5. Visits(r, 2, Finish)
  <2> DEFINE at == [m \in 2..Finish |-> m - 1]
  <2>1. at \in [2..Finish -> 1..Len(r)]
    BY <1>4, FinishType
  <2>2. ASSUME NEW m \in 2..Finish PROVE Dist(r[at[m]], Marks[m]) <= Radius
    <3>1. r[at[m]] = Marks[m] /\ Marks[m] \in Int
      BY <1>4, FinishType, MarkPlaces
    <3>. QED
      BY <3>1, NumbersAssumption DEF Dist
  <2>3. \A m1, m2 \in 2..Finish : m1 <= m2 => at[m1] <= at[m2]
    BY FinishType
  <2> HIDE DEF at
  <2>. QED
    BY <2>1, <2>2, <2>3 DEF Visits
<1>6. RouteStillVisits
  BY <1>3, <1>5 DEF RouteStillVisits, r
<1>. QED
  BY <1>1, <1>3, <1>6 DEF VInv

(***************************************************************************)
(* Sailing.  A mark visited by a waypoint the step passes through is       *)
(* touched by the segment that ends there; so if the first mark still owed *)
(* were visited only before the place reached, it would have been credited.*)
(***************************************************************************)
LEMMA WaypointTouches ==
  ASSUME NEW path, NEW i \in Nat, NEW m \in 1..Finish,
         path[i] \in Int, path[i + 1] \in Int, Dist(path[i + 1], Marks[m]) <= Radius
  PROVE  Touches(path, i, m)
<1> DEFINE a == path[i]
           b == path[i + 1]
           c == Marks[m]
<1>1. a \in Int /\ b \in Int /\ c \in Int /\ Radius \in Nat
  BY MarkPlaces, NumbersAssumption
<1>2. Dist(b, c) <= Radius
  OBVIOUS
<1> HIDE DEF a, b, c
<1>3. \/ a <= b /\ a - Radius <= c /\ c <= b + Radius
      \/ b <= a /\ b - Radius <= c /\ c <= a + Radius
  BY <1>1, <1>2 DEF Dist
<1>. QED
  BY <1>3 DEF Touches, a, b, c

LEMMA SailLeaves ==
  ASSUME IInv, Sail, Visits(run.wps, run.next, Finish), run'.finished = None
  PROVE  Visits(run'.wps, run'.next, Finish)
<1> USE NumbersAssumption, NoneAssumption
<1> DEFINE path(k, e, p) == (<<run.pos>> \o SubSeq(run.wps, 1, k)) \o <<e, p>>
<1>1. \E k \in 0..Len(run.wps) : \E e, p : \E n \in run.next..(Finish + 1) :
        /\ CreditsJust(run.next, n, path(k, e, p))
        /\ run'.next = n
        /\ run'.finished = IF n > Finish THEN run.t + Step ELSE None
        /\ run'.wps = SubSeq(run.wps, k + 1, Len(run.wps))
  <2>1. PICK k \in 0..Len(run.wps) : Sail!2!(k)
    BY DEF Sail
  <2>2. \E e, drift : \E n \in run.next..(Finish + 1) :
          /\ CreditsJust(run.next, n, path(k, e, e + drift))
          /\ run'.next = n
          /\ run'.finished = IF n > Finish THEN run.t + Step ELSE None
          /\ run'.wps = SubSeq(run.wps, k + 1, Len(run.wps))
    <3>1. PICK e \in (IF k < Len(run.wps)
                        THEN Short((<<run.pos>> \o SubSeq(run.wps, 1, k))[k + 1], run.wps[k + 1])
                        ELSE {(<<run.pos>> \o SubSeq(run.wps, 1, k))[k + 1]}) :
                 \E drift \in (-Stream)..Stream :
                   \E n \in run.next..(Finish + 1) :
                     /\ CreditsJust(run.next, n, path(k, e, e + drift))
                     /\ run' = [t |-> run.t + Step, pos |-> e + drift, next |-> n,
                                finished |-> IF n > Finish THEN run.t + Step ELSE None,
                                wps |-> SubSeq(run.wps, k + 1, Len(run.wps)),
                                passed |-> run.passed + k,
                                fixes |-> [t \in DOMAIN run.fixes \cup {run.t + Step} |->
                                             IF t = run.t + Step THEN e + drift
                                                                 ELSE run.fixes[t]],
                                n |-> run.n + 1, path |-> path(k, e, e + drift)]
      BY <2>1, Zenon
    <3> HIDE DEF path
    <3>. QED
      BY <3>1, SMT
  <2> HIDE DEF path
  <2>. QED
    BY <2>2, Zenon
<1>a. PICK k \in 0..Len(run.wps) : \E e, p : \E n \in run.next..(Finish + 1) :
        /\ CreditsJust(run.next, n, path(k, e, p))
        /\ run'.next = n
        /\ run'.finished = IF n > Finish THEN run.t + Step ELSE None
        /\ run'.wps = SubSeq(run.wps, k + 1, Len(run.wps))
  BY <1>1, Zenon
<1>b. PICK e, p : \E n \in run.next..(Finish + 1) :
        /\ CreditsJust(run.next, n, path(k, e, p))
        /\ run'.next = n
        /\ run'.finished = IF n > Finish THEN run.t + Step ELSE None
        /\ run'.wps = SubSeq(run.wps, k + 1, Len(run.wps))
  BY <1>a, Zenon
<1>2. PICK n \in run.next..(Finish + 1) :
        /\ CreditsJust(run.next, n, path(k, e, p))
        /\ run'.next = n
        /\ run'.finished = IF n > Finish THEN run.t + Step ELSE None
        /\ run'.wps = SubSeq(run.wps, k + 1, Len(run.wps))
  BY <1>b, Zenon
<1>3. /\ run.wps \in Seq(Places) /\ run.pos \in Places /\ run.next \in 2..(Finish + 1)
      /\ run.t \in Int /\ k \in Nat /\ Len(run.wps) \in Nat
  BY DEF IInv, TypeOK, RunOK
<1>4. n \in Int /\ n <= Finish /\ run.next <= n /\ 2 <= run.next /\ run.next \in Int
  BY <1>2, <1>3, FinishType
<1> DEFINE w == run.wps
           q == path(k, e, p)
<1>5. /\ Len(q) = k + 3 /\ q[1] = run.pos
      /\ \A i \in 1..k : q[i + 1] = w[i]
  <2> DEFINE S == Places \cup {e, p}
             first == SubSeq(w, 1, k)
             legs == <<run.pos>> \o first
             tail == <<e, p>>
  <2>1. first \in Seq(Places) /\ Len(first) = k /\ \A i \in 1..k : first[i] = w[i]
    BY <1>3, FirstOf
  <2>2. first \in Seq(S) /\ <<run.pos>> \in Seq(S) /\ Len(<<run.pos>>) = 1 /\ <<run.pos>>[1] = run.pos
    BY <1>3, <2>1
  <2>3. tail \in Seq(S) /\ Len(tail) = 2
    OBVIOUS
  <2>4. /\ legs \in Seq(S) /\ Len(legs) = Len(<<run.pos>>) + Len(first)
        /\ \A i \in 1..(Len(<<run.pos>>) + Len(first)) :
             legs[i] = IF i <= Len(<<run.pos>>) THEN <<run.pos>>[i] ELSE first[i - Len(<<run.pos>>)]
    <3> HIDE DEF first, S
    <3>. QED
      BY <2>2, ConcatProperties
  <2> HIDE DEF first, S
  <2>5. /\ Len(legs) = k + 1 /\ legs[1] = run.pos
        /\ \A i \in 1..k : legs[i + 1] = first[i]
    <3>1. /\ Len(legs) = 1 + k
          /\ \A i \in 1..(1 + k) : legs[i] = IF i <= 1 THEN run.pos ELSE first[i - 1]
      <4> HIDE DEF legs
      <4>. QED
        BY <2>1, <2>2, <2>4
    <3> HIDE DEF legs
    <3>. QED
      BY <1>3, <3>1
  <2>6. legs \in Seq(S)
    BY <2>4
  <2> HIDE DEF legs, tail
  <2>7. /\ Len(legs \o tail) = k + 3
        /\ \A i \in 1..(k + 1) : (legs \o tail)[i] = legs[i]
    <3>1. /\ Len(legs \o tail) = Len(legs) + Len(tail)
          /\ \A i \in 1..(Len(legs) + Len(tail)) :
               (legs \o tail)[i] = IF i <= Len(legs) THEN legs[i] ELSE tail[i - Len(legs)]
      BY <2>3, <2>6, ConcatProperties
    <3> DEFINE z == legs \o tail
    <3>2. /\ Len(z) = (k + 1) + 2
          /\ \A i \in 1..((k + 1) + 2) : z[i] = IF i <= k + 1 THEN legs[i] ELSE tail[i - (k + 1)]
      BY <2>3, <2>5, <3>1
    <3> HIDE DEF z
    <3>3. Len(z) = k + 3 /\ \A i \in 1..(k + 1) : z[i] = legs[i]
      BY <1>3, <3>2
    <3>. QED
      BY <3>3 DEF z
  <2>8. q = legs \o tail
    BY DEF q, path, legs, tail, first
  <2> HIDE DEF q
  <2>. QED
    BY <1>3, <2>1, <2>5, <2>7, <2>8, SMTT(30)
<1>c. run.pos \in Int /\ \A i \in 1..k : w[i] \in Int
  <2>1. \A i \in 1..k : w[i] \in Places
    BY <1>3
  <2>. QED
    BY <1>3, <2>1, PlacesAssumption
<1>6. CreditsJust(run.next, n, q)
  BY <1>2
<1> HIDE DEF path, q
<1>7. PICK at \in [run.next..Finish -> 1..Len(w)] :
        /\ \A m \in run.next..Finish : Dist(w[at[m]], Marks[m]) <= Radius
        /\ \A m1, m2 \in run.next..Finish : m1 <= m2 => at[m1] <= at[m2]
  BY DEF Visits
<1>8. at[n] > k
  <2> SUFFICES ASSUME at[n] <= k PROVE Credits(run.next, n + 1, q)
    BY <1>4, <1>6, <1>7, <1>3, FinishType DEF CreditsJust
  <2> DEFINE seg == [m \in run.next..((n + 1) - 1) |-> at[m]]
  <2>1. run.next..((n + 1) - 1) \subseteq run.next..Finish /\ n \in run.next..Finish
        /\ \A m \in run.next..((n + 1) - 1) : m <= n
    BY <1>4, FinishType
  <2>2. \A m \in run.next..((n + 1) - 1) : at[m] \in 1..k
    <3>1. \A m \in run.next..((n + 1) - 1) : at[m] <= at[n] /\ at[m] \in 1..Len(w) /\ at[n] \in 1..Len(w)
      BY <1>7, <2>1
    <3>. QED
      BY <1>3, <3>1
  <2>3. seg \in [run.next..((n + 1) - 1) -> 1..(Len(q) - 1)]
    BY <1>3, <1>5, <2>2
  <2>4. ASSUME NEW m \in run.next..((n + 1) - 1) PROVE Touches(q, seg[m], m)
    <3>1. at[m] \in 1..k /\ at[m] \in Nat /\ seg[m] = at[m]
      BY <1>3, <2>2
    <3>2. q[at[m] + 1] = w[at[m]] /\ w[at[m]] \in Int
      BY <1>5, <1>c, <3>1
    <3>3. q[at[m]] \in Int
      <4>1. CASE at[m] = 1
        BY <1>3, <1>5, <4>1, PlacesAssumption
      <4>2. CASE at[m] # 1
        <5>1. PICK j : j = at[m] - 1
          OBVIOUS
        <5>2. j \in 1..k /\ j + 1 = at[m]
          BY <1>3, <3>1, <4>2, <5>1
        <5>3. j \in 1..Len(w)
          BY <1>3, <5>2
        <5>4. q[j + 1] = w[j]
          BY <1>5, <5>2
        <5>. QED
          BY <1>c, <5>2, <5>3, <5>4
      <4>. QED
        BY <4>1, <4>2
    <3>4. m \in 1..Finish /\ Dist(q[at[m] + 1], Marks[m]) <= Radius
      BY <1>4, <1>7, <2>1, <3>2, FinishType, SMTT(30)
    <3>. QED
      BY <3>1, <3>2, <3>3, <3>4, WaypointTouches
  <2>5. \A m1, m2 \in run.next..((n + 1) - 1) : m1 <= m2 => seg[m1] <= seg[m2]
    BY <1>7, <2>1
  <2> HIDE DEF seg
  <2>. QED
    BY <2>3, <2>4, <2>5 DEF Credits
<1> DEFINE rest == SubSeq(w, k + 1, Len(w))
           on == [m \in n..Finish |-> at[m] - k]
<1>9. Len(rest) = Len(w) - k /\ \A i \in 1..(Len(w) - k) : rest[i] = w[k + i]
  BY <1>3, RestOf
<1> HIDE DEF rest
<1>10. ASSUME NEW m \in n..Finish
       PROVE  /\ m \in run.next..Finish /\ at[m] \in 1..Len(w) /\ at[m] - k \in 1..(Len(w) - k)
              /\ rest[at[m] - k] = w[at[m]]
  <2>1. m \in run.next..Finish /\ n \in run.next..Finish /\ n <= m
    BY <1>4, FinishType
  <2>2. at[n] <= at[m] /\ at[m] \in 1..Len(w) /\ at[n] \in 1..Len(w)
    BY <1>7, <2>1
  <2>3. at[m] - k \in 1..(Len(w) - k) /\ k + (at[m] - k) = at[m]
    BY <1>3, <1>8, <2>2
  <2>. QED
    BY <1>9, <2>1, <2>2, <2>3
<1>11. on \in [n..Finish -> 1..Len(rest)]
  BY <1>9, <1>10
<1>12. \A m \in n..Finish : Dist(rest[on[m]], Marks[m]) <= Radius
  BY <1>7, <1>10
<1>13. \A m1, m2 \in n..Finish : m1 <= m2 => on[m1] <= on[m2]
  <2>1. \A m1, m2 \in n..Finish : m1 <= m2 => at[m1] <= at[m2] /\ at[m1] \in Int /\ at[m2] \in Int
    BY <1>7, <1>10
  <2>. QED
    BY <1>3, <2>1
<1> HIDE DEF on
<1>14. Visits(rest, n, Finish)
  BY <1>11, <1>12, <1>13 DEF Visits
<1>. QED
  BY <1>2, <1>14 DEF rest

LEMMA SailVisits == ASSUME VInv, Sail PROVE VInv'
<1>1. IInv' /\ IInv
  BY SailStep DEF VInv
<1>2. UNCHANGED <<boat, track, route, passed, lock, pc, plan>> /\ pc = "sail" /\ run.finished = None
  BY DEF Sail, dbVars, MoreToSail
<1>3. run'.finished = None => Visits(run'.wps, run'.next, Finish)
  BY <1>1, <1>2, SailLeaves DEF VInv
<1>4. RouteStillVisits'
  BY <1>2 DEF VInv, RouteStillVisits, Visits
<1>. QED
  BY <1>1, <1>2, <1>3, <1>4 DEF VInv, Visits

(***************************************************************************)
(* Reconciling a routing.                                                  *)
(***************************************************************************)
LEMMA JoinVisits == ASSUME VInv, Join PROVE VInv'
<1>1. IInv' /\ IInv
  BY JoinStep DEF VInv
<1>2. UNCHANGED <<boat, track, route, passed, run>> /\ pc = "caught_up" /\ pc' = "enforce"
      /\ plan'.mark = boat.next /\ plan'.from = 1
  BY DEF Join, dbVars
<1>3. boat.next \in Int
  BY <1>1, FinishType DEF IInv, TypeOK, DatabaseOK
<1>4. Reconciled'
  <2> DEFINE D == boat.next..(boat.next - 1)
             at == [m \in D |-> 1]
  <2>1. D = {}
    BY <1>3
  <2>2. at \in [D -> 1..Len(plan'.wps)]
    BY <2>1
  <2> DEFINE u == plan'.wps
  <2>3. /\ \A m \in D : Dist(u[at[m]], Marks[m]) <= Radius /\ at[m] < 1
        /\ \A m1, m2 \in D : m1 <= m2 => at[m1] <= at[m2]
    BY <2>1
  <2> HIDE DEF at
  <2>4. \E a \in [D -> 1..Len(u)] :
          /\ \A m \in D : Dist(u[a[m]], Marks[m]) <= Radius /\ a[m] < 1
          /\ \A m1, m2 \in D : m1 <= m2 => a[m1] <= a[m2]
    BY <2>2, <2>3
  <2>5. boat'.next <= plan'.mark /\ D = boat'.next..(plan'.mark - 1) /\ plan'.from = 1
    BY <1>2, <1>3
  <2> HIDE DEF D
  <2>. QED
    BY <2>4, <2>5, Zenon DEF Reconciled
<1>5. RouteStillVisits'
  BY <1>2 DEF VInv, RouteStillVisits, Visits
<1>. QED
  BY <1>1, <1>2, <1>4, <1>5 DEF VInv

LEMMA MarkReachedVisits == ASSUME VInv, MarkReached PROVE VInv'
<1>1. IInv' /\ IInv
  BY MarkReachedStep DEF VInv
<1>2. UNCHANGED <<boat, track, route, passed, run>> /\ pc = "enforce" /\ pc' = "enforce"
      /\ plan.mark <= Finish
  BY DEF MarkReached, dbVars
<1>3. PICK i \in plan.from..Len(plan.wps) :
        Inside(i) /\ plan' = [plan EXCEPT !.mark = @ + 1, !.from = i + 1]
  BY DEF MarkReached
<1>4. /\ plan.wps \in Seq(Places) /\ Len(plan.wps) \in Nat /\ plan.mark \in Int
      /\ plan.from \in Nat /\ 1 <= plan.from /\ boat.next \in Int
      /\ plan.mark \in 2..(Finish + 1)
      /\ plan \in [wps : Seq(Places), mark : 2..(Finish + 1), from : Nat \ {0}]
  <2>1. PlanOK /\ DatabaseOK
    BY <1>1 DEF IInv, TypeOK
  <2>2. plan \in [wps : Seq(Places), mark : 2..(Finish + 1), from : Nat \ {0}]
    BY <2>1 DEF PlanOK
  <2>3. boat.next \in Int
    BY <2>1, FinishType DEF DatabaseOK
  <2>4. plan.mark \in 2..(Finish + 1) /\ plan.wps \in Seq(Places) /\ plan.from \in Nat \ {0}
    BY <2>2
  <2>. QED
    BY <2>2, <2>3, <2>4, FinishType
<1>5. plan'.wps = plan.wps /\ plan'.mark = plan.mark + 1 /\ plan'.from = i + 1
      /\ i \in Nat /\ plan.from <= i /\ i <= Len(plan.wps) /\ i \in 1..Len(plan.wps)
  <2>1. i \in Nat /\ plan.from <= i /\ i <= Len(plan.wps) /\ i \in 1..Len(plan.wps)
    BY <1>4
  <2>2. plan' = [plan EXCEPT !.mark = plan.mark + 1, !.from = i + 1]
    BY <1>3
  <2>3. plan'.wps = plan.wps /\ plan'.mark = plan.mark + 1 /\ plan'.from = i + 1
    BY <1>4, <2>2
  <2>. QED
    BY <2>1, <2>3
<1> DEFINE w == plan.wps
           old == boat.next..(plan.mark - 1)
<1>6. boat.next <= plan.mark
  BY <1>2 DEF VInv, Reconciled
<1>7. PICK at \in [old -> 1..Len(w)] :
        /\ \A m \in old : Dist(w[at[m]], Marks[m]) <= Radius /\ at[m] < plan.from
        /\ \A m1, m2 \in old : m1 <= m2 => at[m1] <= at[m2]
  BY <1>2 DEF VInv, Reconciled
<1> DEFINE new == boat.next..((plan.mark + 1) - 1)
           to == [m \in new |-> IF m = plan.mark THEN i ELSE at[m]]
<1>8. /\ \A m \in new : m = plan.mark \/ m \in old
      /\ plan.mark \in new /\ \A m \in old : m \in new /\ m # plan.mark /\ m < plan.mark
  BY <1>4, <1>6
<1>9. Dist(w[i], Marks[plan.mark]) <= Radius
  BY <1>3 DEF Inside
<1> HIDE DEF old, new
<1>10. to \in [new -> 1..Len(w)]
  BY <1>5, <1>7, <1>8
<1>11. \A m \in new : Dist(w[to[m]], Marks[m]) <= Radius /\ to[m] < i + 1
  <2> TAKE m \in new
  <2>1. CASE m = plan.mark
    BY <1>5, <1>9, <2>1
  <2>2. CASE m # plan.mark
    <3>1. m \in old /\ to[m] = at[m] /\ at[m] \in 1..Len(w)
      BY <1>7, <1>8, <2>2
    <3>2. at[m] < plan.from /\ Dist(w[at[m]], Marks[m]) <= Radius
      BY <1>7, <3>1
    <3>. QED
      BY <1>4, <1>5, <3>1, <3>2
  <2>. QED
    BY <2>1, <2>2
<1>12. \A m1, m2 \in new : m1 <= m2 => to[m1] <= to[m2]
  <2> SUFFICES ASSUME NEW m1 \in new, NEW m2 \in new, m1 <= m2 PROVE to[m1] <= to[m2]
    OBVIOUS
  <2>0. m1 \in Int /\ m2 \in Int
    BY <1>4 DEF new
  <2>1. CASE m2 = plan.mark
    BY <1>5, <1>11, <1>10, <2>1
  <2>2. CASE m2 # plan.mark
    <3>1. m2 \in old /\ m1 \in old /\ m1 # plan.mark
      BY <1>4, <1>8, <2>0, <2>2
    <3>. QED
      BY <1>7, <2>2, <3>1
  <2>. QED
    BY <2>1, <2>2
<1> HIDE DEF to
<1>13. Reconciled'
  <2> DEFINE u == plan'.wps
  <2>1. \E a \in [new -> 1..Len(u)] :
          /\ \A m \in new : Dist(u[a[m]], Marks[m]) <= Radius /\ a[m] < plan'.from
          /\ \A m1, m2 \in new : m1 <= m2 => a[m1] <= a[m2]
    BY <1>5, <1>10, <1>11, <1>12
  <2>2. boat'.next <= plan'.mark /\ new = boat'.next..(plan'.mark - 1)
    BY <1>2, <1>4, <1>5, <1>6 DEF new
  <2>. QED
    BY <2>1, <2>2, Zenon DEF Reconciled
<1>14. RouteStillVisits'
  BY <1>2 DEF VInv, RouteStillVisits, Visits
<1>. QED
  BY <1>1, <1>2, <1>13, <1>14 DEF VInv

\* Inserting x at place j keeps what is before it.
LEMMA InsertKeeps ==
  ASSUME NEW S, NEW s \in Seq(S), NEW x \in S, NEW j \in 0..Len(s)
  PROVE  /\ Len(InsertAt(s, j + 1, x)) = Len(s) + 1
         /\ InsertAt(s, j + 1, x)[j + 1] = x
         /\ \A i \in 1..j : InsertAt(s, j + 1, x)[i] = s[i]
<1> DEFINE a == SubSeq(s, 1, j)
           b == SubSeq(s, j + 1, Len(s))
           c == a \o <<x>>
           d == c \o b
<1>1. a \in Seq(S) /\ Len(a) = j /\ \A i \in 1..j : a[i] = s[i]
  BY FirstOf
<1>2. b \in Seq(S) /\ Len(b) = Len(s) - j
  BY RestOf
<1>3. <<x>> \in Seq(S) /\ Len(<<x>>) = 1 /\ <<x>>[1] = x
  OBVIOUS
<1>4. InsertAt(s, j + 1, x) = d
  <2>1. (j + 1) - 1 = j
    OBVIOUS
  <2>. QED
    BY <2>1 DEF InsertAt
<1> HIDE DEF a, b
<1>5. c \in Seq(S) /\ Len(c) = j + 1 /\ c[j + 1] = x /\ \A i \in 1..j : c[i] = a[i]
  <2>1. /\ c \in Seq(S) /\ Len(c) = Len(a) + Len(<<x>>)
        /\ \A i \in 1..(Len(a) + Len(<<x>>)) :
             c[i] = IF i <= Len(a) THEN a[i] ELSE <<x>>[i - Len(a)]
    BY <1>1, <1>3, ConcatProperties
  <2> HIDE DEF c
  <2>2. /\ Len(c) = j + 1
        /\ \A i \in 1..(j + 1) : c[i] = IF i <= j THEN a[i] ELSE <<x>>[i - j]
    BY <1>1, <1>3, <2>1
  <2>3. (j + 1) - j = 1 /\ j + 1 \in 1..(j + 1)
    OBVIOUS
  <2>. QED
    BY <1>3, <2>1, <2>2, <2>3
<1> HIDE DEF c
<1>6. Len(d) = Len(s) + 1 /\ \A i \in 1..(j + 1) : d[i] = c[i]
  <2>1. /\ Len(d) = Len(c) + Len(b)
        /\ \A i \in 1..(Len(c) + Len(b)) : d[i] = IF i <= Len(c) THEN c[i] ELSE b[i - Len(c)]
    BY <1>2, <1>5, ConcatProperties
  <2> HIDE DEF d
  <2>2. Len(c) + Len(b) = Len(s) + 1 /\ j + 1 <= Len(s) + 1 /\ Len(c) = j + 1
    BY <1>2, <1>5
  <2>. QED
    BY <2>1, <2>2
<1> HIDE DEF d
<1>. QED
  BY <1>1, <1>4, <1>5, <1>6

LEMMA MarkInsertedVisits == ASSUME VInv, MarkInserted PROVE VInv'
<1>1. IInv' /\ IInv
  BY MarkInsertedStep DEF VInv
<1>2. UNCHANGED <<boat, track, route, passed, run>> /\ pc = "enforce" /\ pc' = "enforce"
      /\ plan.mark <= Finish
  BY DEF MarkInserted, dbVars
<1>3. PICK best \in (plan.from - 1)..Len(plan.wps) :
        plan' = [wps  |-> InsertAt(plan.wps, best + 1, Marks[plan.mark]),
                 mark |-> plan.mark + 1, from |-> best + 2]
  BY DEF MarkInserted
<1> DEFINE w == plan.wps
           v == InsertAt(w, best + 1, Marks[plan.mark])
           old == boat.next..(plan.mark - 1)
           new == boat.next..((plan.mark + 1) - 1)
<1>4. /\ w \in Seq(Places) /\ Len(w) \in Nat /\ plan.mark \in 1..Finish
      /\ plan.from \in Nat /\ 1 <= plan.from /\ boat.next \in Int /\ plan.mark \in Int
  BY <1>1, <1>2, FinishType DEF IInv, TypeOK, PlanOK, DatabaseOK
<1>5. best \in 0..Len(w) /\ plan.from <= best + 1 /\ Marks[plan.mark] \in Places
      /\ best + 2 = (best + 1) + 1 /\ Marks[plan.mark] \in Int
  BY <1>4, MarkPlaces
<1>6. plan'.wps = v /\ plan'.mark = plan.mark + 1 /\ plan'.from = best + 2
  BY <1>3
<1>7. Len(v) = Len(w) + 1 /\ v[best + 1] = Marks[plan.mark] /\ \A i \in 1..best : v[i] = w[i]
  BY <1>4, <1>5, InsertKeeps, SMTT(30)
<1> HIDE DEF v
<1>8. boat.next <= plan.mark
  BY <1>2 DEF VInv, Reconciled
<1>9. PICK at \in [old -> 1..Len(w)] :
        /\ \A m \in old : Dist(w[at[m]], Marks[m]) <= Radius /\ at[m] < plan.from
        /\ \A m1, m2 \in old : m1 <= m2 => at[m1] <= at[m2]
  BY <1>2 DEF VInv, Reconciled
<1> DEFINE to == [m \in new |-> IF m = plan.mark THEN best + 1 ELSE at[m]]
<1>10. /\ \A m \in new : m = plan.mark \/ m \in old
       /\ plan.mark \in new /\ \A m \in old : m \in new /\ m # plan.mark /\ m < plan.mark
  BY <1>4, <1>8
<1> HIDE DEF old, new
<1>11. ASSUME NEW m \in old
       PROVE  at[m] \in 1..best /\ at[m] \in 1..Len(v) /\ v[at[m]] = w[at[m]] /\ at[m] < best + 1
  <2>1. at[m] \in 1..Len(w) /\ at[m] < plan.from
    BY <1>9
  <2>2. at[m] \in 1..best /\ at[m] \in 1..(Len(w) + 1) /\ at[m] < best + 1
    BY <1>4, <1>5, <2>1
  <2>. QED
    BY <1>7, <2>2
<1>12. to \in [new -> 1..Len(v)]
  <2>1. best + 1 \in 1..Len(v)
    BY <1>4, <1>5, <1>7
  <2>. QED
    BY <1>10, <1>11, <2>1
<1>13. \A m \in new : Dist(v[to[m]], Marks[m]) <= Radius /\ to[m] < best + 2 /\ to[m] <= best + 1
  <2> TAKE m \in new
  <2>1. CASE m = plan.mark
    <3>1. to[m] = best + 1 /\ v[to[m]] = Marks[m] /\ Marks[m] \in Int
      BY <1>5, <1>7, <2>1
    <3>2. Dist(v[to[m]], Marks[m]) <= Radius
      BY <3>1, NumbersAssumption DEF Dist
    <3>. QED
      BY <1>4, <1>5, <3>1, <3>2
  <2>2. CASE m # plan.mark
    <3>1. m \in old /\ to[m] = at[m]
      BY <1>10, <2>2
    <3>2. Dist(v[to[m]], Marks[m]) <= Radius
      BY <1>9, <1>11, <3>1
    <3>. QED
      BY <1>4, <1>5, <1>11, <3>1, <3>2
  <2>. QED
    BY <2>1, <2>2
<1>14. \A m1, m2 \in new : m1 <= m2 => to[m1] <= to[m2]
  <2> SUFFICES ASSUME NEW m1 \in new, NEW m2 \in new, m1 <= m2 PROVE to[m1] <= to[m2]
    OBVIOUS
  <2>0. m1 \in Int /\ m2 \in Int
    BY <1>4 DEF new
  <2>1. CASE m2 = plan.mark
    BY <1>13, <2>1
  <2>2. CASE m2 # plan.mark
    <3>1. m2 \in old /\ m1 \in old /\ m1 # plan.mark
      BY <1>4, <1>10, <2>0, <2>2
    <3>. QED
      BY <1>9, <2>2, <3>1
  <2>. QED
    BY <2>1, <2>2
<1> HIDE DEF to
<1>15. Reconciled'
  <2> DEFINE u == plan'.wps
  <2>1. \E a \in [new -> 1..Len(u)] :
          /\ \A m \in new : Dist(u[a[m]], Marks[m]) <= Radius /\ a[m] < plan'.from
          /\ \A m1, m2 \in new : m1 <= m2 => a[m1] <= a[m2]
    BY <1>6, <1>12, <1>13, <1>14
  <2>2. boat'.next <= plan'.mark /\ new = boat'.next..(plan'.mark - 1)
    BY <1>2, <1>4, <1>6, <1>8 DEF new
  <2>. QED
    BY <2>1, <2>2, Zenon DEF Reconciled
<1>16. RouteStillVisits'
  BY <1>2 DEF VInv, RouteStillVisits, Visits
<1>. QED
  BY <1>1, <1>2, <1>15, <1>16 DEF VInv

LEMMA ReplaceVisits == ASSUME VInv, Replace PROVE VInv'
<1>1. IInv' /\ IInv
  BY ReplaceStep DEF VInv
<1>2. UNCHANGED <<boat, passed, run>> /\ pc = "enforce" /\ pc' = "idle" /\ plan.mark > Finish
      /\ route' = SubSeq(route, 1, passed) \o plan.wps
  BY DEF Replace
<1>3. /\ route \in Seq(Places) /\ passed \in 0..Len(route) /\ plan.wps \in Seq(Places)
      /\ plan.mark \in 2..(Finish + 1)
  BY <1>1 DEF IInv, TypeOK, DatabaseOK, PlanOK
<1> DEFINE kept == SubSeq(route, 1, passed)
           new == kept \o plan.wps
           left == SubSeq(new, passed + 1, Len(new))
<1>4. kept \in Seq(Places) /\ Len(kept) = passed
  BY <1>3, FirstOf
<1> HIDE DEF kept
<1>5. /\ new \in Seq(Places) /\ Len(new) = passed + Len(plan.wps)
      /\ \A i \in 1..Len(plan.wps) : new[passed + i] = plan.wps[i]
  <2>1. /\ new \in Seq(Places) /\ Len(new) = Len(kept) + Len(plan.wps)
        /\ \A i \in 1..(Len(kept) + Len(plan.wps)) :
             new[i] = IF i <= Len(kept) THEN kept[i] ELSE plan.wps[i - Len(kept)]
    BY <1>3, <1>4, ConcatProperties
  <2> HIDE DEF new
  <2>2. ASSUME NEW i \in 1..Len(plan.wps) PROVE new[passed + i] = plan.wps[i]
    <3>1. /\ passed + i \in 1..(Len(kept) + Len(plan.wps)) /\ ~(passed + i <= Len(kept))
          /\ (passed + i) - Len(kept) = i
      BY <1>3, <1>4
    <3>. QED
      BY <2>1, <3>1
  <2>. QED
    BY <1>4, <2>1, <2>2
<1> HIDE DEF new
<1>6. left = plan.wps
  <2>1. /\ left \in Seq(Places) /\ Len(left) = Len(new) - passed
        /\ \A i \in 1..(Len(new) - passed) : left[i] = new[passed + i]
    <3>1. passed \in 0..Len(new)
      BY <1>3, <1>5
    <3>. QED
      BY <1>5, <3>1, RestOf
  <2> HIDE DEF left
  <2>2. Len(new) - passed = Len(plan.wps)
    BY <1>3, <1>5
  <2>. QED
    BY <1>3, <1>5, <2>1, <2>2, SeqEqual
<1>7. Visits(plan.wps, boat.next, Finish)
  <2>1. plan.mark - 1 = Finish
    BY <1>2, <1>3, FinishType
  <2>. QED
    BY <1>2, <2>1 DEF VInv, Reconciled, Visits
<1>8. RouteStillVisits'
  <2>1. route' = new /\ passed' = passed /\ boat' = boat
    BY <1>2 DEF new, kept
  <2>2. Visits(SubSeq(route', passed' + 1, Len(route')), boat'.next, Finish)
    BY <1>6, <1>7, <2>1
  <2>. QED
    BY <2>2 DEF RouteStillVisits, Visits
<1>. QED
  BY <1>1, <1>2, <1>8 DEF VInv

(***************************************************************************)
(* The steps that only copy: into the locals, back to the database, or     *)
(* neither.                                                                *)
(***************************************************************************)
LEMMA ReadBoatVisits == ASSUME VInv, ReadBoat PROVE VInv'
<1>1. IInv' /\ IInv
  BY ReadBoatStep DEF VInv
<1>2. UNCHANGED <<boat, route, passed, until>> /\ pc' = "sail" /\ boat.finished = None
      /\ run'.wps = SubSeq(route, passed + 1, Len(route)) /\ run'.next = boat.next
  BY DEF ReadBoat, dbVars, NoRun, NothingToSail
<1>3. Visits(run'.wps, run'.next, Finish)
  BY <1>2 DEF VInv, RouteStillVisits
<1>4. RouteStillVisits'
  BY <1>2 DEF VInv, RouteStillVisits, Visits
<1>. QED
  BY <1>1, <1>2, <1>3, <1>4 DEF VInv, Visits

LEMMA WriteVisits == ASSUME VInv, Write PROVE VInv'
<1>1. IInv' /\ IInv
  BY WriteStep DEF VInv
<1>2. /\ pc = "sail" /\ pc' = "caught_up" /\ route' = route /\ passed' = run.passed
      /\ boat'.next = run.next /\ boat'.finished = run.finished
  BY DEF Write
<1>3. run.wps = SubSeq(route, run.passed + 1, Len(route))
  BY <1>1, <1>2 DEF IInv, RunInv
<1>4. RouteStillVisits'
  <2>1. boat'.finished = None =>
          Visits(SubSeq(route', passed' + 1, Len(route')), boat'.next, Finish)
    BY <1>2, <1>3 DEF VInv
  <2>. QED
    BY <2>1 DEF RouteStillVisits, Visits
<1>. QED
  BY <1>1, <1>2, <1>4 DEF VInv

LEMMA QuietVisits ==
  ASSUME VInv, IInv', UNCHANGED <<boat, route, passed>>,
         pc' = "sail" => pc = "sail" /\ run' = run,
         pc' = "enforce" => pc = "enforce" /\ plan' = plan
  PROVE  VInv'
<1>1. RouteStillVisits'
  BY DEF VInv, RouteStillVisits, Visits
<1>2. pc' = "sail" /\ run'.finished = None => Visits(run'.wps, run'.next, Finish)
  BY DEF VInv
<1>3. pc' = "enforce" => Reconciled'
  BY DEF VInv, Reconciled
<1>. QED
  BY <1>1, <1>2, <1>3 DEF VInv, Visits
-----------------------------------------------------------------------------
LEMMA NextVisits == VInv /\ [Next]_vars => VInv'
<1> SUFFICES ASSUME VInv, [Next]_vars PROVE VInv'
  OBVIOUS
<1>0. IInv'
  BY NextIInv DEF VInv
<1>1. CASE Tick \/ Crash \/ ReadIdle \/ WriteNothing \/ TickDone \/ RefuseFinished
  BY <1>0, <1>1, QuietVisits
     DEF Tick, Crash, ReadIdle, WriteNothing, TickDone, RefuseFinished, dbVars
<1>2. ASSUME NEW who \in {"ticker", "request"}, NEW u \in Gun..now, Acquire(who, u) PROVE VInv'
  BY <1>0, <1>2, QuietVisits DEF Acquire, dbVars
<1>3. CASE UNCHANGED vars
  BY <1>0, <1>3, QuietVisits DEF vars
<1>4. CASE CatchUp
  BY <1>1, <1>4, ReadBoatVisits, SailVisits, WriteVisits DEF CatchUp
<1>5. CASE Replan
  BY <1>1, <1>5, JoinVisits, MarkReachedVisits, MarkInsertedVisits, ReplaceVisits DEF Replan
<1>. QED
  BY <1>1, <1>2, <1>3, <1>4, <1>5 DEF Next

(***************************************************************************)
(* What is left of a boat's route visits every mark it still owes, in      *)
(* order: through steps that pass several marks at once, streams that set  *)
(* the boat off its route, resubmissions and crashes, it never parks short *)
(* of the finish.                                                          *)
(***************************************************************************)
THEOREM NeverParksShort == Spec => []RouteStillVisits
<1>1. Init => VInv
  BY InitVisits
<1>2. VInv => RouteStillVisits
  BY DEF VInv
<1>. QED
  BY <1>1, <1>2, NextVisits, PTL DEF Spec
=============================================================================
