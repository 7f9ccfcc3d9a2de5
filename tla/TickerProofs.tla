---------------------------- MODULE TickerProofs ----------------------------
(***************************************************************************)
(* Proofs about the ticker and the health check, for any races, any        *)
(* thresholds a tick fits under, and any number of failures.               *)
(***************************************************************************)
EXTENDS Ticker, TLAPS

(***************************************************************************)
(* The ages, by where the thread is.  Inside a tick it is younger than the *)
(* last completed one; asleep, either the tick was completed just before,  *)
(* or it raised, and is still no older than the longest tick and a sleep.  *)
(***************************************************************************)
Working == {"practice", "race", "sail", "backup", "weather"}

Younger == done = None \/ started < done

AgesOK ==
  /\ ticker.pc = "begin" => started = None /\ done = None
  /\ ticker.pc \in Working => started \in 0..Longest /\ Younger
  /\ ticker.pc = "asleep" =>
       /\ started \in Ages
       /\ \/ Younger /\ started <= Longest + ticker.slept
          \/ done = ticker.slept /\ done <= started

(***************************************************************************)
(* A race whose weather this process has not looked at yet has an entry    *)
(* from before the restart only.                                           *)
(***************************************************************************)
OldEntries ==
  \A r \in Races : seen[r] = None /\ log[r].last # "none" => log[r].restarted

LEMMA OldFits ==
  ASSUME NEW age \in Ages PROVE Older(age) = (IF age < MaxAge THEN age + 1 ELSE MaxAge) /\ Older(age) \in Ages
<1> USE TickerAssumption DEF Ages
<1>1. age # None /\ age \in Nat /\ age <= MaxAge
  OBVIOUS
<1>2. CASE age < MaxAge
  <2>1. Min({age + 1, MaxAge}) = age + 1
    BY <1>1, <1>2 DEF Min
  <2>. QED
    BY <1>1, <1>2, <2>1 DEF Older
<1>3. CASE age = MaxAge
  <2>1. Min({age + 1, MaxAge}) = MaxAge
    BY <1>1, <1>3 DEF Min
  <2>. QED
    BY <1>1, <1>3, <2>1 DEF Older
<1>. QED
  BY <1>1, <1>2, <1>3

LEMMA InitOK == Init => TypeOK /\ AgesOK /\ OldEntries
<1> SUFFICES ASSUME Init PROVE TypeOK /\ AgesOK /\ OldEntries
  OBVIOUS
<1> USE TickerAssumption
<1>1. ThreadOK
  BY DEF Init, ThreadOK, Thread, Asleep
<1>2. LogsOK
  BY DEF Init, LogsOK
<1>3. WorldOK
  <2>1. hour \in 0..(Day - 1) /\ faults \in 0..MaxFaults /\ busy \in 0..MaxBusy
    BY DEF Init
  <2>2. live \subseteq Races /\ broken \subseteq Races /\ stamped \in BOOLEAN
    BY Zenon DEF Init
  <2>. QED
    BY <2>1, <2>2 DEF WorldOK
<1>4. AgesOK
  BY DEF Init, AgesOK, Asleep, Working
<1>5. OldEntries
  BY DEF Init, OldEntries
<1>. QED
  BY <1>1, <1>2, <1>3, <1>4, <1>5 DEF TypeOK

(***************************************************************************)
(* Types and ages together: the ages tell which ticks may begin, and the   *)
(* types what an age is.                                                   *)
(***************************************************************************)
LEMMA StepThread == ThreadOK /\ WorldOK /\ AgesOK /\ [Next]_vars => ThreadOK' /\ AgesOK'
<1> SUFFICES ASSUME ThreadOK, WorldOK, AgesOK, [Next]_vars PROVE ThreadOK' /\ AgesOK'
  OBVIOUS
<1> USE TickerAssumption
<1>1. CASE Clock
  <2>1. ~Due /\ started' = Older(started) /\ done' = Older(done)
        /\ ticker' = [ticker EXCEPT !.slept = IF ticker.pc = "asleep" THEN 1 ELSE 0]
    BY <1>1 DEF Clock
  <2>2. Older(None) = None /\ \A a \in Ages : Older(a) = (IF a < MaxAge THEN a + 1 ELSE MaxAge) /\ Older(a) \in Ages
    BY OldFits DEF Older
  <2>3. ThreadOK'
    BY <2>1, <2>2 DEF ThreadOK, Thread
  <2>4. ticker'.pc = ticker.pc
    BY <2>1 DEF ThreadOK, Thread
  <2>5. ticker.pc # "begin"
    BY <2>1 DEF Due, AgesOK
  <2>6. ASSUME ticker.pc \in Working PROVE started' \in 0..Longest /\ Younger'
    <3>1. started \in 0..Longest /\ started # Longest /\ started \in Ages
      BY <2>1, <2>6 DEF AgesOK, Due, Working, Ages
    <3>2. started' = started + 1
      BY <2>1, <2>2, <3>1
    <3>3. CASE done = None
      BY <2>1, <2>2, <3>1, <3>2, <3>3 DEF Younger
    <3>4. CASE done # None
      BY <2>1, <2>2, <2>6, <3>1, <3>2, <3>4 DEF Younger, AgesOK, ThreadOK, Ages
    <3>. QED
      BY <3>1, <3>2, <3>3, <3>4
  <2>7. ASSUME ticker.pc = "asleep"
        PROVE  started' \in Ages /\ ((Younger' /\ started' <= Longest + 1) \/ (done' = 1 /\ done' <= started'))
    <3>1. ticker.slept = 0 /\ started \in Ages
      BY <2>1, <2>7 DEF AgesOK, Due, ThreadOK, Thread
    <3>2. CASE Younger /\ started <= Longest
      <4>1. started' = started + 1
        BY <2>1, <2>2, <3>1, <3>2 DEF Ages
      <4>2. CASE done = None
        BY <2>1, <2>2, <3>1, <3>2, <4>1, <4>2 DEF Younger, Ages
      <4>3. CASE done \in Ages
        BY <2>1, <2>2, <3>1, <3>2, <4>1, <4>3 DEF Younger, Ages
      <4>. QED
        BY <4>2, <4>3 DEF ThreadOK
    <3>3. CASE done = 0 /\ done <= started
      BY <2>1, <2>2, <3>1, <3>3 DEF Ages
    <3>. QED
      BY <2>7, <3>1, <3>2, <3>3 DEF AgesOK, Ages
  <2>8. ticker.pc = "asleep" => ticker'.slept = 1
    BY <2>1 DEF ThreadOK, Thread
  <2>. QED
    BY <2>3, <2>4, <2>5, <2>6, <2>7, <2>8 DEF AgesOK
<1>2. CASE TickBegins
  <2>1. started' = 0 /\ done' = done /\ ticker' = [pc |-> "practice", left |-> {}, slept |-> 0]
        /\ (ticker.pc = "begin" \/ (ticker.pc = "asleep" /\ ticker.slept = 1))
    BY <1>2 DEF TickBegins, At
  <2>2. done = None \/ 0 < done
    BY <2>1 DEF AgesOK, Younger, ThreadOK, Ages
  <2>. QED
    BY <2>1, <2>2 DEF ThreadOK, Thread, AgesOK, Younger, Working, Ages
<1>3. ASSUME ticker.pc \in Working, started' = started, done' = done,
             ticker' \in Thread, ticker'.pc \in Working \cup {"hung", "dead"} \/ ticker' = Asleep
      PROVE  ThreadOK' /\ AgesOK'
  <2>1. started \in 0..Longest /\ Younger /\ started \in Ages
    BY <1>3 DEF AgesOK, Ages
  <2>. QED
    BY <1>3, <2>1 DEF ThreadOK, AgesOK, Younger, Working, Asleep
<1>4. ASSUME NEW pc0 \in Working \cup {"hung", "dead"}, NEW left0 \in SUBSET Races
      PROVE  /\ [ticker EXCEPT !.pc = pc0] \in Thread /\ [ticker EXCEPT !.pc = pc0].pc = pc0
             /\ [ticker EXCEPT !.pc = pc0, !.left = left0] \in Thread
             /\ [ticker EXCEPT !.pc = pc0, !.left = left0].pc = pc0
  BY <1>4 DEF ThreadOK, Thread, Working
<1>5. Asleep \in Thread /\ [ticker EXCEPT !.left = @ \ {This}] \in Thread
      /\ [ticker EXCEPT !.left = @ \ {This}].pc = ticker.pc
  BY DEF Asleep, ThreadOK, Thread
<1>6. live \in SUBSET Races /\ \A r : ticker.left \ {r} \in SUBSET Races
  BY DEF WorldOK, ThreadOK, Thread
<1>7. CASE Practice
  <2>1. ticker.pc = "practice" /\ ticker' = [ticker EXCEPT !.pc = "race", !.left = live]
        /\ started' = started /\ done' = done
    BY <1>7 DEF Practice, At, memory
  <2>2. ticker' \in Thread /\ ticker'.pc = "race"
    BY <2>1, <1>4, <1>6 DEF Working
  <2>. QED
    BY <2>1, <2>2, <1>3 DEF Working
<1>8. CASE Dock
  <2>1. ticker.pc = "race" /\ ticker' = [ticker EXCEPT !.pc = "sail"]
        /\ started' = started /\ done' = done
    BY <1>8 DEF Dock, At, Goes, AfterFailure, memory
  <2>2. ticker' \in Thread /\ ticker'.pc = "sail"
    BY <2>1, <1>4, <1>6 DEF Working
  <2>. QED
    BY <2>1, <2>2, <1>3 DEF Working
<1>9. ASSUME NEW r \in Races, Sails(r) PROVE ThreadOK' /\ AgesOK'
  <2>1. ticker.pc = "sail" /\ ticker' = [ticker EXCEPT !.pc = "race", !.left = ticker.left \ {r}]
        /\ started' = started /\ done' = done
    BY <1>9 DEF Sails, At, memory
  <2>2. ticker' \in Thread /\ ticker'.pc = "race"
    BY <2>1, <1>4, <1>6 DEF Working
  <2>. QED
    BY <2>1, <2>2, <1>3 DEF Working
<1>10. CASE SailRaises
  BY <1>3, <1>5, <1>10 DEF SailRaises, At, memory, Working
<1>11. CASE Heal
  BY <1>3, <1>4, <1>11 DEF Heal, At, Goes, memory, Working
<1>12. CASE Backup
  BY <1>3, <1>4, <1>6, <1>12 DEF Backup, At, Working
<1>13. CASE Weather
  BY <1>3, <1>5, <1>13 DEF Weather, At, Working
<1>14. CASE WeatherRaises
  BY <1>3, <1>5, <1>14 DEF WeatherRaises, At, memory, Working
<1>15. CASE Polls
  <2>1. started' = started /\ done' = 0 /\ ticker' = Asleep /\ started \in Ages /\ 0 \in Ages
    BY <1>15 DEF Polls, At, AgesOK, Working, Ages
  <2>. QED
    BY <2>1, <1>5 DEF ThreadOK, AgesOK, Asleep, Working, Ages
<1>16. CASE Boot
  <2>1. started' = None /\ done' = None /\ ticker' = [pc |-> "begin", left |-> {}, slept |-> 0]
    BY <1>16 DEF Boot, Asleep
  <2>. QED
    BY <2>1 DEF ThreadOK, Thread, AgesOK, Working
<1>17. CASE Fault
  <2>1. started' = started /\ done' = done /\ ticker.pc \notin {"hung", "dead"} /\ started # None
    BY <1>17 DEF Fault, memory
  <2>2. CASE Hangs
    BY <2>1, <2>2, <1>4 DEF Hangs, Goes, ThreadOK, AgesOK, Working
  <2>3. CASE Dies
    BY <2>1, <2>3, <1>4 DEF Dies, Goes, ThreadOK, AgesOK, Working
  <2>4. CASE Breaks
    BY <2>1, <2>4 DEF Breaks, ThreadOK, AgesOK, Younger
  <2>. QED
    BY <1>17, <2>2, <2>3, <2>4 DEF Fault
<1>18. CASE WindowOpens \/ WeatherTurns \/ UNCHANGED vars
  BY <1>18 DEF WindowOpens, WeatherTurns, vars, memory, ThreadOK, AgesOK, Younger
<1>. QED
  BY <1>1, <1>2, <1>7, <1>8, <1>9, <1>10, <1>11, <1>12, <1>13, <1>14, <1>15, <1>16, <1>17, <1>18
     DEF Next, TickStep, PlatformRestarts, Restart

LEMMA StepWorld == WorldOK /\ [Next]_vars => WorldOK'
<1> SUFFICES ASSUME WorldOK, [Next]_vars PROVE WorldOK'
  OBVIOUS
<1> USE TickerAssumption
<1>1. CASE Clock
  <2>1. hour' = (hour + 1) % Day /\ stamped' = (stamped /\ hour' # 0)
        /\ UNCHANGED <<live, broken, faults, busy>>
    BY <1>1 DEF Clock
  <2>2. hour' \in 0..(Day - 1)
    BY <2>1 DEF WorldOK
  <2>3. stamped' \in BOOLEAN
    BY <2>1, Zenon
  <2>. QED
    BY <2>1, <2>2, <2>3 DEF WorldOK
<1>2. CASE WindowOpens
  BY <1>2 DEF WindowOpens, WorldOK, memory
<1>3. CASE SailRaises \/ WeatherRaises
  <2>1. busy' = busy \/ (busy > 0 /\ busy' = busy - 1)
    BY <1>3 DEF SailRaises, WeatherRaises
  <2>2. UNCHANGED <<live, broken, stamped, hour, faults>>
    BY <1>3 DEF SailRaises, WeatherRaises, memory, world
  <2>. QED
    BY <2>1, <2>2 DEF WorldOK
<1>4. CASE Backup
  <2>1. UNCHANGED <<live, broken, hour, faults, busy>>
    BY <1>4 DEF Backup, world
  <2>2. stamped' \in BOOLEAN
    BY <1>4, Zenon DEF Backup, WorldOK
  <2>. QED
    BY <2>1, <2>2 DEF WorldOK
<1>5. CASE PlatformRestarts
  BY <1>5 DEF PlatformRestarts, Boot, WorldOK, world
<1>6. CASE Restart
  <2>1. faults > 0 /\ faults' = faults - 1 /\ UNCHANGED <<live, broken, hour, busy>>
    BY <1>6 DEF Restart, Boot, world
  <2>2. stamped' \in BOOLEAN
    BY <1>6 DEF Restart, Boot
  <2>. QED
    BY <2>1, <2>2 DEF WorldOK
<1>7. CASE Fault
  <2>1. faults > 0 /\ faults' = faults - 1 /\ UNCHANGED <<live, stamped, hour, busy>>
    BY <1>7 DEF Fault, memory
  <2>2. broken' \subseteq Races
    <3>1. broken' = broken \/ \E r \in Races : broken' = broken \cup {r}
      BY <1>7, Zenon DEF Fault, Hangs, Dies, Breaks
    <3>. QED
      BY <3>1 DEF WorldOK
  <2>3. faults' \in 0..MaxFaults
    BY <2>1 DEF WorldOK
  <2>. QED
    BY <2>1, <2>2, <2>3 DEF WorldOK
<1>8. CASE WeatherTurns \/ TickBegins \/ Practice \/ Dock \/ Heal \/ Weather \/ Polls \/ UNCHANGED vars
           \/ \E r \in Races : Sails(r)
  <2>1. UNCHANGED <<live, broken, stamped, hour, faults, busy>>
    BY <1>8 DEF WeatherTurns, TickBegins, Practice, Dock, Heal, Weather, Polls, Sails, vars, memory, world
  <2>. QED
    BY <2>1 DEF WorldOK
<1>. QED
  BY <1>1, <1>2, <1>3, <1>4, <1>5, <1>6, <1>7, <1>8 DEF Next, TickStep

(***************************************************************************)
(* The logs.  Three things write them: the look at the weather, a restart, *)
(* and the world, which turns the weather alone.                           *)
(***************************************************************************)
Entered(r) == log[r].last # "none" /\ ~log[r].restarted

TellsSeen == \A r \in Races : seen[r] # None /\ Entered(r) => (log[r].last = "down" <=> seen[r])

LEMMA StepLogs == LogsOK /\ OldEntries /\ TellsSeen /\ [Next]_vars => LogsOK' /\ OldEntries' /\ TellsSeen'
<1> SUFFICES ASSUME LogsOK, OldEntries, TellsSeen, [Next]_vars PROVE LogsOK' /\ OldEntries' /\ TellsSeen'
  OBVIOUS
<1> USE TickerAssumption
<1>1. CASE UNCHANGED <<seen, log>> /\ wx' \in [Races -> BOOLEAN]
  BY <1>1 DEF LogsOK, OldEntries, TellsSeen, Entered
<1>2. wx \in [Races -> BOOLEAN]
  BY DEF LogsOK
<1>3. CASE Weather
  <2>0. PICK r : r = This
    OBVIOUS
  <2>1. /\ log' = IF seen[r] \notin {None, wx[r]} THEN [log EXCEPT ![r] = Entry(wx[r])] ELSE log
        /\ seen' = [seen EXCEPT ![r] = wx[r]] /\ wx' = wx
    BY <1>3, <2>0 DEF Weather, Seen, world
  <2>2. LogsOK'
    BY <2>1 DEF LogsOK, Entry
  <2>3. ASSUME NEW x \in Races, x # r PROVE seen'[x] = seen[x] /\ log'[x] = log[x]
    BY <2>1, <2>3 DEF LogsOK
  <2>4. ASSUME r \in Races PROVE seen'[r] = wx[r] /\ seen'[r] # None
    BY <2>1, <2>4 DEF LogsOK
  <2>5. ASSUME r \in Races, Entered(r)' PROVE log'[r].last = "down" <=> seen'[r]
    <3>1. CASE seen[r] \notin {None, wx[r]}
      <4>1. log'[r] = Entry(wx[r])
        BY <2>1, <2>5, <3>1 DEF LogsOK
      <4>. QED
        BY <4>1, <2>4, <2>5 DEF Entry
    <3>2. CASE seen[r] = None
      <4>1. log'[r] = log[r]
        BY <2>1, <3>2
      <4>. QED
        BY <4>1, <3>2, <2>5 DEF OldEntries, Entered
    <3>3. CASE seen[r] = wx[r] /\ seen[r] # None
      <4>1. log'[r] = log[r] /\ seen'[r] = seen[r]
        BY <2>1, <2>4, <2>5, <3>3
      <4>2. Entered(r)
        BY <4>1, <2>5 DEF Entered
      <4>. QED
        BY <4>1, <4>2, <3>3, <2>5 DEF TellsSeen
    <3>. QED
      BY <3>1, <3>2, <3>3
  <2>6. OldEntries'
    BY <2>3, <2>4 DEF OldEntries
  <2>7. TellsSeen'
    BY <2>3, <2>5 DEF TellsSeen, Entered
  <2>. QED
    BY <2>2, <2>6, <2>7
<1>4. CASE Boot
  <2>1. seen' = [r \in Races |-> None] /\ wx' = wx
        /\ log' = [r \in Races |-> [log[r] EXCEPT !.restarted = TRUE]]
    BY <1>4 DEF Boot, world
  <2>2. LogsOK'
    BY <2>1 DEF LogsOK
  <2>3. \A r \in Races : log'[r].restarted = TRUE /\ seen'[r] = None
    BY <2>1 DEF LogsOK
  <2>. QED
    BY <2>2, <2>3 DEF OldEntries, TellsSeen
<1>5. CASE WeatherTurns
  <2>1. UNCHANGED <<seen, log>> /\ \E r \in Races : wx' = [wx EXCEPT ![r] = ~@]
    BY <1>5 DEF WeatherTurns, memory
  <2>2. wx' \in [Races -> BOOLEAN]
    BY <2>1, <1>2
  <2>. QED
    BY <1>1, <2>1, <2>2
<1>6. CASE Clock \/ WindowOpens \/ TickBegins \/ Practice \/ Dock \/ SailRaises \/ Heal \/ Backup
           \/ WeatherRaises \/ Polls \/ Fault \/ UNCHANGED vars \/ \E r \in Races : Sails(r)
  <2>1. UNCHANGED <<seen, log, wx>>
    BY <1>6 DEF Clock, WindowOpens, TickBegins, Practice, Dock, SailRaises, Heal, Backup, WeatherRaises, Polls,
                Fault, Sails, vars, memory, world
  <2>. QED
    BY <1>1, <1>2, <2>1
<1>. QED
  BY <1>3, <1>4, <1>5, <1>6 DEF Next, TickStep, PlatformRestarts, Restart

(***************************************************************************)
(* All of it, whatever fails and however often.                            *)
(***************************************************************************)
IInv == TypeOK /\ AgesOK /\ OldEntries /\ TellsSeen

LEMMA Invariant == Spec => []IInv
<1>1. Init => IInv
  <2>1. Init => \A r \in Races : seen[r] = None
    BY DEF Init
  <2>. QED
    BY InitOK, <2>1 DEF IInv, TellsSeen
<1>2. IInv /\ [Next]_vars => IInv'
  BY StepThread, StepWorld, StepLogs DEF IInv, TypeOK
<1>. QED
  BY <1>1, <1>2, PTL DEF Spec

(***************************************************************************)
(* The check fails only for a thread that hangs, is dead, or has not begun *)
(* yet: it never has the machine restarted under a ticker at work, however *)
(* many ticks raise, as long as one that does not hang fits the threshold. *)
(***************************************************************************)
THEOREM NoWorkingTickerRestarted == Spec => []NoFalseAlarm
<1>1. IInv => NoFalseAlarm
  <2> SUFFICES ASSUME IInv, ticker.pc \notin {"begin", "hung", "dead"} PROVE Ok
    BY DEF NoFalseAlarm
  <2> USE TickerAssumption
  <2>1. ticker.pc \in Working \/ ticker.pc = "asleep"
    BY DEF IInv, TypeOK, ThreadOK, Thread, Working
  <2>2. CASE ticker.pc \in Working
    BY <2>2 DEF IInv, AgesOK, Younger, Ok, Running
  <2>3. CASE ticker.pc = "asleep"
    <3>1. started \in Ages /\ ticker.slept \in 0..1 /\ started # None
      BY <2>3 DEF IInv, AgesOK, TypeOK, ThreadOK, Thread, Ages
    <3>2. CASE Younger /\ started <= Longest + ticker.slept
      <4>1. started <= Stuck
        BY <3>1, <3>2 DEF Ages
      <4>. QED
        BY <3>1, <3>2, <4>1 DEF Younger, Ok, Running
    <3>3. CASE done = ticker.slept /\ done <= started
      <4>1. ~Running /\ done <= Stale /\ done # None
        BY <3>1, <3>3 DEF Running, Ages
      <4>. QED
        BY <4>1 DEF Ok
    <3>. QED
      BY <2>3, <3>2, <3>3 DEF IInv, AgesOK
  <2>. QED
    BY <2>1, <2>2, <2>3
<1>. QED
  BY <1>1, Invariant, PTL

(***************************************************************************)
(* The weather entries of the committee logs are true, and the types kept, *)
(* through failed ticks, failed writes of the log, and restarts.           *)
(***************************************************************************)
THEOREM LogsTellTheTruth == Spec => []LogTruthful
<1>1. IInv => LogTruthful
  BY DEF IInv, TellsSeen, Entered, LogTruthful
<1>. QED
  BY <1>1, Invariant, PTL
=============================================================================
