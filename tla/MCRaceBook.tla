----------------------------- MODULE MCRaceBook -----------------------------
(* Small race boards for RaceBook. *)
EXTENDS RaceBook

CONSTANTS w1, w2, c1, c2

\* The jobs named are done as often as given, the others never.
Work(f) == [j \in Jobs |-> IF j \in DOMAIN f THEN f[j] ELSE 0]

\* Two people add marks to a course while its boats start.
Course == [course |-> 3, boats |-> 2, jobs |-> Work([add_mark |-> 2, submit |-> 2, hold |-> 1])]

\* Boats and the race itself come and go under the engine.
Turnover == [course |-> 2, boats |-> 1,
             jobs |-> Work([register |-> 2, submit |-> 2, hold |-> 1, remove |-> 1, delete |-> 1])]

\* Documents are attached to a race that goes, and another has its id.
Docs == [course |-> 2, boats |-> 0,
         jobs |-> Work([upload |-> 2, delete |-> 1, create |-> 2])]

\* Practice editions over three months, one of which may be deleted.
Practice == [course |-> 0, boats |-> 0, jobs |-> Work([create |-> 1, delete |-> 1, clock |-> 9])]

Boards == {Course, Turnover, Docs, Practice}
=============================================================================
