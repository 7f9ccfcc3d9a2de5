---------------------------- MODULE MCStartLine ----------------------------
(***************************************************************************)
(* The start line; real boats are interchangeable, and so are requests.    *)
(***************************************************************************)
EXTENDS StartLine, TLC

Sym == Permutations(RealBoats) \cup Permutations(Requests)

Setup(b, rb, n, roll, r, s, c) ==
  [boats |-> b, real |-> rb, needed |-> n, rolling |-> roll, requests |-> r, scripts |-> s, crashes |-> c]

\* Two boats that wait for one real boat, with a crash; one that waits for
\* two; one with a script; and one with two requests, in a rolling race that
\* waits for its fleet.
Gated == {Setup({1, 2}, {rb}, 1, FALSE, {r}, 0, 1) : rb \in RealBoats, r \in Requests}
         \cup {Setup({1}, RealBoats, 2, FALSE, {r}, 0, 0) : r \in Requests}
         \cup {Setup({1}, {rb}, 1, FALSE, {r}, 1, 0) : rb \in RealBoats, r \in Requests}
         \cup {Setup({1}, {rb}, 1, TRUE, Requests, 0, 0) : rb \in RealBoats}

\* A gated race with one request and a rolling one with two, both with a crash.
DockAndRolling == {Setup({1, 2}, RealBoats, 1, FALSE, {CHOOSE r \in Requests : TRUE}, 0, 1),
                   Setup({1, 2}, {}, 0, TRUE, Requests, 0, 1)}
=============================================================================
