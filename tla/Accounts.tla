------------------------------- MODULE Accounts -------------------------------
(***************************************************************************)
(* Accounts, roles, sessions, reset links and the boats they own: the      *)
(* handlers of app.py from auth_register to set_admin, register_boat and   *)
(* claim_boat, and vn/db.py's delete_user, on the request threads of the   *)
(* one worker.                                                             *)
(*                                                                         *)
(* A handler decides on what it reads and writes afterwards: each is a     *)
(* step that reads, a second one where it reads again, and the write,      *)
(* which is one action (SQLite lets one writer in from its first write to  *)
(* its commit).  Passwords, addresses, expiry and rate limits are left out: *)
(* who may act is who has a session, and an expired session or link is one *)
(* nobody uses.                                                            *)
(***************************************************************************)
EXTENDS Integers, FiniteSets, FiniteSetsExt

CONSTANTS
  Threads,   \* request threads of the worker
  Names,     \* usernames
  Boats,     \* boat names
  Legacy,    \* boats from before accounts, to be claimed
  Tokens,    \* reset links that may be sent (bound)
  MaxId,     \* accounts are numbered 1..MaxId (bound)
  Mishaps,   \* new requests come while no more than this is crossed (bound)
  None       \* SQL NULL

Ids == 1..MaxId

ASSUME AccountsAssumption == Legacy \subseteq Boats /\ {MaxId, Mishaps} \subseteq Nat /\ None \notin Int

VARIABLES
  users,     \* id -> username and role
  sessions,  \* ids with a session row
  boats,     \* boat -> owner_id
  resets,    \* token -> user_id and used_at
  th,        \* what each thread has read
  promoted,  \* accounts made admin by registering
  usedBy,    \* how often each token has set a password
  crossed    \* what two requests have been about at a time

vars == <<users, sessions, boats, resets, th, promoted, usedBy, crossed>>

Idle == [pc |-> "idle", id |-> None, name |-> None, admin |-> FALSE, target |-> None,
         boat |-> None, mine |-> {}, token |-> None]

Init ==
  /\ users = <<>> /\ sessions = {} /\ resets = <<>>
  /\ boats = [b \in Legacy |-> None]
  /\ th = [t \in Threads |-> Idle]
  /\ promoted = {} /\ usedBy = [k \in Tokens |-> 0] /\ crossed = {}

Admins == {u \in DOMAIN users : users[u].admin}

\* current_user: the session row joined with the user it names.
SignedIn == sessions \cap DOMAIN users

\* The row id SQLite gives: one more than the largest in the table.
NewId == IF DOMAIN users = {} THEN 1 ELSE Max(DOMAIN users) + 1

(***************************************************************************)
(* History: what a request has looked at and is about to write, and what   *)
(* two of them are about at the same time.  An account is crossed when a   *)
(* request of it is under way while it is being deleted.                   *)
(***************************************************************************)
About(x) ==
  CASE x.pc = "register" /\ x.admin   -> {<<"first", None>>}
    [] x.pc = "setrole" /\ ~x.admin   -> {<<"admins", None>>}
    [] x.pc = "erase"                 -> {<<"admins", None>>}
    [] x.pc = "claim"                 -> {<<"boat", x.boat>>}
    [] x.pc = "reset"                 -> {<<"link", x.token>>}
    [] OTHER                          -> {}

Pairs == {p \in Threads \X Threads : p[1] # p[2]}

Crossing(T) ==
  (UNION {About(T[p[1]]) \cap About(T[p[2]]) : p \in Pairs}) \cup
  {<<"account", T[p[1]].id>> : p \in {q \in Pairs : T[q[1]].pc = "erase" /\ T[q[2]].id = T[q[1]].id}}

Does(t, changes) ==
  /\ th' = [th EXCEPT ![t] = changes]
  /\ crossed' = crossed \cup Crossing(th')
Done(t) == Does(t, Idle)

Free(t) == th[t].pc = "idle" /\ Cardinality(crossed) <= Mishaps

With(f, x, v) == [y \in DOMAIN f \cup {x} |-> IF y = x THEN v ELSE f[y]]
Without(f, S) == [y \in DOMAIN f \ S |-> f[y]]

(***************************************************************************)
(* auth_register: whether this is the first account is read before the     *)
(* INSERT, which only a taken username refuses.                            *)
(***************************************************************************)
RegisterRead(t) ==
  /\ Free(t) /\ NewId \in Ids
  /\ \E n \in Names :
       Does(t, [Idle EXCEPT !.pc = "register", !.name = n, !.admin = DOMAIN users = {}])
  /\ UNCHANGED <<users, sessions, boats, resets, promoted, usedBy>>

Taken(n) == \E u \in DOMAIN users : users[u].name = n

RegisterTaken(t) ==
  /\ th[t].pc = "register" /\ Taken(th[t].name)
  /\ Done(t)
  /\ UNCHANGED <<users, sessions, boats, resets, promoted, usedBy>>

RegisterWrite(t) ==
  /\ th[t].pc = "register" /\ ~Taken(th[t].name) /\ NewId \in Ids
  /\ users' = With(users, NewId, [name |-> th[t].name, admin |-> th[t].admin])
  /\ promoted' = IF th[t].admin THEN promoted \cup {NewId} ELSE promoted
  /\ Does(t, [Idle EXCEPT !.pc = "session", !.id = NewId])
  /\ UNCHANGED <<sessions, boats, resets, usedBy>>

(***************************************************************************)
(* auth_login reads the user and checks the password; the session row      *)
(* follows (_start_session, which registering and resetting share).        *)
(***************************************************************************)
LoginRead(t) ==
  /\ Free(t)
  /\ \E u \in DOMAIN users : Does(t, [Idle EXCEPT !.pc = "session", !.id = u])
  /\ UNCHANGED <<users, sessions, boats, resets, promoted, usedBy>>

StartSession(t) ==
  /\ th[t].pc = "session"
  /\ sessions' = sessions \cup {th[t].id}
  /\ Done(t)
  /\ UNCHANGED <<users, boats, resets, promoted, usedBy>>

\* The last session of an account ends: signed out, or expired.
SessionEnds ==
  /\ \E u \in sessions : sessions' = sessions \ {u}
  /\ UNCHANGED <<users, boats, resets, th, promoted, usedBy, crossed>>

(***************************************************************************)
(* set_admin: the actor's role, then the target and the number of admins,  *)
(* then the UPDATE.                                                        *)
(***************************************************************************)
SetAdminRead(t) ==
  /\ Free(t)
  /\ \E u \in SignedIn : users[u].admin /\ Does(t, [Idle EXCEPT !.pc = "role", !.id = u])
  /\ UNCHANGED <<users, sessions, boats, resets, promoted, usedBy>>

\* Mutant: off by one in the count.
MayRevokeLast(u) == Cardinality(Admins) >= 1 \/ ~users[u].admin

\* The last admin may not be revoked.
MayRevoke(u) == Cardinality(Admins) > 1 \/ ~users[u].admin

SetAdminCheck(t) ==
  /\ th[t].pc = "role"
  /\ \/ \E u \in DOMAIN users, grant \in BOOLEAN :
          /\ grant \/ MayRevoke(u)
          /\ Does(t, [th[t] EXCEPT !.pc = "setrole", !.target = u, !.admin = grant])
     \/ Done(t)
  /\ UNCHANGED <<users, sessions, boats, resets, promoted, usedBy>>

SetAdminWrite(t) ==
  /\ th[t].pc = "setrole"
  /\ users' = IF th[t].target \in DOMAIN users
              THEN [users EXCEPT ![th[t].target].admin = th[t].admin] ELSE users
  /\ Done(t)
  /\ UNCHANGED <<sessions, boats, resets, promoted, usedBy>>

(***************************************************************************)
(* auth_delete_account: delete_user counts the admins, lists the account's *)
(* boats, then deletes them and everything else in one transaction.        *)
(***************************************************************************)
DeleteRead(t) ==
  /\ Free(t)
  /\ \E u \in SignedIn : Does(t, [Idle EXCEPT !.pc = "delete", !.id = u])
  /\ UNCHANGED <<users, sessions, boats, resets, promoted, usedBy>>

Owned(u) == {b \in DOMAIN boats : boats[b] = u}

DeleteCheck(t) ==
  /\ th[t].pc = "delete"
  /\ IF th[t].id \in DOMAIN users /\ MayRevoke(th[t].id)
     THEN Does(t, [th[t] EXCEPT !.pc = "erase", !.mine = Owned(th[t].id)])
     ELSE Done(t)
  /\ UNCHANGED <<users, sessions, boats, resets, promoted, usedBy>>

\* Mutant: the reset links stay.
DeleteWriteResets(t) ==
  /\ th[t].pc = "erase"
  /\ users' = Without(users, {th[t].id})
  /\ sessions' = sessions \ {th[t].id}
  /\ boats' = Without(boats, th[t].mine)
  /\ promoted' = promoted \ {th[t].id}
  /\ Done(t)
  /\ UNCHANGED <<resets, usedBy>>

DeleteWrite(t) ==
  /\ th[t].pc = "erase"
  /\ users' = Without(users, {th[t].id})
  /\ sessions' = sessions \ {th[t].id}
  /\ boats' = Without(boats, th[t].mine)
  /\ resets' = Without(resets, {k \in DOMAIN resets : resets[k].id = th[t].id})
  /\ promoted' = promoted \ {th[t].id}
  /\ Done(t)
  /\ UNCHANGED usedBy

(***************************************************************************)
(* register_boat and claim_boat: the session first, then the boat.         *)
(***************************************************************************)
EnterRead(t) ==
  /\ Free(t)
  /\ \E u \in SignedIn : Does(t, [Idle EXCEPT !.pc = "enter", !.id = u])
  /\ UNCHANGED <<users, sessions, boats, resets, promoted, usedBy>>

EnterWrite(t) ==
  /\ th[t].pc = "enter"
  /\ \E b \in Boats : boats' = IF b \in DOMAIN boats THEN boats ELSE With(boats, b, th[t].id)
  /\ Done(t)
  /\ UNCHANGED <<users, sessions, resets, promoted, usedBy>>

ClaimRead(t) ==
  /\ Free(t)
  /\ \E u \in SignedIn, b \in DOMAIN boats \cap Legacy :
       /\ boats[b] = None
       /\ Does(t, [Idle EXCEPT !.pc = "claim", !.id = u, !.boat = b])
  /\ UNCHANGED <<users, sessions, boats, resets, promoted, usedBy>>

ClaimWrite(t) ==
  /\ th[t].pc = "claim"
  /\ boats' = IF th[t].boat \in DOMAIN boats THEN [boats EXCEPT ![th[t].boat] = th[t].id] ELSE boats
  /\ Done(t)
  /\ UNCHANGED <<users, sessions, resets, promoted, usedBy>>

(***************************************************************************)
(* auth_forgot sends a link; auth_reset reads its row, then sets the       *)
(* password, marks the link used and ends every session in one             *)
(* transaction, and signs the account in.                                  *)
(***************************************************************************)
Sendable == {k \in Tokens \ DOMAIN resets : usedBy[k] = 0}

ForgotRead(t) ==
  /\ Free(t) /\ Sendable # {}
  /\ \E u \in DOMAIN users : Does(t, [Idle EXCEPT !.pc = "forgot", !.id = u])
  /\ UNCHANGED <<users, sessions, boats, resets, promoted, usedBy>>

ForgotWrite(t) ==
  /\ th[t].pc = "forgot"
  /\ \E k \in Sendable : resets' = With(resets, k, [id |-> th[t].id, used |-> FALSE])
  /\ Done(t)
  /\ UNCHANGED <<users, sessions, boats, promoted, usedBy>>

ResetRead(t) ==
  /\ Free(t)
  /\ \E k \in DOMAIN resets :
       ~resets[k].used /\ Does(t, [Idle EXCEPT !.pc = "reset", !.id = resets[k].id, !.token = k])
  /\ UNCHANGED <<users, sessions, boats, resets, promoted, usedBy>>

\* Mutant: used_at is never set.
ResetWriteUnused(t) ==
  /\ th[t].pc = "reset"
  /\ usedBy' = IF th[t].id \in DOMAIN users THEN [usedBy EXCEPT ![th[t].token] = @ + 1] ELSE usedBy
  /\ sessions' = sessions \ {th[t].id}
  /\ IF th[t].id \in DOMAIN users THEN Does(t, [Idle EXCEPT !.pc = "session", !.id = th[t].id])
                                  ELSE Done(t)
  /\ UNCHANGED <<users, boats, resets, promoted>>

\* An account deleted meanwhile has no row to sign in with: the request fails.
ResetWrite(t) ==
  /\ th[t].pc = "reset"
  /\ usedBy' = IF th[t].id \in DOMAIN users THEN [usedBy EXCEPT ![th[t].token] = @ + 1] ELSE usedBy
  /\ resets' = IF th[t].token \in DOMAIN resets THEN [resets EXCEPT ![th[t].token].used = TRUE]
                                                ELSE resets
  /\ sessions' = sessions \ {th[t].id}
  /\ IF th[t].id \in DOMAIN users THEN Does(t, [Idle EXCEPT !.pc = "session", !.id = th[t].id])
                                  ELSE Done(t)
  /\ UNCHANGED <<users, boats, promoted>>

Next ==
  \/ \E t \in Threads :
       \/ RegisterRead(t) \/ RegisterTaken(t) \/ RegisterWrite(t) \/ LoginRead(t) \/ StartSession(t)
       \/ SetAdminRead(t) \/ SetAdminCheck(t) \/ SetAdminWrite(t)
       \/ DeleteRead(t) \/ DeleteCheck(t) \/ DeleteWrite(t)
       \/ EnterRead(t) \/ EnterWrite(t) \/ ClaimRead(t) \/ ClaimWrite(t)
       \/ ForgotRead(t) \/ ForgotWrite(t) \/ ResetRead(t) \/ ResetWrite(t)
  \/ SessionEnds

Spec == Init /\ [][Next]_vars
-----------------------------------------------------------------------------
\* Types, and an owner for every boat entered since there are accounts.
TypeOK ==
  /\ DOMAIN users \subseteq Ids
  /\ \A u \in DOMAIN users : users[u] \in [name : Names, admin : BOOLEAN]
  /\ sessions \subseteq Ids /\ promoted \subseteq Ids
  /\ DOMAIN boats \subseteq Boats
  /\ \A b \in DOMAIN boats : boats[b] \in Ids \/ (b \in Legacy /\ boats[b] = None)
  /\ DOMAIN resets \subseteq Tokens
  /\ \A k \in DOMAIN resets : resets[k] \in [id : Ids, used : BOOLEAN]

(***************************************************************************)
(* "The last admin can't be removed" (README.md), by a demotion or by      *)
(* deleting the account, whatever registers, signs in or is granted the    *)
(* role at the same time: somebody can always run the races, until two     *)
(* revocations have been between their count and their write at once.      *)
(***************************************************************************)
SomeAdmin == DOMAIN users # {} /\ <<"admins", None>> \notin crossed => Admins # {}

(***************************************************************************)
(* Deleting an account takes "every session and reset token, and every     *)
(* boat it entered" (app.py, auth_delete_account): no row is left that     *)
(* names an account there is not, and that the next account numbered the   *)
(* same would take over, unless a request of that account was under way    *)
(* while it was deleted.                                                   *)
(***************************************************************************)
Answerable(u) == u \in DOMAIN users \/ <<"account", u>> \in crossed

NothingLeftBehind ==
  /\ TypeOK
  /\ \A u \in sessions : Answerable(u)
  /\ \A b \in DOMAIN boats : boats[b] # None => Answerable(boats[b])
  /\ \A k \in DOMAIN resets : Answerable(resets[k].id)

(***************************************************************************)
(* What is looked up first and done afterwards is done once, whatever else *)
(* is going on: a reset link sets one password ("single-use"), "the first  *)
(* account registered on a fresh server becomes the admin" and no other by *)
(* registering while it is there, and a boat that has an owner is not      *)
(* claimed again.  Only two requests about the same link, the same boat or *)
(* the first account at the same time can break it, and only for that one. *)
(***************************************************************************)
SingleUse == \A k \in Tokens : usedBy[k] <= 1 \/ <<"link", k>> \in crossed

OneFirstAdmin == Cardinality(promoted) <= 1 \/ <<"first", None>> \in crossed

DoneOnce ==
  /\ [](SingleUse /\ OneFirstAdmin)
  /\ [][\A b \in DOMAIN boats \cap DOMAIN boats' :
          boats[b] # None => boats'[b] = boats[b] \/ <<"boat", b>> \in crossed]_vars
=============================================================================
