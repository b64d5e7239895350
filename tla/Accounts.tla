------------------------------ MODULE Accounts ------------------------------
(***************************************************************************)
(* Accounts: registration, login with its lockout (api/routes/auth.py),    *)
(* and what administrators do to other accounts (api/routes/admin.py,      *)
(* api/deps.py).                                                           *)
(*                                                                         *)
(* Requests run in threads, each with a database session of its own: it    *)
(* reads rows, works on the copies it loaded (hashing or verifying a       *)
(* password takes long), and commits, which writes the columns that differ *)
(* from what it loaded.  Nothing locks a row in between.                   *)
(*                                                                         *)
(* A user is one e-mail address and username; one that is deleted and      *)
(* registers again has the same row, as where SQLite reuses its id.        *)
(* Renaming an account and its password's value are left out, so a login   *)
(* is given whether its password is right.  Whoever has an account can     *)
(* make authenticated requests.                                            *)
(***************************************************************************)
EXTENDS Naturals, FiniteSets

CONSTANTS
  Users,
  Slots,        \* requests that may be under way at once
  Limit,        \* settings.login_max_failed_attempts; 0 disables the lockout
  Updates,      \* the changes administrators ask for: [on, off : SUBSET Flags]
  MaxRequests   \* bound: requests begun

Flags == {"admin", "active"}

ASSUME AccountsAssumption ==
  /\ Limit \in Nat /\ MaxRequests \in Nat
  /\ Updates \subseteq {u \in [on : SUBSET Flags, off : SUBSET Flags] : u.on \cap u.off = {}}

VARIABLES
  accounts,  \* the users that have a row
  flags,     \* flags[u]: is_admin and is_active of u's row
  attempts,  \* attempts[u]: failed_login_attempts
  lock,      \* lock[u]: locked_until is null, in the future or past
  req,       \* req[s]: the request slot s runs
  begun,     \* requests begun so far
  founders,  \* users whose registration made them administrators (history)
  misses,    \* misses[u]: wrong guesses since u's last login, or the end of its lock (history)
  crossed    \* what requests overlapped on (history): see Overlaps

rowVars == <<accounts, flags, attempts, lock>>
history == <<founders, misses, crossed>>
vars == <<rowVars, req, begun, history>>

Idle == [is |-> "idle"]
Init ==
  /\ accounts = {}
  /\ flags = [u \in Users |-> {}]
  /\ attempts = [u \in Users |-> 0]
  /\ lock = [u \in Users |-> "none"]
  /\ req = [s \in Slots |-> Idle]
  /\ begun = 0
  /\ founders = {} /\ misses = [u \in Users |-> 0] /\ crossed = {}

\* Two requests overlap on the table of users if both register, on the
\* administrators if both manage accounts, on u if both are logins of u, or one
\* is and the other deletes u.
Subject(x) == CASE x.is = "idle" -> "nothing"
                [] x.is = "login" -> x.of
                [] x.is = "register" -> "users"
                [] OTHER -> "administrators"
Overlaps(x) ==
  {Subject(x)} \cap {Subject(req[s]) : s \in Slots}

Start(s, x) ==
  /\ req[s] = Idle /\ begun < MaxRequests
  /\ req' = [req EXCEPT ![s] = x]
  /\ begun' = begun + 1
  /\ crossed' = crossed \union Overlaps(x)

Goes(s, x) == req' = [req EXCEPT ![s] = x] /\ UNCHANGED <<begun, crossed>>
Ends(s) == Goes(s, Idle)

-----------------------------------------------------------------------------
(* register. *)

\* Slip: "first" is taken from the lookup of the user's own name.
RegisterReadByName(s, u) ==
  /\ u \notin accounts
  /\ Start(s, [is |-> "register", of |-> u, first |-> TRUE])
  /\ UNCHANGED <<rowVars, founders, misses>>

\* No such user yet; is this the first one?
RegisterRead(s, u) ==
  /\ u \notin accounts
  /\ Start(s, [is |-> "register", of |-> u, first |-> accounts = {}])
  /\ UNCHANGED <<rowVars, founders, misses>>

\* The insert, refused by the unique columns if the user exists by now.
RegisterCommit(s) ==
  /\ req[s].is = "register"
  /\ LET u == req[s].of
     IN  IF u \in accounts
         THEN UNCHANGED <<rowVars, founders, misses>>
         ELSE /\ accounts' = accounts \union {u}
              /\ flags' = [flags EXCEPT ![u] = IF req[s].first THEN Flags ELSE {"active"}]
              /\ attempts' = [attempts EXCEPT ![u] = 0]
              /\ lock' = [lock EXCEPT ![u] = "none"]
              /\ founders' = IF req[s].first THEN founders \union {u} ELSE founders
              /\ misses' = [misses EXCEPT ![u] = 0]
  /\ Ends(s)

-----------------------------------------------------------------------------
(* login. *)

\* The row is loaded, and a locked account refused before the password is
\* verified.
LoginLoad(s, u, right) ==
  /\ u \in accounts /\ lock[u] # "future"
  /\ Start(s, [is |-> "login", of |-> u, right |-> right,
               attempts |-> attempts[u], lock |-> lock[u], active |-> "active" \in flags[u]])
  /\ UNCHANGED <<rowVars, founders, misses>>

\* What a commit writes to a column: nothing if the value is the one loaded.
Write(column, u, loaded, value) ==
  column' = IF value = loaded THEN column ELSE [column EXCEPT ![u] = value]

\* Slip: the counter starts over without a lock.
LoginFailsForgives(s) ==
  /\ req[s].is = "login" /\ ~req[s].right
  /\ LET u == req[s].of
         count == req[s].attempts + 1
     IN  IF Limit = 0 \/ u \notin accounts
         THEN UNCHANGED <<attempts, misses>>
         ELSE /\ Write(attempts, u, req[s].attempts, IF count >= Limit THEN 0 ELSE count)
              /\ misses' = [misses EXCEPT ![u] = @ + 1]
  /\ Ends(s)
  /\ UNCHANGED <<accounts, flags, lock, founders>>

\* _register_failed_login.
LoginFails(s) ==
  /\ req[s].is = "login" /\ ~req[s].right
  /\ LET u == req[s].of
         count == req[s].attempts + 1
     IN  IF Limit = 0 \/ u \notin accounts
         THEN UNCHANGED <<attempts, lock, misses>>
         ELSE /\ Write(attempts, u, req[s].attempts, IF count >= Limit THEN 0 ELSE count)
              /\ lock' = IF count >= Limit THEN [lock EXCEPT ![u] = "future"] ELSE lock
              /\ misses' = [misses EXCEPT ![u] = @ + 1]
  /\ Ends(s)
  /\ UNCHANGED <<accounts, flags, founders>>

\* Slip: a success takes one failure back.
LoginSucceedsDecays(s) ==
  /\ req[s].is = "login" /\ req[s].right
  /\ attempts' = [attempts EXCEPT ![req[s].of] = req[s].attempts - 1]
  /\ Ends(s)
  /\ UNCHANGED <<accounts, flags, lock, founders, misses>>

\* Slip: the lock is lifted whatever the request had loaded.
LoginSucceedsUnlocks(s) ==
  /\ req[s].is = "login" /\ req[s].right
  /\ attempts' = [attempts EXCEPT ![req[s].of] = 0]
  /\ lock' = [lock EXCEPT ![req[s].of] = "none"]
  /\ misses' = [misses EXCEPT ![req[s].of] = 0]
  /\ Ends(s)
  /\ UNCHANGED <<accounts, flags, founders>>

\* _clear_failed_logins, for an account that was active.
LoginSucceeds(s) ==
  /\ req[s].is = "login" /\ req[s].right
  /\ LET u == req[s].of
     IN  IF ~req[s].active \/ u \notin accounts
         THEN UNCHANGED <<attempts, lock, misses>>
         ELSE /\ Write(attempts, u, req[s].attempts, 0)
              /\ Write(lock, u, req[s].lock, "none")
              /\ misses' = [misses EXCEPT ![u] = 0]
  /\ Ends(s)
  /\ UNCHANGED <<accounts, flags, founders>>

\* Time passes a lock's expiry.
LockElapses(u) ==
  /\ lock[u] = "future"
  /\ lock' = [lock EXCEPT ![u] = "past"]
  /\ misses' = [misses EXCEPT ![u] = 0]
  /\ UNCHANGED <<accounts, flags, attempts, req, begun, founders, crossed>>

-----------------------------------------------------------------------------
(* Administrators. *)

\* get_current_user and get_current_admin.
Authorise(s, u) ==
  /\ u \in accounts /\ flags[u] = Flags
  /\ Start(s, [is |-> "manage", by |-> u])
  /\ UNCHANGED <<rowVars, founders, misses>>

\* What a request has loaded of u's flags: its own user's row as it was authorised
\* (db.get returns the object that the session has), any other's as it is now.
Loaded(s, u) == IF u = req[s].by THEN Flags ELSE flags[u]

\* Slip: administrators may demote and deactivate themselves.
UpdateLoadUnchecked(s, u, change) ==
  /\ req[s].is = "manage" /\ u \in accounts \union {req[s].by}
  /\ Goes(s, [is |-> "update", by |-> req[s].by, of |-> u,
              on |-> change.on \ Loaded(s, u), off |-> change.off \cap Loaded(s, u)])
  /\ UNCHANGED <<rowVars, founders, misses>>

\* update_user up to its commit: the row is loaded, and the own account may
\* neither lose its rights nor be deactivated.  What is left to write are the
\* flags whose value the request changes.
UpdateLoad(s, u, change) ==
  /\ req[s].is = "manage" /\ u \in accounts \union {req[s].by}
  /\ u = req[s].by => change.off = {}
  /\ Goes(s, [is |-> "update", by |-> req[s].by, of |-> u,
              on |-> change.on \ Loaded(s, u), off |-> change.off \cap Loaded(s, u)])
  /\ UNCHANGED <<rowVars, founders, misses>>

UpdateCommit(s) ==
  /\ req[s].is = "update"
  /\ LET u == req[s].of
     IN  flags' = IF u \in accounts
                  THEN [flags EXCEPT ![u] = (@ \union req[s].on) \ req[s].off]
                  ELSE flags
  /\ Ends(s)
  /\ UNCHANGED <<accounts, attempts, lock, founders, misses>>

\* delete_user up to its commit.
DeleteLoad(s, u) ==
  /\ req[s].is = "manage" /\ u \in accounts /\ u # req[s].by
  /\ Goes(s, [is |-> "delete", by |-> req[s].by, of |-> u])
  /\ UNCHANGED <<rowVars, founders, misses>>

Trying == {u \in Users : \E s \in Slots : req[s].is = "login" /\ req[s].of = u}

DeleteCommit(s) ==
  /\ req[s].is = "delete"
  /\ accounts' = accounts \ {req[s].of}
  /\ flags' = [flags EXCEPT ![req[s].of] = {}]
  /\ attempts' = [attempts EXCEPT ![req[s].of] = 0]
  /\ lock' = [lock EXCEPT ![req[s].of] = "none"]
  /\ misses' = [misses EXCEPT ![req[s].of] = 0]
  /\ req' = [req EXCEPT ![s] = Idle]
  /\ crossed' = crossed \union ({req[s].of} \cap Trying)
  /\ UNCHANGED <<begun, founders>>

\* 404, or the own account.
ManageRefused(s) ==
  /\ req[s].is = "manage"
  /\ Ends(s)
  /\ UNCHANGED <<rowVars, founders, misses>>

Next ==
  \/ \E s \in Slots :
       \/ \E u \in Users : \/ RegisterRead(s, u) \/ Authorise(s, u) \/ DeleteLoad(s, u)
                           \/ \E right \in BOOLEAN : LoginLoad(s, u, right)
                           \/ \E change \in Updates : UpdateLoad(s, u, change)
       \/ RegisterCommit(s) \/ LoginFails(s) \/ LoginSucceeds(s)
       \/ UpdateCommit(s) \/ DeleteCommit(s) \/ ManageRefused(s)
  \/ \E u \in Users : LockElapses(u)

Spec == Init /\ [][Next]_vars

-----------------------------------------------------------------------------
(* Properties. *)

Admins == {u \in accounts : flags[u] = Flags}

Registering == [is : {"register"}, of : Users, first : BOOLEAN]
LoggingIn == [is : {"login"}, of : Users, right : BOOLEAN, attempts : Nat,
              lock : {"none", "past"}, active : BOOLEAN]
Managing ==
  [is : {"manage"}, by : Users] \union [is : {"delete"}, by : Users, of : Users]
    \union [is : {"update"}, by : Users, of : Users, on : SUBSET Flags, off : SUBSET Flags]
Requests == {Idle} \union Registering \union LoggingIn \union Managing

TypeOK ==
  /\ accounts \subseteq Users
  /\ flags \in [Users -> SUBSET Flags]
  /\ attempts \in [Users -> Nat]
  /\ lock \in [Users -> {"none", "future", "past"}]
  /\ req \in [Slots -> Requests]
  /\ founders \subseteq Users
  /\ misses \in [Users -> Nat]
  /\ crossed \subseteq Users \union {"users", "administrators"}

\* An instance with accounts always keeps an active administrator -- as long
\* as no two requests of administrators overlapped: of two that demote,
\* deactivate or delete each other at once, neither may remain.
AnAdminRemains == accounts # {} /\ "administrators" \notin crossed => Admins # {}

\* Only one account is ever made an administrator by registering -- as long
\* as no two registrations overlapped, and the administrators did not delete
\* each other at once.
OneFounder ==
  crossed \cap {"users", "administrators"} = {} => Cardinality(founders) <= 1

\* While logins of a user do not overlap, the user is locked exactly when Limit guesses
\* have been wrong since the last login or the end of the last lock, neither earlier nor
\* later; until then the row counts each of them.  Whatever else is registered, changed
\* and deleted meanwhile; what guesses that overlap cost is not bounded by this.
SerialGuessesAreCounted ==
  \A u \in accounts \ crossed : Limit > 0 =>
    /\ misses[u] <= Limit
    /\ lock[u] = "future" <=> misses[u] = Limit
    /\ attempts[u] = IF lock[u] = "future" THEN 0 ELSE misses[u]

\* A lock in force is ended by time alone -- or by a right password that had
\* been accepted for verification before the lock was set, by a request that
\* found an older lock elapsed.
LocksHold ==
  [][\A u \in Users : lock[u] = "future" /\ u \in accounts' /\ lock'[u] = "none" =>
       \E s \in Slots : /\ req[s].is = "login" /\ req[s].of = u
                        /\ req[s].right /\ req[s].lock = "past"]_vars
=============================================================================
