--------------------------- MODULE AccountsProofs ---------------------------
(***************************************************************************)
(* An administrator remains, one account founds the instance, guesses made *)
(* one after the other are counted exactly and locks hold: for any users,  *)
(* number of requests at once, limit and changes.                          *)
(***************************************************************************)
EXTENDS Accounts, FiniteSetTheorems, TLAPS

Is(s, kind) == req[s].is = kind
Manages(s) == req[s].is \in {"manage", "update", "delete"}

\* What a request has loaded and checked before it commits.
Checked ==
  \A s \in Slots :
    /\ Is(s, "delete") => req[s].of # req[s].by
    /\ Is(s, "update") /\ req[s].of = req[s].by => req[s].off = {}

\* Administrators that do not overlap: one request at a time, whose user has
\* the rights it was let in with until it commits.
OneManager ==
  "administrators" \notin crossed =>
    /\ \A s, t \in Slots : Manages(s) /\ Manages(t) => s = t
    /\ \A s \in Slots : Manages(s) => req[s].by \in Admins
    /\ accounts # {} => Admins # {}
    /\ accounts = {} => \A s \in Slots : Is(s, "register") => req[s].first

\* Registrations that do not overlap either: the first finds no account, and
\* from then on there is one.
OneRegistration ==
  crossed \cap {"users", "administrators"} = {} =>
    /\ \A s, t \in Slots : Is(s, "register") /\ Is(t, "register") => s = t
    /\ \A s \in Slots : Is(s, "register") /\ req[s].first => accounts = {}
    /\ accounts = {} => founders = {}
    /\ \A u, v \in founders : u = v

\* The counter and the lock tell the wrong guesses since the last login or lock's end.
Counted(a, m, l) ==
  /\ m <= Limit
  /\ l = "future" <=> m = Limit
  /\ a = IF l = "future" THEN 0 ELSE m

\* Logins of one user that do not overlap: the row is as it was loaded, without a lock.
OneLogin(u) ==
  u \notin crossed =>
    /\ \A s, t \in Slots : Is(s, "login") /\ Is(t, "login") /\ req[s].of = u /\ req[t].of = u => s = t
    /\ \A s \in Slots : Is(s, "login") /\ req[s].of = u =>
                          u \in accounts /\ lock[u] # "future" /\ req[s].attempts = attempts[u]
    /\ u \in accounts /\ Limit > 0 => Counted(attempts[u], misses[u], lock[u])

NoStaleLocks == \A u \in Users \ accounts : lock[u] = "none"

IInv ==
  /\ TypeOK /\ Checked /\ OneManager /\ OneRegistration
  /\ \A u \in Users : OneLogin(u)
  /\ NoStaleLocks

-----------------------------------------------------------------------------
(* Requests. *)

LEMMA RequestKinds ==
  ASSUME NEW r \in Requests
  PROVE  /\ r.is = "register" => r \in Registering
         /\ r.is = "login" => r \in LoggingIn
         /\ r.is \in {"manage", "update", "delete"} => r \in Managing
         /\ r.is \in {"idle", "register", "login", "manage", "update", "delete"}
<1>1. CASE r = Idle
  BY <1>1 DEF Idle
<1>2. CASE r \in Registering
  BY <1>2 DEF Registering
<1>3. CASE r \in LoggingIn
  BY <1>3 DEF LoggingIn
<1>4. CASE r \in Managing
  BY <1>4 DEF Managing
<1> QED
  BY <1>1, <1>2, <1>3, <1>4 DEF Requests

LEMMA RequestFields ==
  ASSUME NEW r \in Requests
  PROVE  /\ r.is = "register" => r.of \in Users /\ r.first \in BOOLEAN
         /\ r.is = "login" => /\ r.of \in Users /\ r.right \in BOOLEAN /\ r.attempts \in Nat
                              /\ r.lock \in {"none", "past"} /\ r.active \in BOOLEAN
         /\ r.is \in {"manage", "update", "delete"} => r.by \in Users
         /\ r.is \in {"update", "delete"} => r.of \in Users
         /\ r.is = "update" => r.on \in SUBSET Flags /\ r.off \in SUBSET Flags
<1>1. r.is = "register" => r.of \in Users /\ r.first \in BOOLEAN
  BY RequestKinds DEF Registering
<1>2. r.is = "login" => /\ r.of \in Users /\ r.right \in BOOLEAN /\ r.attempts \in Nat
                        /\ r.lock \in {"none", "past"} /\ r.active \in BOOLEAN
  BY RequestKinds DEF LoggingIn
<1>3. r.is \in {"manage", "update", "delete"} => r.by \in Users
  BY RequestKinds DEF Managing
<1>4. r.is \in {"update", "delete"} => r.of \in Users
  BY RequestKinds DEF Managing
<1>5. r.is = "update" => r.on \in SUBSET Flags /\ r.off \in SUBSET Flags
  BY RequestKinds DEF Managing
<1> QED
  BY <1>1, <1>2, <1>3, <1>4, <1>5

LEMMA Subjects ==
  ASSUME NEW r \in Requests
  PROVE  /\ r.is = "register" => Subject(r) = "users"
         /\ r.is = "login" => Subject(r) = r.of
         /\ r.is \in {"manage", "update", "delete"} => Subject(r) = "administrators"
  BY DEF Subject

\* A request that begins while another of the same subject is under way.
LEMMA BeginningCrosses ==
  ASSUME NEW s \in Slots, NEW x, Start(s, x), NEW t \in Slots, Subject(req[t]) = Subject(x)
  PROVE  Subject(x) \in crossed'
  BY DEF Start, Overlaps

LEMMA InitIInv == Init => IInv
<1> SUFFICES ASSUME Init PROVE IInv
  OBVIOUS
<1> USE DEF Init, Idle
<1>1. TypeOK
  BY DEF TypeOK, Requests, Flags
<1>2. Checked /\ NoStaleLocks
  BY DEF Checked, Is, NoStaleLocks
<1>3. OneManager /\ OneRegistration
  BY DEF OneManager, OneRegistration, Manages, Is, Admins
<1>4. ASSUME NEW u \in Users PROVE OneLogin(u)
  BY DEF OneLogin, Is, Counted
<1> QED
  BY <1>1, <1>2, <1>3, <1>4 DEF IInv

\* A request begins, and keeps what it has found.
LEMMA Begins ==
  ASSUME IInv, NEW s \in Slots, NEW x \in Requests, Start(s, x),
         x.is \in {"register", "login", "manage"},
         x.is = "register" => x.first = (accounts = {}),
         x.is = "login" => x.of \in accounts /\ lock[x.of] # "future" /\ x.attempts = attempts[x.of],
         x.is = "manage" => x.by \in Admins,
         UNCHANGED <<rowVars, founders, misses>>
  PROVE  IInv'
<1> USE DEF IInv
<1>a. /\ TypeOK /\ UNCHANGED <<accounts, flags, attempts, lock, founders, misses>>
      /\ crossed \subseteq crossed' /\ req[s].is = "idle"
  BY DEF rowVars, Start, Idle
<1>b. \A t \in Slots : req'[t] = IF t = s THEN x ELSE req[t]
  BY <1>a DEF TypeOK, Start
<1>c. \A t \in Slots : req[t] \in Requests /\ req'[t] \in Requests
  BY <1>a, <1>b DEF TypeOK
<1>1. TypeOK'
  <2>1. Subject(x) \in Users \union {"users", "administrators"}
    BY Subjects, RequestFields
  <2>2. Overlaps(x) \subseteq {Subject(x)}
    BY DEF Overlaps
  <2>3. crossed' \subseteq Users \union {"users", "administrators"}
    BY <1>a, <2>1, <2>2 DEF Start, TypeOK
  <2>4. req' \in [Slots -> Requests]
    BY <1>a DEF Start, TypeOK
  <2> QED
    BY <1>a, <2>3, <2>4 DEF TypeOK
<1>2. (Checked /\ NoStaleLocks)'
  BY <1>a, <1>b DEF Checked, NoStaleLocks, Is
<1>3. OneManager'
  <2> SUFFICES ASSUME "administrators" \notin crossed'
               PROVE  /\ \A t, v \in Slots : Manages(t)' /\ Manages(v)' => t = v
                      /\ \A t \in Slots : Manages(t)' => req'[t].by \in Admins
                      /\ accounts # {} => Admins # {}
                      /\ accounts = {} => \A t \in Slots : Is(t, "register")' => req'[t].first
    BY <1>a DEF OneManager, Admins
  <2>1. "administrators" \notin crossed
    BY <1>a
  <2>2. x.is = "manage" => \A t \in Slots : ~Manages(t)
    BY <1>c, Subjects, BeginningCrosses DEF Manages
  <2>3. \A t, v \in Slots : Manages(t)' /\ Manages(v)' => t = v
    BY <1>b, <2>1, <2>2 DEF Manages, OneManager
  <2>4. \A t \in Slots : Manages(t)' => req'[t].by \in Admins
    BY <1>b, <2>1 DEF Manages, OneManager
  <2> QED
    BY <1>b, <2>1, <2>3, <2>4 DEF OneManager, Is
<1>4. OneRegistration'
  <2> SUFFICES ASSUME crossed' \cap {"users", "administrators"} = {}
               PROVE  /\ \A t, v \in Slots : Is(t, "register")' /\ Is(v, "register")' => t = v
                      /\ \A t \in Slots : Is(t, "register")' /\ req'[t].first => accounts = {}
                      /\ accounts = {} => founders = {}
                      /\ \A u, v \in founders : u = v
    BY <1>a DEF OneRegistration
  <2>1. crossed \cap {"users", "administrators"} = {}
    BY <1>a
  <2>2. x.is = "register" => \A t \in Slots : ~Is(t, "register")
    BY <1>c, Subjects, BeginningCrosses DEF Is
  <2>3. \A t, v \in Slots : Is(t, "register")' /\ Is(v, "register")' => t = v
    BY <1>b, <2>1, <2>2 DEF Is, OneRegistration
  <2> QED
    BY <1>b, <2>1, <2>3 DEF OneRegistration, Is
<1>5. ASSUME NEW u \in Users PROVE OneLogin(u)'
  <2> SUFFICES ASSUME u \notin crossed'
               PROVE  /\ \A t, v \in Slots : Is(t, "login")' /\ Is(v, "login")' /\ req'[t].of = u
                                               /\ req'[v].of = u => t = v
                      /\ \A t \in Slots : Is(t, "login")' /\ req'[t].of = u =>
                           u \in accounts /\ lock[u] # "future" /\ req'[t].attempts = attempts[u]
                      /\ u \in accounts /\ Limit > 0 => Counted(attempts[u], misses[u], lock[u])
    BY <1>a DEF OneLogin, Counted
  <2>1. u \notin crossed
    BY <1>a
  <2>2. x.is = "login" /\ x.of = u => \A t \in Slots : ~(Is(t, "login") /\ req[t].of = u)
    BY <1>c, Subjects, BeginningCrosses DEF Is
  <2>3. \A t, v \in Slots : Is(t, "login")' /\ Is(v, "login")' /\ req'[t].of = u /\ req'[v].of = u => t = v
    BY <1>b, <2>1, <2>2 DEF Is, OneLogin
  <2> QED
    BY <1>b, <2>1, <2>3 DEF OneLogin, Is, Counted
<1> QED
  BY <1>1, <1>2, <1>3, <1>4, <1>5

\* An administrator's request goes on to its next step, or is refused.
LEMMA GoesOn ==
  ASSUME IInv, NEW s \in Slots, NEW x \in Requests, Goes(s, x), Is(s, "manage"),
         x.is \in {"update", "delete", "idle"},
         x.is \in {"update", "delete"} => x.by = req[s].by,
         x.is = "delete" => x.of # x.by,
         x.is = "update" /\ x.of = x.by => x.off = {},
         UNCHANGED <<rowVars, founders, misses>>
  PROVE  IInv'
<1> USE DEF IInv
<1>a. TypeOK /\ UNCHANGED <<accounts, flags, attempts, lock, founders, misses, crossed>>
  BY DEF rowVars, Goes
<1>b. \A t \in Slots : req'[t] = IF t = s THEN x ELSE req[t]
  BY <1>a DEF TypeOK, Goes
<1>1. TypeOK'
  BY <1>a DEF TypeOK, Goes
<1>2. (Checked /\ NoStaleLocks)'
  BY <1>a, <1>b DEF Checked, NoStaleLocks, Is
<1>3. OneManager'
  BY <1>a, <1>b DEF OneManager, Admins, Manages, Is
<1>4. OneRegistration'
  BY <1>a, <1>b DEF OneRegistration, Is
<1>5. ASSUME NEW u \in Users PROVE OneLogin(u)'
  BY <1>a, <1>b DEF OneLogin, Is, Counted
<1> QED
  BY <1>1, <1>2, <1>3, <1>4, <1>5

-----------------------------------------------------------------------------
(* Commits. *)

LEMMA Registers ==
  ASSUME IInv, NEW s \in Slots, RegisterCommit(s)
  PROVE  IInv'
<1> DEFINE u == req[s].of
<1> USE DEF IInv
<1>a. TypeOK /\ Is(s, "register") /\ crossed' = crossed
  BY DEF RegisterCommit, Ends, Goes, Is
<1>b. \A t \in Slots : req'[t] = IF t = s THEN Idle ELSE req[t]
  BY <1>a DEF RegisterCommit, Ends, Goes, TypeOK
<1>c. u \in Users /\ req[s].first \in BOOLEAN
  BY <1>a, RequestFields DEF TypeOK, Is
<1>d. \A t \in Slots : req'[t].is # "idle" => t # s /\ req'[t] = req[t]
  BY <1>b DEF Idle
<1>e. req' \in [Slots -> Requests]
  BY <1>a DEF RegisterCommit, Ends, Goes, TypeOK, Requests
<1>1. CASE u \in accounts
  <2>1. UNCHANGED <<accounts, flags, attempts, lock, founders, misses>>
    BY <1>1 DEF RegisterCommit, rowVars
  <2>2. TypeOK'
    BY <1>a, <1>e, <2>1 DEF TypeOK
  <2>3. (Checked /\ NoStaleLocks)'
    BY <1>d, <2>1 DEF Checked, NoStaleLocks, Is
  <2>4. OneManager'
    BY <1>a, <1>d, <2>1 DEF OneManager, Admins, Manages, Is
  <2>5. OneRegistration'
    BY <1>a, <1>d, <2>1 DEF OneRegistration, Is
  <2>6. ASSUME NEW v \in Users PROVE OneLogin(v)'
    BY <1>a, <1>d, <2>1 DEF OneLogin, Is, Counted
  <2> QED
    BY <2>2, <2>3, <2>4, <2>5, <2>6
<1>2. CASE u \notin accounts
  <2> DEFINE given == IF req[s].first THEN Flags ELSE {"active"}
  <2>1. /\ accounts' = accounts \union {u}
        /\ flags' = [flags EXCEPT ![u] = given]
        /\ attempts' = [attempts EXCEPT ![u] = 0]
        /\ lock' = [lock EXCEPT ![u] = "none"]
        /\ misses' = [misses EXCEPT ![u] = 0]
        /\ founders' = IF req[s].first THEN founders \union {u} ELSE founders
    BY <1>2 DEF RegisterCommit
  <2>a. given \in SUBSET Flags
    BY DEF Flags
  <2>2. TypeOK'
    <3>1. accounts' \subseteq Users /\ founders' \subseteq Users
      BY <1>a, <1>c, <2>1 DEF TypeOK
    <3>2. flags' \in [Users -> SUBSET Flags]
      BY <1>a, <2>1, <2>a DEF TypeOK
    <3>3. attempts' \in [Users -> Nat] /\ misses' \in [Users -> Nat]
      BY <1>a, <2>1 DEF TypeOK
    <3>4. lock' \in [Users -> {"none", "future", "past"}]
      BY <1>a, <2>1 DEF TypeOK
    <3> QED
      BY <1>a, <1>e, <3>1, <3>2, <3>3, <3>4 DEF TypeOK
  <2>3. Checked'
    BY <1>d DEF Checked, Is
  <2>4. NoStaleLocks'
    BY <1>a, <2>1 DEF NoStaleLocks, TypeOK
  <2>5. OneManager'
    <3> SUFFICES ASSUME "administrators" \notin crossed
                 PROVE  /\ \A t, v \in Slots : Manages(t)' /\ Manages(v)' => t = v
                        /\ \A t \in Slots : Manages(t)' => req'[t].by \in Admins'
                        /\ Admins' # {}
      BY <1>a, <2>1 DEF OneManager
    <3>1. Admins \subseteq Admins'
      BY <1>a, <1>2, <2>1 DEF Admins, TypeOK
    <3>2. \A t, v \in Slots : Manages(t)' /\ Manages(v)' => t = v
      BY <1>d DEF OneManager, Manages
    <3>3. \A t \in Slots : Manages(t)' => req'[t].by \in Admins'
      BY <1>d, <3>1 DEF OneManager, Manages
    <3>4. accounts # {} => Admins' # {}
      BY <3>1 DEF OneManager
    <3>5. ASSUME accounts = {} PROVE Admins' # {}
      <4>1. req[s].first
        BY <1>a, <3>5 DEF OneManager
      <4>2. u \in Admins'
        BY <1>a, <1>c, <2>1, <4>1 DEF Admins, TypeOK
      <4> QED
        BY <4>2
    <3> QED
      BY <3>2, <3>3, <3>4, <3>5
  <2>6. OneRegistration'
    <3> SUFFICES ASSUME crossed \cap {"users", "administrators"} = {}
                 PROVE  /\ \A t, v \in Slots : Is(t, "register")' /\ Is(v, "register")' => t = v
                        /\ \A t \in Slots : Is(t, "register")' /\ req'[t].first => accounts' = {}
                        /\ accounts' = {} => founders' = {}
                        /\ \A v, w \in founders' : v = w
      BY <1>a DEF OneRegistration
    <3>1. \A t \in Slots : ~Is(t, "register")'
      BY <1>a, <1>d DEF OneRegistration, Is
    <3>2. \A v, w \in founders' : v = w
      BY <1>a, <2>1 DEF OneRegistration
    <3> QED
      BY <2>1, <3>1, <3>2
  <2>7. ASSUME NEW v \in Users PROVE OneLogin(v)'
    <3>1. CASE v = u
      <4>1. v \notin crossed => \A t \in Slots : ~(Is(t, "login") /\ req[t].of = v)
        BY <1>2, <3>1 DEF OneLogin
      <4>2. attempts'[v] = 0 /\ misses'[v] = 0 /\ lock'[v] = "none"
        BY <1>a, <1>c, <2>1, <3>1 DEF TypeOK
      <4>3. v \notin crossed' => \A t \in Slots : ~(Is(t, "login")' /\ req'[t].of = v)
        BY <1>a, <1>d, <4>1 DEF Is
      <4>4. Limit \in Nat
        BY AccountsAssumption
      <4> QED
        BY <4>2, <4>3, <4>4 DEF OneLogin, Counted
    <3>2. CASE v # u
      <4>1. /\ attempts'[v] = attempts[v] /\ misses'[v] = misses[v] /\ lock'[v] = lock[v]
            /\ v \in accounts' <=> v \in accounts
        BY <1>a, <2>1, <3>2 DEF TypeOK
      <4> QED
        BY <1>a, <1>d, <4>1 DEF OneLogin, Is, Counted
    <3> QED
      BY <3>1, <3>2
  <2> QED
    BY <2>2, <2>3, <2>4, <2>5, <2>6, <2>7
<1> QED
  BY <1>1, <1>2

\* The end of a login changes the counter, the lock and the guesses of its user.
LEMMA LoginEnds ==
  ASSUME IInv, NEW s \in Slots, Is(s, "login"), Ends(s),
         NEW a \in Nat, NEW m \in Nat, NEW l \in {"none", "future", "past"},
         attempts' = [attempts EXCEPT ![req[s].of] = a],
         misses' = [misses EXCEPT ![req[s].of] = m],
         lock' = [lock EXCEPT ![req[s].of] = l],
         req[s].of \notin crossed /\ req[s].of \in accounts /\ Limit > 0 => Counted(a, m, l),
         req[s].of \notin accounts => l = "none",
         UNCHANGED <<accounts, flags, founders>>
  PROVE  IInv'
<1> DEFINE u == req[s].of
<1> USE DEF IInv
<1>a. TypeOK /\ crossed' = crossed
  BY DEF Ends, Goes
<1>b. \A t \in Slots : req'[t] = IF t = s THEN Idle ELSE req[t]
  BY <1>a DEF Ends, Goes, TypeOK
<1>c. u \in Users
  BY <1>a, RequestFields DEF TypeOK, Is
<1>d. \A t \in Slots : req'[t].is # "idle" => t # s /\ req'[t] = req[t]
  BY <1>b DEF Idle
<1>1. TypeOK'
  <2>1. req' \in [Slots -> Requests]
    BY <1>a DEF Ends, Goes, TypeOK, Requests
  <2>2. attempts' \in [Users -> Nat] /\ misses' \in [Users -> Nat]
    BY <1>a DEF TypeOK
  <2>3. lock' \in [Users -> {"none", "future", "past"}]
    BY <1>a DEF TypeOK
  <2> QED
    BY <1>a, <2>1, <2>2, <2>3 DEF TypeOK
<1>2. Checked'
  BY <1>d DEF Checked, Is
<1>3. NoStaleLocks'
  BY <1>a DEF NoStaleLocks, TypeOK
<1>4. OneManager'
  BY <1>a, <1>d DEF OneManager, Admins, Manages, Is
<1>5. OneRegistration'
  BY <1>a, <1>d DEF OneRegistration, Is
<1>6. ASSUME NEW v \in Users PROVE OneLogin(v)'
  <2>1. CASE v = u
    <3>1. v \notin crossed => \A t \in Slots : ~(Is(t, "login")' /\ req'[t].of = v)
      BY <1>d, <2>1 DEF OneLogin, Is, Counted
    <3>2. attempts'[v] = a /\ misses'[v] = m /\ lock'[v] = l
      BY <1>a, <1>c, <2>1 DEF TypeOK
    <3> QED
      BY <1>a, <2>1, <3>1, <3>2 DEF OneLogin, Counted
  <2>2. CASE v # u
    <3>1. attempts'[v] = attempts[v] /\ misses'[v] = misses[v] /\ lock'[v] = lock[v]
      BY <1>a, <2>2 DEF TypeOK
    <3> QED
      BY <1>a, <1>d, <3>1 DEF OneLogin, Is, Counted
  <2> QED
    BY <2>1, <2>2
<1> QED
  BY <1>1, <1>2, <1>3, <1>4, <1>5, <1>6

LEMMA Fails ==
  ASSUME IInv, NEW s \in Slots, LoginFails(s)
  PROVE  IInv'
<1> DEFINE u == req[s].of
           count == req[s].attempts + 1
           left == IF count >= Limit THEN 0 ELSE count
           skips == Limit = 0 \/ u \notin accounts
           a == IF skips \/ left = req[s].attempts THEN attempts[u] ELSE left
           m == IF skips THEN misses[u] ELSE misses[u] + 1
           l == IF ~skips /\ count >= Limit THEN "future" ELSE lock[u]
<1> USE DEF IInv
<1>a. TypeOK /\ Is(s, "login") /\ Ends(s) /\ UNCHANGED <<accounts, flags, founders>> /\ Limit \in Nat
  BY AccountsAssumption DEF LoginFails, Is
<1>b. u \in Users /\ req[s].attempts \in Nat
  BY <1>a, RequestFields DEF TypeOK, Is
<1>c. attempts[u] \in Nat /\ misses[u] \in Nat /\ lock[u] \in {"none", "future", "past"}
  BY <1>a, <1>b DEF TypeOK
<1>d. a \in Nat /\ m \in Nat /\ l \in {"none", "future", "past"}
  BY <1>b, <1>c
<1>e. attempts \in [Users -> Nat] /\ misses \in [Users -> Nat] /\ lock \in [Users -> {"none", "future", "past"}]
  BY <1>a DEF TypeOK
<1>1. attempts' = [attempts EXCEPT ![u] = a]
  <2>1. CASE skips
    BY <1>b, <1>e, <2>1 DEF LoginFails
  <2>2. CASE ~skips
    BY <1>b, <1>e, <2>2 DEF LoginFails, Write
  <2> QED
    BY <2>1, <2>2
<1>2. misses' = [misses EXCEPT ![u] = m]
  <2>1. CASE skips
    BY <1>b, <1>e, <2>1 DEF LoginFails
  <2>2. CASE ~skips
    BY <1>b, <1>e, <2>2 DEF LoginFails
  <2> QED
    BY <2>1, <2>2
<1>3. lock' = [lock EXCEPT ![u] = l]
  <2>1. CASE skips
    BY <1>b, <1>e, <2>1 DEF LoginFails
  <2>2. CASE ~skips
    BY <1>b, <1>e, <2>2 DEF LoginFails
  <2> QED
    BY <2>1, <2>2
<1>4. ASSUME u \notin crossed, u \in accounts, Limit > 0 PROVE Counted(a, m, l)
  <2>1. /\ req[s].attempts = attempts[u] /\ attempts[u] = misses[u] /\ misses[u] < Limit
        /\ lock[u] # "future"
    BY <1>a, <1>b, <1>c, <1>4 DEF OneLogin, Counted
  <2> QED
    BY <1>a, <1>b, <1>c, <1>4, <2>1 DEF Counted
<1>5. u \notin accounts => l = "none"
  BY <1>b DEF NoStaleLocks
<1> HIDE DEF a, m, l
<1> QED
  BY <1>a, <1>d, <1>1, <1>2, <1>3, <1>4, <1>5, LoginEnds

LEMMA Succeeds ==
  ASSUME IInv, NEW s \in Slots, LoginSucceeds(s)
  PROVE  IInv'
<1> DEFINE u == req[s].of
           skips == ~req[s].active \/ u \notin accounts
           a == IF skips \/ 0 = req[s].attempts THEN attempts[u] ELSE 0
           m == IF skips THEN misses[u] ELSE 0
           l == IF skips \/ "none" = req[s].lock THEN lock[u] ELSE "none"
<1> USE DEF IInv
<1>a. TypeOK /\ Is(s, "login") /\ Ends(s) /\ UNCHANGED <<accounts, flags, founders>> /\ Limit \in Nat
  BY AccountsAssumption DEF LoginSucceeds, Is
<1>b. u \in Users /\ req[s].attempts \in Nat
  BY <1>a, RequestFields DEF TypeOK, Is
<1>c. attempts[u] \in Nat /\ misses[u] \in Nat /\ lock[u] \in {"none", "future", "past"}
  BY <1>a, <1>b DEF TypeOK
<1>d. a \in Nat /\ m \in Nat /\ l \in {"none", "future", "past"}
  BY <1>b, <1>c
<1>e. attempts \in [Users -> Nat] /\ misses \in [Users -> Nat] /\ lock \in [Users -> {"none", "future", "past"}]
  BY <1>a DEF TypeOK
<1>1. attempts' = [attempts EXCEPT ![u] = a]
  <2>1. CASE skips
    BY <1>b, <1>e, <2>1 DEF LoginSucceeds
  <2>2. CASE ~skips
    BY <1>b, <1>e, <2>2 DEF LoginSucceeds, Write
  <2> QED
    BY <2>1, <2>2
<1>2. misses' = [misses EXCEPT ![u] = m]
  <2>1. CASE skips
    BY <1>b, <1>e, <2>1 DEF LoginSucceeds
  <2>2. CASE ~skips
    BY <1>b, <1>e, <2>2 DEF LoginSucceeds
  <2> QED
    BY <2>1, <2>2
<1>3. lock' = [lock EXCEPT ![u] = l]
  <2>1. CASE skips
    BY <1>b, <1>e, <2>1 DEF LoginSucceeds
  <2>2. CASE ~skips
    BY <1>b, <1>e, <2>2 DEF LoginSucceeds, Write
  <2> QED
    BY <2>1, <2>2
<1>4. ASSUME u \notin crossed, u \in accounts, Limit > 0 PROVE Counted(a, m, l)
  <2>1. /\ req[s].attempts = attempts[u] /\ attempts[u] = misses[u] /\ misses[u] < Limit
        /\ lock[u] # "future"
    BY <1>a, <1>b, <1>c, <1>4 DEF OneLogin, Counted
  <2> QED
    BY <1>a, <1>b, <1>c, <1>4, <2>1 DEF Counted
<1>5. u \notin accounts => l = "none"
  BY <1>b DEF NoStaleLocks
<1> HIDE DEF a, m, l
<1> QED
  BY <1>a, <1>d, <1>1, <1>2, <1>3, <1>4, <1>5, LoginEnds

LEMMA Elapses ==
  ASSUME IInv, NEW u \in Users, LockElapses(u)
  PROVE  IInv'
<1> USE DEF IInv
<1>a. /\ TypeOK /\ UNCHANGED <<accounts, flags, attempts, req, founders, crossed>>
      /\ lock[u] = "future" /\ lock' = [lock EXCEPT ![u] = "past"]
      /\ misses' = [misses EXCEPT ![u] = 0]
  BY DEF LockElapses
<1>1. TypeOK'
  BY <1>a DEF TypeOK
<1>2. (Checked /\ OneManager /\ OneRegistration)'
  BY <1>a DEF Checked, OneManager, OneRegistration, Is, Manages, Admins
<1>3. NoStaleLocks'
  BY <1>a DEF NoStaleLocks, TypeOK
<1>4. ASSUME NEW v \in Users PROVE OneLogin(v)'
  <2>1. CASE v = u
    <3>1. lock'[v] = "past" /\ misses'[v] = 0
      BY <1>a, <2>1 DEF TypeOK
    <3> QED
      BY <1>a, <2>1, <3>1, AccountsAssumption DEF OneLogin, Is, Counted
  <2>2. CASE v # u
    <3>1. lock'[v] = lock[v] /\ misses'[v] = misses[v]
      BY <1>a, <2>2 DEF TypeOK
    <3> QED
      BY <1>a, <3>1 DEF OneLogin, Is, Counted
  <2> QED
    BY <2>1, <2>2
<1> QED
  BY <1>1, <1>2, <1>3, <1>4

\* An administrator stays one, or the change is the only request of its kind and
\* its author stays one.
LEMMA Changes ==
  ASSUME IInv, NEW s \in Slots, UpdateCommit(s)
  PROVE  IInv'
<1> DEFINE u == req[s].of
<1> USE DEF IInv
<1>a. /\ TypeOK /\ Is(s, "update") /\ crossed' = crossed
      /\ UNCHANGED <<accounts, attempts, lock, founders, misses>>
  BY DEF UpdateCommit, Ends, Goes, Is
<1>b. \A t \in Slots : req'[t] = IF t = s THEN Idle ELSE req[t]
  BY <1>a DEF UpdateCommit, Ends, Goes, TypeOK
<1>c. u \in Users /\ req[s].by \in Users /\ req[s].on \in SUBSET Flags /\ req[s].off \in SUBSET Flags
  BY <1>a, RequestFields DEF TypeOK, Is
<1>d. \A t \in Slots : req'[t].is # "idle" => t # s /\ req'[t] = req[t]
  BY <1>b DEF Idle
<1>e. flags' = IF u \in accounts THEN [flags EXCEPT ![u] = (flags[u] \union req[s].on) \ req[s].off] ELSE flags
  BY <1>a DEF UpdateCommit, TypeOK
<1>1. TypeOK'
  <2>1. req' \in [Slots -> Requests]
    BY <1>a DEF UpdateCommit, Ends, Goes, TypeOK, Requests
  <2>2. flags' \in [Users -> SUBSET Flags]
    BY <1>a, <1>c, <1>e DEF TypeOK
  <2> QED
    BY <1>a, <2>1, <2>2 DEF TypeOK
<1>2. (Checked /\ NoStaleLocks)'
  BY <1>a, <1>d DEF Checked, NoStaleLocks, Is
<1>3. OneManager'
  <2> SUFFICES ASSUME "administrators" \notin crossed
               PROVE  /\ \A t \in Slots : ~Manages(t)'
                      /\ accounts # {} /\ Admins' # {}
    BY <1>a DEF OneManager
  <2>1. \A t \in Slots : ~Manages(t)'
    BY <1>a, <1>d DEF OneManager, Manages, Is
  <2>2. req[s].by \in accounts /\ flags[req[s].by] = Flags
    BY <1>a DEF OneManager, Manages, Is, Admins
  <2>3. req[s].by = u => req[s].off = {}
    BY <1>a DEF Checked
  <2>4. flags'[req[s].by] = Flags
    <3>1. CASE req[s].by = u
      <4>1. flags'[u] = (Flags \union req[s].on) \ {}
        BY <1>a, <1>c, <1>e, <2>2, <2>3, <3>1 DEF TypeOK
      <4>2. (Flags \union req[s].on) \ {} = Flags
        BY <1>c
      <4> QED
        BY <3>1, <4>1, <4>2
    <3>2. CASE req[s].by # u
      BY <1>a, <1>c, <1>e, <2>2, <3>2 DEF TypeOK
    <3> QED
      BY <3>1, <3>2
  <2> QED
    BY <1>a, <2>1, <2>2, <2>4 DEF Admins
<1>4. OneRegistration'
  BY <1>a, <1>d DEF OneRegistration, Is
<1>5. ASSUME NEW v \in Users PROVE OneLogin(v)'
  BY <1>a, <1>d DEF OneLogin, Is, Counted
<1> QED
  BY <1>1, <1>2, <1>3, <1>4, <1>5

LEMMA Deletes ==
  ASSUME IInv, NEW s \in Slots, DeleteCommit(s)
  PROVE  IInv'
<1> DEFINE u == req[s].of
<1> USE DEF IInv
<1>a. /\ TypeOK /\ Is(s, "delete") /\ founders' = founders
      /\ accounts' = accounts \ {u}
      /\ flags' = [flags EXCEPT ![u] = {}]
      /\ attempts' = [attempts EXCEPT ![u] = 0]
      /\ lock' = [lock EXCEPT ![u] = "none"]
      /\ misses' = [misses EXCEPT ![u] = 0]
      /\ req' = [req EXCEPT ![s] = Idle]
      /\ crossed' = crossed \union ({u} \cap Trying)
  BY DEF DeleteCommit, Is
<1>b. \A t \in Slots : req'[t] = IF t = s THEN Idle ELSE req[t]
  BY <1>a DEF TypeOK
<1>c. u \in Users /\ req[s].by \in Users
  BY <1>a, RequestFields DEF TypeOK, Is
<1>d. \A t \in Slots : req'[t].is # "idle" => t # s /\ req'[t] = req[t]
  BY <1>b DEF Idle
<1>1. TypeOK'
  <2>1. req' \in [Slots -> Requests]
    BY <1>a DEF TypeOK, Requests
  <2>2. flags' \in [Users -> SUBSET Flags]
    BY <1>a DEF TypeOK
  <2>3. attempts' \in [Users -> Nat] /\ misses' \in [Users -> Nat]
    BY <1>a DEF TypeOK
  <2>4. lock' \in [Users -> {"none", "future", "past"}]
    BY <1>a DEF TypeOK
  <2>5. accounts' \subseteq Users /\ crossed' \subseteq Users \union {"users", "administrators"}
    BY <1>a, <1>c DEF TypeOK
  <2> QED
    BY <1>a, <2>1, <2>2, <2>3, <2>4, <2>5 DEF TypeOK
<1>2. Checked'
  BY <1>d DEF Checked, Is
<1>3. NoStaleLocks'
  BY <1>a DEF NoStaleLocks, TypeOK
<1>4. ASSUME "administrators" \notin crossed
      PROVE  req[s].by \in Admins' /\ \A t \in Slots : ~Manages(t)'
  <2>1. \A t \in Slots : ~Manages(t)'
    BY <1>a, <1>d, <1>4 DEF OneManager, Manages, Is
  <2>2. req[s].by \in Admins /\ req[s].by # u
    BY <1>a, <1>4 DEF OneManager, Checked, Manages, Is
  <2> QED
    BY <1>a, <1>c, <2>1, <2>2 DEF Admins, TypeOK
<1>5. OneManager'
  BY <1>a, <1>4 DEF OneManager, Admins
<1>6. OneRegistration'
  <2> SUFFICES ASSUME crossed' \cap {"users", "administrators"} = {}
               PROVE  /\ \A t, v \in Slots : Is(t, "register")' /\ Is(v, "register")' => t = v
                      /\ \A t \in Slots : Is(t, "register")' /\ req'[t].first => accounts' = {}
                      /\ accounts' # {}
                      /\ \A v, w \in founders' : v = w
    BY DEF OneRegistration
  <2>1. crossed \cap {"users", "administrators"} = {}
    BY <1>a
  <2>2. accounts' # {}
    BY <1>4, <2>1 DEF Admins
  <2>3. \A t \in Slots : Is(t, "register")' => Is(t, "register") /\ req'[t] = req[t]
    BY <1>d DEF Is
  <2> QED
    BY <1>a, <2>1, <2>2, <2>3 DEF OneRegistration
<1>7. ASSUME NEW v \in Users PROVE OneLogin(v)'
  <2>1. CASE v = u
    <3>1. v \notin crossed' => \A t \in Slots : ~(Is(t, "login") /\ req[t].of = v)
      BY <1>a, <1>c, <2>1 DEF Trying, Is
    <3>2. v \notin crossed' => \A t \in Slots : ~(Is(t, "login")' /\ req'[t].of = v)
      BY <1>d, <3>1 DEF Is
    <3> QED
      BY <1>a, <2>1, <3>2 DEF OneLogin
  <2>2. CASE v # u
    <3>1. /\ attempts'[v] = attempts[v] /\ misses'[v] = misses[v] /\ lock'[v] = lock[v]
          /\ (v \in accounts' <=> v \in accounts) /\ (v \notin crossed' => v \notin crossed)
      BY <1>a, <2>2 DEF TypeOK
    <3> QED
      BY <1>d, <3>1 DEF OneLogin, Is, Counted
  <2> QED
    BY <2>1, <2>2
<1> QED
  BY <1>1, <1>2, <1>3, <1>5, <1>6, <1>7

-----------------------------------------------------------------------------
(* The theorems. *)

LEMMA StepIInv == IInv /\ [Next]_vars => IInv'
<1> SUFFICES ASSUME IInv, [Next]_vars PROVE IInv'
  OBVIOUS
<1>t. TypeOK
  BY DEF IInv
<1>1. ASSUME NEW s \in Slots, NEW u \in Users, RegisterRead(s, u) PROVE IInv'
  <2> DEFINE x == [is |-> "register", of |-> u, first |-> accounts = {}]
  <2>1. x \in Requests /\ x.is = "register" /\ x.first = (accounts = {})
    BY DEF Requests, Registering
  <2>2. Start(s, x) /\ UNCHANGED <<rowVars, founders, misses>>
    BY <1>1 DEF RegisterRead
  <2> HIDE DEF x
  <2> QED
    BY <2>1, <2>2, Begins
<1>2. ASSUME NEW s \in Slots, NEW u \in Users, NEW right \in BOOLEAN, LoginLoad(s, u, right) PROVE IInv'
  <2> DEFINE x == [is |-> "login", of |-> u, right |-> right,
                   attempts |-> attempts[u], lock |-> lock[u], active |-> "active" \in flags[u]]
  <2>1. /\ u \in accounts /\ attempts[u] \in Nat /\ lock[u] \in {"none", "past"}
        /\ lock[u] # "future"
    BY <1>t, <1>2 DEF LoginLoad, TypeOK
  <2>2. x \in LoggingIn
    BY <2>1 DEF LoggingIn
  <2>3. x \in Requests /\ x.is = "login" /\ x.of = u /\ x.attempts = attempts[u]
    BY <2>2 DEF Requests
  <2>4. Start(s, x) /\ UNCHANGED <<rowVars, founders, misses>>
    BY <1>2 DEF LoginLoad
  <2> HIDE DEF x
  <2> QED
    BY <2>1, <2>3, <2>4, Begins
<1>3. ASSUME NEW s \in Slots, NEW u \in Users, Authorise(s, u) PROVE IInv'
  <2> DEFINE x == [is |-> "manage", by |-> u]
  <2>1. x \in Requests /\ x.is = "manage" /\ x.by = u
    BY DEF Requests, Managing
  <2>2. Start(s, x) /\ UNCHANGED <<rowVars, founders, misses>> /\ u \in Admins
    BY <1>3 DEF Authorise, Admins
  <2> HIDE DEF x
  <2> QED
    BY <2>1, <2>2, Begins
<1>4. ASSUME NEW s \in Slots, NEW u \in Users, NEW change \in Updates, UpdateLoad(s, u, change) PROVE IInv'
  <2> DEFINE x == [is |-> "update", by |-> req[s].by, of |-> u,
                   on |-> change.on \ Loaded(s, u), off |-> change.off \cap Loaded(s, u)]
  <2>1. req[s].by \in Users /\ Is(s, "manage")
    BY <1>t, <1>4, RequestFields DEF UpdateLoad, TypeOK, Is
  <2>2. change.on \in SUBSET Flags /\ change.off \in SUBSET Flags
    BY AccountsAssumption
  <2>3. x \in Managing
    BY <2>1, <2>2 DEF Managing
  <2>4. /\ x \in Requests /\ x.is = "update" /\ x.by = req[s].by /\ x.of = u
        /\ (u = req[s].by => x.off = {})
    BY <1>4, <2>3 DEF Requests, UpdateLoad
  <2>5. Goes(s, x) /\ UNCHANGED <<rowVars, founders, misses>>
    BY <1>4 DEF UpdateLoad
  <2> HIDE DEF x
  <2> QED
    BY <2>1, <2>4, <2>5, GoesOn
<1>5. ASSUME NEW s \in Slots, NEW u \in Users, DeleteLoad(s, u) PROVE IInv'
  <2> DEFINE x == [is |-> "delete", by |-> req[s].by, of |-> u]
  <2>1. req[s].by \in Users /\ Is(s, "manage") /\ u # req[s].by
    BY <1>t, <1>5, RequestFields DEF DeleteLoad, TypeOK, Is
  <2>2. x \in Requests /\ x.is = "delete" /\ x.by = req[s].by /\ x.of = u
    BY <2>1 DEF Requests, Managing
  <2>3. Goes(s, x) /\ UNCHANGED <<rowVars, founders, misses>>
    BY <1>5 DEF DeleteLoad
  <2> HIDE DEF x
  <2> QED
    BY <2>1, <2>2, <2>3, GoesOn
<1>6. ASSUME NEW s \in Slots, ManageRefused(s) PROVE IInv'
  <2>1. Idle \in Requests /\ Idle.is = "idle"
    BY DEF Requests, Idle
  <2>2. Goes(s, Idle) /\ Is(s, "manage") /\ UNCHANGED <<rowVars, founders, misses>>
    BY <1>6 DEF ManageRefused, Ends, Is
  <2> QED
    BY <2>1, <2>2, GoesOn
<1>7. CASE UNCHANGED vars
  <2>1. UNCHANGED <<accounts, flags, attempts, lock, req, founders, misses, crossed>>
    BY <1>7 DEF vars, rowVars, history
  <2>2. (TypeOK /\ Checked /\ NoStaleLocks)'
    BY <2>1 DEF IInv, TypeOK, Checked, NoStaleLocks, Is
  <2>3. (OneManager /\ OneRegistration)'
    BY <2>1 DEF IInv, OneManager, OneRegistration, Is, Manages, Admins
  <2>4. ASSUME NEW u \in Users PROVE OneLogin(u)'
    BY <2>1 DEF IInv, OneLogin, Is, Counted
  <2> QED
    BY <2>2, <2>3, <2>4 DEF IInv
<1> QED
  BY <1>1, <1>2, <1>3, <1>4, <1>5, <1>6, <1>7,
     Registers, Fails, Succeeds, Elapses, Changes, Deletes DEF Next

\* The inductive invariant holds in every reachable state.
THEOREM Invariance == Spec => []IInv
<1> QED
  BY InitIInv, StepIInv, PTL DEF Spec

\* Rows, requests and what they loaded keep their types.
THEOREM TypesHold == Spec => []TypeOK
<1>1. IInv => TypeOK
  BY DEF IInv
<1> QED
  BY <1>1, Invariance, PTL

\* update_user and delete_user: an instance that has accounts keeps an active
\* administrator as long as no two administrators' requests overlap.
THEOREM AdministratorRemains == Spec => []AnAdminRemains
<1>1. IInv => AnAdminRemains
  BY DEF IInv, OneManager, AnAdminRemains
<1> QED
  BY <1>1, Invariance, PTL

\* register makes one account at most an administrator, unless registrations, or
\* administrators' requests, overlap.
THEOREM FounderIsUnique == Spec => []OneFounder
<1>1. ASSUME IInv PROVE OneFounder
  <2> SUFFICES ASSUME crossed \cap {"users", "administrators"} = {}
               PROVE  Cardinality(founders) <= 1
    BY DEF OneFounder
  <2>1. \A u, v \in founders : u = v
    BY <1>1 DEF IInv, OneRegistration
  <2>2. CASE founders = {}
    BY <2>2, FS_EmptySet
  <2>3. CASE founders # {}
    <3>1. PICK u \in founders : TRUE
      BY <2>3
    <3>2. founders = {u}
      BY <2>1, <3>1
    <3>3. Cardinality({u}) = 1
      BY FS_Singleton
    <3> QED
      BY <3>2, <3>3
  <2> QED
    BY <2>2, <2>3
<1> QED
  BY <1>1, Invariance, PTL

\* _register_failed_login counts every wrong guess of a user whose logins do not
\* overlap, and sets the lock with the one that spends the budget, and with no other.
THEOREM GuessesAreCounted == Spec => []SerialGuessesAreCounted
<1>1. ASSUME IInv, NEW u \in accounts, u \notin crossed, Limit > 0
      PROVE  Counted(attempts[u], misses[u], lock[u])
  <2>1. u \in Users
    BY <1>1 DEF IInv, TypeOK
  <2> QED
    BY <1>1, <2>1 DEF IInv, OneLogin
<1>2. IInv => SerialGuessesAreCounted
  BY <1>1 DEF SerialGuessesAreCounted, Counted
<1> QED
  BY <1>2, Invariance, PTL

\* A lock in force is lifted by _clear_failed_logins only for a request that had
\* found an older lock elapsed.
THEOREM LocksAreHeld == Spec => LocksHold
<1> DEFINE Held == \A u \in Users : lock[u] = "future" /\ u \in accounts' /\ lock'[u] = "none" =>
                     \E s \in Slots : /\ req[s].is = "login" /\ req[s].of = u
                                      /\ req[s].right /\ req[s].lock = "past"
<1>1. IInv /\ [Next]_vars => [Held]_vars
  <2> SUFFICES ASSUME IInv, [Next]_vars, NEW u \in Users,
                      lock[u] = "future", u \in accounts', lock'[u] = "none"
               PROVE  \E s \in Slots : /\ req[s].is = "login" /\ req[s].of = u
                                       /\ req[s].right /\ req[s].lock = "past"
    OBVIOUS
  <2>t. TypeOK /\ u \in accounts
    BY DEF IInv, NoStaleLocks
  <2>1. lock' # lock
    OBVIOUS
  <2>2. ASSUME NEW s \in Slots, RegisterCommit(s) PROVE FALSE
    <3>1. CASE req[s].of \in accounts
      BY <2>1, <2>2, <3>1 DEF RegisterCommit, rowVars
    <3>2. CASE req[s].of \notin accounts
      BY <2>t, <2>2, <3>2 DEF RegisterCommit, TypeOK
    <3> QED
      BY <3>1, <3>2
  <2>3. ASSUME NEW s \in Slots, LoginFails(s) PROVE FALSE
    <3>1. lock' = [lock EXCEPT ![req[s].of] = "future"]
      BY <2>1, <2>3 DEF LoginFails
    <3> QED
      BY <2>t, <3>1 DEF TypeOK
  <2>4. ASSUME NEW s \in Slots, LoginSucceeds(s)
        PROVE  req[s].is = "login" /\ req[s].of = u /\ req[s].right /\ req[s].lock = "past"
    <3>1. /\ req[s].is = "login" /\ req[s].right /\ req[s].lock # "none"
          /\ lock' = [lock EXCEPT ![req[s].of] = "none"]
      BY <2>1, <2>4 DEF LoginSucceeds, Write
    <3>2. req[s].of = u
      BY <2>t, <3>1 DEF TypeOK
    <3>3. req[s].lock \in {"none", "past"}
      BY <2>t, <3>1, RequestFields DEF TypeOK
    <3> QED
      BY <3>1, <3>2, <3>3
  <2>5. ASSUME NEW s \in Slots, DeleteCommit(s) PROVE FALSE
    BY <2>t, <2>5 DEF DeleteCommit, TypeOK
  <2>6. ASSUME NEW v \in Users, LockElapses(v) PROVE FALSE
    BY <2>t, <2>6 DEF LockElapses, TypeOK
  <2>7. \/ \E s \in Slots : RegisterCommit(s) \/ LoginFails(s) \/ LoginSucceeds(s) \/ DeleteCommit(s)
        \/ \E v \in Users : LockElapses(v)
        \/ lock' = lock
    BY DEF Next, vars, rowVars, RegisterRead, LoginLoad, Authorise, UpdateLoad, UpdateCommit,
           DeleteLoad, ManageRefused
  <2> QED
    BY <2>1, <2>2, <2>3, <2>4, <2>5, <2>6, <2>7
<1> QED
  BY <1>1, Invariance, PTL DEF Spec, LocksHold
=============================================================================
