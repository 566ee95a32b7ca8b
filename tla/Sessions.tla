------------------------------- MODULE Sessions -------------------------------
(***************************************************************************)
(* Logins and server-side sessions of one user (identity/router.py,        *)
(* identity/dependencies.py, identity/security.py).                        *)
(*                                                                         *)
(* A login attempt is consumed by one callback, which then talks to the    *)
(* identity provider without a transaction and signs the user in in        *)
(* another one.  A session is rotated when the organisation is chosen and  *)
(* revoked by a logout.  Every action on a session is one transaction that *)
(* holds the session's row lock; a request may present any token ever      *)
(* given out, in any order.  A request that is refused rolls back.  The    *)
(* user's row is read without a lock: a change of it counts from the next  *)
(* lookup on.                                                              *)
(*                                                                         *)
(* Times are ticks left: idle[s] = 0 is idle_expires_at <= now.            *)
(***************************************************************************)
EXTENDS Naturals, FiniteSets

CONSTANTS
  Attempts,      \* login attempts
  Callbacks,     \* callback requests under way at a time
  Orgs,          \* organisations
  MaxSessions,   \* sessions the model may create
  MaxEpoch,      \* times an operator may end all sessions of the user
  SessionIdle, SessionAbsolute, LoginLifetime   \* 30 min, 8 h, 5 min

ASSUME SessionAssumption ==
  /\ MaxSessions \in Nat /\ MaxEpoch \in Nat
  /\ SessionIdle \in Nat \ {0} /\ SessionAbsolute \in Nat \ {0} /\ LoginLifetime \in Nat \ {0}

SessionId == 1..MaxSessions
None == "none"
ASSUME NoneAssumption == None \notin Attempts /\ None \notin Orgs

VARIABLES
  attempt,   \* NONE, OPEN, CONSUMED
  life,      \* ticks until an attempt expires
  exchange,  \* the attempt a callback has consumed, and the session its browser showed
  created,   \* sessions created so far
  login,     \* the attempt a session comes from
  org,       \* active_organization_id
  stamp,     \* auth_epoch of the session
  revoked, idle, absolute,
  epoch, active,   \* users.auth_epoch, users.status = 'ACTIVE'
  members,   \* organisations with an active membership
  age        \* observation: ticks since an attempt's callback signed in

attempts == <<attempt, life, exchange>>
sessions == <<created, login, org, stamp, revoked, idle, absolute>>
user == <<epoch, active, members>>
vars == <<attempts, sessions, user, age>>

Idle == [attempt |-> None, old |-> 0]

Init ==
  /\ attempt = [a \in Attempts |-> "NONE"]
  /\ life = [a \in Attempts |-> 0]
  /\ exchange = [c \in Callbacks |-> Idle]
  /\ created = 0
  /\ login = [s \in SessionId |-> None]
  /\ org = [s \in SessionId |-> None]
  /\ stamp = [s \in SessionId |-> 0]
  /\ revoked = [s \in SessionId |-> FALSE]
  /\ idle = [s \in SessionId |-> 0]
  /\ absolute = [s \in SessionId |-> 0]
  /\ epoch = 0 /\ active = TRUE /\ members = Orgs
  /\ age = [a \in Attempts |-> 0]
-------------------------------------------------------------------------------
Least(a, b) == IF a < b THEN a ELSE b

(* Plausible mistakes in the definitions below; no definition uses them.  *)
ValidIgnoringIdle(s) ==
  s <= created /\ active /\ ~revoked[s] /\ stamp[s] = epoch /\ absolute[s] > 0
FreshUntilExpiry(a) == attempt[a] # "NONE" /\ life[a] > 0
RotatedLimitRestarted(s) == SessionAbsolute
-------------------------------------------------------------------------------
\* session_is_valid, but for the user's status
Unexpired(s) == ~revoked[s] /\ stamp[s] = epoch /\ idle[s] > 0 /\ absolute[s] > 0

\* lookup_session finds it; a transaction that commits also renews it
Valid(s) == s <= created /\ active /\ Unexpired(s)
Renewed(s) == [idle EXCEPT ![s] = Least(SessionIdle, absolute[s])]

Login(a) ==
  /\ attempt[a] = "NONE"
  /\ attempt' = [attempt EXCEPT ![a] = "OPEN"]
  /\ life' = [life EXCEPT ![a] = LoginLifetime]
  /\ UNCHANGED <<exchange, sessions, user, age>>

Fresh(a) == attempt[a] = "OPEN" /\ life[a] > 0

\* the first transaction of a callback; the browser binding is right
Consume(c, a) ==
  /\ exchange[c] = Idle
  /\ Fresh(a)
  /\ attempt' = [attempt EXCEPT ![a] = "CONSUMED"]
  /\ \E old \in 0..created : exchange' = [exchange EXCEPT ![c] = [attempt |-> a, old |-> old]]
  /\ UNCHANGED <<life, sessions, user, age>>

\* create_session, of a login and for what is left of its absolute time;
\* known is idle after what else the transaction writes
Create(a, o, limit, known) ==
  LET s == created + 1
  IN  /\ s \in SessionId
      /\ created' = s
      /\ login' = [login EXCEPT ![s] = a]
      /\ org' = [org EXCEPT ![s] = o]
      /\ stamp' = [stamp EXCEPT ![s] = epoch]
      /\ idle' = [known EXCEPT ![s] = Least(SessionIdle, limit)]
      /\ absolute' = [absolute EXCEPT ![s] = limit]

\* the last transaction: an identity known and active; the shown session ends
SignIn(c) ==
  LET e == exchange[c]
  IN  /\ e # Idle
      /\ active
      /\ Create(e.attempt, None, SessionAbsolute, idle)
      /\ revoked' = [s \in SessionId |-> revoked[s] \/ s = e.old]
      /\ exchange' = [exchange EXCEPT ![c] = Idle]
      /\ age' = [age EXCEPT ![e.attempt] = 0]
      /\ UNCHANGED <<attempt, life, user>>

\* the provider refuses, the user is not active, or the process dies
Deny(c) ==
  /\ exchange[c] # Idle
  /\ exchange' = [exchange EXCEPT ![c] = Idle]
  /\ UNCHANGED <<attempt, life, sessions, user, age>>

\* a request that looks the session up and commits: me, check_csrf, get_actor
Use(s) ==
  /\ Valid(s)
  /\ idle' = Renewed(s)
  /\ UNCHANGED <<attempts, created, login, org, stamp, revoked, absolute, user, age>>

RotatedLimit(s) == absolute[s]

\* switch_org: the old token ends and its successor gets the time left
Switch(s, o) ==
  /\ Valid(s)
  /\ o \in members
  /\ Create(login[s], o, RotatedLimit(s), Renewed(s))
  /\ revoked' = [revoked EXCEPT ![s] = TRUE]
  /\ UNCHANGED <<attempts, user, age>>

Logout(s) ==
  /\ Valid(s)
  /\ revoked' = [revoked EXCEPT ![s] = TRUE]
  /\ idle' = Renewed(s)
  /\ UNCHANGED <<attempts, created, login, org, stamp, absolute, user, age>>

Less(f) == [x \in DOMAIN f |-> IF f[x] = 0 THEN 0 ELSE f[x] - 1]

Tick ==
  /\ life' = Less(life)
  /\ idle' = Less(idle)
  /\ absolute' = Less(absolute)
  /\ age' = [a \in Attempts |-> Least(age[a] + 1, SessionAbsolute)]
  /\ UNCHANGED <<attempt, exchange, created, login, org, stamp, revoked, user>>

\* an operator ends all sessions, changes the user's status or a membership
Administer ==
  /\ \/ epoch < MaxEpoch /\ epoch' = epoch + 1 /\ UNCHANGED <<active, members>>
     \/ active' = ~active /\ UNCHANGED <<epoch, members>>
     \/ \E o \in Orgs :
          /\ members' = IF o \in members THEN members \ {o} ELSE members \cup {o}
          /\ UNCHANGED <<epoch, active>>
  /\ UNCHANGED <<attempts, sessions, age>>

Next ==
  \/ \E a \in Attempts : Login(a) \/ \E c \in Callbacks : Consume(c, a)
  \/ \E c \in Callbacks : SignIn(c) \/ Deny(c)
  \/ \E s \in SessionId : Use(s) \/ Logout(s) \/ \E o \in Orgs : Switch(s, o)
  \/ Tick \/ Administer

Spec == Init /\ [][Next]_vars
-------------------------------------------------------------------------------
(* Types. *)
TypeOK ==
  /\ attempt \in [Attempts -> {"NONE", "OPEN", "CONSUMED"}]
  /\ life \in [Attempts -> 0..LoginLifetime]
  /\ exchange \in [Callbacks -> [attempt : Attempts \cup {None}, old : 0..MaxSessions]]
  /\ created \in 0..MaxSessions
  /\ login \in [SessionId -> Attempts \cup {None}]
  /\ org \in [SessionId -> Orgs \cup {None}]
  /\ stamp \in [SessionId -> 0..MaxEpoch]
  /\ revoked \in [SessionId -> BOOLEAN]
  /\ idle \in [SessionId -> 0..SessionIdle]
  /\ absolute \in [SessionId -> 0..SessionAbsolute]
  /\ epoch \in 0..MaxEpoch /\ active \in BOOLEAN /\ members \subseteq Orgs
  /\ age \in [Attempts -> 0..SessionAbsolute]

Same(s, t) == login[s] = login[t]

(* One login has at most one session a request can be served with, however *)
(* callbacks, rotations and logouts of old and new tokens interleave.      *)
OneLivePerLogin ==
  \A s, t \in 1..created : s # t /\ Same(s, t) => ~(Valid(s) /\ Valid(t))

(* No request is served later than SESSION_ABSOLUTE after the login it     *)
(* goes back to, however often the session was rotated or used.            *)
LoginLimit == \A s \in 1..created : Valid(s) => age[login[s]] < SessionAbsolute

Expired(s) == s <= created /\ ~Unexpired(s)

(* A session that was revoked, ran out or belongs to an earlier epoch      *)
(* never serves a request again; no lookup brings it back.                 *)
DeadStaysDead == [][\A s \in SessionId : Expired(s) => Expired(s)']_vars

(* Inductive strengthening: an open attempt has no session, an exchange is *)
(* the only one of its attempt, all but the newest session of a login are  *)
(* revoked, the time left is what the login's age leaves of its limit, and *)
(* no session is of an epoch still to come.                                *)
Consumed ==
  /\ \A s \in 1..created : login[s] \in Attempts /\ attempt[login[s]] = "CONSUMED"
  /\ \A c \in Callbacks :
       exchange[c] # Idle =>
         /\ exchange[c].attempt \in Attempts
         /\ attempt[exchange[c].attempt] = "CONSUMED"
         /\ \A s \in 1..created : login[s] # exchange[c].attempt
         /\ \A d \in Callbacks : exchange[d].attempt = exchange[c].attempt => d = c
OneLine == \A s, t \in 1..created : s < t /\ Same(s, t) => revoked[s]
TimeLeft ==
  \A s \in 1..created :
    /\ idle[s] <= absolute[s]
    /\ absolute[s] + age[login[s]] <= SessionAbsolute
Stamps == \A s \in 1..created : stamp[s] <= epoch
IInv == TypeOK /\ Consumed /\ OneLine /\ TimeLeft /\ Stamps
===============================================================================
