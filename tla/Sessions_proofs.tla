--------------------------- MODULE Sessions_proofs ----------------------------
(***************************************************************************)
(* Proofs about Sessions.                                                  *)
(*                                                                         *)
(* A login's sessions form a line: an attempt is consumed once, its        *)
(* callback creates the first session, and each rotation revokes the one   *)
(* it replaces, so only the newest can be live.  What a session has left   *)
(* and the age of its login never exceed the limit together.               *)
(***************************************************************************)
EXTENDS Sessions, TLAPS

(* The smaller of two times is one of them and not more than either.       *)
LEMMA LeastBounds ==
  ASSUME NEW a \in Nat, NEW b \in Nat
  PROVE  Least(a, b) \in Nat /\ Least(a, b) <= a /\ Least(a, b) <= b
BY DEF Least

(* Session numbers are positive, and those created so far are sessions.    *)
LEMMA SessionNumbers ==
  ASSUME TypeOK
  PROVE  created \in Nat /\ 1..created \subseteq SessionId /\ SessionId \subseteq Nat
BY SessionAssumption DEF TypeOK, SessionId

(* The part of the invariant about one session, for a session s.           *)
Kept(s) ==
  /\ login[s] \in Attempts /\ attempt[login[s]] = "CONSUMED"
  /\ \A c \in Callbacks : exchange[c] # Idle => login[s] # exchange[c].attempt
  /\ idle[s] <= absolute[s]
  /\ absolute[s] + age[login[s]] <= SessionAbsolute
  /\ stamp[s] <= epoch

(* The part about the callbacks.                                           *)
Exchanges ==
  \A c \in Callbacks :
    exchange[c] # Idle =>
      /\ exchange[c].attempt \in Attempts
      /\ attempt[exchange[c].attempt] = "CONSUMED"
      /\ \A d \in Callbacks : exchange[d].attempt = exchange[c].attempt => d = c

(* The invariant regrouped by what it is about.                            *)
LEMMA Regrouped ==
  IInv <=> TypeOK /\ Exchanges /\ OneLine /\ \A s \in 1..created : Kept(s)
BY DEF IInv, Consumed, TimeLeft, Stamps, Exchanges, Kept

LEMMA RegroupedNext ==
  IInv' <=> TypeOK' /\ Exchanges' /\ OneLine' /\ \A s \in 1..created' : Kept(s)'
BY DEF IInv, Consumed, TimeLeft, Stamps, Exchanges, Kept

LEMMA InitInv == Init => IInv
<1> SUFFICES ASSUME Init PROVE IInv
  OBVIOUS
<1>1. TypeOK
  BY SessionAssumption DEF Init, TypeOK, Idle
<1>2. Exchanges /\ OneLine /\ \A s \in 1..created : Kept(s)
  BY DEF Init, Exchanges, OneLine
<1> QED BY <1>1, <1>2, Regrouped

-------------------------------------------------------------------------------
(* Steps that touch no session keep them as they are.                      *)
LEMMA SessionsUntouched ==
  ASSUME IInv, UNCHANGED <<sessions, user, age>>,
         \A a \in Attempts : attempt[a] = "CONSUMED" => attempt'[a] = "CONSUMED",
         \A c \in Callbacks : exchange'[c] # Idle =>
           exchange'[c] = exchange[c] \/ \A s \in 1..created : login[s] # exchange'[c].attempt
  PROVE  OneLine' /\ \A s \in 1..created' : Kept(s)'
<1>1. OneLine'
  BY DEF IInv, OneLine, Same, sessions
<1>2. ASSUME NEW s \in 1..created PROVE Kept(s)'
  BY Regrouped DEF Kept, sessions, user
<1> QED BY <1>1, <1>2 DEF sessions

LEMMA LoginInv ==
  ASSUME IInv, NEW a \in Attempts, Login(a)
  PROVE  IInv'
<1>1. TypeOK'
  <2>1. attempt' \in [Attempts -> {"NONE", "OPEN", "CONSUMED"}] /\ life' \in [Attempts -> 0..LoginLifetime]
    BY SessionAssumption DEF Login, IInv, TypeOK
  <2> QED BY <2>1 DEF Login, IInv, TypeOK, sessions, user
<1>2. \A b \in Attempts : attempt[b] = "CONSUMED" => attempt'[b] = "CONSUMED"
  BY DEF Login, IInv, TypeOK
<1>3. Exchanges'
  BY <1>2, Regrouped DEF Login, Exchanges
<1>4. OneLine' /\ \A s \in 1..created' : Kept(s)'
  BY <1>2, SessionsUntouched DEF Login
<1> QED BY <1>1, <1>3, <1>4, RegroupedNext

(* An attempt that is still open has no session and no other callback.     *)
LEMMA ConsumeInv ==
  ASSUME IInv, NEW c \in Callbacks, NEW a \in Attempts, Consume(c, a)
  PROVE  IInv'
<1>1. PICK old \in 0..created :
        exchange' = [exchange EXCEPT ![c] = [attempt |-> a, old |-> old]]
  BY DEF Consume
<1>2. /\ attempt[a] = "OPEN" /\ attempt' = [attempt EXCEPT ![a] = "CONSUMED"]
      /\ UNCHANGED <<life, sessions, user, age>> /\ exchange[c] = Idle
  BY DEF Consume, Fresh
<1>3. TypeOK'
  <2>1. attempt' \in [Attempts -> {"NONE", "OPEN", "CONSUMED"}]
    BY <1>2 DEF IInv, TypeOK
  <2>2. old \in 0..MaxSessions
    BY SessionAssumption DEF IInv, TypeOK
  <2>3. exchange' \in [Callbacks -> [attempt : Attempts \cup {None}, old : 0..MaxSessions]]
    BY <1>1, <2>2 DEF IInv, TypeOK
  <2> QED BY <1>2, <2>1, <2>3 DEF IInv, TypeOK, sessions, user
<1>4. \A b \in Attempts : attempt[b] = "CONSUMED" => attempt'[b] = "CONSUMED"
  BY <1>2 DEF IInv, TypeOK
<1>5. attempt'[a] = "CONSUMED"
  BY <1>2 DEF IInv, TypeOK
<1>6. exchange'[c].attempt = a /\ \A d \in Callbacks : d # c => exchange'[d] = exchange[d]
  BY <1>1 DEF IInv, TypeOK
<1>7. \A d \in Callbacks : d # c => exchange[d].attempt # a
  <2>1. \A d \in Callbacks : exchange[d] # Idle => attempt[exchange[d].attempt] = "CONSUMED"
    BY Regrouped DEF Exchanges
  <2>2. \A d \in Callbacks : exchange[d] = Idle => exchange[d].attempt # a
    BY NoneAssumption DEF Idle
  <2> QED BY <1>2, <2>1, <2>2
<1>8. Exchanges'
  <2>1. ASSUME NEW d \in Callbacks, d # c, exchange'[d] # Idle
        PROVE  /\ exchange'[d].attempt \in Attempts
               /\ attempt'[exchange'[d].attempt] = "CONSUMED"
               /\ \A e \in Callbacks : exchange'[e].attempt = exchange'[d].attempt => e = d
    <3>1. exchange[d] # Idle /\ exchange'[d] = exchange[d]
      BY <1>6, <2>1
    <3>2. /\ exchange[d].attempt \in Attempts
          /\ attempt[exchange[d].attempt] = "CONSUMED"
          /\ \A e \in Callbacks : exchange[e].attempt = exchange[d].attempt => e = d
      BY <3>1, Regrouped DEF Exchanges
    <3> QED BY <1>4, <1>6, <1>7, <2>1, <3>1, <3>2
  <2>2. /\ exchange'[c].attempt \in Attempts
        /\ attempt'[exchange'[c].attempt] = "CONSUMED"
        /\ \A e \in Callbacks : exchange'[e].attempt = exchange'[c].attempt => e = c
    BY <1>5, <1>6, <1>7
  <2> QED BY <2>1, <2>2 DEF Exchanges
<1>9. \A s \in 1..created : login[s] # a
  BY <1>2, Regrouped DEF Kept
<1>10. OneLine' /\ \A s \in 1..created' : Kept(s)'
  <2>1. \A d \in Callbacks : exchange'[d] # Idle =>
          exchange'[d] = exchange[d] \/ \A s \in 1..created : login[s] # exchange'[d].attempt
    BY <1>6, <1>9
  <2> QED BY <1>2, <1>4, <2>1, SessionsUntouched
<1> QED BY <1>3, <1>8, <1>10, RegroupedNext

LEMMA DenyInv ==
  ASSUME IInv, NEW c \in Callbacks, Deny(c)
  PROVE  IInv'
<1>1. exchange' = [exchange EXCEPT ![c] = Idle] /\ UNCHANGED <<attempt, life, sessions, user, age>>
  BY DEF Deny
<1>2. Idle \in [attempt : Attempts \cup {None}, old : 0..MaxSessions]
  BY SessionAssumption DEF Idle
<1>3. exchange' \in [Callbacks -> [attempt : Attempts \cup {None}, old : 0..MaxSessions]]
  BY <1>1, <1>2 DEF IInv, TypeOK
<1>4. TypeOK'
  BY <1>1, <1>3 DEF IInv, TypeOK, sessions, user
<1>5. \A d \in Callbacks : exchange'[d] # Idle => exchange'[d] = exchange[d]
  BY <1>1 DEF IInv, TypeOK
<1>6. \A d \in Callbacks : exchange'[d] = exchange[d] \/ exchange'[d] = Idle
  BY <1>1 DEF IInv, TypeOK
<1>7. Exchanges'
  <2>1. ASSUME NEW d \in Callbacks, exchange'[d] # Idle
        PROVE  /\ exchange'[d].attempt \in Attempts
               /\ attempt'[exchange'[d].attempt] = "CONSUMED"
               /\ \A e \in Callbacks : exchange'[e].attempt = exchange'[d].attempt => e = d
    <3>1. exchange'[d] = exchange[d] /\ exchange[d] # Idle
      BY <1>5, <2>1
    <3>2. /\ exchange[d].attempt \in Attempts
          /\ attempt[exchange[d].attempt] = "CONSUMED"
          /\ \A e \in Callbacks : exchange[e].attempt = exchange[d].attempt => e = d
      BY <3>1, Regrouped DEF Exchanges
    <3>3. Idle.attempt # exchange[d].attempt
      BY <3>2, NoneAssumption DEF Idle
    <3> QED BY <1>1, <1>6, <3>1, <3>2, <3>3
  <2> QED BY <2>1 DEF Exchanges
<1>8. OneLine' /\ \A s \in 1..created' : Kept(s)'
  BY <1>1, <1>5, SessionsUntouched
<1> QED BY <1>4, <1>7, <1>8, RegroupedNext

-------------------------------------------------------------------------------
(* A new session (create_session) is numbered next and leaves the others'  *)
(* login, stamp and limit alone.                                           *)
LEMMA Created ==
  ASSUME IInv, NEW a \in Attempts, NEW o \in Orgs \cup {None}, NEW limit \in 0..SessionAbsolute,
         NEW known \in [SessionId -> 0..SessionIdle], Create(a, o, limit, known)
  PROVE  LET n == created + 1
         IN  /\ n \in SessionId /\ created' = n /\ created \in Nat
             /\ created' \in 0..MaxSessions
             /\ login' \in [SessionId -> Attempts \cup {None}] /\ login'[n] = a
             /\ org' \in [SessionId -> Orgs \cup {None}]
             /\ stamp' \in [SessionId -> 0..MaxEpoch] /\ stamp'[n] = epoch
             /\ idle' \in [SessionId -> 0..SessionIdle] /\ idle'[n] <= limit
             /\ absolute' \in [SessionId -> 0..SessionAbsolute] /\ absolute'[n] = limit
             /\ \A s \in 1..created : /\ s \in SessionId /\ s # n
                                      /\ login'[s] = login[s] /\ stamp'[s] = stamp[s]
                                      /\ absolute'[s] = absolute[s] /\ idle'[s] = known[s]
<1> DEFINE n == created + 1
<1> DEFINE i == Least(SessionIdle, limit)
<1>1. created \in Nat /\ \A s \in 1..created : s \in SessionId /\ s # n
  BY SessionNumbers DEF IInv
<1>2. n \in SessionId
  BY DEF Create
<1>3. n \in 0..MaxSessions
  BY <1>1, <1>2, SessionAssumption DEF SessionId
<1>4. i \in 0..SessionIdle /\ i <= limit
  BY SessionAssumption DEF Least
<1>5. epoch \in 0..MaxEpoch
  BY DEF IInv, TypeOK
<1> HIDE DEF n, i
<1>6. /\ created' = n
      /\ login' = [login EXCEPT ![n] = a] /\ org' = [org EXCEPT ![n] = o]
      /\ stamp' = [stamp EXCEPT ![n] = epoch]
      /\ idle' = [known EXCEPT ![n] = i] /\ absolute' = [absolute EXCEPT ![n] = limit]
  BY DEF Create, n, i
<1>7. login' \in [SessionId -> Attempts \cup {None}] /\ login'[n] = a
  BY <1>2, <1>6 DEF IInv, TypeOK
<1>8. org' \in [SessionId -> Orgs \cup {None}]
  BY <1>2, <1>6 DEF IInv, TypeOK
<1>9. stamp' \in [SessionId -> 0..MaxEpoch] /\ stamp'[n] = epoch
  BY <1>2, <1>5, <1>6 DEF IInv, TypeOK
<1>10. idle' \in [SessionId -> 0..SessionIdle] /\ idle'[n] <= limit
  BY <1>2, <1>4, <1>6
<1>11. absolute' \in [SessionId -> 0..SessionAbsolute] /\ absolute'[n] = limit
  BY <1>2, <1>6 DEF IInv, TypeOK
<1>12. \A s \in 1..created : /\ login'[s] = login[s] /\ stamp'[s] = stamp[s]
                             /\ absolute'[s] = absolute[s] /\ idle'[s] = known[s]
  BY <1>1, <1>6 DEF IInv, TypeOK
<1> QED BY <1>1, <1>2, <1>3, <1>6, <1>7, <1>8, <1>9, <1>10, <1>11, <1>12 DEF n

(* The callback's session is the first of its login, whose age starts.     *)
LEMMA SignInInv ==
  ASSUME IInv, NEW c \in Callbacks, SignIn(c)
  PROVE  IInv'
<1> DEFINE a == exchange[c].attempt
<1> DEFINE n == created + 1
<1>1. /\ exchange[c] # Idle /\ Create(a, None, SessionAbsolute, idle)
      /\ revoked' = [s \in SessionId |-> revoked[s] \/ s = exchange[c].old]
      /\ exchange' = [exchange EXCEPT ![c] = Idle]
      /\ age' = [age EXCEPT ![a] = 0]
      /\ UNCHANGED <<attempt, life, user>>
  BY DEF SignIn
<1>2. /\ a \in Attempts /\ attempt[a] = "CONSUMED"
      /\ \A d \in Callbacks : exchange[d].attempt = a => d = c
  BY <1>1, Regrouped DEF Exchanges
<1>3. \A s \in 1..created : login[s] # a
  BY <1>1, Regrouped DEF Kept
<1> HIDE DEF a
<1>4. /\ n \in SessionId /\ created' = n /\ created \in Nat
      /\ created' \in 0..MaxSessions
      /\ login' \in [SessionId -> Attempts \cup {None}] /\ login'[n] = a
      /\ org' \in [SessionId -> Orgs \cup {None}]
      /\ stamp' \in [SessionId -> 0..MaxEpoch] /\ stamp'[n] = epoch
      /\ idle' \in [SessionId -> 0..SessionIdle] /\ idle'[n] <= SessionAbsolute
      /\ absolute' \in [SessionId -> 0..SessionAbsolute] /\ absolute'[n] = SessionAbsolute
      /\ \A s \in 1..created : /\ s \in SessionId /\ s # n
                               /\ login'[s] = login[s] /\ stamp'[s] = stamp[s]
                               /\ absolute'[s] = absolute[s] /\ idle'[s] = idle[s]
  <2>1. SessionAbsolute \in 0..SessionAbsolute
    BY SessionAssumption
  <2>2. idle \in [SessionId -> 0..SessionIdle]
    BY DEF IInv, TypeOK
  <2> QED BY <1>1, <1>2, <2>1, <2>2, Created
<1>5. /\ age' \in [Attempts -> 0..SessionAbsolute] /\ age'[a] = 0
      /\ \A b \in Attempts : b # a => age'[b] = age[b]
  BY <1>1, <1>2, SessionAssumption DEF IInv, TypeOK
<1>6. \A d \in Callbacks : exchange'[d] = IF d = c THEN Idle ELSE exchange[d]
  BY <1>1 DEF IInv, TypeOK
<1>7. Idle \in [attempt : Attempts \cup {None}, old : 0..MaxSessions]
  BY SessionAssumption DEF Idle
<1>8. TypeOK'
  <2>1. exchange' \in [Callbacks -> [attempt : Attempts \cup {None}, old : 0..MaxSessions]]
    BY <1>1, <1>7 DEF IInv, TypeOK
  <2>2. revoked' \in [SessionId -> BOOLEAN]
    BY <1>1 DEF IInv, TypeOK
  <2> QED BY <1>1, <1>4, <1>5, <2>1, <2>2 DEF IInv, TypeOK, user
<1>9. Exchanges'
  <2>1. ASSUME NEW d \in Callbacks, exchange'[d] # Idle
        PROVE  /\ exchange'[d].attempt \in Attempts
               /\ attempt'[exchange'[d].attempt] = "CONSUMED"
               /\ \A e \in Callbacks : exchange'[e].attempt = exchange'[d].attempt => e = d
    <3>1. d # c /\ exchange'[d] = exchange[d] /\ exchange[d] # Idle
      BY <1>6, <2>1
    <3>2. /\ exchange[d].attempt \in Attempts
          /\ attempt[exchange[d].attempt] = "CONSUMED"
          /\ \A e \in Callbacks : exchange[e].attempt = exchange[d].attempt => e = d
      BY <3>1, Regrouped DEF Exchanges
    <3>3. Idle.attempt # exchange[d].attempt
      BY <3>2, NoneAssumption DEF Idle
    <3> QED BY <1>1, <1>6, <3>1, <3>2, <3>3
  <2> QED BY <2>1 DEF Exchanges
<1> HIDE DEF n
<1>10. 1..created' = (1..created) \cup {n}
  BY <1>4 DEF n
<1>11. \A s \in 1..created : login'[s] # login'[n]
  BY <1>3, <1>4
<1>12. OneLine'
  <2>1. \A s \in 1..created : revoked[s] => revoked'[s]
    BY <1>1, <1>4
  <2>2. \A s \in 1..created : s < n
    BY <1>4 DEF n
  <2>3. ASSUME NEW s \in 1..created, NEW t \in 1..created, s < t, login'[s] = login'[t]
        PROVE  revoked'[s]
    BY <1>4, <2>1, <2>3 DEF IInv, OneLine, Same
  <2>4. ~(n < n)
    BY <1>4 DEF n
  <2>5. \A t \in 1..created : ~(n < t)
    BY <1>4 DEF n
  <2> QED BY <1>10, <1>11, <2>3, <2>4, <2>5 DEF OneLine, Same
<1>13. ASSUME NEW s \in 1..created PROVE Kept(s)'
  <2>1. Kept(s)
    BY Regrouped
  <2>2. login[s] \in Attempts /\ login[s] # a /\ age'[login[s]] = age[login[s]]
    BY <1>3, <1>5, <2>1 DEF Kept
  <2>3. \A d \in Callbacks : exchange'[d] # Idle => login[s] # exchange'[d].attempt
    BY <1>6, <2>1 DEF Kept
  <2> QED BY <1>1, <1>4, <2>1, <2>2, <2>3 DEF Kept, user
<1>14. ASSUME NEW s \in 1..created', s = n PROVE Kept(s)'
  <2>1. \A d \in Callbacks : exchange'[d] # Idle => a # exchange'[d].attempt
    BY <1>2, <1>6
  <2>2. epoch \in Nat /\ SessionAbsolute \in Nat
    BY SessionAssumption DEF IInv, TypeOK
  <2> QED BY <1>1, <1>2, <1>4, <1>5, <1>14, <2>1, <2>2 DEF Kept, user
<1> QED BY <1>8, <1>9, <1>10, <1>12, <1>13, <1>14, RegroupedNext

(* A lookup renews the idle time within what is left of the limit.         *)
LEMMA RenewedTyped ==
  ASSUME IInv, NEW s \in 1..created
  PROVE  /\ Renewed(s) \in [SessionId -> 0..SessionIdle]
         /\ Renewed(s)[s] <= absolute[s]
         /\ \A t \in 1..created : t # s => Renewed(s)[t] = idle[t]
<1>1. s \in SessionId /\ 1..created \subseteq SessionId
  BY SessionNumbers DEF IInv
<1>2. absolute[s] \in Nat /\ SessionIdle \in Nat
  BY <1>1, SessionAssumption DEF IInv, TypeOK
<1>3. Least(SessionIdle, absolute[s]) \in 0..SessionIdle /\ Least(SessionIdle, absolute[s]) <= absolute[s]
  BY <1>2 DEF Least
<1> QED BY <1>1, <1>3 DEF IInv, TypeOK, Renewed

(* Using a session or ending it (me, logout).                              *)
LEMMA RenewalInv ==
  ASSUME IInv, NEW s \in 1..created, idle' = Renewed(s),
         revoked' \in [SessionId -> BOOLEAN], \A t \in SessionId : revoked[t] => revoked'[t],
         UNCHANGED <<attempts, created, login, org, stamp, absolute, user, age>>
  PROVE  IInv'
<1>1. TypeOK'
  BY RenewedTyped DEF IInv, TypeOK, attempts, user
<1>2. Exchanges'
  BY Regrouped DEF Exchanges, attempts
<1>3. OneLine'
  BY SessionNumbers DEF IInv, OneLine, Same
<1>4. ASSUME NEW t \in 1..created PROVE Kept(t)'
  <2>1. idle'[t] <= absolute[t]
    BY RenewedTyped, Regrouped DEF Kept
  <2> QED BY <2>1, Regrouped DEF Kept, attempts, user
<1> QED BY <1>1, <1>2, <1>3, <1>4, RegroupedNext

LEMMA UseInv ==
  ASSUME IInv, NEW s \in SessionId, Use(s)
  PROVE  IInv'
<1>1. s \in 1..created
  BY SessionNumbers DEF IInv, Use, Valid, SessionId
<1> QED BY <1>1, RenewalInv DEF Use, IInv, TypeOK

LEMMA LogoutInv ==
  ASSUME IInv, NEW s \in SessionId, Logout(s)
  PROVE  IInv'
<1>1. s \in 1..created
  BY SessionNumbers DEF IInv, Logout, Valid, SessionId
<1>2. revoked' \in [SessionId -> BOOLEAN] /\ \A t \in SessionId : revoked[t] => revoked'[t]
  BY DEF Logout, IInv, TypeOK
<1> QED BY <1>1, <1>2, RenewalInv DEF Logout

(* switch_org: the successor has the login and the limit of the session it *)
(* replaces, which is the newest of its login because it was live.         *)
LEMMA SwitchInv ==
  ASSUME IInv, NEW s \in SessionId, NEW o \in Orgs, Switch(s, o)
  PROVE  IInv'
<1> DEFINE n == created + 1
<1>1. /\ Valid(s) /\ Create(login[s], o, absolute[s], Renewed(s))
      /\ revoked' = [revoked EXCEPT ![s] = TRUE] /\ UNCHANGED <<attempts, user, age>>
  BY DEF Switch, RotatedLimit
<1>2. s \in 1..created
  BY <1>1, SessionNumbers DEF IInv, Valid, SessionId
<1>3. Kept(s)
  BY <1>2, Regrouped
<1>4. login[s] \in Attempts /\ absolute[s] \in 0..SessionAbsolute
  BY <1>3 DEF Kept, IInv, TypeOK
<1>5. /\ n \in SessionId /\ created' = n /\ created \in Nat
      /\ created' \in 0..MaxSessions
      /\ login' \in [SessionId -> Attempts \cup {None}] /\ login'[n] = login[s]
      /\ org' \in [SessionId -> Orgs \cup {None}]
      /\ stamp' \in [SessionId -> 0..MaxEpoch] /\ stamp'[n] = epoch
      /\ idle' \in [SessionId -> 0..SessionIdle] /\ idle'[n] <= absolute[s]
      /\ absolute' \in [SessionId -> 0..SessionAbsolute] /\ absolute'[n] = absolute[s]
      /\ \A t \in 1..created : /\ t \in SessionId /\ t # n
                               /\ login'[t] = login[t] /\ stamp'[t] = stamp[t]
                               /\ absolute'[t] = absolute[t] /\ idle'[t] = Renewed(s)[t]
  BY <1>1, <1>2, <1>4, RenewedTyped, Created
<1>6. revoked' \in [SessionId -> BOOLEAN] /\ revoked'[s] /\ \A t \in SessionId : revoked[t] => revoked'[t]
  BY <1>1 DEF IInv, TypeOK
<1>7. TypeOK'
  BY <1>1, <1>5, <1>6 DEF IInv, TypeOK, attempts, user
<1>8. Exchanges'
  BY <1>1, Regrouped DEF Exchanges, attempts
<1> HIDE DEF n
<1>9. 1..created' = (1..created) \cup {n}
  BY <1>5 DEF n
<1>10. OneLine'
  <2>1. ASSUME NEW t \in 1..created, NEW u \in 1..created, t < u, login'[t] = login'[u]
        PROVE  revoked'[t]
    <3>1. revoked[t]
      BY <1>5, <2>1 DEF IInv, OneLine, Same
    <3> QED BY <1>5, <1>6, <3>1
  <2>2. ASSUME NEW t \in 1..created, login'[t] = login'[n]
        PROVE  revoked'[t]
    <3>1. login[t] = login[s]
      BY <1>5, <2>2
    <3>2. CASE t = s
      BY <1>6, <3>2
    <3>3. CASE t < s
      <4>1. revoked[t]
        BY <1>2, <3>1, <3>3 DEF IInv, OneLine, Same
      <4> QED BY <1>5, <1>6, <4>1
    <3>4. CASE s < t
      <4>1. revoked[s]
        BY <1>2, <3>1, <3>4 DEF IInv, OneLine, Same
      <4> QED BY <1>1, <4>1 DEF Valid, Unexpired
    <3> QED BY <1>2, <1>5, <3>2, <3>3, <3>4
  <2>3. \A u \in 1..created : ~(n < u)
    BY <1>5 DEF n
  <2>4. ~(n < n)
    BY <1>5 DEF n
  <2> QED BY <1>9, <2>1, <2>2, <2>3, <2>4 DEF OneLine, Same
<1>11. ASSUME NEW t \in 1..created PROVE Kept(t)'
  <2>1. Kept(t)
    BY Regrouped
  <2>2. Renewed(s)[t] <= absolute[t]
    BY <1>2, <2>1, RenewedTyped DEF Kept
  <2> QED BY <1>1, <1>5, <2>1, <2>2 DEF Kept, attempts, user
<1>12. ASSUME NEW t \in 1..created', t = n PROVE Kept(t)'
  <2>1. epoch \in Nat
    BY DEF IInv, TypeOK
  <2> QED BY <1>1, <1>3, <1>5, <1>12, <2>1 DEF Kept, attempts, user
<1> QED BY <1>7, <1>8, <1>9, <1>10, <1>11, <1>12, RegroupedNext

(* A clock tick keeps the times of any table within their bound.           *)
LEMMA LessTyped ==
  ASSUME NEW S, NEW M \in Nat, NEW f \in [S -> 0..M]
  PROVE  Less(f) \in [S -> 0..M]
<1>1. ASSUME NEW x \in S PROVE (IF f[x] = 0 THEN 0 ELSE f[x] - 1) \in 0..M
  <2>1. f[x] \in 0..M
    OBVIOUS
  <2> QED BY <2>1
<1> QED BY <1>1 DEF Less

(* Time takes from a session what it adds to the age of its login.         *)
LEMMA TickInv ==
  ASSUME IInv, Tick
  PROVE  IInv'
<1>1. /\ \A a \in Attempts : life'[a] = IF life[a] = 0 THEN 0 ELSE life[a] - 1
      /\ \A s \in SessionId : /\ idle'[s] = IF idle[s] = 0 THEN 0 ELSE idle[s] - 1
                              /\ absolute'[s] = IF absolute[s] = 0 THEN 0 ELSE absolute[s] - 1
      /\ \A a \in Attempts : age'[a] = Least(age[a] + 1, SessionAbsolute)
      /\ UNCHANGED <<attempt, exchange, created, login, org, stamp, revoked, user>>
  BY DEF Tick, Less, IInv, TypeOK
<1>2. TypeOK'
  <2>1. life' \in [Attempts -> 0..LoginLifetime]
    BY SessionAssumption, LessTyped DEF Tick, IInv, TypeOK
  <2>2. idle' \in [SessionId -> 0..SessionIdle]
    BY SessionAssumption, LessTyped DEF Tick, IInv, TypeOK
  <2>3. absolute' \in [SessionId -> 0..SessionAbsolute]
    BY SessionAssumption, LessTyped DEF Tick, IInv, TypeOK
  <2>4. age' \in [Attempts -> 0..SessionAbsolute]
    BY SessionAssumption DEF Tick, Least, IInv, TypeOK
  <2> QED BY <1>1, <2>1, <2>2, <2>3, <2>4 DEF IInv, TypeOK, user
<1>3. Exchanges' /\ OneLine'
  BY <1>1, Regrouped DEF Exchanges, OneLine, Same
<1>4. ASSUME NEW s \in 1..created PROVE Kept(s)'
  <2>1. Kept(s) /\ s \in SessionId
    BY Regrouped, SessionNumbers DEF IInv
  <2>2. /\ idle[s] \in Nat /\ absolute[s] \in Nat /\ age[login[s]] \in Nat
        /\ login[s] \in Attempts /\ SessionAbsolute \in Nat
    BY <2>1, SessionAssumption DEF Kept, IInv, TypeOK
  <2>3. idle'[s] <= absolute'[s]
    BY <1>1, <2>1, <2>2 DEF Kept
  <2>4. absolute'[s] + age'[login[s]] <= SessionAbsolute
    BY <1>1, <2>1, <2>2 DEF Kept, Least
  <2> QED BY <1>1, <2>1, <2>3, <2>4 DEF Kept, user
<1> QED BY <1>1, <1>2, <1>3, <1>4, RegroupedNext

LEMMA AdministerInv ==
  ASSUME IInv, Administer
  PROVE  IInv'
<1>1. UNCHANGED <<attempts, sessions, age>>
  BY DEF Administer
<1>2. epoch' \in 0..MaxEpoch /\ epoch <= epoch' /\ active' \in BOOLEAN /\ members' \subseteq Orgs
  <2>1. epoch \in 0..MaxEpoch /\ active \in BOOLEAN /\ members \subseteq Orgs
    BY DEF IInv, TypeOK
  <2>2. CASE epoch < MaxEpoch /\ epoch' = epoch + 1 /\ UNCHANGED <<active, members>>
    BY <2>1, <2>2, SessionAssumption
  <2>3. CASE active' = ~active /\ UNCHANGED <<epoch, members>>
    BY <2>1, <2>3, SessionAssumption
  <2>4. CASE \E o \in Orgs :
               /\ members' = IF o \in members THEN members \ {o} ELSE members \cup {o}
               /\ UNCHANGED <<epoch, active>>
    BY <2>1, <2>4, SessionAssumption
  <2> QED BY <2>2, <2>3, <2>4 DEF Administer
<1>3. TypeOK'
  BY <1>1, <1>2 DEF IInv, TypeOK, attempts, sessions
<1>4. Exchanges' /\ OneLine'
  BY <1>1, Regrouped DEF Exchanges, OneLine, Same, attempts, sessions
<1>5. ASSUME NEW s \in 1..created PROVE Kept(s)'
  <2>1. stamp[s] \in Nat /\ epoch \in Nat /\ epoch' \in Nat
    BY <1>2, SessionNumbers DEF IInv, TypeOK
  <2> QED BY <1>1, <1>2, <2>1, Regrouped DEF Kept, attempts, sessions
<1> QED BY <1>1, <1>3, <1>4, <1>5, RegroupedNext DEF sessions

(* Every step preserves the invariant.                                     *)
LEMMA NextInv == IInv /\ [Next]_vars => IInv'
<1> SUFFICES ASSUME IInv, [Next]_vars PROVE IInv'
  OBVIOUS
<1>1. CASE UNCHANGED vars
  <2>1. TypeOK' /\ Exchanges' /\ OneLine'
    BY <1>1, Regrouped DEF vars, attempts, sessions, user, TypeOK, Exchanges, OneLine, Same
  <2>2. ASSUME NEW s \in 1..created PROVE Kept(s)'
    BY <1>1, Regrouped DEF vars, attempts, sessions, user, Kept
  <2> QED BY <1>1, <2>1, <2>2, RegroupedNext DEF vars, sessions
<1> QED
  BY <1>1, LoginInv, ConsumeInv, SignInInv, DenyInv, UseInv, LogoutInv, SwitchInv, TickInv,
     AdministerInv DEF Next

(* The inductive invariant holds in every reachable state.                 *)
THEOREM Invariance == Spec => []IInv
<1> QED BY InitInv, NextInv, PTL DEF Spec

(* Every reachable state has the types, for any number of attempts.        *)
THEOREM TypeCorrect == Spec => []TypeOK
<1>1. IInv => TypeOK
  BY DEF IInv
<1> QED BY <1>1, Invariance, PTL

(* A login has at most one session that is served (create_session,         *)
(* switch_org), whatever callbacks and old tokens do.                      *)
THEOREM OneLiveSession == Spec => []OneLivePerLogin
<1>1. ASSUME IInv PROVE OneLivePerLogin
  <2> SUFFICES ASSUME NEW s \in 1..created, NEW t \in 1..created, s # t, Same(s, t)
               PROVE  ~(Valid(s) /\ Valid(t))
    BY DEF OneLivePerLogin
  <2>1. s < t \/ t < s
    BY <1>1, SessionNumbers DEF IInv
  <2>2. revoked[s] \/ revoked[t]
    BY <1>1, <2>1 DEF IInv, OneLine, Same
  <2> QED BY <2>2 DEF Valid, Unexpired
<1> QED BY <1>1, Invariance, PTL

(* No session outlives the limit that began with its login, however it is  *)
(* renewed or rotated (lookup_session, switch_org).                        *)
THEOREM LimitedByLogin == Spec => []LoginLimit
<1>1. ASSUME IInv PROVE LoginLimit
  <2> SUFFICES ASSUME NEW s \in 1..created, Valid(s)
               PROVE  age[login[s]] < SessionAbsolute
    BY DEF LoginLimit
  <2>1. Kept(s) /\ s \in SessionId
    BY <1>1, Regrouped, SessionNumbers DEF IInv
  <2>2. /\ idle[s] \in Nat /\ absolute[s] \in Nat /\ age[login[s]] \in Nat /\ SessionAbsolute \in Nat
    BY <1>1, <2>1, SessionAssumption DEF Kept, IInv, TypeOK
  <2> QED BY <2>1, <2>2 DEF Kept, Valid, Unexpired
<1> QED BY <1>1, Invariance, PTL

(* A dead session stays dead: nothing un-revokes, renews or re-stamps it   *)
(* (session_is_valid, lookup_session).                                     *)
THEOREM NoResurrection == Spec => DeadStaysDead
<1>1. ASSUME IInv, [Next]_vars
      PROVE  [\A s \in SessionId : Expired(s) => Expired(s)']_vars
  <2> SUFFICES ASSUME NEW s \in SessionId, Expired(s)
               PROVE  Expired(s)'
    OBVIOUS
  <2>1. /\ s \in 1..created /\ created \in Nat
        /\ idle[s] \in Nat /\ absolute[s] \in Nat /\ stamp[s] \in Nat /\ epoch \in Nat
        /\ stamp[s] <= epoch /\ revoked[s] \in BOOLEAN
    <3>1. s \in 1..created /\ created \in Nat
      BY <1>1, SessionNumbers DEF IInv, Expired, SessionId
    <3>2. stamp[s] <= epoch
      BY <1>1, <3>1, Regrouped DEF Kept
    <3> QED BY <1>1, <3>1, <3>2, SessionAssumption DEF IInv, TypeOK
  <2>2. ~Unexpired(s) /\ ~Valid(s)
    BY DEF Expired, Valid
  <2>0. created' \in Nat
    BY <1>1, NextInv DEF IInv, TypeOK
  <2>3. ASSUME created <= created', UNCHANGED <<absolute, stamp, epoch>>,
               revoked[s] => revoked'[s], idle'[s] = idle[s]
        PROVE  Expired(s)'
    BY <2>0, <2>1, <2>2, <2>3 DEF Expired, Unexpired
  <2>4. CASE \E a \in Attempts : Login(a) \/ \E c \in Callbacks : Consume(c, a)
    BY <2>1, <2>3, <2>4 DEF Login, Consume, sessions, user
  <2>5. CASE \E c \in Callbacks : Deny(c)
    BY <2>1, <2>3, <2>5 DEF Deny, sessions, user
  <2>6. ASSUME NEW a, NEW o, NEW limit, NEW known, Create(a, o, limit, known), known[s] = idle[s],
               known \in [SessionId -> 0..SessionIdle], revoked[s] => revoked'[s], UNCHANGED user
        PROVE  Expired(s)'
    <3>1. s # created + 1 /\ created' = created + 1
      BY <2>1, <2>6 DEF Create
    <3>2. /\ stamp' = [stamp EXCEPT ![created + 1] = epoch]
          /\ absolute' = [absolute EXCEPT ![created + 1] = limit]
          /\ idle' = [known EXCEPT ![created + 1] = Least(SessionIdle, limit)]
      BY <2>6 DEF Create
    <3>3. stamp'[s] = stamp[s] /\ absolute'[s] = absolute[s] /\ idle'[s] = idle[s]
      BY <1>1, <2>6, <3>1, <3>2 DEF IInv, TypeOK
    <3> QED BY <2>1, <2>2, <2>6, <3>1, <3>3 DEF Expired, Unexpired, user
  <2>7. CASE \E c \in Callbacks : SignIn(c)
    <3>1. PICK c \in Callbacks : SignIn(c)
      BY <2>7
    <3>2. Create(exchange[c].attempt, None, SessionAbsolute, idle) /\ UNCHANGED user
      BY <3>1 DEF SignIn
    <3>3. revoked[s] => revoked'[s]
      BY <3>1 DEF SignIn
    <3> QED BY <1>1, <2>6, <3>2, <3>3 DEF IInv, TypeOK
  <2>8. ASSUME NEW t \in SessionId, Valid(t)
        PROVE  t # s /\ Renewed(t)[s] = idle[s] /\ Renewed(t) \in [SessionId -> 0..SessionIdle]
    <3>1. t # s /\ t \in 1..created
      BY <1>1, <2>2, <2>8, SessionNumbers DEF Valid, IInv, SessionId
    <3> QED BY <1>1, <2>1, <3>1, RenewedTyped
  <2>9. CASE \E t \in SessionId : Use(t)
    BY <2>1, <2>3, <2>8, <2>9 DEF Use, user
  <2>10. CASE \E t \in SessionId : Logout(t)
    <3>1. PICK t \in SessionId : Logout(t)
      BY <2>10
    <3>2. revoked[s] => revoked'[s]
      BY <1>1, <3>1 DEF Logout, IInv, TypeOK
    <3> QED BY <2>1, <2>3, <2>8, <3>1, <3>2 DEF Logout, user
  <2>11. CASE \E t \in SessionId, o \in Orgs : Switch(t, o)
    <3>1. PICK t \in SessionId, o \in Orgs : Switch(t, o)
      BY <2>11
    <3>2. revoked[s] => revoked'[s]
      BY <1>1, <3>1 DEF Switch, IInv, TypeOK
    <3>3. Valid(t) /\ Create(login[t], o, RotatedLimit(t), Renewed(t)) /\ UNCHANGED user
      BY <3>1 DEF Switch
    <3> QED BY <2>6, <2>8, <3>2, <3>3
  <2>12. CASE Tick
    <3>1. /\ idle'[s] = IF idle[s] = 0 THEN 0 ELSE idle[s] - 1
          /\ absolute'[s] = IF absolute[s] = 0 THEN 0 ELSE absolute[s] - 1
          /\ UNCHANGED <<created, stamp, revoked, epoch>>
      BY <1>1, <2>12 DEF Tick, Less, IInv, TypeOK, user
    <3> QED BY <2>1, <2>2, <3>1 DEF Expired, Unexpired
  <2>13. CASE Administer
    <3>1. UNCHANGED sessions /\ epoch' \in Nat /\ (epoch' = epoch \/ epoch' = epoch + 1)
      BY <2>1, <2>13 DEF Administer
    <3> QED BY <2>1, <2>2, <3>1 DEF Expired, Unexpired, sessions
  <2>14. CASE UNCHANGED vars
    BY <2>1, <2>3, <2>14 DEF vars, sessions, user
  <2> QED
    BY <1>1, <2>4, <2>5, <2>7, <2>9, <2>10, <2>11, <2>12, <2>13, <2>14 DEF Next
<1> QED BY <1>1, Invariance, PTL DEF Spec, DeadStaysDead
===============================================================================
