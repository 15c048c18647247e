-------------------------- MODULE AdminSessionsProofs --------------------------
(***************************************************************************)
(* Theorems about AdminSessions, for any number of administrators, calls,  *)
(* sessions, secrets and faults, and any lifetimes.                        *)
(***************************************************************************)
EXTENDS AdminSessions, TLAPS

(* The calls about to return a session: each its own, which nobody has yet. *)
CallsOK ==
    /\ mine \in [Calls -> [id : Sessions \cup {0}, stored : BOOLEAN]]
    /\ \A c \in Calls : /\ mine[c].id \notin issued
                        /\ mine[c].stored => mine[c].id # 0
                        /\ \A d \in Calls : c # d /\ mine[c].id # 0 => mine[c].id # mine[d].id
    /\ redis_client \in BOOLEAN

AccountsOK ==
    /\ DOMAIN is_active \subseteq Admins
    /\ secrets \in Nat
    /\ totp_secret \in [Admins -> 0..secrets] /\ device \in [Admins -> 0..secrets]

(* No session was made to outlive the next one. *)
TokensOK ==
    /\ \E n \in 0..MaxSessions : DOMAIN tokens = 1..n
    /\ \A n \in Sessions : /\ tokens[n] \in [admin : DOMAIN is_active, exp : Nat]
                           /\ tokens[n].exp <= clock + SESSION_TIME
    /\ tokens = [n \in Sessions |-> tokens[n]]
    /\ temp \subseteq [admin : DOMAIN is_active, exp : Nat]
    /\ clock \in 0..MaxClock /\ faults \in 0..MaxFaults

StoreOK ==
    /\ store \cup snapshot \subseteq [id : Sessions, until : Nat]
    /\ issued \subseteq Sessions /\ alone \subseteq Sessions /\ lost \subseteq Sessions
    /\ loggedOut \subseteq issued /\ removed \subseteq loggedOut /\ revived \subseteq removed

(* A record lives as long as the JWT it is about, also in a snapshot. *)
Outlives == \A e \in store \cup snapshot : e.until >= tokens[e.id].exp

(* Redis has no record of a session it deleted, unless it loaded it again ... *)
Forgotten == \A n \in removed \ revived, e \in store : e.id # n

(* ... and one of every other that a call has returned, or may return now. *)
Kept(n) == n \in removed \cup lost \cup alone \/ \E e \in store : e.id = n

Remembered == /\ \A n \in issued : Kept(n)
              /\ \A c \in Calls : mine[c].stored => Kept(mine[c].id)

SessionsInv == /\ CallsOK /\ AccountsOK /\ TokensOK /\ StoreOK
               /\ Outlives /\ Forgotten /\ Remembered

-------------------------------------------------------------------------------
(* A token that is made is a new one; all else stays. *)
LEMMA NewSessionKeeps ==
  ASSUME SessionsInv, NEW c \in Calls, NEW a \in Admins, MayLogIn(a), NewSession(c, a),
         UNCHANGED <<people, temp, redis_client, clock, faults, loggedOut, removed, revived,
                     lost>>
  PROVE  SessionsInv'
<1> USE DEF SessionsInv, people
<1>1. PICK n \in 1..MaxSessions :
         /\ mine[c] = NoSession
         /\ DOMAIN tokens = 1..(n - 1)
         /\ tokens' = [m \in 1..n |-> IF m = n THEN [admin |-> a, exp |-> clock + SESSION_TIME]
                                               ELSE tokens[m]]
         /\ mine' = [mine EXCEPT ![c] = [id |-> n, stored |-> ~redis_client]]
         /\ alone' = IF redis_client THEN alone ELSE alone \cup {n}
         /\ UNCHANGED <<issued, store, snapshot>>
  BY DEF NewSession
<1>2. /\ Sessions' = Sessions \cup {n} /\ n \notin Sessions /\ Sessions' = 1..n
      /\ n \in Nat \ {0}
      /\ tokens'[n] = [admin |-> a, exp |-> clock + SESSION_TIME]
      /\ \A m \in Sessions : tokens'[m] = tokens[m]
      /\ clock + SESSION_TIME \in Nat
  BY <1>1, TimeAssumption, BoundsAssumption DEF Sessions, TokensOK
<1>3. CallsOK'
  <2>1. [id |-> n, stored |-> ~redis_client] \in [id : Sessions' \cup {0}, stored : BOOLEAN]
    BY <1>2
  <2>2. mine' \in [Calls -> [id : Sessions' \cup {0}, stored : BOOLEAN]]
    BY <1>1, <1>2, <2>1 DEF CallsOK
  <2>3. \A d \in Calls : mine'[d].id = IF d = c THEN n ELSE mine[d].id
    BY <1>1 DEF CallsOK
  <2>4. \A d \in Calls : mine[d].id # n
    BY <1>2 DEF CallsOK
  <2>5. n \notin issued' /\ issued' = issued
    BY <1>1, <1>2 DEF StoreOK
  <2>6. \A d \in Calls : d # c => mine'[d] = mine[d]
    BY <1>1 DEF CallsOK
  <2> QED BY <1>2, <2>2, <2>3, <2>4, <2>5, <2>6 DEF CallsOK
<1>4. AccountsOK'
  BY DEF AccountsOK
<1>5. TokensOK'
  <2>1. a \in DOMAIN is_active
    BY DEF MayLogIn
  <2>2. DOMAIN tokens' = 1..n /\ n \in 0..MaxSessions
    BY <1>1, <1>2, BoundsAssumption
  <2>3. \A m \in Sessions' : /\ tokens'[m] \in [admin : DOMAIN is_active', exp : Nat]
                             /\ tokens'[m].exp <= clock' + SESSION_TIME
    BY <1>2, <2>1, TimeAssumption DEF TokensOK
  <2>4. tokens' = [m \in Sessions' |-> tokens'[m]]
    BY <1>1, <1>2
  <2> QED BY <2>2, <2>3, <2>4 DEF TokensOK
<1>6. StoreOK' /\ Forgotten'
  BY <1>1, <1>2 DEF StoreOK, Forgotten
<1>7. Outlives'
  BY <1>1, <1>2 DEF StoreOK, Outlives
<1>8. Remembered'
  <2>1. \A m : Kept(m) => Kept(m)'
    BY <1>1 DEF Kept
  <2>2. (mine[c].stored => Kept(mine[c].id))'
    BY <1>1 DEF Kept, CallsOK
  <2>3. \A d \in Calls : d # c => mine'[d] = mine[d]
    BY <1>1 DEF CallsOK
  <2> QED BY <1>1, <2>1, <2>2, <2>3 DEF Remembered
<1> QED BY <1>3, <1>4, <1>5, <1>6, <1>7, <1>8

(* No password and no code does more than make a token. *)
LEMMA LoginKeeps ==
  ASSUME SessionsInv, NEW c \in Calls, NEW a \in Admins, Login(c, a) \/ Verify(c, a)
  PROVE  SessionsInv'
<1>1. CASE Login(c, a)
  BY <1>1, NewSessionKeeps DEF Login, observers
<1>2. CASE Verify(c, a)
  BY <1>2, NewSessionKeeps DEF Verify
<1> QED BY <1>1, <1>2

(* The record of a session is stored before anybody has its JWT: it was not
   deleted yet, and it will live at least as long. *)
LEMMA StoreSessionKeeps ==
  ASSUME SessionsInv, NEW c \in Calls, StoreSession(c)
  PROVE  SessionsInv'
<1> USE DEF SessionsInv, people
<1> DEFINE n == mine[c].id
           new == [id |-> n, until |-> clock + SESSION_TIME]
<1>1. /\ n # 0
      /\ store' = store \cup {new}
      /\ mine' = [mine EXCEPT ![c].stored = TRUE]
      /\ UNCHANGED <<people, tokens, issued, temp, snapshot, redis_client, clock, faults,
                     observers>>
  BY DEF StoreSession
<1>2. n \in Sessions /\ n \notin issued
  BY <1>1 DEF CallsOK
<1>3. clock \in Nat /\ clock + SESSION_TIME \in Nat /\ tokens[n].exp <= clock + SESSION_TIME
  BY <1>2, TimeAssumption, BoundsAssumption DEF TokensOK
<1>4. new.id = n /\ new.until = clock + SESSION_TIME /\ new \in [id : Sessions, until : Nat]
  BY <1>2, <1>3
<1> HIDE DEF n, new
<1>5. CallsOK'
  <2>1. \A d \in Calls : mine'[d].id = mine[d].id
    BY <1>1 DEF CallsOK
  <2>2. mine' \in [Calls -> [id : Sessions \cup {0}, stored : BOOLEAN]]
    BY <1>1 DEF CallsOK
  <2>3. \A d \in Calls : mine'[d].stored => mine'[d].id # 0
    BY <1>1 DEF CallsOK, n
  <2> QED BY <1>1, <2>1, <2>2, <2>3 DEF CallsOK, Sessions
<1>6. AccountsOK' /\ TokensOK'
  BY <1>1 DEF AccountsOK, TokensOK, Sessions
<1>7. StoreOK'
  BY <1>1, <1>2, <1>4 DEF StoreOK, Sessions, observers
<1>8. Outlives' /\ Forgotten'
  BY <1>1, <1>2, <1>3, <1>4 DEF StoreOK, Outlives, Forgotten, observers
<1>9. Remembered'
  <2>1. \A m : Kept(m) => Kept(m)'
    BY <1>1 DEF Kept, observers
  <2>2. mine'[c].id = n
    BY <1>1 DEF CallsOK, n
  <2>3. Kept(mine[c].id)'
    BY <1>1, <1>4, <2>2 DEF Kept
  <2>4. \A d \in Calls : d # c => mine'[d] = mine[d]
    BY <1>1 DEF CallsOK
  <2> QED BY <1>1, <2>1, <2>3, <2>4 DEF Remembered
<1> QED BY <1>5, <1>6, <1>7, <1>8, <1>9

(* A call that leaves has nothing more to return. *)
LEMMA LeaveKeeps ==
  ASSUME CallsOK, NEW c \in Calls, Leave(c)
  PROVE  /\ mine' \in [Calls -> [id : Sessions \cup {0}, stored : BOOLEAN]]
         /\ mine'[c].id = 0 /\ ~mine'[c].stored
         /\ \A d \in Calls \ {c} : mine'[d] = mine[d]
<1>1. NoSession \in [id : Sessions \cup {0}, stored : BOOLEAN]
  BY DEF NoSession
<1>2. NoSession.id = 0 /\ ~NoSession.stored
  BY DEF NoSession
<1>3. mine' = [mine EXCEPT ![c] = NoSession]
  BY DEF Leave
<1> HIDE DEF NoSession
<1> QED BY <1>1, <1>2, <1>3 DEF CallsOK

(* A session that is returned is returned by one call. *)
LEMMA ReturnSessionKeeps ==
  ASSUME SessionsInv, NEW c \in Calls, ReturnSession(c)
  PROVE  SessionsInv'
<1> USE DEF SessionsInv, ReturnSession, people, observers
<1>1. CallsOK'
  <2>1. /\ mine' \in [Calls -> [id : Sessions \cup {0}, stored : BOOLEAN]]
        /\ mine'[c].id = 0 /\ ~mine'[c].stored
        /\ \A d \in Calls \ {c} : mine'[d] = mine[d]
    BY LeaveKeeps
  <2>2. 0 \notin Sessions
    BY DEF TokensOK, Sessions
  <2>3. Sessions' = Sessions
    BY DEF Sessions
  <2> QED BY <2>1, <2>2, <2>3 DEF CallsOK, StoreOK
<1>2. AccountsOK' /\ TokensOK'
  BY DEF AccountsOK, TokensOK, Sessions
<1>3. StoreOK'
  BY DEF StoreOK, CallsOK, Sessions
<1>4. Outlives' /\ Forgotten'
  BY DEF Outlives, Forgotten
<1>5. Remembered'
  BY LeaveKeeps DEF Remembered, Kept
<1> QED BY <1>1, <1>2, <1>3, <1>4, <1>5

(* A call that fails leaves its record behind, if it stored one. *)
LEMMA SignInFailsKeeps ==
  ASSUME SessionsInv, NEW c \in Calls, SignInFails(c)
  PROVE  SessionsInv'
<1> USE DEF SessionsInv, SignInFails, Fault, people, sessions, observers
<1>1. CallsOK'
  <2>1. /\ mine' \in [Calls -> [id : Sessions \cup {0}, stored : BOOLEAN]]
        /\ mine'[c].id = 0 /\ ~mine'[c].stored
        /\ \A d \in Calls \ {c} : mine'[d] = mine[d]
    BY LeaveKeeps
  <2>2. 0 \notin Sessions
    BY DEF TokensOK, Sessions
  <2>3. Sessions' = Sessions
    BY DEF Sessions
  <2> QED BY <2>1, <2>2, <2>3 DEF CallsOK, StoreOK
<1>2. AccountsOK' /\ TokensOK'
  BY BoundsAssumption DEF AccountsOK, TokensOK, Sessions
<1>3. StoreOK' /\ Outlives' /\ Forgotten'
  BY DEF StoreOK, Outlives, Forgotten, Sessions
<1>4. Remembered'
  BY LeaveKeeps DEF Remembered, Kept
<1> QED BY <1>1, <1>2, <1>3, <1>4

-------------------------------------------------------------------------------
(* The steps that leave tokens, records and calls alone. *)

(* What is said of sessions does not depend on secrets, and not on how many
   failures there were; accounts are only ever added. *)
LEMMA AccountsChange ==
  ASSUME SessionsInv,
         AccountsOK',
         DOMAIN is_active \subseteq DOMAIN is_active',
         faults' \in 0..MaxFaults,
         temp' \subseteq [admin : DOMAIN is_active', exp : Nat],
         UNCHANGED <<tokens, issued, store, snapshot, redis_client, clock, mine, loggedOut,
                     removed, revived, alone, lost>>
  PROVE  SessionsInv'
<1> USE DEF SessionsInv
<1>1. CallsOK'
  BY DEF CallsOK, Sessions
<1>2. TokensOK'
  BY DEF TokensOK, Sessions
<1>3. StoreOK' /\ Outlives' /\ Forgotten' /\ Remembered'
  BY DEF StoreOK, Outlives, Forgotten, Remembered, Kept, Sessions
<1> QED BY <1>1, <1>2, <1>3

(* A temp token is of an account that exists. *)
LEMMA LoginFirstFactorKeeps ==
  ASSUME SessionsInv, NEW a \in Admins, LoginFirstFactor(a)
  PROVE  SessionsInv'
<1>1. AccountsOK' /\ faults' \in 0..MaxFaults /\ UNCHANGED is_active
  BY DEF SessionsInv, TokensOK, AccountsOK, LoginFirstFactor, people
<1>2. [admin |-> a, exp |-> clock + TEMP_TIME] \in [admin : DOMAIN is_active, exp : Nat]
  BY TimeAssumption, BoundsAssumption DEF LoginFirstFactor, MayLogIn, SessionsInv, TokensOK
<1>3. temp' \subseteq [admin : DOMAIN is_active', exp : Nat]
  BY <1>1, <1>2 DEF LoginFirstFactor, SessionsInv, TokensOK
<1> QED BY <1>1, <1>3, AccountsChange DEF LoginFirstFactor, observers

(* The new secret is the last one made. *)
LEMMA NewSecretKeeps ==
  ASSUME SessionsInv, NEW a, NewSecret(a)
  PROVE  AccountsOK' /\ UNCHANGED is_active
BY DEF SessionsInv, AccountsOK, NewSecret

(* A check of a session may cost a failure of Redis. *)
LEMMA AcceptsKeeps ==
  ASSUME SessionsInv, NEW n \in issued, Accepts(n)
  PROVE  faults' \in 0..MaxFaults
BY BoundsAssumption DEF SessionsInv, TokensOK, Accepts, Fault

(* A new secret ends no session. *)
LEMMA SetupKeeps ==
  ASSUME SessionsInv,
         \/ \E a \in Admins : SetupByTemp(a)
         \/ \E n \in issued : SetupBySession(n)
  PROVE  SessionsInv'
<1>1. \E a : NewSecret(a)
  BY DEF SetupByTemp, SetupBySession
<1>2. AccountsOK' /\ UNCHANGED is_active
  BY <1>1, NewSecretKeeps
<1>3. faults' \in 0..MaxFaults
  BY AcceptsKeeps DEF SetupByTemp, SetupBySession, SessionsInv, TokensOK
<1>4. UNCHANGED <<tokens, issued, temp, store, snapshot, redis_client, clock, mine, loggedOut,
                  removed, revived, alone, lost>>
  BY DEF SetupByTemp, SetupBySession, sessions
<1>5. temp' \subseteq [admin : DOMAIN is_active', exp : Nat]
  BY <1>2, <1>4 DEF SessionsInv, TokensOK
<1> QED BY <1>2, <1>3, <1>4, <1>5, AccountsChange

(* Nor does a new account. *)
LEMMA CreateAdminKeeps ==
  ASSUME SessionsInv, NEW n \in issued, NEW a \in Admins, NEW active \in BOOLEAN,
         CreateAdmin(n, a, active)
  PROVE  SessionsInv'
<1>1. DOMAIN is_active' = DOMAIN is_active \cup {a}
  BY DEF CreateAdmin
<1>2. UNCHANGED <<totp_secret, device, secrets, sessions, redis_client, clock, mine, observers>>
  BY DEF CreateAdmin
<1>3. faults' \in 0..MaxFaults
  BY AcceptsKeeps DEF CreateAdmin
<1>4. AccountsOK'
  BY <1>1, <1>2 DEF SessionsInv, AccountsOK
<1>5. temp' \subseteq [admin : DOMAIN is_active', exp : Nat]
  BY <1>1, <1>2 DEF SessionsInv, TokensOK, sessions
<1> QED BY <1>1, <1>2, <1>3, <1>4, <1>5, AccountsChange DEF sessions, observers

-------------------------------------------------------------------------------
(* The steps by which records go, and time. *)

(* A logout takes one session's records, or, if Redis does not answer, none. *)
LEMMA LogoutKeeps ==
  ASSUME SessionsInv, NEW n \in issued, Logout(n)
  PROVE  SessionsInv'
<1> USE DEF SessionsInv
<1>1. /\ loggedOut' = loggedOut \cup {n}
      /\ UNCHANGED <<people, tokens, issued, temp, snapshot, redis_client, clock, mine,
                     alone, lost, confirmed>>
      /\ \/ /\ store' = {e \in store : e.id # n}
            /\ removed' = removed \cup {n} /\ revived' = revived \ {n}
         \/ UNCHANGED <<store, removed, revived>>
  BY DEF Logout, Without
<1>2. faults' \in 0..MaxFaults
  BY AcceptsKeeps DEF Logout
<1>3. CallsOK' /\ AccountsOK'
  BY <1>1 DEF CallsOK, AccountsOK, Sessions, people
<1>4. TokensOK'
  BY <1>1, <1>2 DEF TokensOK, Sessions, people
<1>5. StoreOK'
  BY <1>1 DEF StoreOK, Sessions
<1>6. Outlives' /\ Forgotten' /\ Remembered'
  BY <1>1 DEF Outlives, Forgotten, Remembered, Kept
<1> QED BY <1>3, <1>4, <1>5, <1>6

(* An evicted session is one Redis lost. *)
LEMMA EvictKeeps ==
  ASSUME SessionsInv, Evict
  PROVE  SessionsInv'
<1> USE DEF SessionsInv
<1>1. PICK e \in store :
         /\ store' = store \ {e}
         /\ lost' = lost \cup {e.id}
         /\ UNCHANGED <<people, tokens, issued, temp, snapshot, redis_client, clock, mine,
                        loggedOut, removed, revived, alone, confirmed>>
  BY DEF Evict
<1>2. faults' \in 0..MaxFaults
  BY BoundsAssumption DEF Evict, Fault, TokensOK
<1>3. CallsOK' /\ AccountsOK'
  BY <1>1 DEF CallsOK, AccountsOK, Sessions, people
<1>4. TokensOK'
  BY <1>1, <1>2 DEF TokensOK, Sessions, people
<1>5. StoreOK'
  BY <1>1 DEF StoreOK, Sessions
<1>6. Outlives' /\ Forgotten' /\ Remembered'
  BY <1>1 DEF Outlives, Forgotten, Remembered, Kept
<1> QED BY <1>3, <1>4, <1>5, <1>6

(* A snapshot is a copy. *)
LEMMA SaveSnapshotKeeps ==
  ASSUME SessionsInv, SaveSnapshot
  PROVE  SessionsInv'
<1> USE DEF SessionsInv, SaveSnapshot, people, observers
<1>1. CallsOK' /\ AccountsOK' /\ TokensOK'
  BY DEF CallsOK, AccountsOK, TokensOK, Sessions
<1>2. StoreOK' /\ Outlives'
  BY DEF StoreOK, Outlives, Sessions
<1>3. Forgotten' /\ Remembered'
  BY DEF Forgotten, Remembered, Kept
<1> QED BY <1>1, <1>2, <1>3

(* What Redis knew and no longer knows is lost, and what it deleted and knows
   again is revived. *)
LEMMA RedisRestartsKeeps ==
  ASSUME SessionsInv, RedisRestarts
  PROVE  SessionsInv'
<1> USE DEF SessionsInv
<1>1. /\ store' = snapshot
      /\ lost' = lost \cup ({e.id : e \in store} \ {e.id : e \in snapshot})
      /\ revived' = revived \cup {n \in removed : \E e \in snapshot : e.id = n}
      /\ UNCHANGED <<people, tokens, issued, temp, snapshot, redis_client, clock, mine,
                     loggedOut, removed, alone, confirmed>>
  BY DEF RedisRestarts
<1>2. faults' \in 0..MaxFaults
  BY BoundsAssumption DEF RedisRestarts, Fault, TokensOK
<1>3. CallsOK' /\ AccountsOK'
  BY <1>1 DEF CallsOK, AccountsOK, Sessions, people
<1>4. TokensOK'
  BY <1>1, <1>2 DEF TokensOK, Sessions, people
<1>5. StoreOK'
  BY <1>1 DEF StoreOK, Sessions
<1>6. Outlives' /\ Forgotten'
  BY <1>1 DEF Outlives, Forgotten
<1>7. \A n : Kept(n) => Kept(n)'
  BY <1>1 DEF Kept
<1>8. Remembered'
  BY <1>1, <1>7 DEF Remembered
<1> QED BY <1>3, <1>4, <1>5, <1>6, <1>8

(* The calls die with the process; Redis does not. *)
LEMMA RestartKeeps ==
  ASSUME SessionsInv, Restart
  PROVE  SessionsInv'
<1> USE DEF SessionsInv
<1>1. /\ mine' = [c \in Calls |-> NoSession]
      /\ redis_client' \in BOOLEAN
      /\ UNCHANGED <<people, sessions, clock, observers>>
  BY DEF Restart
<1>2. faults' \in 0..MaxFaults
  BY BoundsAssumption DEF Restart, Fault, TokensOK
<1>3. NoSession \in [id : Sessions \cup {0}, stored : BOOLEAN] /\ NoSession.id = 0 /\ ~NoSession.stored
  BY DEF NoSession
<1>4. 0 \notin issued
  BY DEF TokensOK, StoreOK, Sessions
<1> HIDE DEF NoSession
<1>5. CallsOK'
  BY <1>1, <1>3, <1>4 DEF CallsOK, Sessions, sessions
<1>6. AccountsOK' /\ TokensOK'
  BY <1>1, <1>2 DEF AccountsOK, TokensOK, Sessions, people, sessions
<1>7. StoreOK' /\ Outlives' /\ Forgotten'
  BY <1>1 DEF StoreOK, Outlives, Forgotten, Sessions, sessions, observers
<1>8. Remembered'
  BY <1>1, <1>3 DEF Remembered, Kept, sessions, observers
<1> QED BY <1>5, <1>6, <1>7, <1>8

(* Tokens made earlier do not outlive those made now. *)
LEMMA TickKeeps ==
  ASSUME SessionsInv, Tick
  PROVE  SessionsInv'
<1> USE DEF SessionsInv, Tick, people, sessions, observers
<1>1. CallsOK' /\ AccountsOK'
  BY DEF CallsOK, AccountsOK, Sessions
<1>2. TokensOK'
  BY BoundsAssumption, TimeAssumption DEF TokensOK, Sessions
<1>3. StoreOK' /\ Outlives' /\ Forgotten' /\ Remembered'
  BY DEF StoreOK, Outlives, Forgotten, Remembered, Kept, Sessions
<1> QED BY <1>1, <1>2, <1>3

-------------------------------------------------------------------------------
(* At first there is an account, and no session. *)
LEMMA SessionsInit == Init => SessionsInv
<1> SUFFICES ASSUME Init PROVE SessionsInv
  OBVIOUS
<1>1. Sessions = {} /\ Sessions = 1..0
  BY DEF Init, Sessions
<1>2. CallsOK
  <2>1. NoSession \in [id : Sessions \cup {0}, stored : BOOLEAN] /\ NoSession.id = 0 /\ ~NoSession.stored
    BY DEF NoSession
  <2>2. mine = [c \in Calls |-> NoSession] /\ issued = {} /\ redis_client \in BOOLEAN
    BY DEF Init
  <2> HIDE DEF NoSession
  <2> QED BY <2>1, <2>2 DEF CallsOK
<1>3. AccountsOK
  BY AdminAssumption DEF Init, AccountsOK
<1>4. TokensOK
  BY <1>1, BoundsAssumption DEF Init, TokensOK, Sessions
<1>5. StoreOK /\ Outlives /\ Forgotten /\ Remembered
  BY DEF Init, StoreOK, Outlives, Forgotten, Remembered, NoSession
<1> QED BY <1>2, <1>3, <1>4, <1>5 DEF SessionsInv

(* One case for each action. *)
LEMMA SessionsNext == SessionsInv /\ [Next]_vars => SessionsInv'
<1> SUFFICES ASSUME SessionsInv, [Next]_vars PROVE SessionsInv'
  OBVIOUS
<1>1. CASE UNCHANGED vars
  <2>1. /\ UNCHANGED <<tokens, issued, temp, store, snapshot, redis_client, clock, faults, mine,
                       loggedOut, removed, revived, alone, lost, is_active>>
        /\ AccountsOK'
    BY <1>1 DEF vars, people, sessions, observers, SessionsInv, AccountsOK
  <2>2. faults' \in 0..MaxFaults /\ temp' \subseteq [admin : DOMAIN is_active', exp : Nat]
    BY <2>1 DEF SessionsInv, TokensOK
  <2> QED BY <2>1, <2>2, AccountsChange
<1>2. ASSUME NEW c \in Calls,
             \/ \E a \in Admins : Login(c, a) \/ Verify(c, a)
             \/ StoreSession(c) \/ ReturnSession(c) \/ SignInFails(c)
      PROVE  SessionsInv'
  BY <1>2, LoginKeeps, StoreSessionKeeps, ReturnSessionKeeps, SignInFailsKeeps
<1>3. ASSUME NEW a \in Admins, LoginFirstFactor(a) \/ SetupByTemp(a) PROVE SessionsInv'
  BY <1>3, LoginFirstFactorKeeps, SetupKeeps
<1>4. ASSUME NEW n \in issued,
             \/ SetupBySession(n) \/ Logout(n)
             \/ \E a \in Admins, active \in BOOLEAN : CreateAdmin(n, a, active)
      PROVE  SessionsInv'
  BY <1>4, SetupKeeps, LogoutKeeps, CreateAdminKeeps
<1> QED
  BY <1>1, <1>2, <1>3, <1>4, TickKeeps, EvictKeeps, SaveSnapshotKeeps, RedisRestartsKeeps,
     RestartKeeps DEF Next

(* Hence the invariant holds for ever. *)
LEMMA SessionsInvariant == Spec => []SessionsInv
BY SessionsInit, SessionsNext, PTL DEF Spec

(* TypeOK: records, logouts and calls are about sessions that were made, and no
   two calls return the same one. *)
THEOREM SessionsTypeCorrect == Spec => []TypeOK
<1>1. SessionsInv => TypeOK
  <2> SUFFICES ASSUME SessionsInv PROVE TypeOK
    OBVIOUS
  <2>1. \E n \in 0..MaxSessions : tokens \in [1..n -> [admin : DOMAIN is_active, exp : Nat]]
    <3>1. PICK n \in 0..MaxSessions : DOMAIN tokens = 1..n
      BY DEF SessionsInv, TokensOK
    <3>2. tokens = [m \in 1..n |-> tokens[m]]
      BY <3>1 DEF SessionsInv, TokensOK, Sessions
    <3>3. \A m \in 1..n : tokens[m] \in [admin : DOMAIN is_active, exp : Nat]
      BY <3>1 DEF SessionsInv, TokensOK, Sessions
    <3>4. tokens \in [1..n -> [admin : DOMAIN is_active, exp : Nat]]
      BY <3>2, <3>3
    <3> QED BY <3>4
  <2>2. \A c \in Calls : mine[c].id \in (Sessions \cup {0}) \ issued
    BY DEF SessionsInv, CallsOK
  <2>3. \A c, d \in Calls : c # d /\ mine[c].id # 0 => mine[c].id # mine[d].id
    BY DEF SessionsInv, CallsOK
  <2> QED BY <2>1, <2>2, <2>3 DEF SessionsInv, CallsOK, AccountsOK, TokensOK, StoreOK, TypeOK
<1> QED BY SessionsInvariant, <1>1, PTL

(* RevokedStaysRevoked: a session that Redis deleted for a logout is known to it
   again only if it restarted from a snapshot that has it. *)
THEOREM RevocationIsFinal == Spec => []RevokedStaysRevoked
<1>1. SessionsInv => RevokedStaysRevoked
  BY DEF SessionsInv, Forgotten, RevokedStaysRevoked, Stored
<1> QED BY SessionsInvariant, <1>1, PTL

(* SessionIsKept: a session is known to Redis as long as its JWT is valid, unless
   it was logged out, lost by Redis, or made by a process without Redis. *)
THEOREM SessionsLast == Spec => []SessionIsKept
<1>1. SessionsInv => SessionIsKept
  <2> SUFFICES ASSUME SessionsInv, NEW n \in issued \ (removed \cup lost \cup alone),
                      tokens[n].exp > clock
               PROVE  Stored(n)
    BY DEF SessionIsKept
  <2>1. PICK e \in store : e.id = n /\ e.until >= tokens[n].exp
    BY DEF SessionsInv, Remembered, Kept, Outlives
  <2>2. e.until \in Nat /\ tokens[n].exp \in Nat /\ clock \in Nat
    BY BoundsAssumption DEF SessionsInv, StoreOK, TokensOK
  <2> QED BY <2>1, <2>2 DEF Stored
<1> QED BY SessionsInvariant, <1>1, PTL
===============================================================================
