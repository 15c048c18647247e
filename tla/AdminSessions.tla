----------------------------- MODULE AdminSessions -----------------------------
(***************************************************************************)
(* Administrators' sign-in: password, TOTP code, session tokens, and their *)
(* records in Redis by which a session can be revoked (gateway/main.py,    *)
(* gateway/admin_auth.py).                                                 *)
(*                                                                         *)
(* A call is one handler of admin_login or admin_totp_verify in flight;    *)
(* its steps are separated where it awaits Redis or the database.  Only    *)
(* calls with the right password, and a code computed from the secret in   *)
(* the administrator's device, are modelled: a refused call changes        *)
(* nothing here (module LoginLimit counts it).                             *)
(***************************************************************************)
EXTENDS Integers

CONSTANTS Admins, ADMIN_EMAIL,   \* accounts; the one made at first startup
          Calls,
          SESSION_TIME,          \* JWT_SESSION_HOURS, in ticks
          TEMP_TIME,             \* JWT_TEMP_MINUTES, in ticks
          MaxClock,              \* bound: last tick
          MaxSessions,           \* bound: session tokens made
          MaxSecrets,            \* bound: TOTP secrets made
          MaxFaults              \* bound: restarts and failures of Redis

ASSUME AdminAssumption == ADMIN_EMAIL \in Admins
ASSUME TimeAssumption == SESSION_TIME \in Nat \ {0} /\ TEMP_TIME \in Nat \ {0}
ASSUME BoundsAssumption == /\ MaxClock \in Nat /\ MaxFaults \in Nat
                           /\ MaxSessions \in Nat /\ MaxSecrets \in Nat

VARIABLES is_active,     \* rows of admin_users: a function of their emails
          totp_secret,   \* totp_secret[a], a number; 0 is NULL
          device,        \* device[a]: the secret the administrator scanned
          tokens,        \* tokens[n]: what the JWT of session n says
          issued,        \* sessions whose JWT was returned
          temp,          \* temp tokens returned
          store,         \* Redis: session records and when they expire
          snapshot,      \* those of its last RDB file, in the volume redisdata
          redis_client,  \* the process found Redis when it started
          clock, secrets, faults,
          mine           \* mine[c]: session that call c is about to return,
                         \* and whether it still has to store it

(* Observers. *)
VARIABLES loggedOut,     \* sessions whose logout was answered
          removed,       \* sessions whose record Redis deleted for a logout
          revived,       \* ... and loaded again, from an older snapshot
          alone,         \* sessions made by a process without Redis
          lost,          \* sessions whose record Redis dropped by itself
          confirmed      \* administrators who verified a code of their secret

people == <<is_active, totp_secret, device, secrets>>
sessions == <<tokens, issued, temp, store, snapshot>>
observers == <<loggedOut, removed, revived, alone, lost, confirmed>>
vars == <<people, sessions, redis_client, clock, faults, mine, observers>>

Fault == faults < MaxFaults /\ faults' = faults + 1

NoSession == [id |-> 0, stored |-> FALSE]

(* Faulty variant: the handler's end may be run again. *)
Leave_Again(c) == UNCHANGED mine

Leave(c) == mine' = [mine EXCEPT ![c] = NoSession]

Stored(n) == \E e \in store : e.id = n /\ e.until > clock

Without(n) == {e \in store : e.id # n}

(* decode_token accepts the JWT of session n, which was returned. *)
Presentable(n) == n \in issued /\ tokens[n].exp > clock

(* require_admin_session lets session n pass: Redis knows it, or the gateway
   runs without Redis, or Redis does not answer. *)
Accepts(n) == /\ Presentable(n)
              /\ \/ (redis_client => Stored(n)) /\ UNCHANGED faults
                 \/ redis_client /\ Fault

-------------------------------------------------------------------------------
(* bootstrap_admin has made the first account. *)
Init == /\ is_active = [a \in {ADMIN_EMAIL} |-> TRUE]
        /\ totp_secret = [a \in Admins |-> 0]
        /\ device = [a \in Admins |-> 0]
        /\ tokens = [n \in {} |-> {}]
        /\ issued = {} /\ temp = {} /\ store = {} /\ snapshot = {}
        /\ redis_client \in BOOLEAN
        /\ clock = 0 /\ secrets = 0 /\ faults = 0
        /\ mine = [c \in Calls |-> NoSession]
        /\ loggedOut = {} /\ removed = {} /\ revived = {} /\ alone = {}
        /\ lost = {} /\ confirmed = {}

MayLogIn(a) == a \in DOMAIN is_active /\ is_active[a]

(* create_session_token: a JWT that this call is going to return. *)
NewSession(c, a) == \E n \in 1..MaxSessions :
    /\ mine[c] = NoSession
    /\ DOMAIN tokens = 1..(n - 1)
    /\ tokens' = [m \in 1..n |-> IF m = n THEN [admin |-> a, exp |-> clock + SESSION_TIME]
                                          ELSE tokens[m]]
    /\ mine' = [mine EXCEPT ![c] = [id |-> n, stored |-> ~redis_client]]
    /\ alone' = IF redis_client THEN alone ELSE alone \cup {n}
    /\ UNCHANGED <<issued, store, snapshot>>

(* POST /admin/login without TOTP: a session. *)
Login(c, a) ==
    /\ MayLogIn(a)
    /\ totp_secret[a] = 0
    /\ NewSession(c, a)
    /\ UNCHANGED <<people, temp, redis_client, clock, faults, loggedOut, removed, revived,
                   lost, confirmed>>

(* ... and with TOTP: a temp token. *)
LoginFirstFactor(a) ==
    /\ MayLogIn(a)
    /\ totp_secret[a] # 0
    /\ temp' = temp \cup {[admin |-> a, exp |-> clock + TEMP_TIME]}
    /\ UNCHANGED <<people, tokens, issued, store, snapshot, redis_client, clock, faults, mine,
                   observers>>

(* POST /admin/totp/verify with a temp token and a code that fits. *)
Verify(c, a) ==
    /\ \E t \in temp : t.admin = a /\ t.exp > clock
    /\ MayLogIn(a)
    /\ totp_secret[a] # 0 /\ device[a] = totp_secret[a]
    /\ NewSession(c, a)
    /\ confirmed' = confirmed \cup {a}
    /\ UNCHANGED <<people, temp, redis_client, clock, faults, loggedOut, removed, revived,
                   lost>>

(* Faulty variant: the record lives as long as a temp token. *)
StoreSession_Short(c) ==
    /\ mine[c].id # 0 /\ ~mine[c].stored
    /\ store' = store \cup {[id |-> mine[c].id, until |-> clock + TEMP_TIME]}
    /\ mine' = [mine EXCEPT ![c].stored = TRUE]
    /\ UNCHANGED <<people, tokens, issued, temp, snapshot, redis_client, clock, faults,
                   observers>>

(* store_session: SETEX. *)
StoreSession(c) ==
    /\ mine[c].id # 0 /\ ~mine[c].stored
    /\ store' = store \cup {[id |-> mine[c].id, until |-> clock + SESSION_TIME]}
    /\ mine' = [mine EXCEPT ![c].stored = TRUE]
    /\ UNCHANGED <<people, tokens, issued, temp, snapshot, redis_client, clock, faults,
                   observers>>

(* last_login_at is written and the JWT returned. *)
ReturnSession(c) ==
    /\ mine[c].stored
    /\ issued' = issued \cup {mine[c].id}
    /\ Leave(c)
    /\ UNCHANGED <<people, tokens, temp, store, snapshot, redis_client, clock, faults,
                   observers>>

(* Redis or the database fails: a 500, and no JWT.  A record may stay. *)
SignInFails(c) ==
    /\ mine[c].id # 0
    /\ Fault
    /\ Leave(c)
    /\ UNCHANGED <<people, sessions, redis_client, clock, observers>>

-------------------------------------------------------------------------------
(* A new secret is stored; the administrator scans the code, or does not. *)
NewSecret(a) == /\ a \in DOMAIN is_active
                /\ secrets < MaxSecrets
                /\ secrets' = secrets + 1
                /\ totp_secret' = [totp_secret EXCEPT ![a] = secrets + 1]
                /\ device' \in {device, [device EXCEPT ![a] = secrets + 1]}
                /\ confirmed' = confirmed \ {a}
                /\ UNCHANGED is_active

(* POST /admin/totp/setup with a temp token ... *)
SetupByTemp(a) ==
    /\ \E t \in temp : t.admin = a /\ t.exp > clock
    /\ NewSecret(a)
    /\ UNCHANGED <<sessions, redis_client, clock, faults, mine, loggedOut, removed, revived,
                   alone, lost>>

(* ... or from the dashboard, with a session. *)
SetupBySession(n) ==
    /\ Accepts(n)
    /\ NewSecret(tokens[n].admin)
    /\ UNCHANGED <<sessions, redis_client, clock, mine, loggedOut, removed, revived, alone, lost>>

(* Faulty variant: a session that is used is stored again. *)
CreateAdmin_Renews(n, a, active) ==
    /\ Accepts(n)
    /\ a \notin DOMAIN is_active
    /\ is_active' = [b \in DOMAIN is_active \cup {a} |->
                        IF b = a THEN active ELSE is_active[b]]
    /\ store' = store \cup {[id |-> n, until |-> clock + SESSION_TIME]}
    /\ UNCHANGED <<totp_secret, device, secrets, tokens, issued, temp, snapshot, redis_client,
                   clock, mine, observers>>

(* POST /admin/admins: an email that is taken is refused. *)
CreateAdmin(n, a, active) ==
    /\ Accepts(n)
    /\ a \notin DOMAIN is_active
    /\ is_active' = [b \in DOMAIN is_active \cup {a} |->
                        IF b = a THEN active ELSE is_active[b]]
    /\ UNCHANGED <<totp_secret, device, secrets, sessions, redis_client, clock, mine, observers>>

(* POST /admin/logout: revoke_session deletes the record.  It swallows the
   errors of Redis, and without Redis does nothing. *)
Logout(n) ==
    /\ Accepts(n)
    /\ loggedOut' = loggedOut \cup {n}
    /\ \/ /\ redis_client
          /\ store' = Without(n)
          /\ removed' = removed \cup {n}
          /\ revived' = revived \ {n}
       \/ /\ redis_client => faults' # faults   \* Redis does not answer
          /\ UNCHANGED <<store, removed, revived>>
    /\ UNCHANGED <<people, tokens, issued, temp, snapshot, redis_client, clock, mine,
                   alone, lost, confirmed>>

-------------------------------------------------------------------------------
Tick == /\ clock < MaxClock
        /\ clock' = clock + 1
        /\ UNCHANGED <<people, sessions, redis_client, faults, mine, observers>>

(* Redis drops a record by itself: it evicts keys when its memory is full. *)
Evict == \E e \in store :
    /\ Fault
    /\ store' = store \ {e}
    /\ lost' = lost \cup {e.id}
    /\ UNCHANGED <<people, tokens, issued, temp, snapshot, redis_client, clock, mine,
                   loggedOut, removed, revived, alone, confirmed>>

(* It saves its keys now and then, and before it stops if it is told to. *)
SaveSnapshot ==
    /\ snapshot' = store
    /\ UNCHANGED <<people, tokens, issued, temp, store, redis_client, clock, faults, mine,
                   observers>>

(* When it starts again it knows what it saved last: not the sessions stored
   since, but again those deleted since. *)
RedisRestarts ==
    /\ Fault
    /\ store' = snapshot
    /\ lost' = lost \cup ({e.id : e \in store} \ {e.id : e \in snapshot})
    /\ revived' = revived \cup {n \in removed : \E e \in snapshot : e.id = n}
    /\ UNCHANGED <<people, tokens, issued, temp, snapshot, redis_client, clock, mine,
                   loggedOut, removed, alone, confirmed>>

(* The gateway restarts; its calls die; Redis is looked for again. *)
Restart == /\ Fault
           /\ redis_client' \in BOOLEAN
           /\ mine' = [c \in Calls |-> NoSession]
           /\ UNCHANGED <<people, sessions, clock, observers>>

Next == \/ \E c \in Calls : \/ \E a \in Admins : Login(c, a) \/ Verify(c, a)
                            \/ StoreSession(c) \/ ReturnSession(c) \/ SignInFails(c)
        \/ \E a \in Admins : LoginFirstFactor(a) \/ SetupByTemp(a)
        \/ \E n \in issued : \/ SetupBySession(n) \/ Logout(n)
                             \/ \E a \in Admins, active \in BOOLEAN : CreateAdmin(n, a, active)
        \/ Tick \/ Evict \/ SaveSnapshot \/ RedisRestarts \/ Restart

Spec == Init /\ [][Next]_vars

-------------------------------------------------------------------------------
(* Properties. *)

Sessions == DOMAIN tokens

(* Type invariant: records, logouts and calls are about sessions that were
   made, one call for each. *)
TypeOK ==
    /\ DOMAIN is_active \subseteq Admins
    /\ totp_secret \in [Admins -> 0..secrets] /\ device \in [Admins -> 0..secrets]
    /\ \E n \in 0..MaxSessions : tokens \in [1..n -> [admin : DOMAIN is_active, exp : Nat]]
    /\ temp \subseteq [admin : DOMAIN is_active, exp : Nat]
    /\ store \cup snapshot \subseteq [id : Sessions, until : Nat]
    /\ issued \subseteq Sessions /\ alone \subseteq Sessions /\ lost \subseteq Sessions
    /\ loggedOut \subseteq issued /\ removed \subseteq loggedOut /\ revived \subseteq removed
    /\ redis_client \in BOOLEAN /\ clock \in 0..MaxClock /\ faults \in 0..MaxFaults
    /\ \A c \in Calls : /\ mine[c].id \in (Sessions \cup {0}) \ issued
                        /\ \A d \in Calls : c # d /\ mine[c].id # 0 => mine[c].id # mine[d].id

(* Storing a session and revoking it are never in flight together, and no use
   of a session brings it back: once Redis deleted it, it is known again only
   if Redis went back to a snapshot from before its logout. *)
RevokedStaysRevoked == \A n \in removed \ revived : ~Stored(n)

(* The JWT is returned after its record is stored, and the record outlives it:
   a session is known to Redis until its JWT expires, unless it was logged out,
   Redis lost it, or the process that made it had no Redis.  Other sessions'
   logouts, sign-ins that fail and restarts do not end it. *)
SessionIsKept ==
    \A n \in issued \ (removed \cup lost \cup alone) :
        tokens[n].exp > clock => Stored(n)

-------------------------------------------------------------------------------
(* What the documentation says and the code does not do. *)

(* "Revoke the current admin session" (main.py:1213), with a Redis to do it. *)
LoggedOutIsRefused ==
    \A n \in loggedOut : redis_client /\ Presentable(n) => ~Stored(n)

(* The same, of a Redis that did delete the record. *)
NeverKnownAgain == \A n \in removed : ~Stored(n)

(* "POST /admin/totp/verify: confirms enrollment" (admin_auth.py:14): the
   second factor is demanded of those who confirmed it. *)
EnrolledIsConfirmed ==
    \A a \in Admins : totp_secret[a] # 0 => a \in confirmed

===============================================================================
