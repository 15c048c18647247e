------------------------------ MODULE LoginLimit -------------------------------
(***************************************************************************)
(* The limit on failed sign-ins of administrators from one address, in     *)
(* Redis or in memory, and the failed_logins table (gateway/main.py).      *)
(*                                                                         *)
(* A slot is a call of admin_login or admin_totp_verify from that address. *)
(* The limit is checked when admin_login begins and a failure is recorded  *)
(* when it ends; between them the account is read from the database.       *)
(***************************************************************************)
EXTENDS Integers, FiniteSets

CONSTANTS Slots,
          LOGIN_RATE_LIMIT, LOGIN_RATE_WINDOW,
          MaxClock,       \* bound: last tick
          MaxAttempts,    \* bound: calls ever made
          MaxFaults,      \* bound: failures of Redis and of the database
          MaxRestarts     \* bound: restarts of the gateway

ASSUME SlotsAssumption == IsFiniteSet(Slots)
ASSUME LimitAssumption == LOGIN_RATE_LIMIT \in Nat \ {0}
ASSUME WindowAssumption == LOGIN_RATE_WINDOW \in Nat \ {0}
ASSUME BoundsAssumption ==
    /\ MaxClock \in Nat /\ MaxAttempts \in Nat
    /\ MaxFaults \in Nat /\ MaxRestarts \in Nat

VARIABLES zset,            \* Redis: the address's sorted set of failures
          login_attempts,  \* the same in this process's memory
          redis_client,    \* the process found Redis when it started
          failed_logins,   \* rows of the table
          clock, serial, faults, restarts,
          pc, number       \* of each slot: where it stands, its call's number

(* Observers. *)
VARIABLES failures,        \* failed passwords counted, when, by which store
          refused,         \* calls answered 429
          overlapped       \* two calls were in flight at once

stores == <<zset, login_attempts, redis_client>>
calls == <<pc, number>>
observers == <<failures, refused, overlapped>>
vars == <<stores, failed_logins, clock, serial, faults, restarts, calls, observers>>

Fault == faults < MaxFaults /\ faults' = faults + 1

(* Faulty variant: what was recorded in the window's first tick goes too. *)
Recent_Short(s) == {e \in s : e.at > clock - LOGIN_RATE_WINDOW + 1}

(* What either store keeps when it is pruned. *)
Recent(s) == {e \in s : e.at > clock - LOGIN_RATE_WINDOW}

Full(s) == Cardinality(s) >= LOGIN_RATE_LIMIT

-------------------------------------------------------------------------------
Init == /\ zset = {} /\ login_attempts = {}
        /\ redis_client \in BOOLEAN
        /\ failed_logins = {}
        /\ clock = 0 /\ serial = 0 /\ faults = 0 /\ restarts = 0
        /\ pc = [r \in Slots |-> "idle"]
        /\ number = [r \in Slots |-> 0]
        /\ failures = {} /\ refused = {}
        /\ overlapped = FALSE

Goto(r, label) == pc' = [pc EXCEPT ![r] = label]

(* Faulty variant: a call that ended is still counted as itself. *)
Leave_KeepsNumber(r) == Goto(r, "idle") /\ UNCHANGED number

Leave(r) == Goto(r, "idle") /\ number' = [number EXCEPT ![r] = 0]

(* A call comes: a sign-in is checked first, a TOTP code is not. *)
Enter(r) ==
    /\ pc[r] = "idle"
    /\ serial < MaxAttempts
    /\ serial' = serial + 1
    /\ number' = [number EXCEPT ![r] = serial + 1]
    /\ Goto(r, IF redis_client THEN "check" ELSE "checkMemory") \/ Goto(r, "code")
    /\ overlapped' = (overlapped \/ \E s \in Slots : pc[s] # "idle")
    /\ UNCHANGED <<stores, failed_logins, clock, faults, restarts, failures, refused>>

Decide(r, s) == IF Full(s)
                  THEN refused' = refused \cup {number[r]} /\ Leave(r)
                  ELSE Goto(r, "password") /\ UNCHANGED <<refused, number>>

(* _check_login_rate_limit: one transaction of Redis prunes and counts. *)
CheckRedis(r) ==
    /\ pc[r] = "check"
    /\ zset' = Recent(zset)
    /\ Decide(r, zset')
    /\ UNCHANGED <<login_attempts, redis_client, failed_logins, clock, serial, faults, restarts,
                   failures, overlapped>>

(* Redis does not answer: on to the memory. *)
CheckFails(r) ==
    /\ pc[r] = "check"
    /\ Fault
    /\ zset' \in {zset, Recent(zset)}
    /\ Goto(r, "checkMemory")
    /\ UNCHANGED <<login_attempts, redis_client, failed_logins, clock, serial, restarts,
                   number, observers>>

(* Faulty variant: a refused call counts as a failed one. *)
CheckMemory_CountsRefused(r) ==
    /\ pc[r] = "checkMemory"
    /\ login_attempts' = Recent(login_attempts) \cup {[at |-> clock, n |-> number[r]]}
    /\ Decide(r, Recent(login_attempts))
    /\ UNCHANGED <<zset, redis_client, failed_logins, clock, serial, faults, restarts,
                   failures, overlapped>>

CheckMemory(r) ==
    /\ pc[r] = "checkMemory"
    /\ login_attempts' = Recent(login_attempts)
    /\ Decide(r, login_attempts')
    /\ UNCHANGED <<zset, redis_client, failed_logins, clock, serial, faults, restarts,
                   failures, overlapped>>

(* The account is read: the password is right, or wrong.  A wrong code is
   counted as well. *)
Authenticate(r) ==
    /\ pc[r] \in {"password", "code"}
    /\ \/ Leave(r)
       \/ /\ Goto(r, IF pc[r] = "password" THEN "recordPassword" ELSE "recordCode")
          /\ UNCHANGED number
    /\ UNCHANGED <<stores, failed_logins, clock, serial, faults, restarts, observers>>

Recording(r) == pc[r] \in {"recordPassword", "recordCode"}

Failed(r, via) == IF pc[r] = "recordPassword"
                    THEN failures \cup {[at |-> clock, n |-> number[r], via |-> via]}
                    ELSE failures

RecordInMemory(r) ==
    /\ login_attempts' = login_attempts \cup {[at |-> clock, n |-> number[r]]}
    /\ failures' = Failed(r, "memory")
    /\ Goto(r, "log")

(* _record_login_attempt in Redis, or in memory. *)
Record(r) ==
    /\ Recording(r)
    /\ IF redis_client
         THEN /\ zset' = zset \cup {[at |-> clock, n |-> number[r]]}
              /\ failures' = Failed(r, "redis")
              /\ Goto(r, "log")
              /\ UNCHANGED login_attempts
         ELSE RecordInMemory(r) /\ UNCHANGED zset
    /\ UNCHANGED <<redis_client, failed_logins, clock, serial, faults, restarts, number,
                   refused, overlapped>>

(* Redis does not answer, whether it recorded the failure or not: recorded in
   memory. *)
RecordFails(r) ==
    /\ Recording(r) /\ redis_client
    /\ Fault
    /\ zset' \in {zset, zset \cup {[at |-> clock, n |-> number[r]]}}
    /\ RecordInMemory(r)
    /\ UNCHANGED <<redis_client, failed_logins, clock, serial, restarts, number,
                   refused, overlapped>>

(* _log_failed_login, and the answer 401. *)
LogFailedLogin(r) ==
    /\ pc[r] = "log"
    /\ failed_logins' = failed_logins \cup {number[r]}
    /\ Leave(r)
    /\ UNCHANGED <<stores, clock, serial, faults, restarts, observers>>

(* The database refuses the row: nobody is told. *)
LogFails(r) ==
    /\ pc[r] = "log"
    /\ Fault
    /\ Leave(r)
    /\ UNCHANGED <<stores, failed_logins, clock, serial, restarts, observers>>

(* The database refuses the read of the account: a 500. *)
AuthenticateFails(r) ==
    /\ pc[r] \in {"password", "code"}
    /\ Fault
    /\ Leave(r)
    /\ UNCHANGED <<stores, failed_logins, clock, serial, restarts, observers>>

Tick == /\ clock < MaxClock
        /\ clock' = clock + 1
        /\ UNCHANGED <<stores, failed_logins, serial, faults, restarts, calls, observers>>

(* The calls die and what was in memory is forgotten. *)
Restart == /\ restarts < MaxRestarts
           /\ restarts' = restarts + 1
           /\ login_attempts' = {}
           /\ redis_client' \in BOOLEAN
           /\ pc' = [r \in Slots |-> "idle"]
           /\ number' = [r \in Slots |-> 0]
           /\ failures' = {f \in failures : f.via = "redis"}
           /\ UNCHANGED <<zset, failed_logins, clock, serial, faults, refused, overlapped>>

Next == \/ \E r \in Slots : \/ Enter(r)
                            \/ CheckRedis(r) \/ CheckFails(r) \/ CheckMemory(r)
                            \/ Authenticate(r) \/ AuthenticateFails(r)
                            \/ Record(r) \/ RecordFails(r)
                            \/ LogFailedLogin(r) \/ LogFails(r)
        \/ Tick \/ Restart

Spec == Init /\ [][Next]_vars

-------------------------------------------------------------------------------
(* Properties. *)

Entries == [at : 0..clock, n : 1..serial]

StoresOK ==
    /\ zset \subseteq Entries /\ login_attempts \subseteq Entries
    /\ failed_logins \subseteq 1..serial /\ refused \subseteq 1..serial
    /\ clock \in 0..MaxClock /\ serial \in 0..MaxAttempts
    /\ faults \in 0..MaxFaults /\ restarts \in 0..MaxRestarts

CallsOK ==
    /\ pc \in [Slots -> {"idle", "check", "checkMemory", "password", "code",
                         "recordPassword", "recordCode", "log"}]
    /\ number \in [Slots -> 0..serial]
    /\ \A r \in Slots : pc[r] = "idle" <=> number[r] = 0
    /\ \A r, s \in Slots : r # s /\ number[r] # 0 => number[r] # number[s]

FlagsOK == redis_client \in BOOLEAN /\ overlapped \in BOOLEAN

(* Type invariant: entries are of calls that came, none in the future, and a
   call in flight has a number of its own. *)
TypeOK == StoresOK /\ CallsOK /\ FlagsOK

(* Failed passwords within the window, by the stores this process counts in. *)
WindowFailures == {f \in failures : /\ f.at > clock - LOGIN_RATE_WINDOW
                                    /\ f.via = "redis" => redis_client}

(* Calls that may have seen the same count. *)
Slack == IF overlapped THEN Cardinality(Slots) - 1 ELSE 0

(* The limit is checked before a password and the failure recorded after it,
   and a Redis that fails between them sends them to different stores.  All
   the same, a window holds no more failed passwords than the limit, one for
   each other call in flight, and one for each failure of Redis: with neither
   overlap nor failure the limit is exact. *)
LoginSlack == Cardinality(WindowFailures) <= LOGIN_RATE_LIMIT + Slack + faults

(* A refused call leaves no trace: being refused does not prolong the wait, nor
   does failed_logins show an attempt at which no password was tried. *)
RefusedIsNotCounted ==
    refused \cap ({e.n : e \in zset \cup login_attempts} \cup failed_logins) = {}

-------------------------------------------------------------------------------
(* What the documentation says and the code does not do. *)

(* "10 attempts per 15 minutes per IP" (main.py:954). *)
LoginExact == Cardinality(WindowFailures) <= LOGIN_RATE_LIMIT

===============================================================================
