------------------------------ MODULE RateLimit -------------------------------
(***************************************************************************)
(* check_rate_limit of gateway/policies.py: a sliding window kept in Redis *)
(* sorted sets, and per-department windows in memory for when Redis is     *)
(* absent or fails.  A slot is a request being checked; its steps are      *)
(* separated where the coroutine awaits the database or Redis.             *)
(*                                                                         *)
(* Redis runs the commands of one pipeline without switching clients, so   *)
(* a pipeline is one step; the two pipelines of a check are two steps.     *)
(***************************************************************************)
EXTENDS Integers, FiniteSets

CONSTANTS Slots,           \* requests that may be in check_rate_limit at once
          Keys, Depts,     \* staff keys and departments
          Dept,            \* Dept[k]: the department of key k
          Policies,        \* effective limits an administrator may set
          WINDOW_SECONDS,
          NoKey,           \* key of an idle slot
          MaxClock,        \* bound: last second
          MaxRequests,     \* bound: requests ever checked
          MaxFaults        \* bound: Redis errors and restarts

ASSUME SlotsAssumption == IsFiniteSet(Slots)
ASSUME DeptAssumption == Dept \in [Keys -> Depts]
ASSUME PolicyAssumption == /\ Policies # {}
                           /\ Policies \subseteq [key : Nat \ {0}, dept : Nat \ {0}]
ASSUME WindowAssumption == WINDOW_SECONDS \in Nat \ {0}
ASSUME BoundsAssumption == MaxClock \in Nat /\ MaxRequests \in Nat /\ MaxFaults \in Nat

VARIABLES zset,         \* zset[b]: Redis sorted set of bucket b
          memory,       \* memory[b]: deque of bucket b in this process
          redis_client, \* the process found Redis when it started
          policy,       \* the department's row in department_policies
          clock,        \* seconds
          serial,       \* requests that entered check_rate_limit
          faults,
          pc, key, number, limits, now   \* of each slot

(* Observers. *)
VARIABLES admitted,     \* admissions: what was let through, when, by which store
          rejected,     \* numbers of the requests answered 429
          overlapped,   \* a request entered while another was being checked
          torn          \* a recording pipeline failed on its way

locals == <<pc, key, number, limits, now>>
observers == <<admitted, rejected, overlapped, torn>>
vars == <<zset, memory, redis_client, policy, clock, serial, faults, locals, observers>>

Buckets == Keys \cup Depts
BucketsOf(k) == {k, Dept[k]}

(* The limit a pair of limits sets for bucket b. *)
LimitFor(p, b) == IF b \in Keys THEN p.key ELSE p.dept

-------------------------------------------------------------------------------
(* Windows are sets of entries, each the stamp and number of a request. *)

(* Faulty variant: the entry is stamped with the time it will expire. *)
Stamped_Expiry(r, t) == [at |-> t + WINDOW_SECONDS, n |-> number[r]]

Stamped(r, t) == [at |-> t, n |-> number[r]]

(* Faulty variant: everything up to now goes, not up to the cutoff. *)
PrunedSet_Now(s, t) == {e \in s : e.at > t}

(* ZREMRANGEBYSCORE -inf cutoff: what is left of a sorted set. *)
PrunedSet(s, t) == {e \in s : e.at > t - WINDOW_SECONDS}

(* The popleft loop: the deque keeps an entry that is exactly a window old. *)
PrunedDeque(s, t) == {e \in s : e.at >= t - WINDOW_SECONDS}

(* Faulty variant: the last request of a limit is refused. *)
Full_TooEarly(s, limit) == Cardinality(s) + 1 >= limit

Full(s, limit) == Cardinality(s) >= limit

(* Either store with both buckets of key k pruned at time t. *)
PruneZset(k, t) ==
    [b \in Buckets |-> IF b \in BucketsOf(k) THEN PrunedSet(zset[b], t) ELSE zset[b]]

PruneMemory(k, t) ==
    [b \in Buckets |-> IF b \in BucketsOf(k) THEN PrunedDeque(memory[b], t) ELSE memory[b]]

Record(store, S, e) == [b \in Buckets |-> IF b \in S THEN store[b] \cup {e} ELSE store[b]]

(* A check fails on the key's bucket or on the department's. *)
Exceeded(store, k, p) == \E b \in BucketsOf(k) : Full(store[b], LimitFor(p, b))

-------------------------------------------------------------------------------
AnyPolicy == CHOOSE p \in Policies : TRUE

Init == /\ zset = [b \in Buckets |-> {}]
        /\ memory = [b \in Buckets |-> {}]
        /\ redis_client \in BOOLEAN
        /\ policy \in Policies
        /\ clock = 0 /\ serial = 0 /\ faults = 0
        /\ pc = [r \in Slots |-> "idle"]
        /\ key = [r \in Slots |-> NoKey]
        /\ number = [r \in Slots |-> 0]
        /\ limits = [r \in Slots |-> AnyPolicy]
        /\ now = [r \in Slots |-> 0]
        /\ admitted = {} /\ rejected = {}
        /\ overlapped = FALSE /\ torn = FALSE

Goto(r, label) == pc' = [pc EXCEPT ![r] = label]

(* The slot's coroutine has its answer and forgets its locals. *)
Leave(r) == /\ Goto(r, "idle")
            /\ key' = [key EXCEPT ![r] = NoKey]
            /\ number' = [number EXCEPT ![r] = 0]
            /\ limits' = [limits EXCEPT ![r] = AnyPolicy]
            /\ now' = [now EXCEPT ![r] = 0]

Admit(r, t, store) ==
    admitted' = admitted \cup {[n |-> number[r], key |-> key[r], at |-> t, via |-> store]}

(* check_rate_limit is called for key k and awaits the policy row. *)
Enter(r, k) ==
    /\ pc[r] = "idle"
    /\ serial < MaxRequests
    /\ serial' = serial + 1
    /\ key' = [key EXCEPT ![r] = k]
    /\ number' = [number EXCEPT ![r] = serial + 1]
    /\ Goto(r, IF redis_client THEN "limits" ELSE "fallback")
    /\ overlapped' = (overlapped \/ \E s \in Slots : pc[s] # "idle")
    /\ UNCHANGED <<zset, memory, redis_client, policy, clock, faults, limits, now,
                   admitted, rejected, torn>>

(* _get_policy_limits reads the row. *)
ReadLimits(r) ==
    /\ pc[r] \in {"limits", "fallback"}
    /\ limits' = [limits EXCEPT ![r] = policy]
    /\ now' = [now EXCEPT ![r] = clock]
    /\ Goto(r, IF pc[r] = "limits" THEN "phase1" ELSE "memory")
    /\ UNCHANGED <<zset, memory, redis_client, policy, clock, serial, faults, key, number,
                   observers>>

(* Faulty variant: the request is recorded before it is checked. *)
Phase1_RecordsFirst(r) ==
    /\ pc[r] = "phase1"
    /\ LET pruned == PruneZset(key[r], now[r]) IN
       /\ zset' = Record(pruned, BucketsOf(key[r]), Stamped(r, now[r]))
       /\ IF Exceeded(pruned, key[r], limits[r])
            THEN rejected' = rejected \cup {number[r]} /\ Leave(r)
            ELSE /\ Goto(r, "phase2")
                 /\ UNCHANGED <<rejected, key, number, limits, now>>
    /\ UNCHANGED <<memory, redis_client, policy, clock, serial, faults,
                   admitted, overlapped, torn>>

(* Phase 1: one pipeline prunes and counts both buckets; then 429 or on. *)
Phase1(r) ==
    /\ pc[r] = "phase1"
    /\ zset' = PruneZset(key[r], now[r])
    /\ IF Exceeded(zset', key[r], limits[r])
         THEN rejected' = rejected \cup {number[r]} /\ Leave(r)
         ELSE /\ Goto(r, "phase2")
              /\ UNCHANGED <<rejected, key, number, limits, now>>
    /\ UNCHANGED <<memory, redis_client, policy, clock, serial, faults,
                   admitted, overlapped, torn>>

(* Phase 2: the request is recorded in both buckets and let through. *)
Phase2(r) ==
    /\ pc[r] = "phase2"
    /\ zset' = Record(zset, BucketsOf(key[r]), Stamped(r, now[r]))
    /\ Admit(r, now[r], "redis")
    /\ Leave(r)
    /\ UNCHANGED <<memory, redis_client, policy, clock, serial, faults,
                   rejected, overlapped, torn>>

(* Redis does not answer, or the database for the limits.  The commands of
   the pipeline that Redis ran, in their order, stay: for no bucket, for the
   key's, or for both.  The request falls back to the windows in memory,
   reading the policy again. *)
RedisFails(r) ==
    /\ pc[r] \in {"limits", "phase1", "phase2"}
    /\ faults < MaxFaults
    /\ faults' = faults + 1
    /\ \E S \in {{}, {key[r]}, BucketsOf(key[r])} :
          zset' = CASE pc[r] = "limits" -> zset
                    [] pc[r] = "phase1" ->
                         [b \in Buckets |-> IF b \in S THEN PrunedSet(zset[b], now[r])
                                                     ELSE zset[b]]
                    [] pc[r] = "phase2" -> Record(zset, S, Stamped(r, now[r]))
    /\ torn' = (torn \/ pc[r] = "phase2")
    /\ Goto(r, "fallback")
    /\ UNCHANGED <<memory, redis_client, policy, clock, serial, key, number, limits, now,
                   admitted, rejected, overlapped>>

(* The fallback's read of the policy fails: nothing catches the exception, the
   request ends in a 500. *)
PolicyFails(r) ==
    /\ pc[r] = "fallback"
    /\ faults < MaxFaults
    /\ faults' = faults + 1
    /\ Leave(r)
    /\ UNCHANGED <<zset, memory, redis_client, policy, clock, serial, observers>>

(* limiter.check and limiter.record, without an await between them.  When the
   key's window is full the check ends there: the department's is not pruned. *)
CheckMemory(r) ==
    /\ pc[r] = "memory"
    /\ LET k == key[r]
           pruned == PruneMemory(k, clock) IN
       IF Exceeded(pruned, k, limits[r])
         THEN /\ rejected' = rejected \cup {number[r]}
              /\ memory' = IF Full(pruned[k], limits[r].key)
                             THEN [memory EXCEPT ![k] = pruned[k]]
                             ELSE pruned
              /\ UNCHANGED admitted
         ELSE /\ memory' = Record(pruned, BucketsOf(k), Stamped(r, clock))
              /\ Admit(r, clock, "memory")
              /\ UNCHANGED rejected
    /\ Leave(r)
    /\ UNCHANGED <<zset, redis_client, policy, clock, serial, faults, overlapped, torn>>

(* POST /admin/policies changes the limits. *)
UpsertPolicy == \E p \in Policies \ {policy} :
    /\ policy' = p
    /\ UNCHANGED <<zset, memory, redis_client, clock, serial, faults, locals, observers>>

Tick == /\ clock < MaxClock
        /\ clock' = clock + 1
        /\ UNCHANGED <<zset, memory, redis_client, policy, serial, faults, locals, observers>>

(* The process restarts: the windows in memory are gone, and whether Redis is
   used is decided again, for as long as the new process lives. *)
Restart ==
    /\ faults < MaxFaults
    /\ faults' = faults + 1
    /\ memory' = [b \in Buckets |-> {}]
    /\ redis_client' \in BOOLEAN
    /\ pc' = [r \in Slots |-> "idle"]
    /\ key' = [r \in Slots |-> NoKey]
    /\ number' = [r \in Slots |-> 0]
    /\ limits' = [r \in Slots |-> AnyPolicy]
    /\ now' = [r \in Slots |-> 0]
    /\ admitted' = {a \in admitted : a.via = "redis"}
    /\ UNCHANGED <<zset, policy, clock, serial, rejected, overlapped, torn>>

Next == \/ \E r \in Slots : \/ \E k \in Keys : Enter(r, k)
                            \/ ReadLimits(r)
                            \/ Phase1(r) \/ Phase2(r) \/ RedisFails(r)
                            \/ PolicyFails(r)
                            \/ CheckMemory(r)
        \/ UpsertPolicy \/ Tick \/ Restart

Spec == Init /\ [][Next]_vars

-------------------------------------------------------------------------------
(* Properties. *)

Stamps == [at : 0..clock, n : 1..serial]

StoresOK ==
    /\ zset \in [Buckets -> SUBSET Stamps] /\ memory \in [Buckets -> SUBSET Stamps]
    /\ policy \in Policies
    /\ clock \in 0..MaxClock /\ serial \in 0..MaxRequests /\ faults \in 0..MaxFaults
    /\ rejected \subseteq 1..serial

SlotsOK ==
    /\ pc \in [Slots -> {"idle", "limits", "phase1", "phase2", "fallback", "memory"}]
    /\ limits \in [Slots -> Policies] /\ now \in [Slots -> 0..clock]
    /\ key \in [Slots -> Keys \cup {NoKey}] /\ number \in [Slots -> 0..serial]
    /\ \A r \in Slots : IF pc[r] = "idle" THEN number[r] = 0
                                          ELSE number[r] # 0 /\ key[r] \in Keys
    /\ \A r, s \in Slots : r # s /\ pc[r] # "idle" => number[r] # number[s]

FlagsOK == redis_client \in BOOLEAN /\ overlapped \in BOOLEAN /\ torn \in BOOLEAN

(* Type invariant: no entry is stamped in the future, none is of a request
   that has not come, and a slot being checked holds a request of its own. *)
TypeOK == StoresOK /\ SlotsOK /\ FlagsOK

(* n is no more than the largest limit a policy sets for bucket b. *)
WithinLimit(b, n) == \E p \in Policies : n <= LimitFor(p, b)

(* Admissions by one store that count against bucket b now. *)
Recent(b, store) == {a \in admitted : /\ b \in BucketsOf(a.key)
                                      /\ a.via = store
                                      /\ a.at > clock - WINDOW_SECONDS}

(* Requests that may have seen the same count. *)
Slack == IF overlapped THEN Cardinality(Slots) - 1 ELSE 0

(* Two pipelines are not one: requests that are between them see the same
   count.  Redis may let through one request more than the limit for each
   other request being checked at the same time, and never more, whatever
   delays, failed pipelines and changes of the policy come between.  With no
   overlap it is exact. *)
RedisSlack ==
    \A b \in Buckets : WithinLimit(b, Cardinality(Recent(b, "redis")) - Slack)

(* The windows in memory are exact: check and record run without an await,
   so overlapping requests cannot pass on the same count. *)
MemoryExact ==
    \A b \in Buckets : WithinLimit(b, Cardinality(Recent(b, "memory")))

Counted(store) == UNION {{e.n : e \in store[b]} : b \in Buckets}

(* A request let through counts against its key and its department, in the
   store that let it through, until its window has passed.  A rejected one is
   counted nowhere, unless its recording in Redis broke off and the fallback
   then rejected it. *)
CountedIffAdmitted ==
    /\ \A a \in admitted : a.at > clock - WINDOW_SECONDS =>
          \A b \in BucketsOf(a.key) :
              \E e \in (IF a.via = "redis" THEN zset ELSE memory)[b] : e.n = a.n
    /\ rejected \cap Counted(memory) = {}
    /\ torn \/ rejected \cap Counted(zset) = {}

(* The requests of which the limits have been read. *)
Asked == {[n |-> number[r], key |-> key[r], limits |-> limits[r], at |-> now[r]] :
              r \in {s \in Slots : pc[s] \in {"phase1", "phase2", "memory"}}}

Limiter == INSTANCE RequestLimiter WITH
               Numbers <- 1..MaxRequests, asked <- Asked, failed <- faults

(* The two stores, with their pipelines, cutoffs and fallbacks, do together what
   RequestLimiter promises: nobody is let through where there is no room, and
   nobody is refused where there is. *)
RefinesLimiter == Limiter!Spec

-------------------------------------------------------------------------------
(* What the documentation says and the code does not do. *)

(* "All operations use a Redis pipeline for atomicity" (policies.py:72): the
   limit of a bucket holds. *)
RedisExact == \A b \in Buckets : WithinLimit(b, Cardinality(Recent(b, "redis")))

(* "Checks BEFORE recording so rejected requests are not counted"
   (policies.py:266). *)
RejectedNotCounted == rejected \cap (Counted(zset) \cup Counted(memory)) = {}

===============================================================================
