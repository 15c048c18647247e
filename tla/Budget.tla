--------------------------------- MODULE Budget ---------------------------------
(***************************************************************************)
(* The month's budget of one department: check_budget of                   *)
(* gateway/policies.py, the policy row that upsert_policy of               *)
(* gateway/main.py creates and changes, the cost main.py writes into       *)
(* request_logs, and the calendar.  Steps are separated where the code     *)
(* awaits the database or the provider.                                    *)
(*                                                                         *)
(* Time is counted in months.  Every row carries the time at which the     *)
(* process was started (main.py:101), so a row's month is the month of     *)
(* that start.  Rows are assumed to be retained for a month at least       *)
(* (LOG_RETENTION_DAYS is 365 by default).  Requests that name no model    *)
(* are not checked and cost nothing; they are left out.                    *)
(***************************************************************************)
EXTENDS Integers, FiniteSets, FiniteSetsExt

CONSTANTS Requests,      \* requests that may be on their way at once
          Upserts,       \* calls of upsert_policy that may be on their way at once
          None,          \* a column that is NULL, a field a body leaves out, no row
          EmptyList,     \* the list of models that permits them all
          Rates, Lists, Limits,   \* what a body may state for the three fields
          Pricing,       \* MODEL_PRICING in mills of a dollar per 1 000 tokens
          Models,        \* models that are asked for, priced or not
          Usages,        \* token counts a provider may report
          RequestWords, ResponseWords,   \* words in a body and in an answer
          LastMonth,     \* bound: months
          MaxRequests,   \* bound: requests ever
          MaxUpserts,    \* bound: calls of upsert_policy ever
          MaxRestarts    \* bound: restarts

ASSUME FieldAssumption ==
    /\ Rates \subseteq Nat \ {0} /\ Limits \subseteq Nat /\ EmptyList \in Lists
    /\ None \notin Nat \cup Lists
ASSUME PricingAssumption ==
    \A m \in DOMAIN Pricing : Pricing[m] \in [input : Nat, output : Nat]
ASSUME UsageAssumption ==
    /\ Usages \subseteq [input : Nat, output : Nat]
    /\ RequestWords \in Nat /\ ResponseWords \in Nat
ASSUME RequestsAssumption == IsFiniteSet(Requests) /\ Requests \cap Upserts = {}
ASSUME BoundsAssumption == LastMonth \in Nat \ {0}

VARIABLES policy,        \* the row of department_policies, or None
          month,         \* the calendar's month
          started,       \* the month in which the process was started
          cost,          \* cost[m]: sum of estimated_cost_cents of rows stamped in m
          pc,            \* of each request and each upsert
          limit,         \* limit[r]: the limit request r read
          month_start,   \* month_start[r]: computed after it
          body, loaded,  \* of each upsert: what it states, the row it selected
          requests, upserts, restarts    \* counters for the bounds

(* Observers. *)
VARIABLES billed,        \* billed[m]: cents logged while the calendar showed m
          late,          \* months in which a row was stamped with another month
          highest,       \* highest[m]: the highest limit in force during m, None
                         \*   if there was none for some time
          refused,       \* what the refused requests were told
          unbilled,      \* ten-thousandths of a cent that rows were worth but do
                         \*   not show
          priced         \* rows of answers that were not streamed

locals == <<pc, limit, month_start, body, loaded>>
counters == <<requests, upserts, restarts>>
observers == <<billed, late, highest, refused, unbilled, priced>>
vars == <<policy, month, started, cost, locals, counters, observers>>

Months == 1..LastMonth
LimitIn(p) == IF p = None THEN None ELSE p.monthly_cost_limit_cents
SinceMonth(f, m) == MapThenSumSet(LAMBDA k : f[k], m..LastMonth)
Abs(i) == IF i < 0 THEN 0 - i ELSE i

-------------------------------------------------------------------------------
(* costs.py. *)

(* round(n / d); which way a tie goes depends on the floats. *)
Rounded(n, d) == {q \in (n \div d)..((n \div d) + 1) : 2 * Abs(q * d - n) <= d}

(* Token counts that may be billed: those the provider reported, or 1.3 for
   each word where it reported none. *)
estimate_tokens(words) == Rounded(13 * words, 10)
Tokens(reported, words) == IF reported = 0 THEN estimate_tokens(words) ELSE {reported}

(* What a call is worth, in ten-thousandths of a cent. *)
Worth(model, input, output) ==
    IF model \in DOMAIN Pricing
    THEN input * Pricing[model].input + output * Pricing[model].output
    ELSE 0

Worths ==
    UNION {{Worth(model, input, output) : input \in Tokens(usage.input, RequestWords),
                                          output \in Tokens(usage.output, ResponseWords)} :
           model \in Models, usage \in Usages \cup {[input |-> 0, output |-> 0]}}

(* Faulty variant: the estimate, in hundredths, is rounded up to a cent. *)
Cents_RoundsUp(worth) == {(h + 99) \div 100 : h \in Rounded(worth, 100)}

(* estimate_cost rounds to hundredths of a cent, int() cuts them off. *)
Cents(worth) == {h \div 100 : h \in Rounded(worth, 100)}

(* The cost of the dearest row, if there is one. *)
Dearest == LET costs == UNION {Cents(worth) : worth \in Worths} IN
           {c \in costs : \A other \in costs : other <= c}

-------------------------------------------------------------------------------
(* What upsert_policy's body may state (UpsertPolicyRequest).  One rate limit
   stands for the two, which are treated alike. *)
Fields == {"requests_per_minute", "allowed_models", "monthly_cost_limit_cents"}
Bodies == [requests_per_minute : Rates \cup {None},
           allowed_models : Lists \cup {None},
           monthly_cost_limit_cents : Limits \cup {None}]

(* The row it makes when there is none. *)
Created(b) ==
    [b EXCEPT !.requests_per_minute = IF @ = None THEN 60 ELSE @,
              !.allowed_models = IF @ = EmptyList THEN None ELSE @]

Policies == [requests_per_minute : Rates \cup {60},
             allowed_models : Lists \cup {None},
             monthly_cost_limit_cents : Limits \cup {None}]
Rows == {None} \cup Policies

ASSUME NoneAssumption == None \notin Policies

(* The department may have a policy from before. *)
Init ==
    /\ policy \in {None} \cup {Created(b) : b \in Bodies}
    /\ month = 1 /\ started = 1
    /\ cost = [m \in Months |-> 0]
    /\ pc = [c \in Requests \cup Upserts |-> "idle"]
    /\ limit = [r \in Requests |-> None]
    /\ month_start = [r \in Requests |-> 0]
    /\ body = [u \in Upserts |-> None] /\ loaded = [u \in Upserts |-> None]
    /\ requests = 0 /\ upserts = 0 /\ restarts = 0
    /\ billed = [m \in Months |-> 0] /\ late = {}
    /\ highest = [m \in Months |-> IF m = 1 THEN LimitIn(policy) ELSE None]
    /\ refused = {} /\ unbilled = 0 /\ priced = 0

(* check_budget up to the second session: the policy is read, and after it,
   without an await, the first of the month. *)
ReadPolicy(r) ==
    /\ pc[r] = "idle" /\ requests < MaxRequests
    /\ requests' = requests + 1
    /\ IF LimitIn(policy) = None
       THEN /\ pc' = [pc EXCEPT ![r] = "forwarded"]
            /\ UNCHANGED <<limit, month_start>>
       ELSE /\ pc' = [pc EXCEPT ![r] = "summing"]
            /\ limit' = [limit EXCEPT ![r] = LimitIn(policy)]
            /\ month_start' = [month_start EXCEPT ![r] = month]
    /\ UNCHANGED <<policy, month, started, cost, body, loaded, upserts, restarts, observers>>

(* Faulty variant: whoever has just reached the limit may go on. *)
OverBudget_OffByOne(total, l) == total > l

OverBudget(total, l) == total >= l

(* Faulty variant: the last thirty days instead of the calendar month. *)
Total_Rolling(m) == SinceMonth(cost, IF m = 1 THEN 1 ELSE m - 1)

(* The sum over rows whose timestamp is not before the first of month m. *)
Total(m) == SinceMonth(cost, m)

(* The rest of check_budget: 429, or on to the provider. *)
SumCosts(r) ==
    /\ pc[r] = "summing"
    /\ IF OverBudget(Total(month_start[r]), limit[r])
       THEN /\ pc' = [pc EXCEPT ![r] = "idle"]
            /\ refused' = refused \cup {[since |-> month_start[r], limit |-> limit[r]]}
       ELSE /\ pc' = [pc EXCEPT ![r] = "forwarded"]
            /\ UNCHANGED refused
    /\ limit' = [limit EXCEPT ![r] = None]
    /\ month_start' = [month_start EXCEPT ![r] = 0]
    /\ UNCHANGED <<policy, month, started, cost, body, loaded, counters,
                   billed, late, highest, unbilled, priced>>

(* The row of a request commits. *)
Row(r, cents) ==
    /\ pc[r] = "forwarded"
    /\ pc' = [pc EXCEPT ![r] = "idle"]
    /\ cost' = [cost EXCEPT ![started] = @ + cents]
    /\ billed' = [billed EXCEPT ![month] = @ + cents]
    /\ late' = IF started = month THEN late ELSE late \cup {month}
    /\ UNCHANGED <<policy, month, started, limit, month_start, body, loaded, counters,
                   highest, refused>>

(* An answer arrived, its tokens are counted and the row is written. *)
Log(r) ==
    \E worth \in Worths : \E cents \in Cents(worth) :
        /\ Row(r, cents)
        /\ unbilled' = unbilled + worth - 10000 * cents
        /\ priced' = priced + 1

(* A stream has ended; its row states no cost. *)
LogStream(r) == Row(r, 0) /\ UNCHANGED <<unbilled, priced>>

(* The request ends without a row: the provider fails, its answer or its token
   counts cannot be read, the row cannot be written. *)
Lost(r) ==
    /\ pc[r] = "forwarded"
    /\ pc' = [pc EXCEPT ![r] = "idle"]
    /\ UNCHANGED <<policy, month, started, cost, limit, month_start, body, loaded, counters,
                   observers>>

-------------------------------------------------------------------------------
(* upsert_policy. *)

(* Faulty variant: the whole row is written back. *)
Updated_WholeRow(row, seen, b) == [f \in Fields |-> IF b[f] # None THEN b[f] ELSE seen[f]]

(* Faulty variant: a field that is left out is cleared. *)
Updated_Clears(row, seen, b) == b

(* Faulty variant: a value counts as stated if it is true in Python. *)
Updated_Truthy(row, seen, b) ==
    [f \in Fields |-> IF b[f] # None /\ b[f] # 0 /\ b[f] # seen[f] THEN b[f] ELSE row[f]]

(* SQLAlchemy's UPDATE names the columns whose value differs from the one that
   was loaded. *)
Updated(row, seen, b) ==
    [f \in Fields |-> IF b[f] # None /\ b[f] # seen[f] THEN b[f] ELSE row[f]]

(* The highest limit of this month, once the row's limit is l. *)
Raised(l) ==
    [highest EXCEPT ![month] = IF @ = None \/ l = None THEN None
                               ELSE IF l > @ THEN l ELSE @]

Select(u) ==
    /\ pc[u] = "idle" /\ upserts < MaxUpserts
    /\ upserts' = upserts + 1
    /\ \E b \in Bodies : body' = [body EXCEPT ![u] = b]
    /\ loaded' = [loaded EXCEPT ![u] = policy]
    /\ pc' = [pc EXCEPT ![u] = "selected"]
    /\ UNCHANGED <<policy, month, started, cost, limit, month_start, requests, restarts,
                   observers>>

Leave(u) ==
    /\ pc' = [pc EXCEPT ![u] = "idle"]
    /\ body' = [body EXCEPT ![u] = None]
    /\ loaded' = [loaded EXCEPT ![u] = None]
    /\ UNCHANGED <<month, started, cost, limit, month_start, counters,
                   billed, late, refused, unbilled, priced>>

(* INSERT or UPDATE, and COMMIT. *)
Commit(u) ==
    /\ pc[u] = "selected"
    /\ loaded[u] = None => policy = None
    /\ policy' = IF loaded[u] = None THEN Created(body[u])
                 ELSE Updated(policy, loaded[u], body[u])
    /\ highest' = Raised(LimitIn(policy'))
    /\ Leave(u)

(* The department is unique: another call has inserted it; or the database fails. *)
CommitFails(u) ==
    /\ pc[u] = "selected"
    /\ Leave(u)
    /\ UNCHANGED <<policy, highest>>

-------------------------------------------------------------------------------
(* The first of a month. *)
NextMonth ==
    /\ month < LastMonth
    /\ month' = month + 1
    /\ highest' = [highest EXCEPT ![month + 1] = LimitIn(policy)]
    /\ UNCHANGED <<policy, started, cost, locals, counters, billed, late, refused,
                   unbilled, priced>>

(* The process dies and is started again: what is on its way is lost. *)
Restart ==
    /\ restarts < MaxRestarts
    /\ restarts' = restarts + 1
    /\ started' = month
    /\ pc' = [c \in Requests \cup Upserts |-> "idle"]
    /\ limit' = [r \in Requests |-> None] /\ month_start' = [r \in Requests |-> 0]
    /\ body' = [u \in Upserts |-> None] /\ loaded' = [u \in Upserts |-> None]
    /\ UNCHANGED <<policy, month, cost, requests, upserts, observers>>

Next ==
    \/ \E r \in Requests :
          ReadPolicy(r) \/ SumCosts(r) \/ Log(r) \/ LogStream(r) \/ Lost(r)
    \/ \E u \in Upserts : Select(u) \/ Commit(u) \/ CommitFails(u)
    \/ NextMonth \/ Restart

Spec == Init /\ [][Next]_vars

-------------------------------------------------------------------------------
PolicyOK == policy \in Rows

LedgerOK ==
    /\ month \in Months /\ started \in 1..month
    /\ cost \in [Months -> Nat]
    /\ \A m \in Months : m > started => cost[m] = 0

RequestsOK ==
    /\ limit \in [Requests -> Limits \cup {None}]
    /\ month_start \in [Requests -> 0..month]
    /\ \A r \in Requests :
          /\ pc[r] \in {"idle", "summing", "forwarded"}
          /\ pc[r] = "summing" => limit[r] # None /\ month_start[r] # 0

UpsertsOK ==
    /\ body \in [Upserts -> Bodies \cup {None}] /\ loaded \in [Upserts -> Rows]
    /\ \A u \in Upserts :
          /\ pc[u] \in {"idle", "selected"}
          /\ pc[u] = "selected" => body[u] \in Bodies
          /\ loaded[u] # None => policy # None

(* Rows are stamped with months that have begun; a request that sums has read a
   limit some body stated; an upsert on its way knows its body and its row. *)
TypeOK ==
    /\ DOMAIN pc = Requests \cup Upserts
    /\ PolicyOK /\ LedgerOK /\ RequestsOK /\ UpsertsOK

(* Wrong stamps never turn anybody away: whoever is refused belongs to a
   department that really was billed its limit since the first of the month. *)
RefusalIsDeserved ==
    \A d \in refused : SinceMonth(billed, d.since) >= d.limit

(* In a month in which every row carries the right month and a limit was in
   force all the time, no more is billed than the limit and what the requests
   that may be on their way at once can cost. *)
BudgetHolds ==
    \A m \in 1..month :
        m \in late \/ highest[m] = None \/ billed[m] = 0
            \/ \A c \in Dearest : billed[m] <= highest[m] - 1 + Cardinality(Requests) * c

(* What the rows do not show is less than a cent for each answer that was not
   streamed, and rounding adds no more than half a hundredth of a cent. *)
UndercountIsBounded == unbilled \in (-50 * priced)..(9950 * priced)

(* A call changes no field of an existing row but those its body states, however
   it overlaps with another: it never puts back a value it loaded. *)
UpsertKeepsOthers ==
    [][policy # None /\ policy' # policy =>
        \E u \in Upserts :
            /\ pc[u] = "selected" /\ pc'[u] = "idle"
            /\ \A f \in Fields : policy'[f] # policy[f] => policy'[f] = body[u][f]]_vars

(* A value that is stated takes effect, unless somebody else changed that very
   field between the call's SELECT and its COMMIT. *)
StatedTakesEffect ==
    [][\A u \in Upserts : Commit(u) =>
        \A f \in Fields :
            body[u][f] # None /\ (loaded[u] # None => loaded[u][f] = policy[f]) =>
                \/ policy'[f] = body[u][f]
                \/ body[u][f] = EmptyList /\ policy'[f] = None]_vars

(* policies.py:383: "Sum costs for the current calendar month."  Not so in a
   process that was started in an earlier one. *)
MonthIsSeen ==
    \A r \in Requests :
        pc[r] = "summing" => Total(month_start[r]) = SinceMonth(billed, month_start[r])

(* main.py:1542: "Create or update a department policy."  A limit that equals
   the one that was loaded is not written, though it was changed meanwhile. *)
StatedAlwaysTakesEffect ==
    [][\A u \in Upserts : Commit(u) =>
        \A f \in Fields : body[u][f] # None => policy'[f] \in {body[u][f], None}]_vars

================================================================================
