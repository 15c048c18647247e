----------------------------- MODULE GatewayProxy -----------------------------
(***************************************************************************)
(* proxy and _handle_streaming_proxy of gateway/main.py: a request is      *)
(* authenticated, checked against its department's policy, scrubbed,       *)
(* forwarded to the provider, and its answer scrubbed, logged and          *)
(* returned.  Requests are served concurrently by one event loop: the      *)
(* actions below are the stretches of code between two awaits.             *)
(*                                                                         *)
(* The rate limiter (module RateLimit) and the writing of the audit row    *)
(* (module AuditLog) appear here by their outcomes.  Rows carry what the   *)
(* budget reads: all requests are of one department and one month.         *)
(***************************************************************************)
EXTENDS Integers, FiniteSets, Functions

CONSTANTS Requests,
          StaffKeys,
          Models, NoModel,
          Inputs,                   \* what the requests may look like
          Policies,                 \* allowed_models lists; {} allows all
          monthly_cost_limit_cents,
          Costs,                    \* cents an answered request may cost
          SCRUBBER_FAILURE_MODE,
          MaxAdmin                  \* bound: administrators' changes

Input == [key      : StaffKeys \cup {"none"},
          provider : {"configured", "keyless", "unknown"},
          body     : {"empty", "object", "array", "text"},
          model    : Models \cup {NoModel},   \* the object's "model"
          stream   : BOOLEAN]                 \* the object's "stream"

ASSUME RequestsAssumption == IsFiniteSet(Requests)
ASSUME InputsAssumption ==
    /\ Inputs \subseteq Input
    /\ \A i \in Inputs : i.body # "object" => i.model = NoModel /\ ~i.stream
ASSUME ModeAssumption == SCRUBBER_FAILURE_MODE \in {"fail_closed", "fail_open"}
ASSUME CostAssumption == Costs \subseteq Nat /\ monthly_cost_limit_cents \in Nat
ASSUME PoliciesAssumption == Policies \subseteq SUBSET Models
ASSUME BoundsAssumption == MaxAdmin \in Nat

VARIABLES active,      \* staff keys that are active
          allowed,     \* the department's allowed_models
          log,         \* committed rows: request, status, cost
          changes,
          input,       \* input[r]: the request
          pc,          \* pc[r]: the next stretch of its handler
          outbound,    \* outbound[r]: body it is to send, scrubbed or not
          received,    \* received[r]: body the provider got
          upstream,    \* upstream[r]: status the provider answered, 0 while none
          cost,        \* cost[r]: cents the row will say
          answer       \* answer[r]: status the caller got, 0 while none

(* Observers. *)
VARIABLES wasAllowed,  \* while held, the key was active and the model allowed
          peak         \* most requests at once between budget check and row

handler == <<input, pc, outbound, received, upstream, cost, answer>>
vars == <<active, allowed, log, changes, handler, wasAllowed, peak>>

(* "broken": a stream that stopped without the task that logs it. *)
Ended == {"done", "broken", "lost"}

(* Where a handler waits for its caller, to upload or to read, or has just
   got another part of the provider's answer. *)
Waits == {"body", "relaying", "part"}

Names(i) == i.model # NoModel
ModelAllowed(i, list) == ~Names(i) \/ list = {} \/ i.model \in list

Total(rows) == SumFunction([row \in rows |-> row.cost])
Spent == Total(log)

(* Requests whose cost is not in the log yet though their budget was checked. *)
Spending == {r \in Requests : /\ Names(input[r])
                              /\ pc[r] \in {"scrub", "send", "upstream", "part", "log"}}

-------------------------------------------------------------------------------
Init == /\ active = StaffKeys
        /\ allowed \in Policies
        /\ log = {}
        /\ changes = 0
        /\ input \in [Requests -> Inputs]
        /\ pc = [r \in Requests |-> "coming"]
        /\ outbound = [r \in Requests |-> "none"]
        /\ received = [r \in Requests |-> "nothing"]
        /\ upstream = [r \in Requests |-> 0]
        /\ cost = [r \in Requests |-> 0]
        /\ answer = [r \in Requests |-> 0]
        /\ wasAllowed = [r \in Requests |-> [key |-> FALSE, model |-> FALSE]]
        /\ peak = 0

Goto(r, label) == pc' = [pc EXCEPT ![r] = label]

(* The handler raises HTTPException, or fails with a 500. *)
Refuse(r, status) == /\ Goto(r, "done")
                     /\ answer' = [answer EXCEPT ![r] = status]

(* The request reaches the gateway. *)
Arrive(r) ==
    /\ pc[r] = "coming"
    /\ Goto(r, "authenticate")
    /\ wasAllowed' = [wasAllowed EXCEPT ![r] =
                          [key   |-> input[r].key \in active,
                           model |-> ModelAllowed(input[r], allowed)]]
    /\ UNCHANGED <<active, allowed, log, changes, input, outbound, received,
                   upstream, cost, answer, peak>>

(* Every stretch of a handler leaves these alone. *)
HandlerOnly == UNCHANGED <<active, allowed, changes, input, wasAllowed>>

(* Faulty variant: a deactivated key is found, and that is enough. *)
Authenticate_AnyKey(r) ==
    /\ pc[r] = "authenticate"
    /\ CASE input[r].key = "none"          -> Refuse(r, 401)
         [] input[r].provider = "unknown"  -> Refuse(r, 400)
         [] input[r].provider = "keyless"  -> Refuse(r, 502)
         [] OTHER -> Goto(r, "rate") /\ UNCHANGED answer
    /\ HandlerOnly
    /\ UNCHANGED <<log, outbound, received, upstream, cost, peak>>

(* authenticate, then the provider's configuration. *)
Authenticate(r) ==
    /\ pc[r] = "authenticate"
    /\ CASE input[r].key \notin active     -> Refuse(r, 401)
         [] input[r].provider = "unknown"  -> Refuse(r, 400)
         [] input[r].provider = "keyless"  -> Refuse(r, 502)
         [] OTHER -> Goto(r, "rate") /\ UNCHANGED answer
    /\ HandlerOnly
    /\ UNCHANGED <<log, outbound, received, upstream, cost, peak>>

(* check_rate_limit lets the request through or answers 429. *)
CheckRate(r) ==
    /\ pc[r] = "rate"
    /\ \/ Refuse(r, 429)
       \/ Goto(r, "body") /\ UNCHANGED answer
    /\ HandlerOnly
    /\ UNCHANGED <<log, outbound, received, upstream, cost, peak>>

(* The body is read and parsed: JSON that is not an object has no .get, and
   the handler fails.  A named model is checked, anything else is not. *)
ReadBody(r) ==
    /\ pc[r] = "body"
    /\ CASE input[r].body = "array" -> Refuse(r, 500)
         [] Names(input[r])         -> Goto(r, "model") /\ UNCHANGED answer
         [] OTHER                   -> Goto(r, "scrub") /\ UNCHANGED answer
    /\ HandlerOnly
    /\ UNCHANGED <<log, outbound, received, upstream, cost, peak>>

(* check_model_allowed reads the policy. *)
CheckModel(r) ==
    /\ pc[r] = "model"
    /\ IF ModelAllowed(input[r], allowed)
         THEN Goto(r, "budget") /\ UNCHANGED answer
         ELSE Refuse(r, 403)
    /\ HandlerOnly
    /\ UNCHANGED <<log, outbound, received, upstream, cost, peak>>

(* Faulty variant: the month's last cent may be spent twice. *)
OverBudget_OffByOne(spent) == spent > monthly_cost_limit_cents

OverBudget(spent) == spent >= monthly_cost_limit_cents

(* check_budget sums the rows written so far. *)
CheckBudget(r) ==
    /\ pc[r] = "budget"
    /\ IF OverBudget(Spent)
         THEN Refuse(r, 429) /\ UNCHANGED peak
         ELSE /\ Goto(r, "scrub") /\ UNCHANGED answer
              /\ LET n == Cardinality(Spending) + 1 IN peak' = IF n > peak THEN n ELSE peak
    /\ HandlerOnly
    /\ UNCHANGED <<log, outbound, received, upstream, cost>>

(* authenticate, check_rate_limit, check_model_allowed or check_budget cannot
   read the database, or the caller stops in the middle of the body. *)
CheckFails(r) ==
    /\ pc[r] \in {"authenticate", "rate", "body", "model", "budget"}
    /\ Refuse(r, 500)
    /\ HandlerOnly
    /\ UNCHANGED <<log, outbound, received, upstream, cost, peak>>

Send(r, body) == /\ outbound' = [outbound EXCEPT ![r] = body]
                 /\ Goto(r, IF input[r].stream THEN "open" ELSE "send")
                 /\ UNCHANGED answer

(* _scrub_payload cleans every string of a JSON body; other bodies go as
   they are.  A scrubber that fails ends the request, or is skipped when the
   gateway fails open. *)
Scrub(r) ==
    /\ pc[r] = "scrub"
    /\ \/ Send(r, IF input[r].body = "object" THEN "clean" ELSE "raw")
       \/ /\ input[r].body = "object"
          /\ IF SCRUBBER_FAILURE_MODE = "fail_open"
               THEN Send(r, "raw")
               ELSE Refuse(r, 503) /\ UNCHANGED outbound
    /\ HandlerOnly
    /\ UNCHANGED <<log, received, upstream, cost, peak>>

(* Faulty variant: the provider is sent the body the caller sent. *)
Forward_Original(r) ==
    /\ pc[r] = "send"
    /\ received' = [received EXCEPT ![r] = "raw"]
    /\ Goto(r, "upstream")
    /\ HandlerOnly
    /\ UNCHANGED <<log, outbound, upstream, cost, answer, peak>>

(* The provider gets the request. *)
Forward(r) ==
    /\ pc[r] = "send"
    /\ received' = [received EXCEPT ![r] = outbound[r]]
    /\ Goto(r, "upstream")
    /\ HandlerOnly
    /\ UNCHANGED <<log, outbound, upstream, cost, answer, peak>>

(* Faulty variant: once the provider has the request, nothing limits the wait. *)
UpstreamFails_NoTimeout(r) ==
    /\ pc[r] = "send"
    /\ Refuse(r, 502)
    /\ HandlerOnly
    /\ UNCHANGED <<log, outbound, received, upstream, cost, peak>>

(* httpx gives up: it cannot connect, the connection breaks, or 120 seconds
   have passed without a byte from the provider. *)
UpstreamFails(r) ==
    /\ pc[r] \in {"send", "upstream"}
    /\ Refuse(r, 502)
    /\ HandlerOnly
    /\ UNCHANGED <<log, outbound, received, upstream, cost, peak>>

(* A part of the answer arrives; httpx keeps it and waits another 120 seconds
   for the next. *)
Part(r) ==
    /\ pc[r] = "upstream"
    /\ Goto(r, "part")
    /\ HandlerOnly
    /\ UNCHANGED <<log, outbound, received, upstream, cost, answer, peak>>

ReadOn(r) ==
    /\ pc[r] = "part"
    /\ Goto(r, "upstream")
    /\ HandlerOnly
    /\ UNCHANGED <<log, outbound, received, upstream, cost, answer, peak>>

(* The answer is complete: it is a JSON object or text, which is scrubbed and
   priced, or a JSON array, in which extract_usage finds no .get.  A
   response that cannot be scrubbed is withheld. *)
Receive(r) ==
    /\ pc[r] = "upstream"
    /\ \E status \in {200, 429} :
          /\ upstream' = [upstream EXCEPT ![r] = status]
          /\ \/ /\ \E c \in IF Names(input[r]) THEN Costs ELSE {0} :
                      cost' = [cost EXCEPT ![r] = c]
                /\ Goto(r, "log")
                /\ UNCHANGED answer
             \/ /\ Refuse(r, 500)   \* the answer is an array
                /\ UNCHANGED cost
             \/ /\ SCRUBBER_FAILURE_MODE = "fail_closed"
                /\ Refuse(r, 503)
                /\ UNCHANGED cost
    /\ HandlerOnly
    /\ UNCHANGED <<log, outbound, received, peak>>

Row(r, status) == [request |-> r, status |-> status, cost |-> cost[r]]

(* _log_request commits the row; only then is the caller answered. *)
LogAndAnswer(r) ==
    /\ pc[r] = "log"
    /\ log' = log \cup {Row(r, upstream[r])}
    /\ Refuse(r, upstream[r])
    /\ HandlerOnly
    /\ UNCHANGED <<outbound, received, upstream, cost, peak>>

(* Faulty variant: the answer does not wait for a row that cannot be written. *)
LogFails_AnswersAnyway(r) ==
    /\ pc[r] = "log"
    /\ Refuse(r, upstream[r])
    /\ HandlerOnly
    /\ UNCHANGED <<log, outbound, received, upstream, cost, peak>>

LogFails(r) ==
    /\ pc[r] = "log"
    /\ Refuse(r, 500)
    /\ HandlerOnly
    /\ UNCHANGED <<log, outbound, received, upstream, cost, peak>>

-------------------------------------------------------------------------------
(* Streaming: _handle_streaming_proxy answers 200 at once, generate() relays
   what the provider sends, and log_after_stream runs when it is through. *)

StartStream(r) ==
    /\ pc[r] = "open"
    /\ Goto(r, "connect")
    /\ answer' = [answer EXCEPT ![r] = 200]
    /\ HandlerOnly
    /\ UNCHANGED <<log, outbound, received, upstream, cost, peak>>

(* The provider gets the request. *)
Connect(r) ==
    /\ pc[r] = "connect"
    /\ received' = [received EXCEPT ![r] = outbound[r]]
    /\ Goto(r, "streaming")
    /\ HandlerOnly
    /\ UNCHANGED <<log, outbound, upstream, cost, answer, peak>>

(* Its status, or another line of its answer, arrives ... *)
Chunk(r) ==
    /\ pc[r] = "streaming"
    /\ \E status \in IF upstream[r] = 0 THEN {200, 429} ELSE {upstream[r]} :
           upstream' = [upstream EXCEPT ![r] = status]
    /\ Goto(r, "relaying")
    /\ HandlerOnly
    /\ UNCHANGED <<log, outbound, received, cost, answer, peak>>

(* ... and is scrubbed and passed on as fast as the caller reads. *)
Relay(r) ==
    /\ pc[r] = "relaying"
    /\ Goto(r, "streaming")
    /\ HandlerOnly
    /\ UNCHANGED <<log, outbound, received, upstream, cost, answer, peak>>

(* Faulty variant: no background task. *)
EndStream_NoTask(r) ==
    /\ pc[r] = "streaming" /\ upstream[r] # 0
    /\ Goto(r, "done")
    /\ HandlerOnly
    /\ UNCHANGED <<log, outbound, received, upstream, cost, answer, peak>>

(* The provider's answer ends. *)
EndStream(r) ==
    /\ pc[r] = "streaming" /\ upstream[r] # 0
    /\ Goto(r, "background")
    /\ HandlerOnly
    /\ UNCHANGED <<log, outbound, received, upstream, cost, answer, peak>>

(* httpx gives up, as in UpstreamFails: the exception leaves generate(), and
   the background task with it. *)
BreakStream(r) ==
    /\ pc[r] \in {"connect", "streaming"}
    /\ Goto(r, "broken")
    /\ HandlerOnly
    /\ UNCHANGED <<log, outbound, received, upstream, cost, answer, peak>>

(* So it does when a line cannot be scrubbed. *)
ChunkFails(r) ==
    /\ pc[r] = "relaying"
    /\ SCRUBBER_FAILURE_MODE = "fail_closed"
    /\ Goto(r, "broken")
    /\ HandlerOnly
    /\ UNCHANGED <<log, outbound, received, upstream, cost, answer, peak>>

(* The caller, who has had his 200 since before the provider was connected,
   hangs up.  Whether the background task still runs is up to the version of
   the framework: if it does, it logs also what was never sent. *)
ClientLeaves(r) ==
    /\ pc[r] \in {"connect", "streaming", "relaying"}
    /\ Goto(r, "background") \/ Goto(r, "broken")
    /\ HandlerOnly
    /\ UNCHANGED <<log, outbound, received, upstream, cost, answer, peak>>

(* The row says 200, and no cost: neither status nor usage was looked at. *)
LogStream(r) ==
    /\ pc[r] = "background"
    /\ log' = log \cup {[request |-> r, status |-> 200, cost |-> 0]}
    /\ Goto(r, "done")
    /\ HandlerOnly
    /\ UNCHANGED <<outbound, received, upstream, cost, answer, peak>>

LogStreamFails(r) ==
    /\ pc[r] = "background"
    /\ Goto(r, "broken")
    /\ HandlerOnly
    /\ UNCHANGED <<log, outbound, received, upstream, cost, answer, peak>>

-------------------------------------------------------------------------------
(* Around the handlers. *)

(* DELETE /admin/keys/{id} *)
DeactivateKey(k) ==
    /\ k \in active
    /\ changes < MaxAdmin
    /\ changes' = changes + 1
    /\ active' = active \ {k}
    /\ UNCHANGED <<allowed, log, handler, wasAllowed, peak>>

(* POST /admin/policies, seen by the requests being held. *)
UpsertPolicy(list) ==
    /\ list # allowed
    /\ changes < MaxAdmin
    /\ changes' = changes + 1
    /\ allowed' = list
    /\ wasAllowed' =
           [r \in Requests |->
               [key   |-> wasAllowed[r].key,
                model |-> \/ wasAllowed[r].model
                          \/ pc[r] # "coming" /\ ModelAllowed(input[r], list)]]
    /\ UNCHANGED <<active, log, handler, peak>>

(* The process dies with every request it holds. *)
Crash ==
    /\ pc' = [r \in Requests |-> IF pc[r] \in Ended \cup {"coming"} THEN pc[r] ELSE "lost"]
    /\ pc' # pc
    /\ UNCHANGED <<active, allowed, log, changes, input, outbound, received, upstream, cost,
                   answer, wasAllowed, peak>>

(* What a handler does by itself: the event loop runs it, and the database
   answers or raises. *)
Handle(r) == \/ Authenticate(r) \/ CheckRate(r) \/ CheckModel(r) \/ CheckBudget(r)
             \/ CheckFails(r) \/ Scrub(r) \/ ReadOn(r) \/ LogAndAnswer(r) \/ LogFails(r)
             \/ StartStream(r) \/ LogStream(r) \/ LogStreamFails(r)

(* What takes the provider, *)
Exchange(r) == \/ Forward(r) \/ Part(r) \/ Receive(r)
               \/ Connect(r) \/ Chunk(r) \/ EndStream(r)

(* and what takes the caller. *)
Caller(r) == Arrive(r) \/ ReadBody(r) \/ Relay(r) \/ ClientLeaves(r)

Fail(r) == UpstreamFails(r) \/ BreakStream(r) \/ ChunkFails(r)

Next == \/ \E r \in Requests : Handle(r) \/ Exchange(r) \/ Caller(r) \/ Fail(r)
        \/ \E k \in StaffKeys : DeactivateKey(k)
        \/ \E list \in Policies : UpsertPolicy(list)
        \/ Crash

(* Handlers go on, and httpx raises if it waits too long in one place.  The
   provider need never answer nor end its answer, the caller never read on. *)
Fairness == \A r \in Requests : /\ WF_vars(Handle(r))
                                /\ WF_vars(UpstreamFails(r))
                                /\ WF_vars(BreakStream(r))

Spec == Init /\ [][Next]_vars

FairSpec == Spec /\ Fairness

-------------------------------------------------------------------------------
(* Properties. *)

RowsOf(r) == {row \in log : row.request = r}

(* Type invariant, with the order of a request's life: what the provider got
   was made ready before, it answers only what it got, and only a stream is
   logged without the provider having got it. *)
TypeOK ==
    /\ active \subseteq StaffKeys /\ allowed \in Policies
    /\ changes \in 0..MaxAdmin
    /\ input \in [Requests -> Inputs]
    /\ pc \in [Requests -> Ended \cup Waits \cup
                 {"coming", "authenticate", "rate", "model", "budget", "scrub",
                  "send", "upstream", "log", "open", "connect", "streaming", "background"}]
    /\ outbound \in [Requests -> {"none", "clean", "raw"}]
    /\ \A r \in Requests : received[r] \in {"nothing", outbound[r]}
    /\ upstream \in [Requests -> {0, 200, 429}]
    /\ cost \in [Requests -> Costs \cup {0}]
    /\ \A r \in Requests : upstream[r] # 0 \/ (RowsOf(r) # {} /\ ~input[r].stream) =>
                               received[r] # "nothing"
    /\ answer \in [Requests -> {0, 200, 400, 401, 403, 429, 500, 502, 503}]
    /\ \A r \in Requests : pc[r] \in {"done", "broken"} => answer[r] # 0

(* Keys are deactivated and allowlists change while requests are held: a
   request is forwarded only if its key was active when it came and its model
   was allowed at some moment since. *)
ForwardedWasAllowed ==
    \A r \in Requests : received[r] # "nothing" => wasAllowed[r].key /\ wasAllowed[r].model

(* A JSON body leaves the gateway scrubbed, also when the scrubber fails,
   unless the gateway was configured to fail open. *)
JsonLeavesClean ==
    \A r \in Requests : received[r] = "raw" =>
        input[r].body # "object" \/ SCRUBBER_FAILURE_MODE = "fail_open"

(* A caller who got the provider's answer finds the request in the audit log,
   once, with the status he was given: an answer never overtakes its row. *)
AnsweredIsLogged ==
    \A r \in Requests :
        /\ \A a, b \in RowsOf(r) : a = b
        /\ ~input[r].stream /\ answer[r] \in {200, 429} /\ received[r] # "nothing" =>
              \E row \in RowsOf(r) : row.status = answer[r] /\ row.cost = cost[r]

(* The row of a request that was not streamed is about one the provider got,
   and gives the status the provider gave. *)
RowsTellTheTruth ==
    \A row \in log : ~input[row.request].stream =>
        received[row.request] # "nothing" /\ row.status = upstream[row.request]

(* The budget is checked before the cost is known.  The month's costs exceed
   the limit by no more than what the requests past the check at one time
   may cost. *)
BudgetOvershoot ==
    \A c \in Costs : (\A d \in Costs : d <= c) =>
        Spent = 0 \/ Spent <= monthly_cost_limit_cents - 1 + peak * c

(* The handler of r is held by its caller, or by an answer without end. *)
Held(r) == []<>(pc[r] \in Waits)

(* Every request that reached the provider is logged, streamed or not, unless
   the gateway answers with a failure of its own, the stream breaks off or the
   process dies: being done with a request implies its row. *)
ForwardedIsLogged ==
    \A r \in Requests :
        \/ Held(r)
        \/ (received[r] # "nothing") ~>
               (RowsOf(r) # {} \/ answer[r] >= 500 \/ pc[r] \in {"broken", "lost"})

(* Every request that came is answered or dies with the process: a provider
   that falls silent, before its answer or in the middle of it, is given up. *)
RequestsEnd ==
    \A r \in Requests :
        \/ Held(r)
        \/ (pc[r] # "coming") ~> (pc[r] \in Ended)

-------------------------------------------------------------------------------
(* What the documentation says and the code does not do. *)

(* "Every request that passes through the gateway is recorded"
   (README.md:493), when the gateway itself keeps running and its database
   answers: here, whenever a handler is through with a forwarded request. *)
EveryRequestRecorded ==
    \A r \in Requests : pc[r] = "done" /\ received[r] # "nothing" => RowsOf(r) # {}

(* The log gives the "Response status" of a request (README.md:428). *)
StatusRecorded ==
    \A row \in log : upstream[row.request] \in {0, row.status}

(* A row is proof of "what happened", among it that "the request was
   forwarded" (docs/BLUEPRINT.md:564). *)
OnlyForwardedRecorded == \A row \in log : received[row.request] # "nothing"

(* "Nothing leaves your network without sanitization" (README.md:59). *)
NothingLeavesRaw == \A r \in Requests : received[r] # "raw"

===============================================================================
