-------------------------- MODULE GatewayProxyProofs ---------------------------
(***************************************************************************)
(* Theorems about GatewayProxy and about Scrubber, which it calls.         *)
(* The proxy, for any number of requests, keys, models and policies, any   *)
(* costs and either failure mode: the invariant follows one request along  *)
(* its handler; a step of another request leaves it alone.  What all of    *)
(* them together may spend comes after it.                                 *)
(* The scrubber, for payloads of any shape and size and numbers of any     *)
(* length, whatever rules of the operator's own and names of people there  *)
(* are: the checksum, what the recognizers make of a SIN, and the walk     *)
(* that takes every string to them.                                        *)
(***************************************************************************)
EXTENDS GatewayProxy, Scrubber, FiniteSetTheorems, SequenceTheorems, TLAPS

Unsent   == {"coming", "authenticate", "rate", "body", "model", "budget", "scrub"}
Plain    == {"send", "upstream", "part", "log"}
Streamed == {"open", "connect", "streaming", "relaying", "background"}
Answered == {"connect", "streaming", "relaying", "background", "broken"}

(* The values each variable may take. *)
Typed ==
    /\ active \subseteq StaffKeys /\ allowed \in Policies
    /\ changes \in 0..MaxAdmin
    /\ input \in [Requests -> Inputs]
    /\ pc \in [Requests -> Ended \cup Unsent \cup Plain \cup Streamed]
    /\ outbound \in [Requests -> {"none", "clean", "raw"}]
    /\ received \in [Requests -> {"nothing", "none", "clean", "raw"}]
    /\ upstream \in [Requests -> {0, 200, 429}]
    /\ cost \in [Requests -> Costs \cup {0}]
    /\ answer \in [Requests -> {0, 200, 400, 401, 403, 429, 500, 502, 503}]
    /\ wasAllowed \in [Requests -> [key : BOOLEAN, model : BOOLEAN]]

(* What a request's place in the handler says of its locals. *)
Staged(r) ==
    /\ received[r] \in {"nothing", outbound[r]}
    /\ pc[r] \in Unsent \cup {"send", "open", "connect"} =>
          received[r] = "nothing" /\ upstream[r] = 0
    /\ pc[r] \in {"upstream", "part", "log", "streaming", "relaying"} =>
          received[r] # "nothing"
    /\ upstream[r] # 0 => received[r] # "nothing"
    /\ pc[r] = "log" => upstream[r] # 0
    /\ pc[r] \in Plain => ~input[r].stream
    /\ pc[r] \in Streamed \cup {"broken"} => input[r].stream
    /\ pc[r] \in Unsent \cup Plain \cup {"open"} => answer[r] = 0
    /\ pc[r] \in Answered => answer[r] = 200
    /\ pc[r] = "lost" /\ ~input[r].stream => answer[r] = 0
    /\ pc[r] = "done" => answer[r] # 0

(* What the checks a request has passed say of its permission. *)
Permitted(r) ==
    /\ pc[r] # "coming" /\ ModelAllowed(input[r], allowed) => wasAllowed[r].model
    /\ pc[r] = "authenticate" /\ input[r].key \in active => wasAllowed[r].key
    /\ pc[r] \in (Unsent \cup Plain \cup Streamed) \ {"coming", "authenticate"} =>
          wasAllowed[r].key
    /\ pc[r] \in {"budget", "scrub"} \cup Plain \cup Streamed => wasAllowed[r].model
    /\ received[r] # "nothing" => wasAllowed[r].key /\ wasAllowed[r].model

Cleaned(r) ==
    outbound[r] = "raw" => input[r].body # "object" \/ SCRUBBER_FAILURE_MODE = "fail_open"

(* A row is written at the very end, once. *)
Recorded(r) ==
    /\ \A row \in log : row.request = r =>
          /\ pc[r] = "done"
          /\ ~input[r].stream => received[r] # "nothing" /\ row.status = upstream[r]
    /\ \A a, b \in log : a.request = r /\ b.request = r => a = b
    /\ ~input[r].stream /\ answer[r] \in {200, 429} /\ received[r] # "nothing" =>
          \E row \in log : row.request = r /\ row.status = answer[r] /\ row.cost = cost[r]

Followed(r) == Staged(r) /\ Permitted(r) /\ Cleaned(r) /\ Recorded(r)

ProxyInv == /\ Typed
            /\ \A row \in log : row.request \in Requests
            /\ \A r \in Requests : Followed(r)

IsRow(row, r) == row \in log /\ row.request = r

(* The part of the state that is about request s, and the permissions. *)
Untouched(s) ==
    /\ pc'[s] = pc[s] /\ outbound'[s] = outbound[s] /\ received'[s] = received[s]
    /\ upstream'[s] = upstream[s] /\ cost'[s] = cost[s] /\ answer'[s] = answer[s]
    /\ wasAllowed'[s] = wasAllowed[s]
    /\ UNCHANGED <<input, active, allowed>>
    /\ \A row : IsRow(row, s)' <=> IsRow(row, s)

-------------------------------------------------------------------------------
(* A step of one handler leaves the other requests alone. *)
LEMMA OthersFollowed ==
  ASSUME NEW s \in Requests, Followed(s), Untouched(s)
  PROVE  Followed(s)'
<1>1. Staged(s)' /\ Permitted(s)'
  BY DEF Followed, Staged, Permitted, Untouched
<1>2. Cleaned(s)'
  BY DEF Followed, Cleaned, Untouched
<1>3. Recorded(s)'
  BY DEF Followed, Recorded, Untouched, IsRow
<1> QED BY <1>1, <1>2, <1>3 DEF Followed

(* A step of request r keeps the invariant if it is typed and r keeps its. *)
LEMMA StepOf ==
  ASSUME ProxyInv, NEW r \in Requests,
         Typed', Followed(r)',
         \A row \in log' : row.request \in Requests,
         \A s \in Requests \ {r} : Untouched(s)
  PROVE  ProxyInv'
<1>1. \A s \in Requests \ {r} : Followed(s)'
  BY OthersFollowed DEF ProxyInv
<1> QED BY <1>1 DEF ProxyInv

-------------------------------------------------------------------------------
(* Up to the scrubber nothing was sent. *)
LEMMA ArriveKeeps ==
  ASSUME ProxyInv, NEW r \in Requests, Arrive(r)
  PROVE  ProxyInv'
<1> USE DEF ProxyInv
<1> DEFINE key == input[r].key \in active
           model == ModelAllowed(input[r], allowed)
           now == [key |-> key, model |-> model]
<1>1. now \in [key : BOOLEAN, model : BOOLEAN]
  <2>1. key \in BOOLEAN
    OBVIOUS
  <2>2. model \in BOOLEAN
    BY DEF ModelAllowed
  <2> HIDE DEF key, model
  <2> QED BY <2>1, <2>2
<1>2. (now.key <=> key) /\ (now.model <=> model)
  OBVIOUS
<1>3. /\ pc[r] = "coming"
      /\ Goto(r, "authenticate")
      /\ wasAllowed' = [wasAllowed EXCEPT ![r] = now]
      /\ UNCHANGED <<active, allowed, log, changes, input, outbound, received,
                     upstream, cost, answer>>
  BY DEF Arrive
<1> HIDE DEF now
<1>4. Typed'
  BY <1>1, <1>3 DEF Typed, Goto, Unsent
<1>5. Followed(r)'
  <2>1. Staged(r)'
    BY <1>3 DEF Typed, Goto, Followed, Staged, Unsent, Plain, Streamed, Answered
  <2>2. received'[r] = "nothing" /\ pc'[r] = "authenticate"
    BY <1>3 DEF Typed, Goto, Followed, Staged, Unsent
  <2>3. wasAllowed'[r] = now
    BY <1>3 DEF Typed
  <2>4. Permitted(r)'
    BY <1>2, <1>3, <2>2, <2>3 DEF Permitted, Plain, Streamed
  <2>5. Cleaned(r)' /\ Recorded(r)'
    BY <1>3 DEF Typed, Goto, Followed, Cleaned, Recorded, IsRow
  <2> QED BY <2>1, <2>4, <2>5 DEF Followed
<1>6. \A s \in Requests \ {r} : Untouched(s)
  BY <1>3 DEF Typed, Goto, Untouched, IsRow
<1> QED BY <1>3, <1>4, <1>5, <1>6, StepOf

(* A key that is refused ends the request; one that passes was active before. *)
LEMMA AuthenticateKeeps ==
  ASSUME ProxyInv, NEW r \in Requests, Authenticate(r)
  PROVE  ProxyInv'
<1> USE DEF ProxyInv, Authenticate, Goto, Refuse, HandlerOnly
<1>1. Typed'
  <2>1. Typed /\ HandlerOnly
    OBVIOUS
  <2>2. UNCHANGED <<log, outbound, received, upstream, cost>>
    OBVIOUS
  <2> HIDE DEF ProxyInv, Goto, Refuse, HandlerOnly
  <2>3. \/ \E s \in {400, 401, 403, 500, 502} : Refuse(r, s)
        \/ \E place \in Unsent : Goto(r, place) /\ UNCHANGED answer
    BY DEF Authenticate, Unsent
  <2> HIDE DEF Authenticate
  <2>4. ASSUME NEW s \in {400, 401, 403, 500, 502}, Refuse(r, s)
        PROVE  Typed'
    BY <2>1, <2>2, <2>4 DEF Typed, Refuse, Goto, HandlerOnly, Ended
  <2>5. ASSUME NEW place \in Unsent, Goto(r, place), UNCHANGED answer
        PROVE  Typed'
    BY <2>1, <2>2, <2>5 DEF Typed, Goto, HandlerOnly
  <2> QED BY <2>3, <2>4, <2>5
<1>2. Staged(r)'
  BY DEF Typed, Followed, Staged, Recorded, Unsent, Plain, Streamed, Answered
<1>3. Permitted(r)'
  BY DEF Typed, Followed, Permitted, Staged, ModelAllowed, Unsent, Plain, Streamed
<1>4. Cleaned(r)'
  BY DEF Typed, Followed, Cleaned
<1>5. Recorded(r)'
  BY DEF Typed, Followed, Staged, Recorded, IsRow, Unsent, Plain, Streamed, Answered
<1>6. \A s \in Requests \ {r} : Untouched(s)
  BY DEF Typed, Untouched, IsRow
<1>7. \A row \in log' : row.request \in Requests
  OBVIOUS
<1> QED BY <1>1, <1>2, <1>3, <1>4, <1>5, <1>6, <1>7, StepOf DEF Followed

(* The rate limiter decides nothing about permission. *)
LEMMA CheckRateKeeps ==
  ASSUME ProxyInv, NEW r \in Requests, CheckRate(r)
  PROVE  ProxyInv'
<1> USE DEF ProxyInv, CheckRate, Goto, Refuse, HandlerOnly
<1>1. Typed'
  <2>1. CASE Refuse(r, 429)
    BY <2>1 DEF Typed, Ended, Unsent, Plain, Streamed
  <2>2. CASE Goto(r, "body") /\ UNCHANGED answer
    BY <2>2 DEF Typed, Ended, Unsent, Plain, Streamed
  <2> QED BY <2>1, <2>2
<1>2. Staged(r)'
  BY DEF Typed, Followed, Staged, Recorded, Unsent, Plain, Streamed, Answered
<1>3. Permitted(r)'
  BY DEF Typed, Followed, Permitted, Staged, ModelAllowed, Unsent, Plain, Streamed
<1>4. Cleaned(r)'
  BY DEF Typed, Followed, Cleaned
<1>5. Recorded(r)'
  BY DEF Typed, Followed, Staged, Recorded, IsRow, Unsent, Plain, Streamed, Answered
<1>6. \A s \in Requests \ {r} : Untouched(s)
  BY DEF Typed, Untouched, IsRow
<1>7. \A row \in log' : row.request \in Requests
  OBVIOUS
<1> QED BY <1>1, <1>2, <1>3, <1>4, <1>5, <1>6, <1>7, StepOf DEF Followed

(* A request that names no model needs none allowed. *)
LEMMA ReadBodyKeeps ==
  ASSUME ProxyInv, NEW r \in Requests, ReadBody(r)
  PROVE  ProxyInv'
<1> USE DEF ProxyInv, ReadBody, Goto, Refuse, HandlerOnly
<1>1. Typed'
  <2>1. Typed /\ HandlerOnly
    OBVIOUS
  <2>2. UNCHANGED <<log, outbound, received, upstream, cost>>
    OBVIOUS
  <2> HIDE DEF ProxyInv, Goto, Refuse, HandlerOnly
  <2>3. \/ \E s \in {400, 401, 403, 500, 502} : Refuse(r, s)
        \/ \E place \in Unsent : Goto(r, place) /\ UNCHANGED answer
    BY DEF ReadBody, Unsent
  <2> HIDE DEF ReadBody
  <2>4. ASSUME NEW s \in {400, 401, 403, 500, 502}, Refuse(r, s)
        PROVE  Typed'
    BY <2>1, <2>2, <2>4 DEF Typed, Refuse, Goto, HandlerOnly, Ended
  <2>5. ASSUME NEW place \in Unsent, Goto(r, place), UNCHANGED answer
        PROVE  Typed'
    BY <2>1, <2>2, <2>5 DEF Typed, Goto, HandlerOnly
  <2> QED BY <2>3, <2>4, <2>5
<1>2. Staged(r)'
  BY DEF Typed, Followed, Staged, Recorded, Unsent, Plain, Streamed, Answered
<1>3. Permitted(r)'
  BY DEF Typed, Followed, Permitted, Staged, ModelAllowed, Unsent, Plain, Streamed
<1>4. Cleaned(r)'
  BY DEF Typed, Followed, Cleaned
<1>5. Recorded(r)'
  BY DEF Typed, Followed, Staged, Recorded, IsRow, Unsent, Plain, Streamed, Answered
<1>6. \A s \in Requests \ {r} : Untouched(s)
  BY DEF Typed, Untouched, IsRow
<1>7. \A row \in log' : row.request \in Requests
  OBVIOUS
<1> QED BY <1>1, <1>2, <1>3, <1>4, <1>5, <1>6, <1>7, StepOf DEF Followed

(* The model is allowed now, hence at some moment since the request came. *)
LEMMA CheckModelKeeps ==
  ASSUME ProxyInv, NEW r \in Requests, CheckModel(r)
  PROVE  ProxyInv'
<1> USE DEF ProxyInv, CheckModel, Goto, Refuse, HandlerOnly
<1>1. Typed'
  <2>1. Typed /\ HandlerOnly
    OBVIOUS
  <2>2. UNCHANGED <<log, outbound, received, upstream, cost>>
    OBVIOUS
  <2> HIDE DEF ProxyInv, Goto, Refuse, HandlerOnly
  <2>3. \/ \E s \in {400, 401, 403, 500, 502} : Refuse(r, s)
        \/ \E place \in Unsent : Goto(r, place) /\ UNCHANGED answer
    BY DEF CheckModel, Unsent
  <2> HIDE DEF CheckModel
  <2>4. ASSUME NEW s \in {400, 401, 403, 500, 502}, Refuse(r, s)
        PROVE  Typed'
    BY <2>1, <2>2, <2>4 DEF Typed, Refuse, Goto, HandlerOnly, Ended
  <2>5. ASSUME NEW place \in Unsent, Goto(r, place), UNCHANGED answer
        PROVE  Typed'
    BY <2>1, <2>2, <2>5 DEF Typed, Goto, HandlerOnly
  <2> QED BY <2>3, <2>4, <2>5
<1>2. Staged(r)'
  BY DEF Typed, Followed, Staged, Recorded, Unsent, Plain, Streamed, Answered
<1>3. Permitted(r)'
  BY DEF Typed, Followed, Permitted, Staged, ModelAllowed, Unsent, Plain, Streamed
<1>4. Cleaned(r)'
  BY DEF Typed, Followed, Cleaned
<1>5. Recorded(r)'
  BY DEF Typed, Followed, Staged, Recorded, IsRow, Unsent, Plain, Streamed, Answered
<1>6. \A s \in Requests \ {r} : Untouched(s)
  BY DEF Typed, Untouched, IsRow
<1>7. \A row \in log' : row.request \in Requests
  OBVIOUS
<1> QED BY <1>1, <1>2, <1>3, <1>4, <1>5, <1>6, <1>7, StepOf DEF Followed

(* The budget decides nothing about permission either. *)
LEMMA CheckBudgetKeeps ==
  ASSUME ProxyInv, NEW r \in Requests, CheckBudget(r)
  PROVE  ProxyInv'
<1> USE DEF ProxyInv, CheckBudget, Goto, Refuse, HandlerOnly
<1>1. Typed'
  <2>1. CASE Refuse(r, 429)
    BY <2>1 DEF Typed, Ended, Unsent, Plain, Streamed
  <2>2. CASE Goto(r, "scrub") /\ UNCHANGED answer
    BY <2>2 DEF Typed, Ended, Unsent, Plain, Streamed
  <2> QED BY <2>1, <2>2
<1>2. Staged(r)'
  BY DEF Typed, Followed, Staged, Recorded, Unsent, Plain, Streamed, Answered
<1>3. Permitted(r)'
  BY DEF Typed, Followed, Permitted, Staged, ModelAllowed, Unsent, Plain, Streamed
<1>4. Cleaned(r)'
  BY DEF Typed, Followed, Cleaned
<1>5. Recorded(r)'
  BY DEF Typed, Followed, Staged, Recorded, IsRow, Unsent, Plain, Streamed, Answered
<1>6. \A s \in Requests \ {r} : Untouched(s)
  BY DEF Typed, Untouched, IsRow
<1>7. \A row \in log' : row.request \in Requests
  OBVIOUS
<1> QED BY <1>1, <1>2, <1>3, <1>4, <1>5, <1>6, <1>7, StepOf DEF Followed

(* Here the body to be sent is chosen. *)
LEMMA ScrubKeeps ==
  ASSUME ProxyInv, NEW r \in Requests, Scrub(r)
  PROVE  ProxyInv'
<1> USE DEF ProxyInv, Scrub, Send, Goto, Refuse, HandlerOnly
<1>1. Typed'
  <2>1. outbound' \in [Requests -> {"none", "clean", "raw"}]
    BY DEF Typed
  <2>2. /\ pc' \in [Requests -> Ended \cup Unsent \cup Plain \cup Streamed]
        /\ answer' \in [Requests -> {0, 200, 400, 401, 403, 429, 500, 502, 503}]
    <3>1. \/ \E s \in {500, 503} : Refuse(r, s)
          \/ \E place \in {"open", "send"} : Goto(r, place) /\ UNCHANGED answer
      OBVIOUS
    <3>2. /\ pc \in [Requests -> Ended \cup Unsent \cup Plain \cup Streamed]
          /\ answer \in [Requests -> {0, 200, 400, 401, 403, 429, 500, 502, 503}]
      BY DEF Typed
    <3> HIDE DEF ProxyInv, Scrub, Send
    <3> QED BY <3>1, <3>2 DEF Ended, Plain, Streamed
  <2>3. Typed /\ HandlerOnly /\ UNCHANGED <<received, upstream, cost>>
    OBVIOUS
  <2> HIDE DEF ProxyInv, Scrub
  <2> QED BY <2>1, <2>2, <2>3 DEF Typed
<1>2. Staged(r)'
  BY DEF Typed, Followed, Staged, Recorded, Unsent, Plain, Streamed, Answered
<1>3. Permitted(r)'
  BY DEF Typed, Followed, Permitted, Staged, ModelAllowed, Unsent, Plain, Streamed
<1>4. Cleaned(r)'
  BY DEF Typed, Followed, Cleaned
<1>5. Recorded(r)'
  BY DEF Typed, Followed, Staged, Recorded, IsRow, Unsent, Plain, Streamed, Answered
<1>6. \A s \in Requests \ {r} : Untouched(s)
  BY DEF Typed, Untouched, IsRow
<1>7. \A row \in log' : row.request \in Requests
  OBVIOUS
<1> QED BY <1>1, <1>2, <1>3, <1>4, <1>5, <1>6, <1>7, StepOf DEF Followed

(* The provider gets the body that was chosen, of a request that was allowed. *)
LEMMA ForwardKeeps ==
  ASSUME ProxyInv, NEW r \in Requests, Forward(r)
  PROVE  ProxyInv'
<1> USE DEF ProxyInv, Forward, Goto, Refuse, HandlerOnly
<1>1. Typed'
  BY BoundsAssumption DEF Typed, Ended, Unsent, Plain, Streamed
<1>2. Staged(r)'
  BY DEF Typed, Followed, Staged, Recorded, Unsent, Plain, Streamed, Answered
<1>3. Permitted(r)'
  BY DEF Typed, Followed, Permitted, Staged, ModelAllowed, Unsent, Plain, Streamed
<1>4. Cleaned(r)'
  BY DEF Typed, Followed, Cleaned
<1>5. Recorded(r)'
  BY DEF Typed, Followed, Staged, Recorded, IsRow, Unsent, Plain, Streamed, Answered
<1>6. \A s \in Requests \ {r} : Untouched(s)
  BY DEF Typed, Untouched, IsRow
<1>7. \A row \in log' : row.request \in Requests
  OBVIOUS
<1> QED BY <1>1, <1>2, <1>3, <1>4, <1>5, <1>6, <1>7, StepOf DEF Followed

(* Only an answer that will be logged keeps the status of the provider. *)
LEMMA ReceiveKeeps ==
  ASSUME ProxyInv, NEW r \in Requests, Receive(r)
  PROVE  ProxyInv'
<1> USE DEF ProxyInv, Receive, Goto, Refuse, HandlerOnly
<1>1. Typed'
  <2>1. Typed /\ HandlerOnly /\ UNCHANGED <<outbound, received>>
    OBVIOUS
  <2>2. upstream' \in [Requests -> {0, 200, 429}]
    BY DEF Typed
  <2>3. cost' \in [Requests -> Costs \cup {0}]
    BY DEF Typed
  <2>4. /\ pc' \in [Requests -> Ended \cup Unsent \cup Plain \cup Streamed]
        /\ answer' \in [Requests -> {0, 200, 400, 401, 403, 429, 500, 502, 503}]
    <3>1. \/ \E s \in {500, 503} : Refuse(r, s)
          \/ Goto(r, "log") /\ UNCHANGED answer
      OBVIOUS
    <3>2. /\ pc \in [Requests -> Ended \cup Unsent \cup Plain \cup Streamed]
          /\ answer \in [Requests -> {0, 200, 400, 401, 403, 429, 500, 502, 503}]
      BY DEF Typed
    <3> HIDE DEF ProxyInv, Receive
    <3> QED BY <3>1, <3>2 DEF Ended, Plain
  <2> HIDE DEF ProxyInv, Receive
  <2> QED BY <2>1, <2>2, <2>3, <2>4 DEF Typed
<1>2. Staged(r)'
  BY DEF Typed, Followed, Staged, Recorded, Unsent, Plain, Streamed, Answered
<1>3. Permitted(r)'
  BY DEF Typed, Followed, Permitted, Staged, ModelAllowed, Unsent, Plain, Streamed
<1>4. Cleaned(r)'
  BY DEF Typed, Followed, Cleaned
<1>5. Recorded(r)'
  BY DEF Typed, Followed, Staged, Recorded, IsRow, Unsent, Plain, Streamed, Answered
<1>6. \A s \in Requests \ {r} : Untouched(s)
  BY DEF Typed, Untouched, IsRow
<1>7. \A row \in log' : row.request \in Requests
  OBVIOUS
<1> QED BY <1>1, <1>2, <1>3, <1>4, <1>5, <1>6, <1>7, StepOf DEF Followed

(* The row is the first of its request, and is there when the caller is answered. *)
LEMMA LogAndAnswerKeeps ==
  ASSUME ProxyInv, NEW r \in Requests, LogAndAnswer(r)
  PROVE  ProxyInv'
<1> USE DEF ProxyInv, LogAndAnswer, Row, Goto, Refuse, HandlerOnly
<1>1. Typed'
  BY BoundsAssumption DEF Typed, Ended, Unsent, Plain, Streamed
<1>2. Staged(r)'
  BY DEF Typed, Followed, Staged, Recorded, Unsent, Plain, Streamed, Answered
<1>3. Permitted(r)'
  BY DEF Typed, Followed, Permitted, Staged, ModelAllowed, Unsent, Plain, Streamed
<1>4. Cleaned(r)'
  BY DEF Typed, Followed, Cleaned
<1>5. Recorded(r)'
  <2> DEFINE new == [request |-> r, status |-> upstream[r], cost |-> cost[r]]
  <2>1. \A row \in log : row.request # r
    BY DEF Followed, Recorded
  <2>2. log' = log \cup {new} /\ new.request = r
    OBVIOUS
  <2>3. new.status = upstream[r] /\ new.cost = cost[r]
    OBVIOUS
  <2>4. /\ pc'[r] = "done" /\ answer'[r] = upstream[r]
        /\ received'[r] # "nothing"
        /\ UNCHANGED <<upstream, cost, received, input>>
    BY DEF Typed, Followed, Staged
  <2> HIDE DEF new
  <2> QED BY <2>1, <2>2, <2>3, <2>4 DEF Recorded
<1>6. \A s \in Requests \ {r} : Untouched(s)
  BY DEF Typed, Untouched, IsRow
<1>7. \A row \in log' : row.request \in Requests
  OBVIOUS
<1> QED BY <1>1, <1>2, <1>3, <1>4, <1>5, <1>6, <1>7, StepOf DEF Followed

(* A stream is answered 200 before anything is sent. *)
LEMMA StartStreamKeeps ==
  ASSUME ProxyInv, NEW r \in Requests, StartStream(r)
  PROVE  ProxyInv'
<1> USE DEF ProxyInv, StartStream, Goto, Refuse, HandlerOnly
<1>1. Typed'
  BY BoundsAssumption DEF Typed, Ended, Unsent, Plain, Streamed
<1>2. Staged(r)'
  BY DEF Typed, Followed, Staged, Recorded, Unsent, Plain, Streamed, Answered
<1>3. Permitted(r)'
  BY DEF Typed, Followed, Permitted, Staged, ModelAllowed, Unsent, Plain, Streamed
<1>4. Cleaned(r)'
  BY DEF Typed, Followed, Cleaned
<1>5. Recorded(r)'
  BY DEF Typed, Followed, Staged, Recorded, IsRow, Unsent, Plain, Streamed, Answered
<1>6. \A s \in Requests \ {r} : Untouched(s)
  BY DEF Typed, Untouched, IsRow
<1>7. \A row \in log' : row.request \in Requests
  OBVIOUS
<1> QED BY <1>1, <1>2, <1>3, <1>4, <1>5, <1>6, <1>7, StepOf DEF Followed

(* It is sent what was chosen, of a request that was allowed. *)
LEMMA ConnectKeeps ==
  ASSUME ProxyInv, NEW r \in Requests, Connect(r)
  PROVE  ProxyInv'
<1> USE DEF ProxyInv, Connect, Goto, Refuse, HandlerOnly
<1>1. Typed'
  BY BoundsAssumption DEF Typed, Ended, Unsent, Plain, Streamed
<1>2. Staged(r)'
  BY DEF Typed, Followed, Staged, Recorded, Unsent, Plain, Streamed, Answered
<1>3. Permitted(r)'
  BY DEF Typed, Followed, Permitted, Staged, ModelAllowed, Unsent, Plain, Streamed
<1>4. Cleaned(r)'
  BY DEF Typed, Followed, Cleaned
<1>5. Recorded(r)'
  BY DEF Typed, Followed, Staged, Recorded, IsRow, Unsent, Plain, Streamed, Answered
<1>6. \A s \in Requests \ {r} : Untouched(s)
  BY DEF Typed, Untouched, IsRow
<1>7. \A row \in log' : row.request \in Requests
  OBVIOUS
<1> QED BY <1>1, <1>2, <1>3, <1>4, <1>5, <1>6, <1>7, StepOf DEF Followed

(* What arrives, arrives from a provider that has the request. *)
LEMMA ChunkKeeps ==
  ASSUME ProxyInv, NEW r \in Requests, Chunk(r)
  PROVE  ProxyInv'
<1> USE DEF ProxyInv, Chunk, Goto, Refuse, HandlerOnly
<1>1. Typed'
  BY BoundsAssumption DEF Typed, Ended, Unsent, Plain, Streamed
<1>2. Staged(r)'
  BY DEF Typed, Followed, Staged, Recorded, Unsent, Plain, Streamed, Answered
<1>3. Permitted(r)'
  BY DEF Typed, Followed, Permitted, Staged, ModelAllowed, Unsent, Plain, Streamed
<1>4. Cleaned(r)'
  BY DEF Typed, Followed, Cleaned
<1>5. Recorded(r)'
  BY DEF Typed, Followed, Staged, Recorded, IsRow, Unsent, Plain, Streamed, Answered
<1>6. \A s \in Requests \ {r} : Untouched(s)
  BY DEF Typed, Untouched, IsRow
<1>7. \A row \in log' : row.request \in Requests
  OBVIOUS
<1> QED BY <1>1, <1>2, <1>3, <1>4, <1>5, <1>6, <1>7, StepOf DEF Followed

(* A failure ends a request that has no answer and no row yet. *)
LEMMA RefuseKeeps ==
  ASSUME ProxyInv, NEW r \in Requests, NEW status \in {500, 502},
         pc[r] \in (Unsent \cup Plain) \ {"coming"},
         Refuse(r, status), HandlerOnly, UNCHANGED <<log, outbound, received, upstream, cost>>
  PROVE  ProxyInv'
<1> USE DEF ProxyInv, Goto, Refuse, HandlerOnly
<1>1. Typed'
  BY BoundsAssumption DEF Typed, Ended, Unsent, Plain, Streamed
<1>2. Staged(r)'
  BY DEF Typed, Followed, Staged, Recorded, Unsent, Plain, Streamed, Answered
<1>3. Permitted(r)'
  BY DEF Typed, Followed, Permitted, Staged, ModelAllowed, Unsent, Plain, Streamed
<1>4. Cleaned(r)'
  BY DEF Typed, Followed, Cleaned
<1>5. Recorded(r)'
  BY DEF Typed, Followed, Staged, Recorded, IsRow, Unsent, Plain, Streamed, Answered
<1>6. \A s \in Requests \ {r} : Untouched(s)
  BY DEF Typed, Untouched, IsRow
<1>7. \A row \in log' : row.request \in Requests
  OBVIOUS
<1> QED BY <1>1, <1>2, <1>3, <1>4, <1>5, <1>6, <1>7, StepOf DEF Followed

(* A step that moves its handler on among places that say the same of it. *)
LEMMA MoveKeeps ==
  ASSUME ProxyInv, NEW r \in Requests, NEW place,
         \/ pc[r] \in {"upstream", "part"} /\ place \in {"upstream", "part"}
         \/ pc[r] \in {"streaming", "relaying"} /\ place \in {"streaming", "relaying"}
         \/ pc[r] \in Answered \ {"broken"} /\ place \in {"background", "broken"},
         Goto(r, place), HandlerOnly,
         UNCHANGED <<log, outbound, received, upstream, cost, answer>>
  PROVE  ProxyInv'
<1> USE DEF ProxyInv, Goto, HandlerOnly
<1>1. Typed'
  BY BoundsAssumption DEF Typed, Ended, Unsent, Plain, Streamed, Answered
<1>2. Staged(r)'
  BY DEF Typed, Followed, Staged, Recorded, Unsent, Plain, Streamed, Answered
<1>3. Permitted(r)'
  BY DEF Typed, Followed, Permitted, Staged, ModelAllowed, Unsent, Plain, Streamed, Answered
<1>4. Cleaned(r)'
  BY DEF Typed, Followed, Cleaned
<1>5. Recorded(r)'
  BY DEF Typed, Followed, Staged, Recorded, IsRow, Unsent, Plain, Streamed, Answered
<1>6. \A s \in Requests \ {r} : Untouched(s)
  BY DEF Typed, Untouched, IsRow
<1>7. \A row \in log' : row.request \in Requests
  OBVIOUS
<1> QED BY <1>1, <1>2, <1>3, <1>4, <1>5, <1>6, <1>7, StepOf DEF Followed

(* The failures of a request that was not answered. *)
LEMMA FailsKeep ==
  ASSUME ProxyInv, NEW r \in Requests, CheckFails(r) \/ UpstreamFails(r) \/ LogFails(r)
  PROVE  ProxyInv'
<1>1. \E status \in {500, 502} : Refuse(r, status)
  BY DEF CheckFails, UpstreamFails, LogFails
<1>2. /\ pc[r] \in (Unsent \cup Plain) \ {"coming"}
      /\ HandlerOnly /\ UNCHANGED <<log, outbound, received, upstream, cost>>
  BY DEF CheckFails, UpstreamFails, LogFails, Unsent, Plain
<1> QED BY <1>1, <1>2, RefuseKeeps

(* What arrives in parts, and what becomes of a stream. *)
LEMMA MovesKeep ==
  ASSUME ProxyInv, NEW r \in Requests,
         \/ Part(r) \/ ReadOn(r) \/ Relay(r) \/ EndStream(r) \/ BreakStream(r)
         \/ ChunkFails(r) \/ ClientLeaves(r) \/ LogStreamFails(r)
  PROVE  ProxyInv'
<1>1. HandlerOnly /\ UNCHANGED <<log, outbound, received, upstream, cost, answer>>
  BY DEF Part, ReadOn, Relay, EndStream, BreakStream, ChunkFails, ClientLeaves, LogStreamFails
<1>2. CASE Part(r) \/ ReadOn(r)
  BY <1>1, <1>2, MoveKeeps DEF Part, ReadOn
<1>3. CASE Relay(r)
  BY <1>1, <1>3, MoveKeeps DEF Relay
<1>4. CASE EndStream(r) \/ BreakStream(r) \/ ChunkFails(r) \/ ClientLeaves(r) \/ LogStreamFails(r)
  BY <1>1, <1>4, MoveKeeps
     DEF EndStream, BreakStream, ChunkFails, ClientLeaves, LogStreamFails, Answered
<1> QED BY <1>2, <1>3, <1>4

(* The row of a stream is the first of its request. *)
LEMMA LogStreamKeeps ==
  ASSUME ProxyInv, NEW r \in Requests, LogStream(r)
  PROVE  ProxyInv'
<1> USE DEF ProxyInv, LogStream, Goto, Refuse, HandlerOnly
<1>1. Typed'
  BY BoundsAssumption DEF Typed, Ended, Unsent, Plain, Streamed
<1>2. Staged(r)'
  BY DEF Typed, Followed, Staged, Recorded, Unsent, Plain, Streamed, Answered
<1>3. Permitted(r)'
  BY DEF Typed, Followed, Permitted, Staged, ModelAllowed, Unsent, Plain, Streamed
<1>4. Cleaned(r)'
  BY DEF Typed, Followed, Cleaned
<1>5. Recorded(r)'
  BY DEF Typed, Followed, Staged, Recorded, IsRow, Unsent, Plain, Streamed, Answered
<1>6. \A s \in Requests \ {r} : Untouched(s)
  BY DEF Typed, Untouched, IsRow
<1>7. \A row \in log' : row.request \in Requests
  OBVIOUS
<1> QED BY <1>1, <1>2, <1>3, <1>4, <1>5, <1>6, <1>7, StepOf DEF Followed

-------------------------------------------------------------------------------
(* Around the handlers. *)

(* A key that is deactivated was active when the requests came. *)
LEMMA DeactivateKeyKeeps ==
  ASSUME ProxyInv, NEW k \in StaffKeys, DeactivateKey(k)
  PROVE  ProxyInv'
<1> USE DEF ProxyInv, DeactivateKey, handler
<1>1. Typed'
  BY BoundsAssumption DEF Typed
<1>2. ASSUME NEW r \in Requests PROVE Followed(r)'
  <2>1. Staged(r)' /\ Cleaned(r)' /\ Recorded(r)'
    BY DEF Followed, Staged, Cleaned, Recorded, IsRow
  <2>2. Permitted(r)'
    BY DEF Followed, Permitted
  <2> QED BY <2>1, <2>2 DEF Followed
<1> QED BY <1>1, <1>2

(* A new allowlist is remembered by all requests being held. *)
LEMMA UpsertPolicyKeeps ==
  ASSUME ProxyInv, NEW list \in Policies, UpsertPolicy(list)
  PROVE  ProxyInv'
<1> USE DEF ProxyInv
<1> DEFINE key(r) == wasAllowed[r].key
           model(r) == \/ wasAllowed[r].model
                       \/ pc[r] # "coming" /\ ModelAllowed(input[r], list)
           now(r) == [key |-> key(r), model |-> model(r)]
<1>1. \A r \in Requests : now(r) \in [key : BOOLEAN, model : BOOLEAN]
  <2>1. \A r \in Requests : key(r) \in BOOLEAN
    BY DEF Typed
  <2>2. \A r \in Requests : model(r) \in BOOLEAN
    OBVIOUS
  <2> HIDE DEF key, model
  <2> QED BY <2>1, <2>2
<1>2. \A r \in Requests : (now(r).key <=> key(r)) /\ (now(r).model <=> model(r))
  OBVIOUS
<1>3. /\ changes < MaxAdmin /\ changes' = changes + 1
      /\ allowed' = list
      /\ wasAllowed' = [r \in Requests |-> now(r)]
      /\ UNCHANGED <<active, log, handler>>
  BY DEF UpsertPolicy
<1> HIDE DEF now
<1>4. Typed'
  BY <1>1, <1>3, BoundsAssumption DEF Typed, handler
<1>5. ASSUME NEW r \in Requests PROVE Followed(r)'
  <2>1. Staged(r)' /\ Cleaned(r)' /\ Recorded(r)'
    BY <1>3 DEF Followed, Staged, Cleaned, Recorded, IsRow, handler
  <2>2. wasAllowed'[r] = now(r)
    BY <1>3
  <2>3. Permitted(r)'
    BY <1>2, <1>3, <2>2 DEF Followed, Permitted, handler
  <2> QED BY <2>1, <2>3 DEF Followed
<1> QED BY <1>3, <1>4, <1>5 DEF handler

(* A request that is lost was answered only if its stream had begun. *)
LEMMA CrashKeeps ==
  ASSUME ProxyInv, Crash
  PROVE  ProxyInv'
<1> USE DEF ProxyInv, Crash
<1>1. Typed'
  BY BoundsAssumption DEF Typed, Ended, Unsent, Plain, Streamed
<1>2. ASSUME NEW r \in Requests PROVE Followed(r)'
  <2>1. pc'[r] = pc[r] \/ (pc'[r] = "lost" /\ pc[r] \in Unsent \cup Plain \cup Streamed)
    BY DEF Typed, Ended
  <2>2. Staged(r)'
    BY <2>1 DEF Followed, Staged, Unsent, Plain, Streamed, Answered
  <2>3. Permitted(r)'
    BY <2>1 DEF Typed, Followed, Permitted, Ended, Unsent, Plain, Streamed
  <2>4. Cleaned(r)' /\ Recorded(r)'
    BY <2>1 DEF Followed, Cleaned, Recorded, IsRow, Unsent, Plain, Streamed
  <2> QED BY <2>2, <2>3, <2>4 DEF Followed
<1> QED BY <1>1, <1>2

-------------------------------------------------------------------------------
(* Nothing was sent, permitted or recorded yet. *)
LEMMA ProxyInit == Init => ProxyInv
<1> SUFFICES ASSUME Init PROVE ProxyInv
  OBVIOUS
<1>1. Typed
  BY BoundsAssumption DEF Init, Typed, Unsent
<1>2. ASSUME NEW r \in Requests PROVE Followed(r)
  BY DEF Init, Followed, Staged, Permitted, Cleaned, Recorded, IsRow,
         Unsent, Plain, Streamed, Answered
<1> QED BY <1>1, <1>2 DEF ProxyInv, Init

(* One case for each action. *)
LEMMA ProxyNext == ProxyInv /\ [Next]_vars => ProxyInv'
<1> SUFFICES ASSUME ProxyInv, [Next]_vars PROVE ProxyInv'
  OBVIOUS
<1>1. CASE UNCHANGED vars
  <2>1. Typed' /\ \A r \in Requests : Untouched(r)
    BY <1>1 DEF ProxyInv, Typed, Untouched, IsRow, vars, handler
  <2> QED BY <1>1, <2>1, OthersFollowed DEF ProxyInv, vars
<1>2. ASSUME NEW r \in Requests, Handle(r) PROVE ProxyInv'
  BY <1>2, AuthenticateKeeps, CheckRateKeeps, CheckModelKeeps, CheckBudgetKeeps, ScrubKeeps,
     LogAndAnswerKeeps, StartStreamKeeps, LogStreamKeeps, FailsKeep, MovesKeep DEF Handle
<1>3. ASSUME NEW r \in Requests, Exchange(r) PROVE ProxyInv'
  BY <1>3, ForwardKeeps, ReceiveKeeps, ConnectKeeps, ChunkKeeps, MovesKeep DEF Exchange
<1>4. ASSUME NEW r \in Requests, Caller(r) PROVE ProxyInv'
  BY <1>4, ArriveKeeps, ReadBodyKeeps, MovesKeep DEF Caller
<1>5. ASSUME NEW r \in Requests, Fail(r) PROVE ProxyInv'
  BY <1>5, FailsKeep, MovesKeep DEF Fail
<1> QED
  BY <1>1, <1>2, <1>3, <1>4, <1>5, DeactivateKeyKeeps, UpsertPolicyKeeps, CrashKeeps DEF Next

(* Hence the invariant holds for ever. *)
LEMMA ProxyInvariant == Spec => []ProxyInv
BY ProxyInit, ProxyNext, PTL DEF Spec

(* TypeOK: what the provider got was made ready before, it answers only what it
   got, and only a stream is logged that never reached it. *)
THEOREM ProxyTypeCorrect == Spec => []TypeOK
<1>1. ProxyInv => TypeOK
  <2> SUFFICES ASSUME ProxyInv PROVE TypeOK
    OBVIOUS
  <2>1. \A r \in Requests : RowsOf(r) # {} /\ ~input[r].stream => received[r] # "nothing"
    BY DEF ProxyInv, Followed, Recorded, IsRow, RowsOf
  <2>2. \A r \in Requests : /\ received[r] \in {"nothing", outbound[r]}
                            /\ upstream[r] # 0 => received[r] # "nothing"
                            /\ pc[r] \in {"done", "broken"} => answer[r] # 0
    BY DEF ProxyInv, Followed, Staged, Answered
  <2>3. pc \in [Requests -> Ended \cup Waits \cup
                 {"coming", "authenticate", "rate", "model", "budget", "scrub",
                  "send", "upstream", "log", "open", "connect", "streaming", "background"}]
    BY DEF ProxyInv, Typed, Waits, Unsent, Plain, Streamed
  <2> QED BY <2>1, <2>2, <2>3 DEF ProxyInv, Typed, TypeOK
<1> QED BY ProxyInvariant, <1>1, PTL

(* ForwardedWasAllowed: for any number of administrators' changes while requests
   are held, nothing reaches the provider that was not allowed. *)
THEOREM NothingForbiddenIsSent == Spec => []ForwardedWasAllowed
<1>1. ProxyInv => ForwardedWasAllowed
  BY DEF ProxyInv, Followed, Permitted, ForwardedWasAllowed
<1> QED BY ProxyInvariant, <1>1, PTL

(* JsonLeavesClean: unless the gateway fails open, JSON leaves it scrubbed. *)
THEOREM JsonIsScrubbed == Spec => []JsonLeavesClean
<1>1. ProxyInv => JsonLeavesClean
  <2> SUFFICES ASSUME ProxyInv, NEW r \in Requests, received[r] = "raw"
               PROVE  input[r].body # "object" \/ SCRUBBER_FAILURE_MODE = "fail_open"
    BY DEF JsonLeavesClean
  <2>1. outbound[r] = "raw"
    BY DEF ProxyInv, Followed, Staged
  <2> QED BY <2>1 DEF ProxyInv, Followed, Cleaned
<1> QED BY ProxyInvariant, <1>1, PTL

(* AnsweredIsLogged and RowsTellTheTruth: an answer that is not streamed never
   overtakes its row, which is about a request the provider got and says what it
   said; no request, streamed or not, has two rows. *)
THEOREM AnswersAreLogged == Spec => [](AnsweredIsLogged /\ RowsTellTheTruth)
<1>1. ProxyInv => AnsweredIsLogged
  <2> SUFFICES ASSUME ProxyInv, NEW r \in Requests
               PROVE  /\ \A a, b \in RowsOf(r) : a = b
                      /\ ~input[r].stream /\ answer[r] \in {200, 429} /\ received[r] # "nothing" =>
                            \E row \in RowsOf(r) : row.status = answer[r] /\ row.cost = cost[r]
    BY DEF AnsweredIsLogged
  <2> QED BY DEF ProxyInv, Followed, Recorded, RowsOf
<1>2. ProxyInv => RowsTellTheTruth
  <2> SUFFICES ASSUME ProxyInv, NEW row \in log
               PROVE  ~input[row.request].stream =>
                          received[row.request] # "nothing" /\ row.status = upstream[row.request]
    BY DEF RowsTellTheTruth
  <2>1. row.request \in Requests
    BY DEF ProxyInv
  <2> QED BY <2>1 DEF ProxyInv, Followed, Recorded
<1> QED BY ProxyInvariant, <1>1, <1>2, PTL

-------------------------------------------------------------------------------
(* Sums.  A sum is the number of cells of a table with a row for each key, so
   that what is known of finite sets applies to it. *)

(* One cell for each unit of each f[k]. *)
Cells(f, K) == UNION {{k} \X (1..f[k]) : k \in K}

Some(s) == CHOOSE k \in s : TRUE

(* What the fold over a set unfolds to. *)
Folds(g, f, K) ==
    g = [s \in SUBSET K |-> IF s = {} THEN 0 ELSE f[Some(s)] + g[s \ {Some(s)}]]

LEMMA FirstNaturals ==
  ASSUME NEW n \in Nat
  PROVE  IsFiniteSet(1..n) /\ Cardinality(1..n) = n
<1>1. IsFiniteSet(1..n) /\ Cardinality(1..n) = IF 1 > n THEN 0 ELSE n - 1 + 1
  BY FS_Interval
<1> QED
  BY <1>1

LEMMA CellsAreFinite ==
  ASSUME NEW K, IsFiniteSet(K), NEW f, \A k \in K : f[k] \in Nat
  PROVE  IsFiniteSet(Cells(f, K)) /\ Cardinality(Cells(f, K)) \in Nat
<1> DEFINE row(k) == {k} \X (1..f[k])
           rows == {row(k) : k \in K}
           h == [k \in K |-> row(k)]
<1>1. h \in Surjection(K, rows)
  BY DEF Surjection
<1>2. IsFiniteSet(rows)
  BY <1>1, FS_Surjection
<1>3. \A r \in rows : IsFiniteSet(r)
  <2>1. ASSUME NEW k \in K PROVE IsFiniteSet(row(k))
    <3>1. IsFiniteSet({k}) /\ IsFiniteSet(1..f[k])
      BY FS_Singleton, FirstNaturals
    <3> QED
      BY <3>1, FS_Product
  <2> QED
    BY <2>1
<1>4. IsFiniteSet(UNION rows)
  BY <1>2, <1>3, FS_UNION
<1> QED
  BY <1>4, FS_CardinalityType DEF Cells

(* The cells of one key, and the others. *)
LEMMA CellsOfOne ==
  ASSUME NEW K, IsFiniteSet(K), NEW f, \A k \in K : f[k] \in Nat, NEW j \in K
  PROVE  Cardinality(Cells(f, K)) = f[j] + Cardinality(Cells(f, K \ {j}))
<1> DEFINE one == {j} \X (1..f[j])
           rest == Cells(f, K \ {j})
<1>1. Cells(f, K) = one \cup rest /\ one \cap rest = {}
  <2>1. Cells(f, K) = one \cup rest
    BY DEF Cells
  <2>2. \A c \in rest : c[1] # j
    BY DEF Cells
  <2>3. \A c \in one : c[1] = j
    OBVIOUS
  <2> QED
    BY <2>1, <2>2, <2>3
<1>2. IsFiniteSet(one) /\ Cardinality(one) = f[j]
  <2>1. IsFiniteSet({j}) /\ Cardinality({j}) = 1
    BY FS_Singleton
  <2>2. f[j] \in Nat /\ IsFiniteSet(1..f[j]) /\ Cardinality(1..f[j]) = f[j]
    BY FirstNaturals
  <2>3. IsFiniteSet(one) /\ Cardinality(one) = Cardinality({j}) * Cardinality(1..f[j])
    BY <2>1, <2>2, FS_Product
  <2> QED
    BY <2>1, <2>2, <2>3
<1>3. IsFiniteSet(rest) /\ Cardinality(rest) \in Nat
  <2>1. IsFiniteSet(K \ {j}) /\ \A k \in K \ {j} : f[k] \in Nat
    BY FS_Subset
  <2> QED
    BY <2>1, CellsAreFinite
<1>4. Cardinality(one \cup rest) = Cardinality(one) + Cardinality(rest) - Cardinality(one \cap rest)
  BY <1>2, <1>3, FS_Union
<1>5. Cardinality(one \cap rest) = 0 /\ f[j] \in Nat
  BY <1>1, FS_EmptySet
<1> QED
  BY <1>1, <1>2, <1>3, <1>4, <1>5

(* The sum is the number of cells. *)
LEMMA SumIsCells ==
  ASSUME NEW K, IsFiniteSet(K), NEW f, \A k \in K : f[k] \in Nat
  PROVE  SumFunctionOnSet(f, K) = Cardinality(Cells(f, K))
<1> DEFINE c == [s \in SUBSET K |-> Cardinality(Cells(f, s))]
           g == CHOOSE h : Folds(h, f, K)
<1>1. SumFunctionOnSet(f, K) = g[K]
  BY DEF SumFunctionOnSet, FoldFunctionOnSet, MapThenFoldSet, Folds, Some
<1>2. c[{}] = 0
  <2>1. Cells(f, {}) = {}
    BY DEF Cells
  <2> QED
    BY <2>1, FS_EmptySet
<1>3. ASSUME NEW s \in SUBSET K, s # {}
      PROVE  Some(s) \in s /\ c[s] = f[Some(s)] + c[s \ {Some(s)}]
  <2>1. Some(s) \in s
    BY <1>3 DEF Some
  <2>2. IsFiniteSet(s)
    BY FS_Subset
  <2>3. Cardinality(Cells(f, s)) = f[Some(s)] + Cardinality(Cells(f, s \ {Some(s)}))
    BY <2>1, <2>2, CellsOfOne
  <2> QED
    BY <2>1, <2>3
<1>4. Folds(c, f, K)
  BY <1>2, <1>3 DEF Folds
<1>5. Folds(g, f, K)
  BY <1>4
<1>6. \A s \in SUBSET K : g[s] = IF s = {} THEN 0 ELSE f[Some(s)] + g[s \ {Some(s)}]
  BY <1>5 DEF Folds
<1>7. \A s \in SUBSET K : g[s] = c[s]
  <2> DEFINE bad == {s \in SUBSET K : g[s] # c[s]}
  <2>1. SUFFICES ASSUME bad # {} PROVE FALSE
    OBVIOUS
  <2>2. IsWellFoundedOn(StrictSubsetOrdering(K), SUBSET K)
    BY FS_StrictSubsetOrderingWellFounded, FS_FiniteSubsetsOfFinite
  <2>3. PICK s \in bad : \A t \in bad : ~ (<<t, s>> \in StrictSubsetOrdering(K))
    BY <2>1, <2>2, WFMin
  <2>4. s # {}
    BY <1>2, <1>6
  <2>5. Some(s) \in s /\ g[s] = f[Some(s)] + g[s \ {Some(s)}] /\ c[s] = f[Some(s)] + c[s \ {Some(s)}]
    BY <1>3, <1>6, <2>4
  <2>6. s \ {Some(s)} \notin bad
    BY <2>3, <2>5 DEF StrictSubsetOrdering
  <2> QED
    BY <2>5, <2>6
<1> QED
  BY <1>1, <1>7

LEMMA SumType ==
  ASSUME NEW K, IsFiniteSet(K), NEW f, \A k \in K : f[k] \in Nat
  PROVE  SumFunctionOnSet(f, K) \in Nat
  BY SumIsCells, CellsAreFinite

LEMMA SumOfOne ==
  ASSUME NEW K, IsFiniteSet(K), NEW f, \A k \in K : f[k] \in Nat, NEW j \in K
  PROVE  SumFunctionOnSet(f, K) = f[j] + SumFunctionOnSet(f, K \ {j}) /\ SumFunctionOnSet(f, K \ {j}) \in Nat
<1>1. IsFiniteSet(K \ {j}) /\ \A k \in K \ {j} : f[k] \in Nat
  BY FS_Subset
<1> QED
  BY <1>1, SumIsCells, CellsOfOne, SumType

LEMMA SumIsLocal ==
  ASSUME NEW K, IsFiniteSet(K), NEW f, \A k \in K : f[k] \in Nat,
         NEW g, \A k \in K : f[k] = g[k]
  PROVE  SumFunctionOnSet(f, K) = SumFunctionOnSet(g, K)
<1>1. Cells(f, K) = Cells(g, K)
  BY DEF Cells
<1> QED
  BY <1>1, SumIsCells

(* What a set of rows costs; a new row adds its cost. *)
Priced(S) == IsFiniteSet(S) /\ \A row \in S : row.cost \in Nat

LEMMA TotalGrows ==
  ASSUME NEW S, Priced(S), NEW row, row \notin S, row.cost \in Nat
  PROVE  Priced(S \cup {row}) /\ Total(S \cup {row}) = Total(S) + row.cost /\ Total(S) \in Nat
<1> DEFINE T == S \cup {row}
           f == [x \in S |-> x.cost]
           g == [x \in T |-> x.cost]
<1>1. IsFiniteSet(T) /\ T \ {row} = S
  BY FS_AddElement DEF Priced
<1>2. \A x \in T : g[x] \in Nat
  BY DEF Priced
<1>3. \A x \in S : f[x] \in Nat /\ f[x] = g[x]
  BY DEF Priced
<1>4. Total(T) = SumFunctionOnSet(g, T) /\ Total(S) = SumFunctionOnSet(f, S)
  BY DEF Total, SumFunction
<1>5. g[row] = row.cost /\ row \in T
  OBVIOUS
<1>6. IsFiniteSet(S)
  BY DEF Priced
<1> HIDE DEF T, f, g
<1>7. SumFunctionOnSet(g, T) = g[row] + SumFunctionOnSet(g, S)
  BY <1>1, <1>2, <1>5, SumOfOne
<1>8. SumFunctionOnSet(f, S) = SumFunctionOnSet(g, S) /\ SumFunctionOnSet(f, S) \in Nat
  BY <1>3, <1>6, SumIsLocal, SumType
<1>9. Priced(T)
  BY <1>1, <1>2 DEF Priced, T, g
<1> QED
  BY <1>4, <1>5, <1>7, <1>8, <1>9 DEF T

LEMMA TotalType ==
  ASSUME NEW S, Priced(S)
  PROVE  Total(S) \in Nat /\ (S = {} => Total(S) = 0)
<1> DEFINE f == [x \in S |-> x.cost]
<1>1. IsFiniteSet(S) /\ \A x \in S : f[x] \in Nat
  BY DEF Priced
<1>2. Total(S) = SumFunctionOnSet(f, S)
  BY DEF Total, SumFunction
<1> HIDE DEF f
<1>3. SumFunctionOnSet(f, S) = Cardinality(Cells(f, S)) /\ SumFunctionOnSet(f, S) \in Nat
  BY <1>1, SumIsCells, SumType
<1>4. S = {} => Cells(f, S) = {}
  BY DEF Cells
<1> QED
  BY <1>2, <1>3, <1>4, FS_EmptySet

-------------------------------------------------------------------------------
(* The budget.  What is spent, with the dearest cost for each request that is
   on its way past the check, stays below the limit and as many of the dearest
   costs as there were ever such requests at once. *)

Dearest == {c \in Costs : \A d \in Costs : d <= c}

HeldBy(spent, n, c) == spent + n * c <= monthly_cost_limit_cents - 1 + peak * c

SpendInv ==
    /\ Priced(log) /\ peak \in Nat
    /\ \A r \in Requests : ~Names(input[r]) => cost[r] = 0
    /\ \/ Spent = 0 /\ Spending = {}
       \/ \A c \in Dearest : HeldBy(Spent, Cardinality(Spending), c)

LEMMA Products ==
  ASSUME NEW a \in Nat, NEW b \in Nat, NEW c \in Nat
  PROVE  /\ a * c \in Nat /\ b * c \in Nat /\ (a + 1) * c = a * c + c
         /\ a <= b => a * c <= b * c
  BY SMT

LEMMA SpentType ==
  ASSUME Priced(log)
  PROVE  Spent \in Nat /\ Spent = Total(log)
<1>1. Spent = Total(log)
  BY DEF Spent
<1> QED
  BY <1>1, TotalType

LEMMA SpendingIsFinite ==
  IsFiniteSet(Spending) /\ Cardinality(Spending) \in Nat
<1>1. Spending \subseteq Requests
  BY DEF Spending
<1> QED
  BY <1>1, RequestsAssumption, FS_Subset, FS_CardinalityType

LEMMA InitSpend == Init => SpendInv
<1> SUFFICES ASSUME Init PROVE SpendInv
  OBVIOUS
<1>1. Priced(log) /\ log = {} /\ Spending = {}
  BY FS_EmptySet DEF Init, Priced, Spending
<1>2. Spent = 0
  BY <1>1, SpentType, TotalType
<1> QED
  BY <1>1, <1>2 DEF Init, SpendInv

(* Nobody has passed the check or written a row. *)
LEMMA SpendStays ==
  ASSUME SpendInv, UNCHANGED <<log, peak>>, Spending' \subseteq Spending,
         \A r \in Requests : ~Names(input'[r]) => cost'[r] = 0
  PROVE  SpendInv'
<1>1. Spent' = Spent /\ Spent \in Nat
  <2>1. Spent' = Spent
    BY DEF Spent
  <2>2. Spent \in Nat
    BY SpentType DEF SpendInv
  <2> QED
    BY <2>1, <2>2
<1>2. PICK n \in Nat, k \in Nat :
        n = Cardinality(Spending) /\ k = Cardinality(Spending') /\ k <= n
  BY SpendingIsFinite, FS_Subset, FS_CardinalityType
<1>3. ASSUME NEW c \in Dearest, HeldBy(Spent, n, c) PROVE HeldBy(Spent, k, c)
  <2>1. c \in Nat /\ peak \in Nat
    BY CostAssumption DEF Dearest, SpendInv
  <2>2. k * c \in Nat /\ n * c \in Nat /\ k * c <= n * c /\ peak * c \in Nat
    BY <1>2, <2>1, Products
  <2> QED
    BY <1>1, <1>3, <2>2, CostAssumption DEF HeldBy
<1>4. \/ Spent = 0 /\ Spending' = {}
      \/ \A c \in Dearest : HeldBy(Spent, k, c)
  BY <1>2, <1>3 DEF SpendInv
<1> QED
  BY <1>1, <1>2, <1>4 DEF SpendInv, Priced, HeldBy

LEMMA StepCheckBudget ==
  ASSUME ProxyInv, SpendInv, NEW r \in Requests, CheckBudget(r)
  PROVE  SpendInv'
<1>1. UNCHANGED <<log, cost, input>>
  BY DEF CheckBudget, HandlerOnly
<1>2. CASE OverBudget(Spent)
  <2>1. UNCHANGED peak /\ Spending' \subseteq Spending
    BY <1>2 DEF CheckBudget, HandlerOnly, Refuse, Goto, ProxyInv, Typed, Spending
  <2> QED
    BY <1>1, <2>1, SpendStays DEF SpendInv
<1>3. CASE ~OverBudget(Spent)
  <2>1. PICK n \in Nat : n = Cardinality(Spending)
    BY SpendingIsFinite
  <2>2. peak' = IF n + 1 > peak THEN n + 1 ELSE peak
    BY <1>3, <2>1 DEF CheckBudget
  <2>3. peak \in Nat /\ peak' \in Nat /\ n + 1 <= peak'
    BY <2>2 DEF SpendInv
  <2>4. Spending' \subseteq Spending \cup {r}
    BY <1>3 DEF CheckBudget, HandlerOnly, Goto, ProxyInv, Typed, Spending
  <2>5. PICK k \in Nat : k = Cardinality(Spending') /\ k <= n + 1
    <3>1. IsFiniteSet(Spending \cup {r}) /\ Cardinality(Spending \cup {r}) \in Nat
      BY SpendingIsFinite, FS_AddElement, FS_CardinalityType
    <3>2. Cardinality(Spending \cup {r}) <= n + 1
      BY <2>1, SpendingIsFinite, FS_AddElement
    <3>3. Cardinality(Spending') <= Cardinality(Spending \cup {r}) /\ IsFiniteSet(Spending')
      BY <2>4, <3>1, FS_Subset
    <3>4. Cardinality(Spending') \in Nat
      BY <3>3, FS_CardinalityType
    <3> QED
      BY <3>1, <3>2, <3>3, <3>4
  <2>6. Spent' = Spent
    BY <1>1 DEF Spent
  <2>7. Spent \in Nat /\ Spent <= monthly_cost_limit_cents - 1
    BY <1>3, SpentType, CostAssumption DEF OverBudget, SpendInv
  <2>8. ASSUME NEW c \in Dearest
        PROVE  Spent + k * c <= monthly_cost_limit_cents - 1 + peak' * c
    <3>1. PICK p \in Nat : p = peak' /\ k <= p
      BY <2>3, <2>5
    <3>2. c \in Nat
      BY CostAssumption DEF Dearest
    <3>3. k * c \in Nat /\ p * c \in Nat /\ k * c <= p * c
      BY <3>1, <3>2, Products
    <3>4. Spent + k * c <= monthly_cost_limit_cents - 1 + p * c
      BY <2>7, <3>3, CostAssumption
    <3> QED
      BY <3>1, <3>4
  <2>9. \A c \in Dearest : HeldBy(Spent, Cardinality(Spending), c)'
    BY <2>5, <2>6, <2>8 DEF HeldBy
  <2> QED
    BY <1>1, <2>3, <2>9 DEF SpendInv, Priced
<1> QED
  BY <1>2, <1>3

(* A row is written: its request is on its way no longer, and a request that
   named no model and is not on its way has a row that costs nothing. *)
LEMMA RowIsWritten ==
  ASSUME SpendInv, NEW r \in Requests, NEW row, row \notin log, row.cost \in Costs \cup {0},
         log' = log \cup {row}, UNCHANGED <<peak, cost, input>>,
         Spending' = Spending \ {r}, r \notin Spending => row.cost = 0
  PROVE  SpendInv'
<1>1. row.cost \in Nat /\ Priced(log) /\ peak \in Nat
  <2>1. row.cost \in Nat
    <3>1. Costs \cup {0} \subseteq Nat
      BY CostAssumption
    <3> QED
      BY <3>1
  <2>2. Priced(log) /\ peak \in Nat
    BY DEF SpendInv
  <2> QED
    BY <2>1, <2>2
<1>2. Priced(log)' /\ Spent' = Spent + row.cost /\ Spent \in Nat
  <2>1. /\ Priced(log \cup {row})
        /\ Total(log \cup {row}) = Total(log) + row.cost /\ Total(log) \in Nat
    BY <1>1, TotalGrows
  <2>2. Spent = Total(log)
    BY DEF Spent
  <2>3. Spent' = Total(log \cup {row})
    BY DEF Spent
  <2>4. Priced(log)'
    BY <2>1 DEF Priced
  <2> QED
    BY <2>1, <2>2, <2>3, <2>4
<1>3. CASE r \notin Spending
  <2>1. Spending' = Spending /\ Spent' = Spent
    BY <1>2, <1>3
  <2> QED
    BY <1>2, <2>1 DEF SpendInv, HeldBy
<1>4. CASE r \in Spending
  <2>1. PICK n \in Nat, k \in Nat :
          n = Cardinality(Spending) /\ k = Cardinality(Spending') /\ n = k + 1
    <3>1. Cardinality(Spending \ {r}) = Cardinality(Spending) - 1 /\ IsFiniteSet(Spending \ {r})
      BY <1>4, SpendingIsFinite, FS_RemoveElement
    <3>2. Cardinality(Spending \ {r}) \in Nat
      BY <3>1, FS_CardinalityType
    <3> QED
      BY <3>1, <3>2, SpendingIsFinite
  <2>2. ASSUME NEW c \in Dearest
        PROVE  (Spent + row.cost) + k * c <= monthly_cost_limit_cents - 1 + peak * c
    <3>1. Spent + n * c <= monthly_cost_limit_cents - 1 + peak * c
      BY <1>4, <2>1 DEF SpendInv, HeldBy
    <3>2. c \in Nat /\ row.cost <= c
      BY <1>1, CostAssumption DEF Dearest
    <3>3. n * c = k * c + c /\ k * c \in Nat /\ peak * c \in Nat
      BY <1>1, <2>1, <3>2, Products
    <3> QED
      BY <1>1, <1>2, <3>1, <3>2, <3>3, CostAssumption
  <2>3. \A c \in Dearest : HeldBy(Spent, Cardinality(Spending), c)'
    BY <1>2, <2>1, <2>2 DEF HeldBy
  <2> QED
    BY <1>2, <2>3 DEF SpendInv
<1> QED
  BY <1>3, <1>4

LEMMA StepLogAndAnswer ==
  ASSUME ProxyInv, SpendInv, NEW r \in Requests, LogAndAnswer(r)
  PROVE  SpendInv'
<1> DEFINE row == Row(r, upstream[r])
<1>1. row.request = r /\ row.cost = cost[r] /\ log' = log \cup {row}
  BY DEF LogAndAnswer, Row
<1>2. /\ UNCHANGED <<peak, cost, input>> /\ pc[r] = "log"
      /\ pc' = [pc EXCEPT ![r] = "done"]
  BY DEF LogAndAnswer, Refuse, Goto, HandlerOnly
<1>3. row \notin log
  BY <1>1, <1>2 DEF ProxyInv, Followed, Recorded
<1>4. row.cost \in Costs \cup {0}
  BY <1>1 DEF ProxyInv, Typed
<1>5. Spending' = Spending \ {r}
  BY <1>2 DEF ProxyInv, Typed, Spending
<1>6. r \notin Spending => row.cost = 0
  BY <1>1, <1>2 DEF Spending, SpendInv
<1> HIDE DEF row
<1> QED
  BY <1>1, <1>2, <1>3, <1>4, <1>5, <1>6, RowIsWritten

LEMMA StepLogStream ==
  ASSUME ProxyInv, SpendInv, NEW r \in Requests, LogStream(r)
  PROVE  SpendInv'
<1> DEFINE row == [request |-> r, status |-> 200, cost |-> 0]
<1>1. row.request = r /\ row.cost = 0 /\ log' = log \cup {row}
  BY DEF LogStream
<1>2. /\ UNCHANGED <<peak, cost, input>> /\ pc[r] = "background"
      /\ pc' = [pc EXCEPT ![r] = "done"]
  BY DEF LogStream, Goto, HandlerOnly
<1>3. row \notin log
  BY <1>1, <1>2 DEF ProxyInv, Followed, Recorded
<1>4. Spending' = Spending \ {r}
  BY <1>2 DEF ProxyInv, Typed, Spending
<1> HIDE DEF row
<1> QED
  BY <1>1, <1>2, <1>3, <1>4, RowIsWritten

(* Receive sets the cost of its own request, which is 0 if it named no model. *)
LEMMA StepReceive ==
  ASSUME ProxyInv, SpendInv, NEW r \in Requests, Receive(r)
  PROVE  SpendInv'
<1>1. UNCHANGED <<log, peak, input>>
  BY DEF Receive, HandlerOnly
<1>2. Spending' \subseteq Spending
  BY <1>1 DEF Receive, Goto, Refuse, ProxyInv, Typed, Spending
<1>3. ASSUME NEW q \in Requests, ~Names(input[q]) PROVE cost'[q] = 0
  <2>1. cost[q] = 0
    BY <1>3 DEF SpendInv
  <2>2. \/ UNCHANGED cost
        \/ \E c \in IF Names(input[r]) THEN Costs ELSE {0} : cost' = [cost EXCEPT ![r] = c]
    BY DEF Receive
  <2> QED
    BY <1>3, <2>1, <2>2 DEF ProxyInv, Typed
<1> QED
  BY <1>1, <1>2, <1>3, SpendStays

(* Everything else neither writes a row nor passes the check. *)
LEMMA StepElse ==
  ASSUME ProxyInv, SpendInv,
         \/ \E r \in Requests :
               \/ Authenticate(r) \/ CheckRate(r) \/ CheckModel(r) \/ CheckFails(r)
               \/ Scrub(r) \/ ReadOn(r) \/ LogFails(r) \/ StartStream(r) \/ LogStreamFails(r)
               \/ Forward(r) \/ Part(r) \/ Connect(r) \/ Chunk(r) \/ EndStream(r)
               \/ Caller(r) \/ Fail(r)
         \/ \E k \in StaffKeys : DeactivateKey(k)
         \/ \E list \in Policies : UpsertPolicy(list)
         \/ Crash
         \/ UNCHANGED vars
  PROVE  SpendInv'
<1> DEFINE Past == {"scrub", "send", "upstream", "part", "log"}
<1>1. UNCHANGED <<log, peak, cost, input>>
  BY DEF Authenticate, CheckRate, CheckModel, CheckFails, Scrub, ReadOn, LogFails, StartStream,
     LogStreamFails, Forward, Part, Connect, Chunk, EndStream, Caller, Arrive, ReadBody, Relay,
     ClientLeaves, Fail, UpstreamFails, BreakStream, ChunkFails, HandlerOnly, DeactivateKey,
     UpsertPolicy, Crash, handler, vars
<1>2. ASSUME NEW q \in Requests, Names(input[q]), pc'[q] \in Past
      PROVE  pc[q] \in Past
  <2> USE DEF ProxyInv, Typed, Goto, Refuse
  <2>1. ASSUME NEW r \in Requests,
               \/ Authenticate(r) \/ CheckRate(r) \/ CheckModel(r) \/ CheckFails(r) \/ Caller(r)
        PROVE  pc[q] \in Past
    BY <1>2, <2>1
       DEF Authenticate, CheckRate, CheckModel, CheckFails, Caller, Arrive, ReadBody, Relay,
           ClientLeaves
  <2>2. ASSUME NEW r \in Requests,
               \/ Scrub(r) \/ ReadOn(r) \/ LogFails(r) \/ StartStream(r) \/ LogStreamFails(r)
        PROVE  pc[q] \in Past
    BY <1>2, <2>2 DEF Scrub, Send, ReadOn, LogFails, StartStream, LogStreamFails
  <2>3. ASSUME NEW r \in Requests,
               \/ Forward(r) \/ Part(r) \/ Connect(r) \/ Chunk(r) \/ EndStream(r) \/ Fail(r)
        PROVE  pc[q] \in Past
    BY <1>2, <2>3
       DEF Forward, Part, Connect, Chunk, EndStream, Fail, UpstreamFails, BreakStream, ChunkFails
  <2>4. ASSUME Crash PROVE pc[q] \in Past
    BY <1>2, <2>4 DEF Crash, Ended
  <2>5. CASE UNCHANGED pc
    BY <1>2, <2>5
  <2> QED
    BY <2>1, <2>2, <2>3, <2>4, <2>5 DEF DeactivateKey, UpsertPolicy, handler, vars
<1>3. Spending' \subseteq Spending
  BY <1>1, <1>2 DEF Spending
<1> QED
  BY <1>1, <1>3, SpendStays DEF SpendInv

LEMMA NextSpend == ProxyInv /\ SpendInv /\ [Next]_vars => SpendInv'
  BY StepCheckBudget, StepLogAndAnswer, StepLogStream, StepReceive, StepElse
     DEF Next, Handle, Exchange

(* BudgetOvershoot: whatever requests overlap, at whatever price, the costs of
   all rows exceed what is just under the limit by no more than the dearest cost
   for each request that was at one time past the check and without a row. *)
THEOREM OvershootIsBounded == Spec => []BudgetOvershoot
<1>1. ProxyInv /\ SpendInv => BudgetOvershoot
  <2> SUFFICES ASSUME SpendInv, NEW c \in Costs, \A d \in Costs : d <= c, Spent # 0
               PROVE  Spent <= monthly_cost_limit_cents - 1 + peak * c
    BY DEF BudgetOvershoot
  <2>1. PICK n \in Nat : n = Cardinality(Spending)
    BY SpendingIsFinite
  <2>2. Spent + n * c <= monthly_cost_limit_cents - 1 + peak * c
    BY <2>1 DEF SpendInv, Dearest, HeldBy
  <2>3. n * c \in Nat /\ peak * c \in Nat
    BY CostAssumption, Products DEF SpendInv
  <2> QED
    BY <2>2, <2>3, SpentType, CostAssumption DEF SpendInv
<1> QED
  BY <1>1, ProxyInit, ProxyNext, InitSpend, NextSpend, PTL DEF Spec

-------------------------------------------------------------------------------
(* The checksum.  Every digit weighs between nothing and nine, and no two digits
   weigh the same. *)

LEMMA DoubledDigits ==
  ASSUME NEW a \in 0..9, NEW b \in 0..9
  PROVE  /\ Doubled(a) \in 0..9
         /\ Doubled(a) = Doubled(b) => a = b
  BY DEF Doubled

(* Doubling changes a digit by -4 to 4, and 0 and 9 not at all. *)
LEMMA DoubledNeighbours ==
  ASSUME NEW a \in 0..9, NEW b \in 0..9, NEW rest \in Nat,
         (Doubled(a) + b + rest) % 10 = 0, (Doubled(b) + a + rest) % 10 = 0
  PROVE  a = b \/ {a, b} = {0, 9}
<1> DEFINE x == Doubled(a) - a
           y == Doubled(b) - b
<1>1. /\ x \in -4..4 /\ (x = a \/ x = a - 9) /\ (x >= 0 => x = a \/ a = 9) /\ (x < 0 => a # 0)
      /\ y \in -4..4 /\ (y = b \/ y = b - 9)
  BY DEF Doubled
<1>2. x = y
  <2>1. Doubled(a) + b = x + (a + b) /\ Doubled(b) + a = y + (a + b)
    BY DEF Doubled
  <2>2. (x + (a + b) + rest) % 10 = 0 /\ (y + (a + b) + rest) % 10 = 0
    BY <2>1
  <2> HIDE DEF x, y
  <2> QED
    BY <1>1, <2>2
<1>3. a = b \/ (a = 0 /\ b = 9) \/ (a = 9 /\ b = 0)
  BY <1>1, <1>2 DEF Doubled
<1> QED
  BY <1>3

LEMMA DigitsDiffer ==
  ASSUME NEW a \in 0..9, NEW b \in 0..9, NEW rest \in Nat, a # b, (a + rest) % 10 = 0
  PROVE  (b + rest) % 10 # 0
  BY SMT

LEMMA WeightedType ==
  ASSUME NEW s \in Seq(0..9)
  PROVE  /\ IsFiniteSet(1..Len(s)) /\ DOMAIN Weighted(s) = 1..Len(s)
         /\ \A i \in 1..Len(s) : Weighted(s)[i] \in 0..9 /\ Weighted(s)[i] \in Nat
<1>1. Len(s) \in Nat /\ \A i \in 1..Len(s) : s[i] \in 0..9
  OBVIOUS
<1>2. \A i \in 1..Len(s) : Weighted(s)[i] \in 0..9
  BY <1>1, DoubledDigits DEF Weighted
<1>3. IsFiniteSet(1..Len(s))
  BY <1>1, FirstNaturals
<1> QED
  BY <1>2, <1>3 DEF Weighted

(* One wrong digit. *)
LEMMA WrongDigit ==
  ASSUME NEW s \in Seq(0..9), NEW i \in 1..Len(s), NEW d \in 0..9, d # s[i],
         _luhn_valid(s)
  PROVE  ~_luhn_valid([s EXCEPT ![i] = d])
<1> DEFINE r == [s EXCEPT ![i] = d]
           K == 1..Len(s)
           f == Weighted(s)
           g == Weighted(r)
<1>1. r \in Seq(0..9) /\ Len(r) = Len(s)
  BY ExceptSeq
<1>2. IsFiniteSet(K) /\ DOMAIN f = K /\ DOMAIN g = K
      /\ \A k \in K : f[k] \in 0..9 /\ g[k] \in 0..9 /\ f[k] \in Nat /\ g[k] \in Nat
  BY <1>1, WeightedType
<1>3. \A k \in K \ {i} : f[k] = g[k]
  BY <1>1 DEF Weighted
<1>4. f[i] # g[i]
  <2>1. s[i] \in 0..9 /\ r[i] = d
    OBVIOUS
  <2>2. Doubled(s[i]) # Doubled(d)
    BY <2>1, DoubledDigits
  <2> QED
    BY <1>1, <2>1, <2>2 DEF Weighted
<1>5. SumFunction(f) = SumFunctionOnSet(f, K) /\ SumFunction(g) = SumFunctionOnSet(g, K)
  BY <1>2 DEF SumFunction
<1> HIDE DEF r, f, g, K
<1>6. i \in K
  BY DEF K
<1>7. /\ SumFunctionOnSet(f, K) = f[i] + SumFunctionOnSet(f, K \ {i})
      /\ SumFunctionOnSet(g, K) = g[i] + SumFunctionOnSet(g, K \ {i})
      /\ SumFunctionOnSet(f, K \ {i}) \in Nat
  BY <1>2, <1>6, SumOfOne
<1>8. SumFunctionOnSet(f, K \ {i}) = SumFunctionOnSet(g, K \ {i})
  <2>1. IsFiniteSet(K \ {i}) /\ \A k \in K \ {i} : f[k] \in Nat
    BY <1>2, FS_Subset
  <2> QED
    BY <1>3, <2>1, SumIsLocal
<1>9. PICK rest \in Nat : SumFunction(f) = f[i] + rest /\ SumFunction(g) = g[i] + rest
  BY <1>5, <1>7, <1>8
<1>10. f[i] \in 0..9 /\ g[i] \in 0..9 /\ (f[i] + rest) % 10 = 0
  BY <1>2, <1>6, <1>9 DEF _luhn_valid, f
<1>11. (g[i] + rest) % 10 # 0
  BY <1>4, <1>10, DigitsDiffer
<1> QED
  BY <1>9, <1>11 DEF _luhn_valid, g, r

(* Two digits in the wrong order: just one of the two places is doubled. *)
LEMMA WrongOrder ==
  ASSUME NEW s \in Seq(0..9), NEW i \in 1..(Len(s) - 1),
         s[i] # s[i + 1], {s[i], s[i + 1]} # {0, 9}, _luhn_valid(s)
  PROVE  ~_luhn_valid([s EXCEPT ![i] = s[i + 1], ![i + 1] = s[i]])
<1> DEFINE j == i + 1
           a == s[i]
           b == s[j]
           r == [s EXCEPT ![i] = b, ![j] = a]
           K == 1..Len(s)
           f == Weighted(s)
           g == Weighted(r)
<1>1. Len(s) \in Nat /\ i \in K /\ j \in K /\ i # j /\ a \in 0..9 /\ b \in 0..9
  OBVIOUS
<1>2. r \in Seq(0..9) /\ Len(r) = Len(s)
  BY <1>1, ExceptSeq
<1>3. IsFiniteSet(K) /\ DOMAIN f = K /\ DOMAIN g = K
      /\ \A k \in K : f[k] \in 0..9 /\ g[k] \in 0..9
  BY <1>2, WeightedType
<1>4. r[i] = b /\ r[j] = a /\ \A k \in K \ {i, j} : r[k] = s[k]
  BY <1>1
<1>5. \A k \in K \ {i, j} : f[k] = g[k]
  BY <1>2, <1>4 DEF Weighted
<1>6. \/ f[i] = Doubled(a) /\ f[j] = b /\ g[i] = Doubled(b) /\ g[j] = a
      \/ f[i] = a /\ f[j] = Doubled(b) /\ g[i] = b /\ g[j] = Doubled(a)
  <2>1. (Len(s) - i) % 2 = 1 <=> (Len(s) - j) % 2 # 1
    BY <1>1
  <2> QED
    BY <1>1, <1>2, <1>4, <2>1 DEF Weighted
<1>7. SumFunction(f) = SumFunctionOnSet(f, K) /\ SumFunction(g) = SumFunctionOnSet(g, K)
  BY <1>3 DEF SumFunction
<1> HIDE DEF j, a, b, r, f, g, K
<1> DEFINE L == K \ {i}
           M == L \ {j}
<1>8. IsFiniteSet(L) /\ IsFiniteSet(M) /\ j \in L /\ L \subseteq K /\ M = K \ {i, j}
  BY <1>1, <1>3, FS_Subset
<1>9. \A k \in K : f[k] \in Nat /\ g[k] \in Nat
  BY <1>3
<1>10. /\ SumFunctionOnSet(f, K) = f[i] + SumFunctionOnSet(f, L)
       /\ SumFunctionOnSet(g, K) = g[i] + SumFunctionOnSet(g, L)
  BY <1>1, <1>3, <1>9, SumOfOne
<1>11. /\ SumFunctionOnSet(f, L) = f[j] + SumFunctionOnSet(f, M)
       /\ SumFunctionOnSet(g, L) = g[j] + SumFunctionOnSet(g, M)
       /\ SumFunctionOnSet(f, M) \in Nat
  BY <1>8, <1>9, SumOfOne
<1>12. SumFunctionOnSet(f, M) = SumFunctionOnSet(g, M)
  <2>1. \A k \in M : f[k] \in Nat /\ f[k] = g[k]
    BY <1>5, <1>8, <1>9
  <2> QED
    BY <1>8, <2>1, SumIsLocal
<1>13. PICK rest \in Nat :
          SumFunction(f) = f[i] + f[j] + rest /\ SumFunction(g) = g[i] + g[j] + rest
  <2>1. /\ f[i] \in Nat /\ f[j] \in Nat /\ g[i] \in Nat /\ g[j] \in Nat
        /\ SumFunctionOnSet(f, M) \in Nat
    BY <1>1, <1>9, <1>11
  <2>2. SumFunction(f) = f[i] + f[j] + SumFunctionOnSet(f, M)
    BY <1>7, <1>10, <1>11, <2>1
  <2>3. SumFunction(g) = g[i] + g[j] + SumFunctionOnSet(f, M)
    BY <1>7, <1>10, <1>11, <1>12, <2>1
  <2> QED
    BY <2>1, <2>2, <2>3
<1>14. SumFunction(f) % 10 = 0
  BY DEF _luhn_valid, f
<1>15. a # b /\ {a, b} # {0, 9}
  BY DEF a, b, j
<1>16. Doubled(a) \in 0..9 /\ Doubled(b) \in 0..9
  BY <1>1, DoubledDigits
<1>17. SumFunction(g) % 10 # 0
  <2>1. CASE f[i] = Doubled(a) /\ f[j] = b /\ g[i] = Doubled(b) /\ g[j] = a
    <3>1. SumFunction(f) = Doubled(a) + b + rest /\ SumFunction(g) = Doubled(b) + a + rest
      BY <1>13, <2>1
    <3>2. (Doubled(a) + b + rest) % 10 = 0
      BY <1>14, <3>1
    <3>3. (Doubled(b) + a + rest) % 10 # 0
      BY <1>1, <1>15, <3>2, DoubledNeighbours
    <3> QED
      BY <3>1, <3>3
  <2>2. CASE f[i] = a /\ f[j] = Doubled(b) /\ g[i] = b /\ g[j] = Doubled(a)
    <3>1. SumFunction(f) = Doubled(b) + a + rest /\ SumFunction(g) = Doubled(a) + b + rest
      BY <1>1, <1>13, <1>16, <2>2
    <3>2. (Doubled(b) + a + rest) % 10 = 0 /\ {b, a} # {0, 9} /\ b # a
      BY <1>14, <1>15, <3>1
    <3>3. (Doubled(a) + b + rest) % 10 # 0
      BY <1>1, <3>2, DoubledNeighbours
    <3> QED
      BY <3>1, <3>3
  <2> QED
    BY <1>6, <2>1, <2>2
<1> QED
  BY <1>17 DEF _luhn_valid, g, r, a, b, j

(* No wrong digit and no two neighbours in the wrong order, but for 0 and 9, leave
   a number of any length with a valid checksum: what _luhn_valid is for. *)
THEOREM ChecksumCatchesSlips ==
  \A s \in Seq(0..9) : _luhn_valid(s) => \A r \in Slips(s) \ {s} : ~_luhn_valid(r)
<1> SUFFICES ASSUME NEW s \in Seq(0..9), _luhn_valid(s), NEW r \in Slips(s), r # s
             PROVE  ~_luhn_valid(r)
  OBVIOUS
<1>1. ASSUME NEW i \in DOMAIN s, NEW d \in 0..9, r = [s EXCEPT ![i] = d]
      PROVE  ~_luhn_valid(r)
  <2>1. i \in 1..Len(s) /\ d # s[i]
    BY <1>1
  <2> QED
    BY <1>1, <2>1, WrongDigit
<1>2. ASSUME NEW i \in 1..(Len(s) - 1), {s[i], s[i + 1]} # {0, 9},
             r = [s EXCEPT ![i] = s[i + 1], ![i + 1] = s[i]]
      PROVE  ~_luhn_valid(r)
  <2>1. s[i] # s[i + 1]
    BY <1>2
  <2> QED
    BY <1>2, <2>1, WrongOrder
<1> QED
  <2>1. \/ \E i \in DOMAIN s, d \in 0..9 : r = [s EXCEPT ![i] = d]
        \/ \E i \in {j \in 1..(Len(s) - 1) : {s[j], s[j + 1]} # {0, 9}} :
              r = [s EXCEPT ![i] = s[i + 1], ![i + 1] = s[i]]
    BY DEF Slips
  <2> QED
    BY <1>1, <1>2, <2>1

-------------------------------------------------------------------------------
(* What the recognizers find.  Only a SIN that was validated scores a hundred. *)

LEMMA PatternScores ==
  /\ \A p \in SinPatterns : p.entity = "CA_SIN"
  /\ \A p \in Patterns \ SinPatterns : p.score \in Nat /\ p.score < 100
<1>1. \A entity, score, digits, at, marks :
         /\ Pattern(entity, score, digits, at, marks).entity = entity
         /\ Pattern(entity, score, digits, at, marks).score = score
  BY DEF Pattern
<1>2. ASSUME NEW p \in SinPatterns PROVE p.entity = "CA_SIN"
  <2>1. PICK mark : mark \in {"dash", "space"} /\ p = Pattern("CA_SIN", 60, 9, {3, 6}, {mark})
    BY DEF SinPatterns
  <2> QED
    BY <1>1, <2>1
<1>3. \A p \in BcPhnPatterns : p.score = 60
  BY DEF BcPhnPatterns, Pattern
<1>4. \A p \in AlbertaPhnPatterns : p.score = 30
  BY <1>1 DEF AlbertaPhnPatterns
<1>5. \A p \in OntarioPatterns : p.score = 40
  BY DEF OntarioPatterns, Pattern
<1>6. \A p \in QuebecPatterns : p.score = 40
  BY DEF QuebecPatterns, Pattern
<1>7. \A p \in ParcelPatterns : p.score = 40
  BY <1>1 DEF ParcelPatterns
<1>8. \A p \in FolioPatterns : p.score = 40
  BY DEF FolioPatterns, Pattern
<1>9. \A p \in PhonePatterns : p.score = 50
  BY DEF PhonePatterns, Pattern
<1>10. \A p \in CustomPatterns : p.score = 70
  BY RulesAssumption DEF CustomPatterns
<1>11. \A p \in Patterns \ SinPatterns : p.score \in {30, 40, 50, 60, 70}
  BY <1>3, <1>4, <1>5, <1>6, <1>7, <1>8, <1>9, <1>10 DEF Patterns
<1> QED
  BY <1>2, <1>11

LEMMA FullScoreIsSin ==
  ASSUME NEW t, NEW f \in Findings(t)
  PROVE  /\ f.score \in Nat /\ f.score <= 100
         /\ f.score = 100 => f.entity = "CA_SIN" /\ _luhn_valid(t.digits)
<1>1. PICK p \in Patterns : f = [entity |-> p.entity, score |-> Score(p, t)]
  BY DEF Findings
<1>2. CASE p \in SinPatterns
  <2>1. p.entity = "CA_SIN" /\ Score(p, t) \in {0, 100} /\ (Score(p, t) = 100 => _luhn_valid(t.digits))
    BY <1>2, PatternScores DEF Score
  <2> QED
    BY <1>1, <2>1
<1>3. CASE p \notin SinPatterns
  <2>1. Score(p, t) \in Nat /\ Score(p, t) < 100
    BY <1>3, PatternScores DEF Score
  <2> QED
    BY <1>1, <2>1
<1> QED
  BY <1>2, <1>3

LEMMA PayloadIsTree ==
  ASSUME NEW obj \in Payloads, NEW p \in StringsOf(obj)
  PROVE  /\ IsText(obj[p].text) /\ obj[p] = String(obj[p].text)
         /\ \A f \in French(obj[p].text) : f.score \in 0..99
<1>1. IsNode(obj[p]) /\ obj[p].kind = "string"
  BY PayloadAssumption DEF IsTree, StringsOf
<1> QED
  BY <1>1, FrenchAssumption DEF IsNode

WalkedPayload == payload \in Payloads

LEMMA PayloadStays == WalkSpec => []WalkedPayload
<1>1. WalkInit => WalkedPayload
  BY DEF WalkInit, WalkedPayload
<1>2. WalkedPayload /\ [WalkNext]_walkVars => WalkedPayload'
  BY DEF WalkNext, WalkString, WalkFails, WalkItems, WalkScalar, WalkOnly, walkVars, WalkedPayload
<1> QED
  BY <1>1, <1>2, PTL DEF WalkSpec

(* LuhnCatchesErrors: for texts of any length, a number written with one wrong
   digit or two digits in the wrong order is not found as a SIN. *)
THEOREM WrongSinIsNone == WalkSpec => []LuhnCatchesErrors
<1>1. WalkedPayload => LuhnCatchesErrors
  <2> SUFFICES ASSUME WalkedPayload, NEW p \in StringsOf(payload), _luhn_valid(payload[p].text.digits),
                      NEW s \in Slips(payload[p].text.digits), s # payload[p].text.digits
               PROVE  [entity |-> "CA_SIN", score |-> 100]
                          \notin Findings([payload[p].text EXCEPT !.digits = s])
    BY DEF LuhnCatchesErrors
  <2> DEFINE t == payload[p].text
             u == [t EXCEPT !.digits = s]
  <2>1. IsText(t)
    BY PayloadIsTree DEF WalkedPayload
  <2>2. t.digits \in Seq(0..9) /\ u.digits = s
    BY <2>1 DEF IsText
  <2>3. ~_luhn_valid(s)
    BY <2>2, ChecksumCatchesSlips
  <2>4. ASSUME NEW f \in Findings(u), f = [entity |-> "CA_SIN", score |-> 100] PROVE FALSE
    BY <2>2, <2>3, <2>4, FullScoreIsSin
  <2> QED
    BY <2>4
<1> QED
  BY <1>1, PayloadStays, PTL

LEMMA FirstDigit ==
  ASSUME NEW t, IsText(t), IsSin(t)
  PROVE  t.digits[1] \in 0..9
<1>1. t.digits \in Seq(0..9) /\ Len(t.digits) = 9
  BY DEF IsText, IsSin
<1> QED
  BY <1>1, ElementOfSeq

(* A SIN with marks is found as one, at the full score. *)
LEMMA MarkedSinIsFound ==
  ASSUME NEW t, IsText(t), IsSin(t), Marks(t) # {}
  PROVE  [entity |-> "CA_SIN", score |-> 100] \in Findings(t)
<1>1. PICK mark : mark \in {"dash", "space"} /\ Marks(t) = {mark}
  BY DEF IsSin
<1>2. DOMAIN t.cuts = {3, 6} /\ \A i \in DOMAIN t.cuts : t.cuts[i] = mark
  BY <1>1 DEF IsSin, Marks
<1> DEFINE p == Pattern("CA_SIN", 60, 9, {3, 6}, {mark})
<1>3. p \in SinPatterns /\ p \in Patterns
  BY <1>1 DEF SinPatterns, Patterns
<1>4. t.digits[1] \in 0..9
  BY FirstDigit
<1>5. Matches(p, t)
  BY <1>2, <1>4 DEF Matches, Pattern, IsSin
<1>6. Score(p, t) = 100 /\ p.entity = "CA_SIN"
  BY <1>3 DEF Score, IsSin, Pattern
<1> HIDE DEF p
<1>7. p \in {q \in Patterns : Matches(q, t) /\ Score(q, t) >= 30}
  <2>1. Score(p, t) >= 30
    BY <1>6
  <2> QED
    BY <1>3, <1>5, <2>1
<1>8. [entity |-> p.entity, score |-> Score(p, t)] \in Findings(t)
  BY <1>7 DEF Findings
<1> QED
  BY <1>6, <1>8

(* In one piece it looks like a health number of Alberta. *)
LEMMA BareSinIsFound ==
  ASSUME NEW t, IsText(t), IsSin(t), Marks(t) = {}
  PROVE  Findings(t) # {}
<1> DEFINE p == Pattern("CA_AB_PHN", 30, 9, {}, {})
<1>1. DOMAIN t.cuts = {}
  BY DEF IsSin, Marks
<1>2. t.digits[1] \in 0..9
  BY FirstDigit
<1>3. p \in Patterns
  BY DEF Patterns, AlbertaPhnPatterns
<1>4. Matches(p, t)
  BY <1>1, <1>2 DEF Matches, Pattern, IsSin
<1>5. p \notin SinPatterns /\ p.score = 30
  BY PatternScores DEF Pattern
<1>6. Score(p, t) = 30
  BY <1>5 DEF Score
<1> HIDE DEF p
<1>7. p \in {q \in Patterns : Matches(q, t) /\ Score(q, t) >= 30}
  BY <1>3, <1>4, <1>6
<1>8. [entity |-> p.entity, score |-> Score(p, t)] \in Findings(t)
  BY <1>7 DEF Findings
<1> QED
  BY <1>8

(* Of the findings the one with the highest score names the placeholder. *)
LEMMA BestIsSin ==
  ASSUME NEW found, NEW full \in found, full.score = 100,
         \A g \in found : g.score \in Nat /\ g.score <= 100 /\ (g.score = 100 => g.entity = "CA_SIN"),
         NEW best \in found, \A g \in found : g.score <= best.score
  PROVE  best.entity = "CA_SIN"
  OBVIOUS

(* scrub replaces a SIN that stands alone; with marks it is called one. *)
LEMMA SinIsReplaced ==
  ASSUME NEW t, IsText(t), IsSin(t), \A f \in French(t) : f.score \in 0..99
  PROVE  /\ scrub(t) # t
         /\ Marks(t) # {} => scrub(t) = [placeholder |-> "CA_SIN"]
<1> DEFINE best == CHOOSE f \in Results(t) : \A g \in Results(t) : g.score <= f.score
<1>1. Results(t) # {}
  BY MarkedSinIsFound, BareSinIsFound DEF Results
<1>2. scrub(t) = [placeholder |-> best.entity]
  <2>1. Widest(t) = Results(t)
    BY DEF IsSin, Widest
  <2> QED
    BY <1>1, <2>1 DEF scrub
<1>3. scrub(t) # t
  <2>1. DOMAIN scrub(t) = {"placeholder"}
    BY <1>2
  <2>2. "digits" \in DOMAIN t
    BY DEF IsText
  <2> QED
    BY <2>1, <2>2
<1>4. ASSUME Marks(t) # {} PROVE best.entity = "CA_SIN"
  <2> DEFINE full == [entity |-> "CA_SIN", score |-> 100]
  <2>1. full \in Results(t)
    BY <1>4, MarkedSinIsFound DEF Results
  <2>2. \A g \in Results(t) : /\ g.score \in Nat /\ g.score <= 100
                              /\ g.score = 100 => g.entity = "CA_SIN"
    <3>1. \A g \in Findings(t) : /\ g.score \in Nat /\ g.score <= 100
                                 /\ g.score = 100 => g.entity = "CA_SIN"
      BY FullScoreIsSin
    <3> QED
      BY <3>1 DEF Results
  <2>3. full.score = 100
    OBVIOUS
  <2> HIDE DEF full
  <2>4. \A g \in Results(t) : g.score <= full.score
    BY <2>2, <2>3
  <2>5. best \in Results(t) /\ \A g \in Results(t) : g.score <= best.score
    BY <2>1, <2>4
  <2> HIDE DEF best
  <2> QED
    BY <2>1, <2>2, <2>3, <2>5, BestIsSin
<1> QED
  BY <1>2, <1>3, <1>4

-------------------------------------------------------------------------------
(* The walk of a payload.  Nothing is forgotten, because a node not yet visited is
   in the rest of the walk or below a node that is. *)

(* What the walk makes of a node. *)
Walked(p) ==
    IF p \notin StringsOf(payload) \/ payload[p].text \in failing
    THEN payload[p] ELSE String(scrub(payload[p].text))

Above(p) == {SubSeq(p, 1, n) : n \in 0..Len(p)}

(* A node that has not been visited is still to be, or is below one that is. *)
Reached(p) == p \in DOMAIN cleaned \/ \E i \in 1..Len(todo) : todo[i] \in Above(p)

Fails(p) == p \in StringsOf(payload) /\ payload[p].text \in failing

WalkInv ==
    /\ payload \in Payloads
    /\ todo \in Seq(DOMAIN payload)
    /\ DOMAIN cleaned \subseteq DOMAIN payload
    /\ cleaned = [p \in DOMAIN cleaned |-> Walked(p)]
    /\ mode # "fail_open" => \A p \in DOMAIN cleaned : ~Fails(p)
    /\ raised \in BOOLEAN
    /\ ~raised => \A p \in DOMAIN payload : Reached(p)
    /\ raised => todo = <<>> /\ mode # "fail_open" /\ \E p \in DOMAIN payload : Fails(p)

LEMMA NodesOfTree ==
  ASSUME NEW obj \in Payloads
  PROVE  /\ DOMAIN obj \subseteq Seq(Nat) /\ <<>> \in DOMAIN obj
         /\ \A p \in DOMAIN obj :
               /\ obj[p].kind \in {"string", "scalar", "list", "object"}
               /\ obj[p].kind \in {"string", "scalar"} => Items(obj[p]) = 0
               /\ Items(obj[p]) \in Nat
               /\ \A i \in 1..Items(obj[p]) : Append(p, i) \in DOMAIN obj
<1>1. DOMAIN obj \subseteq Seq(Nat) /\ <<>> \in DOMAIN obj
  BY PayloadAssumption DEF IsTree
<1>2. ASSUME NEW p \in DOMAIN obj
      PROVE  /\ obj[p].kind \in {"string", "scalar", "list", "object"}
             /\ obj[p].kind \in {"string", "scalar"} => Items(obj[p]) = 0
             /\ Items(obj[p]) \in Nat
  <2>1. IsNode(obj[p])
    BY PayloadAssumption DEF IsTree
  <2> QED
    BY <2>1 DEF IsNode, Items
<1>3. \A p \in DOMAIN obj : \A i \in 1..Items(obj[p]) : Append(p, i) \in DOMAIN obj
  BY PayloadAssumption DEF IsTree
<1> QED
  BY <1>1, <1>2, <1>3

(* From a node to any node below it leads one of its items. *)
LEMMA ItemBetween ==
  ASSUME NEW obj \in Payloads, NEW p \in DOMAIN obj, NEW q \in Above(p), q # p
  PROVE  \E i \in 1..Items(obj[q]) : Append(q, i) \in Above(p)
<1>1. p \in Seq(Nat) /\ Len(p) \in Nat
  BY NodesOfTree
<1>2. PICK n \in 0..Len(p) : q = SubSeq(p, 1, n)
  BY DEF Above
<1>3. n # Len(p)
  BY <1>1, <1>2, SubSeqFull
<1>4. n + 1 \in 1..Len(p) /\ n + 1 \in 0..Len(p) /\ n + 1 - 1 = n /\ 1 \in 1..Len(p)
      /\ n + 1 \in 1..Len(p)
  BY <1>1, <1>2, <1>3
<1>5. p[n + 1] \in 1..Items(obj[q])
  BY <1>2, <1>4, PayloadAssumption DEF IsTree
<1>6. SubSeq(p, 1, n + 1) = q \o <<p[n + 1]>>
  BY <1>1, <1>2, <1>4, SubSeqRecursiveSecond
<1>7. q \in Seq(Nat) /\ p[n + 1] \in Nat
  <2>1. \A i \in 1..n : p[i] \in Nat
    BY <1>1, <1>2
  <2> QED
    BY <1>1, <1>2, <1>4, <2>1, SubSeqProperties, ElementOfSeq
<1>8. Append(q, p[n + 1]) = SubSeq(p, 1, n + 1)
  BY <1>6, <1>7, AppendIsConcat
<1>9. Append(q, p[n + 1]) \in Above(p)
  BY <1>4, <1>8 DEF Above
<1> QED
  BY <1>5, <1>9

(* Visiting one node: what is left of the walk, and the node's items. *)
LEMMA VisitKeeps ==
  ASSUME WalkInv, todo # <<>>, WalkOnly, UNCHANGED raised, Put(Walked(At)),
         Fails(At) => mode = "fail_open",
         todo' \in Seq(DOMAIN payload),
         \A i \in 2..Len(todo) : \E k \in 1..Len(todo') : todo'[k] = todo[i],
         \A i \in 1..Items(payload[At]) : \E k \in 1..Len(todo') : todo'[k] = Append(At, i)
  PROVE  WalkInv'
<1>1. todo \in Seq(DOMAIN payload) /\ payload \in Payloads /\ ~raised
  BY DEF WalkInv
<1>2. At \in DOMAIN payload /\ At = todo[1] /\ Len(todo) \in Nat
  BY <1>1, HeadTailProperties DEF At
<1>3. payload' = payload /\ mode' = mode /\ failing' = failing /\ raised' = raised
  BY DEF WalkOnly
<1>4. \A p : Walked(p)' = Walked(p) /\ (Fails(p)' <=> Fails(p))
  BY <1>3 DEF Walked, Fails, StringsOf
<1>5. DOMAIN cleaned' = DOMAIN cleaned \cup {At}
  BY DEF Put
<1>6. \A p \in DOMAIN cleaned' : cleaned'[p] = Walked(p)
  <2>1. \A p \in DOMAIN cleaned : cleaned[p] = Walked(p)
    BY DEF WalkInv
  <2> QED
    BY <1>5, <2>1 DEF Put
<1>7. cleaned' = [p \in DOMAIN cleaned' |-> Walked(p)']
  <2>1. cleaned' = [p \in DOMAIN cleaned' |-> cleaned'[p]]
    BY DEF Put
  <2> QED
    BY <1>4, <1>6, <2>1
<1>8. ASSUME NEW p \in DOMAIN payload PROVE Reached(p)'
  <2>1. Reached(p)
    BY <1>1 DEF WalkInv
  <2>2. CASE p \in DOMAIN cleaned
    BY <1>5, <2>2 DEF Reached
  <2>3. CASE p = At
    BY <1>5, <2>3 DEF Reached
  <2>4. CASE p \notin DOMAIN cleaned /\ p # At
    <3>1. PICK i \in 1..Len(todo) : todo[i] \in Above(p)
      BY <2>1, <2>4 DEF Reached
    <3>2. \E k \in 1..Len(todo') : todo'[k] \in Above(p)
      <4>1. CASE i = 1
        <5>1. PICK j \in 1..Items(payload[At]) : Append(At, j) \in Above(p)
          BY <1>1, <1>2, <2>4, <3>1, <4>1, ItemBetween
        <5> QED
          BY <5>1
      <4>2. CASE i # 1
        <5>1. i \in 2..Len(todo)
          BY <1>2, <4>2
        <5> QED
          BY <3>1, <5>1
      <4> QED
        BY <4>1, <4>2
    <3> QED
      BY <3>2 DEF Reached, Above
  <2> QED
    BY <2>2, <2>3, <2>4
<1>9. \A p \in DOMAIN cleaned' : mode # "fail_open" => ~Fails(p)'
  BY <1>4, <1>5 DEF WalkInv
<1>10. DOMAIN cleaned' \subseteq DOMAIN payload
  BY <1>2, <1>5 DEF WalkInv
<1> QED
  BY <1>1, <1>3, <1>7, <1>8, <1>9, <1>10 DEF WalkInv

(* A string or scalar has no items. *)
LEMMA LeafKeeps ==
  ASSUME WalkInv, todo # <<>>, WalkOnly, UNCHANGED raised, Put(Walked(At)),
         Fails(At) => mode = "fail_open",
         todo' = Tail(todo), payload[At].kind \in {"string", "scalar"}
  PROVE  WalkInv'
<1>1. todo \in Seq(DOMAIN payload) /\ payload \in Payloads
  BY DEF WalkInv
<1>2. At \in DOMAIN payload /\ Tail(todo) \in Seq(DOMAIN payload) /\ Len(todo) \in Nat
      /\ Len(Tail(todo)) = Len(todo) - 1
      /\ \A i \in 1..Len(Tail(todo)) : Tail(todo)[i] = todo[i + 1]
  BY <1>1, HeadTailProperties DEF At
<1>3. Items(payload[At]) = 0
  BY <1>1, <1>2, NodesOfTree
<1>4. ASSUME NEW i \in 2..Len(todo) PROVE \E k \in 1..Len(todo') : todo'[k] = todo[i]
  <2>1. i - 1 \in 1..Len(Tail(todo)) /\ i - 1 + 1 = i
    BY <1>2
  <2> QED
    BY <1>2, <2>1
<1>5. \A i \in 1..Items(payload[At]) : \E k \in 1..Len(todo') : todo'[k] = Append(At, i)
  BY <1>3
<1> QED
  BY <1>2, <1>4, <1>5, VisitKeeps

LEMMA WalkStringKeeps ==
  ASSUME WalkInv, WalkString
  PROVE  WalkInv'
<1>1. At \in DOMAIN payload
  BY HeadTailProperties DEF WalkInv, WalkString, Visits, At
<1>2. Walked(At) = String(scrub(payload[At].text)) /\ ~Fails(At)
  BY <1>1 DEF WalkString, Visits, Walked, Fails, StringsOf
<1> QED
  BY <1>2, LeafKeeps DEF WalkString, Visits

LEMMA WalkScalarKeeps ==
  ASSUME WalkInv, WalkScalar
  PROVE  WalkInv'
<1>1. Walked(At) = payload[At] /\ ~Fails(At)
  BY DEF WalkScalar, Visits, Walked, Fails, StringsOf
<1> QED
  BY <1>1, LeafKeeps DEF WalkScalar, Visits

LEMMA WalkFailsKeeps ==
  ASSUME WalkInv, WalkFails
  PROVE  WalkInv'
<1>1. At \in DOMAIN payload
  BY HeadTailProperties DEF WalkInv, WalkFails, Visits, At
<1>2. Walked(At) = payload[At] /\ Fails(At)
  BY <1>1 DEF WalkFails, Visits, Walked, Fails, StringsOf
<1>3. CASE mode = "fail_open"
  BY <1>2, <1>3, LeafKeeps DEF WalkFails, Visits
<1>4. CASE mode # "fail_open"
  <2>1. raised' = TRUE /\ todo' = <<>>
        /\ UNCHANGED <<cleaned, payload, mode, failing>>
    BY <1>4 DEF WalkFails, WalkOnly
  <2>2. \A p : Walked(p)' = Walked(p) /\ (Fails(p)' <=> Fails(p))
    BY <2>1 DEF Walked, Fails, StringsOf
  <2>3. todo' \in Seq(DOMAIN payload')
    BY <2>1
  <2>4. cleaned' = [p \in DOMAIN cleaned' |-> Walked(p)']
    BY <2>1, <2>2 DEF WalkInv
  <2> QED
    BY <1>1, <1>2, <1>4, <2>1, <2>2, <2>3, <2>4 DEF WalkInv
<1> QED
  BY <1>3, <1>4

LEMMA WalkItemsKeeps ==
  ASSUME WalkInv, WalkItems
  PROVE  WalkInv'
<1>1. todo # <<>> /\ payload[At].kind \in {"list", "object"}
  BY DEF WalkItems, Visits
<1>2. Walked(At) = payload[At] /\ ~Fails(At)
  BY <1>1 DEF Walked, Fails, StringsOf
<1>3. todo \in Seq(DOMAIN payload) /\ payload \in Payloads
  BY DEF WalkInv
<1>4. At \in DOMAIN payload /\ Tail(todo) \in Seq(DOMAIN payload) /\ Len(todo) \in Nat
      /\ Len(Tail(todo)) = Len(todo) - 1
      /\ \A i \in 1..Len(Tail(todo)) : Tail(todo)[i] = todo[i + 1]
  BY <1>1, <1>3, HeadTailProperties DEF At
<1> DEFINE n == Items(payload[At])
           parts == Parts(At)
           rest == Tail(todo)
<1>5. n \in Nat /\ \A i \in 1..n : Append(At, i) \in DOMAIN payload
  BY <1>3, <1>4, NodesOfTree
<1>6. parts = [i \in 1..n |-> Append(At, i)]
  BY DEF Parts
<1>7. todo' = parts \o rest
  BY DEF WalkItems
<1>8. rest \in Seq(DOMAIN payload) /\ Len(rest) \in Nat /\ Len(rest) = Len(todo) - 1
      /\ \A i \in 1..Len(rest) : rest[i] = todo[i + 1]
  BY <1>4
<1> HIDE DEF n, parts, rest
<1>9. parts \in Seq(DOMAIN payload)
  BY <1>5, <1>6, IsASeq
<1>10. Len(parts) = n /\ \A i \in 1..n : parts[i] = Append(At, i)
  BY <1>5, <1>6
<1>11. /\ parts \o rest \in Seq(DOMAIN payload)
       /\ Len(parts \o rest) = Len(parts) + Len(rest)
       /\ \A i \in 1..Len(parts) + Len(rest) :
            (parts \o rest)[i] = IF i <= Len(parts) THEN parts[i] ELSE rest[i - Len(parts)]
  BY <1>8, <1>9, ConcatProperties
<1>12. /\ Len(parts \o rest) = n + Len(rest) /\ Len(rest) \in Nat
       /\ \A i \in 1..n + Len(rest) :
            (parts \o rest)[i] = IF i <= n THEN parts[i] ELSE rest[i - n]
  BY <1>8, <1>10, <1>11
<1>13. ASSUME NEW i \in 2..Len(todo) PROVE \E k \in 1..Len(todo') : todo'[k] = todo[i]
  <2>1. i - 1 \in 1..Len(rest) /\ i - 1 + 1 = i /\ rest[i - 1] = todo[i]
    BY <1>4 DEF rest
  <2>2. PICK k \in Int : k = n + (i - 1)
    BY <1>5, <2>1
  <2>3. k \in 1..n + Len(rest) /\ ~(k <= n) /\ k - n = i - 1
    BY <1>5, <1>12, <2>1, <2>2
  <2>4. (parts \o rest)[k] = rest[k - n]
    BY <1>12, <2>3
  <2>5. k \in 1..Len(todo') /\ todo'[k] = todo[i]
    BY <1>7, <1>12, <2>1, <2>3, <2>4
  <2> QED
    BY <2>5
<1>14. ASSUME NEW i \in 1..n PROVE \E k \in 1..Len(todo') : todo'[k] = Append(At, i)
  <2>1. i \in 1..Len(todo')
    BY <1>5, <1>7, <1>12
  <2>2. i \in 1..n + Len(rest) /\ i <= n
    BY <1>5, <1>12
  <2>3. todo'[i] = Append(At, i)
    BY <1>7, <1>12, <1>10, <2>2
  <2> QED
    BY <2>1, <2>3
<1> QED
  BY <1>1, <1>2, <1>7, <1>11, <1>13, <1>14, VisitKeeps DEF WalkItems, n

LEMMA WalkInvariant == WalkSpec => []WalkInv
<1>1. WalkInit => WalkInv
  <2> SUFFICES ASSUME WalkInit PROVE WalkInv
    OBVIOUS
  <2>1. /\ payload \in Payloads /\ todo = << <<>> >> /\ cleaned = <<>>
        /\ raised = FALSE
    BY DEF WalkInit
  <2>2. DOMAIN payload \subseteq Seq(Nat) /\ <<>> \in DOMAIN payload
    BY <2>1, NodesOfTree
  <2>3. DOMAIN cleaned = {} /\ cleaned = [p \in DOMAIN cleaned |-> Walked(p)]
    BY <2>1
  <2>4. todo \in Seq(DOMAIN payload) /\ Len(todo) = 1 /\ todo[1] = <<>>
    BY <2>1, <2>2
  <2>5. ASSUME NEW p \in DOMAIN payload PROVE Reached(p)
    <3>1. Len(p) \in Nat
      BY <2>2
    <3>2. SubSeq(p, 1, 0) = <<>>
      BY SubSeqEmpty
    <3>3. <<>> \in Above(p)
      BY <3>1, <3>2 DEF Above
    <3> QED
      BY <2>4, <3>3 DEF Reached
  <2> QED
    BY <2>1, <2>3, <2>4, <2>5 DEF WalkInv
<1>2. WalkInv /\ [WalkNext]_walkVars => WalkInv'
  <2> SUFFICES ASSUME WalkInv, [WalkNext]_walkVars PROVE WalkInv'
    OBVIOUS
  <2>1. ASSUME UNCHANGED walkVars PROVE WalkInv'
    BY <2>1 DEF WalkInv, Walked, Fails, Reached, StringsOf, walkVars
  <2> QED
    BY <2>1, WalkStringKeeps, WalkFailsKeeps, WalkItemsKeeps, WalkScalarKeeps DEF WalkNext
<1> QED
  BY <1>1, <1>2, PTL DEF WalkSpec

(* At the end every node has been visited. *)
LEMMA AllVisited ==
  ASSUME WalkInv, Returned
  PROVE  DOMAIN cleaned = DOMAIN payload /\ cleaned = [p \in DOMAIN payload |-> Walked(p)]
<1>1. \A p \in DOMAIN payload : p \in DOMAIN cleaned
  BY DEF WalkInv, Returned, Reached
<1> QED
  BY <1>1 DEF WalkInv

(* WalkIsThorough: what _scrub_payload returns is the payload, of any shape and
   depth, with every string scrubbed; a string on which the analyzer fails is left
   alone in fail_open, and otherwise the caller gets a 503 and no payload. *)
THEOREM WalkReachesAll == WalkSpec => []WalkIsThorough
<1>1. WalkInv => WalkIsThorough
  <2> SUFFICES ASSUME WalkInv PROVE WalkIsThorough
    OBVIOUS
  <2>1. ASSUME Returned
        PROVE  cleaned = [p \in DOMAIN payload |->
                  IF p \notin StringsOf(payload) \/ payload[p].text \in failing
                  THEN payload[p] ELSE String(scrub(payload[p].text))]
    BY <2>1, AllVisited DEF Walked
  <2>2. ASSUME Returned, mode # "fail_open", NEW p \in StringsOf(payload)
        PROVE  payload[p].text \notin failing
    <3>1. p \in DOMAIN cleaned
      BY <2>2, AllVisited DEF StringsOf
    <3> QED
      BY <2>2, <3>1 DEF WalkInv, Fails
  <2>3. raised => mode # "fail_open" /\ \E p \in StringsOf(payload) : payload[p].text \in failing
    BY DEF WalkInv, Fails
  <2> QED
    BY <2>1, <2>2, <2>3 DEF WalkIsThorough
<1> QED
  BY <1>1, WalkInvariant, PTL

(* SinIsRemoved: in every place of a payload of any depth where it is a string, a
   valid SIN that stands alone is replaced, and by its own placeholder when it is
   written with marks, if the analyzer does not fail on it. *)
THEOREM SinsAreRemoved == WalkSpec => []SinIsRemoved
<1>1. WalkInv => SinIsRemoved
  <2> SUFFICES ASSUME WalkInv, Returned, NEW p \in StringsOf(payload),
                      IsSin(payload[p].text), payload[p].text \notin failing
               PROVE  /\ p \in StringsOf(cleaned) /\ cleaned[p].text # payload[p].text
                      /\ Marks(payload[p].text) # {} =>
                            cleaned[p].text = [placeholder |-> "CA_SIN"]
    BY DEF SinIsRemoved
  <2> DEFINE t == payload[p].text
  <2>1. IsText(t) /\ \A f \in French(t) : f.score \in 0..99
    BY PayloadIsTree DEF WalkInv
  <2>2. scrub(t) # t /\ (Marks(t) # {} => scrub(t) = [placeholder |-> "CA_SIN"])
    BY <2>1, SinIsReplaced
  <2>3. p \in DOMAIN cleaned /\ cleaned[p] = String(scrub(t))
    BY AllVisited DEF Walked, StringsOf
  <2>4. p \in StringsOf(cleaned) /\ cleaned[p].text = scrub(t)
    BY <2>3 DEF StringsOf, String
  <2> QED
    BY <2>2, <2>4
<1> QED
  BY <1>1, WalkInvariant, PTL

===============================================================================
