---------------------------- MODULE RequestLimiter -----------------------------
(***************************************************************************)
(* What check_rate_limit promises those who call it, without sorted sets,  *)
(* deques or pipelines: a request is let through only while its key and    *)
(* its department have room, and refused only when one of them has none.   *)
(* A limiter that refused everybody would keep every limit; this one may   *)
(* not.                                                                    *)
(***************************************************************************)
EXTENDS Integers, FiniteSets

CONSTANTS Numbers,         \* names of requests, each used once
          Slots,           \* as many as may be decided at once
          Keys, Dept,      \* staff keys, and the department of each
          Policies, WINDOW_SECONDS

VARIABLES asked,           \* requests to be decided, with the limits read for them
          admitted,        \* requests let through: whose, when, counted by which store
          rejected,        \* requests answered 429
          policy, clock,
          overlapped,      \* requests may be decided side by side
          failed           \* failures and restarts so far

limiterVars == <<asked, admitted, rejected, policy, clock, overlapped, failed>>

BucketsOf(k) == {k, Dept[k]}

(* The limit of bucket b, which is a key or a department. *)
Limit(p, b) == IF b \in Keys THEN p.key ELSE p.dept

(* Requests of bucket b that one store let through since a moment. *)
Since(b, via, moment) ==
    {a \in admitted : b \in BucketsOf(a.key) /\ a.via = via /\ a.at >= moment}

(* n requests are not too many for bucket b under some policy. *)
HasRoom(b, n) == \E p \in Policies : n <= Limit(p, b)

Init ==
    /\ asked = {} /\ admitted = {} /\ rejected = {}
    /\ policy \in Policies /\ clock = 0 /\ failed = 0
    /\ overlapped = FALSE

(* The limits are read for a request. *)
Ask ==
    /\ asked # {} => overlapped
    /\ \E n \in Numbers \ (rejected \cup {a.n : a \in asked \cup admitted}), k \in Keys :
          asked' = asked \cup {[n |-> n, key |-> k, limits |-> policy, at |-> clock]}
    /\ UNCHANGED <<admitted, rejected, policy, clock, overlapped, failed>>

(* Request a is let through by one store; with it the last window holds no
   more of each of its buckets than a limit and what the store may miss. *)
Let(a, time, via, missed) ==
    /\ asked' = asked \ {a}
    /\ admitted' = admitted \cup {[n |-> a.n, key |-> a.key, at |-> time, via |-> via]}
    /\ \A b \in BucketsOf(a.key) :
          HasRoom(b, Cardinality(Since(b, via, clock - WINDOW_SECONDS + 1)') - missed)
    /\ UNCHANGED <<rejected, policy, clock, overlapped, failed>>

(* In memory nothing is missed; in Redis those that are decided side by side. *)
Admit ==
    \E a \in asked :
        \/ Let(a, clock, "memory", 0)
        \/ Let(a, a.at, "redis", IF overlapped THEN Cardinality(Slots) - 1 ELSE 0)

(* One bucket of request a has reached the limit read for it. *)
Refuse(a, moment, via, strays) ==
    /\ asked' = asked \ {a}
    /\ rejected' = rejected \cup {a.n}
    /\ \E b \in BucketsOf(a.key) :
          Cardinality(Since(b, via, moment)) + strays >= Limit(a.limits, b)
    /\ UNCHANGED <<admitted, policy, clock, overlapped, failed>>

(* The memory counts those that are just a window old, Redis those within one
   before the limits were read, and one more for each recording that broke off. *)
Reject ==
    \E a \in asked :
        \/ Refuse(a, clock - WINDOW_SECONDS, "memory", 0)
        \/ Refuse(a, a.at - WINDOW_SECONDS + 1, "redis", failed)

(* Redis or the database fails; a request may have to ask again, or to give up. *)
Fail ==
    /\ failed' = failed + 1
    /\ asked' \in {asked} \cup {asked \ {a} : a \in asked}
    /\ UNCHANGED <<admitted, rejected, policy, clock, overlapped>>

(* Nobody is being decided any more, and what was let through from memory is
   forgotten. *)
Restart ==
    /\ failed' = failed + 1
    /\ asked' = {}
    /\ admitted' = {a \in admitted : a.via = "redis"}
    /\ UNCHANGED <<rejected, policy, clock, overlapped>>

(* The world around: the policy, the time, a second request at once. *)
Elsewhere ==
    /\ UNCHANGED <<failed, admitted, rejected, asked>>
    /\ \/ policy' \in Policies /\ UNCHANGED <<clock, overlapped>>
       \/ clock' = clock + 1 /\ UNCHANGED <<policy, overlapped>>
       \/ overlapped' = TRUE /\ UNCHANGED <<policy, clock>>

Next == Elsewhere \/ Fail \/ Restart \/ Reject \/ Admit \/ Ask

Spec == Init /\ [][Next]_limiterVars
===============================================================================
