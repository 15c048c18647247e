---------------------------- MODULE LoginLimitProofs ----------------------------
(***************************************************************************)
(* Proofs about LoginLimit, for any number of calls at once, any limit,    *)
(* window and bounds.                                                      *)
(***************************************************************************)
EXTENDS LoginLimit, FiniteSetTheorems, TLAPS

Counted == {e.n : e \in zset \cup login_attempts} \cup failed_logins

(* A call that may still be refused has no entry and no row, and none that is
   in flight was refused. *)
CallsInFlight ==
    \A r \in Slots : /\ number[r] \notin refused
                     /\ pc[r] \in {"check", "checkMemory"} => number[r] \notin Counted

RefusedInv == TypeOK /\ refused \cap Counted = {} /\ CallsInFlight

-------------------------------------------------------------------------------
(* The type invariant. *)

LEMMA InitType == Init => TypeOK
<1> SUFFICES ASSUME Init PROVE TypeOK
  OBVIOUS
<1>1. StoresOK /\ CallsOK
  BY BoundsAssumption DEF Init, StoresOK, CallsOK
<1>2. FlagsOK
  BY Zenon DEF Init, FlagsOK
<1> QED
  BY <1>1, <1>2 DEF TypeOK

LEMMA NextFlags == FlagsOK /\ [Next]_vars => FlagsOK'
<1> SUFFICES ASSUME FlagsOK, [Next]_vars PROVE FlagsOK'
  OBVIOUS
<1>1. \/ UNCHANGED <<redis_client, overlapped>>
      \/ UNCHANGED redis_client /\ overlapped' \in BOOLEAN
      \/ UNCHANGED overlapped /\ redis_client' \in BOOLEAN
  BY Zenon DEF Next, vars, stores, observers, Enter, CheckRedis, CheckFails, CheckMemory,
     Authenticate, AuthenticateFails, Record, RecordFails, LogFailedLogin, LogFails, Tick, Restart
<1> QED
  BY Zenon, <1>1 DEF FlagsOK

LEMMA LeaveKeepsCalls ==
  ASSUME StoresOK, CallsOK, NEW r \in Slots, Leave(r), UNCHANGED serial
  PROVE  CallsOK'
  BY DEF StoresOK, CallsOK, Leave, Goto

(* A call that goes on keeps its number. *)
LEMMA GotoKeepsCalls ==
  ASSUME CallsOK, NEW r \in Slots, pc[r] # "idle", UNCHANGED <<number, serial>>,
         NEW l \in {"check", "checkMemory", "password", "code",
                    "recordPassword", "recordCode", "log"}, Goto(r, l)
  PROVE  CallsOK'
  BY DEF CallsOK, Goto

LEMMA EntryOf ==
  ASSUME StoresOK, CallsOK, NEW r \in Slots, pc[r] # "idle"
  PROVE  number[r] \in 1..serial /\ [at |-> clock, n |-> number[r]] \in Entries
  BY DEF StoresOK, CallsOK, Entries

LEMMA NextType == TypeOK /\ [Next]_vars => TypeOK'
<1> SUFFICES ASSUME StoresOK, CallsOK, [Next]_vars PROVE StoresOK' /\ CallsOK'
  BY NextFlags DEF TypeOK
<1> USE BoundsAssumption
<1>1. ASSUME NEW r \in Slots, Enter(r) PROVE StoresOK' /\ CallsOK'
  <2>1. StoresOK'
    BY <1>1 DEF Enter, stores, StoresOK, Entries
  <2>2. CallsOK'
    <3>1. serial + 1 \in 0..serial' /\ serial' = serial + 1 /\ serial \in Nat
      BY <1>1 DEF Enter, StoresOK
    <3>2. PICK l \in {"check", "checkMemory", "code"} : Goto(r, l)
      BY <1>1 DEF Enter
    <3> QED
      BY <1>1, <3>1, <3>2 DEF Enter, CallsOK, Goto
  <2> QED
    BY <2>1, <2>2
<1>2. ASSUME NEW r \in Slots, CheckRedis(r) \/ CheckMemory(r) PROVE StoresOK' /\ CallsOK'
  <2>1. StoresOK'
    <3>1. /\ zset' \subseteq zset /\ login_attempts' \subseteq login_attempts
          /\ refused' \subseteq refused \cup {number[r]} /\ pc[r] # "idle"
      BY <1>2 DEF CheckRedis, CheckMemory, Decide, Recent
    <3>2. UNCHANGED <<failed_logins, clock, serial, faults, restarts>>
      BY <1>2 DEF CheckRedis, CheckMemory
    <3> QED
      BY <3>1, <3>2, EntryOf DEF StoresOK, Entries
  <2>2. \/ Leave(r)
        \/ Goto(r, "password") /\ UNCHANGED number
    BY <1>2 DEF CheckRedis, CheckMemory, Decide
  <2>3. pc[r] # "idle" /\ UNCHANGED serial
    BY <1>2 DEF CheckRedis, CheckMemory
  <2> QED
    BY <2>1, <2>2, <2>3, LeaveKeepsCalls, GotoKeepsCalls
<1>3. ASSUME NEW r \in Slots, CheckFails(r) PROVE StoresOK' /\ CallsOK'
  <2>1. StoresOK'
    BY <1>3 DEF CheckFails, Fault, Recent, observers, StoresOK, Entries
  <2> QED
    BY <1>3, <2>1, GotoKeepsCalls DEF CheckFails
<1>4. ASSUME NEW r \in Slots, Authenticate(r) PROVE StoresOK' /\ CallsOK'
  <2>1. StoresOK'
    BY <1>4 DEF Authenticate, stores, observers, StoresOK, Entries
  <2>2. \/ Leave(r)
        \/ \E l \in {"recordPassword", "recordCode"} : Goto(r, l) /\ UNCHANGED number
    <3>1. \/ Leave(r)
          \/ /\ Goto(r, IF pc[r] = "password" THEN "recordPassword" ELSE "recordCode")
             /\ UNCHANGED number
      BY <1>4 DEF Authenticate
    <3> QED
      BY <3>1
  <2>3. pc[r] # "idle" /\ UNCHANGED serial
    BY <1>4 DEF Authenticate
  <2> QED
    BY <2>1, <2>2, <2>3, LeaveKeepsCalls, GotoKeepsCalls
<1>5. ASSUME NEW r \in Slots, AuthenticateFails(r) \/ LogFails(r) PROVE StoresOK' /\ CallsOK'
  <2>1. StoresOK'
    <3>1. UNCHANGED <<zset, login_attempts, failed_logins, refused, clock, serial, restarts>> /\ Fault
      BY <1>5 DEF AuthenticateFails, LogFails, stores, observers
    <3> QED
      BY <3>1 DEF Fault, StoresOK, Entries
  <2> QED
    BY <1>5, <2>1, LeaveKeepsCalls DEF AuthenticateFails, LogFails
<1>6. ASSUME NEW r \in Slots, Record(r) \/ RecordFails(r) PROVE StoresOK' /\ CallsOK'
  <2>1. pc[r] # "idle" /\ UNCHANGED <<number, serial>> /\ Goto(r, "log")
    BY <1>6 DEF Record, RecordFails, Recording, RecordInMemory
  <2>2. /\ zset' \subseteq zset \cup {[at |-> clock, n |-> number[r]]}
        /\ login_attempts' \subseteq login_attempts \cup {[at |-> clock, n |-> number[r]]}
        /\ UNCHANGED <<failed_logins, refused, clock, restarts>>
        /\ UNCHANGED faults \/ Fault
    BY <1>6 DEF Record, RecordFails, RecordInMemory
  <2>3. StoresOK'
    BY <2>1, <2>2, EntryOf DEF StoresOK, Entries, Fault
  <2> QED
    BY <2>1, <2>3, GotoKeepsCalls
<1>7. ASSUME NEW r \in Slots, LogFailedLogin(r) PROVE StoresOK' /\ CallsOK'
  <2>1. StoresOK'
    BY <1>7, EntryOf DEF LogFailedLogin, stores, observers, StoresOK, Entries
  <2> QED
    BY <1>7, <2>1, LeaveKeepsCalls DEF LogFailedLogin
<1>8. ASSUME Tick PROVE StoresOK' /\ CallsOK'
  BY <1>8 DEF Tick, stores, observers, calls, StoresOK, CallsOK, Entries
<1>9. ASSUME Restart PROVE StoresOK' /\ CallsOK'
  <2>1. StoresOK'
    BY <1>9 DEF Restart, StoresOK, Entries
  <2> QED
    BY <1>9, <2>1 DEF Restart, StoresOK, CallsOK
<1>10. ASSUME UNCHANGED vars PROVE StoresOK' /\ CallsOK'
  BY <1>10 DEF vars, stores, observers, calls, StoresOK, CallsOK, Entries
<1> QED
  BY <1>1, <1>2, <1>3, <1>4, <1>5, <1>6, <1>7, <1>8, <1>9, <1>10 DEF Next

(* TypeOK: entries and rows are of calls that came, none is in the future, and
   no two calls in flight are taken for one. *)
THEOREM LoginTypeCorrect == Spec => []TypeOK
  BY InitType, NextType, PTL DEF Spec

-------------------------------------------------------------------------------
(* What is counted. *)

(* Nothing new is counted and no call becomes one that may be refused. *)
LEMMA NothingCounted ==
  ASSUME RefusedInv, Counted' \subseteq Counted, refused' = refused,
         \A r \in Slots : /\ number'[r] \in {number[r], 0}
                          /\ pc'[r] \in {"check", "checkMemory"} =>
                                pc[r] \in {"check", "checkMemory"} /\ number'[r] = number[r]
  PROVE  refused' \cap Counted' = {} /\ CallsInFlight'
<1>1. 0 \notin refused
  BY DEF RefusedInv, TypeOK, StoresOK
<1> QED
  BY <1>1 DEF RefusedInv, CallsInFlight

(* A call that was not refused and cannot be any more is counted. *)
LEMMA OneCounted ==
  ASSUME RefusedInv, NEW r \in Slots, Counted' \subseteq Counted \cup {number[r]},
         refused' = refused, pc[r] \notin {"idle", "check", "checkMemory"},
         pc'[r] \notin {"check", "checkMemory"}, number'[r] \in {number[r], 0},
         \A s \in Slots : s # r => number'[s] = number[s] /\ pc'[s] = pc[s]
  PROVE  refused' \cap Counted' = {} /\ CallsInFlight'
<1>1. 0 \notin refused /\ number[r] \notin refused
  BY DEF RefusedInv, TypeOK, StoresOK, CallsInFlight
<1>2. \A s \in Slots : s # r => number[s] # number[r]
  BY DEF RefusedInv, TypeOK, CallsOK
<1> QED
  BY <1>1, <1>2 DEF RefusedInv, CallsInFlight

(* A call whose check came out against it is refused. *)
LEMMA OneRefused ==
  ASSUME RefusedInv, NEW r \in Slots, pc[r] \in {"check", "checkMemory"},
         Counted' \subseteq Counted, refused' = refused \cup {number[r]}, Leave(r)
  PROVE  refused' \cap Counted' = {} /\ CallsInFlight'
<1>1. number[r] # 0 /\ 0 \notin refused
  BY DEF RefusedInv, TypeOK, StoresOK, CallsOK
<1>2. \A s \in Slots : s # r => number[s] # number[r] /\ number'[s] = number[s] /\ pc'[s] = pc[s]
  BY <1>1 DEF RefusedInv, TypeOK, CallsOK, Leave, Goto
<1>3. number'[r] = 0 /\ pc'[r] = "idle"
  BY DEF RefusedInv, TypeOK, CallsOK, Leave, Goto
<1> QED
  BY <1>1, <1>2, <1>3 DEF RefusedInv, CallsInFlight

LEMMA NextRefused == RefusedInv /\ [Next]_vars => RefusedInv'
<1> SUFFICES ASSUME RefusedInv, [Next]_vars PROVE RefusedInv'
  OBVIOUS
<1> DEFINE Out == refused' \cap Counted' = {} /\ CallsInFlight'
<1>0. TypeOK' /\ TypeOK
  BY NextType DEF RefusedInv
<1>1. ASSUME NEW r \in Slots, Enter(r) PROVE Out
  <2>1. serial + 1 \notin refused /\ serial + 1 \notin Counted
    BY <1>0 DEF TypeOK, StoresOK, Entries, Counted
  <2>2. Counted' = Counted /\ refused' = refused
    BY <1>1 DEF Enter, stores, Counted
  <2>3. number'[r] = serial + 1 /\ \A s \in Slots : s # r => number'[s] = number[s] /\ pc'[s] = pc[s]
    BY <1>0, <1>1 DEF Enter, Goto, TypeOK, CallsOK
  <2> QED
    BY <2>1, <2>2, <2>3 DEF RefusedInv, CallsInFlight
<1>2. ASSUME NEW r \in Slots, CheckRedis(r) \/ CheckMemory(r) PROVE Out
  <2>1. Counted' \subseteq Counted /\ pc[r] \in {"check", "checkMemory"}
    BY <1>2 DEF CheckRedis, CheckMemory, Recent, Counted
  <2>2. \/ refused' = refused \cup {number[r]} /\ Leave(r)
        \/ refused' = refused /\ Goto(r, "password") /\ UNCHANGED number
    BY <1>2 DEF CheckRedis, CheckMemory, Decide
  <2>3. CASE refused' = refused \cup {number[r]} /\ Leave(r)
    BY <2>1, <2>3, OneRefused
  <2>4. CASE refused' = refused /\ Goto(r, "password") /\ UNCHANGED number
    BY <1>0, <2>1, <2>4, NothingCounted DEF Goto, TypeOK, CallsOK
  <2> QED
    BY <2>2, <2>3, <2>4
<1>3. ASSUME NEW r \in Slots, CheckFails(r) PROVE Out
  <2>1. Counted' \subseteq Counted
    BY <1>3 DEF CheckFails, Recent, Counted
  <2> QED
    BY <1>0, <1>3, <2>1, NothingCounted DEF CheckFails, observers, Goto, TypeOK, CallsOK
<1>4. ASSUME NEW r \in Slots, Authenticate(r) \/ AuthenticateFails(r) \/ LogFails(r) PROVE Out
  <2>1. Counted' = Counted /\ refused' = refused
    BY <1>4 DEF Authenticate, AuthenticateFails, LogFails, stores, observers, Counted
  <2>2. Leave(r) \/ \E l \in {"recordPassword", "recordCode"} : Goto(r, l) /\ UNCHANGED number
    BY <1>4 DEF Authenticate, AuthenticateFails, LogFails
  <2> QED
    BY <1>0, <2>1, <2>2, NothingCounted DEF Leave, Goto, TypeOK, CallsOK
<1>5. ASSUME NEW r \in Slots, Record(r) \/ RecordFails(r) PROVE Out
  <2>1. /\ zset' \subseteq zset \cup {[at |-> clock, n |-> number[r]]}
        /\ login_attempts' \subseteq login_attempts \cup {[at |-> clock, n |-> number[r]]}
        /\ UNCHANGED <<failed_logins, refused, number>> /\ Goto(r, "log")
        /\ pc[r] \in {"recordPassword", "recordCode"}
    BY <1>5 DEF Record, RecordFails, RecordInMemory, Recording
  <2>2. Counted' \subseteq Counted \cup {number[r]}
    BY <2>1 DEF Counted
  <2> QED
    BY <1>0, <2>1, <2>2, OneCounted DEF Goto, TypeOK, CallsOK
<1>6. ASSUME NEW r \in Slots, LogFailedLogin(r) PROVE Out
  <2>1. Counted' \subseteq Counted \cup {number[r]} /\ refused' = refused
    BY <1>6 DEF LogFailedLogin, stores, observers, Counted
  <2> QED
    BY <1>0, <1>6, <2>1, OneCounted DEF LogFailedLogin, Leave, Goto, TypeOK, CallsOK
<1>7. ASSUME Restart PROVE Out
  <2>1. Counted' \subseteq Counted
    BY <1>7 DEF Restart, Counted
  <2> QED
    BY <1>7, <2>1, NothingCounted DEF Restart
<1>8. ASSUME Tick \/ UNCHANGED vars PROVE Out
  <2>1. Counted' = Counted /\ refused' = refused /\ UNCHANGED <<pc, number>>
    BY <1>8 DEF Tick, vars, stores, observers, calls, Counted
  <2> QED
    BY <2>1, NothingCounted
<1>9. Out
  BY <1>1, <1>2, <1>3, <1>4, <1>5, <1>6, <1>7, <1>8 DEF Next
<1> QED
  BY <1>0, <1>9 DEF RefusedInv

(* RefusedIsNotCounted: however calls, failures of Redis and restarts overlap, a
   call that was answered 429 is in no store and not in failed_logins. *)
THEOREM RefusedLeavesNoTrace == Spec => []RefusedIsNotCounted
<1>1. Init => RefusedInv
  <2> SUFFICES ASSUME Init PROVE RefusedInv
    OBVIOUS
  <2>1. refused = {}
    BY DEF Init
  <2>2. Counted = {}
    BY DEF Init, Counted
  <2> QED
    BY <2>1, <2>2, InitType DEF RefusedInv, CallsInFlight
<1>2. RefusedInv => RefusedIsNotCounted
  BY DEF RefusedInv, Counted, RefusedIsNotCounted
<1> QED
  BY <1>1, <1>2, NextRefused, PTL DEF Spec

-------------------------------------------------------------------------------
(* How far the limit holds. *)

IsRecent(f) == f.at > clock - LOGIN_RATE_WINDOW

ByRedis == {f \in failures : f.via = "redis" /\ IsRecent(f)}
InMemory == {f \in failures : f.via = "memory" /\ IsRecent(f)}

(* Calls that passed a check, and calls that are about to in memory. *)
Trying == {r \in Slots : pc[r] \in {"password", "recordPassword"}}
Unanswered == {r \in Slots : pc[r] = "checkMemory"}

Allowed == LOGIN_RATE_LIMIT + Slack + faults

Alone == ~overlapped => \A r, s \in Slots : pc[r] # "idle" /\ pc[s] # "idle" => r = s

Failures == [at : 0..clock, n : 1..serial, via : {"redis", "memory"}]

FailedOnce == \A f, g \in failures : f.n = g.n => f = g

NotYetFailed ==
    \A r \in Slots : pc[r] \in {"check", "checkMemory", "password", "recordPassword"} =>
        \A f \in failures : f.n # number[r]

(* A failure has its entry in the store that counted it. *)
FailuresAreIn ==
    \A f \in failures : IsRecent(f) =>
        [at |-> f.at, n |-> f.n] \in (IF f.via = "redis" THEN zset ELSE login_attempts)

(* While the process uses Redis, a call goes to the memory, and a failure is
   counted there, only when Redis failed; those calls were not checked against
   what Redis holds, but there is a fault for each.  Without Redis the memory
   counts alone. *)
WithinSlack ==
    /\ Cardinality(ByRedis) <= Allowed
    /\ redis_client =>
         /\ Cardinality(InMemory) <= faults
         /\ Cardinality(ByRedis) + Cardinality(InMemory)
              + Cardinality(Trying) + Cardinality(Unanswered) <= Allowed
    /\ ~redis_client => Cardinality(InMemory) + Cardinality(Trying) <= Allowed

(* What the counts rest on: who failed, once and on record. *)
RecordsInv == /\ TypeOK /\ failures \subseteq Failures
              /\ FailedOnce /\ NotYetFailed /\ FailuresAreIn /\ Alone

AsksRedis == \A r \in Slots : pc[r] = "check" => redis_client

(* The inductive invariant.  What the calls that passed will add is added
   already. *)
SlackInv == RecordsInv /\ AsksRedis /\ WithinSlack

LEMMA SmallerSet ==
  ASSUME NEW T, IsFiniteSet(T), NEW S \in SUBSET T
  PROVE  /\ IsFiniteSet(S) /\ Cardinality(S) \in Nat /\ Cardinality(T) \in Nat
         /\ Cardinality(S) <= Cardinality(T)
  BY FS_Subset, FS_CardinalityType

(* A set with at most one element more. *)
LEMMA OneMore ==
  ASSUME NEW S, IsFiniteSet(S), NEW e, NEW T \in SUBSET (S \cup {e})
  PROVE  /\ IsFiniteSet(T) /\ Cardinality(T) \in Nat /\ Cardinality(S) \in Nat
         /\ Cardinality(T) <= Cardinality(S) + 1
<1>1. IsFiniteSet(S \cup {e}) /\ Cardinality(S \cup {e}) <= Cardinality(S) + 1
  <2>1. Cardinality(S) \in Nat
    BY FS_CardinalityType
  <2>2. CASE e \in S
    <3>1. S \cup {e} = S
      BY <2>2
    <3> QED
      BY <2>1, <3>1
  <2>3. CASE e \notin S
    <3>1. Cardinality(S \cup {e}) = Cardinality(S) + 1 /\ IsFiniteSet(S \cup {e})
      BY <2>3, FS_AddElement
    <3> QED
      BY <2>1, <3>1
  <2> QED
    BY <2>1, <2>2, <2>3
<1> QED
  BY <1>1, SmallerSet, FS_CardinalityType

(* Removing an element. *)
LEMMA OneLess ==
  ASSUME NEW S, IsFiniteSet(S), NEW e \in S, NEW T \in SUBSET (S \ {e})
  PROVE  /\ Cardinality(T) \in Nat /\ Cardinality(S) \in Nat
         /\ Cardinality(T) <= Cardinality(S) - 1
<1>1. IsFiniteSet(S \ {e}) /\ Cardinality(S \ {e}) = Cardinality(S) - 1
  BY FS_RemoveElement
<1> QED
  BY <1>1, SmallerSet, FS_CardinalityType

(* Each failure in A has an entry in W, so A is no larger. *)
LEMMA EachHasItsOwn ==
  ASSUME NEW A, NEW W, IsFiniteSet(W),
         \A f, g \in A : f.n = g.n => f = g,
         \A f \in A : [at |-> f.at, n |-> f.n] \in W
  PROVE  IsFiniteSet(A) /\ Cardinality(A) <= Cardinality(W)
<1> DEFINE h == [f \in A |-> [at |-> f.at, n |-> f.n]]
<1>1. \A f \in A : h[f] \in W /\ h[f].n = f.n
  OBVIOUS
<1>2. h \in Injection(A, W)
  BY <1>1 DEF Injection, IsInjective
<1> QED
  BY <1>2, FS_Injection

LEMMA EntriesAreFinite ==
  ASSUME TypeOK
  PROVE  IsFiniteSet(Entries)
<1> DEFINE P == (0..clock) \X (1..serial)
           h == [e \in Entries |-> <<e.at, e.n>>]
<1>1. clock \in Int /\ serial \in Int
  BY DEF TypeOK, StoresOK
<1>2. IsFiniteSet(P)
  <2>1. IsFiniteSet(0..clock) /\ IsFiniteSet(1..serial)
    BY <1>1, FS_Interval
  <2> QED
    BY <2>1, FS_Product
<1>3. h \in Injection(Entries, P)
  <2>1. \A e, g \in Entries : e.at = g.at /\ e.n = g.n => e = g
    BY DEF Entries
  <2>2. \A e \in Entries : e.at \in 0..clock /\ e.n \in 1..serial
    BY DEF Entries
  <2>3. h \in [Entries -> P] /\ \A e, g \in Entries : h[e] = h[g] => e = g
    BY <2>1, <2>2
  <2> QED
    BY <2>3 DEF Injection, IsInjective
<1> QED
  BY <1>2, <1>3, FS_Injection

(* Failures, entries and calls are finite in number. *)
LEMMA AllAreFinite ==
  ASSUME RecordsInv
  PROVE  /\ IsFiniteSet(failures) /\ IsFiniteSet(ByRedis) /\ IsFiniteSet(InMemory)
         /\ IsFiniteSet(Trying) /\ IsFiniteSet(Unanswered)
         /\ IsFiniteSet(zset) /\ IsFiniteSet(login_attempts)
<1>1. IsFiniteSet(failures)
  <2> DEFINE h == [f \in failures |-> f.n]
  <2>1. IsFiniteSet(1..serial)
    BY FS_Interval DEF RecordsInv, TypeOK, StoresOK
  <2>2. h \in Injection(failures, 1..serial)
    BY DEF Injection, IsInjective, RecordsInv, FailedOnce, Failures
  <2> QED
    BY <2>1, <2>2, FS_Injection
<1>2. IsFiniteSet(Entries) /\ zset \subseteq Entries /\ login_attempts \subseteq Entries
  BY EntriesAreFinite DEF RecordsInv, TypeOK, StoresOK
<1>3. /\ ByRedis \subseteq failures /\ InMemory \subseteq failures
      /\ Trying \subseteq Slots /\ Unanswered \subseteq Slots
  BY DEF ByRedis, InMemory, Trying, Unanswered
<1> QED
  BY <1>1, <1>2, <1>3, SlotsAssumption, SmallerSet

(* The failures a store counts are no more than its recent entries. *)
LEMMA FailuresAreCounted ==
  ASSUME RecordsInv
  PROVE  /\ Cardinality(ByRedis) <= Cardinality(Recent(zset))
         /\ Cardinality(InMemory) <= Cardinality(Recent(login_attempts))
         /\ Cardinality(Recent(zset)) \in Nat /\ Cardinality(Recent(login_attempts)) \in Nat
<1>1. IsFiniteSet(Recent(zset)) /\ IsFiniteSet(Recent(login_attempts))
  BY AllAreFinite, FS_Subset DEF Recent
<1>2. /\ \A f \in ByRedis : [at |-> f.at, n |-> f.n] \in Recent(zset)
      /\ \A f \in InMemory : [at |-> f.at, n |-> f.n] \in Recent(login_attempts)
  BY DEF RecordsInv, FailuresAreIn, ByRedis, InMemory, IsRecent, Recent
<1>3. /\ \A f, g \in ByRedis : f.n = g.n => f = g
      /\ \A f, g \in InMemory : f.n = g.n => f = g
  BY DEF RecordsInv, FailedOnce, ByRedis, InMemory
<1> QED
  BY <1>1, <1>2, <1>3, EachHasItsOwn, FS_CardinalityType

Asking == {"check", "checkMemory", "password", "recordPassword"}

(* The records stay right while nobody enters and nobody fails. *)
LEMMA RecordsStay ==
  ASSUME RecordsInv, TypeOK', failures' \subseteq failures,
         clock <= clock', serial <= serial', overlapped' = overlapped,
         \A r \in Slots : /\ pc'[r] # "idle" => pc[r] # "idle"
                          /\ pc'[r] \in Asking => pc[r] \in Asking /\ number'[r] = number[r],
         Recent(zset) \subseteq zset',
         Recent(login_attempts) \subseteq login_attempts' \/ \A f \in failures' : f.via = "redis"
  PROVE  RecordsInv'
<1>0. /\ clock \in Nat /\ clock' \in Nat /\ serial \in Nat /\ serial' \in Nat
      /\ zset \subseteq Entries /\ login_attempts \subseteq Entries
  BY DEF RecordsInv, TypeOK, StoresOK
<1>1. failures' \subseteq Failures'
  BY <1>0 DEF RecordsInv, Failures
<1>2. FailedOnce' /\ NotYetFailed' /\ Alone'
  BY DEF RecordsInv, FailedOnce, NotYetFailed, Alone, Asking
<1>3. ASSUME NEW f \in failures', IsRecent(f)'
      PROVE  [at |-> f.at, n |-> f.n] \in (IF f.via = "redis" THEN zset' ELSE login_attempts')
  <2>1. f \in failures /\ IsRecent(f) /\ f.via \in {"redis", "memory"} /\ f.at \in Nat
    BY <1>0, <1>3, WindowAssumption DEF IsRecent, RecordsInv, Failures
  <2>2. CASE f.via = "redis"
    <3>1. [at |-> f.at, n |-> f.n] \in Recent(zset)
      BY <2>1, <2>2 DEF RecordsInv, FailuresAreIn, Recent, IsRecent
    <3> QED
      BY <2>2, <3>1
  <2>3. CASE f.via = "memory"
    <3>1. [at |-> f.at, n |-> f.n] \in Recent(login_attempts)
      BY <2>1, <2>3 DEF RecordsInv, FailuresAreIn, Recent, IsRecent
    <3> QED
      BY <1>3, <2>3, <3>1
  <2> QED
    BY <2>1, <2>2, <2>3
<1> QED
  BY <1>1, <1>2, <1>3 DEF RecordsInv, FailuresAreIn

(* A failure is recorded, in the store that counts it. *)
LEMMA RecordsOne ==
  ASSUME RecordsInv, TypeOK', NEW r \in Slots, pc[r] = "recordPassword", NEW via \in {"redis", "memory"},
         failures' = failures \cup {[at |-> clock, n |-> number[r], via |-> via]},
         clock' = clock, serial' = serial, overlapped' = overlapped, Goto(r, "log"), number' = number,
         zset \subseteq zset', login_attempts \subseteq login_attempts',
         [at |-> clock, n |-> number[r]] \in (IF via = "redis" THEN zset' ELSE login_attempts')
  PROVE  RecordsInv'
<1>0. TypeOK /\ number[r] \in 1..serial /\ clock \in Nat
  BY DEF RecordsInv, TypeOK, StoresOK, CallsOK
<1>1. failures' \subseteq Failures'
  BY <1>0 DEF RecordsInv, Failures
<1>2. FailedOnce'
  BY DEF RecordsInv, FailedOnce, NotYetFailed
<1>3. NotYetFailed'
  <2>1. \A s \in Slots : pc'[s] \in Asking => s # r /\ pc[s] = pc'[s] /\ number[s] # number[r]
    BY <1>0 DEF Goto, Asking, TypeOK, CallsOK
  <2> QED
    BY <2>1 DEF RecordsInv, NotYetFailed, Asking
<1>4. Alone'
  BY <1>0 DEF RecordsInv, Alone, Goto, TypeOK, CallsOK
<1>5. FailuresAreIn'
  BY DEF RecordsInv, FailuresAreIn, IsRecent
<1> QED
  BY <1>1, <1>2, <1>3, <1>4, <1>5 DEF RecordsInv

LEMMA NextRecords == RecordsInv /\ [Next]_vars => RecordsInv'
<1> SUFFICES ASSUME RecordsInv, [Next]_vars PROVE RecordsInv'
  OBVIOUS
<1>0. TypeOK /\ TypeOK' /\ clock \in Nat /\ serial \in Nat
      /\ Recent(zset) \subseteq zset /\ Recent(login_attempts) \subseteq login_attempts
  BY NextType DEF RecordsInv, TypeOK, StoresOK, Recent
<1>1. ASSUME NEW r \in Slots, Enter(r) PROVE RecordsInv'
  <2>1. /\ failures' = failures /\ zset' = zset /\ login_attempts' = login_attempts
        /\ clock' = clock /\ serial' = serial + 1
        /\ ~overlapped' => ~overlapped /\ \A s \in Slots : pc[s] = "idle"
    BY <1>1 DEF Enter, stores
  <2>2. \A s \in Slots : pc'[s] # "idle" =>
          \/ s = r /\ number'[s] = serial + 1
          \/ s # r /\ pc'[s] = pc[s] /\ number'[s] = number[s]
    BY <1>0, <1>1 DEF Enter, Goto, TypeOK, CallsOK
  <2>3. \A f \in failures : f.n # serial + 1
    BY <1>0 DEF RecordsInv, Failures
  <2>4. failures' \subseteq Failures' /\ FailedOnce' /\ FailuresAreIn'
    BY <1>0, <2>1 DEF RecordsInv, Failures, FailedOnce, FailuresAreIn, IsRecent
  <2>5. NotYetFailed'
    BY <2>1, <2>2, <2>3 DEF RecordsInv, NotYetFailed
  <2>6. Alone'
    BY <2>1, <2>2 DEF RecordsInv, Alone
  <2> QED
    BY <1>0, <2>4, <2>5, <2>6 DEF RecordsInv
<1>2. ASSUME NEW r \in Slots, CheckRedis(r) \/ CheckMemory(r) PROVE RecordsInv'
  <2>1. /\ Recent(zset) \subseteq zset' /\ Recent(login_attempts) \subseteq login_attempts'
        /\ UNCHANGED <<failures, clock, serial, overlapped>>
        /\ pc[r] \in {"check", "checkMemory"}
        /\ Leave(r) \/ (Goto(r, "password") /\ UNCHANGED number)
    BY <1>0, <1>2 DEF CheckRedis, CheckMemory, Decide
  <2>2. \A s \in Slots : /\ pc'[s] # "idle" => pc[s] # "idle"
                         /\ pc'[s] \in Asking => pc[s] \in Asking /\ number'[s] = number[s]
    BY <1>0, <2>1 DEF Leave, Goto, Asking, TypeOK, CallsOK
  <2> QED
    BY <1>0, <2>1, <2>2, RecordsStay
<1>3. ASSUME NEW r \in Slots, CheckFails(r) PROVE RecordsInv'
  <2>1. /\ Recent(zset) \subseteq zset' /\ Recent(login_attempts) \subseteq login_attempts'
        /\ UNCHANGED <<failures, clock, serial, overlapped, number>>
        /\ pc[r] = "check" /\ Goto(r, "checkMemory")
    BY <1>0, <1>3 DEF CheckFails, observers
  <2>2. \A s \in Slots : /\ pc'[s] # "idle" => pc[s] # "idle"
                         /\ pc'[s] \in Asking => pc[s] \in Asking /\ number'[s] = number[s]
    BY <1>0, <2>1 DEF Goto, Asking, TypeOK, CallsOK
  <2> QED
    BY <1>0, <2>1, <2>2, RecordsStay
<1>4. ASSUME NEW r \in Slots, Authenticate(r) \/ AuthenticateFails(r) \/ LogFails(r) \/ LogFailedLogin(r)
      PROVE  RecordsInv'
  <2>1. /\ Recent(zset) \subseteq zset' /\ Recent(login_attempts) \subseteq login_attempts'
        /\ UNCHANGED <<failures, clock, serial, overlapped>>
    BY <1>0, <1>4 DEF Authenticate, AuthenticateFails, LogFails, LogFailedLogin, stores, observers
  <2>2. \/ Leave(r)
        \/ pc[r] = "password" /\ Goto(r, "recordPassword") /\ UNCHANGED number
        \/ pc[r] = "code" /\ Goto(r, "recordCode") /\ UNCHANGED number
    BY <1>4 DEF Authenticate, AuthenticateFails, LogFails, LogFailedLogin
  <2>3. \A s \in Slots : /\ pc'[s] # "idle" => pc[s] # "idle"
                         /\ pc'[s] \in Asking => pc[s] \in Asking /\ number'[s] = number[s]
    BY <1>0, <2>2 DEF Leave, Goto, Asking, TypeOK, CallsOK
  <2> QED
    BY <1>0, <2>1, <2>3, RecordsStay
<1>5. ASSUME NEW r \in Slots, Record(r) \/ RecordFails(r) PROVE RecordsInv'
  <2>1. /\ zset \subseteq zset' /\ login_attempts \subseteq login_attempts'
        /\ UNCHANGED <<number, clock, serial, overlapped>> /\ Goto(r, "log")
    BY <1>5 DEF Record, RecordFails, RecordInMemory
  <2>2. CASE pc[r] = "recordPassword"
    <3>1. PICK via \in {"redis", "memory"} :
            /\ failures' = failures \cup {[at |-> clock, n |-> number[r], via |-> via]}
            /\ [at |-> clock, n |-> number[r]] \in (IF via = "redis" THEN zset' ELSE login_attempts')
      BY <1>5, <2>2 DEF Record, RecordFails, RecordInMemory, Failed
    <3> QED
      BY <1>0, <2>1, <2>2, <3>1, RecordsOne
  <2>3. CASE pc[r] = "recordCode"
    <3>1. failures' = failures
      BY <1>5, <2>3 DEF Record, RecordFails, RecordInMemory, Failed
    <3>2. \A s \in Slots : /\ pc'[s] # "idle" => pc[s] # "idle"
                           /\ pc'[s] \in Asking => pc[s] \in Asking /\ number'[s] = number[s]
      BY <1>0, <2>1, <2>3 DEF Goto, Asking, TypeOK, CallsOK
    <3> QED
      BY <1>0, <2>1, <3>1, <3>2, RecordsStay
  <2> QED
    BY <1>5, <2>2, <2>3 DEF Record, RecordFails, Recording
<1>6. ASSUME Tick PROVE RecordsInv'
  BY <1>0, <1>6, RecordsStay DEF Tick, stores, observers, calls
<1>7. ASSUME Restart PROVE RecordsInv'
  <2>1. /\ \A s \in Slots : pc'[s] = "idle"
        /\ failures' \subseteq failures /\ \A f \in failures' : f.via = "redis"
        /\ UNCHANGED <<zset, clock, serial, overlapped>>
    BY <1>7 DEF Restart
  <2> QED
    BY <1>0, <2>1, RecordsStay DEF Asking
<1>8. ASSUME UNCHANGED vars PROVE RecordsInv'
  BY <1>0, <1>8, RecordsStay DEF vars, stores, observers, calls
<1> QED
  BY <1>1, <1>2, <1>3, <1>4, <1>5, <1>6, <1>7, <1>8 DEF Next

LEMMA NextAsks == SlackInv /\ [Next]_vars => AsksRedis'
<1> SUFFICES ASSUME SlackInv, [Next]_vars PROVE AsksRedis'
  OBVIOUS
<1>0. AsksRedis /\ CallsOK
  BY DEF SlackInv, RecordsInv, TypeOK
<1>1. ASSUME NEW r \in Slots, Enter(r) PROVE AsksRedis'
  BY <1>0, <1>1 DEF Enter, stores, Goto, AsksRedis, CallsOK
<1>2. ASSUME NEW r \in Slots, \E l : Goto(r, l) /\ l # "check", redis_client' = redis_client
      PROVE  AsksRedis'
  BY <1>0, <1>2 DEF Goto, AsksRedis, CallsOK
<1>3. ASSUME NEW r \in Slots,
             \/ CheckRedis(r) \/ CheckFails(r) \/ CheckMemory(r) \/ Authenticate(r)
             \/ AuthenticateFails(r) \/ Record(r) \/ RecordFails(r) \/ LogFailedLogin(r) \/ LogFails(r)
      PROVE  AsksRedis'
  <2>1. redis_client' = redis_client
    BY <1>3 DEF CheckRedis, CheckFails, CheckMemory, Authenticate, AuthenticateFails, Record,
       RecordFails, LogFailedLogin, LogFails, stores
  <2>2. \E l : Goto(r, l) /\ l # "check"
    <3>1. \/ Goto(r, "idle") \/ Goto(r, "password") \/ Goto(r, "checkMemory") \/ Goto(r, "log")
          \/ Goto(r, "recordPassword") \/ Goto(r, "recordCode")
      BY <1>3 DEF CheckRedis, CheckFails, CheckMemory, Decide, Authenticate, AuthenticateFails,
         Record, RecordFails, RecordInMemory, LogFailedLogin, LogFails, Leave
    <3> QED
      BY <3>1
  <2> QED
    BY <1>2, <2>1, <2>2
<1>4. ASSUME Restart PROVE AsksRedis'
  BY <1>4 DEF Restart, AsksRedis
<1>5. ASSUME Tick \/ UNCHANGED vars PROVE AsksRedis'
  BY <1>0, <1>5 DEF Tick, vars, stores, calls, AsksRedis
<1> QED
  BY <1>1, <1>3, <1>4, <1>5 DEF Next

LEMMA CountsType ==
  ASSUME RecordsInv
  PROVE  /\ Cardinality(ByRedis) \in Nat /\ Cardinality(InMemory) \in Nat
         /\ Cardinality(Trying) \in Nat /\ Cardinality(Unanswered) \in Nat
         /\ Slack \in Int /\ faults \in Nat /\ Allowed \in Int
<1>1. Slack \in Int
  BY SlotsAssumption, FS_CardinalityType DEF Slack
<1>2. faults \in Nat
  BY DEF RecordsInv, TypeOK, StoresOK
<1> QED
  BY <1>1, <1>2, AllAreFinite, FS_CardinalityType, LimitAssumption DEF Allowed

(* The slack and the faults only grow. *)
LEMMA SlackGrows ==
  ASSUME RecordsInv, RecordsInv',
         overlapped' = overlapped \/ (overlapped' /\ \E r \in Slots : TRUE)
  PROVE  Slack \in Int /\ Slack' \in Int /\ Slack <= Slack'
<1>1. overlapped \in BOOLEAN /\ overlapped' \in BOOLEAN
  BY Zenon DEF RecordsInv, TypeOK, FlagsOK
<1>2. Cardinality(Slots) \in Nat /\ (Slots = {} \/ Cardinality(Slots) >= 1)
  BY SlotsAssumption, FS_CardinalityType, FS_EmptySet
<1> QED
  BY <1>1, <1>2 DEF Slack

LEMMA AllowedGrows ==
  ASSUME RecordsInv, RecordsInv', faults <= faults',
         Slack \in Int, Slack' \in Int, Slack <= Slack'
  PROVE  Allowed \in Int /\ Allowed' \in Int /\ Allowed <= Allowed'
<1>1. faults \in Nat /\ faults' \in Nat
  BY DEF RecordsInv, TypeOK, StoresOK
<1>2. PICK s \in Int, t \in Int, f \in Nat, g \in Nat :
        s = Slack /\ t = Slack' /\ f = faults /\ g = faults'
  BY <1>1
<1>3. s <= t /\ f <= g
  BY <1>2
<1>4. Allowed = LOGIN_RATE_LIMIT + s + f /\ Allowed' = LOGIN_RATE_LIMIT + t + g
  BY <1>2 DEF Allowed
<1> QED
  BY <1>3, <1>4, LimitAssumption

(* The bounds hold on while no call passes and none fails. *)
LEMMA FewerHold ==
  ASSUME SlackInv, RecordsInv', redis_client' = redis_client, faults <= faults',
         overlapped' = overlapped \/ (overlapped' /\ \E r \in Slots : TRUE),
         ByRedis' \subseteq ByRedis, InMemory' \subseteq InMemory, Trying' \subseteq Trying,
         redis_client => Unanswered' \subseteq Unanswered
  PROVE  WithinSlack'
<1>1. RecordsInv
  BY DEF SlackInv
<1>2. /\ Cardinality(ByRedis') \in Nat /\ Cardinality(InMemory') \in Nat /\ Cardinality(Trying') \in Nat
      /\ Cardinality(ByRedis') <= Cardinality(ByRedis)
      /\ Cardinality(InMemory') <= Cardinality(InMemory)
      /\ Cardinality(Trying') <= Cardinality(Trying)
      /\ redis_client => /\ Cardinality(Unanswered') \in Nat
                         /\ Cardinality(Unanswered') <= Cardinality(Unanswered)
  BY <1>1, AllAreFinite, SmallerSet
<1>3. Allowed' \in Int /\ Allowed <= Allowed' /\ faults' \in Nat
  <2>1. Slack \in Int /\ Slack' \in Int /\ Slack <= Slack'
    BY <1>1, SlackGrows
  <2> QED
    BY <1>1, <2>1, AllowedGrows DEF RecordsInv, TypeOK, StoresOK
<1> QED
  BY <1>1, <1>2, <1>3, CountsType DEF SlackInv, WithinSlack

(* The calls in flight besides one are within the slack. *)
LEMMA OthersAreSlack ==
  ASSUME RecordsInv, NEW r \in Slots, pc[r] # "idle",
         NEW T \in SUBSET {s \in Slots \ {r} : pc[s] # "idle"}
  PROVE  Cardinality(T) \in Nat /\ Cardinality(T) <= Slack
<1>1. IsFiniteSet(Slots) /\ Cardinality(Slots) \in Nat
  BY SlotsAssumption, FS_CardinalityType
<1>2. CASE overlapped
  BY <1>1, <1>2, OneLess DEF Slack
<1>3. CASE ~overlapped
  <2>1. T = {}
    BY <1>3 DEF RecordsInv, Alone
  <2> QED
    BY <1>3, <2>1, FS_EmptySet DEF Slack
<1> QED
  BY <1>2, <1>3

(* A call passes its check: the store it asked held less than the limit. *)
LEMMA PassHolds ==
  ASSUME SlackInv, RecordsInv', NEW r \in Slots, pc[r] \in {"check", "checkMemory"}, Goto(r, "password"),
         UNCHANGED <<failures, clock, faults, overlapped, redis_client>>,
         ~Full(Recent(IF pc[r] = "check" THEN zset ELSE login_attempts))
  PROVE  WithinSlack'
<1>0. RecordsInv /\ CallsOK
  BY DEF SlackInv, RecordsInv, TypeOK
<1>1. ByRedis' = ByRedis /\ InMemory' = InMemory /\ Slack' = Slack /\ Allowed' = Allowed
  <2>1. overlapped \in BOOLEAN /\ overlapped' = overlapped
    BY Zenon, <1>0 DEF RecordsInv, TypeOK, FlagsOK
  <2>2. Slack' = Slack
    BY <2>1 DEF Slack
  <2> QED
    BY <2>2 DEF ByRedis, InMemory, IsRecent, Allowed
<1>2. Trying' = Trying \cup {r} /\ r \notin Trying
  BY <1>0 DEF Trying, Goto, CallsOK
<1>3. IsFiniteSet(Trying) /\ IsFiniteSet(Unanswered)
  BY <1>0, AllAreFinite
<1>4. Cardinality(Trying') = Cardinality(Trying) + 1
  BY <1>2, <1>3, FS_AddElement
<1>5. CASE pc[r] = "check"
  <2>1. Unanswered' = Unanswered
    BY <1>0, <1>5 DEF Unanswered, Goto, CallsOK
  <2>2. Trying \cap Unanswered = {} /\ Trying \cup Unanswered \subseteq {s \in Slots \ {r} : pc[s] # "idle"}
    BY <1>5 DEF Trying, Unanswered
  <2>3. Cardinality(Trying \cup Unanswered) = Cardinality(Trying) + Cardinality(Unanswered)
    BY <1>0, <1>3, <2>2, FS_Union, FS_EmptySet, CountsType
  <2>4. Cardinality(Trying) + Cardinality(Unanswered) <= Slack
    BY <1>0, <1>5, <2>2, <2>3, OthersAreSlack
  <2>5. Cardinality(ByRedis) < LOGIN_RATE_LIMIT
    BY <1>0, <1>5, FailuresAreCounted, CountsType, LimitAssumption DEF Full
  <2>6. redis_client
    BY <1>5 DEF SlackInv, AsksRedis
  <2> QED
    BY <1>0, <1>1, <1>4, <2>1, <2>4, <2>5, <2>6, CountsType, LimitAssumption
    DEF SlackInv, WithinSlack, Allowed
<1>6. CASE pc[r] = "checkMemory"
  <2>1. Unanswered' = Unanswered \ {r} /\ r \in Unanswered
    BY <1>0, <1>6 DEF Unanswered, Goto, CallsOK
  <2>2. Cardinality(Unanswered') = Cardinality(Unanswered) - 1
    BY <1>3, <2>1, FS_RemoveElement
  <2>3. Cardinality(Trying) <= Slack
    <3>1. Trying \in SUBSET {s \in Slots \ {r} : pc[s] # "idle"}
      BY <1>6 DEF Trying
    <3> QED
      BY <1>0, <1>6, <3>1, OthersAreSlack
  <2>4. Cardinality(InMemory) < LOGIN_RATE_LIMIT
    BY <1>0, <1>6, FailuresAreCounted, CountsType, LimitAssumption DEF Full
  <2> QED
    BY <1>0, <1>1, <1>4, <2>2, <2>3, <2>4, CountsType, LimitAssumption
    DEF SlackInv, WithinSlack, Allowed
<1> QED
  BY <1>5, <1>6

(* Redis does not answer a call's check: one call more, and one fault more. *)
LEMMA UnansweredHolds ==
  ASSUME SlackInv, NEW r \in Slots, CheckFails(r)
  PROVE  WithinSlack'
<1>0. RecordsInv /\ CallsOK
  BY DEF SlackInv, RecordsInv, TypeOK
<1>1. /\ ByRedis' = ByRedis /\ InMemory' = InMemory /\ Trying' = Trying
      /\ Unanswered' \subseteq Unanswered \cup {r}
  BY <1>0 DEF CheckFails, observers, Goto, CallsOK, ByRedis, InMemory, IsRecent, Trying, Unanswered
<1>2. overlapped \in BOOLEAN /\ overlapped' = overlapped
  BY Zenon, <1>0 DEF CheckFails, observers, RecordsInv, TypeOK, FlagsOK
<1>3. Slack' = Slack
  BY <1>2 DEF Slack
<1>4. faults' = faults + 1 /\ Allowed' = Allowed + 1
  BY <1>0, <1>3, CountsType, LimitAssumption DEF CheckFails, Fault, Allowed
<1>5. Cardinality(Unanswered') <= Cardinality(Unanswered) + 1 /\ Cardinality(Unanswered') \in Nat
  BY <1>0, <1>1, AllAreFinite, OneMore
<1>6. redis_client /\ redis_client' = redis_client
  BY DEF CheckFails, SlackInv, AsksRedis
<1> QED
  BY <1>0, <1>1, <1>4, <1>5, <1>6, CountsType DEF SlackInv, WithinSlack

(* A call that failed moves from those that passed to the failures; when Redis
   did not answer, to the memory's, with a fault. *)
LEMMA FailureHolds ==
  ASSUME SlackInv, NEW r \in Slots, pc[r] = "recordPassword", Record(r) \/ RecordFails(r)
  PROVE  WithinSlack'
<1>0. RecordsInv /\ CallsOK
  BY DEF SlackInv, RecordsInv, TypeOK
<1> DEFINE f(via) == [at |-> clock, n |-> number[r], via |-> via]
<1>1. overlapped \in BOOLEAN /\ overlapped' = overlapped
  BY Zenon, <1>0 DEF Record, RecordFails, RecordsInv, TypeOK, FlagsOK
<1>2. Slack' = Slack
  BY <1>1 DEF Slack
<1>3. Trying' \subseteq Trying \ {r} /\ r \in Trying /\ Unanswered' \subseteq Unanswered
  BY <1>0 DEF Record, RecordFails, RecordInMemory, Goto, Trying, Unanswered, CallsOK
<1>4. /\ Cardinality(Trying') <= Cardinality(Trying) - 1 /\ Cardinality(Trying') \in Nat
      /\ Cardinality(Unanswered') <= Cardinality(Unanswered) /\ Cardinality(Unanswered') \in Nat
  BY <1>0, <1>3, AllAreFinite, OneLess, SmallerSet
<1>5. CASE Record(r) /\ redis_client
  <2>1. /\ ByRedis' \subseteq ByRedis \cup {f("redis")} /\ InMemory' = InMemory
        /\ faults' = faults /\ redis_client' = redis_client
    BY <1>5 DEF Record, Failed, ByRedis, InMemory, IsRecent
  <2>2. Cardinality(ByRedis') <= Cardinality(ByRedis) + 1 /\ Cardinality(ByRedis') \in Nat
    BY <1>0, <2>1, AllAreFinite, OneMore
  <2>3. Allowed' = Allowed
    BY <1>2, <2>1 DEF Allowed
  <2> QED
    BY <1>0, <1>4, <1>5, <2>1, <2>2, <2>3, CountsType DEF SlackInv, WithinSlack
<1>6. CASE Record(r) /\ ~redis_client
  <2>1. /\ InMemory' \subseteq InMemory \cup {f("memory")} /\ ByRedis' = ByRedis
        /\ faults' = faults /\ redis_client' = redis_client
    BY <1>6 DEF Record, RecordInMemory, Failed, ByRedis, InMemory, IsRecent
  <2>2. Cardinality(InMemory') <= Cardinality(InMemory) + 1 /\ Cardinality(InMemory') \in Nat
    BY <1>0, <2>1, AllAreFinite, OneMore
  <2>3. Allowed' = Allowed
    BY <1>2, <2>1 DEF Allowed
  <2> QED
    BY <1>0, <1>4, <1>6, <2>1, <2>2, <2>3, CountsType DEF SlackInv, WithinSlack
<1>7. CASE RecordFails(r)
  <2>1. /\ InMemory' \subseteq InMemory \cup {f("memory")} /\ ByRedis' = ByRedis
        /\ faults' = faults + 1 /\ redis_client /\ redis_client' = redis_client
    BY <1>7 DEF RecordFails, RecordInMemory, Failed, ByRedis, InMemory, IsRecent, Fault
  <2>2. Cardinality(InMemory') <= Cardinality(InMemory) + 1 /\ Cardinality(InMemory') \in Nat
    BY <1>0, <2>1, AllAreFinite, OneMore
  <2>3. Allowed' = Allowed + 1
    BY <1>0, <1>2, <2>1, CountsType, LimitAssumption DEF Allowed
  <2> QED
    BY <1>0, <1>4, <1>7, <2>1, <2>2, <2>3, CountsType DEF SlackInv, WithinSlack
<1> QED
  BY <1>5, <1>6, <1>7

LEMMA NextSlack == SlackInv /\ [Next]_vars => SlackInv'
<1> SUFFICES ASSUME SlackInv, [Next]_vars PROVE SlackInv'
  OBVIOUS
<1>0. RecordsInv' /\ AsksRedis' /\ CallsOK /\ faults \in Nat
  BY NextRecords, NextAsks DEF SlackInv, RecordsInv, TypeOK, StoresOK
<1>1. ASSUME NEW r \in Slots, Enter(r) PROVE WithinSlack'
  <2>1. /\ ByRedis' = ByRedis /\ InMemory' = InMemory
        /\ faults' = faults /\ redis_client' = redis_client
    BY <1>1 DEF Enter, stores, ByRedis, InMemory, IsRecent
  <2>2. Trying' \subseteq Trying /\ (redis_client => Unanswered' \subseteq Unanswered)
    BY <1>0, <1>1 DEF Enter, Goto, CallsOK, Trying, Unanswered
  <2>3. overlapped' = overlapped \/ (overlapped' /\ \E s \in Slots : TRUE)
    <3>1. overlapped \in BOOLEAN /\ overlapped' = (overlapped \/ \E s \in Slots : pc[s] # "idle")
      BY <1>1, Zenon DEF Enter, SlackInv, RecordsInv, TypeOK, FlagsOK
    <3> QED
      BY <3>1
  <2> QED
    BY <1>0, <2>1, <2>2, <2>3, FewerHold
<1>2. ASSUME NEW r \in Slots, CheckRedis(r) \/ CheckMemory(r) PROVE WithinSlack'
  <2>1. /\ UNCHANGED <<failures, clock, faults, overlapped, redis_client>>
        /\ pc[r] \in {"check", "checkMemory"}
    BY <1>2 DEF CheckRedis, CheckMemory
  <2>2. \/ Leave(r)
        \/ Goto(r, "password") /\ ~Full(Recent(IF pc[r] = "check" THEN zset ELSE login_attempts))
    BY <1>2 DEF CheckRedis, CheckMemory, Decide
  <2>3. CASE Leave(r)
    <3>1. /\ ByRedis' = ByRedis /\ InMemory' = InMemory
          /\ Trying' \subseteq Trying /\ Unanswered' \subseteq Unanswered
      BY <1>0, <2>1, <2>3 DEF ByRedis, InMemory, IsRecent, Leave, Goto, Trying, Unanswered, CallsOK
    <3> QED
      BY <1>0, <2>1, <3>1, FewerHold
  <2>4. CASE Goto(r, "password") /\ ~Full(Recent(IF pc[r] = "check" THEN zset ELSE login_attempts))
    BY <1>0, <2>1, <2>4, PassHolds
  <2> QED
    BY <2>2, <2>3, <2>4
<1>3. ASSUME NEW r \in Slots, CheckFails(r) PROVE WithinSlack'
  BY <1>3, UnansweredHolds
<1>4. ASSUME NEW r \in Slots, Authenticate(r) \/ AuthenticateFails(r) \/ LogFails(r) \/ LogFailedLogin(r)
      PROVE  WithinSlack'
  <2>1. /\ ByRedis' = ByRedis /\ InMemory' = InMemory
        /\ faults <= faults' /\ redis_client' = redis_client /\ overlapped' = overlapped
    BY <1>0, <1>4 DEF Authenticate, AuthenticateFails, LogFails, LogFailedLogin, stores, observers, Fault,
       ByRedis, InMemory, IsRecent
  <2>2. \/ Goto(r, "idle") \/ Goto(r, "recordCode")
        \/ Goto(r, "recordPassword") /\ pc[r] = "password"
    BY <1>4 DEF Authenticate, AuthenticateFails, LogFails, LogFailedLogin, Leave
  <2>3. Trying' \subseteq Trying /\ Unanswered' \subseteq Unanswered
    BY <1>0, <2>2 DEF Goto, CallsOK, Trying, Unanswered
  <2> QED
    BY <1>0, <2>1, <2>3, FewerHold
<1>5. ASSUME NEW r \in Slots, Record(r) \/ RecordFails(r) PROVE WithinSlack'
  <2>1. CASE pc[r] = "recordPassword"
    BY <1>5, <2>1, FailureHolds
  <2>2. CASE pc[r] # "recordPassword"
    <3>1. /\ ByRedis' = ByRedis /\ InMemory' = InMemory
          /\ faults <= faults' /\ redis_client' = redis_client /\ overlapped' = overlapped
      BY <1>0, <1>5, <2>2 DEF Record, RecordFails, RecordInMemory, Failed, Fault,
         ByRedis, InMemory, IsRecent
    <3>2. Trying' \subseteq Trying /\ Unanswered' \subseteq Unanswered
      BY <1>0, <1>5 DEF Record, RecordFails, RecordInMemory, Goto, CallsOK, Trying, Unanswered
    <3> QED
      BY <1>0, <3>1, <3>2, FewerHold
  <2> QED
    BY <2>1, <2>2
<1>6. ASSUME Tick PROVE WithinSlack'
  <2>1. \A f \in failures : IsRecent(f)' => IsRecent(f)
    BY <1>6, WindowAssumption DEF Tick, IsRecent, SlackInv, RecordsInv, Failures, TypeOK, StoresOK
  <2>2. /\ ByRedis' \subseteq ByRedis /\ InMemory' \subseteq InMemory
        /\ Trying' = Trying /\ Unanswered' = Unanswered
        /\ faults' = faults /\ redis_client' = redis_client /\ overlapped' = overlapped
    BY <1>6, <2>1 DEF Tick, stores, observers, calls, ByRedis, InMemory, Trying, Unanswered
  <2> QED
    BY <1>0, <2>2, FewerHold
<1>7. ASSUME Restart PROVE WithinSlack'
  <2>1. /\ ByRedis' \subseteq ByRedis /\ InMemory' = {} /\ Trying' = {} /\ Unanswered' = {}
        /\ faults' = faults /\ overlapped' = overlapped
    BY <1>7 DEF Restart, ByRedis, InMemory, IsRecent, Trying, Unanswered
  <2>2. RecordsInv
    BY DEF SlackInv
  <2>3. Cardinality(ByRedis') \in Nat /\ Cardinality(ByRedis') <= Cardinality(ByRedis)
    BY <2>1, <2>2, AllAreFinite, SmallerSet
  <2>4. overlapped \in BOOLEAN /\ overlapped' \in BOOLEAN
    BY Zenon, <1>0, <2>2 DEF RecordsInv, TypeOK, FlagsOK
  <2>5. Allowed' = Allowed
    BY <2>1, <2>4 DEF Allowed, Slack
  <2>6. Cardinality(ByRedis') <= Allowed'
    BY <2>2, <2>3, <2>5, CountsType DEF SlackInv, WithinSlack
  <2>7. Cardinality({}) = 0
    BY FS_EmptySet
  <2> QED
    BY <1>0, <2>1, <2>2, <2>3, <2>5, <2>6, <2>7, CountsType DEF WithinSlack
<1>8. ASSUME UNCHANGED vars PROVE WithinSlack'
  <2>1. /\ ByRedis' = ByRedis /\ InMemory' = InMemory /\ Trying' = Trying /\ Unanswered' = Unanswered
        /\ faults' = faults /\ redis_client' = redis_client /\ overlapped' = overlapped
    BY <1>8 DEF vars, stores, observers, calls, ByRedis, InMemory, IsRecent, Trying, Unanswered
  <2> QED
    BY <1>0, <2>1, FewerHold
<1> QED
  BY <1>0, <1>1, <1>2, <1>3, <1>4, <1>5, <1>6, <1>7, <1>8 DEF Next, SlackInv

LEMMA InitSlack == Init => SlackInv
<1> SUFFICES ASSUME Init PROVE SlackInv
  OBVIOUS
<1>1. failures = {} /\ overlapped = FALSE /\ faults = 0 /\ \A r \in Slots : pc[r] = "idle"
  BY DEF Init
<1>2. ByRedis = {} /\ InMemory = {} /\ Trying = {} /\ Unanswered = {}
  BY <1>1 DEF ByRedis, InMemory, Trying, Unanswered
<1>3. Slack = 0 /\ Allowed = LOGIN_RATE_LIMIT /\ Cardinality({}) = 0
  BY <1>1, LimitAssumption, FS_EmptySet DEF Slack, Allowed
<1>4. WithinSlack
  BY <1>1, <1>2, <1>3, LimitAssumption DEF WithinSlack
<1>5. RecordsInv
  BY <1>1, InitType DEF RecordsInv, FailedOnce, NotYetFailed, FailuresAreIn, Alone
<1> QED
  BY <1>1, <1>4, <1>5 DEF SlackInv, AsksRedis

(* LoginSlack: however calls overlap, Redis fails between a check and its
   record, and the gateway restarts, a window holds at most the limit of failed
   passwords, one more for each other call in flight and one for each fault. *)
THEOREM LoginLimitHolds == Spec => []LoginSlack
<1>1. SlackInv => LoginSlack
  <2> SUFFICES ASSUME SlackInv PROVE LoginSlack
    OBVIOUS
  <2>0. RecordsInv /\ WithinSlack
    BY DEF SlackInv
  <2>1. CASE redis_client
    <3>1. WindowFailures \subseteq ByRedis \cup InMemory
      BY <2>0 DEF WindowFailures, ByRedis, InMemory, IsRecent, RecordsInv, Failures
    <3>2. ByRedis \cap InMemory = {}
      BY DEF ByRedis, InMemory
    <3>3. /\ IsFiniteSet(ByRedis \cup InMemory)
          /\ Cardinality(ByRedis \cup InMemory) = Cardinality(ByRedis) + Cardinality(InMemory)
      <4>1. IsFiniteSet(ByRedis) /\ IsFiniteSet(InMemory)
        BY <2>0, AllAreFinite
      <4>2. Cardinality(ByRedis \cap InMemory) = 0
        BY <3>2, FS_EmptySet
      <4>3. Cardinality(ByRedis) \in Nat /\ Cardinality(InMemory) \in Nat
        BY <2>0, CountsType
      <4>4. /\ IsFiniteSet(ByRedis \cup InMemory)
            /\ Cardinality(ByRedis \cup InMemory)
                 = Cardinality(ByRedis) + Cardinality(InMemory) - Cardinality(ByRedis \cap InMemory)
        BY <4>1, FS_Union
      <4> QED
        BY <4>2, <4>3, <4>4
    <3>4. Cardinality(WindowFailures) <= Cardinality(ByRedis) + Cardinality(InMemory)
          /\ Cardinality(WindowFailures) \in Nat
      BY <3>1, <3>3, SmallerSet
    <3> QED
      BY <2>0, <2>1, <3>4, CountsType DEF WithinSlack, Allowed, LoginSlack
  <2>2. CASE ~redis_client
    <3>1. WindowFailures = InMemory
      BY <2>0, <2>2 DEF WindowFailures, InMemory, IsRecent, RecordsInv, Failures
    <3> QED
      BY <2>0, <2>2, <3>1, CountsType DEF WithinSlack, Allowed, LoginSlack
  <2> QED
    BY <2>1, <2>2
<1> QED
  BY <1>1, InitSlack, NextSlack, PTL DEF Spec

================================================================================
