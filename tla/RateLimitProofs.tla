---------------------------- MODULE RateLimitProofs ----------------------------
(***************************************************************************)
(* Proofs about RateLimit, for any number of requests being checked at     *)
(* once, any keys, departments, policies and bounds.                       *)
(***************************************************************************)
EXTENDS RateLimit, FiniteSetTheorems, TLAPS

Store(via) == IF via = "redis" THEN zset ELSE memory

Admissions == [n : 1..serial, key : Keys, at : 0..clock, via : {"redis", "memory"}]

(* An admission whose window has not passed has its entry, stamped with the
   same time, in both buckets of the store that admitted it. *)
AdmittedIsIn(via) ==
    \A a \in admitted : a.via = via /\ a.at > clock - WINDOW_SECONDS =>
        \A b \in BucketsOf(a.key) : \E e \in Store(via)[b] : e.n = a.n /\ e.at = a.at

IsCounted(store, n) == \E b \in Buckets : \E e \in store[b] : e.n = n

(* A request that is rejected, or not yet decided, has no entry. *)
Uncounted(n) == ~IsCounted(memory, n) /\ (torn \/ ~IsCounted(zset, n))

RejectedIsOut == \A n \in rejected : Uncounted(n)

UndecidedIsOut ==
    \A r \in Slots : pc[r] # "idle" => number[r] \notin rejected /\ Uncounted(number[r])

(* The inductive invariant.  That an undecided request is not counted yet is
   what makes rejecting it leave no trace; that entries keep the time of
   their admission is what makes pruning spare them. *)
CountInv ==
    /\ TypeOK
    /\ admitted \subseteq Admissions
    /\ AdmittedIsIn("redis") /\ AdmittedIsIn("memory")
    /\ RejectedIsOut
    /\ UndecidedIsOut

-------------------------------------------------------------------------------
(* Facts about windows. *)

LEMMA DeptOfKey == \A k \in Keys : BucketsOf(k) \subseteq Buckets /\ k \in BucketsOf(k)
  BY DeptAssumption DEF BucketsOf, Buckets

(* Pruning returns windows, and each holds a part of what it held. *)
LEMMA PruneZsetType ==
  ASSUME NEW k, NEW t, NEW S, zset \in [Buckets -> SUBSET S]
  PROVE  /\ PruneZset(k, t) \in [Buckets -> SUBSET S]
         /\ \A b \in Buckets : PruneZset(k, t)[b] \subseteq zset[b]
  BY DEF PruneZset, PrunedSet

LEMMA PruneMemoryType ==
  ASSUME NEW k, NEW t, NEW S, memory \in [Buckets -> SUBSET S]
  PROVE  /\ PruneMemory(k, t) \in [Buckets -> SUBSET S]
         /\ \A b \in Buckets : PruneMemory(k, t)[b] \subseteq memory[b]
  BY DEF PruneMemory, PrunedDeque

(* Recording adds an entry to some windows. *)
LEMMA RecordType ==
  ASSUME NEW S, NEW store \in [Buckets -> SUBSET S], NEW B, NEW e \in S
  PROVE  /\ Record(store, B, e) \in [Buckets -> SUBSET S]
         /\ \A b \in Buckets : /\ store[b] \subseteq Record(store, B, e)[b]
                               /\ Record(store, B, e)[b] \subseteq store[b] \cup {e}
                               /\ b \in B => e \in Record(store, B, e)[b]
  BY DEF Record

(* The policy an idle slot holds is one. *)
LEMMA AnyPolicyIsOne == AnyPolicy \in Policies
  BY PolicyAssumption DEF AnyPolicy

-------------------------------------------------------------------------------
(* The type invariant. *)

LEMMA InitType == Init => TypeOK
<1> SUFFICES ASSUME Init PROVE TypeOK
  OBVIOUS
<1>1. StoresOK /\ SlotsOK
  BY AnyPolicyIsOne, BoundsAssumption DEF Init, StoresOK, SlotsOK
<1>2. FlagsOK
  BY Zenon DEF Init, FlagsOK
<1> QED
  BY <1>1, <1>2 DEF TypeOK

(* Each step writes Booleans into the flags. *)
LEMMA NextFlags == FlagsOK /\ [Next]_vars => FlagsOK'
<1> SUFFICES ASSUME FlagsOK, [Next]_vars PROVE FlagsOK'
  OBVIOUS
<1>1. \/ UNCHANGED <<redis_client, overlapped, torn>>
      \/ UNCHANGED <<redis_client, torn>> /\ overlapped' \in BOOLEAN
      \/ UNCHANGED <<redis_client, overlapped>> /\ torn' \in BOOLEAN
      \/ UNCHANGED <<overlapped, torn>> /\ redis_client' \in BOOLEAN
  BY Zenon DEF Next, vars, observers, Enter, ReadLimits, Phase1, Phase2, RedisFails, PolicyFails,
     CheckMemory, UpsertPolicy, Tick, Restart
<1> QED
  BY Zenon, <1>1 DEF FlagsOK

(* Time goes on and requests are numbered on: what was an entry remains one. *)
LEMMA StampsGrow ==
  ASSUME StoresOK, clock' \in Nat, serial' \in Nat, clock <= clock', serial <= serial'
  PROVE  Stamps \subseteq Stamps'
  BY DEF StoresOK, Stamps

LEMMA LeaveKeepsSlots ==
  ASSUME StoresOK, SlotsOK, NEW r \in Slots, Leave(r), UNCHANGED <<clock, serial>>
  PROVE  SlotsOK' /\ pc'[r] = "idle"
  BY AnyPolicyIsOne DEF StoresOK, SlotsOK, Leave, Goto

LEMMA NextType == TypeOK /\ [Next]_vars => TypeOK'
<1> SUFFICES ASSUME StoresOK, SlotsOK, [Next]_vars PROVE StoresOK' /\ SlotsOK'
  BY NextFlags DEF TypeOK
<1>1. ASSUME NEW r \in Slots, NEW k \in Keys, Enter(r, k) PROVE StoresOK' /\ SlotsOK'
  <2>1. Stamps \subseteq Stamps' /\ serial' \in 0..MaxRequests
    BY <1>1, StampsGrow, BoundsAssumption DEF Enter, StoresOK
  <2>2. StoresOK'
    BY <1>1, <2>1 DEF Enter, StoresOK
  <2>3. SlotsOK'
    BY <1>1 DEF Enter, StoresOK, SlotsOK, Goto
  <2> QED
    BY <2>2, <2>3
<1>2. ASSUME NEW r \in Slots, ReadLimits(r) PROVE StoresOK' /\ SlotsOK'
  BY <1>2 DEF ReadLimits, StoresOK, SlotsOK, Goto, observers, Stamps
<1>3. ASSUME NEW r \in Slots, Phase1(r) PROVE StoresOK' /\ SlotsOK'
  <2>1. zset' \in [Buckets -> SUBSET Stamps] /\ Stamps' = Stamps
    BY <1>3, PruneZsetType DEF Phase1, StoresOK, Stamps
  <2>2. number[r] \in 1..serial
    BY <1>3 DEF Phase1, StoresOK, SlotsOK
  <2>3. StoresOK'
    BY <1>3, <2>1, <2>2 DEF Phase1, StoresOK
  <2>4. CASE Exceeded(zset', key[r], limits[r])
    BY <1>3, <2>3, <2>4, LeaveKeepsSlots DEF Phase1
  <2>5. CASE ~Exceeded(zset', key[r], limits[r])
    BY <1>3, <2>3, <2>5 DEF Phase1, SlotsOK, Goto
  <2> QED
    BY <2>4, <2>5
<1>4. ASSUME NEW r \in Slots, Phase2(r) PROVE StoresOK' /\ SlotsOK'
  <2>1. Stamped(r, now[r]) \in Stamps /\ Stamps' = Stamps
    BY <1>4 DEF Phase2, StoresOK, SlotsOK, Stamped, Stamps
  <2>2. zset' \in [Buckets -> SUBSET Stamps]
    BY <1>4, <2>1, RecordType DEF Phase2, StoresOK
  <2> QED
    BY <1>4, <2>1, <2>2, LeaveKeepsSlots DEF Phase2, StoresOK
<1>5. ASSUME NEW r \in Slots, RedisFails(r) PROVE StoresOK' /\ SlotsOK'
  <2>1. Stamped(r, now[r]) \in Stamps /\ Stamps' = Stamps
    BY <1>5 DEF RedisFails, StoresOK, SlotsOK, Stamped, Stamps
  <2>2. zset' \in [Buckets -> SUBSET Stamps]
    BY <1>5, <2>1, RecordType DEF RedisFails, StoresOK, PrunedSet
  <2>3. StoresOK'
    BY <1>5, <2>1, <2>2, BoundsAssumption DEF RedisFails, StoresOK
  <2>4. SlotsOK'
    BY <1>5 DEF RedisFails, SlotsOK, Goto
  <2> QED
    BY <2>3, <2>4
<1>6. ASSUME NEW r \in Slots, PolicyFails(r) PROVE StoresOK' /\ SlotsOK'
  <2>1. StoresOK'
    BY <1>6, BoundsAssumption DEF PolicyFails, StoresOK, observers, Stamps
  <2> QED
    BY <1>6, <2>1, LeaveKeepsSlots DEF PolicyFails
<1>7. ASSUME NEW r \in Slots, CheckMemory(r) PROVE StoresOK' /\ SlotsOK'
  <2> DEFINE pruned == PruneMemory(key[r], clock)
  <2>1. Stamped(r, clock) \in Stamps /\ Stamps' = Stamps /\ number[r] \in 1..serial
    BY <1>7 DEF CheckMemory, StoresOK, SlotsOK, Stamped, Stamps
  <2>2. pruned \in [Buckets -> SUBSET Stamps]
    BY PruneMemoryType DEF StoresOK
  <2>3. key[r] \in Buckets
    BY <1>7 DEF CheckMemory, SlotsOK, Buckets
  <2>4. Record(pruned, BucketsOf(key[r]), Stamped(r, clock)) \in [Buckets -> SUBSET Stamps]
    BY <2>1, <2>2, RecordType
  <2>5. memory' \in [Buckets -> SUBSET Stamps] /\ rejected' \subseteq 1..serial
    <3>1. CASE Exceeded(pruned, key[r], limits[r])
      BY <1>7, <2>1, <2>2, <2>3, <3>1 DEF CheckMemory, StoresOK
    <3>2. CASE ~Exceeded(pruned, key[r], limits[r])
      BY <1>7, <2>4, <3>2 DEF CheckMemory, StoresOK
    <3> QED
      BY <3>1, <3>2
  <2> QED
    BY <1>7, <2>1, <2>5, LeaveKeepsSlots DEF CheckMemory, StoresOK
<1>8. CASE UpsertPolicy
  BY <1>8 DEF UpsertPolicy, StoresOK, SlotsOK, locals, observers, Stamps
<1>9. CASE Tick
  <2>1. Stamps \subseteq Stamps' /\ clock' \in 0..MaxClock /\ clock <= clock'
    BY <1>9, StampsGrow, BoundsAssumption DEF Tick, StoresOK
  <2>2. StoresOK'
    BY <1>9, <2>1 DEF Tick, StoresOK, locals, observers
  <2>3. SlotsOK'
    BY <1>9, <2>1 DEF Tick, StoresOK, SlotsOK, locals, observers
  <2> QED
    BY <2>2, <2>3
<1>10. CASE Restart
  <2>1. StoresOK'
    BY <1>10, BoundsAssumption DEF Restart, StoresOK, Stamps
  <2>2. SlotsOK'
    BY <1>10, AnyPolicyIsOne DEF Restart, StoresOK, SlotsOK
  <2> QED
    BY <2>1, <2>2
<1>11. CASE UNCHANGED vars
  BY <1>11 DEF vars, StoresOK, SlotsOK, locals, observers, Stamps
<1> QED
  BY <1>1, <1>2, <1>3, <1>4, <1>5, <1>6, <1>7, <1>8, <1>9, <1>10, <1>11 DEF Next

(* TypeOK: no entry of either store is stamped in the future or is of a request
   that has not come, and no two slots check the same one. *)
THEOREM LimiterTypeCorrect == Spec => []TypeOK
  BY InitType, NextType, PTL DEF Spec

-------------------------------------------------------------------------------
(* What is counted. *)

(* The entries of undecided and rejected requests do not multiply while the
   stores only lose entries and those requests are no more than they were. *)
LEMMA PrunedStaysOut ==
  ASSUME RejectedIsOut, UndecidedIsOut,
         \A b \in Buckets : zset'[b] \subseteq zset[b] /\ memory'[b] \subseteq memory[b],
         torn => torn',
         \A r \in Slots : pc'[r] # "idle" => pc[r] # "idle" /\ number'[r] = number[r],
         rejected' = rejected
  PROVE  RejectedIsOut' /\ UndecidedIsOut'
<1>1. \A n : Uncounted(n) => Uncounted(n)'
  BY DEF Uncounted, IsCounted
<1> QED
  BY <1>1 DEF RejectedIsOut, UndecidedIsOut

(* The same when an undecided request is rejected. *)
LEMMA RejectionStaysOut ==
  ASSUME TypeOK, RejectedIsOut, UndecidedIsOut, NEW r \in Slots, pc[r] # "idle",
         \A b \in Buckets : zset'[b] \subseteq zset[b] /\ memory'[b] \subseteq memory[b],
         torn' = torn, Leave(r), rejected' = rejected \cup {number[r]}
  PROVE  RejectedIsOut' /\ UndecidedIsOut'
<1>1. \A n : Uncounted(n) => Uncounted(n)'
  BY DEF Uncounted, IsCounted
<1>2. \A s \in Slots : pc'[s] # "idle" =>
        s # r /\ pc[s] # "idle" /\ number'[s] = number[s] /\ number[s] # number[r]
  BY DEF TypeOK, SlotsOK, Leave, Goto
<1> QED
  BY <1>1, <1>2 DEF RejectedIsOut, UndecidedIsOut

(* The same when an undecided request is recorded and let through. *)
LEMMA AdmissionStaysOut ==
  ASSUME TypeOK, RejectedIsOut, UndecidedIsOut, NEW r \in Slots, pc[r] # "idle",
         NEW e, e.n = number[r],
         \A b \in Buckets : /\ zset'[b] \subseteq zset[b] \cup {e}
                            /\ memory'[b] \subseteq memory[b] \cup {e},
         torn' = torn, Leave(r), rejected' = rejected
  PROVE  RejectedIsOut' /\ UndecidedIsOut'
<1>1. \A n : n # number[r] /\ Uncounted(n) => Uncounted(n)'
  BY DEF Uncounted, IsCounted
<1>2. \A s \in Slots : pc'[s] # "idle" =>
        s # r /\ pc[s] # "idle" /\ number'[s] = number[s] /\ number[s] # number[r]
  BY DEF TypeOK, SlotsOK, Leave, Goto
<1>3. number[r] \notin rejected
  BY DEF UndecidedIsOut
<1> QED
  BY <1>1, <1>2, <1>3 DEF RejectedIsOut, UndecidedIsOut

(* What no admission counts on goes: the entries an older cutoff spares. *)
LEMMA PrunedKeepsAdmitted ==
  ASSUME TypeOK, admitted \subseteq Admissions, NEW t \in 0..clock, NEW k,
         AdmittedIsIn("redis"), AdmittedIsIn("memory"),
         NEW a \in admitted, a.at > clock - WINDOW_SECONDS, NEW b \in BucketsOf(a.key)
  PROVE  /\ a.via = "redis" => \E e \in PruneZset(k, t)[b] : e.n = a.n /\ e.at = a.at
         /\ a.via = "memory" => \E e \in PruneMemory(k, t)[b] : e.n = a.n /\ e.at = a.at
<1>1. clock \in Nat /\ a.at \in Nat /\ a.at > t - WINDOW_SECONDS /\ b \in Buckets
  BY WindowAssumption, DeptOfKey DEF TypeOK, StoresOK, Admissions
<1>2. ASSUME a.via = "redis" PROVE \E e \in PruneZset(k, t)[b] : e.n = a.n /\ e.at = a.at
  <2>1. PICK e \in zset[b] : e.n = a.n /\ e.at = a.at
    BY <1>2 DEF AdmittedIsIn, Store
  <2>2. e \in PruneZset(k, t)[b]
    BY <1>1, <2>1 DEF PruneZset, PrunedSet
  <2> QED
    BY <2>1, <2>2
<1>3. ASSUME a.via = "memory" PROVE \E e \in PruneMemory(k, t)[b] : e.n = a.n /\ e.at = a.at
  <2>1. PICK e \in memory[b] : e.n = a.n /\ e.at = a.at
    BY <1>3 DEF AdmittedIsIn, Store
  <2>2. e \in PruneMemory(k, t)[b]
    BY <1>1, <2>1, WindowAssumption DEF PruneMemory, PrunedDeque
  <2> QED
    BY <2>1, <2>2
<1> QED
  BY <1>2, <1>3

(* Admissions stay admissions while time and numbers go on. *)
LEMMA AdmissionsGrow ==
  ASSUME TypeOK, clock' \in Nat, serial' \in Nat, clock <= clock', serial <= serial'
  PROVE  Admissions \subseteq Admissions'
  BY DEF TypeOK, StoresOK, Admissions

(* An admission is counted as long as its entries stay. *)
LEMMA EntriesStay ==
  ASSUME TypeOK, AdmittedIsIn("redis"), AdmittedIsIn("memory"),
         admitted \subseteq Admissions, admitted' \subseteq admitted,
         clock' \in Nat, clock <= clock',
         \A b \in Buckets : zset[b] \subseteq zset'[b],
         \A a \in admitted', b \in Buckets : a.via = "memory" => memory[b] \subseteq memory'[b]
  PROVE  AdmittedIsIn("redis")' /\ AdmittedIsIn("memory")'
<1>1. ASSUME NEW a \in admitted', a.at > clock' - WINDOW_SECONDS, NEW b \in BucketsOf(a.key)
      PROVE  \E e \in Store(a.via)'[b] : e.n = a.n /\ e.at = a.at
  <2>1. a \in admitted /\ a.at \in Nat /\ a.via \in {"redis", "memory"} /\ b \in Buckets
    BY DeptOfKey DEF Admissions
  <2>2. a.at > clock - WINDOW_SECONDS
    BY <1>1, <2>1, WindowAssumption DEF TypeOK, StoresOK
  <2>3. \E e \in Store(a.via)[b] : e.n = a.n /\ e.at = a.at
    BY <2>1, <2>2 DEF AdmittedIsIn
  <2>4. Store(a.via)[b] \subseteq Store(a.via)'[b]
    BY <2>1 DEF Store
  <2> QED
    BY <2>3, <2>4
<1> QED
  BY <1>1 DEF AdmittedIsIn

LEMMA NextCount == CountInv /\ [Next]_vars => CountInv'
<1> SUFFICES ASSUME CountInv, [Next]_vars PROVE CountInv'
  OBVIOUS
<1> DEFINE Out == RejectedIsOut' /\ UndecidedIsOut'
<1> DEFINE In == /\ admitted' \subseteq Admissions'
                 /\ AdmittedIsIn("redis")' /\ AdmittedIsIn("memory")'
<1> USE DEF CountInv
<1>0. TypeOK'
  BY NextType
<1>1. ASSUME NEW r \in Slots, NEW k \in Keys, Enter(r, k) PROVE In /\ Out
  <2>1. In
    BY <1>1, <1>0, AdmissionsGrow, EntriesStay DEF Enter, TypeOK, StoresOK
  <2>2. serial + 1 \notin rejected /\ ~IsCounted(memory, serial + 1) /\ ~IsCounted(zset, serial + 1)
    BY DEF TypeOK, StoresOK, Stamps, IsCounted
  <2>3. \A n : Uncounted(n)' <=> Uncounted(n)
    BY <1>1 DEF Enter, Uncounted, IsCounted
  <2>4. Out
    BY <1>1, <2>2, <2>3 DEF Enter, Goto, TypeOK, SlotsOK, RejectedIsOut, UndecidedIsOut, Uncounted
  <2> QED
    BY <2>1, <2>4
<1>2. ASSUME NEW r \in Slots, ReadLimits(r) PROVE In /\ Out
  <2>1. In
    BY <1>2, AdmissionsGrow, EntriesStay DEF ReadLimits, observers, TypeOK, StoresOK
  <2>2. Out
    BY <1>2, PrunedStaysOut DEF ReadLimits, observers, Goto, TypeOK, SlotsOK
  <2> QED
    BY <2>1, <2>2
<1>3. ASSUME NEW r \in Slots, Phase1(r) PROVE In /\ Out
  <2>1. now[r] \in 0..clock /\ zset' = PruneZset(key[r], now[r])
    BY <1>3 DEF Phase1, TypeOK, SlotsOK
  <2>2. \A b \in Buckets : zset'[b] \subseteq zset[b]
    BY <2>1, PruneZsetType DEF TypeOK, StoresOK
  <2>3. In
    BY <1>3, <2>1, PrunedKeepsAdmitted DEF Phase1, AdmittedIsIn, Store, Admissions
  <2>4. CASE Exceeded(zset', key[r], limits[r])
    BY <1>3, <2>2, <2>3, <2>4, RejectionStaysOut DEF Phase1
  <2>5. CASE ~Exceeded(zset', key[r], limits[r])
    BY <1>3, <2>2, <2>3, <2>5, PrunedStaysOut DEF Phase1, Goto, TypeOK, SlotsOK
  <2> QED
    BY <2>4, <2>5
<1>4. ASSUME NEW r \in Slots, Phase2(r) PROVE In /\ Out
  <2> DEFINE e == Stamped(r, now[r])
  <2> DEFINE a == [n |-> number[r], key |-> key[r], at |-> now[r], via |-> "redis"]
  <2>1. e \in Stamps /\ e.n = number[r] /\ e.at = now[r] /\ key[r] \in Keys
    BY <1>4 DEF Phase2, Stamped, Stamps, TypeOK, StoresOK, SlotsOK
  <2>2. /\ \A b \in Buckets : zset[b] \subseteq zset'[b] /\ zset'[b] \subseteq zset[b] \cup {e}
        /\ \A b \in BucketsOf(key[r]) : e \in zset'[b]
    <3>1. /\ zset' = Record(zset, BucketsOf(key[r]), e) /\ zset \in [Buckets -> SUBSET Stamps]
          /\ BucketsOf(key[r]) \subseteq Buckets
      BY <1>4, <2>1, DeptOfKey DEF Phase2, TypeOK, StoresOK
    <3>2. \A b \in Buckets : /\ zset[b] \subseteq zset'[b] /\ zset'[b] \subseteq zset[b] \cup {e}
                             /\ b \in BucketsOf(key[r]) => e \in zset'[b]
      BY <2>1, <3>1, RecordType
    <3> QED
      BY <3>1, <3>2
  <2>3. admitted' = admitted \cup {a} /\ memory' = memory /\ clock' = clock /\ serial' = serial
    BY <1>4 DEF Phase2, Admit
  <2>4. a \in Admissions
    BY <1>4, <2>1 DEF Phase2, Admissions, TypeOK, StoresOK, SlotsOK
  <2>5. In
    BY <2>1, <2>2, <2>3, <2>4, DeptOfKey DEF AdmittedIsIn, Store, Admissions
  <2>6. Out
    BY <1>4, <2>1, <2>2, <2>3, AdmissionStaysOut DEF Phase2
  <2> QED
    BY <2>5, <2>6
<1>5. ASSUME NEW r \in Slots, RedisFails(r) PROVE In /\ Out
  <2>0. now[r] \in 0..clock /\ key[r] \in Keys /\ torn' = (torn \/ pc[r] = "phase2")
    BY <1>5 DEF RedisFails, TypeOK, SlotsOK
  <2>1. CASE pc[r] = "phase2"
    <3>1. Stamped(r, now[r]) \in Stamps
      BY <1>5, <2>1 DEF Stamped, Stamps, TypeOK, StoresOK, SlotsOK
    <3>2. \A b \in Buckets : zset[b] \subseteq zset'[b]
      <4>1. PICK S : zset' = Record(zset, S, Stamped(r, now[r]))
        BY <1>5, <2>1 DEF RedisFails
      <4> QED
        BY <3>1, <4>1, RecordType DEF TypeOK, StoresOK
    <3>3. In
      BY <1>5, <3>2, AdmissionsGrow, EntriesStay DEF RedisFails, TypeOK, StoresOK
    <3>4. torn'
      BY <2>0, <2>1
    <3>5. Out
      BY <1>5, <3>4 DEF RedisFails, Goto, TypeOK, SlotsOK, RejectedIsOut, UndecidedIsOut,
         Uncounted, IsCounted
    <3> QED
      BY <3>3, <3>5
  <2>2. CASE pc[r] # "phase2"
    <3>1. PICK S \in SUBSET Buckets : \A b \in Buckets :
            zset'[b] = IF b \in S THEN PrunedSet(zset[b], now[r]) ELSE zset[b]
      <4>1. CASE pc[r] = "limits"
        <5>1. zset' = zset
          BY <1>5, <4>1 DEF RedisFails
        <5> QED
          BY <5>1, {} \in SUBSET Buckets
      <4>2. CASE pc[r] = "phase1"
        BY <1>5, <4>2, <2>0, DeptOfKey DEF RedisFails, Buckets
      <4> QED
        BY <1>5, <2>2, <4>1, <4>2 DEF RedisFails
    <3>2. \A b \in Buckets : zset'[b] \subseteq zset[b]
      BY <3>1 DEF PrunedSet
    <3>3. ASSUME NEW a \in admitted, a.via = "redis", a.at > clock - WINDOW_SECONDS,
                 NEW b \in BucketsOf(a.key)
          PROVE  \E e \in zset'[b] : e.n = a.n /\ e.at = a.at
      <4>1. PICK e \in zset[b] : e.n = a.n /\ e.at = a.at
        BY <3>3 DEF AdmittedIsIn, Store
      <4>2. a.at \in Nat /\ a.at > now[r] - WINDOW_SECONDS /\ b \in Buckets
        BY <2>0, <3>3, WindowAssumption, DeptOfKey DEF TypeOK, StoresOK, Admissions
      <4>3. e \in zset'[b]
        BY <3>1, <4>1, <4>2 DEF PrunedSet
      <4> QED
        BY <4>1, <4>3
    <3>4. In
      BY <1>5, <3>3 DEF RedisFails, AdmittedIsIn, Store, Admissions
    <3>5. Out
      BY <1>5, <3>2, PrunedStaysOut DEF RedisFails, Goto, TypeOK, SlotsOK
    <3> QED
      BY <3>4, <3>5
  <2> QED
    BY <2>1, <2>2
<1>6. ASSUME NEW r \in Slots, PolicyFails(r) PROVE In /\ Out
  <2>1. In
    BY <1>6, AdmissionsGrow, EntriesStay DEF PolicyFails, observers, TypeOK, StoresOK
  <2>2. Out
    BY <1>6, PrunedStaysOut DEF PolicyFails, observers, Leave, Goto, TypeOK, SlotsOK
  <2> QED
    BY <2>1, <2>2
<1>7. ASSUME NEW r \in Slots, CheckMemory(r) PROVE In /\ Out
  <2> DEFINE e == Stamped(r, clock)
  <2> DEFINE a == [n |-> number[r], key |-> key[r], at |-> clock, via |-> "memory"]
  <2> DEFINE pruned == PruneMemory(key[r], clock)
  <2>1. /\ e \in Stamps /\ e.n = number[r] /\ e.at = clock /\ key[r] \in Keys
        /\ clock \in Nat /\ pc[r] # "idle" /\ Leave(r)
    BY <1>7 DEF CheckMemory, Stamped, Stamps, TypeOK, StoresOK, SlotsOK
  <2>2. pruned \in [Buckets -> SUBSET Stamps] /\ \A b \in Buckets : pruned[b] \subseteq memory[b]
    BY PruneMemoryType DEF TypeOK, StoresOK
  <2>3. zset' = zset /\ clock' = clock /\ serial' = serial /\ torn' = torn
    BY <1>7 DEF CheckMemory
  <2>4. CASE Exceeded(pruned, key[r], limits[r])
    <3>1. admitted' = admitted /\ rejected' = rejected \cup {number[r]}
      BY <1>7, <2>4 DEF CheckMemory
    <3>2. \A b \in Buckets : pruned[b] \subseteq memory'[b] /\ memory'[b] \subseteq memory[b]
      BY <1>7, <2>1, <2>2, <2>4 DEF CheckMemory, TypeOK, StoresOK
    <3>3. In
      <4>1. admitted' \subseteq Admissions' /\ AdmittedIsIn("redis")'
        BY <2>3, <3>1 DEF AdmittedIsIn, Store, Admissions
      <4>2. ASSUME NEW m \in admitted, m.via = "memory", m.at > clock - WINDOW_SECONDS,
                   NEW b \in BucketsOf(m.key)
            PROVE  \E x \in memory'[b] : x.n = m.n /\ x.at = m.at
        <5>1. \E x \in pruned[b] : x.n = m.n /\ x.at = m.at
          <6>1. clock \in 0..clock /\ TypeOK /\ admitted \subseteq Admissions
                /\ AdmittedIsIn("redis") /\ AdmittedIsIn("memory")
            BY <2>1
          <6> HIDE DEF CountInv
          <6> QED
            BY <4>2, <6>1, PrunedKeepsAdmitted
        <5>2. b \in Buckets
          BY <4>2, DeptOfKey DEF Admissions
        <5> QED
          BY <3>2, <5>1, <5>2
      <4>3. AdmittedIsIn("memory")'
        BY <2>3, <3>1, <4>2 DEF AdmittedIsIn, Store
      <4> QED
        BY <4>1, <4>3
    <3>4. Out
      BY <2>1, <2>3, <3>1, <3>2, RejectionStaysOut
    <3> QED
      BY <3>3, <3>4
  <2>5. CASE ~Exceeded(pruned, key[r], limits[r])
    <3>1. /\ admitted' = admitted \cup {a} /\ rejected' = rejected
          /\ memory' = Record(pruned, BucketsOf(key[r]), e)
      BY <1>7, <2>5 DEF CheckMemory, Admit
    <3>2. /\ \A b \in Buckets : /\ pruned[b] \subseteq memory'[b]
                                 /\ memory'[b] \subseteq memory[b] \cup {e}
          /\ \A b \in BucketsOf(key[r]) : e \in memory'[b]
      <4>1. \A b \in Buckets : /\ pruned[b] \subseteq memory'[b] /\ memory'[b] \subseteq pruned[b] \cup {e}
                               /\ b \in BucketsOf(key[r]) => e \in memory'[b]
        BY <2>1, <2>2, <3>1, RecordType
      <4> QED
        BY <2>1, <2>2, <4>1, DeptOfKey
    <3>3. a \in Admissions
      BY <2>1 DEF Admissions, TypeOK, StoresOK, SlotsOK
    <3>4. In
      BY <2>1, <2>3, <3>1, <3>2, <3>3, PrunedKeepsAdmitted, DeptOfKey
      DEF AdmittedIsIn, Store, Admissions
    <3>5. Out
      BY <2>1, <2>3, <3>1, <3>2, AdmissionStaysOut
    <3> QED
      BY <3>4, <3>5
  <2> QED
    BY <2>4, <2>5
<1>8. ASSUME UpsertPolicy PROVE In /\ Out
  <2>1. In
    BY <1>8, AdmissionsGrow, EntriesStay DEF UpsertPolicy, observers, TypeOK, StoresOK
  <2>2. Out
    BY <1>8, PrunedStaysOut DEF UpsertPolicy, observers, locals
  <2> QED
    BY <2>1, <2>2
<1>9. ASSUME Tick PROVE In /\ Out
  <2>1. In
    BY <1>9, AdmissionsGrow, EntriesStay DEF Tick, observers, TypeOK, StoresOK
  <2>2. Out
    BY <1>9, PrunedStaysOut DEF Tick, observers, locals
  <2> QED
    BY <2>1, <2>2
<1>10. ASSUME Restart PROVE In /\ Out
  <2>1. In
    BY <1>10, AdmissionsGrow, EntriesStay DEF Restart, TypeOK, StoresOK
  <2>2. Out
    BY <1>10, PrunedStaysOut DEF Restart
  <2> QED
    BY <2>1, <2>2
<1>11. ASSUME UNCHANGED vars PROVE In /\ Out
  <2>1. In
    BY <1>11, AdmissionsGrow, EntriesStay DEF vars, observers, TypeOK, StoresOK
  <2>2. Out
    BY <1>11, PrunedStaysOut DEF vars, observers, locals
  <2> QED
    BY <2>1, <2>2
<1>12. In /\ Out
  BY <1>1, <1>2, <1>3, <1>4, <1>5, <1>6, <1>7, <1>8, <1>9, <1>10, <1>11 DEF Next
<1> QED
  BY <1>0, <1>12

LEMMA InitCount == Init => CountInv
<1> SUFFICES ASSUME Init PROVE CountInv
  OBVIOUS
<1>1. admitted = {} /\ rejected = {} /\ \A r \in Slots : pc[r] = "idle"
  BY DEF Init
<1> QED
  BY <1>1, InitType DEF CountInv, AdmittedIsIn, RejectedIsOut, UndecidedIsOut

(* CountedIffAdmitted: through failed pipelines, restarts and changes of the
   policy a request let through is counted where it was let through until its
   window has passed, and one that is rejected leaves no trace. *)
THEOREM CountsAreRight == Spec => []CountedIffAdmitted
<1>1. CountInv => CountedIffAdmitted
  <2> SUFFICES ASSUME CountInv PROVE CountedIffAdmitted
    OBVIOUS
  <2>1. \A a \in admitted : a.at > clock - WINDOW_SECONDS =>
          \A b \in BucketsOf(a.key) :
              \E e \in (IF a.via = "redis" THEN zset ELSE memory)[b] : e.n = a.n
    BY DEF CountInv, AdmittedIsIn, Store, Admissions
  <2>2. /\ rejected \cap Counted(memory) = {}
        /\ torn \/ rejected \cap Counted(zset) = {}
    BY DEF CountInv, RejectedIsOut, Uncounted, IsCounted, Counted
  <2> QED
    BY <2>1, <2>2 DEF CountedIffAdmitted
<1> QED
  BY <1>1, InitCount, NextCount, PTL DEF Spec

-------------------------------------------------------------------------------
(* How far the limits hold. *)

AdmittedOnce == \A a, c \in admitted : a.n = c.n => a = c

UndecidedIsNotAdmitted ==
    \A r \in Slots : pc[r] # "idle" => \A a \in admitted : a.n # number[r]

Alone == ~overlapped => \A r, s \in Slots : pc[r] # "idle" /\ pc[s] # "idle" => r = s

(* Requests that passed the count of bucket b and are yet to be recorded. *)
Passed(b) == {r \in Slots : pc[r] = "phase2" /\ b \in BucketsOf(key[r])}

(* What Redis has let through and what it is about to. *)
RedisHolds ==
    \A b \in Buckets :
        WithinLimit(b, Cardinality(Recent(b, "redis")) + Cardinality(Passed(b)) - Slack)

(* The inductive invariant.  What a request that has passed the count will add
   is added already: when it passed, the window held less than the limit, and
   at most the other slots had passed without being recorded. *)
LimitInv ==
    /\ CountInv
    /\ AdmittedOnce /\ UndecidedIsNotAdmitted /\ Alone
    /\ RedisHolds /\ MemoryExact

(* Fewer than what is within the limit is within it. *)
LEMMA FewerIsWithin ==
  ASSUME NEW b \in Buckets, NEW n \in Int, WithinLimit(b, n), NEW m \in Int, m <= n
  PROVE  WithinLimit(b, m)
<1>1. PICK p \in Policies : n <= LimitFor(p, b)
  BY DEF WithinLimit
<1>2. LimitFor(p, b) \in Nat
  BY PolicyAssumption DEF LimitFor
<1> QED
  BY <1>1, <1>2 DEF WithinLimit

(* Each member of A has a member of W of its own. *)
LEMMA EachHasItsOwn ==
  ASSUME NEW A, NEW W, IsFiniteSet(W),
         \A a, c \in A : a.n = c.n => a = c,
         \A a \in A : \E e \in W : e.n = a.n
  PROVE  IsFiniteSet(A) /\ Cardinality(A) <= Cardinality(W)
<1> DEFINE f == [a \in A |-> CHOOSE e \in W : e.n = a.n]
<1>1. \A a \in A : f[a] \in W /\ f[a].n = a.n
  OBVIOUS
<1>2. f \in Injection(A, W)
  BY <1>1 DEF Injection, IsInjective
<1> QED
  BY <1>2, FS_Injection

LEMMA StampsAreFinite ==
  ASSUME TypeOK
  PROVE  IsFiniteSet(Stamps)
<1> DEFINE P == (0..clock) \X (1..serial)
           f == [e \in Stamps |-> <<e.at, e.n>>]
<1>1. clock \in Int /\ serial \in Int
  BY DEF TypeOK, StoresOK
<1>2. IsFiniteSet(P)
  <2>1. IsFiniteSet(0..clock) /\ IsFiniteSet(1..serial)
    BY <1>1, FS_Interval
  <2> QED
    BY <2>1, FS_Product
<1>3. f \in Injection(Stamps, P)
  <2>1. \A e, g \in Stamps : e.at = g.at /\ e.n = g.n => e = g
    BY DEF Stamps
  <2>2. \A e \in Stamps : e.at \in 0..clock /\ e.n \in 1..serial
    BY DEF Stamps
  <2>3. f \in [Stamps -> P] /\ \A e, g \in Stamps : f[e] = f[g] => e = g
    BY <2>1, <2>2
  <2> QED
    BY <2>3 DEF Injection, IsInjective
<1> QED
  BY <1>2, <1>3, FS_Injection

(* Windows, admissions and the requests that passed are finite in number. *)
LEMMA AllAreFinite ==
  ASSUME CountInv, AdmittedOnce
  PROVE  /\ IsFiniteSet(admitted)
         /\ \A A \in SUBSET admitted : IsFiniteSet(A) /\ Cardinality(A) \in Nat
         /\ \A W \in SUBSET Stamps : IsFiniteSet(W) /\ Cardinality(W) \in Nat
         /\ \A S \in SUBSET Slots : /\ IsFiniteSet(S) /\ Cardinality(S) \in Nat
                                    /\ Cardinality(S) <= Cardinality(Slots)
         /\ Cardinality(Slots) \in Nat
<1>1. IsFiniteSet(admitted)
  <2> DEFINE f == [a \in admitted |-> a.n]
  <2>1. IsFiniteSet(1..serial)
    BY FS_Interval DEF CountInv, TypeOK, StoresOK
  <2>2. f \in Injection(admitted, 1..serial)
    BY DEF Injection, IsInjective, CountInv, AdmittedOnce, Admissions
  <2> QED
    BY <2>1, <2>2, FS_Injection
<1>2. IsFiniteSet(Stamps)
  BY StampsAreFinite DEF CountInv
<1> QED
  BY <1>1, <1>2, SlotsAssumption, FS_Subset, FS_CardinalityType

LEMMA SmallerSet ==
  ASSUME NEW T, IsFiniteSet(T), NEW S \in SUBSET T
  PROVE  /\ IsFiniteSet(S) /\ Cardinality(S) \in Nat /\ Cardinality(T) \in Nat
         /\ Cardinality(S) <= Cardinality(T)
  BY FS_Subset, FS_CardinalityType

(* A set with at most one element more. *)
LEMMA OneMore ==
  ASSUME NEW S, IsFiniteSet(S), NEW e, NEW T \in SUBSET (S \cup {e})
  PROVE  /\ IsFiniteSet(T) /\ Cardinality(T) \in Nat /\ Cardinality(S) \in Nat
         /\ Cardinality(T) <= Cardinality(S) + 1
<1>1. IsFiniteSet(S \cup {e}) /\ Cardinality(S \cup {e}) <= Cardinality(S) + 1
  <2>1. Cardinality(S) \in Nat
    BY FS_CardinalityType
  <2>2. CASE e \in S
    <3>1. S \cup {e} = S
      BY <2>2
    <3> QED
      BY <2>1, <3>1
  <2>3. CASE e \notin S
    <3>1. Cardinality(S \cup {e}) = Cardinality(S) + 1 /\ IsFiniteSet(S \cup {e})
      BY <2>3, FS_AddElement
    <3> QED
      BY <2>1, <3>1
  <2> QED
    BY <2>1, <2>2, <2>3
<1> QED
  BY <1>1, SmallerSet, FS_CardinalityType

(* The slack only grows. *)
LEMMA SlackGrows ==
  ASSUME CountInv, AdmittedOnce, CountInv',
         overlapped' = overlapped \/ (overlapped' /\ \E r \in Slots : TRUE)
  PROVE  Slack \in Int /\ Slack' \in Int /\ Slack <= Slack'
<1>1. overlapped \in BOOLEAN /\ overlapped' \in BOOLEAN
  BY Zenon DEF CountInv, TypeOK, FlagsOK
<1>2. Cardinality(Slots) \in Nat /\ (Slots = {} \/ Cardinality(Slots) >= 1)
  BY SlotsAssumption, FS_CardinalityType, FS_EmptySet
<1>3. Slots' = Slots
  OBVIOUS
<1> QED
  BY <1>1, <1>2 DEF Slack

(* Redis's limit holds on while a step admits nobody by it and lets nobody
   pass. *)
LEMMA FewerHolds ==
  ASSUME LimitInv, CountInv',
         \A b \in Buckets : /\ Recent(b, "redis")' \subseteq Recent(b, "redis")
                            /\ Passed(b)' \subseteq Passed(b),
         overlapped' = overlapped \/ (overlapped' /\ \E r \in Slots : TRUE)
  PROVE  RedisHolds'
<1>1. ASSUME NEW b \in Buckets
      PROVE  /\ Cardinality(Recent(b, "redis")') <= Cardinality(Recent(b, "redis"))
             /\ Cardinality(Passed(b)') <= Cardinality(Passed(b))
             /\ {Cardinality(Recent(b, "redis")'), Cardinality(Recent(b, "redis")),
                 Cardinality(Passed(b)'), Cardinality(Passed(b))} \subseteq Nat
  <2>1. Recent(b, "redis") \in SUBSET admitted /\ Passed(b) \in SUBSET Slots
    BY DEF Recent, Passed
  <2>2. IsFiniteSet(Recent(b, "redis")) /\ IsFiniteSet(Passed(b))
    BY <2>1, AllAreFinite DEF LimitInv
  <2> QED
    BY <2>2, SmallerSet
<1>2. Slack <= Slack' /\ Slack \in Int /\ Slack' \in Int
  BY SlackGrows DEF LimitInv
<1>3. ASSUME NEW b \in Buckets
      PROVE  WithinLimit(b, Cardinality(Recent(b, "redis")') + Cardinality(Passed(b)') - Slack')
  <2>1. WithinLimit(b, Cardinality(Recent(b, "redis")) + Cardinality(Passed(b)) - Slack)
    BY DEF LimitInv, RedisHolds
  <2> QED
    BY <2>1, <1>1, <1>2, FewerIsWithin
<1> QED
  BY <1>3 DEF RedisHolds, WithinLimit

(* The windows in memory hold on while they admit nobody. *)
LEMMA FewerInMemory ==
  ASSUME LimitInv, \A b \in Buckets : Recent(b, "memory")' \subseteq Recent(b, "memory")
  PROVE  MemoryExact'
<1>1. ASSUME NEW b \in Buckets PROVE WithinLimit(b, Cardinality(Recent(b, "memory")'))
  <2>1. WithinLimit(b, Cardinality(Recent(b, "memory")))
    BY DEF LimitInv, MemoryExact
  <2>2. IsFiniteSet(Recent(b, "memory"))
    BY AllAreFinite DEF LimitInv, Recent
  <2> QED
    BY <2>1, <2>2, SmallerSet, FewerIsWithin
<1> QED
  BY <1>1 DEF MemoryExact, WithinLimit

(* The window in which a request is counted holds an entry of each admission
   that is recent. *)
LEMMA RecentIsCounted ==
  ASSUME LimitInv, NEW k, NEW t \in 0..clock, NEW b \in Buckets
  PROVE  /\ Cardinality(Recent(b, "redis")) <= Cardinality(PruneZset(k, t)[b])
         /\ Cardinality(Recent(b, "memory")) <= Cardinality(PruneMemory(k, t)[b])
         /\ Cardinality(PruneZset(k, t)[b]) \in Nat /\ Cardinality(PruneMemory(k, t)[b]) \in Nat
         /\ IsFiniteSet(Recent(b, "redis")) /\ IsFiniteSet(Recent(b, "memory"))
<1>0. /\ TypeOK /\ admitted \subseteq Admissions /\ AdmittedIsIn("redis") /\ AdmittedIsIn("memory")
      /\ AdmittedOnce
  BY DEF LimitInv, CountInv
<1>1. PruneZset(k, t)[b] \in SUBSET Stamps /\ PruneMemory(k, t)[b] \in SUBSET Stamps
  BY <1>0, PruneZsetType, PruneMemoryType DEF TypeOK, StoresOK
<1>2. /\ IsFiniteSet(PruneZset(k, t)[b]) /\ Cardinality(PruneZset(k, t)[b]) \in Nat
      /\ IsFiniteSet(PruneMemory(k, t)[b]) /\ Cardinality(PruneMemory(k, t)[b]) \in Nat
  BY <1>1, AllAreFinite DEF LimitInv
<1>3. /\ \A a \in Recent(b, "redis") : \E e \in PruneZset(k, t)[b] : e.n = a.n
      /\ \A a \in Recent(b, "memory") : \E e \in PruneMemory(k, t)[b] : e.n = a.n
  <2>1. ASSUME NEW a \in admitted, a.at > clock - WINDOW_SECONDS, b \in BucketsOf(a.key)
        PROVE  /\ a.via = "redis" => \E e \in PruneZset(k, t)[b] : e.n = a.n
               /\ a.via = "memory" => \E e \in PruneMemory(k, t)[b] : e.n = a.n
    <3>1. /\ a.via = "redis" => \E e \in PruneZset(k, t)[b] : e.n = a.n /\ e.at = a.at
          /\ a.via = "memory" => \E e \in PruneMemory(k, t)[b] : e.n = a.n /\ e.at = a.at
      BY <1>0, <2>1, PrunedKeepsAdmitted
    <3> QED
      BY <3>1
  <2> QED
    BY <2>1 DEF Recent
<1>4. /\ \A a, c \in Recent(b, "redis") : a.n = c.n => a = c
      /\ \A a, c \in Recent(b, "memory") : a.n = c.n => a = c
  BY <1>0 DEF Recent, AdmittedOnce
<1> QED
  BY <1>2, <1>3, <1>4, EachHasItsOwn

LEMMA InitLimit == Init => LimitInv
<1> SUFFICES ASSUME Init PROVE LimitInv
  OBVIOUS
<1>1. admitted = {} /\ overlapped = FALSE /\ \A r \in Slots : pc[r] = "idle"
  BY DEF Init
<1>2. \A b \in Buckets : Recent(b, "redis") = {} /\ Recent(b, "memory") = {} /\ Passed(b) = {}
  BY <1>1 DEF Recent, Passed
<1>3. Slack = 0 /\ Cardinality({}) = 0
  BY <1>1, FS_EmptySet DEF Slack
<1>4. \A b : WithinLimit(b, 0)
  BY PolicyAssumption DEF WithinLimit, LimitFor
<1>5. RedisHolds /\ MemoryExact
  <2>1. \A b \in Buckets : WithinLimit(b, Cardinality(Recent(b, "memory")))
    BY <1>2, <1>3, <1>4
  <2>2. ASSUME NEW b \in Buckets
        PROVE  WithinLimit(b, Cardinality(Recent(b, "redis")) + Cardinality(Passed(b)) - Slack)
    <3>1. Cardinality(Recent(b, "redis")) + Cardinality(Passed(b)) - Slack = 0
      BY <1>2, <1>3
    <3> QED
      BY <3>1, <1>4
  <2> QED
    BY <2>1, <2>2 DEF RedisHolds, MemoryExact
<1> QED
  BY <1>1, <1>5, InitCount DEF LimitInv, AdmittedOnce, UndecidedIsNotAdmitted, Alone

(* A request that is let through has been neither let through before nor is it
   any other's number. *)
LEMMA OnceMore ==
  ASSUME LimitInv, NEW r \in Slots, pc[r] # "idle", Leave(r), overlapped' = overlapped,
         NEW t, NEW store,
         admitted' = admitted \cup {[n |-> number[r], key |-> key[r], at |-> t, via |-> store]}
  PROVE  AdmittedOnce' /\ UndecidedIsNotAdmitted' /\ Alone'
<1>1. \A s \in Slots : pc'[s] # "idle" =>
        s # r /\ pc[s] # "idle" /\ number'[s] = number[s] /\ number[s] # number[r]
  BY DEF LimitInv, CountInv, TypeOK, SlotsOK, Leave, Goto
<1>2. \A a \in admitted : a.n # number[r]
  BY DEF LimitInv, UndecidedIsNotAdmitted
<1>3. AdmittedOnce'
  BY <1>2 DEF LimitInv, AdmittedOnce
<1>4. UndecidedIsNotAdmitted'
  BY <1>1 DEF LimitInv, UndecidedIsNotAdmitted
<1>5. Alone'
  BY <1>1 DEF LimitInv, Alone
<1> QED
  BY <1>3, <1>4, <1>5

(* The same while nobody is let through and nobody enters. *)
LEMMA OnceStill ==
  ASSUME LimitInv, admitted' \subseteq admitted, overlapped' = overlapped,
         \A s \in Slots : pc'[s] # "idle" => pc[s] # "idle" /\ number'[s] = number[s]
  PROVE  AdmittedOnce' /\ UndecidedIsNotAdmitted' /\ Alone'
  BY DEF LimitInv, AdmittedOnce, UndecidedIsNotAdmitted, Alone

LEMMA NextOnce == LimitInv /\ [Next]_vars => AdmittedOnce' /\ UndecidedIsNotAdmitted' /\ Alone'
<1> SUFFICES ASSUME LimitInv, [Next]_vars
             PROVE  AdmittedOnce' /\ UndecidedIsNotAdmitted' /\ Alone'
  OBVIOUS
<1> DEFINE Goal == AdmittedOnce' /\ UndecidedIsNotAdmitted' /\ Alone'
<1>0. SlotsOK /\ serial \in Nat /\ admitted \subseteq Admissions
  BY DEF LimitInv, CountInv, TypeOK, StoresOK
<1>1. ASSUME NEW r \in Slots, NEW k \in Keys, Enter(r, k) PROVE Goal
  <2>1. \A a \in admitted : a.n # serial + 1
    BY <1>0 DEF Admissions
  <2>2. \A s \in Slots : pc'[s] # "idle" =>
          \/ s = r /\ number'[s] = serial + 1
          \/ s # r /\ pc[s] # "idle" /\ number'[s] = number[s]
    BY <1>0, <1>1 DEF Enter, Goto, SlotsOK
  <2>3. admitted' = admitted /\ (~overlapped' => ~overlapped /\ \A s \in Slots : pc[s] = "idle")
    BY <1>1 DEF Enter
  <2> QED
    BY <2>1, <2>2, <2>3 DEF LimitInv, AdmittedOnce, UndecidedIsNotAdmitted, Alone
<1>2. ASSUME NEW r \in Slots, ReadLimits(r) PROVE Goal
  BY <1>0, <1>2, OnceStill DEF ReadLimits, Goto, observers, SlotsOK
<1>3. ASSUME NEW r \in Slots, Phase1(r) PROVE Goal
  <2>1. \A s \in Slots : pc'[s] # "idle" => pc[s] # "idle" /\ number'[s] = number[s]
    <3>1. CASE Leave(r)
      BY <1>0, <3>1 DEF Leave, Goto, SlotsOK
    <3>2. CASE Goto(r, "phase2") /\ number' = number
      BY <1>0, <1>3, <3>2 DEF Phase1, Goto, SlotsOK
    <3> QED
      BY <1>3, <3>1, <3>2 DEF Phase1
  <2> QED
    BY <1>3, <2>1, OnceStill DEF Phase1
<1>4. ASSUME NEW r \in Slots, Phase2(r) PROVE Goal
  BY <1>4, OnceMore DEF Phase2, Admit
<1>5. ASSUME NEW r \in Slots, RedisFails(r) PROVE Goal
  BY <1>0, <1>5, OnceStill DEF RedisFails, Goto, SlotsOK
<1>6. ASSUME NEW r \in Slots, PolicyFails(r) PROVE Goal
  BY <1>0, <1>6, OnceStill DEF PolicyFails, Leave, Goto, observers, SlotsOK
<1>7. ASSUME NEW r \in Slots, CheckMemory(r) PROVE Goal
  <2>1. CASE admitted' = admitted
    BY <1>0, <1>7, <2>1, OnceStill DEF CheckMemory, Leave, Goto, SlotsOK
  <2>2. CASE Admit(r, clock, "memory")
    BY <1>7, <2>2, OnceMore DEF CheckMemory, Admit
  <2> QED
    BY <1>7, <2>1, <2>2 DEF CheckMemory
<1>8. CASE UpsertPolicy
  BY <1>8, OnceStill DEF UpsertPolicy, observers, locals
<1>9. CASE Tick
  BY <1>9, OnceStill DEF Tick, observers, locals
<1>10. CASE Restart
  BY <1>10, OnceStill DEF Restart
<1>11. CASE UNCHANGED vars
  BY <1>11, OnceStill DEF vars, observers, locals
<1> QED
  BY <1>1, <1>2, <1>3, <1>4, <1>5, <1>6, <1>7, <1>8, <1>9, <1>10, <1>11 DEF Next

(* A request that passes found less than the limit in its windows, and what the
   others that have passed will add is within the slack. *)
LEMMA PassHolds ==
  ASSUME LimitInv, CountInv', Alone', NEW r \in Slots, Phase1(r), Goto(r, "phase2"),
         ~Exceeded(zset', key[r], limits[r]), key' = key
  PROVE  RedisHolds'
<1>1. /\ \A b : Recent(b, "redis")' = Recent(b, "redis")
      /\ zset' = PruneZset(key[r], now[r]) /\ overlapped' = overlapped
      /\ now[r] \in 0..clock /\ limits[r] \in Policies
  BY DEF Phase1, Recent, LimitInv, CountInv, TypeOK, SlotsOK
<1>2. overlapped \in BOOLEAN /\ Cardinality(Slots) \in Nat
  BY SlotsAssumption, FS_CardinalityType, Zenon DEF LimitInv, CountInv, TypeOK, FlagsOK
<1>3. Slack' = Slack /\ Slack \in Int
  BY <1>1, <1>2 DEF Slack
<1>4. ASSUME NEW b \in Buckets, b \notin BucketsOf(key[r])
      PROVE  WithinLimit(b, Cardinality(Recent(b, "redis")') + Cardinality(Passed(b)') - Slack')
  <2>1. Passed(b)' = Passed(b)
    BY <1>4 DEF Passed, Goto, LimitInv, CountInv, TypeOK, SlotsOK
  <2> QED
    BY <1>1, <1>3, <2>1 DEF LimitInv, RedisHolds
<1>5. ASSUME NEW b \in Buckets, b \in BucketsOf(key[r])
      PROVE  WithinLimit(b, Cardinality(Recent(b, "redis")') + Cardinality(Passed(b)') - Slack')
  <2>1. /\ Cardinality(Recent(b, "redis")) <= Cardinality(zset'[b])
        /\ Cardinality(Recent(b, "redis")) \in Nat
        /\ Cardinality(zset'[b]) \in Nat
    BY <1>1, RecentIsCounted, FS_CardinalityType
  <2>2. Cardinality(zset'[b]) < LimitFor(limits[r], b) /\ LimitFor(limits[r], b) \in Nat
    <3>1. LimitFor(limits[r], b) \in Nat
      BY <1>1, PolicyAssumption DEF LimitFor
    <3> QED
      BY <1>5, <2>1, <3>1 DEF Exceeded, Full
  <2>3. Cardinality(Passed(b)') \in Nat /\ Cardinality(Passed(b)') - Slack <= 1
    <3>1. CASE overlapped
      <4>1. Cardinality(Passed(b)') \in Nat /\ Cardinality(Passed(b)') <= Cardinality(Slots)
        BY SlotsAssumption, SmallerSet DEF Passed
      <4> QED
        BY <3>1, <4>1, <1>2 DEF Slack
    <3>2. CASE ~overlapped
      <4>1. Passed(b)' \subseteq {r}
        BY <1>1, <3>2 DEF Alone, Passed, Goto, LimitInv, CountInv, TypeOK, SlotsOK
      <4>2. IsFiniteSet({r}) /\ Cardinality({r}) = 1
        BY FS_Singleton
      <4>3. Cardinality(Passed(b)') \in Nat /\ Cardinality(Passed(b)') <= 1
        BY <4>1, <4>2, SmallerSet
      <4> QED
        BY <3>2, <4>3 DEF Slack
    <3> QED
      BY <3>1, <3>2
  <2>4. Cardinality(Recent(b, "redis")') + Cardinality(Passed(b)') - Slack' <= LimitFor(limits[r], b)
    BY <1>1, <1>3, <2>1, <2>2, <2>3
  <2> QED
    BY <1>1, <2>4 DEF WithinLimit
<1> QED
  BY <1>4, <1>5 DEF RedisHolds, WithinLimit

(* A request that is recorded moves from what has passed to what is admitted. *)
LEMMA RecordHolds ==
  ASSUME LimitInv, NEW r \in Slots, Phase2(r)
  PROVE  RedisHolds'
<1> DEFINE a == [n |-> number[r], key |-> key[r], at |-> now[r], via |-> "redis"]
<1>1. /\ admitted' = admitted \cup {a} /\ clock' = clock /\ overlapped' = overlapped
      /\ pc[r] = "phase2" /\ Leave(r)
  BY DEF Phase2, Admit
<1>2. overlapped \in BOOLEAN /\ Cardinality(Slots) \in Nat
  BY SlotsAssumption, FS_CardinalityType, Zenon DEF LimitInv, CountInv, TypeOK, FlagsOK
<1>3. Slack' = Slack /\ Slack \in Int
  BY <1>1, <1>2 DEF Slack
<1>4. ASSUME NEW b \in Buckets
      PROVE  WithinLimit(b, Cardinality(Recent(b, "redis")') + Cardinality(Passed(b)') - Slack')
  <2>1. IsFiniteSet(Recent(b, "redis")) /\ IsFiniteSet(Passed(b))
    BY AllAreFinite DEF LimitInv, Recent, Passed
  <2>2. WithinLimit(b, Cardinality(Recent(b, "redis")) + Cardinality(Passed(b)) - Slack)
    BY DEF LimitInv, RedisHolds
  <2>3. Passed(b)' = Passed(b) \ {r}
    BY <1>1 DEF Passed, Leave, Goto, LimitInv, CountInv, TypeOK, SlotsOK
  <2>4. CASE b \in BucketsOf(key[r])
    <3>1. Recent(b, "redis")' \subseteq Recent(b, "redis") \cup {a} /\ r \in Passed(b)
      BY <1>1, <2>4 DEF Recent, Passed
    <3>2. Cardinality(Recent(b, "redis")') <= Cardinality(Recent(b, "redis")) + 1
      BY <2>1, <3>1, OneMore
    <3>3. Cardinality(Passed(b)') = Cardinality(Passed(b)) - 1
      BY <2>1, <2>3, <3>1, FS_RemoveElement
    <3>4. /\ Cardinality(Recent(b, "redis")') \in Nat /\ Cardinality(Recent(b, "redis")) \in Nat
          /\ Cardinality(Passed(b)) \in Nat
      BY <2>1, <3>1, OneMore, FS_CardinalityType
    <3> QED
      BY <1>3, <2>2, <3>2, <3>3, <3>4, FewerIsWithin
  <2>5. CASE b \notin BucketsOf(key[r])
    <3>1. Recent(b, "redis")' = Recent(b, "redis") /\ Passed(b)' = Passed(b)
      BY <1>1, <2>3, <2>5 DEF Recent, Passed
    <3> QED
      BY <1>3, <2>2, <3>1
  <2> QED
    BY <2>4, <2>5
<1> QED
  BY <1>4 DEF RedisHolds, WithinLimit

(* check and record are one step: who is recorded found less than the limit. *)
LEMMA MemoryHolds ==
  ASSUME LimitInv, NEW r \in Slots, CheckMemory(r)
  PROVE  MemoryExact'
<1> DEFINE pruned == PruneMemory(key[r], clock)
<1> DEFINE a == [n |-> number[r], key |-> key[r], at |-> clock, via |-> "memory"]
<1>0. clock' = clock /\ limits[r] \in Policies /\ clock \in 0..clock
  BY DEF CheckMemory, LimitInv, CountInv, TypeOK, SlotsOK, StoresOK
<1>1. CASE admitted' = admitted
  BY <1>0, <1>1, FewerInMemory DEF Recent
<1>2. CASE admitted' = admitted \cup {a} /\ ~Exceeded(pruned, key[r], limits[r])
  <2>1. ASSUME NEW b \in Buckets PROVE WithinLimit(b, Cardinality(Recent(b, "memory")'))
    <3>1. CASE b \in BucketsOf(key[r])
      <4>1. /\ Cardinality(Recent(b, "memory")) <= Cardinality(pruned[b])
            /\ IsFiniteSet(Recent(b, "memory")) /\ Cardinality(pruned[b]) \in Nat
        BY <1>0, RecentIsCounted
      <4>2. LimitFor(limits[r], b) \in Nat
        BY <1>0, PolicyAssumption DEF LimitFor
      <4>3. Cardinality(pruned[b]) < LimitFor(limits[r], b)
        BY <1>2, <3>1, <4>1, <4>2 DEF Exceeded, Full
      <4>4. Recent(b, "memory")' \subseteq Recent(b, "memory") \cup {a}
        BY <1>0, <1>2 DEF Recent
      <4>5. /\ Cardinality(Recent(b, "memory")') <= Cardinality(Recent(b, "memory")) + 1
            /\ Cardinality(Recent(b, "memory")') \in Nat /\ Cardinality(Recent(b, "memory")) \in Nat
        BY <4>1, <4>4, OneMore
      <4>6. Cardinality(Recent(b, "memory")') <= LimitFor(limits[r], b)
        BY <4>1, <4>2, <4>3, <4>5
      <4> QED
        BY <1>0, <4>6 DEF WithinLimit
    <3>2. CASE b \notin BucketsOf(key[r])
      <4>1. Recent(b, "memory")' = Recent(b, "memory")
        BY <1>0, <1>2, <3>2 DEF Recent
      <4> QED
        BY <4>1 DEF LimitInv, MemoryExact
    <3> QED
      BY <3>1, <3>2
  <2> QED
    BY <2>1 DEF MemoryExact, WithinLimit
<1> QED
  BY <1>1, <1>2 DEF CheckMemory, Admit

LEMMA NextLimit == LimitInv /\ [Next]_vars => LimitInv'
<1> SUFFICES ASSUME LimitInv, [Next]_vars PROVE LimitInv'
  OBVIOUS
<1>a. CountInv' /\ AdmittedOnce' /\ UndecidedIsNotAdmitted' /\ Alone'
  BY NextCount, NextOnce DEF LimitInv
<1>b. SlotsOK /\ clock \in Nat
  BY DEF LimitInv, CountInv, TypeOK, StoresOK
<1> DEFINE Goal == RedisHolds' /\ MemoryExact'
<1>1. ASSUME NEW r \in Slots, NEW k \in Keys, Enter(r, k) PROVE Goal
  <2>1. \A b : Recent(b, "redis")' = Recent(b, "redis") /\ Recent(b, "memory")' = Recent(b, "memory")
    BY <1>1 DEF Enter, Recent
  <2>2. \A b : Passed(b)' \subseteq Passed(b)
    BY <1>1, <1>b DEF Enter, Goto, Passed, SlotsOK
  <2>3. overlapped' = overlapped \/ (overlapped' /\ \E s \in Slots : TRUE)
    <3>1. overlapped \in BOOLEAN /\ overlapped' = (overlapped \/ \E s \in Slots : pc[s] # "idle")
      BY <1>1, Zenon DEF Enter, LimitInv, CountInv, TypeOK, FlagsOK
    <3> QED
      BY <3>1
  <2> QED
    BY <1>a, <2>1, <2>2, <2>3, FewerHolds, FewerInMemory
<1>2. ASSUME NEW r \in Slots, ReadLimits(r) PROVE Goal
  BY <1>a, <1>b, <1>2, FewerHolds, FewerInMemory
  DEF ReadLimits, Goto, Recent, Passed, observers, SlotsOK
<1>3. ASSUME NEW r \in Slots, Phase1(r) PROVE Goal
  <2>1. MemoryExact'
    BY <1>3, FewerInMemory DEF Phase1, Recent
  <2>2. CASE Leave(r)
    BY <1>a, <1>b, <1>3, <2>1, <2>2, FewerHolds DEF Phase1, Leave, Goto, Recent, Passed, SlotsOK
  <2>3. CASE ~Exceeded(zset', key[r], limits[r])
    BY <1>a, <1>3, <2>1, <2>3, PassHolds DEF Phase1
  <2> QED
    BY <1>3, <2>2, <2>3 DEF Phase1
<1>4. ASSUME NEW r \in Slots, Phase2(r) PROVE Goal
  BY <1>4, RecordHolds, FewerInMemory DEF Phase2, Admit, Recent
<1>5. ASSUME NEW r \in Slots, RedisFails(r) PROVE Goal
  BY <1>a, <1>b, <1>5, FewerHolds, FewerInMemory DEF RedisFails, Goto, Recent, Passed, SlotsOK
<1>6. ASSUME NEW r \in Slots, PolicyFails(r) PROVE Goal
  BY <1>a, <1>b, <1>6, FewerHolds, FewerInMemory
  DEF PolicyFails, Leave, Goto, Recent, Passed, observers, SlotsOK
<1>7. ASSUME NEW r \in Slots, CheckMemory(r) PROVE Goal
  <2>1. \A b : Recent(b, "redis")' = Recent(b, "redis") /\ Passed(b)' \subseteq Passed(b)
    BY <1>7, <1>b DEF CheckMemory, Admit, Leave, Goto, Recent, Passed, SlotsOK
  <2>2. overlapped' = overlapped
    BY <1>7 DEF CheckMemory
  <2> QED
    BY <1>a, <1>7, <2>1, <2>2, FewerHolds, MemoryHolds
<1>8. ASSUME UpsertPolicy PROVE Goal
  BY <1>a, <1>8, FewerHolds, FewerInMemory DEF UpsertPolicy, Recent, Passed, observers, locals
<1>9. ASSUME Tick PROVE Goal
  <2>1. /\ \A b \in Buckets : /\ Recent(b, "redis")' \subseteq Recent(b, "redis")
                              /\ Recent(b, "memory")' \subseteq Recent(b, "memory")
                              /\ Passed(b)' \subseteq Passed(b)
        /\ overlapped' = overlapped
    <3>1. \A a \in admitted : a.at > clock' - WINDOW_SECONDS => a.at > clock - WINDOW_SECONDS
      BY <1>9, <1>b, WindowAssumption DEF Tick, LimitInv, CountInv, Admissions
    <3> QED
      BY <1>9, <3>1 DEF Tick, Recent, Passed, observers, locals
  <2> QED
    BY <1>a, <2>1, FewerHolds, FewerInMemory
<1>10. ASSUME Restart PROVE Goal
  BY <1>a, <1>10, FewerHolds, FewerInMemory DEF Restart, Recent, Passed
<1>11. ASSUME UNCHANGED vars PROVE Goal
  BY <1>a, <1>11, FewerHolds, FewerInMemory DEF vars, Recent, Passed, observers, locals
<1>12. Goal
  BY <1>1, <1>2, <1>3, <1>4, <1>5, <1>6, <1>7, <1>8, <1>9, <1>10, <1>11 DEF Next
<1> QED
  BY <1>a, <1>12 DEF LimitInv

LEMMA HoldsInRedis == LimitInv => RedisSlack
<1> SUFFICES ASSUME LimitInv, NEW b \in Buckets
             PROVE  WithinLimit(b, Cardinality(Recent(b, "redis")) - Slack)
  BY DEF RedisSlack
<1>1. WithinLimit(b, Cardinality(Recent(b, "redis")) + Cardinality(Passed(b)) - Slack)
  BY DEF LimitInv, RedisHolds
<1>2. IsFiniteSet(Recent(b, "redis")) /\ IsFiniteSet(Passed(b))
  BY AllAreFinite DEF LimitInv, Recent, Passed
<1>3. Cardinality(Recent(b, "redis")) \in Nat /\ Cardinality(Passed(b)) \in Nat
  BY <1>2, FS_CardinalityType
<1>4. Slack \in Int
  BY SlotsAssumption, FS_CardinalityType DEF Slack
<1> QED
  BY <1>1, <1>3, <1>4, FewerIsWithin

(* RedisSlack: whatever fails, restarts or changes between the two pipelines of
   a check, Redis lets through at most one request more than the limit for each
   other request that may be between them. *)
THEOREM RedisLimitHolds == Spec => []RedisSlack
  BY HoldsInRedis, InitLimit, NextLimit, PTL DEF Spec

(* MemoryExact: what the windows in memory let through never exceeds the limit,
   however the requests overlap. *)
THEOREM MemoryLimitHolds == Spec => []MemoryExact
<1>1. LimitInv => MemoryExact
  BY DEF LimitInv
<1> QED
  BY <1>1, InitLimit, NextLimit, PTL DEF Spec

-------------------------------------------------------------------------------
(* The limiter as its callers see it. *)

(* Entry e of bucket b is of a request that a store let through. *)
IsAdmission(e, b, via) ==
    \E a \in admitted : a.n = e.n /\ a.at = e.at /\ a.via = via /\ b \in BucketsOf(a.key)

MemoryIsOfAdmissions == \A b \in Buckets : \A e \in memory[b] : IsAdmission(e, b, "memory")

(* What a recording that broke off has left in the sorted set of bucket b. *)
Strays(b) == {e \in zset[b] : ~IsAdmission(e, b, "redis")}

StraysAreFew == \A b \in Buckets : Cardinality(Strays(b)) <= faults

(* The inductive invariant.  That every admission has an entry bounds what is let
   through; to refuse only where there is no room, entries must be of admissions. *)
DeserveInv == LimitInv /\ MemoryIsOfAdmissions /\ StraysAreFew

(* The question of slot r, and the slots that have one. *)
Question(r) == [n |-> number[r], key |-> key[r], limits |-> limits[r], at |-> now[r]]
Asking == {r \in Slots : pc[r] \in {"phase1", "phase2", "memory"}}

LEMMA AskedAre ==
  /\ \A q : q \in Asked <=> \E r \in Asking : q = Question(r)
  /\ \A q : q \in Asked' <=> \E r \in Asking' : q = Question(r)'
  BY DEF Asked, Question, Asking

(* A step of one slot leaves what the others ask. *)
Aside(r) ==
    \A s \in Slots \ {r} : pc'[s] = pc[s] /\ Question(s)' = Question(s)

LEMMA AskedGrows ==
  ASSUME NEW r \in Slots, r \notin Asking, r \in Asking', Aside(r)
  PROVE  Asked' = Asked \cup {Question(r)'}
<1>1. Asking' = Asking \cup {r} /\ \A s \in Asking : s # r /\ Question(s)' = Question(s)
  BY DEF Asking, Aside
<1> QED
  BY <1>1, AskedAre

LEMMA AskedStays ==
  ASSUME NEW r \in Slots, r \in Asking <=> r \in Asking', Aside(r),
         r \in Asking => Question(r)' = Question(r)
  PROVE  Asked' = Asked
<1>1. Asking' = Asking /\ \A s \in Asking : Question(s)' = Question(s)
  BY DEF Asking, Aside
<1> QED
  BY <1>1, AskedAre

LEMMA AskedShrinks ==
  ASSUME TypeOK, NEW r \in Slots, r \in Asking, r \notin Asking', Aside(r)
  PROVE  Asked' = Asked \ {Question(r)} /\ Question(r) \in Asked
<1>1. Asking' = Asking \ {r} /\ \A s \in Asking \ {r} : Question(s)' = Question(s)
  BY DEF Asking, Aside
<1>2. \A s \in Asking \ {r} : Question(s) # Question(r)
  <2>1. \A s \in Asking \ {r} : number[s] # number[r]
    BY DEF Asking, TypeOK, SlotsOK
  <2> QED
    BY <2>1 DEF Question
<1> QED
  BY <1>1, <1>2, AskedAre

(* Entries of admissions since a moment are no more than these admissions. *)
LEMMA EntriesAreAdmissions ==
  ASSUME LimitInv, NEW b, NEW via, NEW moment, NEW W \in SUBSET Stamps,
         \A e \in W : e.at >= moment /\ IsAdmission(e, b, via)
  PROVE  /\ Cardinality(W) <= Cardinality(Limiter!Since(b, via, moment))
         /\ Cardinality(W) \in Nat /\ Cardinality(Limiter!Since(b, via, moment)) \in Nat
<1>1. Limiter!Since(b, via, moment) \in SUBSET admitted
  BY DEF Limiter!Since
<1>2. /\ IsFiniteSet(Limiter!Since(b, via, moment)) /\ Cardinality(W) \in Nat
      /\ Cardinality(Limiter!Since(b, via, moment)) \in Nat
  BY <1>1, AllAreFinite DEF LimitInv
<1>3. \A e, f \in W : e.n = f.n => e = f
  <2> SUFFICES ASSUME NEW e \in W, NEW f \in W, e.n = f.n PROVE e = f
    OBVIOUS
  <2>1. PICK a \in admitted : a.n = e.n /\ a.at = e.at
    BY DEF IsAdmission
  <2>2. PICK c \in admitted : c.n = f.n /\ c.at = f.at
    BY DEF IsAdmission
  <2>3. e.at = f.at
    BY <2>1, <2>2 DEF LimitInv, AdmittedOnce
  <2> QED
    BY <2>3 DEF Stamps
<1>4. \A e \in W : \E a \in Limiter!Since(b, via, moment) : a.n = e.n
  BY DEF IsAdmission, Limiter!Since, Limiter!BucketsOf, BucketsOf
<1> QED
  BY <1>2, <1>3, <1>4, EachHasItsOwn

(* Entries of one window are stamps of requests that came. *)
LEMMA WindowsAreStamps ==
  ASSUME LimitInv, NEW b \in Buckets
  PROVE  zset[b] \in SUBSET Stamps /\ memory[b] \in SUBSET Stamps /\ faults \in Nat
  BY BoundsAssumption DEF LimitInv, CountInv, TypeOK, StoresOK

-------------------------------------------------------------------------------
(* Entries stay entries of admissions. *)

LEMMA MemoryStaysOfAdmissions ==
  ASSUME MemoryIsOfAdmissions,
         \A b \in Buckets : memory'[b] \subseteq memory[b],
         \A a \in admitted : a.via = "memory" => a \in admitted'
  PROVE  MemoryIsOfAdmissions'
  BY DEF MemoryIsOfAdmissions, IsAdmission

LEMMA StraysFade ==
  ASSUME LimitInv, StraysAreFew, faults' \in Nat, faults' >= faults,
         \A b \in Buckets : \A e \in zset'[b] : e \in zset[b] \/ IsAdmission(e, b, "redis")',
         \A a \in admitted : a.via = "redis" => a \in admitted'
  PROVE  StraysAreFew'
<1>1. ASSUME NEW b \in Buckets PROVE Cardinality(Strays(b)') <= faults'
  <2>1. Strays(b)' \subseteq Strays(b)
    BY DEF Strays, IsAdmission
  <2>2. IsFiniteSet(Strays(b))
    <3>1. Strays(b) \in SUBSET Stamps
      BY WindowsAreStamps DEF Strays
    <3> QED
      BY <3>1, AllAreFinite DEF LimitInv
  <2>3. Cardinality(Strays(b)) <= faults /\ faults \in Nat
    BY WindowsAreStamps DEF StraysAreFew
  <2> QED
    BY <2>1, <2>2, <2>3, SmallerSet
<1> QED
  BY <1>1 DEF StraysAreFew

(* A recording that breaks off leaves one entry in a bucket, and is one failure. *)
LEMMA StrayComes ==
  ASSUME LimitInv, StraysAreFew, NEW x, faults' = faults + 1, admitted' = admitted,
         \A b \in Buckets : zset'[b] \subseteq zset[b] \cup {x}
  PROVE  StraysAreFew'
<1>1. ASSUME NEW b \in Buckets PROVE Cardinality(Strays(b)') <= faults'
  <2>1. Strays(b)' \subseteq Strays(b) \cup {x}
    BY DEF Strays, IsAdmission
  <2>2. IsFiniteSet(Strays(b))
    <3>1. Strays(b) \in SUBSET Stamps
      BY WindowsAreStamps DEF Strays
    <3> QED
      BY <3>1, AllAreFinite DEF LimitInv
  <2>3. Cardinality(Strays(b)) <= faults /\ faults \in Nat
    BY WindowsAreStamps DEF StraysAreFew
  <2>4. /\ Cardinality(Strays(b)') \in Nat /\ Cardinality(Strays(b)) \in Nat
        /\ Cardinality(Strays(b)') <= Cardinality(Strays(b)) + 1
    BY <2>1, <2>2, OneMore
  <2> QED
    BY <2>3, <2>4
<1> QED
  BY <1>1 DEF StraysAreFew

LEMMA DeserveInit == Init => DeserveInv
<1> SUFFICES ASSUME Init PROVE DeserveInv
  OBVIOUS
<1>1. \A b \in Buckets : memory[b] = {} /\ Strays(b) = {}
  BY DEF Init, Strays
<1>2. faults = 0 /\ Cardinality({}) = 0
  BY FS_EmptySet DEF Init
<1>3. StraysAreFew
  BY <1>1, <1>2 DEF StraysAreFew
<1> QED
  BY <1>1, <1>3, InitLimit DEF DeserveInv, MemoryIsOfAdmissions

LEMMA DeserveNext == DeserveInv /\ [Next]_vars => DeserveInv'
<1> SUFFICES ASSUME DeserveInv, [Next]_vars PROVE DeserveInv'
  OBVIOUS
<1>a. LimitInv /\ LimitInv' /\ MemoryIsOfAdmissions /\ StraysAreFew
  BY NextLimit DEF DeserveInv
<1>b. /\ SlotsOK /\ faults \in Nat /\ \A k, t : \A b \in Buckets :
            PruneZset(k, t)[b] \subseteq zset[b] /\ PruneMemory(k, t)[b] \subseteq memory[b]
  BY <1>a, BoundsAssumption, PruneZsetType, PruneMemoryType DEF LimitInv, CountInv, TypeOK, StoresOK
<1> DEFINE Goal == MemoryIsOfAdmissions' /\ StraysAreFew'
<1>1. ASSUME memory' = memory, zset' = zset, admitted' = admitted, faults' \in {faults, faults + 1}
      PROVE  Goal
  BY <1>a, <1>b, <1>1, MemoryStaysOfAdmissions, StraysFade
<1>2. ASSUME NEW r \in Slots, Phase1(r) PROVE Goal
  <2>1. zset' = PruneZset(key[r], now[r]) /\ UNCHANGED <<memory, admitted, faults>>
    BY <1>2 DEF Phase1
  <2> QED
    BY <1>a, <1>b, <2>1, MemoryStaysOfAdmissions, StraysFade
<1>3. ASSUME NEW r \in Slots, Phase2(r) PROVE Goal
  <2>e. PICK e : e = Stamped(r, now[r])
    OBVIOUS
  <2>a. PICK a : a = [n |-> number[r], key |-> key[r], at |-> now[r], via |-> "redis"]
    OBVIOUS
  <2>1. /\ zset' = Record(zset, BucketsOf(key[r]), e) /\ UNCHANGED <<memory, faults>>
        /\ admitted' = admitted \cup {a}
    BY <1>3, <2>e, <2>a DEF Phase2, Admit
  <2>2. ASSUME NEW b \in Buckets, b \in BucketsOf(key[r]) PROVE IsAdmission(e, b, "redis")'
    <3>1. a \in admitted' /\ a.n = e.n /\ a.at = e.at /\ a.via = "redis" /\ b \in BucketsOf(a.key)
      BY <2>1, <2>2, <2>e, <2>a DEF Stamped
    <3> QED
      BY <3>1 DEF IsAdmission, BucketsOf
  <2>3. \A b \in Buckets : \A d \in zset'[b] : d \in zset[b] \/ IsAdmission(d, b, "redis")'
    BY <2>1, <2>2 DEF Record
  <2> QED
    BY <1>a, <1>b, <2>1, <2>3, MemoryStaysOfAdmissions, StraysFade
<1>4. ASSUME NEW r \in Slots, RedisFails(r) PROVE Goal
  <2>1. UNCHANGED <<memory, admitted>> /\ faults' = faults + 1
    BY <1>4 DEF RedisFails
  <2>2. MemoryIsOfAdmissions'
    BY <1>a, <2>1, MemoryStaysOfAdmissions
  <2>3. \A b \in Buckets : zset'[b] \subseteq zset[b] \cup {Stamped(r, now[r])}
    BY <1>4 DEF RedisFails, Record, PrunedSet
  <2>4. StraysAreFew'
    BY <1>a, <2>1, <2>3, StrayComes
  <2> QED
    BY <2>2, <2>4
<1>5. ASSUME NEW r \in Slots, CheckMemory(r) PROVE Goal
  <2>e. PICK e : e = Stamped(r, clock)
    OBVIOUS
  <2>a. PICK a : a = [n |-> number[r], key |-> key[r], at |-> clock, via |-> "memory"]
    OBVIOUS
  <2> DEFINE pruned == PruneMemory(key[r], clock)
  <2>1. UNCHANGED <<zset, faults>>
    BY <1>5 DEF CheckMemory
  <2>2. CASE admitted' = admitted /\ memory' \in {[memory EXCEPT ![key[r]] = pruned[key[r]]], pruned}
    <3>1. \A b \in Buckets : memory'[b] \subseteq memory[b]
      BY <1>a, <1>b, <2>2 DEF LimitInv, CountInv, TypeOK, StoresOK
    <3> QED
      BY <1>a, <1>b, <2>1, <2>2, <3>1, MemoryStaysOfAdmissions, StraysFade
  <2>3. CASE admitted' = admitted \cup {a} /\ memory' = Record(pruned, BucketsOf(key[r]), e)
    <3>1. ASSUME NEW b \in Buckets, b \in BucketsOf(key[r]) PROVE IsAdmission(e, b, "memory")'
      <4>1. a \in admitted' /\ a.n = e.n /\ a.at = e.at /\ a.via = "memory" /\ b \in BucketsOf(a.key)
        BY <2>3, <3>1, <2>e, <2>a DEF Stamped
      <4> QED
        BY <4>1 DEF IsAdmission, BucketsOf
    <3>2. ASSUME NEW b \in Buckets, NEW d \in memory'[b] PROVE IsAdmission(d, b, "memory")'
      <4>1. d \in memory[b] \/ (b \in BucketsOf(key[r]) /\ d = e)
        BY <1>b, <2>3, <3>2 DEF Record
      <4>2. CASE d \in memory[b]
        BY <1>a, <2>3, <4>2 DEF MemoryIsOfAdmissions, IsAdmission
      <4> QED
        BY <3>1, <4>1, <4>2
    <3>3. StraysAreFew'
      BY <1>a, <1>b, <2>1, <2>3, StraysFade
    <3> QED
      BY <3>2, <3>3 DEF MemoryIsOfAdmissions
  <2> QED
    BY <1>5, <2>2, <2>3, <2>e, <2>a DEF CheckMemory, Admit
<1>6. ASSUME Restart PROVE Goal
  <2>1. /\ \A b \in Buckets : memory'[b] = {}
        /\ zset' = zset /\ faults' = faults + 1
        /\ admitted' = {a \in admitted : a.via = "redis"}
    BY <1>6 DEF Restart
  <2>2. MemoryIsOfAdmissions'
    BY <2>1 DEF MemoryIsOfAdmissions
  <2> QED
    BY <1>a, <1>b, <2>1, <2>2, StraysFade
<1>7. ASSUME NEW r \in Slots,
             (\E k \in Keys : Enter(r, k)) \/ ReadLimits(r) \/ PolicyFails(r)
      PROVE  Goal
  BY <1>1, <1>7 DEF Enter, ReadLimits, PolicyFails, observers
<1>8. ASSUME UpsertPolicy \/ Tick \/ UNCHANGED vars PROVE Goal
  BY <1>1, <1>8 DEF UpsertPolicy, Tick, vars, observers
<1>9. Goal
  BY <1>2, <1>3, <1>4, <1>5, <1>6, <1>7, <1>8 DEF Next
<1> QED
  BY <1>a, <1>9 DEF DeserveInv

-------------------------------------------------------------------------------
(* Each step is one of the limiter's, or changes nothing that its callers see. *)

LEMMA SameCount == \A S : Limiter!Cardinality(S) = Cardinality(S)
  BY DEF Limiter!Cardinality, Cardinality, Limiter!IsFiniteSet, IsFiniteSet

LEMMA SameWords ==
  /\ \A k : Limiter!BucketsOf(k) = BucketsOf(k)
  /\ \A p, b : Limiter!Limit(p, b) = LimitFor(p, b)
  /\ \A b, n : WithinLimit(b, n) => Limiter!HasRoom(b, n)
  BY DEF Limiter!BucketsOf, BucketsOf, Limiter!Limit, LimitFor, WithinLimit, Limiter!HasRoom

(* The admissions of the last window. *)
LEMMA SinceIsRecent ==
  ASSUME CountInv, NEW b, NEW via
  PROVE  Limiter!Since(b, via, clock - WINDOW_SECONDS + 1) = Recent(b, via)
<1>1. \A a \in admitted : a.at >= clock - WINDOW_SECONDS + 1 <=> a.at > clock - WINDOW_SECONDS
  BY WindowAssumption DEF CountInv, TypeOK, StoresOK, Admissions
<1> QED
  BY <1>1, SameWords DEF Limiter!Since, Recent

LEMMA SinceIsRecentThen ==
  ASSUME CountInv', NEW b, NEW via
  PROVE  Limiter!Since(b, via, clock - WINDOW_SECONDS + 1)' = Recent(b, via)'
<1>1. \A a \in admitted' : a.at >= clock' - WINDOW_SECONDS + 1 <=> a.at > clock' - WINDOW_SECONDS
  BY WindowAssumption DEF CountInv, TypeOK, StoresOK, Admissions
<1> QED
  BY <1>1, SameWords DEF Limiter!Since, Recent

(* A slot's limits are read: it asks. *)
LEMMA ReadLimitsAsks ==
  ASSUME DeserveInv, NEW r \in Slots, ReadLimits(r)
  PROVE  Limiter!Ask
<1>1. TypeOK /\ UndecidedIsOut /\ UndecidedIsNotAdmitted /\ Alone
  BY DEF DeserveInv, LimitInv, CountInv
<1>2. /\ r \notin Asking /\ r \in Asking' /\ Aside(r)
      /\ Question(r)' = [n |-> number[r], key |-> key[r], limits |-> policy, at |-> clock]
  BY <1>1 DEF ReadLimits, Goto, Asking, Aside, Question, TypeOK, SlotsOK
<1>3. Asked' = Asked \cup {[n |-> number[r], key |-> key[r], limits |-> policy, at |-> clock]}
  BY <1>2, AskedGrows
<1>4. key[r] \in Keys /\ number[r] \in 1..MaxRequests
  BY <1>1, BoundsAssumption DEF ReadLimits, TypeOK, StoresOK, SlotsOK
<1>5. number[r] \notin rejected /\ \A a \in admitted : a.n # number[r]
  BY <1>1 DEF ReadLimits, UndecidedIsOut, UndecidedIsNotAdmitted
<1>6. \A q \in Asked : q.n # number[r]
  <2>1. \A s \in Asking : s # r /\ number[s] # number[r]
    BY <1>1, <1>2 DEF Asking, TypeOK, SlotsOK
  <2> QED
    BY <2>1, AskedAre DEF Question
<1>7. Asked # {} => overlapped
  <2>1. \A s \in Asking : s # r /\ s \in Slots /\ pc[s] # "idle"
    BY <1>2 DEF Asking
  <2>2. (\E s \in Asking : TRUE) => overlapped
    BY <1>1, <2>1 DEF Alone, ReadLimits
  <2>3. Asked # {} => \E s \in Asking : TRUE
    BY AskedAre
  <2> QED
    BY <2>2, <2>3
<1>8. UNCHANGED <<admitted, rejected, policy, clock, overlapped, faults>>
  BY DEF ReadLimits, observers
<1>9. number[r] \in (1..MaxRequests) \ (rejected \cup {a.n : a \in Asked \cup admitted})
  BY <1>4, <1>5, <1>6
<1> QED
  BY <1>3, <1>4, <1>7, <1>8, <1>9 DEF Limiter!Ask

(* The first pipeline lets the slot pass or refuses it. *)
LEMMA Phase1Refuses ==
  ASSUME DeserveInv, NEW r \in Slots, Phase1(r)
  PROVE  Limiter!Reject \/ UNCHANGED Limiter!limiterVars
<1>1. /\ LimitInv /\ TypeOK /\ StraysAreFew /\ now[r] \in Int /\ limits[r] \in Policies
      /\ key[r] \in Keys
  BY DEF DeserveInv, LimitInv, CountInv, TypeOK, StoresOK, SlotsOK, Phase1
<1>2. /\ UNCHANGED <<admitted, policy, clock, overlapped, faults>>
      /\ zset' = PruneZset(key[r], now[r]) /\ r \in Asking
  BY DEF Phase1, Asking
<1>3. CASE rejected' = rejected /\ Goto(r, "phase2") /\ UNCHANGED <<key, number, limits, now>>
  <2>1. r \in Asking' /\ Aside(r) /\ Question(r)' = Question(r)
    BY <1>1, <1>3 DEF Goto, Asking, Aside, Question, TypeOK, SlotsOK
  <2>2. Asked' = Asked
    BY <1>2, <2>1, AskedStays
  <2> QED
    BY <1>2, <1>3, <2>2 DEF Limiter!limiterVars
<1>4. CASE /\ rejected' = rejected \cup {number[r]} /\ Leave(r)
           /\ Exceeded(zset', key[r], limits[r])
  <2>1. r \notin Asking' /\ Aside(r)
    BY <1>1, <1>4 DEF Leave, Goto, Asking, Aside, Question, TypeOK, SlotsOK
  <2>2. Asked' = Asked \ {Question(r)} /\ Question(r) \in Asked
    BY <1>1, <1>2, <2>1, AskedShrinks
  <2>3. PICK b \in BucketsOf(key[r]) : Cardinality(zset'[b]) >= LimitFor(limits[r], b)
    BY <1>4 DEF Exceeded, Full
  <2>4. b \in Buckets
    BY <1>1, DeptOfKey
  <2> DEFINE moment == now[r] - WINDOW_SECONDS + 1
             W == {e \in zset'[b] : IsAdmission(e, b, "redis")}
             seen == Limiter!Since(b, "redis", moment)
  <2>5. /\ zset'[b] \subseteq zset[b] /\ zset[b] \in SUBSET Stamps /\ faults \in Nat
        /\ \A e \in zset'[b] : e.at > now[r] - WINDOW_SECONDS
    BY <1>1, <1>2, <2>3, <2>4, WindowsAreStamps DEF PruneZset, PrunedSet
  <2>6. W \in SUBSET Stamps /\ \A e \in W : e.at >= moment /\ IsAdmission(e, b, "redis")
    BY <1>1, <2>5, WindowAssumption DEF Stamps
  <2>7. Cardinality(W) <= Cardinality(seen) /\ Cardinality(W) \in Nat /\ Cardinality(seen) \in Nat
    BY <1>1, <2>6, EntriesAreAdmissions
  <2>8. Cardinality(Strays(b)) <= faults /\ Cardinality(Strays(b)) \in Nat
        /\ IsFiniteSet(Strays(b)) /\ IsFiniteSet(W)
    BY <1>1, <2>4, <2>5, <2>6, AllAreFinite DEF StraysAreFew, Strays, LimitInv
  <2>9. Cardinality(zset'[b]) \in Nat /\ Cardinality(zset'[b]) <= Cardinality(W) + Cardinality(Strays(b))
    <3>1. zset'[b] \in SUBSET (W \cup Strays(b))
      BY <2>5 DEF Strays
    <3>2. IsFiniteSet(W \cup Strays(b)) /\ IsFiniteSet(W \cap Strays(b))
          /\ Cardinality(W \cup Strays(b))
               = Cardinality(W) + Cardinality(Strays(b)) - Cardinality(W \cap Strays(b))
      BY <2>8, FS_Union, FS_Subset
    <3>3. Cardinality(W \cap Strays(b)) \in Nat
      BY <3>2, FS_CardinalityType
    <3>4. Cardinality(zset'[b]) \in Nat /\ Cardinality(zset'[b]) <= Cardinality(W \cup Strays(b))
          /\ Cardinality(W \cup Strays(b)) \in Nat
      BY <3>1, <3>2, SmallerSet
    <3> QED
      BY <2>7, <2>8, <3>2, <3>3, <3>4
  <2>10. LimitFor(limits[r], b) \in Nat
    BY <1>1, PolicyAssumption DEF LimitFor
  <2>11. Cardinality(seen) + faults >= LimitFor(limits[r], b)
    BY <2>3, <2>5, <2>7, <2>8, <2>9, <2>10
  <2>12. PICK q \in Asked : /\ q = Question(r) /\ q.n = number[r] /\ q.key = key[r]
                            /\ q.limits = limits[r] /\ q.at = now[r]
    BY <2>2 DEF Question
  <2>13. \E c \in Limiter!BucketsOf(q.key) :
            Limiter!Cardinality(Limiter!Since(c, "redis", moment)) + faults >= Limiter!Limit(q.limits, c)
    BY <2>3, <2>11, <2>12, SameWords, SameCount
  <2>14. Limiter!Refuse(q, moment, "redis", faults)
    BY <1>2, <1>4, <2>2, <2>12, <2>13 DEF Limiter!Refuse
  <2> QED
    BY <2>12, <2>14 DEF Limiter!Reject
<1> QED
  BY <1>3, <1>4 DEF Phase1

(* The second pipeline lets it through. *)
LEMMA Phase2Admits ==
  ASSUME DeserveInv, LimitInv', NEW r \in Slots, Phase2(r)
  PROVE  Limiter!Admit
<1>1. TypeOK /\ CountInv' /\ key[r] \in Keys
  BY DEF DeserveInv, LimitInv, CountInv, TypeOK, SlotsOK, Phase2
<1>0. RedisSlack'
  BY HoldsInRedis, PTL
<1>2. /\ UNCHANGED <<rejected, policy, clock, overlapped, faults>>
      /\ admitted' = admitted \cup {[n |-> number[r], key |-> key[r], at |-> now[r], via |-> "redis"]}
      /\ Leave(r) /\ r \in Asking
  BY DEF Phase2, Admit, Asking
<1>3. r \notin Asking' /\ Aside(r)
  BY <1>1, <1>2 DEF Leave, Goto, Asking, Aside, Question, TypeOK, SlotsOK
<1>4. Asked' = Asked \ {Question(r)} /\ Question(r) \in Asked
  BY <1>1, <1>2, <1>3, AskedShrinks
<1> DEFINE slack == IF overlapped THEN Cardinality(Slots) - 1 ELSE 0
<1>5. slack = Slack'
  BY <1>2 DEF Slack
<1>6. ASSUME NEW b \in BucketsOf(key[r])
      PROVE  Limiter!HasRoom(b, Cardinality(Limiter!Since(b, "redis", clock - WINDOW_SECONDS + 1)') - slack)
  <2>1. WithinLimit(b, Cardinality(Recent(b, "redis")') - slack)
    BY <1>0, <1>1, <1>5, DeptOfKey DEF RedisSlack, WithinLimit
  <2> QED
    BY <1>1, <2>1, SinceIsRecentThen, SameWords
<1>7. PICK q \in Asked : /\ q = Question(r) /\ q.n = number[r] /\ q.key = key[r]
                         /\ q.limits = limits[r] /\ q.at = now[r]
  BY <1>4 DEF Question
<1>8. Limiter!BucketsOf(q.key) = BucketsOf(key[r])
  BY <1>7, SameWords
<1>9. Limiter!Let(q, q.at, "redis", slack)
  BY <1>2, <1>4, <1>6, <1>7, <1>8, SameCount DEF Limiter!Let
<1> QED
  BY <1>7, <1>9, SameCount DEF Limiter!Admit

(* Without Redis, a slot is refused on the entries of the memory. *)
LEMMA MemoryRefuses ==
  ASSUME DeserveInv, NEW r \in Slots, CheckMemory(r),
         Exceeded(PruneMemory(key[r], clock), key[r], limits[r]),
         rejected' = rejected \cup {number[r]}, admitted' = admitted
  PROVE  Limiter!Reject
<1>1. /\ LimitInv /\ TypeOK /\ MemoryIsOfAdmissions /\ clock \in Int /\ limits[r] \in Policies
      /\ key[r] \in Keys
  BY DEF DeserveInv, LimitInv, CountInv, TypeOK, StoresOK, SlotsOK, CheckMemory
<1>2. UNCHANGED <<policy, clock, overlapped, faults>> /\ Leave(r) /\ r \in Asking
  BY DEF CheckMemory, Asking
<1>3. r \notin Asking' /\ Aside(r)
  BY <1>1, <1>2 DEF Leave, Goto, Asking, Aside, Question, TypeOK, SlotsOK
<1>4. Asked' = Asked \ {Question(r)} /\ Question(r) \in Asked
  BY <1>1, <1>2, <1>3, AskedShrinks
<1>5. PICK b \in BucketsOf(key[r]) :
        Cardinality(PruneMemory(key[r], clock)[b]) >= LimitFor(limits[r], b)
  BY DEF Exceeded, Full
<1>6. b \in Buckets
  BY <1>1, DeptOfKey
<1> DEFINE moment == clock - WINDOW_SECONDS
           W == PruneMemory(key[r], clock)[b]
           seen == Limiter!Since(b, "memory", moment)
<1>7. W \in SUBSET Stamps /\ \A e \in W : e.at >= moment /\ IsAdmission(e, b, "memory")
  BY <1>1, <1>5, <1>6, WindowsAreStamps DEF PruneMemory, PrunedDeque, MemoryIsOfAdmissions
<1>8. Cardinality(W) <= Cardinality(seen) /\ Cardinality(W) \in Nat /\ Cardinality(seen) \in Nat
  BY <1>1, <1>7, EntriesAreAdmissions
<1>9. LimitFor(limits[r], b) \in Nat
  BY <1>1, PolicyAssumption DEF LimitFor
<1>10. Cardinality(seen) + 0 >= LimitFor(limits[r], b)
  BY <1>5, <1>8, <1>9
<1>11. PICK q \in Asked : /\ q = Question(r) /\ q.n = number[r] /\ q.key = key[r]
                          /\ q.limits = limits[r]
  BY <1>4 DEF Question
<1>12. \E c \in Limiter!BucketsOf(q.key) :
         Limiter!Cardinality(Limiter!Since(c, "memory", moment)) + 0 >= Limiter!Limit(q.limits, c)
  BY <1>5, <1>10, <1>11, SameWords, SameCount
<1>13. Limiter!Refuse(q, moment, "memory", 0)
  BY <1>2, <1>4, <1>11, <1>12 DEF Limiter!Refuse
<1> QED
  BY <1>11, <1>13 DEF Limiter!Reject

(* ... or let through, with room in both of its windows. *)
LEMMA MemoryAdmits ==
  ASSUME DeserveInv, LimitInv', NEW r \in Slots, CheckMemory(r),
         Admit(r, clock, "memory"), rejected' = rejected
  PROVE  Limiter!Admit
<1>1. TypeOK /\ CountInv' /\ MemoryExact' /\ key[r] \in Keys
  BY DEF DeserveInv, LimitInv, CountInv, TypeOK, SlotsOK, CheckMemory
<1>2. /\ UNCHANGED <<policy, clock, overlapped, faults>> /\ Leave(r) /\ r \in Asking
      /\ admitted' = admitted \cup {[n |-> number[r], key |-> key[r], at |-> clock, via |-> "memory"]}
  BY DEF CheckMemory, Admit, Asking
<1>3. r \notin Asking' /\ Aside(r)
  BY <1>1, <1>2 DEF Leave, Goto, Asking, Aside, Question, TypeOK, SlotsOK
<1>4. Asked' = Asked \ {Question(r)} /\ Question(r) \in Asked
  BY <1>1, <1>2, <1>3, AskedShrinks
<1>5. PICK q \in Asked : q = Question(r) /\ q.n = number[r] /\ q.key = key[r]
  BY <1>4 DEF Question
<1>6. ASSUME NEW b \in Limiter!BucketsOf(q.key)
      PROVE  Limiter!HasRoom(b, Limiter!Cardinality(
                 Limiter!Since(b, "memory", clock - WINDOW_SECONDS + 1)') - 0)
  <2>1. b \in Buckets
    BY <1>1, <1>5, DeptOfKey, SameWords
  <2>2. IsFiniteSet(Recent(b, "memory"))
    BY AllAreFinite DEF DeserveInv, LimitInv, Recent
  <2>3. PICK a : Recent(b, "memory")' \subseteq Recent(b, "memory") \cup {a}
    BY <1>2 DEF Recent
  <2>4. Cardinality(Recent(b, "memory")') \in Nat
    BY <2>2, <2>3, OneMore
  <2>5. WithinLimit(b, Cardinality(Recent(b, "memory")') - 0)
    BY <1>1, <2>1, <2>4 DEF MemoryExact, WithinLimit
  <2> QED
    BY <1>1, <2>5, SinceIsRecentThen, SameWords, SameCount
<1>7. Limiter!Let(q, clock, "memory", 0)
  BY <1>2, <1>4, <1>5, <1>6 DEF Limiter!Let
<1> QED
  BY <1>5, <1>7 DEF Limiter!Admit

LEMMA CheckMemoryDecides ==
  ASSUME DeserveInv, LimitInv', NEW r \in Slots, CheckMemory(r)
  PROVE  Limiter!Reject \/ Limiter!Admit
  BY MemoryRefuses, MemoryAdmits DEF CheckMemory

(* A failure takes a question back, if there was one. *)
LEMMA FailureIsOne ==
  ASSUME DeserveInv, NEW r \in Slots, RedisFails(r) \/ PolicyFails(r)
  PROVE  Limiter!Fail
<1>1. TypeOK
  BY DEF DeserveInv, LimitInv, CountInv
<1>2. /\ UNCHANGED <<admitted, rejected, policy, clock, overlapped>> /\ faults' = faults + 1
      /\ pc[r] \in {"limits", "phase1", "phase2", "fallback"}
      /\ pc[r] = "fallback" => PolicyFails(r)
  BY DEF RedisFails, PolicyFails, observers
<1>3. r \notin Asking' /\ Aside(r)
  <2>1. CASE RedisFails(r)
    BY <1>1, <2>1 DEF RedisFails, Goto, Asking, Aside, Question, TypeOK, SlotsOK
  <2>2. CASE PolicyFails(r)
    BY <1>1, <2>2 DEF PolicyFails, Leave, Goto, Asking, Aside, Question, TypeOK, SlotsOK
  <2> QED
    BY <2>1, <2>2
<1>4. Asked' = Asked \/ (Asked' = Asked \ {Question(r)} /\ Question(r) \in Asked)
  <2>1. CASE r \in Asking
    BY <1>1, <1>3, <2>1, AskedShrinks
  <2>2. CASE r \notin Asking
    BY <1>3, <2>2, AskedStays
  <2> QED
    BY <2>1, <2>2
<1> QED
  BY <1>2, <1>4 DEF Limiter!Fail

(* Who enters has not asked yet. *)
LEMMA EnterIsElsewhere ==
  ASSUME DeserveInv, NEW r \in Slots, NEW k \in Keys, Enter(r, k)
  PROVE  Limiter!Elsewhere \/ UNCHANGED Limiter!limiterVars
<1>1. TypeOK /\ UNCHANGED <<admitted, rejected, policy, clock, faults>>
  BY DEF DeserveInv, LimitInv, CountInv, Enter
<1>2. r \notin Asking /\ r \notin Asking' /\ Aside(r)
  BY <1>1 DEF Enter, Goto, Asking, Aside, Question, TypeOK, SlotsOK
<1>3. Asked' = Asked
  BY <1>2, AskedStays
<1>4. overlapped' = overlapped \/ overlapped' = TRUE
  <2>1. overlapped \in BOOLEAN /\ overlapped' = (overlapped \/ \E s \in Slots : pc[s] # "idle")
    BY <1>1, Zenon DEF Enter, TypeOK, FlagsOK
  <2> QED
    BY <2>1
<1> QED
  BY <1>1, <1>3, <1>4 DEF Limiter!Elsewhere, Limiter!limiterVars

LEMMA RestartIsOne ==
  ASSUME Restart
  PROVE  Limiter!Restart
<1>1. Asking' = {}
  BY DEF Restart, Asking
<1>2. Asked' = {}
  BY <1>1, AskedAre
<1> QED
  BY <1>2 DEF Restart, Limiter!Restart

LEMMA LimiterInit == Init => Limiter!Init
<1> SUFFICES ASSUME Init PROVE Limiter!Init
  OBVIOUS
<1>1. Asking = {}
  BY DEF Init, Asking
<1>2. Asked = {}
  BY <1>1, AskedAre
<1> QED
  BY <1>2 DEF Init, Limiter!Init

LEMMA LimiterStep ==
  DeserveInv /\ DeserveInv' /\ [Next]_vars => [Limiter!Next]_(Limiter!limiterVars)
<1> SUFFICES ASSUME DeserveInv, DeserveInv', [Next]_vars
             PROVE  Limiter!Next \/ UNCHANGED Limiter!limiterVars
  OBVIOUS
<1>0. LimitInv'
  BY DEF DeserveInv
<1>1. ASSUME NEW r \in Slots, NEW k \in Keys, Enter(r, k)
      PROVE  Limiter!Next \/ UNCHANGED Limiter!limiterVars
  BY <1>1, EnterIsElsewhere DEF Limiter!Next
<1>2. ASSUME NEW r \in Slots, ReadLimits(r) PROVE Limiter!Next
  BY <1>2, ReadLimitsAsks DEF Limiter!Next
<1>3. ASSUME NEW r \in Slots, Phase1(r) PROVE Limiter!Next \/ UNCHANGED Limiter!limiterVars
  BY <1>3, Phase1Refuses DEF Limiter!Next
<1>4. ASSUME NEW r \in Slots, Phase2(r) PROVE Limiter!Next
  BY <1>0, <1>4, Phase2Admits DEF Limiter!Next
<1>5. ASSUME NEW r \in Slots, RedisFails(r) \/ PolicyFails(r) PROVE Limiter!Next
  BY <1>5, FailureIsOne DEF Limiter!Next
<1>6. ASSUME NEW r \in Slots, CheckMemory(r) PROVE Limiter!Next
  BY <1>0, <1>6, CheckMemoryDecides DEF Limiter!Next
<1>7. ASSUME UpsertPolicy \/ Tick PROVE Limiter!Next
  <2>1. Asked' = Asked /\ UNCHANGED <<admitted, rejected, overlapped, faults>>
    BY <1>7 DEF UpsertPolicy, Tick, Asked, locals, observers
  <2>2. (policy' \in Policies /\ clock' = clock) \/ (clock' = clock + 1 /\ policy' = policy)
    BY <1>7 DEF UpsertPolicy, Tick
  <2> QED
    BY <2>1, <2>2 DEF Limiter!Next, Limiter!Elsewhere
<1>8. CASE Restart
  BY <1>8, RestartIsOne DEF Limiter!Next
<1>9. CASE UNCHANGED vars
  BY <1>9 DEF vars, locals, observers, Asked, Limiter!limiterVars
<1> QED
  BY <1>1, <1>2, <1>3, <1>4, <1>5, <1>6, <1>7, <1>8, <1>9 DEF Next

(* RefinesLimiter: for any number of requests at once and through failures,
   restarts and changes of the policy, check_rate_limit lets a request through
   only where there is room, and answers 429 only where there is none. *)
THEOREM LimiterImplemented == Spec => RefinesLimiter
  BY DeserveInit, DeserveNext, LimiterInit, LimiterStep, PTL DEF Spec, RefinesLimiter, Limiter!Spec

================================================================================
