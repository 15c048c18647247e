------------------------------ MODULE BudgetProofs ------------------------------
(***************************************************************************)
(* Proofs about Budget, for any numbers of requests and upserts at once,   *)
(* any prices, token counts, limits and months.                            *)
(***************************************************************************)
EXTENDS Budget, FiniteSetTheorems, TLAPS

-------------------------------------------------------------------------------
(* Costs. *)

LEMMA RoundedIsNatural ==
  ASSUME NEW n \in Nat, NEW d \in Nat \ {0}, NEW q \in Rounded(n, d)
  PROVE  q \in Nat
<1>1. n \div d \in Nat
  OBVIOUS
<1> QED
  BY <1>1 DEF Rounded

(* What a call is worth is a natural number, priced or not. *)
LEMMA WorthsAreNatural == Worths \subseteq Nat
<1>1. ASSUME NEW reported \in Nat, NEW words \in Nat PROVE Tokens(reported, words) \subseteq Nat
  <2>1. 13 * words \in Nat
    OBVIOUS
  <2> QED
    BY <2>1, RoundedIsNatural DEF Tokens, estimate_tokens
<1>2. ASSUME NEW model, NEW input \in Nat, NEW output \in Nat PROVE Worth(model, input, output) \in Nat
  <2>1. CASE model \in DOMAIN Pricing
    <3>1. Pricing[model].input \in Nat /\ Pricing[model].output \in Nat
      BY <2>1, PricingAssumption
    <3>2. input * Pricing[model].input \in Nat /\ output * Pricing[model].output \in Nat
      BY <3>1
    <3> QED
      BY <2>1, <3>2 DEF Worth
  <2>2. CASE model \notin DOMAIN Pricing
    BY <2>2 DEF Worth
  <2> QED
    BY <2>1, <2>2
<1>3. \A usage \in Usages \cup {[input |-> 0, output |-> 0]} :
        /\ Tokens(usage.input, RequestWords) \subseteq Nat
        /\ Tokens(usage.output, ResponseWords) \subseteq Nat
  BY <1>1, UsageAssumption
<1> QED
  BY <1>2, <1>3 DEF Worths

(* A row shows whole cents, and between half a hundredth of a cent more and a
   cent less than the call was worth. *)
LEMMA CentsAreClose ==
  ASSUME NEW worth \in Nat, NEW cents \in Cents(worth)
  PROVE  cents \in Nat /\ worth - 10000 * cents \in -50..9950
<1>1. PICK h \in Rounded(worth, 100) : cents = h \div 100
  BY DEF Cents
<1>2. h \in Nat /\ 2 * (h * 100 - worth) <= 100 /\ 2 * (worth - h * 100) <= 100
  <2>1. h \in Nat
    BY RoundedIsNatural
  <2> QED
    BY <2>1 DEF Rounded, Abs
<1>3. cents \in Nat /\ h - 100 * cents \in 0..99
  BY <1>1, <1>2
<1> QED
  BY <1>2, <1>3

-------------------------------------------------------------------------------
(* The type invariant. *)

LEMMA CreatedIsPolicy ==
  ASSUME NEW b \in Bodies
  PROVE  Created(b) \in Policies
  BY DEF Created, Bodies, Policies

LEMMA UpdatedIsPolicy ==
  ASSUME NEW row \in Policies, NEW seen \in Policies, NEW b \in Bodies
  PROVE  Updated(row, seen, b) \in Policies
  BY DEF Updated, Fields, Bodies, Policies

LEMMA LimitType ==
  ASSUME NEW row \in Rows
  PROVE  LimitIn(row) \in Limits \cup {None}
  BY DEF LimitIn, Rows, Policies

LEMMA InitType == Init => TypeOK
<1> SUFFICES ASSUME Init PROVE TypeOK
  OBVIOUS
<1>1. PolicyOK
  BY CreatedIsPolicy DEF Init, PolicyOK, Rows
<1>2. LedgerOK
  BY BoundsAssumption DEF Init, LedgerOK, Months
<1>3. RequestsOK
  BY BoundsAssumption DEF Init, RequestsOK
<1>4. UpsertsOK
  BY DEF Init, UpsertsOK, Rows
<1> QED
  BY <1>1, <1>2, <1>3, <1>4 DEF Init, TypeOK

(* Nothing a request does touches what upserts know. *)
LEMMA UpsertsUntouched ==
  ASSUME TypeOK, NEW r \in Requests, NEW l, pc' = [pc EXCEPT ![r] = l],
         UNCHANGED <<policy, body, loaded>>
  PROVE  PolicyOK' /\ UpsertsOK' /\ DOMAIN pc' = Requests \cup Upserts
  BY RequestsAssumption DEF TypeOK, PolicyOK, UpsertsOK

(* Nothing an upsert does touches the ledger or a request. *)
LEMMA RequestsUntouched ==
  ASSUME TypeOK, NEW u \in Upserts, NEW l, pc' = [pc EXCEPT ![u] = l],
         UNCHANGED <<month, started, cost, limit, month_start>>
  PROVE  LedgerOK' /\ RequestsOK' /\ DOMAIN pc' = Requests \cup Upserts
  BY RequestsAssumption DEF TypeOK, LedgerOK, RequestsOK

LEMMA NextType == TypeOK /\ [Next]_vars => TypeOK'
<1> SUFFICES ASSUME TypeOK, [Next]_vars PROVE TypeOK'
  OBVIOUS
<1>1. ASSUME NEW r \in Requests, ReadPolicy(r) PROVE TypeOK'
  <2>1. LedgerOK' /\ month \in Nat /\ month # 0
    BY <1>1 DEF ReadPolicy, TypeOK, LedgerOK, Months
  <2>2. CASE LimitIn(policy) = None
    <3>1. RequestsOK'
      BY <1>1, <2>2 DEF ReadPolicy, TypeOK, RequestsOK
    <3> QED
      BY <1>1, <2>1, <2>2, <3>1, UpsertsUntouched DEF ReadPolicy, TypeOK
  <2>3. CASE LimitIn(policy) # None
    <3>1. RequestsOK'
      BY <1>1, <2>1, <2>3, LimitType DEF ReadPolicy, TypeOK, PolicyOK, RequestsOK
    <3> QED
      BY <1>1, <2>1, <2>3, <3>1, UpsertsUntouched DEF ReadPolicy, TypeOK
  <2> QED
    BY <2>2, <2>3
<1>2. ASSUME NEW r \in Requests, SumCosts(r) PROVE TypeOK'
  <2>1. PICK l \in {"idle", "forwarded"} : pc' = [pc EXCEPT ![r] = l]
    BY <1>2 DEF SumCosts
  <2>2. LedgerOK' /\ month \in Nat
    BY <1>2 DEF SumCosts, TypeOK, LedgerOK, Months
  <2>3. RequestsOK'
    BY <1>2, <2>1, <2>2 DEF SumCosts, TypeOK, RequestsOK
  <2> QED
    BY <1>2, <2>1, <2>2, <2>3, UpsertsUntouched DEF SumCosts, TypeOK
<1>3. ASSUME NEW r \in Requests, NEW cents \in Nat, Row(r, cents) PROVE TypeOK'
  <2>1. LedgerOK'
    <3>1. started \in Months /\ cost[started] + cents \in Nat
      BY BoundsAssumption DEF TypeOK, LedgerOK, Months
    <3> QED
      BY <1>3, <3>1, BoundsAssumption DEF Row, TypeOK, LedgerOK, Months
  <2>2. RequestsOK'
    BY <1>3 DEF Row, TypeOK, RequestsOK
  <2> QED
    BY <1>3, <2>1, <2>2, UpsertsUntouched DEF Row, TypeOK
<1>4. ASSUME NEW r \in Requests, Log(r) \/ LogStream(r) PROVE TypeOK'
  BY <1>3, <1>4, CentsAreClose, WorthsAreNatural DEF Log, LogStream
<1>5. ASSUME NEW r \in Requests, Lost(r) PROVE TypeOK'
  <2>1. LedgerOK' /\ RequestsOK'
    BY <1>5 DEF Lost, TypeOK, LedgerOK, RequestsOK
  <2> QED
    BY <1>5, <2>1, UpsertsUntouched DEF Lost, TypeOK
<1>6. ASSUME NEW u \in Upserts, Select(u) PROVE TypeOK'
  <2>1. PolicyOK' /\ UpsertsOK'
    BY <1>6 DEF Select, TypeOK, PolicyOK, UpsertsOK
  <2> QED
    BY <1>6, <2>1, RequestsUntouched DEF Select, TypeOK
<1>7. ASSUME NEW u \in Upserts, Commit(u) PROVE TypeOK'
  <2>1. policy' \in Policies
    <3>1. CASE loaded[u] = None
      BY <1>7, <3>1, CreatedIsPolicy DEF Commit, TypeOK, UpsertsOK
    <3>2. CASE loaded[u] # None
      BY <1>7, <3>2, UpdatedIsPolicy DEF Commit, TypeOK, PolicyOK, UpsertsOK, Rows
    <3> QED
      BY <3>1, <3>2
  <2>2. PolicyOK' /\ UpsertsOK'
    BY <1>7, <2>1, NoneAssumption DEF Commit, Leave, TypeOK, PolicyOK, UpsertsOK, Rows
  <2> QED
    BY <1>7, <2>2, RequestsUntouched DEF Commit, Leave, TypeOK
<1>8. ASSUME NEW u \in Upserts, CommitFails(u) PROVE TypeOK'
  <2>1. PolicyOK' /\ UpsertsOK'
    BY <1>8 DEF CommitFails, Leave, TypeOK, PolicyOK, UpsertsOK, Rows
  <2> QED
    BY <1>8, <2>1, RequestsUntouched DEF CommitFails, Leave, TypeOK
<1>9. ASSUME NextMonth PROVE TypeOK'
  <2>1. LedgerOK' /\ RequestsOK'
    BY <1>9, BoundsAssumption DEF NextMonth, locals, TypeOK, LedgerOK, RequestsOK, Months
  <2> QED
    BY <1>9, <2>1 DEF NextMonth, locals, TypeOK, PolicyOK, UpsertsOK
<1>10. ASSUME Restart PROVE TypeOK'
  <2>1. LedgerOK' /\ RequestsOK'
    BY <1>10 DEF Restart, TypeOK, LedgerOK, RequestsOK, Months
  <2> QED
    BY <1>10, <2>1 DEF Restart, TypeOK, PolicyOK, UpsertsOK, Rows
<1>11. ASSUME UNCHANGED vars PROVE TypeOK'
  BY <1>11 DEF vars, locals, TypeOK, PolicyOK, LedgerOK, RequestsOK, UpsertsOK
<1> QED
  BY <1>1, <1>2, <1>4, <1>5, <1>6, <1>7, <1>8, <1>9, <1>10, <1>11 DEF Next

(* TypeOK: through any months, restarts and overlapping upserts rows are stamped
   with months that have begun, and a policy, once made, stays one. *)
THEOREM BudgetTypeCorrect == Spec => []TypeOK
  BY InitType, NextType, PTL DEF Spec

-------------------------------------------------------------------------------
(* Upserts. *)

(* Only a commit writes the policy. *)
LEMMA OnlyCommitWrites ==
  ASSUME [Next]_vars
  PROVE  policy' = policy \/ \E u \in Upserts : Commit(u)
  BY DEF Next, vars, ReadPolicy, SumCosts, Log, LogStream, Row, Lost, Select, CommitFails,
     NextMonth, Restart

LEMMA StepKeepsOthers ==
  ASSUME TypeOK, [Next]_vars, policy # None, policy' # policy
  PROVE  \E u \in Upserts :
            /\ pc[u] = "selected" /\ pc'[u] = "idle"
            /\ \A f \in Fields : policy'[f] # policy[f] => policy'[f] = body[u][f]
<1>1. PICK u \in Upserts : Commit(u)
  BY OnlyCommitWrites
<1>2. pc[u] = "selected" /\ pc'[u] = "idle"
  BY <1>1 DEF Commit, Leave, TypeOK
<1>3. policy' = Updated(policy, loaded[u], body[u])
  BY <1>1 DEF Commit
<1> QED
  BY <1>2, <1>3 DEF Updated

(* UpsertKeepsOthers: whatever calls overlap, a commit writes nothing into an
   existing row but what its own body states. *)
THEOREM OthersAreKept == Spec => UpsertKeepsOthers
<1>1. TypeOK /\ [Next]_vars =>
        [policy # None /\ policy' # policy =>
            \E u \in Upserts :
                /\ pc[u] = "selected" /\ pc'[u] = "idle"
                /\ \A f \in Fields : policy'[f] # policy[f] => policy'[f] = body[u][f]]_vars
  BY StepKeepsOthers
<1> QED
  BY <1>1, InitType, NextType, PTL DEF Spec, UpsertKeepsOthers

LEMMA StepStatedTakesEffect ==
  ASSUME TypeOK, NEW u \in Upserts, Commit(u), NEW f \in Fields, body[u][f] # None,
         loaded[u] # None => loaded[u][f] = policy[f]
  PROVE  policy'[f] = body[u][f] \/ (body[u][f] = EmptyList /\ policy'[f] = None)
<1>1. body[u] \in Bodies
  BY DEF Commit, TypeOK, UpsertsOK
<1>2. CASE loaded[u] = None
  BY <1>1, <1>2 DEF Commit, Created, Bodies, Fields
<1>3. CASE loaded[u] # None
  BY <1>3 DEF Commit, Updated
<1> QED
  BY <1>2, <1>3

(* StatedTakesEffect: a field nobody else wrote in between has the value the
   body stated, though SQLAlchemy leaves out what equals the row it loaded. *)
THEOREM StatedValuesTakeEffect == Spec => StatedTakesEffect
<1>1. TypeOK => [\A u \in Upserts : Commit(u) =>
        \A f \in Fields :
            body[u][f] # None /\ (loaded[u] # None => loaded[u][f] = policy[f]) =>
                \/ policy'[f] = body[u][f]
                \/ body[u][f] = EmptyList /\ policy'[f] = None]_vars
  BY StepStatedTakesEffect
<1> QED
  BY <1>1, InitType, NextType, PTL DEF Spec, StatedTakesEffect

-------------------------------------------------------------------------------
(* Rounding. *)

CountOK == priced \in Nat /\ unbilled \in Int /\ UndercountIsBounded

LEMMA NextCount == CountOK /\ [Next]_vars => CountOK'
<1> SUFFICES ASSUME CountOK, [Next]_vars PROVE CountOK'
  OBVIOUS
<1>1. \/ UNCHANGED <<unbilled, priced>>
      \/ \E worth \in Worths : \E cents \in Cents(worth) :
            unbilled' = unbilled + worth - 10000 * cents /\ priced' = priced + 1
  BY DEF Next, vars, observers, ReadPolicy, SumCosts, Log, LogStream, Lost, Select, Commit,
     CommitFails, Leave, NextMonth, Restart
<1>2. CASE UNCHANGED <<unbilled, priced>>
  BY <1>2 DEF CountOK, UndercountIsBounded
<1>3. ASSUME NEW worth \in Worths, NEW cents \in Cents(worth),
             unbilled' = unbilled + worth - 10000 * cents, priced' = priced + 1
      PROVE  CountOK'
  <2>1. worth \in Nat /\ cents \in Nat /\ worth - 10000 * cents \in -50..9950
    BY <1>3, WorthsAreNatural, CentsAreClose
  <2> QED
    BY <1>3, <2>1 DEF CountOK, UndercountIsBounded
<1> QED
  BY <1>1, <1>2, <1>3

(* UndercountIsBounded: for any prices and token counts the rows show no more
   than half a hundredth of a cent too much for each answer, and less than a cent
   too little. *)
THEOREM RoundingIsBounded == Spec => []UndercountIsBounded
<1>1. Init => CountOK
  BY DEF Init, CountOK, UndercountIsBounded
<1>2. CountOK => UndercountIsBounded
  BY DEF CountOK
<1> QED
  BY <1>1, <1>2, NextCount, PTL DEF Spec

-------------------------------------------------------------------------------
(* Sums.  A sum is the number of cells of a table with a row for each key, so
   that what is known of finite sets applies to it. *)

Sum(f, K) == MapThenSumSet(LAMBDA k : f[k], K)

(* One cell for each unit of each f[k]. *)
Cells(f, K) == UNION {{k} \X (1..f[k]) : k \in K}

Some(s) == CHOOSE k \in s : TRUE

(* What the fold over a set unfolds to. *)
Folds(g, f, K) ==
    g = [s \in SUBSET K |-> IF s = {} THEN 0 ELSE f[Some(s)] + g[s \ {Some(s)}]]

LEMMA FirstNaturals ==
  ASSUME NEW n \in Nat
  PROVE  IsFiniteSet(1..n) /\ Cardinality(1..n) = n
<1>1. IsFiniteSet(1..n) /\ Cardinality(1..n) = IF 1 > n THEN 0 ELSE n - 1 + 1
  BY FS_Interval
<1> QED
  BY <1>1

LEMMA CellsAreFinite ==
  ASSUME NEW K, IsFiniteSet(K), NEW f, \A k \in K : f[k] \in Nat
  PROVE  IsFiniteSet(Cells(f, K)) /\ Cardinality(Cells(f, K)) \in Nat
<1> DEFINE row(k) == {k} \X (1..f[k])
           rows == {row(k) : k \in K}
           h == [k \in K |-> row(k)]
<1>1. h \in Surjection(K, rows)
  BY DEF Surjection
<1>2. IsFiniteSet(rows)
  BY <1>1, FS_Surjection
<1>3. \A r \in rows : IsFiniteSet(r)
  <2>1. ASSUME NEW k \in K PROVE IsFiniteSet(row(k))
    <3>1. IsFiniteSet({k}) /\ IsFiniteSet(1..f[k])
      BY FS_Singleton, FirstNaturals
    <3> QED
      BY <3>1, FS_Product
  <2> QED
    BY <2>1
<1>4. IsFiniteSet(UNION rows)
  BY <1>2, <1>3, FS_UNION
<1> QED
  BY <1>4, FS_CardinalityType DEF Cells

(* The cells of one key, and the others. *)
LEMMA CellsOfOne ==
  ASSUME NEW K, IsFiniteSet(K), NEW f, \A k \in K : f[k] \in Nat, NEW j \in K
  PROVE  Cardinality(Cells(f, K)) = f[j] + Cardinality(Cells(f, K \ {j}))
<1> DEFINE one == {j} \X (1..f[j])
           rest == Cells(f, K \ {j})
<1>1. Cells(f, K) = one \cup rest /\ one \cap rest = {}
  <2>1. Cells(f, K) = one \cup rest
    BY DEF Cells
  <2>2. \A c \in rest : c[1] # j
    BY DEF Cells
  <2>3. \A c \in one : c[1] = j
    OBVIOUS
  <2> QED
    BY <2>1, <2>2, <2>3
<1>2. IsFiniteSet(one) /\ Cardinality(one) = f[j]
  <2>1. IsFiniteSet({j}) /\ Cardinality({j}) = 1
    BY FS_Singleton
  <2>2. f[j] \in Nat /\ IsFiniteSet(1..f[j]) /\ Cardinality(1..f[j]) = f[j]
    BY FirstNaturals
  <2>3. IsFiniteSet(one) /\ Cardinality(one) = Cardinality({j}) * Cardinality(1..f[j])
    BY <2>1, <2>2, FS_Product
  <2> QED
    BY <2>1, <2>2, <2>3
<1>3. IsFiniteSet(rest) /\ Cardinality(rest) \in Nat
  <2>1. IsFiniteSet(K \ {j}) /\ \A k \in K \ {j} : f[k] \in Nat
    BY FS_Subset
  <2> QED
    BY <2>1, CellsAreFinite
<1>4. Cardinality(one \cup rest) = Cardinality(one) + Cardinality(rest) - Cardinality(one \cap rest)
  BY <1>2, <1>3, FS_Union
<1>5. Cardinality(one \cap rest) = 0 /\ f[j] \in Nat
  BY <1>1, FS_EmptySet
<1> QED
  BY <1>1, <1>2, <1>3, <1>4, <1>5

(* The sum is the number of cells. *)
LEMMA SumIsCells ==
  ASSUME NEW K, IsFiniteSet(K), NEW f, \A k \in K : f[k] \in Nat
  PROVE  Sum(f, K) = Cardinality(Cells(f, K))
<1> DEFINE c == [s \in SUBSET K |-> Cardinality(Cells(f, s))]
           g == CHOOSE h : Folds(h, f, K)
<1>1. Sum(f, K) = g[K]
  BY DEF Sum, MapThenSumSet, MapThenFoldSet, Folds, Some
<1>2. c[{}] = 0
  <2>1. Cells(f, {}) = {}
    BY DEF Cells
  <2> QED
    BY <2>1, FS_EmptySet
<1>3. ASSUME NEW s \in SUBSET K, s # {}
      PROVE  Some(s) \in s /\ c[s] = f[Some(s)] + c[s \ {Some(s)}]
  <2>1. Some(s) \in s
    BY <1>3 DEF Some
  <2>2. IsFiniteSet(s)
    BY FS_Subset
  <2>3. Cardinality(Cells(f, s)) = f[Some(s)] + Cardinality(Cells(f, s \ {Some(s)}))
    BY <2>1, <2>2, CellsOfOne
  <2> QED
    BY <2>1, <2>3
<1>4. Folds(c, f, K)
  BY <1>2, <1>3 DEF Folds
<1>5. Folds(g, f, K)
  BY <1>4
<1>6. \A s \in SUBSET K : g[s] = IF s = {} THEN 0 ELSE f[Some(s)] + g[s \ {Some(s)}]
  BY <1>5 DEF Folds
<1>7. \A s \in SUBSET K : g[s] = c[s]
  <2> DEFINE bad == {s \in SUBSET K : g[s] # c[s]}
  <2>1. SUFFICES ASSUME bad # {} PROVE FALSE
    OBVIOUS
  <2>2. IsWellFoundedOn(StrictSubsetOrdering(K), SUBSET K)
    BY FS_StrictSubsetOrderingWellFounded, FS_FiniteSubsetsOfFinite
  <2>3. PICK s \in bad : \A t \in bad : ~ (<<t, s>> \in StrictSubsetOrdering(K))
    BY <2>1, <2>2, WFMin
  <2>4. s # {}
    BY <1>2, <1>6
  <2>5. Some(s) \in s /\ g[s] = f[Some(s)] + g[s \ {Some(s)}] /\ c[s] = f[Some(s)] + c[s \ {Some(s)}]
    BY <1>3, <1>6, <2>4
  <2>6. s \ {Some(s)} \notin bad
    BY <2>3, <2>5 DEF StrictSubsetOrdering
  <2> QED
    BY <2>5, <2>6
<1> QED
  BY <1>1, <1>7

LEMMA SumType ==
  ASSUME NEW K, IsFiniteSet(K), NEW f, \A k \in K : f[k] \in Nat
  PROVE  Sum(f, K) \in Nat
  BY SumIsCells, CellsAreFinite

LEMMA SumOfOne ==
  ASSUME NEW K, IsFiniteSet(K), NEW f, \A k \in K : f[k] \in Nat, NEW j \in K
  PROVE  Sum(f, K) = f[j] + Sum(f, K \ {j}) /\ Sum(f, K \ {j}) \in Nat
<1>1. IsFiniteSet(K \ {j}) /\ \A k \in K \ {j} : f[k] \in Nat
  BY FS_Subset
<1> QED
  BY <1>1, SumIsCells, CellsOfOne, SumType

LEMMA SumIsMonotone ==
  ASSUME NEW K, IsFiniteSet(K), NEW f, \A k \in K : f[k] \in Nat,
         NEW g, \A k \in K : g[k] \in Nat, \A k \in K : f[k] <= g[k]
  PROVE  Sum(f, K) <= Sum(g, K)
<1>1. Cells(f, K) \subseteq Cells(g, K)
  <2>1. ASSUME NEW k \in K PROVE 1..f[k] \subseteq 1..g[k]
    BY <2>1
  <2> QED
    BY <2>1 DEF Cells
<1> QED
  BY <1>1, SumIsCells, CellsAreFinite, FS_Subset

LEMMA SumIsLocal ==
  ASSUME NEW K, IsFiniteSet(K), NEW f, \A k \in K : f[k] \in Nat,
         NEW g, \A k \in K : f[k] = g[k]
  PROVE  Sum(f, K) = Sum(g, K)
<1>1. Cells(f, K) = Cells(g, K)
  BY DEF Cells
<1> QED
  BY <1>1, SumIsCells
-------------------------------------------------------------------------------
(* Sums since a month. *)

LEMMA FromMonth ==
  ASSUME NEW m \in Months
  PROVE  IsFiniteSet(m..LastMonth) /\ m..LastMonth \subseteq Months /\ m \in m..LastMonth
<1>1. m \in Int /\ LastMonth \in Int /\ 1 <= m /\ m <= LastMonth
  BY BoundsAssumption DEF Months
<1>2. IsFiniteSet(m..LastMonth)
  BY <1>1, FS_Interval
<1> QED
  BY <1>1, <1>2 DEF Months

LEMMA SinceType ==
  ASSUME NEW f \in [Months -> Nat], NEW m \in Months
  PROVE  SinceMonth(f, m) \in Nat /\ f[m] <= SinceMonth(f, m)
<1>1. IsFiniteSet(m..LastMonth) /\ m \in m..LastMonth /\ \A k \in m..LastMonth : f[k] \in Nat
  BY FromMonth
<1>2. Sum(f, m..LastMonth) = f[m] + Sum(f, (m..LastMonth) \ {m})
      /\ Sum(f, (m..LastMonth) \ {m}) \in Nat
  BY <1>1, SumOfOne
<1>3. SinceMonth(f, m) = Sum(f, m..LastMonth)
  BY DEF SinceMonth, Sum
<1> QED
  BY <1>1, <1>2, <1>3

(* A month's sum holds what is in every month from then on. *)
LEMMA SinceHolds ==
  ASSUME NEW f \in [Months -> Nat], NEW m \in Months, NEW k \in Months, m <= k
  PROVE  f[k] <= SinceMonth(f, m)
<1>1. IsFiniteSet(m..LastMonth) /\ k \in m..LastMonth /\ \A j \in m..LastMonth : f[j] \in Nat
  <2>1. k \in m..LastMonth
    BY BoundsAssumption DEF Months
  <2> QED
    BY <2>1, FromMonth
<1>2. Sum(f, m..LastMonth) = f[k] + Sum(f, (m..LastMonth) \ {k})
      /\ Sum(f, (m..LastMonth) \ {k}) \in Nat
  BY <1>1, SumOfOne
<1>3. SinceMonth(f, m) = Sum(f, m..LastMonth)
  BY DEF SinceMonth, Sum
<1> QED
  BY <1>1, <1>2, <1>3

LEMMA SinceGrows ==
  ASSUME NEW f \in [Months -> Nat], NEW m \in Months, NEW j \in Months, NEW c \in Nat,
         NEW g \in [Months -> Nat], g[j] = f[j] + c, \A k \in Months \ {j} : g[k] = f[k]
  PROVE  /\ m <= j => SinceMonth(g, m) = SinceMonth(f, m) + c
         /\ ~(m <= j) => SinceMonth(g, m) = SinceMonth(f, m)
<1> DEFINE K == m..LastMonth
<1>1. /\ IsFiniteSet(K)
      /\ \A k \in K : f[k] \in Nat /\ g[k] \in Nat
      /\ \A k \in K : k # j => g[k] = f[k]
      /\ g[j] = f[j] + c /\ f[j] \in Nat
  BY FromMonth
<1>2. SinceMonth(f, m) = Sum(f, K) /\ SinceMonth(g, m) = Sum(g, K)
  BY DEF SinceMonth, Sum
<1> HIDE DEF K
<1>3. CASE m <= j
  <2>1. j \in K
    BY <1>3, BoundsAssumption DEF Months, K
  <2>2. /\ Sum(f, K) = f[j] + Sum(f, K \ {j}) /\ Sum(g, K) = g[j] + Sum(g, K \ {j})
        /\ Sum(f, K \ {j}) \in Nat
    BY <1>1, <2>1, SumOfOne
  <2>3. Sum(g, K \ {j}) = Sum(f, K \ {j})
    <3>1. IsFiniteSet(K \ {j})
      BY <1>1, FS_Subset
    <3> QED
      BY <1>1, <3>1, SumIsLocal
  <2> QED
    BY <1>1, <1>2, <1>3, <2>2, <2>3
<1>4. CASE ~(m <= j)
  <2>1. j \notin K
    BY <1>4, BoundsAssumption DEF Months, K
  <2>2. Sum(f, K) = Sum(g, K) /\ Sum(f, K) \in Nat
    BY <1>1, <2>1, SumIsLocal, SumType
  <2> QED
    BY <1>2, <1>4, <2>2
<1> QED
  BY <1>3, <1>4

-------------------------------------------------------------------------------
(* The budget. *)

Forwarded == {r \in Requests : pc[r] = "forwarded"}

ObserversOK ==
    /\ billed \in [Months -> Nat] /\ late \subseteq Months
    /\ highest \in [Months -> Limits \cup {None}]
    /\ refused \subseteq [since : Months, limit : Limits]

(* What is billed to a month and what its rows add up to: stamps are never
   later than the truth, and what a month not late was billed, its rows say. *)
BillsOK ==
    /\ \A m \in Months : m > month => billed[m] = 0
    /\ \A m \in Months : m \notin late => billed[m] <= cost[m]
    /\ \A m \in Months : SinceMonth(cost, m) <= SinceMonth(billed, m)
    /\ started < month => month \in late \/ billed[month] = 0

(* In a process that was started this month, limits that were read are limits
   of this month. *)
LimitsOK ==
    /\ highest[month] # None => LimitIn(policy) # None /\ LimitIn(policy) <= highest[month]
    /\ started = month /\ highest[month] # None =>
         \A r \in Requests : pc[r] = "summing" => limit[r] <= highest[month]

(* Month m is within its limit although n more rows as dear as c are written. *)
HeldBy(m, n, c) == billed[m] + n * c <= highest[m] - 1 + Cardinality(Requests) * c

(* The rows of the requests on their way are counted already. *)
Held ==
    /\ started = month /\ month \notin late /\ highest[month] # None =>
         \/ billed[month] = 0 /\ Forwarded = {}
         \/ \A c \in Dearest : HeldBy(month, Cardinality(Forwarded), c)
    /\ BudgetHolds

(* The inductive invariant. *)
BudgetInv ==
    TypeOK /\ ObserversOK /\ BillsOK /\ LimitsOK /\ Held /\ RefusalIsDeserved

LEMMA DearestIsNatural == Dearest \subseteq Nat
  BY WorthsAreNatural, CentsAreClose DEF Dearest

(* Nothing the budget is about has changed. *)
LEMMA LedgerStays ==
  ASSUME BudgetInv, UNCHANGED <<month, started, cost, billed, late, highest, refused>>
  PROVE  ObserversOK' /\ BillsOK' /\ BudgetHolds' /\ RefusalIsDeserved'
  BY DEF BudgetInv, ObserversOK, BillsOK, Held, BudgetHolds, RefusalIsDeserved

LEMMA Products ==
  ASSUME NEW a \in Nat, NEW b \in Nat, NEW c \in Nat
  PROVE  /\ a * c \in Nat /\ b * c \in Nat /\ (a + 1) * c = a * c + c
         /\ a <= b => a * c <= b * c
  BY SMT

LEMMA ForwardedIsFinite ==
  /\ IsFiniteSet(Requests) /\ Cardinality(Requests) \in Nat
  /\ IsFiniteSet(Forwarded) /\ Cardinality(Forwarded) \in Nat
  /\ Cardinality(Forwarded) <= Cardinality(Requests)
  BY RequestsAssumption, FS_Subset, FS_CardinalityType DEF Forwarded

LEMMA InitBudget == Init => BudgetInv
<1> SUFFICES ASSUME Init PROVE BudgetInv
  OBVIOUS
<1>1. TypeOK
  BY InitType
<1>2. LimitIn(policy) \in Limits \cup {None} /\ month \in Months
  BY <1>1, LimitType DEF TypeOK, PolicyOK, LedgerOK
<1>3. ObserversOK
  BY <1>2 DEF Init, ObserversOK, Months
<1>4. BillsOK
  <2>1. billed = cost
    BY DEF Init
  <2>2. \A m \in Months : SinceMonth(cost, m) <= SinceMonth(billed, m)
    BY <1>3, <2>1, SinceType DEF ObserversOK
  <2>3. month = 1 /\ started = 1 /\ \A m \in Months : billed[m] = 0 /\ cost[m] = 0
    BY DEF Init
  <2> QED
    BY <2>2, <2>3 DEF BillsOK
<1>5. LimitsOK
  <2>1. highest[month] = LimitIn(policy) /\ \A r \in Requests : pc[r] = "idle"
    BY <1>2 DEF Init
  <2>2. LimitIn(policy) # None => LimitIn(policy) \in Nat
    BY <1>2, FieldAssumption
  <2> QED
    BY <2>1, <2>2 DEF LimitsOK
<1>6. Held /\ RefusalIsDeserved
  <2>1. month = 1 /\ billed[month] = 0 /\ Forwarded = {} /\ refused = {}
    BY <1>2 DEF Init, Forwarded
  <2> QED
    BY <2>1 DEF Held, BudgetHolds, RefusalIsDeserved
<1> QED
  BY <1>1, <1>3, <1>4, <1>5, <1>6 DEF BudgetInv

(* What the type invariant says of numbers. *)
LEMMA Numbers ==
  ASSUME BudgetInv
  PROVE  /\ month \in Months /\ month \in Nat /\ started \in Months /\ started \in Nat
         /\ started <= month
         /\ cost \in [Months -> Nat] /\ billed \in [Months -> Nat]
         /\ highest[month] # None => highest[month] \in Nat
<1>1. month \in Months /\ started \in 1..month /\ cost \in [Months -> Nat]
  BY DEF BudgetInv, TypeOK, LedgerOK
<1>2. billed \in [Months -> Nat] /\ highest \in [Months -> Limits \cup {None}]
  BY DEF BudgetInv, ObserversOK
<1>3. month \in Nat /\ started \in Nat /\ started \in Months /\ started <= month
  BY <1>1, BoundsAssumption DEF Months
<1>4. highest[month] # None => highest[month] \in Nat
  BY <1>1, <1>2, FieldAssumption
<1> QED
  BY <1>1, <1>2, <1>3, <1>4

(* Nothing but which requests are on their way has changed, and no more of them
   are than were. *)
LEMMA HeldStays ==
  ASSUME BudgetInv, UNCHANGED <<month, started, billed, late, highest>>,
         Forwarded' \subseteq Forwarded
  PROVE  Held'
<1>1. IsFiniteSet(Forwarded') /\ Cardinality(Forwarded') <= Cardinality(Forwarded)
      /\ Cardinality(Forwarded') \in Nat
  BY ForwardedIsFinite, FS_Subset, FS_CardinalityType
<1>2. ASSUME NEW c \in Dearest, HeldBy(month, Cardinality(Forwarded), c),
             highest[month] # None
      PROVE  HeldBy(month, Cardinality(Forwarded'), c)
  <2>1. /\ Cardinality(Forwarded') * c <= Cardinality(Forwarded) * c
        /\ Cardinality(Forwarded') * c \in Nat /\ Cardinality(Forwarded) * c \in Nat
        /\ Cardinality(Requests) * c \in Nat
    BY <1>1, ForwardedIsFinite, DearestIsNatural, Products
  <2>2. billed[month] \in Nat /\ highest[month] \in Nat
    BY <1>2, Numbers
  <2> QED
    BY <1>2, <2>1, <2>2 DEF HeldBy
<1>3. BudgetHolds'
  BY DEF BudgetInv, Held, BudgetHolds
<1> QED
  BY <1>2, <1>3 DEF BudgetInv, Held, HeldBy

LEMMA StepReadPolicy ==
  ASSUME BudgetInv, NEW r \in Requests, ReadPolicy(r)
  PROVE  ObserversOK' /\ BillsOK' /\ LimitsOK' /\ Held' /\ RefusalIsDeserved'
<1>1. ObserversOK' /\ BillsOK' /\ BudgetHolds' /\ RefusalIsDeserved'
  BY LedgerStays DEF ReadPolicy, observers
<1>2. CASE LimitIn(policy) = None
  <2>1. highest[month] = None
    BY <1>2 DEF BudgetInv, LimitsOK
  <2> QED
    BY <1>1, <2>1 DEF ReadPolicy, observers, LimitsOK, Held
<1>3. CASE LimitIn(policy) # None
  <2>1. Forwarded' \subseteq Forwarded
    BY <1>3 DEF ReadPolicy, BudgetInv, TypeOK, Forwarded
  <2>2. Held'
    BY <2>1, HeldStays DEF ReadPolicy, observers
  <2>3. LimitsOK'
    <3>1. ASSUME highest[month] # None
          PROVE  LimitIn(policy) # None /\ LimitIn(policy) <= highest[month]
      BY <3>1 DEF BudgetInv, LimitsOK
    <3>2. ASSUME started = month, highest[month] # None, NEW q \in Requests,
                 pc'[q] = "summing"
          PROVE  limit'[q] <= highest[month]
      <4>1. CASE q = r
        BY <1>3, <3>1, <3>2, <4>1 DEF ReadPolicy, BudgetInv, TypeOK, RequestsOK
      <4>2. CASE q # r
        BY <1>3, <3>2, <4>2 DEF ReadPolicy, BudgetInv, TypeOK, RequestsOK, LimitsOK
      <4> QED
        BY <4>1, <4>2
    <3> QED
      BY <3>1, <3>2 DEF ReadPolicy, observers, LimitsOK
  <2> QED
    BY <1>1, <2>2, <2>3
<1> QED
  BY <1>2, <1>3

LEMMA StepSumCosts ==
  ASSUME BudgetInv, NEW r \in Requests, SumCosts(r)
  PROVE  ObserversOK' /\ BillsOK' /\ LimitsOK' /\ Held' /\ RefusalIsDeserved'
<1> DEFINE since == month_start[r]
           total == SinceMonth(cost, since)
<1>1. /\ since \in Months /\ since <= month /\ limit[r] \in Limits /\ limit[r] \in Nat
  <2>1. /\ since \in 0..month /\ since # 0
        /\ limit[r] \in Limits \cup {None} /\ limit[r] # None
    BY DEF SumCosts, BudgetInv, TypeOK, RequestsOK
  <2>2. since \in Months /\ since <= month
    BY <2>1, Numbers, BoundsAssumption DEF Months
  <2> QED
    BY <2>1, <2>2, FieldAssumption
<1>2. total \in Nat /\ cost[month] <= total
  BY <1>1, Numbers, SinceType, SinceHolds
<1>3. BillsOK' /\ BudgetHolds'
  BY DEF SumCosts, BudgetInv, BillsOK, Held, BudgetHolds
<1>4. LimitsOK'
  BY DEF SumCosts, BudgetInv, TypeOK, RequestsOK, LimitsOK
<1>5. CASE OverBudget(total, limit[r])
  <2>1. refused' = refused \cup {[since |-> since, limit |-> limit[r]]} /\ billed' = billed
    BY <1>5 DEF SumCosts, Total
  <2>2. ObserversOK'
    BY <1>1, <2>1 DEF SumCosts, BudgetInv, ObserversOK
  <2>3. SinceMonth(billed, since) >= limit[r]
    <3>1. total <= SinceMonth(billed, since) /\ SinceMonth(billed, since) \in Nat
      BY <1>1, Numbers, SinceType DEF BudgetInv, BillsOK
    <3>2. total >= limit[r]
      BY <1>5 DEF OverBudget
    <3> HIDE DEF total
    <3> QED
      BY <1>1, <1>2, <3>1, <3>2
  <2>4. RefusalIsDeserved'
    BY <2>1, <2>3 DEF BudgetInv, RefusalIsDeserved
  <2>5. Forwarded' \subseteq Forwarded
    BY <1>5 DEF SumCosts, Total, BudgetInv, TypeOK, Forwarded
  <2>6. Held'
    BY <2>5, HeldStays DEF SumCosts
  <2> QED
    BY <1>3, <1>4, <2>2, <2>4, <2>6
<1>6. CASE ~OverBudget(total, limit[r])
  <2>1. ObserversOK' /\ RefusalIsDeserved'
    BY <1>6 DEF SumCosts, Total, BudgetInv, ObserversOK, RefusalIsDeserved
  <2>2. ASSUME started = month, month \notin late, highest[month] # None, NEW c \in Dearest
        PROVE  HeldBy(month, Cardinality(Forwarded'), c)
    <3>1. billed[month] <= cost[month]
      BY <2>2, Numbers DEF BudgetInv, BillsOK
    <3>2. limit[r] <= highest[month]
      BY <2>2 DEF SumCosts, BudgetInv, LimitsOK
    <3>3. ~(total >= limit[r])
      BY <1>6 DEF OverBudget
    <3>4. billed[month] \in Nat /\ cost[month] \in Nat /\ highest[month] \in Nat
      BY <2>2, Numbers
    <3>5. billed[month] <= highest[month] - 1
      <4> HIDE DEF total
      <4> QED
        BY <1>1, <1>2, <3>1, <3>2, <3>3, <3>4
    <3>6. Cardinality(Forwarded') \in Nat /\ Cardinality(Forwarded') <= Cardinality(Requests)
      <4>1. Forwarded' \subseteq Requests
        BY DEF Forwarded
      <4> QED
        BY <4>1, RequestsAssumption, FS_Subset, FS_CardinalityType
    <3>7. /\ Cardinality(Forwarded') * c <= Cardinality(Requests) * c
          /\ Cardinality(Forwarded') * c \in Nat /\ Cardinality(Requests) * c \in Nat
      BY <3>6, ForwardedIsFinite, DearestIsNatural, Products
    <3> QED
      BY <3>4, <3>5, <3>7 DEF HeldBy
  <2>3. Held'
    BY <1>3, <2>2 DEF SumCosts, Held, HeldBy
  <2> QED
    BY <1>3, <1>4, <2>1, <2>3
<1> QED
  BY <1>5, <1>6

LEMMA StepRow ==
  ASSUME BudgetInv, NEW r \in Requests, NEW cents \in Nat, \A c \in Dearest : cents <= c,
         Row(r, cents)
  PROVE  ObserversOK' /\ BillsOK' /\ LimitsOK' /\ Held' /\ RefusalIsDeserved'
<1>1. /\ cost' = [cost EXCEPT ![started] = @ + cents]
      /\ billed' = [billed EXCEPT ![month] = @ + cents]
      /\ UNCHANGED <<month, started, highest, policy, limit, refused>>
      /\ late \subseteq late' /\ late' \subseteq late \cup {month}
      /\ started # month => month \in late'
      /\ started = month => late' = late
  BY DEF Row
<1>2. ASSUME NEW m \in Months
      PROVE  /\ SinceMonth(cost', m) = SinceMonth(cost, m) + (IF m <= started THEN cents ELSE 0)
             /\ SinceMonth(billed', m) = SinceMonth(billed, m) + (IF m <= month THEN cents ELSE 0)
             /\ SinceMonth(cost, m) \in Nat /\ SinceMonth(billed, m) \in Nat
  <2>1. /\ cost \in [Months -> Nat] /\ billed \in [Months -> Nat]
        /\ started \in Months /\ month \in Months
    BY Numbers
  <2>2. /\ cost' \in [Months -> Nat] /\ cost'[started] = cost[started] + cents
        /\ \A k \in Months \ {started} : cost'[k] = cost[k]
    <3>1. cost[started] + cents \in Nat
      BY <2>1
    <3> QED
      BY <1>1, <2>1, <3>1
  <2>3. /\ billed' \in [Months -> Nat] /\ billed'[month] = billed[month] + cents
        /\ \A k \in Months \ {month} : billed'[k] = billed[k]
    <3>1. billed[month] + cents \in Nat
      BY <2>1
    <3> QED
      BY <1>1, <2>1, <3>1
  <2>4. /\ m <= started => SinceMonth(cost', m) = SinceMonth(cost, m) + cents
        /\ ~(m <= started) => SinceMonth(cost', m) = SinceMonth(cost, m)
    BY <2>1, <2>2, SinceGrows
  <2>5. /\ m <= month => SinceMonth(billed', m) = SinceMonth(billed, m) + cents
        /\ ~(m <= month) => SinceMonth(billed', m) = SinceMonth(billed, m)
    BY <2>1, <2>3, SinceGrows
  <2>6. SinceMonth(cost, m) \in Nat /\ SinceMonth(billed, m) \in Nat
    BY <2>1, SinceType
  <2> QED
    BY <2>4, <2>5, <2>6
<1>3. /\ \A m \in Months : cost'[m] >= cost[m] /\ cost[m] \in Nat /\ cost'[m] \in Nat
      /\ \A m \in Months \ {month} : billed'[m] = billed[m]
      /\ cost'[started] = cost[started] + cents /\ billed'[month] = billed[month] + cents
      /\ \A m \in Months : billed[m] \in Nat
  BY <1>1, Numbers
<1>4. ObserversOK'
  <2>1. billed[month] + cents \in Nat
    BY <1>3, Numbers
  <2> QED
    BY <1>1, <2>1, Numbers DEF BudgetInv, ObserversOK
<1>5. BillsOK'
  <2>1. ASSUME NEW m \in Months, m > month PROVE billed'[m] = 0
    BY <1>3, <2>1, Numbers DEF BudgetInv, BillsOK
  <2>2. ASSUME NEW m \in Months, m \notin late' PROVE billed'[m] <= cost'[m]
    <3>1. billed[m] <= cost[m]
      BY <1>1, <2>2 DEF BudgetInv, BillsOK
    <3>2. m = month => m = started
      BY <1>1, <2>2
    <3> QED
      BY <1>3, <3>1, <3>2
  <2>3. ASSUME NEW m \in Months PROVE SinceMonth(cost', m) <= SinceMonth(billed', m)
    <3>1. SinceMonth(cost, m) <= SinceMonth(billed, m)
      BY DEF BudgetInv, BillsOK
    <3>2. m <= started => m <= month
      BY Numbers, BoundsAssumption DEF Months
    <3> QED
      BY <1>2, <3>1, <3>2
  <2>4. started < month => month \in late'
    BY <1>1, Numbers
  <2> QED
    BY <1>1, <2>1, <2>2, <2>3, <2>4 DEF BillsOK
<1>6. LimitsOK'
  BY <1>1 DEF Row, BudgetInv, TypeOK, RequestsOK, LimitsOK
<1>7. ASSUME started = month, month \notin late', highest[month] # None, NEW c \in Dearest
      PROVE  /\ Cardinality(Forwarded') \in Nat
             /\ billed'[month] + Cardinality(Forwarded') * c
                  <= highest[month] - 1 + Cardinality(Requests) * c
  <2>1. PICK n \in Nat : n = Cardinality(Forwarded)
    BY ForwardedIsFinite
  <2>2. r \in Forwarded /\ Forwarded' = Forwarded \ {r}
    BY DEF Row, Forwarded, BudgetInv, TypeOK
  <2>3. Cardinality(Forwarded') = n - 1 /\ n - 1 \in Nat
    <3>1. Cardinality(Forwarded \ {r}) = n - 1 /\ Cardinality(Forwarded \ {r}) \in Nat
      BY <2>1, <2>2, ForwardedIsFinite, FS_RemoveElement, FS_Subset, FS_CardinalityType
    <3> QED
      BY <2>2, <3>1
  <2>4. HeldBy(month, n, c)
    BY <1>1, <1>7, <2>1, <2>2 DEF BudgetInv, Held
  <2>5. c \in Nat /\ cents <= c
    BY DearestIsNatural
  <2>6. /\ n * c = (n - 1) * c + c /\ (n - 1) * c \in Nat
        /\ Cardinality(Requests) * c \in Nat
    BY <2>3, <2>5, ForwardedIsFinite, Products
  <2>7. billed[month] \in Nat /\ highest[month] \in Nat
    BY <1>7, Numbers
  <2>8. billed[month] + ((n - 1) * c + c) <= highest[month] - 1 + Cardinality(Requests) * c
    BY <2>4, <2>6 DEF HeldBy
  <2>9. billed[month] + cents + (n - 1) * c <= highest[month] - 1 + Cardinality(Requests) * c
    BY <2>5, <2>6, <2>7, <2>8
  <2> QED
    BY <1>3, <2>3, <2>9
<1>8. ASSUME started = month, month \notin late', highest[month] # None, NEW c \in Dearest
      PROVE  billed'[month] <= highest[month] - 1 + Cardinality(Requests) * c
  <2>1. PICK n \in Nat : n = Cardinality(Forwarded')
    BY <1>7, <1>8
  <2>2. billed'[month] + n * c <= highest[month] - 1 + Cardinality(Requests) * c
    BY <1>7, <1>8, <2>1
  <2>3. n * c \in Nat /\ Cardinality(Requests) * c \in Nat
    BY ForwardedIsFinite, DearestIsNatural, Products
  <2>4. billed'[month] \in Nat /\ highest[month] \in Nat
    BY <1>3, <1>8, Numbers
  <2> QED
    BY <2>2, <2>3, <2>4
<1>9. BudgetHolds'
  <2>1. ASSUME NEW m \in 1..month
        PROVE  m \in late' \/ highest[m] = None \/ billed'[m] = 0
                \/ \A c \in Dearest : billed'[m] <= highest[m] - 1 + Cardinality(Requests) * c
    <3>1. CASE m = month
      BY <1>1, <1>8, <3>1
    <3>2. CASE m # month
      <4>1. m \in Months \ {month}
        BY <3>2, Numbers, BoundsAssumption DEF Months
      <4> QED
        BY <1>1, <1>3, <4>1 DEF BudgetInv, Held, BudgetHolds
    <3> QED
      BY <3>1, <3>2
  <2> QED
    BY <1>1, <2>1 DEF BudgetHolds
<1>10. Held'
  BY <1>1, <1>7, <1>9 DEF Held, HeldBy
<1>11. RefusalIsDeserved'
  <2>1. ASSUME NEW d \in refused PROVE SinceMonth(billed', d.since) >= d.limit
    <3>1. d.since \in Months /\ d.limit \in Nat
      BY FieldAssumption DEF BudgetInv, ObserversOK
    <3>2. SinceMonth(billed, d.since) >= d.limit
      BY DEF BudgetInv, RefusalIsDeserved
    <3> QED
      BY <1>2, <3>1, <3>2
  <2> QED
    BY <1>1, <2>1 DEF RefusalIsDeserved
<1> QED
  BY <1>4, <1>5, <1>6, <1>10, <1>11

LEMMA CentsAreAtMostDearest ==
  ASSUME NEW worth \in Worths, NEW cents \in Cents(worth)
  PROVE  cents \in Nat /\ \A c \in Dearest : cents <= c
<1>1. cents \in Nat
  BY WorthsAreNatural, CentsAreClose
<1> QED
  BY <1>1 DEF Dearest

LEMMA StepCommit ==
  ASSUME BudgetInv, TypeOK', NEW u \in Upserts, Commit(u)
  PROVE  ObserversOK' /\ BillsOK' /\ LimitsOK' /\ Held' /\ RefusalIsDeserved'
<1> DEFINE l == LimitIn(policy')
<1>1. l \in Limits \cup {None} /\ l = LimitIn(policy)'
  BY LimitType DEF TypeOK, PolicyOK, LimitIn, Rows, Policies
<1>2. /\ highest' = Raised(l)
      /\ UNCHANGED <<month, started, cost, billed, late, refused, limit>>
      /\ pc' = [pc EXCEPT ![u] = "idle"]
  BY DEF Commit, Leave
<1> HIDE DEF l
<1>3. /\ \A m \in Months \ {month} : highest'[m] = highest[m]
      /\ highest'[month] \in Limits \cup {None}
      /\ highest'[month] # None =>
           /\ highest[month] # None /\ l # None
           /\ highest'[month] \in Nat /\ highest[month] \in Nat
           /\ highest[month] <= highest'[month] /\ l <= highest'[month]
  <2>1. highest \in [Months -> Limits \cup {None}] /\ Limits \subseteq Nat
    BY FieldAssumption DEF BudgetInv, ObserversOK
  <2>2. highest'[month] = IF highest[month] = None \/ l = None THEN None
                          ELSE IF l > highest[month] THEN l ELSE highest[month]
    BY <1>2, <2>1, Numbers DEF Raised
  <2>3. \A m \in Months \ {month} : highest'[m] = highest[m]
    BY <1>2, <2>1 DEF Raised
  <2> QED
    BY <1>1, <2>1, <2>2, <2>3, Numbers
<1>4. ObserversOK'
  <2>1. highest' \in [Months -> Limits \cup {None}]
    BY <1>2, <1>3, Numbers DEF Raised, BudgetInv, ObserversOK
  <2> QED
    BY <1>2, <2>1 DEF BudgetInv, ObserversOK
<1>5. BillsOK' /\ RefusalIsDeserved'
  BY <1>2 DEF BudgetInv, BillsOK, RefusalIsDeserved
<1>6. Forwarded' = Forwarded
  BY <1>2, RequestsAssumption DEF Commit, BudgetInv, TypeOK, Forwarded
<1>7. LimitsOK'
  <2>1. ASSUME started = month, highest'[month] # None, NEW r \in Requests,
               pc'[r] = "summing"
        PROVE  limit[r] <= highest'[month]
    <3>1. pc[r] = "summing"
      BY <1>2, <2>1, RequestsAssumption DEF BudgetInv, TypeOK
    <3>2. limit[r] <= highest[month]
      BY <1>3, <2>1, <3>1 DEF BudgetInv, LimitsOK
    <3>3. limit[r] \in Nat
      BY <3>1, FieldAssumption DEF BudgetInv, TypeOK, RequestsOK
    <3> QED
      BY <1>3, <2>1, <3>2, <3>3
  <2> QED
    BY <1>1, <1>2, <1>3, <2>1 DEF LimitsOK
<1>8. ASSUME NEW c \in Dearest, NEW n \in Nat, HeldBy(month, n, c), highest'[month] # None
      PROVE  HeldBy(month, n, c)'
  <2>1. n * c \in Nat /\ Cardinality(Requests) * c \in Nat /\ billed[month] \in Nat
    BY ForwardedIsFinite, DearestIsNatural, Products, Numbers
  <2>2. PICK h \in Nat : h = highest'[month] /\ highest[month] <= h /\ highest[month] \in Nat
    BY <1>3, <1>8
  <2>3. billed[month] + n * c <= h - 1 + Cardinality(Requests) * c
    BY <1>8, <2>1, <2>2 DEF HeldBy
  <2> QED
    BY <1>2, <2>2, <2>3 DEF HeldBy
<1>9. BudgetHolds'
  <2>1. ASSUME NEW m \in 1..month
        PROVE  m \in late \/ highest'[m] = None \/ billed[m] = 0
                \/ \A c \in Dearest : billed[m] <= highest'[m] - 1 + Cardinality(Requests) * c
    <3>1. CASE m = month
      <4>1. ASSUME NEW c \in Dearest, highest'[month] # None,
                   billed[month] <= highest[month] - 1 + Cardinality(Requests) * c
            PROVE  billed[month] <= highest'[month] - 1 + Cardinality(Requests) * c
        <5>1. PICK h \in Nat : h = highest'[month] /\ highest[month] <= h
                               /\ highest[month] \in Nat
          BY <1>3, <4>1
        <5>2. Cardinality(Requests) * c \in Nat /\ billed[month] \in Nat
          BY ForwardedIsFinite, DearestIsNatural, Products, Numbers
        <5>3. billed[month] <= h - 1 + Cardinality(Requests) * c
          BY <4>1, <5>1, <5>2
        <5> QED
          BY <5>1, <5>3
      <4> QED
        BY <1>3, <3>1, <4>1 DEF BudgetInv, Held, BudgetHolds
    <3>2. CASE m # month
      <4>1. m \in Months \ {month}
        BY <3>2, Numbers, BoundsAssumption DEF Months
      <4> QED
        BY <1>3, <4>1 DEF BudgetInv, Held, BudgetHolds
    <3> QED
      BY <3>1, <3>2
  <2> QED
    BY <1>2, <2>1 DEF BudgetHolds
<1>10. Held'
  <2>1. Cardinality(Forwarded) \in Nat
    BY ForwardedIsFinite
  <2>2. ASSUME started = month, month \notin late, highest'[month] # None
        PROVE  \/ billed[month] = 0 /\ Forwarded = {}
               \/ \A c \in Dearest : HeldBy(month, Cardinality(Forwarded), c)
    BY <1>3, <2>2 DEF BudgetInv, Held
  <2>3. ASSUME NEW c \in Dearest, HeldBy(month, Cardinality(Forwarded), c),
               highest'[month] # None
        PROVE  HeldBy(month, Cardinality(Forwarded), c)'
    BY <1>6, <1>8, <2>1, <2>3 DEF HeldBy
  <2> QED
    BY <1>2, <1>6, <1>9, <2>2, <2>3 DEF Held
<1> QED
  BY <1>4, <1>5, <1>7, <1>10

LEMMA StepNextMonth ==
  ASSUME BudgetInv, NextMonth
  PROVE  ObserversOK' /\ BillsOK' /\ LimitsOK' /\ Held' /\ RefusalIsDeserved'
<1>1. /\ month' = month + 1 /\ month + 1 \in Months
      /\ highest' = [highest EXCEPT ![month + 1] = LimitIn(policy)]
      /\ UNCHANGED <<policy, started, cost, billed, late, refused>>
  BY Numbers, BoundsAssumption DEF NextMonth, Months
<1>2. LimitIn(policy) \in Limits \cup {None}
  BY LimitType DEF BudgetInv, TypeOK, PolicyOK
<1>3. ObserversOK' /\ RefusalIsDeserved'
  BY <1>1, <1>2 DEF BudgetInv, ObserversOK, RefusalIsDeserved
<1>4. billed[month + 1] = 0 /\ \A m \in Months : m > month + 1 => billed[m] = 0
  BY <1>1, Numbers, BoundsAssumption DEF BudgetInv, BillsOK, Months
<1>5. BillsOK'
  BY <1>1, <1>4 DEF BudgetInv, BillsOK
<1>6. started # month'
  BY <1>1, Numbers
<1>7. LimitsOK'
  <2>1. highest'[month'] = LimitIn(policy)
    BY <1>1 DEF BudgetInv, ObserversOK
  <2>2. LimitIn(policy) # None => LimitIn(policy) \in Nat
    BY <1>2, FieldAssumption
  <2> QED
    BY <1>1, <1>6, <2>1, <2>2 DEF LimitsOK
<1>8. BudgetHolds'
  <2>1. ASSUME NEW m \in 1..(month + 1)
        PROVE  m \in late \/ highest'[m] = None \/ billed[m] = 0
                \/ \A c \in Dearest : billed[m] <= highest'[m] - 1 + Cardinality(Requests) * c
    <3>1. CASE m = month + 1
      BY <1>4, <3>1
    <3>2. CASE m # month + 1
      <4>1. m \in 1..month /\ m \in Months
        <5>1. month \in Nat /\ month <= LastMonth /\ LastMonth \in Nat
          BY Numbers, BoundsAssumption DEF Months
        <5> QED
          BY <3>2, <5>1 DEF Months
      <4>2. highest'[m] = highest[m]
        BY <1>1, <3>2, <4>1 DEF BudgetInv, ObserversOK
      <4> QED
        BY <4>1, <4>2 DEF BudgetInv, Held, BudgetHolds
    <3> QED
      BY <3>1, <3>2
  <2> QED
    BY <1>1, <2>1 DEF BudgetHolds
<1> QED
  BY <1>1, <1>3, <1>5, <1>6, <1>7, <1>8 DEF Held

LEMMA StepRestart ==
  ASSUME BudgetInv, Restart
  PROVE  ObserversOK' /\ BillsOK' /\ LimitsOK' /\ Held' /\ RefusalIsDeserved'
<1>1. /\ UNCHANGED <<policy, month, cost, billed, late, highest, refused>>
      /\ started' = month /\ \A r \in Requests : pc'[r] = "idle"
  BY DEF Restart, observers
<1>2. ObserversOK' /\ RefusalIsDeserved' /\ BudgetHolds'
  BY <1>1 DEF BudgetInv, ObserversOK, RefusalIsDeserved, Held, BudgetHolds
<1>3. BillsOK'
  BY <1>1, Numbers DEF BudgetInv, BillsOK
<1>4. LimitsOK'
  BY <1>1 DEF BudgetInv, LimitsOK
<1>5. Forwarded' = {}
  BY <1>1 DEF Forwarded
<1>6. ASSUME month \notin late, highest[month] # None
      PROVE  \/ billed[month] = 0
             \/ \A c \in Dearest : HeldBy(month, 0, c)
  <2>1. CASE started < month
    BY <1>6, <2>1 DEF BudgetInv, BillsOK
  <2>2. CASE ~(started < month)
    <3>1. started = month
      BY <2>2, Numbers
    <3>2. ASSUME NEW c \in Dearest, HeldBy(month, Cardinality(Forwarded), c)
          PROVE  HeldBy(month, 0, c)
      <4>1. /\ Cardinality(Forwarded) * c \in Nat /\ Cardinality(Requests) * c \in Nat
            /\ 0 * c = 0
        BY ForwardedIsFinite, DearestIsNatural, Products
      <4>2. billed[month] \in Nat /\ highest[month] \in Nat
        BY <1>6, Numbers
      <4> QED
        BY <3>2, <4>1, <4>2 DEF HeldBy
    <3> QED
      BY <1>6, <3>1, <3>2 DEF BudgetInv, Held
  <2> QED
    BY <2>1, <2>2
<1>7. Held'
  <2>1. Cardinality(Forwarded') = 0
    BY <1>5, FS_EmptySet
  <2> QED
    BY <1>1, <1>2, <1>5, <1>6, <2>1 DEF Held, HeldBy
<1> QED
  BY <1>2, <1>3, <1>4, <1>7

LEMMA NextBudget == BudgetInv /\ [Next]_vars => BudgetInv'
<1> SUFFICES ASSUME BudgetInv, [Next]_vars PROVE BudgetInv'
  OBVIOUS
<1> DEFINE Goal == ObserversOK' /\ BillsOK' /\ LimitsOK' /\ Held' /\ RefusalIsDeserved'
<1>1. TypeOK'
  BY NextType DEF BudgetInv
<1>2. ASSUME NEW r \in Requests, ReadPolicy(r) PROVE Goal
  BY <1>2, StepReadPolicy
<1>3. ASSUME NEW r \in Requests, SumCosts(r) PROVE Goal
  BY <1>3, StepSumCosts
<1>4. ASSUME NEW r \in Requests, Log(r) PROVE Goal
  <2>1. PICK worth \in Worths : \E cents \in Cents(worth) : Row(r, cents)
    BY <1>4 DEF Log
  <2>2. PICK cents \in Cents(worth) : Row(r, cents)
    BY <2>1
  <2> QED
    BY <2>2, CentsAreAtMostDearest, StepRow
<1>5. ASSUME NEW r \in Requests, LogStream(r) PROVE Goal
  <2>1. \A c \in Dearest : 0 <= c
    BY DearestIsNatural
  <2> QED
    BY <1>5, <2>1, StepRow DEF LogStream
<1>6. ASSUME NEW r \in Requests, Lost(r) PROVE Goal
  <2>1. Forwarded' \subseteq Forwarded
    BY <1>6 DEF Lost, BudgetInv, TypeOK, Forwarded
  <2>2. LimitsOK'
    BY <1>6 DEF Lost, observers, BudgetInv, TypeOK, LimitsOK
  <2>3. UNCHANGED <<month, started, cost, billed, late, highest, refused>>
    BY <1>6 DEF Lost, observers
  <2> QED
    BY <2>1, <2>2, <2>3, LedgerStays, HeldStays
<1>7. ASSUME NEW u \in Upserts, Select(u) \/ CommitFails(u) PROVE Goal
  <2>1. /\ UNCHANGED <<policy, limit, month, started, cost, billed, late, highest, refused>>
        /\ \E l : pc' = [pc EXCEPT ![u] = l]
    BY <1>7 DEF Select, CommitFails, Leave, observers
  <2>2. \A r \in Requests : pc'[r] = pc[r]
    BY <2>1, RequestsAssumption DEF BudgetInv, TypeOK
  <2>3. Forwarded' \subseteq Forwarded
    BY <2>2 DEF Forwarded
  <2>4. LimitsOK'
    BY <2>1, <2>2 DEF BudgetInv, LimitsOK
  <2> QED
    BY <2>1, <2>3, <2>4, LedgerStays, HeldStays
<1>8. ASSUME NEW u \in Upserts, Commit(u) PROVE Goal
  BY <1>1, <1>8, StepCommit
<1>9. ASSUME NextMonth PROVE Goal
  BY <1>9, StepNextMonth
<1>10. ASSUME Restart PROVE Goal
  BY <1>10, StepRestart
<1>11. ASSUME UNCHANGED vars PROVE Goal
  <2>1. UNCHANGED <<policy, limit, pc, month, started, cost, billed, late, highest, refused>>
    BY <1>11 DEF vars, locals, observers
  <2>2. Forwarded' \subseteq Forwarded /\ LimitsOK'
    BY <2>1 DEF Forwarded, BudgetInv, LimitsOK
  <2> QED
    BY <2>1, <2>2, LedgerStays, HeldStays
<1>12. Goal
  BY <1>2, <1>3, <1>4, <1>5, <1>6, <1>7, <1>8, <1>9, <1>10, <1>11 DEF Next
<1> QED
  BY <1>1, <1>12 DEF BudgetInv

(* RefusalIsDeserved: however rows are stamped, whoever is refused belongs to a
   department that was billed its limit since the first of the month: stamps are
   never later than the truth, so the sum never counts a row too much. *)
THEOREM RefusalsAreDeserved == Spec => []RefusalIsDeserved
<1>1. BudgetInv => RefusalIsDeserved
  BY DEF BudgetInv
<1> QED
  BY <1>1, InitBudget, NextBudget, PTL DEF Spec

(* BudgetHolds: in a month whose rows all carry it, and in which a limit was in
   force throughout, no more is billed than just under the highest limit and one
   row of the dearest kind for each request that may be on its way at once. *)
THEOREM BudgetIsHeld == Spec => []BudgetHolds
<1>1. BudgetInv => BudgetHolds
  BY DEF BudgetInv, Held
<1> QED
  BY <1>1, InitBudget, NextBudget, PTL DEF Spec

================================================================================
