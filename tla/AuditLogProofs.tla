---------------------------- MODULE AuditLogProofs ----------------------------
(***************************************************************************)
(* Theorems about AuditLog, for any number of concurrent calls, any        *)
(* contents and any bounds.  TypeOK and the two parts below it do not      *)
(* depend on retention or on overlaps; SerialInv adds what holds of the    *)
(* chain while calls have not overlapped.                                  *)
(***************************************************************************)
EXTENDS AuditLog, TLAPS

(* The link a call holds leads to a committed row, of a smaller id than the
   one it was given. *)
CallsLinkBack ==
    \A l \in Loggers :
        \/ pc[l] = "idle"
        \/ previous_hash[l] = NoHash
        \/ \E j \in DOMAIN written :
              /\ written[j].row.chain_hash = previous_hash[l]
              /\ pc[l] = "inserted" => j < id[l]

(* Timestamps follow ids, because they are the boot days of processes that
   ran one after the other. *)
EpochOrder ==
    /\ \A i \in DOMAIN written : written[i].row.timestamp <= boot
    /\ \A i, j \in DOMAIN written :
          i < j => written[i].row.timestamp <= written[j].row.timestamp
    /\ \A l \in Loggers, j \in DOMAIN written :
          pc[l] = "inserted" /\ id[l] < j => written[j].row.timestamp = boot

ForestInv == TypeOK /\ CallsLinkBack /\ LinksPointBack

(* While calls do not overlap, the one in flight continues the newest row. *)
SerialInv ==
    ~overlapped =>
        /\ \A l, m \in Loggers : pc[l] # "idle" /\ pc[m] # "idle" => l = m
        /\ \A l \in Loggers :
              \/ pc[l] = "idle"
              \/ previous_hash[l] \in NewestHash(log)
              \/ purged /\ DOMAIN log = {}
        /\ \A l \in Loggers : pc[l] = "inserted" => \A i \in DOMAIN log : i < id[l]
        /\ \A i, j \in DOMAIN log :
              Adjacent(log, j, i) => log[i].previous_hash = log[j].chain_hash
        /\ ~purged => \A i \in DOMAIN log : First(log, i) => log[i].previous_hash = NoHash

-------------------------------------------------------------------------------
(* Every step is one of these; most leave the committed rows alone. *)
LEMMA StepCases ==
  ASSUME [Next]_vars
  PROVE  \/ \E l \in Loggers : ReadNewest(l)
         \/ \E l \in Loggers : Insert(l)
         \/ \E l \in Loggers : Commit(l)
         \/ \E l \in Loggers : LogFails(l)
         \/ Purge \/ PurgeFails \/ Tick \/ Crash \/ Restart
         \/ UNCHANGED vars
BY DEF Next

(* The newest hash is a committed one, or none. *)
LEMMA NewestIsCommitted ==
  ASSUME TypeOK, NEW h \in NewestHash(log)
  PROVE  \/ h = NoHash
         \/ \E j \in DOMAIN written : written[j].row.chain_hash = h
BY DEF TypeOK, RowsOK, NewestHash, Last

(* An idle call holds a content. *)
LEMMA SomeContent == AnyContent \in Contents
BY ContentsAssumption DEF AnyContent

(* It holds of an empty table and of a process without calls. *)
LEMMA ForestInit == Init => ForestInv
<1> SUFFICES ASSUME Init PROVE ForestInv
  OBVIOUS
<1>1. DOMAIN log = {} /\ DOMAIN written = {}
  BY DEF Init
<1>2. ProcessOK
  <2>1. InFlight = {}
    BY DEF Init, InFlight
  <2>2. /\ day \in 0..MaxDay /\ boot \in 0..day /\ wake \in Nat /\ faults \in Nat
    BY BoundsAssumption DEF Init
  <2>3. up \in BOOLEAN /\ overlapped \in BOOLEAN /\ purged \in BOOLEAN
    BY DEF Init
  <2> QED BY <2>1, <2>2, <2>3 DEF ProcessOK
<1>3. RowsOK
  BY <1>1, BoundsAssumption DEF Init, RowsOK
<1>4. CallsOK
  BY SomeContent DEF Init, CallsOK
<1>5. CallsLinkBack /\ LinksPointBack
  BY <1>1 DEF Init, CallsLinkBack, LinksPointBack
<1> QED BY <1>2, <1>3, <1>4, <1>5 DEF ForestInv, TypeOK

(* A step that commits nothing and starts or advances no call.  A call it
   ends leaves nothing behind. *)
LEMMA QuietForest ==
  ASSUME ForestInv,
         UNCHANGED <<seq, written>>,
         DOMAIN log' \subseteq DOMAIN log,
         \A i \in DOMAIN log' : log'[i] = log[i],
         ProcessOK',
         pc' \in [Loggers -> {"idle", "read", "inserted"}],
         content' \in [Loggers -> Contents],
         DOMAIN previous_hash' = Loggers,
         id' \in [Loggers -> 0..seq],
         \A l \in Loggers : \/ pc'[l] = "idle" /\ id'[l] = 0
                            \/ /\ pc'[l] = pc[l] /\ id'[l] = id[l]
                               /\ previous_hash'[l] = previous_hash[l]
  PROVE  ForestInv'
<1> USE DEF ForestInv
<1>1. Row' = Row
  BY DEF Row, Hashes
<1>2. RowsOK'
  BY <1>1 DEF TypeOK, RowsOK
<1>3. CallsOK'
  BY DEF TypeOK, RowsOK, CallsOK
<1>4. LinksPointBack' /\ CallsLinkBack'
  BY DEF LinksPointBack, CallsLinkBack
<1> QED BY <1>2, <1>3, <1>4 DEF TypeOK

(* What a call read is a committed hash. *)
LEMMA ReadNewestForest ==
  ASSUME ForestInv, NEW l \in Loggers, ReadNewest(l)
  PROVE  ForestInv'
<1> USE DEF ForestInv, table, process
<1>1. ProcessOK'
  BY DEF TypeOK, ProcessOK, ReadNewest, InFlight
<1>2. RowsOK'
  BY DEF TypeOK, RowsOK, ReadNewest, Row, Hashes
<1>3. CallsOK'
  BY DEF TypeOK, CallsOK, ReadNewest
<1>4. LinksPointBack'
  BY DEF ReadNewest, LinksPointBack
<1>5. CallsLinkBack'
  BY NewestIsCommitted DEF TypeOK, CallsOK, ReadNewest, CallsLinkBack
<1> QED BY <1>1, <1>2, <1>3, <1>4, <1>5 DEF TypeOK

(* The id a call takes is larger than that of any committed row. *)
LEMMA InsertForest ==
  ASSUME ForestInv, NEW l \in Loggers, Insert(l)
  PROVE  ForestInv'
<1> USE DEF ForestInv, process, history
<1>1. ProcessOK'
  BY DEF TypeOK, ProcessOK, Insert, InFlight, CallsOK
<1>2. RowsOK'
  BY BoundsAssumption DEF TypeOK, RowsOK, Insert, Row, Hashes
<1>3. CallsOK'
  BY DEF TypeOK, RowsOK, CallsOK, Insert
<1>4. LinksPointBack'
  BY DEF Insert, LinksPointBack
<1>5. CallsLinkBack'
  BY DEF TypeOK, RowsOK, CallsOK, Insert, CallsLinkBack
<1> QED BY <1>1, <1>2, <1>3, <1>4, <1>5 DEF TypeOK

(* The committed row is a new one, and its link was committed before. *)
LEMMA CommitForest ==
  ASSUME ForestInv, NEW l \in Loggers, Commit(l)
  PROVE  ForestInv'
<1> USE DEF ForestInv, process
<1>1. ProcessOK'
  BY DEF TypeOK, ProcessOK, Commit, Return, InFlight, CallsOK
<1> DEFINE i == id[l]
<1>2. /\ DOMAIN written' = DOMAIN written \cup {i}
      /\ \A k \in DOMAIN written : k # i /\ written'[k] = written[k]
      /\ written'[i] = [row |-> RowOf(l), at |-> day]
      /\ i \in 1..seq
  BY DEF Commit, With, TypeOK, CallsOK
<1>3. /\ DOMAIN log' = DOMAIN log \cup {i}
      /\ \A k \in DOMAIN log : k # i /\ log'[k] = log[k]
      /\ log'[i] = RowOf(l)
  BY <1>2 DEF Commit, With, TypeOK, RowsOK
<1> HIDE DEF i
<1>4. Hashes \subseteq Hashes' /\ RowOf(l).chain_hash \in Hashes'
  BY <1>2 DEF Hashes
<1>5. RowOf(l).previous_hash \in {NoHash} \cup Hashes'
  BY <1>4 DEF RowOf, CallsLinkBack, Hashes, Commit
<1>6. RowOf(l) \in Row'
  <2>1. boot \in 0..MaxDay /\ content[l] \in Contents
    BY BoundsAssumption DEF TypeOK, ProcessOK, CallsOK
  <2> QED BY <1>4, <1>5, <2>1 DEF RowOf, Row
<1>7. Row \subseteq Row'
  BY <1>4 DEF Row
<1>8. RowsOK'
  <2>1. \A k \in DOMAIN written' : written'[k] \in [row : Row', at : 0..MaxDay]
    <3>1. written'[i] \in [row : Row', at : 0..MaxDay]
      BY <1>2, <1>6 DEF TypeOK, ProcessOK
    <3>2. \A k \in DOMAIN written : written'[k] \in [row : Row', at : 0..MaxDay]
      BY <1>2, <1>7 DEF TypeOK, RowsOK
    <3> QED BY <1>2, <3>1, <3>2
  <2>2. seq' = seq
    BY DEF Commit
  <2> QED BY <1>2, <1>3, <2>1, <2>2 DEF TypeOK, RowsOK
<1>9. CallsOK'
  <2>1. /\ pc' = [pc EXCEPT ![l] = "idle"]
        /\ content' = [content EXCEPT ![l] = AnyContent]
        /\ previous_hash' = [previous_hash EXCEPT ![l] = NoHash]
        /\ id' = [id EXCEPT ![l] = 0]
        /\ seq' = seq /\ pc[l] = "inserted" /\ seq \in Nat
    BY DEF Commit, Return, TypeOK, RowsOK
  <2>2. /\ pc' \in [Loggers -> {"idle", "read", "inserted"}]
        /\ content' \in [Loggers -> Contents]
        /\ DOMAIN previous_hash' = Loggers
        /\ id' \in [Loggers -> 0..seq']
    BY <2>1, SomeContent DEF TypeOK, CallsOK
  <2>3. ASSUME NEW m \in Loggers, pc'[m] = "inserted"
        PROVE  m # l /\ id'[m] = id[m] /\ id[m] # i /\ pc[m] = "inserted"
    BY <2>1, <2>3 DEF TypeOK, CallsOK, i
  <2>4. \A m \in Loggers : pc'[m] = "inserted" => id'[m] \in 1..seq' \ DOMAIN written'
    BY <1>2, <2>1, <2>3 DEF TypeOK, CallsOK
  <2>5. \A k, m \in Loggers : k # m /\ pc'[k] = "inserted" => id'[k] # id'[m]
    BY <2>1, <2>3 DEF TypeOK, CallsOK
  <2> QED BY <2>2, <2>4, <2>5 DEF CallsOK
<1>10. LinksPointBack'
  <2>1. SelfConsistent(RowOf(l))
    BY DEF SelfConsistent, RowOf
  <2>2. \/ RowOf(l).previous_hash = NoHash
        \/ \E j \in DOMAIN written :
              j < i /\ written[j].row.chain_hash = RowOf(l).previous_hash
    BY DEF RowOf, CallsLinkBack, Commit, i
  <2> QED BY <1>2, <2>1, <2>2 DEF LinksPointBack
<1>11. CallsLinkBack'
  BY <1>2 DEF TypeOK, CallsOK, Commit, Return, CallsLinkBack
<1> QED BY <1>1, <1>8, <1>9, <1>10, <1>11 DEF TypeOK

(* Every other step is a quiet one. *)
LEMMA OtherForest ==
  ASSUME ForestInv,
         \/ \E l \in Loggers : LogFails(l)
         \/ Purge \/ PurgeFails \/ Tick \/ Crash \/ Restart
         \/ UNCHANGED vars
  PROVE  ForestInv'
<1> USE DEF ForestInv, table, process, calls, history
<1>1. ASSUME NEW l \in Loggers, LogFails(l) PROVE ForestInv'
  <2>1. ProcessOK'
    BY <1>1 DEF TypeOK, ProcessOK, CallsOK, LogFails, Return, InFlight
  <2> QED BY <1>1, <2>1, SomeContent, QuietForest
          DEF TypeOK, RowsOK, CallsOK, LogFails, Return
<1>2. CASE Purge
  <2>1. ProcessOK'
    BY <1>2, BoundsAssumption DEF TypeOK, ProcessOK, Purge, NextWake, InFlight
  <2> QED BY <1>2, <2>1, QuietForest DEF TypeOK, CallsOK, Purge, Keep
<1>3. CASE PurgeFails
  <2>1. ProcessOK'
    BY <1>3, BoundsAssumption DEF TypeOK, ProcessOK, PurgeFails, NextWake, InFlight
  <2> QED BY <1>3, <2>1, QuietForest DEF TypeOK, CallsOK, PurgeFails
<1>4. CASE Tick
  <2>1. ProcessOK'
    BY <1>4, BoundsAssumption DEF TypeOK, ProcessOK, Tick, InFlight
  <2> QED BY <1>4, <2>1, QuietForest DEF TypeOK, CallsOK, Tick
<1>5. CASE Crash
  <2>1. ProcessOK'
    <3>1. InFlight' = {}
      BY <1>5 DEF Crash, InFlight
    <3>2. UNCHANGED <<day, boot, wake, overlapped, purged>> /\ up' = FALSE
      BY <1>5 DEF Crash, Stop
    <3>3. faults' \in Nat
      BY <1>5 DEF Crash, Stop, TypeOK, ProcessOK
    <3> QED BY <3>1, <3>2, <3>3 DEF TypeOK, ProcessOK
  <2>2. seq \in Nat
    BY DEF TypeOK, RowsOK
  <2> QED BY <1>5, <2>1, <2>2, SomeContent, QuietForest DEF TypeOK, CallsOK, Crash, Stop
<1>6. CASE Restart
  <2>1. ProcessOK'
    BY <1>6, BoundsAssumption DEF TypeOK, ProcessOK, Restart, NextWake, InFlight
  <2> QED BY <1>6, <2>1, QuietForest DEF TypeOK, CallsOK, Restart
<1>7. CASE UNCHANGED vars
  <2>1. ProcessOK'
    BY <1>7 DEF TypeOK, ProcessOK, vars, InFlight
  <2> QED BY <1>7, <2>1, QuietForest DEF TypeOK, CallsOK, vars
<1> QED BY <1>1, <1>2, <1>3, <1>4, <1>5, <1>6, <1>7

(* The invariant of the forest is inductive. *)
LEMMA ForestNext == ForestInv /\ [Next]_vars => ForestInv'
BY StepCases, ReadNewestForest, InsertForest, CommitForest, OtherForest

(* Every row that can be read is one that was committed under its id, and no
   row in flight shares an id (TypeOK). *)
THEOREM TypeCorrect == Spec => []TypeOK
<1>1. ForestInv => TypeOK
  BY DEF ForestInv
<1> QED BY ForestInit, ForestNext, <1>1, PTL DEF Spec

(* The links of request_logs form a forest, whatever calls of _log_request
   overlap, fail or die (LinksPointBack). *)
THEOREM Forest == Spec => []LinksPointBack
<1>1. ForestInv => LinksPointBack
  BY DEF ForestInv
<1> QED BY ForestInit, ForestNext, <1>1, PTL DEF Spec


-------------------------------------------------------------------------------
(* Timestamps follow ids. *)

Inv == ForestInv /\ EpochOrder

(* Nothing has a timestamp yet. *)
LEMMA EpochInit == Init => EpochOrder
<1> SUFFICES ASSUME Init PROVE EpochOrder
  OBVIOUS
<1>1. DOMAIN written = {} /\ \A l \in Loggers : pc[l] = "idle"
  BY DEF Init
<1> QED BY <1>1 DEF EpochOrder

(* A process stamps its rows with the day of its start, which only grows. *)
LEMMA EpochNext == Inv /\ [Next]_vars => EpochOrder'
<1> SUFFICES ASSUME Inv, [Next]_vars PROVE EpochOrder'
  OBVIOUS
<1> USE DEF Inv, ForestInv, table, process, calls, history
<1>1. /\ boot \in Nat /\ seq \in Nat
      /\ DOMAIN written \subseteq 1..seq
      /\ \A j \in DOMAIN written : written[j].row.timestamp \in Nat
  BY DEF TypeOK, ProcessOK, RowsOK, Row
<1>2. ASSUME UNCHANGED written, boot' = boot,
             \A l \in Loggers : pc'[l] = "inserted" => pc[l] = "inserted" /\ id'[l] = id[l]
      PROVE  EpochOrder'
  BY <1>2 DEF EpochOrder
<1>3. ASSUME NEW l \in Loggers, ReadNewest(l) PROVE EpochOrder'
  BY <1>2, <1>3 DEF ReadNewest, TypeOK, CallsOK
<1>4. ASSUME NEW l \in Loggers, Insert(l) PROVE EpochOrder'
  BY <1>1, <1>4 DEF Insert, EpochOrder, TypeOK, CallsOK
<1>5. ASSUME NEW l \in Loggers, Commit(l) PROVE EpochOrder'
  <2> DEFINE i == id[l]
  <2>1. /\ DOMAIN written' = DOMAIN written \cup {i}
        /\ \A k \in DOMAIN written : k # i /\ written'[k] = written[k]
        /\ written'[i].row.timestamp = boot
        /\ i \in 1..seq /\ boot' = boot
    BY <1>5 DEF Commit, With, RowOf, TypeOK, CallsOK
  <2>2. \A j \in DOMAIN written : i < j => written[j].row.timestamp = boot
    BY <1>5 DEF Commit, EpochOrder
  <2>3. \A m \in Loggers : pc'[m] = "inserted" => pc[m] = "inserted" /\ id'[m] = id[m]
    BY <1>5 DEF Commit, Return, TypeOK, CallsOK
  <2> HIDE DEF i
  <2> QED BY <1>1, <2>1, <2>2, <2>3 DEF EpochOrder
<1>6. ASSUME NEW l \in Loggers, LogFails(l) PROVE EpochOrder'
  BY <1>2, <1>6 DEF LogFails, Return, TypeOK, CallsOK
<1>7. CASE Purge \/ PurgeFails \/ Tick \/ UNCHANGED vars
  BY <1>2, <1>7 DEF Purge, PurgeFails, Tick, vars
<1>8. CASE Crash
  BY <1>2, <1>8 DEF Crash, Stop
<1>9. CASE Restart
  <2>1. \A l \in Loggers : pc'[l] = "idle"
    BY <1>9 DEF Restart, TypeOK, ProcessOK, InFlight
  <2>2. UNCHANGED written /\ boot <= boot'
    BY <1>9 DEF Restart, TypeOK, ProcessOK
  <2> QED BY <1>1, <2>1, <2>2, <1>9 DEF EpochOrder, Restart, TypeOK, ProcessOK
<1> QED BY StepCases, <1>3, <1>4, <1>5, <1>6, <1>7, <1>8, <1>9

(* Retention takes rows away in the order of their ids. *)
LEMMA ExpiredIsPrefix ==
  ASSUME Inv
  PROVE  \A i \in Expired, k \in DOMAIN log \ Expired : i < k
<1> SUFFICES ASSUME NEW i \in Expired, NEW k \in DOMAIN log \ Expired, ~(i < k)
             PROVE FALSE
  OBVIOUS
<1> USE DEF Inv, ForestInv
<1>1. LOG_RETENTION_DAYS # 0
  BY DEF Expired
<1>2. /\ log[i].timestamp < day - LOG_RETENTION_DAYS
      /\ ~(log[k].timestamp < day - LOG_RETENTION_DAYS)
      /\ i \in DOMAIN log
  BY <1>1 DEF Expired
<1>3. /\ i \in DOMAIN written /\ k \in DOMAIN written /\ i \in Nat /\ k \in Nat
      /\ log[i] = written[i].row /\ log[k] = written[k].row
  BY <1>2 DEF TypeOK, RowsOK
<1>4. i # k
  OBVIOUS
<1>5. log[k].timestamp <= log[i].timestamp
  BY <1>3, <1>4 DEF EpochOrder
<1>6. log[i].timestamp \in Nat /\ log[k].timestamp \in Nat /\ day \in Nat
  BY <1>3 DEF TypeOK, ProcessOK, RowsOK, Row
<1> QED BY <1>2, <1>5, <1>6, RetentionAssumption


-------------------------------------------------------------------------------
(* The chain while calls do not overlap. *)

(* An empty table is a chain. *)
LEMMA SerialInit == Init => SerialInv
<1> SUFFICES ASSUME Init PROVE SerialInv
  OBVIOUS
<1>1. DOMAIN log = {} /\ \A l \in Loggers : pc[l] = "idle"
  BY DEF Init
<1> QED BY <1>1 DEF SerialInv

(* The parts of SerialInv that speak of rows and of calls. *)
LEMMA SerialQuiet ==
  ASSUME SerialInv, UNCHANGED <<log, purged, overlapped>>,
         \A l \in Loggers :
            \/ pc'[l] = "idle"
            \/ /\ pc'[l] = pc[l] /\ id'[l] = id[l]
               /\ previous_hash'[l] = previous_hash[l]
  PROVE  SerialInv'
<1>1. NewestHash(log)' = NewestHash(log)
  BY DEF NewestHash, Last
<1> QED BY <1>1 DEF SerialInv, Adjacent, First

(* A call that overlaps no other reads the newest hash. *)
LEMMA SerialRead ==
  ASSUME Inv, SerialInv, NEW l \in Loggers, ReadNewest(l)
  PROVE  SerialInv'
<1> SUFFICES ASSUME ~overlapped' PROVE SerialInv'
  BY DEF SerialInv
<1>1. ~overlapped /\ \A m \in Loggers : pc[m] = "idle"
  BY DEF ReadNewest, InFlight
<1>2. UNCHANGED <<log, purged>> /\ \A m \in Loggers : m # l => pc'[m] = "idle"
  BY <1>1 DEF ReadNewest, table, Inv, ForestInv, TypeOK, CallsOK
<1>3. pc'[l] = "read" /\ previous_hash'[l] \in NewestHash(log)
  BY DEF ReadNewest, Inv, ForestInv, TypeOK, CallsOK
<1> QED BY <1>1, <1>2, <1>3 DEF SerialInv, NewestHash, Adjacent, First, Last

(* Its row comes after all the others. *)
LEMMA SerialInsert ==
  ASSUME Inv, SerialInv, NEW l \in Loggers, Insert(l)
  PROVE  SerialInv'
<1> SUFFICES ASSUME ~overlapped' PROVE SerialInv'
  BY DEF SerialInv
<1>1. UNCHANGED <<log, purged, overlapped, previous_hash>>
  BY DEF Insert, history
<1>2. \A m \in Loggers : pc'[m] # "idle" => pc[m] # "idle"
  BY DEF Insert, Inv, ForestInv, TypeOK, CallsOK
<1>3. \A m \in Loggers : pc'[m] = "inserted" => \A i \in DOMAIN log : i < id'[m]
  BY <1>1 DEF Insert, SerialInv, Inv, ForestInv, TypeOK, CallsOK, RowsOK
<1> QED BY <1>1, <1>2, <1>3 DEF SerialInv, NewestHash, Adjacent, First, Last

(* The committed row continues the newest one, or starts the chain. *)
LEMMA SerialCommit ==
  ASSUME Inv, SerialInv, NEW l \in Loggers, Commit(l)
  PROVE  SerialInv'
<1> SUFFICES ASSUME ~overlapped' PROVE SerialInv'
  BY DEF SerialInv
<1> DEFINE n == id[l]
<1> USE DEF Inv, ForestInv
<1>1. ~overlapped /\ UNCHANGED <<overlapped, purged>> /\ pc[l] = "inserted"
  BY DEF Commit
<1>2. \A m \in Loggers : pc'[m] = "idle"
  BY <1>1 DEF Commit, Return, SerialInv, TypeOK, CallsOK
<1>3. \A i \in DOMAIN log : i < n
  BY <1>1 DEF SerialInv
<1>4. /\ n \in Nat /\ DOMAIN log \subseteq Nat
      /\ DOMAIN log' = DOMAIN log \cup {n}
      /\ \A k \in DOMAIN log : log'[k] = log[k]
      /\ log'[n].previous_hash = previous_hash[l]
  BY <1>3, <1>1 DEF Commit, With, RowOf, TypeOK, RowsOK, CallsOK
<1>5. \/ previous_hash[l] \in NewestHash(log)
      \/ purged /\ DOMAIN log = {}
  BY <1>1 DEF SerialInv
<1> HIDE DEF n
<1>6. ASSUME NEW i \in DOMAIN log', NEW j \in DOMAIN log', Adjacent(log', j, i)
      PROVE  log'[i].previous_hash = log'[j].chain_hash
  <2>1. j \in DOMAIN log
    BY <1>3, <1>4, <1>6 DEF Adjacent
  <2>2. CASE i = n
    <3>1. Last(log, j)
      BY <1>3, <1>4, <1>6, <2>1, <2>2 DEF Adjacent, Last
    <3>2. PICK k \in DOMAIN log : Last(log, k) /\ previous_hash[l] = log[k].chain_hash
      BY <1>5, <2>1 DEF NewestHash
    <3>3. k = j
      BY <1>4, <2>1, <3>1, <3>2 DEF Last
    <3> QED BY <1>4, <2>1, <2>2, <3>2, <3>3
  <2>3. CASE i # n
    <3>1. i \in DOMAIN log /\ Adjacent(log, j, i)
      BY <1>4, <1>6, <2>3 DEF Adjacent
    <3> QED BY <1>1, <1>4, <2>1, <3>1 DEF SerialInv
  <2> QED BY <2>2, <2>3
<1>7. ASSUME ~purged, NEW i \in DOMAIN log', First(log', i)
      PROVE  log'[i].previous_hash = NoHash
  <2>1. CASE i = n
    <3>1. DOMAIN log = {}
      BY <1>3, <1>4, <1>7, <2>1 DEF First
    <3> QED BY <1>4, <1>5, <1>7, <2>1, <3>1 DEF NewestHash
  <2>2. CASE i # n
    <3>1. i \in DOMAIN log /\ First(log, i)
      BY <1>4, <1>7, <2>2 DEF First
    <3> QED BY <1>1, <1>4, <1>7, <3>1 DEF SerialInv
  <2> QED BY <2>1, <2>2
<1> QED BY <1>1, <1>2, <1>6, <1>7 DEF SerialInv

(* Retention takes a prefix: neighbours that remain were neighbours before,
   and a newest row that remains is the newest row before. *)
LEMMA SerialPurge ==
  ASSUME Inv, SerialInv, Purge
  PROVE  SerialInv'
<1> SUFFICES ASSUME ~overlapped' PROVE SerialInv'
  BY DEF SerialInv
<1> USE DEF Inv, ForestInv
<1>1. /\ ~overlapped /\ UNCHANGED <<pc, id, previous_hash>>
      /\ DOMAIN log' = DOMAIN log \ Expired
      /\ \A k \in DOMAIN log' : log'[k] = log[k]
      /\ purged' = (purged \/ Expired # {})
  BY DEF Purge, calls, Keep
<1>2. \A i \in Expired, k \in DOMAIN log' : i < k
  BY <1>1, ExpiredIsPrefix
<1>3. DOMAIN log \subseteq Nat /\ Expired \subseteq DOMAIN log
  BY DEF TypeOK, RowsOK, Expired
<1>4. ASSUME NEW i \in DOMAIN log', NEW j \in DOMAIN log', Adjacent(log', j, i)
      PROVE  log'[i].previous_hash = log'[j].chain_hash
  <2>1. \A k \in DOMAIN log : j < k => k \in DOMAIN log'
    BY <1>1, <1>2, <1>3
  <2>2. Adjacent(log, j, i)
    BY <1>4, <2>1 DEF Adjacent
  <2> QED BY <1>1, <2>2 DEF SerialInv
<1>5. ASSUME ~purged', NEW i \in DOMAIN log', First(log', i)
      PROVE  log'[i].previous_hash = NoHash
  <2>1. ~purged /\ First(log, i)
    BY <1>1, <1>5 DEF First
  <2> QED BY <1>1, <2>1 DEF SerialInv
<1>6. ASSUME NEW l \in Loggers, pc[l] # "idle"
      PROVE  \/ previous_hash[l] \in NewestHash(log)'
             \/ purged' /\ DOMAIN log' = {}
  <2>1. CASE DOMAIN log' = {} /\ DOMAIN log = {}
    BY <1>1, <1>6, <2>1 DEF SerialInv, NewestHash
  <2>2. CASE DOMAIN log' = {} /\ DOMAIN log # {}
    BY <1>1, <1>3, <2>2
  <2>3. CASE DOMAIN log' # {}
    <3>1. PICK k \in DOMAIN log : Last(log, k) /\ previous_hash[l] = log[k].chain_hash
      BY <1>1, <1>6, <2>3 DEF SerialInv, NewestHash
    <3>2. k \in DOMAIN log' /\ Last(log', k)
      BY <1>1, <1>2, <1>3, <2>3, <3>1 DEF Last
    <3>3. previous_hash[l] = log'[k].chain_hash
      BY <1>1, <3>1, <3>2
    <3> QED BY <2>3, <3>2, <3>3 DEF NewestHash, Last
  <2> QED BY <2>1, <2>2, <2>3
<1>7. \A l \in Loggers : pc'[l] = "inserted" => \A i \in DOMAIN log' : i < id'[l]
  BY <1>1 DEF SerialInv
<1>8. \A l, m \in Loggers : pc'[l] # "idle" /\ pc'[m] # "idle" => l = m
  BY <1>1 DEF SerialInv
<1> QED BY <1>1, <1>4, <1>5, <1>6, <1>7, <1>8 DEF SerialInv

(* With the invariant of the forest, SerialInv is inductive. *)
LEMMA SerialNext == Inv /\ SerialInv /\ [Next]_vars => SerialInv'
<1> SUFFICES ASSUME Inv, SerialInv, [Next]_vars PROVE SerialInv'
  OBVIOUS
<1> USE DEF table, calls, history
<1>1. ASSUME NEW l \in Loggers, LogFails(l) PROVE SerialInv'
  BY <1>1, SerialQuiet DEF LogFails, Return, Inv, ForestInv, TypeOK, CallsOK
<1>2. CASE PurgeFails \/ Tick \/ Restart \/ UNCHANGED vars
  BY <1>2, SerialQuiet DEF PurgeFails, Tick, Restart, vars
<1>3. CASE Crash
  BY <1>3, SerialQuiet DEF Crash, Stop
<1> QED BY StepCases, SerialRead, SerialInsert, SerialCommit, SerialPurge, <1>1, <1>2, <1>3


(* SerialInv says it of neighbours; audit_verify looks at all rows. *)
LEMMA SerialImpliesChain == ForestInv /\ SerialInv => SerialChain
<1> SUFFICES ASSUME ForestInv, SerialInv, ~overlapped
             PROVE  /\ \A i \in Broken(log) : First(log, i)
                    /\ ~purged => audit_verify(log).status = "ok"
  BY DEF SerialChain
<1>1. \A i \in DOMAIN log : SelfConsistent(log[i])
  BY DEF ForestInv, TypeOK, RowsOK, LinksPointBack
<1>2. ASSUME NEW i \in Broken(log) PROVE First(log, i)
  BY <1>1 DEF Broken, LinkHolds, SerialInv
<1>3. ASSUME ~purged PROVE audit_verify(log).status = "ok"
  <2>1. Broken(log) = {}
    BY <1>1, <1>3 DEF Broken, LinkHolds, SerialInv
  <2> QED BY <2>1 DEF audit_verify
<1> QED BY <1>2, <1>3

(* If calls of _log_request have not overlapped, audit_verify can fail at the
   oldest surviving row only, and says "ok" as long as retention deleted
   nothing (SerialChain). *)
THEOREM SerialChainHolds == Spec => []SerialChain
<1>1. Init => Inv /\ SerialInv
  BY ForestInit, EpochInit, SerialInit DEF Inv
<1>2. Inv /\ SerialInv /\ [Next]_vars => (Inv /\ SerialInv)'
  BY ForestNext, EpochNext, SerialNext DEF Inv
<1>3. Inv /\ SerialInv => SerialChain
  BY SerialImpliesChain DEF Inv
<1> QED BY <1>1, <1>2, <1>3, PTL DEF Spec

-------------------------------------------------------------------------------
(* The log implements the abstract ledger. *)

(* How a step of request_logs looks in the ledger: the rows' hashed columns,
   under their ids. *)
LedgerOf == [i \in DOMAIN log |-> log[i].cols]

(* The empty table is the empty ledger. *)
LEMMA LedgerInit == Init => Ledger!Init
BY DEF Init, Ledger!Init

(* A COMMIT is an Append under an id never used. *)
LEMMA CommitAppends ==
  ASSUME Inv, NEW l \in Loggers, Commit(l)
  PROVE  Ledger!Append
<1> DEFINE n == id[l]
<1> USE DEF Inv, ForestInv
<1>1. /\ n \in 1..MaxRows \ DOMAIN written
      /\ content[l] \in Contents
  BY BoundsAssumption DEF Commit, TypeOK, RowsOK, CallsOK
<1>2. DOMAIN written' = DOMAIN written \cup {n}
  BY DEF Commit, With
<1>3. LedgerOf' = [j \in DOMAIN LedgerOf \cup {n} |->
                      IF j = n THEN content[l] ELSE LedgerOf[j]]
  BY DEF LedgerOf, Commit, With, RowOf
<1> HIDE DEF n
<1> QED BY <1>1, <1>2, <1>3 DEF Ledger!Append, LedgerOf

(* A pass of retention is an Expire: what it deletes is a prefix. *)
LEMMA PurgeExpires ==
  ASSUME Inv, Purge
  PROVE  Ledger!Expire
<1> DEFINE K == DOMAIN log \ Expired
<1>1. K \in SUBSET DOMAIN LedgerOf /\ DOMAIN LedgerOf = DOMAIN log
  BY DEF LedgerOf
<1>2. \A i \in DOMAIN LedgerOf \ K, k \in K : i < k
  BY ExpiredIsPrefix, <1>1
<1>3. LedgerOf' = [k \in K |-> LedgerOf[k]]
  BY DEF LedgerOf, Purge, Keep
<1>4. DOMAIN written' = DOMAIN written
  BY DEF Purge
<1> HIDE DEF K
<1> QED BY <1>1, <1>2, <1>3, <1>4 DEF Ledger!Expire, LedgerOf


(* Every step is a step of the ledger or a stutter. *)
LEMMA LedgerStep == Inv /\ [Next]_vars => [Ledger!Next]_(Ledger!ledgerVars)
<1> SUFFICES ASSUME Inv, [Next]_vars PROVE [Ledger!Next]_(Ledger!ledgerVars)
  OBVIOUS
<1> USE DEF Ledger!Next, Ledger!ledgerVars, table, history
<1>1. ASSUME UNCHANGED <<log, written>> PROVE UNCHANGED Ledger!ledgerVars
  BY <1>1
<1>2. ASSUME NEW l \in Loggers, ReadNewest(l) \/ Insert(l) \/ LogFails(l)
      PROVE  UNCHANGED Ledger!ledgerVars
  BY <1>1, <1>2 DEF ReadNewest, Insert, LogFails
<1>3. CASE PurgeFails \/ Tick \/ Crash \/ Restart \/ UNCHANGED vars
  BY <1>1, <1>3 DEF PurgeFails, Tick, Crash, Stop, Restart, vars
<1> QED BY StepCases, CommitAppends, PurgeExpires, <1>2, <1>3

(* request_logs is a RetainedLedger: ids are used once, what they name never
   changes, and it leaves oldest first (RefinesLedger). *)
THEOREM LedgerImplemented == Spec => RefinesLedger
<1>1. Init => Inv
  BY ForestInit, EpochInit DEF Inv
<1>2. Inv /\ [Next]_vars => Inv'
  BY ForestNext, EpochNext DEF Inv
<1> QED BY <1>1, <1>2, LedgerInit, LedgerStep, PTL DEF Spec, RefinesLedger, Ledger!Spec

===============================================================================
