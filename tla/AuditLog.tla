------------------------------- MODULE AuditLog -------------------------------
(***************************************************************************)
(* The request_logs table of gateway/main.py and everything that writes    *)
(* it: concurrent calls of _log_request, each a read of the newest         *)
(* chain_hash followed by an INSERT and a COMMIT in the same session; the  *)
(* daily retention loop; crashes and restarts of the process.              *)
(*                                                                         *)
(* A logger is one call of _log_request in flight (there is one per        *)
(* request being answered).  Its steps are separated where the coroutine   *)
(* awaits the database: other calls run in between.                        *)
(***************************************************************************)
EXTENDS Integers

CONSTANTS Loggers,             \* calls of _log_request that may be in flight
          Contents,            \* values of the columns the chain hash covers
          NoHash,              \* None in a previous_hash column
          LOG_RETENTION_DAYS,  \* 0 keeps every row
          MaxRows,             \* bound: rows the id sequence may number
          MaxDay,              \* bound: the last day, which stands for all later ones
          BusyDays,            \* bound: requests and faults happen up to this day
          MaxFaults            \* bound: crashes and database errors

ASSUME RetentionAssumption == LOG_RETENTION_DAYS \in Nat
ASSUME ContentsAssumption == Contents # {}
ASSUME BoundsAssumption == /\ MaxRows \in Nat
                           /\ MaxDay \in Nat
                           /\ BusyDays \in Nat
                           /\ MaxFaults \in Nat

VARIABLES log,            \* committed rows of request_logs: a function of their ids
          seq,            \* last id the table's sequence handed out
          day,            \* the clock, in days
          up,             \* the gateway process is running
          boot,           \* day on which it imported main.py
          wake,           \* day on which the retention loop wakes next
          pc,             \* pc[l]: where logger l's call stands
          content,        \* content[l]: the hashed columns it is to write
          previous_hash,  \* previous_hash[l]: its local variable
          id,             \* id[l]: id of its uncommitted row, 0 before the INSERT
          faults          \* faults so far

(* Observers: what happened, remembered for the properties only. *)
VARIABLES written,        \* every row ever committed, with the day of its commit
          overlapped,     \* a call started while another was in flight
          purged          \* retention has deleted a row

table   == <<log, seq>>
calls   == <<pc, content, previous_hash, id>>
process == <<up, boot, wake>>
history == <<written, overlapped, purged>>
vars    == <<table, day, process, calls, faults, history>>

-------------------------------------------------------------------------------
(* The chain. *)

(* SHA-256 of the joined columns, idealised: equal only on equal inputs.
   NoHash stands for the "GENESIS" the code hashes in its place. *)
ChainHash(prev, cols) == [prev |-> prev, cols |-> cols]

(* j is the row the walk of audit_verify visits just before i. *)
Adjacent(t, j, i) == /\ j < i
                     /\ \A k \in DOMAIN t : ~(j < k /\ k < i)

First(t, i) == \A k \in DOMAIN t : i <= k

Last(t, i) == \A k \in DOMAIN t : k <= i

SelfConsistent(r) == r.chain_hash = ChainHash(r.previous_hash, r.cols)

(* The two checks audit_verify makes at row i. *)
LinkHolds(t, i) ==
    /\ First(t, i) => t[i].previous_hash = NoHash
    /\ \A j \in DOMAIN t : Adjacent(t, j, i) => t[i].previous_hash = t[j].chain_hash

Broken(t) == {i \in DOMAIN t : ~(LinkHolds(t, i) /\ SelfConsistent(t[i]))}

(* GET /audit/verify: "ok", or "tampered" with the first row that fails. *)
audit_verify(t) ==
    IF Broken(t) = {}
      THEN [status |-> "ok"]
      ELSE [status |-> "tampered",
            entry_id |-> CHOOSE i \in Broken(t) : \A k \in Broken(t) : i <= k]

(* Faulty variant: ORDER BY id without DESC. *)
NewestHash_Ascending(t) ==
    IF DOMAIN t = {} THEN {NoHash}
                     ELSE {t[i].chain_hash : i \in {k \in DOMAIN t : First(t, k)}}

(* Faulty variant: a row still to be committed may be read too. *)
NewestHash_Dirty(t) ==
    IF DOMAIN t = {} /\ \A l \in Loggers : pc[l] # "inserted"
      THEN {NoHash}
      ELSE {t[i].chain_hash : i \in {k \in DOMAIN t : Last(t, k)}}
           \cup {ChainHash(previous_hash[l], content[l]) :
                     l \in {m \in Loggers : pc[m] = "inserted"}}

(* SELECT chain_hash ORDER BY id DESC LIMIT 1, among committed rows: the one
   value the query returns, as a singleton. *)
NewestHash(t) ==
    IF DOMAIN t = {} THEN {NoHash}
                     ELSE {t[i].chain_hash : i \in {k \in DOMAIN t : Last(t, k)}}

(* The row logger l inserts.  Its timestamp is the column's default, which
   RequestLog evaluates once, when the process imports main.py. *)
RowOf(l) == [timestamp     |-> boot,
             cols          |-> content[l],
             previous_hash |-> previous_hash[l],
             chain_hash    |-> ChainHash(previous_hash[l], content[l])]

With(t, i, r) == [j \in DOMAIN t \cup {i} |-> IF j = i THEN r ELSE t[j]]

Keep(t, S) == [j \in S |-> t[j]]

-------------------------------------------------------------------------------
AnyContent == CHOOSE c \in Contents : TRUE   \* what an idle logger holds

Init == /\ log = [i \in {} |-> {}]
        /\ seq = 0
        /\ day = 0
        /\ up = TRUE
        /\ boot = 0
        /\ wake = 1
        /\ pc = [l \in Loggers |-> "idle"]
        /\ content = [l \in Loggers |-> AnyContent]
        /\ previous_hash = [l \in Loggers |-> NoHash]
        /\ id = [l \in Loggers |-> 0]
        /\ faults = 0
        /\ written = [i \in {} |-> {}]
        /\ overlapped = FALSE
        /\ purged = FALSE

InFlight == {l \in Loggers : pc[l] # "idle"}

(* _log_request is called; its SELECT returns the newest committed hash. *)
ReadNewest(l) ==
    /\ up
    /\ pc[l] = "idle"
    /\ day <= BusyDays
    /\ seq < MaxRows
    /\ \E c \in Contents : content' = [content EXCEPT ![l] = c]
    /\ \E h \in NewestHash(log) : previous_hash' = [previous_hash EXCEPT ![l] = h]
    /\ pc' = [pc EXCEPT ![l] = "read"]
    /\ overlapped' = (overlapped \/ InFlight # {})
    /\ UNCHANGED <<table, day, process, id, faults, written, purged>>

(* session.commit() flushes first: the INSERT takes the next id. *)
Insert(l) ==
    /\ pc[l] = "read"
    /\ seq < MaxRows
    /\ seq' = seq + 1
    /\ id' = [id EXCEPT ![l] = seq + 1]
    /\ pc' = [pc EXCEPT ![l] = "inserted"]
    /\ UNCHANGED <<log, day, process, content, previous_hash, faults, history>>

(* Forgetting a call's locals when it returns. *)
Return(l) == /\ pc' = [pc EXCEPT ![l] = "idle"]
             /\ previous_hash' = [previous_hash EXCEPT ![l] = NoHash]
             /\ id' = [id EXCEPT ![l] = 0]
             /\ content' = [content EXCEPT ![l] = AnyContent]

(* ... and the COMMIT makes the row visible to every other session. *)
Commit(l) ==
    /\ pc[l] = "inserted"
    /\ log' = With(log, id[l], RowOf(l))
    /\ written' = With(written, id[l], [row |-> RowOf(l), at |-> day])
    /\ Return(l)
    /\ UNCHANGED <<seq, day, process, faults, overlapped, purged>>

(* The database refuses a statement of the call: its transaction rolls back,
   but a sequence number it took is not given back. *)
LogFails(l) ==
    /\ pc[l] # "idle"
    /\ day <= BusyDays
    /\ faults < MaxFaults
    /\ faults' = faults + 1
    /\ Return(l)
    /\ UNCHANGED <<table, day, process, history>>

(* Faulty variant: the rows of one day go, and what a failed pass left stays. *)
Expired_OneDay ==
    IF LOG_RETENTION_DAYS = 0
      THEN {}
      ELSE {i \in DOMAIN log : log[i].timestamp = day - LOG_RETENTION_DAYS - 1}

(* The retention loop wakes: one DELETE, one COMMIT, another day asleep.
   On the last day, which stands for all later ones, it keeps waking. *)
Expired == IF LOG_RETENTION_DAYS = 0
             THEN {}
             ELSE {i \in DOMAIN log : log[i].timestamp < day - LOG_RETENTION_DAYS}

NextWake == IF day < MaxDay THEN day + 1 ELSE MaxDay

Purge ==
    /\ up
    /\ day >= wake
    /\ log' = Keep(log, DOMAIN log \ Expired)
    /\ purged' = (purged \/ Expired # {})
    /\ wake' = NextWake
    /\ UNCHANGED <<seq, day, up, boot, calls, faults, written, overlapped>>

(* Faulty variant: an exception ends the loop instead of one pass of it. *)
PurgeFails_EndsLoop ==
    /\ up
    /\ day >= wake
    /\ day <= BusyDays
    /\ faults < MaxFaults
    /\ faults' = faults + 1
    /\ wake' = MaxDay + 1
    /\ UNCHANGED <<table, day, up, boot, calls, history>>

(* The DELETE fails: the exception is logged and the loop goes on. *)
PurgeFails ==
    /\ up
    /\ day >= wake
    /\ day <= BusyDays
    /\ faults < MaxFaults
    /\ faults' = faults + 1
    /\ wake' = NextWake
    /\ UNCHANGED <<table, day, up, boot, calls, history>>

Tick == /\ day < MaxDay
        /\ day' = day + 1
        /\ UNCHANGED <<table, process, calls, faults, history>>

Stop == /\ up
        /\ day <= BusyDays
        /\ faults < MaxFaults
        /\ faults' = faults + 1
        /\ up' = FALSE
        /\ UNCHANGED <<table, day, boot, wake, history>>

(* Faulty variant: a transaction outlives the process that opened it. *)
Crash_KeepsCalls == Stop /\ UNCHANGED calls

(* The process dies with its calls; their transactions roll back. *)
Crash == /\ Stop
         /\ pc' = [l \in Loggers |-> "idle"]
         /\ content' = [l \in Loggers |-> AnyContent]
         /\ previous_hash' = [l \in Loggers |-> NoHash]
         /\ id' = [l \in Loggers |-> 0]

(* The container restarts it: main.py is imported, the loop starts asleep. *)
Restart == /\ ~up
           /\ up' = TRUE
           /\ boot' = day
           /\ wake' = NextWake
           /\ UNCHANGED <<table, day, calls, faults, history>>

Next == \/ \E l \in Loggers : ReadNewest(l) \/ Insert(l) \/ Commit(l) \/ LogFails(l)
        \/ Purge \/ PurgeFails
        \/ Tick
        \/ Crash \/ Restart

(* A call in flight runs on, time passes, a dead container is restarted and
   a sleeping loop wakes. *)
Fairness == /\ \A l \in Loggers : WF_vars(Insert(l)) /\ WF_vars(Commit(l))
            /\ WF_vars(Purge)
            /\ WF_vars(Tick)
            /\ WF_vars(Restart)

Spec == Init /\ [][Next]_vars

FairSpec == Spec /\ Fairness

-------------------------------------------------------------------------------
(* Properties. *)

Hashes == {written[i].row.chain_hash : i \in DOMAIN written}

Row == [timestamp : 0..MaxDay, cols : Contents,
        previous_hash : {NoHash} \cup Hashes, chain_hash : Hashes]

ProcessOK ==
    /\ day \in 0..MaxDay /\ boot \in 0..day /\ wake \in Nat /\ faults \in Nat
    /\ up \in BOOLEAN /\ overlapped \in BOOLEAN /\ purged \in BOOLEAN
    /\ ~up => InFlight = {}

RowsOK ==
    /\ seq \in 0..MaxRows
    /\ DOMAIN written \subseteq 1..seq
    /\ \A i \in DOMAIN written : written[i] \in [row : Row, at : 0..MaxDay]
    /\ DOMAIN log \subseteq DOMAIN written
    /\ \A i \in DOMAIN log : log[i] = written[i].row

CallsOK ==
    /\ pc \in [Loggers -> {"idle", "read", "inserted"}]
    /\ content \in [Loggers -> Contents]
    /\ DOMAIN previous_hash = Loggers
    /\ id \in [Loggers -> 0..seq]
    /\ \A l \in Loggers : pc[l] = "inserted" => id[l] \in 1..seq \ DOMAIN written
    /\ \A l, m \in Loggers : l # m /\ pc[l] = "inserted" => id[l] # id[m]

(* Type invariant.  Every row that can be read is a row that was committed
   under its id, a row in flight has an id of its own that no committed row
   has, and a stopped process has no call in flight. *)
TypeOK == ProcessOK /\ RowsOK /\ CallsOK

(* Whatever calls overlapped, failed or died, and whatever retention took
   away, every row ever committed carries its own hash and continues a row
   committed under a smaller id, or none: the links of request_logs form a
   forest, never a cycle, and never lead to a row that was rolled back. *)
LinksPointBack ==
    \A i \in DOMAIN written :
        LET r == written[i].row IN
        /\ SelfConsistent(r)
        /\ \/ r.previous_hash = NoHash
           \/ \E j \in DOMAIN written :
                  j < i /\ written[j].row.chain_hash = r.previous_hash

(* As long as the calls of _log_request happened one at a time, across any
   failures, restarts and purges, the walk of audit_verify can fail only at
   the oldest surviving row, and then only because its predecessors were
   purged. *)
SerialChain ==
    ~overlapped =>
        /\ \A i \in Broken(log) : First(log, i)
        /\ ~purged => audit_verify(log).status = "ok"

(* The log is a RetainedLedger: ids are used once and never change what they
   name, and the retention loop, which compares timestamps, still takes rows
   away in the order of their ids. *)
Ledger == INSTANCE RetainedLedger
            WITH Ids <- 1..MaxRows,
                 ledger <- [i \in DOMAIN log |-> log[i].cols],
                 spent <- DOMAIN written

RefinesLedger == Ledger!Spec

(* With retention configured, every row is deleted some day, through failed
   passes and restarts of the loop (main.py:375, "Delete request_logs older
   than LOG_RETENTION_DAYS"). *)
RowsExpire ==
    \A i \in 1..MaxRows : (i \in DOMAIN log) ~> (i \notin DOMAIN log)

-------------------------------------------------------------------------------
(* What the documentation says and the code does not do. *)

(* audit_verify reports tampering only when a row was altered or deleted from
   outside (main.py:526): here nobody does, so it must report "ok". *)
UntamperedVerifies == audit_verify(log).status = "ok"

(* Retention deletes only rows older than LOG_RETENTION_DAYS (main.py:375). *)
RetentionKeepsYoung ==
    [][\A i \in DOMAIN log \ DOMAIN log' : written[i].at < day - LOG_RETENTION_DAYS]_vars

===============================================================================
