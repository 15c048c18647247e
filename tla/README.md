# A verification project for municipal-ai-gateway

TLA+ models of the gateway's own logic, the TLC configurations that check them on small
instances, and TLAPS proofs about each of
the nine component modules.  Paths are relative to the repository;
`main.py` is `gateway/main.py`, and so on.

- [1. The system](#1-the-system)
- [2. Modules and code](#2-modules-and-code)
- [3. Runs](#3-runs)
- [4. Bounds and fairness](#4-bounds-and-fairness)
- [5. What is proved](#5-what-is-proved)
- [6. Where code and documentation disagree](#6-where-code-and-documentation-disagree)
- [7. What is not modelled](#7-what-is-not-modelled)
- [8. What is left](#8-what-is-left)

To reproduce: `tlc -config <name>.cfg <MC module>` for a run, `tlapm <module>Proofs.tla` for
proofs.

## 1. The system

The gateway is one Python process: FastAPI on an asyncio event loop.  A handler runs without
interruption between two `await`s and interleaves with all others at each of them, so the
interesting races are between handlers that await PostgreSQL, Redis or the AI provider.  The
process keeps some state in memory and loses it when the container restarts it
(`restart: unless-stopped`).  The operator's scripts, the daily backup and the database's own
transactions run beside it.

| Component | State | Operations | What makes it correct |
|---|---|---|---|
| **Audit log** (`main.py` `_log_request`, `audit_verify`, `_log_retention_loop`; `RequestLog`) | rows of `request_logs`, each with a hash of its columns and its predecessor's hash; the loop's sleep; the time the process was started | insert a row, walk and verify the chain, delete old rows once a day | the links are a chain of committed rows; verification answers "tampered" only when somebody tampered; rows live as long as configured, and not longer |
| **Request proxy** (`proxy`, `_handle_streaming_proxy`) | none beyond each request's locals, and the row it writes | authenticate, limit, check model and budget, scrub, forward, scrub the answer, log, return; the same for a stream, whose row is written by a background task | nothing is forwarded that was not allowed, and nothing in JSON unscrubbed; what is answered is logged as it was; every request ends |
| **Rate limiter** (`policies.py`) | a sorted set in Redis for each key and department, or a deque in memory | prune and count, then record; fall back to the deque when Redis fails | a window holds no more admissions than the limit (by how many, with what overlap); a request is counted if and only if it is admitted |
| **Policies and budget** (`policies.py`) | `department_policies`, the sum of this month's costs | upsert, check model, check budget (nothing deletes a policy) | overlapping changes keep one another's fields; nobody is refused who has not spent the budget, and it is not exceeded by more than what is on its way |
| **Staff keys** (`auth.py`, `/admin/keys`) | rows of `api_keys`: plaintext, hash, active | create, deactivate, authenticate | a raw key names one row for ever; deactivation is final |
| **LDAP sign-in** (`ldap_auth.py`, `/auth/ldap`) | the same rows, by distinguished name | look up, provision, return | one active key for each person |
| **Key hashing script** (`scripts/migrate_key_hashes.py`) | one transaction | select rows without a hash, hash them, drop the plaintext | no key stops working, whenever the script runs or dies |
| **Administrators** (`admin_auth.py`, `/admin/...`) | `admin_users`; JWTs in browsers; session records in Redis | login, TOTP setup and verification, logout, new accounts | a revoked session stays revoked, any other lives as long as its JWT; the second factor is asked of those who enrolled |
| **Login limit** (`main.py`) | a sorted set in Redis or a list in memory for each address; `failed_logins` | check, record, log | the number of failed passwords in a window; what is counted, and what is not |
| **Costs** (`costs.py`) | none | tokens reported or estimated, priced, rounded twice | rows show what calls are worth, to a cent |
| **Scrubber** (`scrubber.py`, `_scrub_payload`) | the recognizers registered at the start | find, merge two languages, replace; walk a JSON payload | a number is found however it is written and wherever it stands; nothing else is touched |
| **Scripts and migrations** (`scripts/*.sh`, `entrypoint.sh`, `alembic/`) | checked-out commit, image, container; dumps; the database's revision | back up, restore, upgrade, roll back, migrate | a version runs only on its own schema; the data survives what fails; every script ends |

How they meet: the proxy calls authentication, the limiter, the policies, the scrubber and
the audit log, in this order.  The limiter and the login limit share one way of using Redis:
the client is made once, in `lifespan`; a process that does not find Redis then runs without
it until it restarts, and one that did find it falls back to memory call by call.  The budget
reads the rows the audit log writes.  Retention deletes rows under the feet of the next
`_log_request`.  LDAP, the administrators' endpoints and the script write the same `api_keys`
rows.

What is hard, and would hardly be reached by a test: the gap between reading the newest hash
and inserting the next row; a pipeline of Redis that stops half way, followed by the fallback;
check-then-act limits (rate, budget, login); a provider or a stream that fails after it got the
request; a key or a policy that changes while a request is held; restarts that decide again
whether Redis exists; a Redis that restarts with what it knew a while ago, and a database that
is replaced under a running server; timestamps that are frozen when the process starts; two administrators
changing one policy; a month that ends between a check and a row; scripts that die half way or
whose dump failed unnoticed.  `PROJECT.json`
lists these hazards at their lines.

## 2. Modules and code

Each component module has one action for each stretch of code between two awaits, and an
`MC` module that only instantiates it.  Variables named *observers* in a module remember what
happened for the properties; no action of the gateway reads them.  Definitions called
`X_Something` with the comment "Faulty variant" are the bugs the properties are tested
against; no specification uses them.

**`RetainedLedger`** says what the audit log promises, without hashes, processes or days:
entries are appended under identifiers used once, never change, and leave oldest first.

**`AuditLog`** is `request_logs` and everything that writes it.  A logger is a call of
`_log_request`: `ReadNewest` (the SELECT), `Insert` (the flush, which takes an id from the
sequence), `Commit`, or `LogFails`.  `Purge` and `PurgeFails` are passes of the retention
loop, `Crash` and `Restart` the process.  SHA-256 is idealised as injective.  `boot` is the
timestamp every row of a process gets, because the column's default is a value and not a
callable (`main.py:101`).  `audit_verify` is the walk of `GET /audit/verify`.  The module
also shows how the table implements `RetainedLedger` (`Ledger`, `RefinesLedger`): rows that
can be read are the ledger, ids ever committed the spent ones.

**`GatewayProxy`** is the life of a request.  The rate limiter appears as either of its
outcomes, the audit row as one action that succeeds or fails (both have modules of their
own), the scrubber as cleaning a payload or failing, the price as any member of `Costs`
(`Budget` and `Scrubber` are about what is inside).  Administrators deactivate keys and change
the allowlist while requests are held.  The provider's answer comes in parts, each of which
httpx waits for separately (`Part` and `ReadOn`; `Chunk` and `Relay` of a stream): an answer may
go on for ever, and a silence of 120 seconds ends it wherever it falls (`UpstreamFails`,
`BreakStream`).  A stream's caller has his 200 before `Connect`, so he may hang up at any moment
after that (`ClientLeaves`), and the background task may still log the request.

**`RequestLimiter`** says what `check_rate_limit` promises those who call it, without sorted
sets, deques or pipelines: a request is let through only while its key and its department
have room (`Let`), and refused only if one of them has none (`Refuse`), by the limits read
for it.  A limiter that refuses everybody keeps every limit; this one may not.

**`RateLimit`** is `check_rate_limit` with both stores.  A pipeline runs without another
client in between, so each of the two pipelines is one action; `RedisFails` leaves behind any
prefix of what the pipeline does and goes to memory.  The strict and the non-strict
comparison of the two stores' cutoffs are kept (`PrunedSet`, `PrunedDeque`).  `Limiter` maps
it to `RequestLimiter`: a request has asked once its limits are read (`Asked`), until it is
decided or falls back.

**`ApiKeys`** is the table of keys.  `LoginFirst`/`Provision` and `Find`/`Touch` are the two
handlers that await between reading and writing; the script's SELECT and COMMIT are separate
from both.  A hash is the raw key in another column.

**`AdminSessions`** is the administrators' sign-in with its records in Redis.  `Accepts` is
`require_admin_session`, including that it lets a session pass when Redis does not answer.
Redis may evict a record (`Evict`), and since its data are in a volume it saves them now and
then (`SaveSnapshot`) and knows what it saved last when it starts again (`RedisRestarts`): the
observer `revived` are the sessions it had deleted for a logout and then loaded again.

**`LoginLimit`** is the limit on failed sign-ins from one address, and the table
`failed_logins`.

**`Budget`** is the month's budget of one department, over the end of a month.  `ReadPolicy`
and `SumCosts` are the two sessions of `check_budget`; `Log`, `LogStream` and `Lost` the ways
a forwarded request ends; `Select` and `Commit` the two halves of `upsert_policy`, which
writes the columns whose value differs from the one it loaded.  Time is counted in months.
`cost[m]` is what the rows stamped with month m sum up to; since a row carries the start of
its process, the observer `billed` keeps beside it what was really logged in each month.
`Worth`, `Rounded` and `Cents` are the arithmetic of `costs.py` in integers: worth is counted
in ten-thousandths of a cent, and a tie of `round` goes either way because the code's floats
decide it.

**`Scrubber`** takes a number as its digits and the marks between them.  A recognizer is a set
of `Pattern`s, each with a score; `Findings` are those that match and reach the threshold,
`scrub` replaces the text by the placeholder of the best, of those that contain the others if
there are letters beside the digits (`Widest`).  A payload is a function from paths
to nodes, so that its depth needs no recursion: the walk of `_scrub_payload` has one action for
each call of `_walk`, by what it is called on (`WalkString`, `WalkFails`, `WalkItems`,
`WalkScalar`), and `todo` is the stack of calls still to be made, the next one first.  The
module is about one payload; the walk never awaits, so nothing interleaves with it.

**`Maintenance`** is the life of an installation: `upgrade.sh` (`Begin` to `Checkout`, one
action for each command that changes something), `restore.sh` (`StopGateway`, `Replay`,
`StartGateway`), the two backups, and the container, whose entrypoint migrates the database
before it starts the server (`Migrate`, `Serve`, `Crash`).  Of the database there are the
revisions in `alembic_version` and one table with its sequence; 0 in `revs` stands for tables
that no revision accounts for, which a server creates that comes up on an empty database
(`init_db`).  `LoseVolume` puts an empty database in place of the old one at any moment and
leaves gateway and script running, since nothing in `docker-compose.yml` stops them; the
observer `orphaned` remembers it until something migrates, `unsaved` an upgrade that had no dump
of its own or lost the volume it had dumped.  `Abort` ends a script after any command, as
`set -e` does.  A dump that failed is an empty file (`Dumped`), because the status of
`pg_dump | gzip` is that of `gzip`.  `Replay` is psql going on after errors: a table that
exists keeps its rows if one of them has an id of the dump, and takes the dump's otherwise;
the sequence is set in any case.

`<module>Proofs` holds the theorems of section 5 about a module; those about `Scrubber` are in
`GatewayProxyProofs`, the proofs about the code that calls it, and share its lemmas on sums.

## 3. Runs

Every property a passing run checks is violated when the definition `PROJECT.json` names
under "mutants" is replaced by its faulty variant.

| Run | Checks | Shows |
|---|---|---|
| `audit_log` | `TypeOK`, `LinksPointBack`, `SerialChain`, `RefinesLedger`, `RowsExpire` | With overlapping calls, failed statements, crashes and purges the links form a forest; they form a chain as long as calls do not overlap, and then verification can only fail at the oldest surviving row after a purge; the table is a `RetainedLedger`; every row is deleted some day, although a pass may fail and each restart begins the loop's sleep again. |
| `audit_fork` | `UntamperedVerifies` (violated) | Two overlapping calls make verification report tampering. |
| `audit_young` | `RetentionKeepsYoung` (violated) | A process older than the retention period has yesterday's rows deleted. |
| `proxy` | `TypeOK`, `ForwardedWasAllowed`, `AnsweredIsLogged`, `BudgetOvershoot`, `ForwardedIsLogged`, `RequestsEnd` | What was forwarded was allowed; what was answered is logged, once, as it was; the budget is exceeded by no more than the requests that were past its check together may cost; every request ends, however long the provider is silent and wherever, unless its caller does not read on or the answer has no end; and every forwarded one is logged, streams included, unless the gateway answers with a failure, the stream breaks off or the process dies. |
| `budget` | `TypeOK`, `RefusalIsDeserved`, `BudgetHolds`, `UndercountIsBounded`, `UpsertKeepsOthers`, `StatedTakesEffect` | Wrong timestamps never turn anybody away; where they are right a month keeps its budget, but for what was on its way; rows show worth to a cent; of two overlapping changes neither puts back what the other set, and a stated value takes effect unless that field was changed meanwhile. |
| `rate_limit` | `TypeOK`, `RedisSlack`, `CountedIffAdmitted`, `RefinesLimiter` | Redis admits at most one request too many for each other request in the check at that time, and none without overlap; an admitted request is counted, a rejected one is not unless its recording broke off.  The limiter implements `RequestLimiter`: memory is exact, and nobody is refused unless a limit of admitted requests, each failure counted as one, fills a window. |
| `api_keys` | `TypeOK`, `HandedOutIsFound`, `OneKeyEach`, `StaysDeactivated` | Keys work and keep naming their row through the script's run; a deactivated key stays so whatever is written beside it; persons whose logins do not overlap have one key. |
| `admin_sessions` | `TypeOK`, `RevokedStaysRevoked`, `SessionIsKept` | Nothing the gateway does revives a session that Redis deleted for a logout, only a restart of Redis from an older snapshot; and nothing but its logout, its expiry, an eviction or such a restart ends one that was stored. |
| `login_limit` | `TypeOK`, `LoginSlack`, `RefusedIsNotCounted` | By how much overlap and failures of Redis may exceed the limit, and that without them it is exact; being refused does not prolong the wait and leaves no row. |
| `maintenance` | `TypeOK`, `ServesItsSchema`, `NextIdIsFreeUnlessOverwritten`, `RollbackWorksUnlessMigrated`, `MigrationHasBackup`, `ScriptsEnd` | Through upgrades, rollbacks, restores, lost volumes, failed dumps and scripts that die: a version serves only on its own schema, or on none if the volume was lost under it; the next id is that of no row unless a dump was replayed over rows; a rollback works unless the previous version is sick or the database is at no revision it knows; whoever migrates has a file to go back to, unless an upgrade had no dump; every script ends. |
| `upgrade_rollback` | `RollbackReverts` (violated) | An upgrade that migrated and then fails its health check cannot be rolled back. |
| `scrubber` | `LuhnCatchesErrors`, `SinIsRemoved`, `WalkIsThorough` | No SIN with one wrong digit or two swapped neighbours passes for one; a valid SIN goes wherever it is a string, whichever recognizer finds it; the walk reaches every string and nothing else, and gives back nothing if the scrubber fails and must not. |

The other configurations belong to properties stated in the modules as what documentation and
comments say, each of which TLC violates: see section 6.

## 4. Bounds and fairness

Every bound is a constant whose name begins with `Max` (and `BusyDays`), with a guard in the
actions it limits; nothing else in a module is cut.

- *Actors*: two calls at once are enough for each race named above, since each is between a
  reader and a writer of one piece of state.  `RedisSlack` and `LoginSlack` are stated for
  any number of slots.
- *Audit log*: three rows are the fewest in which a row has a predecessor and a successor;
  with `LOG_RETENTION_DAYS = 1` days enough let a row be written, expire and be followed by
  others.  Calls and failures happen until `BusyDays`; the days up to `MaxDay` leave time for
  what was written last to expire, and the last day stands for all later ones: the loop keeps
  waking on it.  All rows have one content, since no property of the run depends on it.
- *Proxy*: two requests of seven kinds, one for each way `proxy` treats a body, a key and a
  provider; failures at every await, without a bound, and two changes by an administrator, so
  that a policy may change there and back while a request is held.  Costs of one and two cents against a limit
  of one let the budget be met, exceeded by one request, and exceeded by two.
- *Limits* are one and two, windows two ticks: a request may then expire before, with or after
  the next one.
- *Keys*: one row older than the hashes, two more rows, two persons, two calls.
- *Sessions*: two secrets, so that one may replace the other; a session outlives a temp token by a tick; three ticks let the first expire
  while the second lives.
- *Budget*: two months, so that one process may see the end of one; two requests of three at
  once, and two upserts, the fewest that overlap.  Limits of 0 and 3 cents against a dearest
  row of two let a limit be zero, met, exceeded by one request, and exceeded by two.  A policy
  may exist from before.
- *Maintenance*: three versions, of which the second is sick and the third brings a migration,
  so that a rollback may or may not cross one; two scripts, of which a backup by hand is one, so
  that one may find what another left behind; two daily dumps, so that the second may prune the
  first; two faults of any kind, a lost volume among them.  One row is enough for an id to be in
  a dump, in the table, or in both (the runs of section 6 have two).  With this the run has 1.7
  million states.
- *Scrubber*: a number of each length some recognizer knows, valid and not, with all choices
  of at most three marks at places where most recognizers expect one, the places of the others,
  and letters beside it; as a
  whole payload, as a key, as a JSON number, and in lists within objects within lists.
- `CHECK_DEADLOCK FALSE` where the modelled calls are finite in number and the model stops
  when they are through.  `AuditLog` never stops: its loop keeps waking.
- Symmetry is used in runs of invariants and action properties only; the three runs with
  liveness (`audit_log`, `proxy`, `maintenance`) have none.

Fairness is assumed where a run checks liveness, and only of what the code schedules:

- `AuditLog!Fairness`: a call in flight runs on (the event loop runs every ready task); time
  passes; a sleeping loop wakes; a stopped container is started again
  (`docker-compose.yml`, `restart: unless-stopped`).  Nothing is assumed of new requests, and
  failures stop after `BusyDays`.
- `GatewayProxy!Fairness`: weak fairness, for each request, of what its handler does by itself
  (`Handle`: the event loop runs it, and the database answers or raises) and of httpx giving up
  (`UpstreamFails`, `BreakStream`: `timeout=120`, `main.py:407`, in each place where it waits).
  Nothing is assumed of the provider (`Exchange`), who may never answer nor end, of the caller
  (`Caller`), of failures, arrivals or administrators.  A timeout that is continuously possible
  happens; one that a drip of data interrupts again and again need not.  So a request whose
  answer never ends, or whose caller does not read or upload, may be held for ever: `Held(r)`,
  being in such a place again and again, excuses `ForwardedIsLogged` and `RequestsEnd`, and
  nothing else does.
- `Maintenance!FairSpec`: the shell runs a script's next command; Docker starts the container
  again when its entrypoint ends (`restart: unless-stopped`), so one that can migrate does, and
  one that is not sick comes to answer.  Nothing is assumed of operators, of faults or of new
  versions.

Assumptions about the surroundings, where the code relies on them: rows are retained for a
month at least (`Budget`; the default is a year); one operator runs one script at a time, and a
daily dump is copied out of its volume before it is restored, as
`restore.sh` needs a file in the working directory; what the French model finds is an input of
`Scrubber`, and has less than the full score, which only a validated number is given.

## 5. What is proved

`AuditLogProofs` proves, for any number of loggers, rows, days and faults and any retention
period, under the assumptions named in `AuditLog`:

- `TypeCorrect`: `Spec => []TypeOK`.
- `Forest`: `Spec => []LinksPointBack`.  `LinksPointBack` alone is not inductive: a call that
  has read a hash will write it into a row later.  `ForestInv` adds `CallsLinkBack`, that the
  hash a call in flight holds is of a committed row, whose id is smaller than the call's own
  as soon as it has one.  Purging disturbs neither, since both are about rows ever committed.
- `SerialChainHolds`: `Spec => []SerialChain`.  `SerialInv` says, while no two calls have
  overlapped, that the surviving rows are linked one to the next, and that the one call in
  flight holds the hash of the newest row, unless a purge has emptied the table meanwhile.
  The hard step is the purge: the rows it keeps must still be neighbours, that is, it must
  take a prefix.  Retention compares timestamps and not ids; `EpochOrder` says that the
  processes' start times grow with the ids of the rows they commit, and `ExpiredIsPrefix`
  derives that what expires is a prefix.
- `LedgerImplemented`: `Spec => RefinesLedger`, step by step: a commit appends, a purge
  expires (again by `ExpiredIsPrefix`), everything else stutters.

`ApiKeysProofs`, for any number of calls, people, raw keys and rows:

- `KeysTypeCorrect` (`TypeOK`), `KeysKeepWorking` (`HandedOutIsFound`) and
  `LoginFindsPlaintext` (`ProvisionedKeepsPlaintext`, which is in no run).  That a raw key finds one row follows
  from no single step: `KeysInv` says that no raw key is in two rows, in whichever of their
  columns (`RowsDistinct`), that each key handed out is in its row (`HandedMatches`), and that
  a row without a hash belongs to nobody (`UnhashedHasNoPerson`), so the script, which selects
  such rows, cannot touch a provisioned one.
- `DeactivationIsFinal` (`StaysDeactivated`), an action property, from the same invariant.
- `OneKeyForEach` (`OneKeyEach`).  `OneLogin`: while a person's logins do not overlap, a call
  about to make a key for him is the only one, and he has none.

`GatewayProxyProofs`, for any number of requests, any inputs, policies, costs and faults and
both failure modes:

- `ProxyTypeCorrect`, `NothingForbiddenIsSent` (`ForwardedWasAllowed`), `JsonIsScrubbed`
  (`JsonLeavesClean`) and `AnswersAreLogged` (`AnsweredIsLogged` and `RowsTellTheTruth`).
  `JsonLeavesClean` and `RowsTellTheTruth` are proved and in no run.
  A stream may have a row though the provider never got it, so what is said of rows is said
  of requests that are not streamed.  `ProxyInv` follows one request: what its place in the handler says of its locals
  (`Staged`), what the checks it passed say of its permission although key and policy change
  meanwhile (`Permitted`), what it may send (`Cleaned`), and that its row is written at the
  very end (`Recorded`).  `OthersFollowed` is the frame: a step of one request does not
  disturb what is said of another.
- `OvershootIsBounded` (`BudgetOvershoot`).  The rows alone are not inductive: a request that
  has passed the check adds a cost later that nobody knows yet.  `SpendInv` adds it at once:
  what is spent and the dearest cost for each request on its way is below the limit and `peak`
  such costs.  A passing check makes it true again, since then less than the limit is spent;
  a row trades a place on the way for at most the dearest cost; a stream's row and that of a
  request without a model cost nothing.  That a row adds just its cost needs `Recorded`: it is
  not in the log already.

`AdminSessionsProofs`, for any number of administrators, calls, sessions and faults, and any
lifetimes:

- `SessionsTypeCorrect` (`TypeOK`), `RevocationIsFinal` (`RevokedStaysRevoked`) and
  `SessionsLast` (`SessionIsKept`).  A revoked session stays revoked because a record is only
  written by the call that still holds the session, and only a returned session can be
  revoked: `CallsOK` says no two calls hold one session and none holds a returned one.  Only a
  snapshot that still has the record brings it back, and then the session is in `revived`
  (`Forgotten`).  That
  the record outlives the JWT, in Redis and in its snapshot (`Outlives`), rests on the bound in `TokensOK`, that no token lives longer
  than one made now would; the record is written no earlier than the token was made.

`RateLimitProofs`, for any number of requests, keys, departments, policies and faults:

- `LimiterTypeCorrect` (`TypeOK`) and `CountsAreRight` (`CountedIffAdmitted`).  `CountInv`
  adds to the property that a request not yet decided has no entry (`UndecidedIsOut`), which
  is why rejecting it leaves no trace, and that the entries of an admission carry its time in
  both windows (`AdmittedIsIn`), which is why pruning spares them.  The hard step is a failure
  of Redis between the two buckets: `torn` remembers it, and the fallback must still count
  what it admits.
- `RedisLimitHolds` (`RedisSlack`) and `MemoryLimitHolds` (`MemoryExact`, which in the run is
  part of `RefinesLimiter`), in `LimitInv`.
  The admissions of a window alone are not inductive: a request that has counted will still be
  recorded.  `RedisHolds` counts those requests (`Passed`) with the admissions of the bucket.
  When one passes, the window holds fewer admissions than the limit, because each has an entry
  (`CountInv`) and each request one admission (`AdmittedOnce`), so an injection of the
  admissions into the entries gives the inequality; at most the other slots have passed too,
  and `Alone` says that they are none unless calls have overlapped.  In memory the count and
  the entry are one step and nothing has to be added.
- `LimiterImplemented` (`RefinesLimiter`), step by step: reading the limits asks, the second
  pipeline and the memory let through, the first pipeline and the memory refuse, failures and
  restarts fail.  Admissions need `LimitInv`.  Refusals need its converse, that entries are of
  admissions: in memory all are (`MemoryIsOfAdmissions`), in Redis all but those of recordings
  that broke off, which are no more than there were failures (`StraysAreFew`).  An injection of
  entries into admissions then gives the inequality the other way round
  (`EntriesAreAdmissions`).  Each allowance of `RequestLimiter` is needed: with the slack, the
  strays, or either store's second at the edge of the window left out, TLC finds a step that is
  none of the limiter's.

`LoginLimitProofs`, for any number of sign-ins and faults:

- `LoginTypeCorrect` (`TypeOK`) and `RefusedLeavesNoTrace` (`RefusedIsNotCounted`), in the
  same way: a call in flight is counted nowhere until its password was wrong, and a refused
  one never gets so far.
- `LoginLimitHolds` (`LoginSlack`).  A failure may be in either store, and a failure of Redis
  sends a call from one to the other between its check and its record.  `WithinSlack` bounds
  three sums: the failures recorded through Redis; in a process that uses Redis, these, what is
  in memory (no more than Redis has failed) and the calls that have passed or fell back to the
  memory; in one that does not, what is in memory and the calls that have passed.

`BudgetProofs`, for any number of requests and upserts at once, any price list, any limits and
any number of months:

- `BudgetTypeCorrect` (`TypeOK`).
- `OthersAreKept` (`UpsertKeepsOthers`) and `StatedValuesTakeEffect` (`StatedTakesEffect`),
  action properties: what is written is a stated value or what is there, field by field.
- `RoundingIsBounded` (`UndercountIsBounded`).  `CentsAreClose` bounds both roundings of one
  row, `WorthsAreNatural` says every worth is a natural number; the bound then grows with each
  row.
- `RefusalsAreDeserved` (`RefusalIsDeserved`) and `BudgetIsHeld` (`BudgetHolds`), in
  `BudgetInv`.  `BillsOK` relates the two ledgers, what the rows say and what was billed in
  truth: since any month the rows add up to no more than was billed, because a stamp is never
  later than the truth; a month that is not late was billed no more than its rows say; and a
  process started earlier has made its month late or billed nothing in it.  The first gives
  the refusals.  For the budget, `LimitsOK` says that the limit a request holds is one of this
  month if the process was started in it, so a check that passes means that less than the
  month's highest limit was billed; `Held` then counts a dearest row for each request that was
  forwarded.  After a restart nothing is on its way, and after the first of a month the bound
  speaks of it again only when the process has been restarted.

Both `BudgetProofs` and `GatewayProxyProofs` need sums over finite sets, which the fold of the
community modules defines by a choice of elements.  They count instead: a sum is the number of
cells of a table with a line of so many cells for each member, and the library's theorems about
the cardinality of unions and products apply (`CellsOfOne`).  That the fold is this number
(`SumIsCells`) is shown once, by a smallest set on which they would differ: the
library's theorem that strict inclusion of finite sets is well-founded takes the place of an
induction.

The same module, about the scrubber, for payloads of any shape, size and depth, numbers of any
length, any custom rules of the score `_load_custom_rules` gives them, and whatever the French
model finds below the full score:

- `ChecksumCatchesSlips`, and from it `WrongSinIsNone` (`LuhnCatchesErrors`).  Each digit weighs
  0 to 9 and no two weigh the same, doubled or not (`DoubledDigits`), so one wrong digit moves
  the sum by 1 to 9 (`WrongDigit`), and never by ten.  Two neighbours are doubled by turns;
  swapping them moves the sum by a multiple of ten only if they are 0 and 9 or equal
  (`WrongOrder`).  `SumIsLocal` turns a sum that differs in one place into a sum of two.
- `SinsAreRemoved` (`SinIsRemoved`).  A valid SIN with marks is found with the full score, one
  without by the recognizer of Alberta's health numbers, just at the threshold
  (`MarkedSinIsFound`, `BareSinIsFound`); only a validated SIN has the full score
  (`FullScoreIsSin`), so with marks it is the best finding, whatever else was found.
- `WalkReachesAll` (`WalkIsThorough`).  That the finished part is right is not inductive: it
  says nothing of what was forgotten.  `WalkInv` adds `Reached`: each node is finished, or in
  `todo`, or below a node in `todo`.  Calling `_walk` on a list takes it from `todo` and puts
  its items there, and a path below the list is one of the items or below one
  (`ItemBetween`).  When `todo` is empty every node is finished (`AllVisited`).

`MaintenanceProofs`, for any chain of versions and migrations, any of them sick, and any
number of scripts, dumps and faults:

- `MaintenanceTypeCorrect` (`TypeOK`), which says what a script may rely on at each command:
  after an `up` the container runs what is checked out, and in a rollback that is the previous
  version.  `RollbackFailsOnMigratedDatabase` (`RollbackWorksUnlessMigrated`) follows.
- `ServesOnlyItsSchema` (`ServesItsSchema`): it is inductive once booting is included
  (`ServesOrBoots`), since whatever changes database or version stops the container first,
  except the loss of the volume, which leaves no revision and sets `orphaned` until the next
  migration.
- `IdsAreFree` (`NextIdIsFreeUnlessOverwritten`).  Rows come back from files, so `AllWithin`
  says of every file, too, that its ids are within its sequence; `DumpsAppear` follows the
  files through copying, pruning (`RestOfFiles`) and removal.
- `MigratingIsSafe` (`MigrationHasBackup`).  `BackedUp` holds unless `unsaved` and is about three moments: a container
  that still has to migrate has a file that lasts; an upgrade has one before it puts a newer
  version in the container; what is being replayed is kept.  `Lasting` leaves out the file of
  an upgrade that may yet find that there is nothing new and remove it.

The steps `Init => Inv`, `Inv /\ [Next]_vars => Inv'` and `Inv => P` are separate, with one
lemma for each action or group of actions.

The proofs assume what the modules assume of their constants, and nothing of the code beyond
what the models say: hashes are injective, ids and raw keys are drawn once, a transaction is
seen as a whole.

What may be on its way at once is assumed to be finite (`SlotsAssumption`,
`RequestsAssumption`), since the bounds speak of how many that is.  `SlotsAssumption` is of the
calls at one time, which take turns; the serial numbers of requests grow to any bound.

Only model-checked: liveness (`RowsExpire`, `ForwardedIsLogged`, `RequestsEnd`, `ScriptsEnd`),
which is out of the prover's reach: `PTL` has no rule for `ENABLED`.  Every invariant and every
action property of a passing run is a theorem, and so are the two refinements.

## 6. Where code and documentation disagree

With a run:

- **The chain forks** (`main.py:240`).  Nothing keeps two calls of `_log_request` from reading
  the same newest hash; `audit_verify` then reports tampering (`audit_fork`).
- **Frozen timestamps** (`main.py:101`).  The default of `timestamp` is evaluated when
  `main.py` is imported.  Retention deletes rows of a long-lived process whatever their age
  (`audit_young`), and the month's budget and the statistics see the same value.
- **A rollback that cannot work** (`upgrade.sh:92`).  The code goes back and the database does
  not: the previous version's `alembic upgrade head` does not know the newer revision, and the
  container never comes up (`upgrade_rollback`; README.md:487).  The dump the script keeps is
  the way back, by hand: `RollbackWorksUnlessMigrated` says this is the only case.

Stated in the modules, and violated under the configuration named (with `tlc -continue` where
one configuration has several):

| Property | Configuration | What happens |
|---|---|---|
| `UntamperedVerifies` | `AuditLog_retention` | Retention deletes the chain's head; the walk starts at None and reports the oldest survivor as tampered with (`main.py:535`). |
| `EveryRequestRecorded` | `GatewayProxy_claims` | A provider's failure, a response that cannot be scrubbed and a broken stream leave no row (`main.py:708`; README.md:493). |
| `OnlyForwardedRecorded` | `GatewayProxy_claims` | A stream's caller hangs up before the provider is connected, and the background task logs a request the provider never got (`main.py:818`; docs/BLUEPRINT.md:564). |
| `OneKeyEver` | `ApiKeys_twice` | Two first logins of a person at once make two active keys (`ldap_auth.py:191`; `main.py:892`). |
| `RedisExact` | `RateLimit_overlap` | Requests between the two pipelines see one count (`policies.py:72` speaks of atomicity). |
| `RejectedNotCounted` | `RateLimit_torn` | A recording that broke off counts a request the fallback then rejects (`policies.py:266`). |
| `StatusRecorded` | `GatewayProxy_claims` | A stream's row always says 200 (`main.py:855`; README.md:428). |
| `NothingLeavesRaw` | `GatewayProxy_claims` | A body that is not JSON is forwarded as it is (`main.py:655`; README.md:59). |
| `PlaintextGone` | `ApiKeys_plaintext` | The script selects rows without a hash; rows created since have both columns and keep both (`migrate_key_hashes.py:16`). |
| `LoggedOutIsRefused` | `AdminSessions_logout` | `revoke_session` swallows Redis' errors: the caller is logged out by the answer only (`main.py:1213`). |
| `NeverKnownAgain` | `AdminSessions_logout` | Redis restarts from a snapshot in its volume that is older than the logout, and accepts the session again (`main.py:1213`; `docker-compose.yml:45`). |
| `EnrolledIsConfirmed` | `AdminSessions_enrol` | Asking for a TOTP secret enrols at once (`main.py:1143`; `admin_auth.py:14`). |
| `LoginExact` | `LoginLimit_overlap` | Calls that overlap are checked on one count (`main.py:954`). |
| `MonthIsSeen` | `Budget_month` | A process started last month stamps its rows with last month, and the budget does not see them (`policies.py:383`). |
| `StatedAlwaysTakesEffect` | `Budget_lost` | A limit that equals the one that was loaded is not written, though another call changed it meanwhile (`main.py:1542`). |
| `UpToDateIsRunning` | `Maintenance_uptodate` | After an upgrade that ended between pull and up, the next one finds nothing to do (`upgrade.sh:52`). |
| `MigrationAlwaysHasBackup` | `Maintenance_unsaved` | `pg_dump` fails, the pipe hides it, and the upgrade migrates without a dump (`upgrade.sh:8`; `upgrade.sh:40`). |
| `RestoreReplaces` | `Maintenance_replaces` | The dump is replayed over what is there; a table with one of its ids keeps its rows (`restore.sh:7`). |
| `IgnoredUnlessValid` | `Scrubber_ignored` | 123-456-789 fails the checksum and is replaced as a parcel's or a folio's number (README.md:305). |
| `KeysAreScrubbed` | `Scrubber_keys` | Keys and JSON numbers are left as they are (README.md:23). |
| `CountedOnce` | `Scrubber_count` | Each recognizer's finding of one number counts (README.md:303). |

The maintenance model also shows what follows when the database's volume is lost between the
entrypoint's migration and the server's start: the server creates its tables and records no
revision, and at the next start `alembic upgrade head`
finds tables it wants to create (`005_failed_logins.py:18`), so the container does not come up
again.

## 7. What is not modelled

- *Read-only endpoints and pages* (statistics, export, listings, dashboards), static data,
  logging: they change nothing.
- *`alerts.py`* is imported by nothing.
- *Contents*: header copying, JWT signatures, password and key hashing (idealised as injective
  and unforgeable).
- *What Presidio does inside*: names, addresses, e-mail, postal codes and case numbers, which
  need a language model or letters; scores raised by words of context; numbers within longer
  ones.
- *The tables of the migrations*: only their order and the database's revision.
- *The connection pool*: no handler holds one session while it waits for another.
- *Evictions of rate-limit and login buckets*, and a Redis that restarts with older ones: nothing
  says what should hold after one.  `RateLimit` and `LoginLimit` have failures of Redis, after
  which it knows what it knew before; `AdminSessions` has evictions and snapshots.
- *A caller who never reads on*: he holds his request, and the model says so (`Held`); uvicorn and
  the reverse proxy may end it, which no code of the gateway does.
- *Findings that overlap only in part*: all findings of one number begin and end with it, or with
  the letters beside it.
- *What single migrations make of tables they find*: a migration that is still to come is taken
  to fail on tables without a revision.  The last of the repository does (`005`); those before
  it look at what is there.
- *The department of a provisioned key*, which is never refreshed (`ldap_auth.py:202`): nothing
  in the repository says when it should be.
- *Two scripts at once*, which the scripts do not guard against.

## 8. What is left

- The converse for `LoginLimit`, as `RequestLimiter` has it: its refusals are of failures that
  were recorded, which today is only plain from its actions.
- The composition of `GatewayProxy` with `RateLimit` and `Budget`: each is checked with the
  others as outcomes.
- Recognizers for letters, as patterns over classes of characters.
