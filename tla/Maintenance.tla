------------------------------ MODULE Maintenance -------------------------------
(***************************************************************************)
(* The life of an installation around the gateway: scripts/upgrade.sh with *)
(* its rollback, scripts/restore.sh, the backups, and the container's      *)
(* entrypoint.sh, which migrates the database before it starts the server. *)
(* The scripts are run by one operator, one at a time; the container and   *)
(* the daily backup run beside them.                                       *)
(*                                                                         *)
(* Of the database the model keeps the revisions in alembic_version and    *)
(* one table: the ids of its rows and its sequence.  A server that starts  *)
(* creates the tables it misses, and records no revision; 0 stands for     *)
(* such tables.  A pg_dump that fails leaves an empty file, and since the  *)
(* pipe's status is that of gzip nobody notices; such a file stands for    *)
(* all broken ones.                                                        *)
(***************************************************************************)
EXTENDS Integers, Sequences, Functions

CONSTANTS LastVersion,            \* versions are numbered in the order they are published
          Rev,                    \* Rev[v]: the newest migration version v contains
          Sick,                   \* versions that migrate but never answer /health
          BACKUP_RETENTION_DAYS,
          MaxWrites, MaxDumps, MaxScripts, MaxFaults   \* bounds, on events of each kind

Versions == 1..LastVersion

ASSUME VersionAssumption == LastVersion \in Nat \ {0} /\ Sick \subseteq Versions
(* Migrations are a chain: a version knows those of its predecessors. *)
ASSUME RevAssumption ==
    /\ Rev \in [Versions -> Nat \ {0}]
    /\ \A v, w \in Versions : v <= w => Rev[v] <= Rev[w]
ASSUME RetentionAssumption == BACKUP_RETENTION_DAYS \in Nat

VARIABLES published,     \* newest version on origin main
          head,          \* the version git has checked out
          image,         \* the version the image was built from
          running,       \* the version in the container
          gateway,       \* "starting", "booting", "serving" or "stopped"
          revs,          \* the rows of alembic_version, and 0
          rows, last,    \* a table: ids, last value of its sequence
          daily,         \* the backup container's files, oldest first
          kept,          \* files in the operator's directory, oldest first
          pc,            \* the script: the step it takes next
          previous,      \* PREVIOUS_COMMIT
          backup,        \* the argument of a running restore
          exit,          \* how the last script ended
          writes, dumps, scripts, faults   \* counters for the bounds

(* Observers. *)
VARIABLES unsaved,       \* an upgrade began without a dump, or lost the volume
          overwritten,   \* a dump was replayed over rows
          orphaned       \* the volume was lost and nothing migrated since

repo == <<published, head, image>>
container == <<running, gateway>>
database == <<revs, rows, last>>
files == <<daily, kept>>
script == <<pc, previous, backup, exit>>
counters == <<writes, dumps, scripts, faults>>
observers == <<unsaved, overwritten, orphaned>>
vars == <<repo, container, database, files, script, counters, observers>>

Empty == [revs |-> {}, rows |-> {}, last |-> 0]
Dump == [revs |-> revs, rows |-> rows, last |-> last]
Dumps == [revs : SUBSET Nat, rows : SUBSET Nat, last : Nat]
Files == Range(kept) \cup Range(daily)

Fault == faults < MaxFaults /\ faults' = faults + 1
NoFault == UNCHANGED faults

Init ==
    /\ published = 1 /\ head = 1 /\ image = 1
    /\ running = 1 /\ gateway = "starting"
    /\ revs = {} /\ rows = {} /\ last = 0
    /\ daily = <<>> /\ kept = <<>>
    /\ pc = "idle" /\ previous = 1 /\ backup = Empty /\ exit = "none"
    /\ writes = 0 /\ dumps = 0 /\ scripts = 0 /\ faults = 0
    /\ unsaved = FALSE /\ overwritten = FALSE /\ orphaned = FALSE

-------------------------------------------------------------------------------
(* The container. *)

(* Faulty variant: alembic upgrade +1, which fails if there is nothing newer. *)
Migratable_Next(v) == revs = {} \/ \E r \in 1..(Rev[v] - 1) : revs = {r}

(* alembic upgrade head: it refuses a revision it does not know and two
   revisions one of which contains the other, and what it has to create must
   not be there (005_failed_logins.py:18). *)
Migratable(v) ==
    \/ revs \in {{}, {0, Rev[v]}}
    \/ \E r \in 1..Rev[v] : revs = {r}

(* Faulty variant: without "set -e" the server starts though migrating failed. *)
Migrate_Anyway ==
    /\ gateway = "starting"
    /\ gateway' = "booting"
    /\ revs' = IF Migratable(running) THEN {Rev[running]} \cup (revs \cap {0}) ELSE revs
    /\ orphaned' = (orphaned /\ ~Migratable(running))
    /\ UNCHANGED <<repo, running, rows, last, files, script, counters, unsaved, overwritten>>

(* The migrations run in one transaction.  If they fail the entrypoint ends and
   Docker starts it again. *)
Migrate ==
    /\ gateway = "starting" /\ Migratable(running)
    /\ gateway' = "booting"
    /\ revs' = {Rev[running]} \cup (revs \cap {0})
    /\ orphaned' = FALSE
    /\ UNCHANGED <<repo, running, rows, last, files, script, counters, unsaved, overwritten>>

(* The server creates all tables, which changes something only if the volume was
   lost since the entrypoint migrated. *)
Serve ==
    /\ gateway = "booting" /\ running \notin Sick
    /\ gateway' = "serving"
    /\ revs' = IF revs = {} THEN {0} ELSE revs
    /\ UNCHANGED <<repo, running, rows, last, files, script, counters, observers>>

Crash ==
    /\ gateway \in {"booting", "serving"} /\ Fault
    /\ gateway' = "starting"
    /\ UNCHANGED <<repo, running, database, files, script, writes, dumps, scripts, observers>>

(* A handler inserts a row, if there is a table.  The sequence advances even if
   the id is taken and the statement fails. *)
Insert ==
    /\ gateway = "serving" /\ revs # {} /\ writes < MaxWrites
    /\ writes' = writes + 1
    /\ last' = last + 1
    /\ rows' = rows \cup {last + 1}
    /\ UNCHANGED <<repo, container, revs, files, script, dumps, scripts, faults, observers>>

(* Retention. *)
DeleteOldest ==
    /\ gateway = "serving"
    /\ \E i \in rows : (\A j \in rows : i <= j) /\ rows' = rows \ {i}
    /\ UNCHANGED <<repo, container, revs, last, files, script, counters, observers>>

(* The database's volume is lost and an empty one put in its place, whatever the
   gateway and the scripts are doing; the gateway is not started again
   (depends_on holds only for "up"). *)
LoseVolume ==
    /\ Fault
    /\ revs' = {} /\ rows' = {} /\ last' = 0
    /\ orphaned' = TRUE
    /\ unsaved' = (unsaved \/ pc # "idle")
    /\ UNCHANGED <<repo, container, files, script, writes, dumps, scripts, overwritten>>

Publish ==
    /\ published < LastVersion
    /\ published' = published + 1
    /\ UNCHANGED <<head, image, container, database, files, script, counters, observers>>

-------------------------------------------------------------------------------
(* Backups. *)

(* pg_dump | gzip > file. *)
Dumped(d) ==
    \/ d = Dump /\ NoFault
    \/ d = Empty /\ Fault

(* backup-cron.sh: all that is older than the retention period goes, whether the
   newer files are any good or not.  Of one file a day, today's and those of the
   last BACKUP_RETENTION_DAYS are left, and perhaps one that a few seconds keep
   from being a day older; fewer if days were missed. *)
BackupDaily ==
    /\ dumps < MaxDumps /\ dumps' = dumps + 1
    /\ \E d \in {Dump, Empty}, n \in 0..Len(daily) :
          /\ Dumped(d)
          /\ Len(daily) - n <= BACKUP_RETENTION_DAYS + 1
          /\ daily' = Append(SubSeq(daily, n + 1, Len(daily)), d)
    /\ UNCHANGED <<repo, container, database, kept, script, writes, scripts, observers>>

(* backup-now.sh. *)
BackupNow ==
    /\ pc = "idle"
    /\ scripts < MaxScripts /\ scripts' = scripts + 1
    /\ \E d \in {Dump, Empty} : Dumped(d) /\ kept' = Append(kept, d)
    /\ UNCHANGED <<repo, container, database, daily, script, writes, dumps, observers>>

-------------------------------------------------------------------------------
(* upgrade.sh. *)

(* rm -f BACKUP_FILE: a running script's file is the last. *)
Removed == SubSeq(kept, 1, Len(kept) - 1)

Goto(step) == pc' = step /\ UNCHANGED <<previous, backup, exit>>
Exit(how) == pc' = "idle" /\ exit' = how /\ backup' = Empty /\ UNCHANGED previous

(* The current commit is recorded, the database dumped. *)
Begin ==
    /\ pc = "idle" /\ scripts < MaxScripts
    /\ scripts' = scripts + 1
    /\ previous' = head
    /\ \E d \in {Dump, Empty} :
          /\ Dumped(d) /\ kept' = Append(kept, d)
          /\ unsaved' = (unsaved \/ d.revs = {})
    /\ pc' = "pull" /\ exit' = "none" /\ UNCHANGED backup
    /\ UNCHANGED <<repo, container, database, daily, writes, dumps, overwritten, orphaned>>

(* Faulty variant: the backup is removed before it is known whether there is
   anything new. *)
Pull_RemovesFirst ==
    /\ pc = "pull"
    /\ head' = published
    /\ kept' = Removed
    /\ IF published = previous THEN Exit("up to date") ELSE Goto("build")
    /\ UNCHANGED <<published, image, container, database, daily, counters, observers>>

(* git pull --ff-only; without news the backup is removed. *)
Pull ==
    /\ pc = "pull"
    /\ head' = published
    /\ IF published = previous
       THEN Exit("up to date") /\ kept' = Removed
       ELSE Goto("build") /\ UNCHANGED kept
    /\ UNCHANGED <<published, image, container, database, daily, counters, observers>>

(* docker compose build, of the new version or in the rollback. *)
Build ==
    /\ pc \in {"build", "rebuild"}
    /\ image' = head
    /\ Goto(IF pc = "build" THEN "up" ELSE "up again")
    /\ UNCHANGED <<published, head, container, database, files, counters, observers>>

(* docker compose up -d: the container is made anew if its image changed. *)
Up ==
    /\ pc \in {"up", "up again"}
    /\ IF running # image \/ gateway = "stopped"
       THEN running' = image /\ gateway' = "starting"
       ELSE UNCHANGED container
    /\ Goto(IF pc = "up" THEN "poll" ELSE "poll again")
    /\ UNCHANGED <<repo, database, files, counters, observers>>

PollHealthy ==
    /\ pc \in {"poll", "poll again"} /\ gateway = "serving"
    /\ Exit(IF pc = "poll" THEN "upgraded" ELSE "rolled back")
    /\ UNCHANGED <<repo, container, database, files, counters, observers>>

(* What is in the container will not answer, however long one waits. *)
Hopeless ==
    \/ running \in Sick
    \/ gateway = "starting" /\ ~Migratable(running)

(* Faulty variant: the loop has no end. *)
PollTimeout_Never == FALSE /\ UNCHANGED vars

(* Twelve attempts failed; by a fault if the container would have come up. *)
PollTimeout ==
    /\ pc \in {"poll", "poll again"} /\ gateway # "serving"
    /\ IF Hopeless THEN NoFault ELSE Fault
    /\ IF pc = "poll" THEN Goto("checkout") ELSE Exit("critical")
    /\ UNCHANGED <<repo, container, database, files, writes, dumps, scripts, observers>>

(* Faulty variant: what was checked out before the pull is forgotten. *)
Checkout_Newest ==
    /\ pc = "checkout"
    /\ Goto("rebuild")
    /\ UNCHANGED <<repo, container, database, files, counters, observers>>

(* git checkout PREVIOUS_COMMIT. *)
Checkout ==
    /\ pc = "checkout"
    /\ head' = previous
    /\ Goto("rebuild")
    /\ UNCHANGED <<published, image, container, database, files, counters, observers>>

(* A command of a script fails and "set -e" ends it there, or it is killed. *)
Abort ==
    /\ pc # "idle" /\ Fault
    /\ Exit("aborted")
    /\ UNCHANGED <<repo, container, database, files, writes, dumps, scripts, observers>>

-------------------------------------------------------------------------------
(* restore.sh. *)

(* The operator confirms; docker compose stop gateway.  A daily file is first
   copied out of the volume (restore.sh:15-16). *)
StopGateway ==
    /\ pc = "idle" /\ scripts < MaxScripts
    /\ scripts' = scripts + 1
    /\ \E d \in Files :
          /\ backup' = d
          /\ kept' = IF d \in Range(kept) THEN kept ELSE Append(kept, d)
    /\ gateway' = "stopped"
    /\ pc' = "replay" /\ exit' = "none" /\ UNCHANGED previous
    /\ UNCHANGED <<repo, running, database, daily, writes, dumps, faults, observers>>

(* COPY of a table that exists: a duplicate id fails the whole statement. *)
Copied(have, new) == IF have \cap new = {} THEN have \cup new ELSE have

(* alembic_version is copied, tables outside it stay. *)
Blended(have, new) == Copied(have \ {0}, new \ {0}) \cup ((have \cup new) \cap {0})

(* Faulty variant: rows come back without their sequence. *)
Replay_RowsOnly ==
    /\ pc = "replay"
    /\ revs' = Blended(revs, backup.revs)
    /\ rows' = Copied(rows, backup.rows)
    /\ overwritten' = (overwritten \/ rows # {})
    /\ Goto("start")
    /\ UNCHANGED <<last, repo, container, files, counters, unsaved, orphaned>>

(* psql goes on after errors, and the sequence is set in any case. *)
Replay ==
    /\ pc = "replay"
    /\ revs' = Blended(revs, backup.revs)
    /\ rows' = Copied(rows, backup.rows)
    /\ last' = IF backup = Empty THEN last ELSE backup.last
    /\ overwritten' = (overwritten \/ rows # {})
    /\ Goto("start")
    /\ UNCHANGED <<repo, container, files, counters, unsaved, orphaned>>

StartGateway ==
    /\ pc = "start"
    /\ gateway' = "starting"
    /\ Exit("restored")
    /\ UNCHANGED <<repo, running, database, files, counters, observers>>

-------------------------------------------------------------------------------
Step == Pull \/ Build \/ Up \/ PollHealthy \/ PollTimeout \/ Checkout \/ Replay \/ StartGateway

Next ==
    \/ Migrate \/ Serve \/ Crash \/ Insert \/ DeleteOldest \/ LoseVolume \/ Publish
    \/ BackupDaily \/ BackupNow
    \/ Begin \/ StopGateway \/ Step \/ Abort

Spec == Init /\ [][Next]_vars

(* Docker restarts the container (unless-stopped), the scripts go on. *)
FairSpec == Spec /\ WF_vars(Step) /\ WF_vars(Migrate) /\ WF_vars(Serve)

-------------------------------------------------------------------------------
RepoOK ==
    /\ published \in Versions
    /\ head \in 1..published /\ image \in 1..published
    /\ running \in 1..published /\ previous \in 1..published
DatabaseOK == revs \in SUBSET Nat /\ rows \in SUBSET Nat /\ last \in Nat
FilesOK ==
    /\ daily \in Seq(Dumps) /\ Len(daily) <= BACKUP_RETENTION_DAYS + 2
    /\ kept \in Seq(Dumps) /\ backup \in Dumps
ScriptOK ==
    /\ gateway \in {"starting", "booting", "serving", "stopped"}
    /\ pc \in {"idle", "pull", "build", "up", "poll", "checkout", "rebuild", "up again",
               "poll again", "replay", "start"}
    /\ pc \in {"pull", "build", "up", "poll", "checkout"} => previous <= head
    /\ pc = "pull" => kept # <<>>
    /\ pc \in {"up", "poll", "up again", "poll again"} => image = head
    /\ pc \in {"poll", "poll again"} => running = head
    /\ pc \in {"rebuild", "up again", "poll again"} => head = previous
    /\ pc \in {"replay", "start"} => gateway = "stopped"

(* What is checked out was published; what a script is about to do follows from
   what it has done; the daily files stay within the retention period. *)
TypeOK == RepoOK /\ DatabaseOK /\ FilesOK /\ ScriptOK

(* The server only ever runs on a database that is at the revision its code was
   written for, through upgrades, rollbacks and restores of older dumps.  Only if
   the volume was lost under it does it run on no revision at all, and only until
   it starts again. *)
ServesItsSchema ==
    gateway = "serving" =>
        \/ revs \ {0} = {Rev[running]}
        \/ orphaned /\ revs \ {0} = {}

(* Whoever migrates a database has a file to go back to, at its old revision or
   an earlier one: an upgrade's own file, one that was restored, or one from
   before.  An upgrade whose own dump failed, or had nothing to dump, does not,
   nor does one that loses the volume it has dumped; other dumps that fail change
   nothing. *)
MigrationHasBackup ==
    [][revs' # revs /\ gateway = "starting" /\ gateway' = "booting" =>
        \/ revs = {} \/ unsaved
        \/ \E d \in Files : \E q \in d.revs \ {0} :
              d.revs = {q} /\ \A r \in revs : q <= r]_vars

(* If the rollback fails for good, the previous version was sick itself, or the
   database is no longer at a revision it knows: the new version had migrated
   it, a restore had mixed revisions, or its tables have none. *)
RollbackWorksUnlessMigrated ==
    [][exit # "critical" /\ exit' = "critical" /\ Hopeless =>
        previous \in Sick \/ revs \notin {{r} : r \in 1..Rev[previous]}]_vars

(* The next id the table gives out is that of no row in it, after crashes, lost
   volumes and restores, unless a dump was once replayed over rows. *)
NextIdIsFreeUnlessOverwritten ==
    overwritten \/ \A i \in rows : i <= last

(* A script that was begun ends, and a restore that goes through ends with the
   gateway serving, unless the container holds a version or the database a mixture
   of revisions that never will. *)
ScriptsEnd ==
    /\ pc # "idle" ~> pc = "idle"
    /\ pc = "replay" ~> (gateway = "serving" \/ Hopeless \/ exit = "aborted")

(* README.md:487: "If something goes wrong, the gateway reverts to the previous
   version". *)
RollbackReverts ==
    [][exit # "critical" /\ exit' = "critical" /\ Hopeless => previous \in Sick]_vars

(* upgrade.sh:52: "Already up to date. Nothing to do."  An upgrade that ended
   between pull and up is never made good by the next one. *)
UpToDateIsRunning ==
    exit = "up to date" => running = head

(* upgrade.sh:8: "Creates a database backup".  The pipe hides it if pg_dump
   fails. *)
MigrationAlwaysHasBackup ==
    [][revs' # revs /\ gateway = "starting" /\ gateway' = "booting" =>
        revs = {} \/ \E d \in Files : d.revs = revs]_vars

(* restore.sh:7: "This replaces all data in the database." *)
RestoreReplaces ==
    [][Replay => rows' = backup.rows]_vars

================================================================================
