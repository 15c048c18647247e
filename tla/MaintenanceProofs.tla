--------------------------- MODULE MaintenanceProofs ----------------------------
(***************************************************************************)
(* Proofs about Maintenance, for any number of versions and migrations, of *)
(* which any may be sick, any number of scripts, dumps and faults.         *)
(***************************************************************************)
EXTENDS Maintenance, SequenceTheorems, TLAPS

Upgrading == pc \in {"pull", "build", "up", "poll", "checkout", "rebuild", "up again", "poll again"}

(* The files that no running script may yet remove. *)
Lasting == IF pc = "pull" THEN Range(Removed) ELSE Range(kept)

(* One of these files holds a database at revision r or an earlier one. *)
HasDump(D, r) == \E d \in D : \E q \in d.revs \ {0} : d.revs = {q} /\ q <= r

-------------------------------------------------------------------------------
(* Files. *)

LEMMA AppendedFiles ==
  ASSUME NEW D, NEW s \in Seq(D), NEW d \in D
  PROVE  /\ Append(s, d) \in Seq(D) /\ Append(s, d) # <<>>
         /\ Len(Append(s, d)) = Len(s) + 1
         /\ Range(Append(s, d)) = Range(s) \cup {d}
         /\ SubSeq(Append(s, d), 1, Len(Append(s, d)) - 1) = s
<1>1. /\ Append(s, d) \in Seq(D) /\ Len(Append(s, d)) = Len(s) + 1
      /\ \A i \in 1..Len(s) : Append(s, d)[i] = s[i]
      /\ Append(s, d)[Len(s) + 1] = d
  OBVIOUS
<1>2. Append(s, d) # <<>>
  BY <1>1
<1>3. Range(Append(s, d)) = Range(s) \cup {d}
  <2>1. DOMAIN s = 1..Len(s) /\ DOMAIN Append(s, d) = 1..(Len(s) + 1)
    BY <1>1
  <2> QED
    BY <1>1, <2>1 DEF Range
<1>4. SubSeq(Append(s, d), 1, Len(Append(s, d)) - 1) = s
  <2>1. /\ SubSeq(Append(s, d), 1, Len(s)) \in Seq(D)
        /\ Len(SubSeq(Append(s, d), 1, Len(s))) = Len(s)
        /\ \A i \in 1..Len(s) : SubSeq(Append(s, d), 1, Len(s))[i] = s[i]
    BY <1>1
  <2> QED
    BY <1>1, <2>1, SeqEqual
<1> QED
  BY <1>1, <1>2, <1>3, <1>4

LEMMA RestOfFiles ==
  ASSUME NEW D, NEW s \in Seq(D), NEW n \in 0..Len(s)
  PROVE  /\ SubSeq(s, n + 1, Len(s)) \in Seq(D)
         /\ Len(SubSeq(s, n + 1, Len(s))) = Len(s) - n
         /\ Range(SubSeq(s, n + 1, Len(s))) \subseteq Range(s)
<1> DEFINE rest == SubSeq(s, n + 1, Len(s))
<1>1. Len(s) \in Nat /\ n \in Nat /\ n <= Len(s) /\ DOMAIN s = 1..Len(s)
  OBVIOUS
<1>2. /\ rest \in Seq(D)
      /\ Len(rest) = IF n + 1 <= Len(s) THEN Len(s) - (n + 1) + 1 ELSE 0
      /\ \A i \in 1..(Len(s) - (n + 1) + 1) : rest[i] = s[(n + 1) + i - 1]
  BY <1>1, SubSeqProperties
<1>3. Len(rest) = Len(s) - n
  <2> DEFINE m == Len(s)
  <2> HIDE DEF m, rest
  <2>1. m \in Nat /\ n <= m /\ n \in Nat
    BY <1>1 DEF m
  <2>2. (IF n + 1 <= m THEN m - (n + 1) + 1 ELSE 0) = m - n
    BY <2>1
  <2> QED
    BY <1>2, <2>2 DEF m
<1>4. DOMAIN rest = 1..(Len(s) - n)
  BY <1>2, <1>3
<1>5. ASSUME NEW i \in 1..(Len(s) - n) PROVE rest[i] \in Range(s)
  <2>1. rest[i] = s[n + i] /\ n + i \in 1..Len(s)
    BY <1>1, <1>2
  <2> QED
    BY <1>1, <2>1 DEF Range
<1> QED
  BY <1>2, <1>3, <1>4, <1>5 DEF Range

LEMMA FrontOfFiles ==
  ASSUME NEW D, NEW s \in Seq(D), s # <<>>
  PROVE  /\ SubSeq(s, 1, Len(s) - 1) \in Seq(D)
         /\ Range(SubSeq(s, 1, Len(s) - 1)) \subseteq Range(s)
<1> DEFINE front == SubSeq(s, 1, Len(s) - 1)
<1>1. Len(s) \in Nat \ {0} /\ DOMAIN s = 1..Len(s)
  OBVIOUS
<1>2. /\ front \in Seq(D) /\ Len(front) = Len(s) - 1
      /\ \A i \in 1..(Len(s) - 1) : front[i] = s[i]
  BY <1>1
<1>3. DOMAIN front = 1..(Len(s) - 1)
  BY <1>1, <1>2
<1> QED
  BY <1>1, <1>2, <1>3 DEF Range

(* What is in the files is a dump. *)
LEMMA FilesAreDumps == FilesOK => Range(kept) \subseteq Dumps /\ Range(daily) \subseteq Dumps
<1>1. ASSUME NEW s \in Seq(Dumps) PROVE Range(s) \subseteq Dumps
  BY DEF Range
<1> QED
  BY <1>1 DEF FilesOK

LEMMA DumpsAreDumps == DatabaseOK => Dump \in Dumps /\ Empty \in Dumps
  BY DEF DatabaseOK, Dump, Empty, Dumps

-------------------------------------------------------------------------------
(* The type invariant. *)

LEMMA VersionsAreNumbers ==
  ASSUME RepoOK
  PROVE  published \in Nat /\ {head, image, running, previous} \subseteq Versions \cap Nat
  BY VersionAssumption DEF RepoOK, Versions

LEMMA DumpedIsDump ==
  ASSUME DatabaseOK, NEW d, Dumped(d)
  PROVE  d \in Dumps
  BY DumpsAreDumps DEF Dumped

LEMMA InitType == Init => TypeOK
<1> SUFFICES ASSUME Init PROVE TypeOK
  OBVIOUS
<1>1. 1 \in Versions
  BY VersionAssumption DEF Versions
<1>2. RepoOK /\ DatabaseOK /\ ScriptOK
  BY <1>1 DEF Init, RepoOK, DatabaseOK, ScriptOK
<1>3. FilesOK
  BY RetentionAssumption DEF Init, FilesOK, Dumps, Empty
<1> QED
  BY <1>2, <1>3 DEF TypeOK

(* Each step changes the repository and the script so that what the script is
   about to do still follows from what it has done. *)
LEMMA NextScript ==
  ASSUME RepoOK, DatabaseOK, FilesOK, ScriptOK, [Next]_vars
  PROVE  RepoOK' /\ ScriptOK'
<1>1. CASE Migrate
  BY <1>1 DEF Migrate, RepoOK, ScriptOK, repo, script, files
<1>2. CASE Serve \/ Crash
  BY <1>2 DEF Serve, Crash, RepoOK, ScriptOK, repo, script, files
<1>3. CASE Insert \/ DeleteOldest
  BY <1>3 DEF Insert, DeleteOldest, RepoOK, ScriptOK, repo, script, container, files
<1>4. CASE LoseVolume
  BY <1>4 DEF LoseVolume, RepoOK, ScriptOK, repo, container, script, files
<1>5. CASE Publish
  <2>1. published' \in Versions /\ 1..published \subseteq 1..published'
    BY <1>5, VersionAssumption, VersionsAreNumbers DEF Publish, Versions, RepoOK
  <2> QED
    BY <1>5, <2>1 DEF Publish, RepoOK, ScriptOK, script, container, files
<1>6. CASE BackupDaily
  BY <1>6 DEF BackupDaily, RepoOK, ScriptOK, repo, script, container
<1>7. CASE BackupNow
  BY <1>7 DEF BackupNow, RepoOK, ScriptOK, repo, script, container
<1>8. CASE Begin
  <2>1. kept' # <<>>
    BY <1>8, DumpedIsDump, AppendedFiles DEF Begin, FilesOK
  <2> QED
    BY <1>8, <2>1 DEF Begin, RepoOK, ScriptOK, repo, container
<1>9. CASE StopGateway
  BY <1>9 DEF StopGateway, RepoOK, ScriptOK, repo
<1>10. CASE Pull
  <2>1. /\ head' = published /\ pc' \in {"idle", "build"}
        /\ UNCHANGED <<published, image, running, gateway, previous>>
    BY <1>10 DEF Pull, Goto, Exit, container
  <2>2. previous <= published /\ published \in 1..published
    BY VersionsAreNumbers DEF RepoOK
  <2> QED
    BY <2>1, <2>2 DEF RepoOK, ScriptOK
<1>11. CASE Build
  BY <1>11 DEF Build, Goto, RepoOK, ScriptOK, Versions, container, files
<1>12. CASE Up
  BY <1>12 DEF Up, Goto, RepoOK, ScriptOK, Versions, repo, container, files
<1>13. CASE PollHealthy \/ PollTimeout
  <2>1. pc' \in {"idle", "checkout"} /\ (pc' = "checkout" => pc = "poll")
    BY <1>13 DEF PollHealthy, PollTimeout, Goto, Exit
  <2>2. UNCHANGED <<repo, container, files, previous>>
    BY <1>13 DEF PollHealthy, PollTimeout, Goto, Exit
  <2> QED
    BY <2>1, <2>2, VersionsAreNumbers DEF RepoOK, ScriptOK, repo, container, files
<1>14. CASE Checkout
  BY <1>14 DEF Checkout, Goto, RepoOK, ScriptOK, Versions, container, files
<1>15. CASE Replay \/ StartGateway
  BY <1>15 DEF Replay, StartGateway, Goto, Exit, RepoOK, ScriptOK, repo, container, files
<1>16. CASE Abort
  BY <1>16 DEF Abort, Exit, RepoOK, ScriptOK, repo, container, files
<1>17. CASE UNCHANGED vars
  BY <1>17 DEF vars, RepoOK, ScriptOK, repo, script, container, files
<1> QED
  BY <1>1, <1>2, <1>3, <1>4, <1>5, <1>6, <1>7, <1>8, <1>9, <1>10, <1>11, <1>12, <1>13, <1>14,
     <1>15, <1>16, <1>17 DEF Next, Step

(* What is dumped, copied and inserted keeps database and files typed. *)
LEMMA NextDatabase ==
  ASSUME RepoOK, DatabaseOK, FilesOK, ScriptOK, [Next]_vars
  PROVE  DatabaseOK'
<1>1. CASE Migrate
  <2>1. Rev[running] \in Nat
    BY RevAssumption, VersionsAreNumbers
  <2> QED
    BY <1>1, <2>1 DEF Migrate, DatabaseOK
<1>2. CASE LoseVolume
  BY <1>2 DEF LoseVolume, DatabaseOK
<1>6. CASE Insert
  <2>1. last + 1 \in Nat
    BY DEF DatabaseOK
  <2> QED
    BY <1>6, <2>1 DEF Insert, DatabaseOK
<1>5. CASE DeleteOldest
  BY <1>5 DEF DeleteOldest, DatabaseOK
<1>3. CASE Replay
  BY <1>3 DEF Replay, Blended, Copied, DatabaseOK, FilesOK, Dumps
<1>4. CASE UNCHANGED database
  BY <1>4 DEF database, DatabaseOK
<1>7. CASE Serve
  BY <1>7 DEF Serve, DatabaseOK
<1> QED
  BY <1>1, <1>2, <1>3, <1>4, <1>5, <1>6, <1>7 DEF Next, Step, vars, Crash, Publish, BackupDaily, BackupNow,
     Begin, StopGateway, Pull, Build, Up, PollHealthy, PollTimeout, Checkout, StartGateway, Abort

LEMMA NextFiles ==
  ASSUME DatabaseOK, FilesOK, ScriptOK, [Next]_vars
  PROVE  FilesOK'
<1>1. CASE BackupDaily
  <2>1. PICK d \in Dumps, n \in 0..Len(daily) :
           /\ Len(daily) - n <= BACKUP_RETENTION_DAYS + 1
           /\ daily' = Append(SubSeq(daily, n + 1, Len(daily)), d)
    BY <1>1, DumpedIsDump DEF BackupDaily
  <2>2. /\ SubSeq(daily, n + 1, Len(daily)) \in Seq(Dumps)
        /\ Len(SubSeq(daily, n + 1, Len(daily))) = Len(daily) - n
    BY RestOfFiles DEF FilesOK
  <2>3. daily' \in Seq(Dumps) /\ Len(daily') = Len(daily) - n + 1
    BY <2>1, <2>2, AppendedFiles
  <2>4. daily' \in Seq(Dumps) /\ Len(daily') <= BACKUP_RETENTION_DAYS + 2
    BY <2>1, <2>3, RetentionAssumption DEF FilesOK
  <2> QED
    BY <1>1, <2>4 DEF BackupDaily, FilesOK, script
<1>2. CASE BackupNow
  <2>1. PICK d \in Dumps : kept' = Append(kept, d)
    BY <1>2, DumpedIsDump DEF BackupNow
  <2>2. kept' \in Seq(Dumps)
    BY <2>1, AppendedFiles DEF FilesOK
  <2> QED
    BY <1>2, <2>2 DEF BackupNow, FilesOK, script
<1>3. CASE Begin
  <2>1. PICK d \in Dumps : kept' = Append(kept, d)
    BY <1>3, DumpedIsDump DEF Begin
  <2>2. kept' \in Seq(Dumps)
    BY <2>1, AppendedFiles DEF FilesOK
  <2> QED
    BY <1>3, <2>1, <2>2 DEF Begin, FilesOK
<1>4. CASE StopGateway
  <2>1. PICK d \in Files : backup' = d /\ kept' = IF d \in Range(kept) THEN kept ELSE Append(kept, d)
    BY <1>4 DEF StopGateway
  <2>2. d \in Dumps
    BY FilesAreDumps DEF Files
  <2>3. kept' \in Seq(Dumps)
    BY <2>1, <2>2, AppendedFiles DEF FilesOK
  <2> QED
    BY <1>4, <2>1, <2>2, <2>3 DEF StopGateway, FilesOK
<1>5. CASE Pull
  <2>1. Removed \in Seq(Dumps)
    BY <1>5, FrontOfFiles DEF Pull, Removed, FilesOK, ScriptOK
  <2> QED
    BY <1>5, <2>1, DumpsAreDumps DEF Pull, Goto, Exit, FilesOK
<1>6. CASE UNCHANGED <<daily, kept>> /\ backup' \in {backup, Empty}
  BY <1>6, DumpsAreDumps DEF FilesOK
<1> QED
  BY <1>1, <1>2, <1>3, <1>4, <1>5, <1>6 DEF Next, Step, vars, files, script, Goto, Exit, Migrate, Serve,
     Crash, Insert, DeleteOldest, LoseVolume, Publish, Build, Up, PollHealthy, PollTimeout, Checkout,
     Replay, StartGateway, Abort

LEMMA NextType == TypeOK /\ [Next]_vars => TypeOK'
  BY NextScript, NextDatabase, NextFiles DEF TypeOK

(* An installation is always in a state its scripts can deal with: what they are
   about to do follows from what they have done. *)
THEOREM MaintenanceTypeCorrect == Spec => []TypeOK
<1> QED
  BY InitType, NextType, PTL DEF Spec

-------------------------------------------------------------------------------
(* What is served, and what a failed rollback means. *)

(* Once migrated, a database keeps its revision until the gateway is stopped or
   the volume is lost; the server that starts may then create tables. *)
ServesOrBoots ==
    gateway \in {"booting", "serving"} =>
        \/ revs \ {0} = {Rev[running]}
        \/ orphaned /\ revs \ {0} = {}

LEMMA NextSchema ==
  ASSUME RepoOK, ScriptOK, ServesOrBoots, [Next]_vars
  PROVE  ServesOrBoots'
<1>1. CASE Migrate
  <2>1. Rev[running] \in Nat \ {0}
    BY RevAssumption, VersionsAreNumbers
  <2>2. revs' = {Rev[running]} \cup (revs \cap {0}) /\ running' = running
    BY <1>1 DEF Migrate
  <2> QED
    BY <2>1, <2>2 DEF ServesOrBoots
<1>2. CASE Serve
  <2>1. revs' \ {0} = revs \ {0} /\ UNCHANGED <<running, orphaned>> /\ gateway = "booting"
    BY <1>2 DEF Serve, observers
  <2> QED
    BY <2>1 DEF ServesOrBoots
<1>3. CASE Up
  BY <1>3 DEF Up, ServesOrBoots, container, database, observers
<1>4. CASE Replay
  BY <1>4 DEF Replay, ScriptOK, ServesOrBoots, container
<1>5. CASE gateway' \in {"starting", "stopped"}
  BY <1>5 DEF ServesOrBoots
<1>6. CASE UNCHANGED <<gateway, running, revs, orphaned>>
  BY <1>6 DEF ServesOrBoots
<1>7. CASE LoseVolume
  BY <1>7 DEF LoseVolume, ServesOrBoots
<1> QED
  BY <1>1, <1>2, <1>3, <1>4, <1>5, <1>6, <1>7 DEF Next, Step, vars, container, database, observers, Crash,
     Insert, DeleteOldest, Publish, BackupDaily, BackupNow, Begin, StopGateway, Pull, Build,
     PollHealthy, PollTimeout, Checkout, StartGateway, Abort

(* The gateway serves only on a database at its own version's revision, or on one
   whose volume was lost under it.  Migrating is the only way to the server, and
   whatever else changes the database or the version stops it first. *)
THEOREM ServesOnlyItsSchema == Spec => []ServesItsSchema
<1>1. Init => ServesOrBoots
  BY DEF Init, ServesOrBoots
<1>2. TypeOK /\ ServesOrBoots /\ [Next]_vars => ServesOrBoots'
  BY NextSchema DEF TypeOK
<1>3. ServesOrBoots => ServesItsSchema
  BY DEF ServesOrBoots, ServesItsSchema
<1> QED
  BY <1>1, <1>2, <1>3, MaintenanceTypeCorrect, PTL DEF Spec

(* A rollback that fails for good has built and started the previous version, so
   if that is not sick it is the database it cannot migrate. *)
THEOREM RollbackFailsOnMigratedDatabase == Spec => RollbackWorksUnlessMigrated
<1> DEFINE Works ==
      exit # "critical" /\ exit' = "critical" /\ Hopeless =>
        previous \in Sick \/ revs \notin {{r} : r \in 1..Rev[previous]}
<1>1. TypeOK /\ [Next]_vars => [Works]_vars
  <2> SUFFICES ASSUME TypeOK, Next, exit # "critical", exit' = "critical", Hopeless
               PROVE  previous \in Sick \/ revs \notin {{r} : r \in 1..Rev[previous]}
    BY DEF Works
  <2>1. PollTimeout /\ pc = "poll again"
    BY DEF Next, Step, Migrate, Serve, Crash, Insert, DeleteOldest, LoseVolume, Publish, BackupDaily,
       BackupNow, Begin, StopGateway, Pull, Build, Up, PollHealthy, PollTimeout, Checkout, Replay,
       StartGateway, Abort, Goto, Exit, script
  <2>2. running = previous
    BY <2>1 DEF TypeOK, ScriptOK
  <2> QED
    BY <2>2 DEF Hopeless, Migratable
<1> QED
  BY <1>1, MaintenanceTypeCorrect, PTL DEF Spec, RollbackWorksUnlessMigrated

-------------------------------------------------------------------------------
(* Ids. *)

WithinSequence(d) == \A i \in d.rows : i <= d.last

(* The inductive invariant: until a dump is replayed over rows, the database and
   everything dumped from it have their ids within their sequence. *)
AllWithin == (\A i \in rows : i <= last) /\ \A d \in Files \cup {backup} : WithinSequence(d)

LEMMA InitWithin == Init => AllWithin
  BY DEF Init, AllWithin, WithinSequence, Files, Range, Empty

(* Every dump that appears was taken of the database, or was there. *)
LEMMA DumpsAppear ==
  ASSUME TypeOK, [Next]_vars
  PROVE  Files' \cup {backup'} \subseteq Files \cup {backup, Dump, Empty}
<1>1. ASSUME NEW d, Dumped(d) PROVE d \in {Dump, Empty}
  BY <1>1 DEF Dumped
<1>2. CASE BackupDaily
  <2>1. PICK d \in Dumps, n \in 0..Len(daily) :
           /\ d \in {Dump, Empty}
           /\ daily' = Append(SubSeq(daily, n + 1, Len(daily)), d)
    BY <1>1, <1>2, DumpedIsDump DEF BackupDaily, TypeOK
  <2>2. Range(daily') \subseteq Range(daily) \cup {d}
    <3>1. /\ SubSeq(daily, n + 1, Len(daily)) \in Seq(Dumps)
          /\ Range(SubSeq(daily, n + 1, Len(daily))) \subseteq Range(daily)
      BY RestOfFiles DEF TypeOK, FilesOK
    <3>2. ASSUME NEW s \in Seq(Dumps) PROVE Range(Append(s, d)) = Range(s) \cup {d}
      BY AppendedFiles
    <3>3. Range(daily') = Range(SubSeq(daily, n + 1, Len(daily))) \cup {d}
      BY <2>1, <3>1, <3>2
    <3> QED
      BY <3>1, <3>3
  <2> QED
    BY <1>2, <2>1, <2>2 DEF BackupDaily, Files, script
<1>3. CASE BackupNow \/ Begin
  <2>1. PICK d \in Dumps : /\ d \in {Dump, Empty} /\ kept' = Append(kept, d)
                           /\ backup' = backup
    BY <1>1, <1>3, DumpedIsDump DEF BackupNow, Begin, TypeOK, script
  <2>2. Range(kept') = Range(kept) \cup {d}
    BY <2>1, AppendedFiles DEF TypeOK, FilesOK
  <2> QED
    BY <1>3, <2>1, <2>2 DEF BackupNow, Begin, Files
<1>4. CASE StopGateway
  <2>1. PICK d \in Files : backup' = d /\ kept' = IF d \in Range(kept) THEN kept ELSE Append(kept, d)
    BY <1>4 DEF StopGateway
  <2>2. d \in Dumps
    BY FilesAreDumps DEF Files, TypeOK
  <2>3. Range(kept') = Range(kept) \cup {d}
    BY <2>1, <2>2, AppendedFiles DEF TypeOK, FilesOK
  <2> QED
    BY <1>4, <2>1, <2>3 DEF StopGateway, Files
<1>5. CASE Pull
  <2>1. Range(Removed) \subseteq Range(kept)
    BY <1>5, FrontOfFiles DEF Pull, Removed, TypeOK, FilesOK, ScriptOK
  <2> QED
    BY <1>5, <2>1 DEF Pull, Goto, Exit, Files
<1>6. CASE UNCHANGED <<daily, kept>> /\ backup' \in {backup, Empty}
  BY <1>6 DEF Files
<1> QED
  BY <1>2, <1>3, <1>4, <1>5, <1>6 DEF Next, Step, vars, files, script, Goto, Exit, Migrate, Serve,
     Crash, Insert, DeleteOldest, LoseVolume, Publish, Build, Up, PollHealthy, PollTimeout, Checkout,
     Replay, StartGateway, Abort

(* Rows that are inserted, deleted, lost or replayed into an empty table stay
   within the sequence. *)
LEMMA RowsStayWithin ==
  ASSUME TypeOK, AllWithin, [Next]_vars, Replay => rows = {}
  PROVE  \A i \in rows' : i <= last'
<1>1. CASE Insert
  <2>1. \A i \in rows : i <= last + 1
    BY DEF AllWithin, TypeOK, DatabaseOK
  <2>2. rows' = rows \cup {last + 1} /\ last' = last + 1
    BY <1>1 DEF Insert
  <2>3. \A i \in rows \cup {last + 1} : i <= last + 1
    BY <2>1 DEF TypeOK, DatabaseOK
  <2> QED
    BY <2>2, <2>3
<1>2. CASE DeleteOldest \/ LoseVolume
  BY <1>2 DEF DeleteOldest, LoseVolume, AllWithin
<1>3. CASE Replay
  <2>1. rows = {}
    BY <1>3
  <2>2. rows' = backup.rows
    BY <1>3, <2>1 DEF Replay, Copied
  <2>3. \A i \in backup.rows : i <= backup.last
    BY DEF AllWithin, WithinSequence
  <2> QED
    BY <1>3, <2>2, <2>3 DEF Replay, Empty
<1>4. CASE UNCHANGED <<rows, last>>
  BY <1>4 DEF AllWithin
<1> QED
  BY <1>1, <1>2, <1>3, <1>4 DEF Next, Step, vars, database, Migrate, Serve, Crash, Publish, BackupDaily,
     BackupNow, Begin, StopGateway, Pull, Build, Up, PollHealthy, PollTimeout, Checkout, StartGateway,
     Abort

LEMMA NextWithin ==
  ASSUME TypeOK, AllWithin, [Next]_vars, Replay => rows = {}
  PROVE  AllWithin'
<1>1. WithinSequence(Dump) /\ WithinSequence(Empty)
  BY DEF AllWithin, WithinSequence, Dump, Empty
<1>2. \A d \in (Files \cup {backup})' : WithinSequence(d)
  BY <1>1, DumpsAppear DEF AllWithin
<1>3. \A i \in rows' : i <= last'
  BY RowsStayWithin
<1> QED
  BY <1>2, <1>3 DEF AllWithin, WithinSequence

(* A replay over rows is remembered. *)
LEMMA OverwritingIsSeen == [Next]_vars /\ ~overwritten' => ~overwritten /\ (Replay => rows = {})
<1> SUFFICES ASSUME [Next]_vars, ~overwritten' PROVE ~overwritten /\ (Replay => rows = {})
  OBVIOUS
<1>1. CASE Replay
  BY Zenon, <1>1 DEF Replay
<1>2. CASE ~Replay
  <2>1. overwritten' = overwritten
    BY <1>2 DEF Next, Step, vars, observers, Migrate, Serve, Crash, Insert, DeleteOldest, LoseVolume,
       Publish, BackupDaily, BackupNow, Begin, StopGateway, Pull, Build, Up, PollHealthy, PollTimeout,
       Checkout, StartGateway, Abort
  <2> QED
    BY Zenon, <1>2, <2>1
<1> QED
  BY <1>1, <1>2

(* Unless a dump was once replayed over rows, the next id is that of no row in
   the table, after crashes, lost volumes and restores. *)
THEOREM IdsAreFree == Spec => []NextIdIsFreeUnlessOverwritten
<1> DEFINE Inv == overwritten \/ AllWithin
<1>1. Init => Inv
  BY InitWithin
<1>2. TypeOK /\ Inv /\ [Next]_vars => Inv'
  BY Zenon, NextWithin, OverwritingIsSeen
<1>3. Inv => NextIdIsFreeUnlessOverwritten
  BY DEF AllWithin, NextIdIsFreeUnlessOverwritten
<1> QED
  BY <1>1, <1>2, <1>3, MaintenanceTypeCorrect, PTL DEF Spec

-------------------------------------------------------------------------------
(* Backups. *)

(* Whose migration is still to come has a dump, and so has an upgrade that has
   begun: the dump it made will be needed once it puts a newer version in the
   container.  What is about to be replayed lasts. *)
BackedUp ==
    /\ \A r \in revs \ {0} : revs = {r} /\ r < Rev[running] => HasDump(Lasting, r)
    /\ Upgrading => revs # {} /\ \A r \in revs \ {0} : revs = {r} => HasDump(Range(kept), r)
    /\ pc = "replay" => backup \in Range(kept)

(* A file goes on lasting once it does, and all files do once an upgrade knows
   that there is something new. *)
LEMMA LastingFiles ==
  ASSUME TypeOK, [Next]_vars
  PROVE  /\ Lasting \subseteq Lasting'
         /\ Lasting' \subseteq Range(kept)'
         /\ pc' # "idle" => Range(kept) \subseteq Range(kept)'
<1>1. Lasting \subseteq Range(kept)
  BY FrontOfFiles DEF Lasting, Removed, TypeOK, FilesOK, ScriptOK
<1>2. CASE Begin
  <2>1. PICK d \in Dumps : kept' = Append(kept, d)
    BY <1>2, DumpedIsDump DEF Begin, TypeOK
  <2>2. Removed' = kept
    BY <2>1, AppendedFiles DEF Removed, TypeOK, FilesOK
  <2>3. Range(kept') = Range(kept) \cup {d}
    BY <2>1, AppendedFiles DEF TypeOK, FilesOK
  <2> QED
    BY <1>2, <2>2, <2>3, <1>1 DEF Begin, Lasting
<1>3. CASE BackupNow
  <2>1. PICK d \in Dumps : kept' = Append(kept, d)
    BY <1>3, DumpedIsDump DEF BackupNow, TypeOK
  <2>2. Range(kept') = Range(kept) \cup {d}
    BY <2>1, AppendedFiles DEF TypeOK, FilesOK
  <2> QED
    BY <1>3, <2>2 DEF BackupNow, Lasting, script
<1>4. CASE StopGateway
  <2>1. PICK d \in Files : kept' = IF d \in Range(kept) THEN kept ELSE Append(kept, d)
    BY <1>4 DEF StopGateway
  <2>2. d \in Dumps
    BY FilesAreDumps DEF Files, TypeOK
  <2>3. Range(kept) \subseteq Range(kept')
    BY <2>1, <2>2, AppendedFiles DEF TypeOK, FilesOK
  <2> QED
    BY <1>4, <2>3 DEF StopGateway, Lasting
<1>5. CASE Pull
  BY <1>1, <1>5 DEF Pull, Lasting, Goto, Exit
<1>6. CASE Abort
  BY <1>1, <1>6 DEF Abort, Lasting, Exit, files
<1>7. CASE UNCHANGED kept /\ pc' # "pull" /\ pc # "pull"
  BY <1>7 DEF Lasting
<1>8. CASE UNCHANGED <<kept, pc>>
  BY <1>1, <1>8 DEF Lasting, Removed
<1> QED
  BY <1>2, <1>3, <1>4, <1>5, <1>6, <1>7, <1>8 DEF Next, Step, vars, files, script, Goto, Exit, Migrate,
     Serve, Crash, Insert, DeleteOldest, LoseVolume, Publish, BackupDaily, Build, Up, PollHealthy,
     PollTimeout, Checkout, Replay, StartGateway

LEMMA MoreDumps ==
  ASSUME NEW D, NEW E, D \subseteq E, NEW r, HasDump(D, r)
  PROVE  HasDump(E, r)
  BY DEF HasDump

LEMMA LaterRevision ==
  ASSUME NEW D \in SUBSET Dumps, NEW r \in Nat, NEW t \in Nat, r <= t, HasDump(D, r)
  PROVE  HasDump(D, t)
<1>1. PICK d \in D : \E q \in d.revs \ {0} : d.revs = {q} /\ q <= r
  BY DEF HasDump
<1>2. PICK q \in d.revs \ {0} : d.revs = {q} /\ q <= r
  BY <1>1
<1>3. q \in Nat
  BY <1>2 DEF Dumps
<1>4. q <= t
  BY <1>2, <1>3
<1> QED
  BY <1>2, <1>4 DEF HasDump

LEMMA MigratingIsBackedUp ==
  ASSUME TypeOK, BackedUp, Migrate
  PROVE  BackedUp'
<1>1. Rev[running] \in Nat \ {0} /\ revs \subseteq Nat /\ Range(kept) \in SUBSET Dumps
  BY RevAssumption, VersionsAreNumbers, FilesAreDumps DEF TypeOK, DatabaseOK
<1>2. revs' = {Rev[running]} \cup (revs \cap {0}) /\ UNCHANGED <<running, kept, pc, backup>>
  BY DEF Migrate, files, script
<1>3. ASSUME NEW r, revs' = {r}, r # 0 PROVE r = Rev[running] /\ 0 \notin revs
  BY <1>1, <1>2, <1>3
<1>4. ASSUME Upgrading, 0 \notin revs PROVE HasDump(Range(kept), Rev[running])
  <2>1. PICK r \in 1..Rev[running] : revs = {r}
    BY <1>4 DEF Migrate, Migratable, BackedUp
  <2>2. HasDump(Range(kept), r)
    BY <1>4, <2>1 DEF BackedUp
  <2> QED
    BY <1>1, <2>1, <2>2, LaterRevision
<1>5. ~(Rev[running] < Rev[running])
  BY <1>1
<1>6. \A r \in revs' \ {0} : revs' = {r} /\ r < Rev[running'] => HasDump(Lasting', r)
  BY <1>2, <1>3, <1>5
<1>7. Upgrading' => revs' # {} /\ \A r \in revs' \ {0} : revs' = {r} => HasDump(Range(kept'), r)
  BY <1>2, <1>3, <1>4 DEF Upgrading
<1>8. pc' = "replay" => backup' \in Range(kept')
  BY <1>2 DEF BackedUp
<1> QED
  BY <1>6, <1>7, <1>8 DEF BackedUp, HasDump

LEMMA ReplayIsBackedUp ==
  ASSUME TypeOK, BackedUp, Replay
  PROVE  BackedUp'
<1>1. /\ pc = "replay" /\ pc' = "start" /\ UNCHANGED <<running, kept>>
      /\ revs' = Blended(revs, backup.revs)
  BY DEF Replay, Goto, container, files
<1>2. ASSUME NEW r \in revs' \ {0}, revs' = {r}, r < Rev[running] PROVE HasDump(Range(kept), r)
  <2>1. 0 \notin revs /\ 0 \notin backup.revs
    BY <1>1, <1>2 DEF Blended
  <2>2. {r} = IF revs \cap backup.revs = {} THEN revs \cup backup.revs ELSE revs
    BY <1>1, <1>2, <2>1 DEF Blended, Copied
  <2>3. CASE revs = {r}
    BY <1>1, <1>2, <2>3 DEF BackedUp, Lasting
  <2>4. CASE revs # {r}
    <3>1. backup.revs = {r}
      BY <2>2, <2>4
    <3>2. r \in Nat
      BY <3>1 DEF TypeOK, FilesOK, Dumps
    <3> QED
      BY <1>1, <1>2, <3>1, <3>2 DEF BackedUp, HasDump
  <2> QED
    BY <2>3, <2>4
<1>3. Lasting' = Range(kept)
  BY <1>1 DEF Lasting
<1>4. \A r \in revs' \ {0} : revs' = {r} /\ r < Rev[running'] => HasDump(Lasting', r)
  BY <1>1, <1>2, <1>3
<1> QED
  BY <1>1, <1>4 DEF BackedUp, Upgrading, HasDump

LEMMA BeginIsBackedUp ==
  ASSUME TypeOK, BackedUp, Begin, revs # {}, Lasting \subseteq Lasting', Dump \in Range(kept')
  PROVE  BackedUp'
<1>1. UNCHANGED <<revs, running>> /\ pc' = "pull"
  BY DEF Begin, database, container
<1>2. \A r \in revs \ {0} : revs = {r} => HasDump(Range(kept'), r)
  <2> SUFFICES ASSUME NEW r \in revs \ {0}, revs = {r} PROVE HasDump(Range(kept'), r)
    OBVIOUS
  <2>1. Dump.revs = {r} /\ r <= r
    BY DEF Dump, TypeOK, DatabaseOK
  <2> QED
    BY <2>1 DEF HasDump
<1>3. \A r \in revs \ {0} : revs = {r} /\ r < Rev[running] => HasDump(Lasting', r)
  BY MoreDumps DEF BackedUp
<1> QED
  BY <1>1, <1>2, <1>3 DEF BackedUp, HasDump

(* What neither migrates nor replays nor begins an upgrade keeps the revisions,
   save that the server may create tables, or that all is lost. *)
LEMMA KeepsBackedUp ==
  ASSUME TypeOK, BackedUp, [Next]_vars,
         \/ revs' = revs /\ (running' = running \/ pc' \in {"poll", "poll again"})
         \/ revs = {} /\ revs' = {0} /\ running' = running
         \/ revs' = {} /\ ~Upgrading',
         Upgrading' => Upgrading,
         pc' = "replay" => backup' \in Range(kept')
  PROVE  BackedUp'
<1>1. /\ Lasting \subseteq Lasting' /\ Lasting' \subseteq Range(kept')
      /\ pc' # "idle" => Range(kept) \subseteq Range(kept')
  BY LastingFiles
<1>2. ASSUME NEW r \in revs' \ {0}, revs' = {r} PROVE revs = {r}
  BY <1>2
<1>3. ASSUME Upgrading', NEW r \in revs' \ {0}, revs' = {r} PROVE HasDump(Range(kept'), r)
  <2>1. HasDump(Range(kept), r)
    BY <1>2, <1>3 DEF BackedUp
  <2>2. Range(kept) \subseteq Range(kept')
    BY <1>1, <1>3 DEF Upgrading
  <2> QED
    BY <2>1, <2>2, MoreDumps
<1>4. ASSUME NEW r \in revs' \ {0}, revs' = {r}, r < Rev[running'] PROVE HasDump(Lasting', r)
  <2>1. CASE running' = running
    <3>1. HasDump(Lasting, r)
      BY <1>2, <1>4, <2>1 DEF BackedUp
    <3> QED
      BY <1>1, <3>1, MoreDumps
  <2>2. CASE pc' \in {"poll", "poll again"}
    <3>1. HasDump(Range(kept'), r)
      BY <1>3, <1>4, <2>2 DEF Upgrading
    <3>2. Lasting' = Range(kept')
      BY <2>2 DEF Lasting
    <3> QED
      BY <3>1, <3>2
  <2> QED
    BY <1>4, <2>1, <2>2
<1>5. Upgrading' => revs' # {}
  BY DEF BackedUp
<1> QED
  BY <1>3, <1>4, <1>5 DEF BackedUp, HasDump

LEMMA NextBackedUp ==
  ASSUME TypeOK, BackedUp, [Next]_vars, ~unsaved'
  PROVE  BackedUp'
<1>1. CASE Migrate
  BY <1>1, MigratingIsBackedUp
<1>2. CASE Replay
  BY <1>2, ReplayIsBackedUp
<1>3. CASE Begin
  <2>1. PICK d \in {Dump, Empty} : /\ kept' = Append(kept, d)
                                   /\ unsaved' = (unsaved \/ d.revs = {})
    BY <1>3 DEF Begin
  <2>2. d.revs # {}
    BY Zenon, <2>1
  <2>3. d = Dump /\ revs # {}
    BY <2>2 DEF Dump, Empty
  <2>4. Dump \in Range(kept')
    BY <2>1, <2>3, DumpsAreDumps, AppendedFiles DEF TypeOK, FilesOK
  <2> QED
    BY <1>3, <2>3, <2>4, LastingFiles, BeginIsBackedUp
<1>4. CASE Up
  <2>1. revs' = revs /\ pc \in {"up", "up again"} /\ pc' \in {"poll", "poll again"}
    BY <1>4 DEF Up, Goto, database
  <2> QED
    BY <2>1, KeepsBackedUp DEF Upgrading
<1>5. CASE LoseVolume
  <2>1. revs' = {} /\ UNCHANGED pc /\ unsaved' = (unsaved \/ pc # "idle")
    BY <1>5 DEF LoseVolume, script
  <2>2. pc = "idle"
    BY Zenon, <2>1
  <2> QED
    BY <2>1, <2>2, KeepsBackedUp DEF Upgrading
<1>6. CASE StopGateway
  <2>1. UNCHANGED <<revs, running>> /\ pc' = "replay"
    BY <1>6 DEF StopGateway, database
  <2>2. PICK d \in Files : backup' = d /\ kept' = IF d \in Range(kept) THEN kept ELSE Append(kept, d)
    BY <1>6 DEF StopGateway
  <2>3. d \in Dumps
    BY FilesAreDumps DEF Files, TypeOK
  <2>4. backup' \in Range(kept')
    BY <2>2, <2>3, AppendedFiles DEF TypeOK, FilesOK
  <2> QED
    BY <2>1, <2>4, KeepsBackedUp DEF Upgrading
<1>7. CASE Serve
  <2>1. revs' = IF revs = {} THEN {0} ELSE revs
    BY <1>7 DEF Serve
  <2>2. UNCHANGED <<running, pc, backup, kept>>
    BY <1>7 DEF Serve, files, script
  <2>3. pc' = "replay" => backup' \in Range(kept')
    BY <2>2 DEF BackedUp
  <2>4. Upgrading' => Upgrading
    BY <2>2 DEF Upgrading
  <2> QED
    BY <2>1, <2>2, <2>3, <2>4, KeepsBackedUp
<1>8. CASE /\ UNCHANGED <<revs, running>>
           /\ Upgrading' => Upgrading
           /\ pc' = "replay" => pc = "replay" /\ UNCHANGED backup
  <2>1. pc' = "replay" => backup' \in Range(kept')
    BY <1>8, LastingFiles DEF BackedUp
  <2> QED
    BY <1>8, <2>1, KeepsBackedUp
<1> QED
  BY <1>1, <1>2, <1>3, <1>4, <1>5, <1>6, <1>7, <1>8 DEF Next, Step, vars, database, container, files,
     script, Goto, Exit, Crash, Insert, DeleteOldest, Publish, BackupDaily, BackupNow, Pull, Build,
     PollHealthy, PollTimeout, Checkout, StartGateway, Abort, Upgrading

(* It is remembered that an upgrade has no dump. *)
LEMMA LackingIsSeen == [Next]_vars /\ ~unsaved' => ~unsaved
<1> SUFFICES ASSUME [Next]_vars, ~unsaved' PROVE ~unsaved
  OBVIOUS
<1>1. CASE Begin
  <2>1. PICK d : unsaved' = (unsaved \/ d.revs = {})
    BY <1>1 DEF Begin
  <2> QED
    BY Zenon, <2>1
<1>2. CASE LoseVolume
  BY Zenon, <1>2 DEF LoseVolume
<1>3. CASE unsaved' = unsaved
  BY Zenon, <1>3
<1> QED
  BY <1>1, <1>2, <1>3 DEF Next, Step, vars, observers, Migrate, Serve, Crash, Insert, DeleteOldest, Publish,
     BackupDaily, BackupNow, StopGateway, Pull, Build, Up, PollHealthy, PollTimeout, Checkout,
     Replay, StartGateway, Abort

(* Whoever migrates a database has a file to go back to, unless an upgrade once
   had none from the start or lost the volume it had dumped: an upgrade makes its
   file before it can put a newer version in the container, and a script removes
   only that of an upgrade that does nothing. *)
THEOREM MigratingIsSafe == Spec => MigrationHasBackup
<1> DEFINE Inv == unsaved \/ BackedUp
           Safe == revs' # revs /\ gateway = "starting" /\ gateway' = "booting" =>
                     \/ revs = {} \/ unsaved
                     \/ \E d \in Files : \E q \in d.revs \ {0} :
                           d.revs = {q} /\ \A r \in revs : q <= r
<1>1. Init => Inv
  <2> SUFFICES ASSUME Init PROVE BackedUp
    OBVIOUS
  <2> QED
    BY DEF Init, BackedUp, Upgrading
<1>2. TypeOK /\ Inv /\ [Next]_vars => Inv'
  BY Zenon, NextBackedUp, LackingIsSeen
<1>3. TypeOK /\ Inv /\ [Next]_vars => [Safe]_vars
  <2> SUFFICES ASSUME TypeOK, Inv, Next, revs' # revs, gateway = "starting", gateway' = "booting",
                      revs # {}, ~unsaved
               PROVE  \E d \in Files : \E q \in d.revs \ {0} : d.revs = {q} /\ \A r \in revs : q <= r
    BY DEF Safe
  <2>1. Migrate
    BY DEF Next, Step, Migrate, Serve, Crash, Insert, DeleteOldest, LoseVolume, Publish, BackupDaily,
       BackupNow, Begin, StopGateway, Pull, Build, Up, PollHealthy, PollTimeout, Checkout, Replay,
       StartGateway, Abort, database, container, TypeOK, ScriptOK
  <2>2. Rev[running] \in Nat \ {0}
    BY RevAssumption, VersionsAreNumbers DEF TypeOK
  <2>3. PICK r \in 1..Rev[running] : revs = {r} /\ r < Rev[running]
    <3>1. revs' = {Rev[running]} \cup (revs \cap {0}) /\ Migratable(running)
      BY <2>1 DEF Migrate
    <3>2. revs # {0, Rev[running]}
      BY <2>2, <3>1
    <3>3. PICK r \in 1..Rev[running] : revs = {r}
      BY <3>1, <3>2 DEF Migratable
    <3>4. r # Rev[running]
      BY <2>2, <3>1, <3>3
    <3> QED
      BY <2>2, <3>3, <3>4
  <2>4. HasDump(Lasting, r)
    BY <2>3 DEF BackedUp
  <2>5. Lasting \subseteq Files
    BY FrontOfFiles DEF Lasting, Removed, Files, TypeOK, FilesOK, ScriptOK
  <2> QED
    BY <2>3, <2>4, <2>5 DEF HasDump
<1> QED
  BY <1>1, <1>2, <1>3, MaintenanceTypeCorrect, PTL DEF Spec, MigrationHasBackup

================================================================================
