--------------------------- MODULE ScheduledBackup ---------------------------
(***************************************************************************)
(* The daily database backup: a queue job that dumps the database into a   *)
(* local volume, checks the file, uploads it to S3, catches up on files an *)
(* earlier run or an api start left behind, prunes both stores by age and  *)
(* stamps "last successful backup" for the settings card.                  *)
(* apps/worker/src/jobs/scheduledBackup.ts, lib/redisLock.ts, the queue of *)
(* apps/api/src/lib/queue.ts, routes/admin.ts, api/scripts/start.sh.       *)
(*                                                                         *)
(* A dump is a name; what its file holds is "whole" or not.  Its age, in   *)
(* either store, is "new" (younger than the sweep's 60 s), "kept" or "old" *)
(* (past BACKUP_RETAIN_DAYS).                                              *)
(***************************************************************************)
EXTENDS Naturals, FiniteSets

CONSTANTS Dumps,            \* names of dump files: host, pid and second
          BackupSlots,      \* workers able to run a backup job
          BackupAttempts,   \* attempts of one job
          MaxBackupFaults,  \* bound: failures of pg_dump, S3 and processes
          MaxSchemas        \* bound: api starts that find a migration

ASSUME BackupAssumption ==
    /\ BackupAttempts \in Nat \ {0}
    /\ MaxBackupFaults \in Nat
    /\ MaxSchemas \in Nat
    /\ "free" \notin BackupSlots

VARIABLES volume,       \* the local file of a name: its age, or "absent"
          bucket,       \* the S3 object of a name: its age, or "absent"
          whole,        \* names whose file is a complete gzip of a dump
          runLock,      \* holder of pf:scheduled-backup:running, or "free"
          lastSuccess,  \* pf:scheduled-backup:last-success is set
          backupJob,    \* the queue's job of each trigger
          backupRun,    \* what each worker is doing
          backupFaults, migrations

backupVars == <<volume, bucket, whole, runLock, lastSuccess, backupJob,
                backupRun, backupFaults, migrations>>

Ages == {"new", "kept", "old"}
BackupTriggers == {"cron", "manual"}
NoJob == [state |-> "none", left |-> 0]
Resting == [pc |-> "rest", trigger |-> "cron", dump |-> "none",
            listed |-> {}, aged |-> {}]

BackupJobs == [state : {"none", "waiting", "active"}, left : 0..BackupAttempts]
BackupRuns ==
    [pc : {"rest", "dump", "verify", "upload", "list", "sweep", "prune", "stamp"},
     trigger : BackupTriggers, dump : Dumps \cup {"none"},
     listed : SUBSET Dumps, aged : SUBSET Dumps]

BackupTypeOK ==
    /\ volume \in [Dumps -> Ages \cup {"absent"}]
    /\ bucket \in [Dumps -> Ages \cup {"absent"}]
    /\ whole \subseteq Dumps
    /\ runLock \in BackupSlots \cup {"free"}
    /\ lastSuccess \in BOOLEAN
    /\ backupJob \in [BackupTriggers -> BackupJobs]
    /\ backupRun \in [BackupSlots -> BackupRuns]
    /\ backupFaults \in 0..MaxBackupFaults
    /\ migrations \in 0..MaxSchemas

BackupInit ==
    /\ volume = [d \in Dumps |-> "absent"]
    /\ bucket = [d \in Dumps |-> "absent"]
    /\ whole = {}
    /\ runLock = "free"
    /\ lastSuccess = FALSE
    /\ backupJob = [t \in BackupTriggers |-> NoJob]
    /\ backupRun = [w \in BackupSlots |-> Resting]
    /\ backupFaults = 0
    /\ migrations = 0

Fault == /\ backupFaults < MaxBackupFaults
         /\ backupFaults' = backupFaults + 1

Present(store) == {d \in Dumps : store[d] # "absent"}
Aged(store) == {d \in Dumps : store[d] = "old"}

\* A name neither store holds and no run is writing.
Unused == {d \in Dumps : /\ volume[d] = "absent"
                         /\ bucket[d] = "absent"
                         /\ \A w \in BackupSlots : backupRun[w].dump # d}

------------------------------------------------------------------------------
(* Time and the queue.                                                     *)

\* The repeatable's tick, or POST /admin/scheduled-backup/run: the jobId (the
\* pinned one, or the minute's) makes a second add of a waiting job no job.
AddBackup(t) ==
    /\ backupJob[t].state = "none"
    /\ backupJob' = [backupJob EXCEPT ![t] = [state |-> "waiting",
                                              left |-> BackupAttempts]]
    /\ UNCHANGED <<volume, bucket, whole, runLock, lastSuccess, backupRun,
                   backupFaults, migrations>>

\* The daily repeatable, and the button of the settings card.
CronFires == AddBackup("cron")
RunNow == AddBackup("manual")

\* What GET /admin/scheduled-backup gives the card.
Shown == lastSuccess

\* A minute passes: files nobody writes are no longer new.
MinutePasses ==
    LET Settle(store, busy) == [d \in Dumps |->
            IF store[d] = "new" /\ d \notin busy THEN "kept" ELSE store[d]]
        writing == {backupRun[w].dump :
                        w \in {v \in BackupSlots : backupRun[v].pc = "dump"}}
    IN  /\ volume' = Settle(volume, writing)
        /\ bucket' = Settle(bucket, {})
        /\ <<volume', bucket'>> # <<volume, bucket>>
        /\ UNCHANGED <<whole, runLock, lastSuccess, backupJob, backupRun,
                       backupFaults, migrations>>

\* BACKUP_RETAIN_DAYS pass between two runs.
RetentionPasses ==
    LET Grow(store) == [d \in Dumps |->
            IF store[d] = "absent" THEN "absent" ELSE "old"]
    IN  /\ \A w \in BackupSlots : backupRun[w].pc = "rest"
        /\ volume' = Grow(volume)
        /\ bucket' = Grow(bucket)
        /\ <<volume', bucket'>> # <<volume, bucket>>
        /\ UNCHANGED <<whole, runLock, lastSuccess, backupJob, backupRun,
                       backupFaults, migrations>>

\* start.sh with a migration pending: dump, then delete old local dumps.  A
\* container killed in the pipe leaves what gzip had written.
SchemaDump ==
    /\ migrations < MaxSchemas
    /\ migrations' = migrations + 1
    /\ \E d \in Unused :
          \/ /\ volume' = [e \in Dumps |->
                             IF e = d THEN "new"
                             ELSE IF volume[e] = "old" THEN "absent"
                             ELSE volume[e]]
             /\ whole' = whole \cup {d}
             /\ UNCHANGED backupFaults
          \/ /\ Fault
             /\ volume' = [volume EXCEPT ![d] = "new"]
             /\ whole' = whole \ {d}
    /\ UNCHANGED <<bucket, runLock, lastSuccess, backupJob, backupRun>>

------------------------------------------------------------------------------
(* processScheduledBackup.                                                 *)

Step(w, to) == backupRun' = [backupRun EXCEPT ![w].pc = to]

Releases(w) == runLock' = IF runLock = w THEN "free" ELSE runLock

\* The job of w ends: done, or failed with attempts left or none.
Done(w) ==
    /\ backupRun' = [backupRun EXCEPT ![w] = Resting]
    /\ Releases(w)
    /\ backupJob' = [backupJob EXCEPT ![backupRun[w].trigger] = NoJob]

Throws(w) ==
    LET t == backupRun[w].trigger
        left == backupJob[t].left - 1
    IN  /\ backupRun' = [backupRun EXCEPT ![w] = Resting]
        /\ Releases(w)
        /\ backupJob' = [backupJob EXCEPT ![t] =
                            IF left = 0 THEN NoJob
                            ELSE [state |-> "waiting", left |-> left]]

\* Mutant: SET without NX.
Takes_Always(w) == TRUE

\* SET NX: only a free key can be taken; a run that misses it is a no-op whose
\* job still completes.
Takes(w) == runLock = "free"

StartBackup(w, t) ==
    /\ backupRun[w].pc = "rest"
    /\ backupJob[t].state = "waiting"
    /\ \/ /\ Takes(w)
          /\ runLock' = w
          /\ \E d \in Unused :
                /\ backupRun' = [backupRun EXCEPT
                       ![w] = [Resting EXCEPT !.pc = "dump", !.trigger = t,
                                              !.dump = d]]
                /\ volume' = [volume EXCEPT ![d] = "new"]
                /\ whole' = whole \ {d}
          /\ backupJob' = [backupJob EXCEPT ![t].state = "active"]
       \/ /\ ~Takes(w)
          /\ backupJob' = [backupJob EXCEPT ![t] = NoJob]
          /\ UNCHANGED <<volume, whole, runLock, backupRun>>
    /\ UNCHANGED <<bucket, lastSuccess, backupFaults, migrations>>

\* pg_dump | gzip | file: complete, or an error that removes the file, or an
\* exit 0 whose pipe was severed.
EndDump(w) ==
    LET d == backupRun[w].dump
    IN  /\ backupRun[w].pc = "dump"
        /\ \/ /\ whole' = whole \cup {d}
              /\ Step(w, "verify")
              /\ UNCHANGED <<volume, backupFaults, runLock, backupJob>>
           \/ /\ Fault
              /\ volume' = [volume EXCEPT ![d] = "absent"]
              /\ Throws(w)
              /\ UNCHANGED whole
           \/ /\ Fault
              /\ Step(w, "verify")
              /\ UNCHANGED <<volume, whole, runLock, backupJob>>
        /\ UNCHANGED <<bucket, lastSuccess, migrations>>

\* Mutant: the exit code of pg_dump is trusted.
Accepted_ByExitCode(d) == TRUE

\* verifyGzip: the file decompresses to its end.
Accepted(d) == d \in whole

VerifyDump(w) ==
    LET d == backupRun[w].dump
    IN  /\ backupRun[w].pc = "verify"
        /\ \/ /\ Accepted(d)
              /\ Step(w, "upload")
              /\ UNCHANGED <<runLock, backupJob>>
           \/ /\ ~Accepted(d)
              /\ Throws(w)
        /\ UNCHANGED <<volume, bucket, whole, lastSuccess, backupFaults,
                       migrations>>

UploadDump(w) ==
    LET d == backupRun[w].dump
    IN  /\ backupRun[w].pc = "upload"
        /\ \/ /\ bucket' = [bucket EXCEPT ![d] = "new"]
              /\ Step(w, "list")
              /\ UNCHANGED <<runLock, backupJob, backupFaults>>
           \/ /\ Fault
              /\ Throws(w)
              /\ UNCHANGED bucket
        /\ UNCHANGED <<volume, whole, lastSuccess, migrations>>

\* listBackupsInventory: the keys and their ages, kept for sweep and prune.
ListBucket(w) ==
    /\ backupRun[w].pc = "list"
    /\ backupRun' = [backupRun EXCEPT ![w].pc = "sweep",
                                      ![w].listed = Present(bucket),
                                      ![w].aged = Aged(bucket)]
    /\ UNCHANGED <<volume, bucket, whole, runLock, lastSuccess, backupJob,
                   backupFaults, migrations>>

\* catchUpSweep's candidates.
LeftBehind(w) == {d \in Present(volume) \ backupRun[w].listed :
                      volume[d] # "new"}

\* A file whose upload fails is logged and left for the next run.
CatchUp(w) ==
    /\ backupRun[w].pc = "sweep"
    /\ \E missed \in SUBSET LeftBehind(w) :
          /\ IF missed = {} THEN UNCHANGED backupFaults ELSE Fault
          /\ bucket' = [d \in Dumps |->
                          IF d \in LeftBehind(w) \ missed THEN "new"
                          ELSE bucket[d]]
    /\ Step(w, "prune")
    /\ UNCHANGED <<volume, whole, runLock, lastSuccess, backupJob, migrations>>

\* pruneOld: local files by mtime, objects by the inventory's LastModified; a
\* deletion that fails is logged.
Prune(w) ==
    /\ backupRun[w].pc = "prune"
    /\ \E kept \in SUBSET (Aged(volume) \cup backupRun[w].aged) :
          /\ IF kept = {} THEN UNCHANGED backupFaults ELSE Fault
          /\ volume' = [d \in Dumps |->
                          IF d \in Aged(volume) \ kept THEN "absent"
                          ELSE volume[d]]
          /\ bucket' = [d \in Dumps |->
                          IF d \in backupRun[w].aged \ kept THEN "absent"
                          ELSE bucket[d]]
    /\ Step(w, "stamp")
    /\ UNCHANGED <<whole, runLock, lastSuccess, backupJob, migrations>>

Stamp(w) ==
    /\ backupRun[w].pc = "stamp"
    /\ \/ /\ lastSuccess' = TRUE
          /\ Done(w)
          /\ UNCHANGED backupFaults
       \/ /\ Fault
          /\ Throws(w)
          /\ UNCHANGED lastSuccess
    /\ UNCHANGED <<volume, bucket, whole, migrations>>

\* The worker process dies: its files and its lock stay; the queue hands the
\* stalled job out again.
BackupCrash(w) ==
    /\ backupRun[w].pc # "rest"
    /\ Fault
    /\ backupRun' = [backupRun EXCEPT ![w] = Resting]
    /\ backupJob' = [backupJob EXCEPT ![backupRun[w].trigger].state = "waiting"]
    /\ UNCHANGED <<volume, bucket, whole, runLock, lastSuccess, migrations>>

\* LOCK_TTL_MS: six hours cover the slowest dump, so only a dead holder's key
\* expires.
LockExpires ==
    /\ runLock # "free"
    /\ backupRun[runLock].pc = "rest"
    /\ runLock' = "free"
    /\ UNCHANGED <<volume, bucket, whole, lastSuccess, backupJob, backupRun,
                   backupFaults, migrations>>

BackupStep(w) == \/ EndDump(w) \/ VerifyDump(w) \/ UploadDump(w)
                 \/ ListBucket(w) \/ CatchUp(w) \/ Prune(w) \/ Stamp(w)

BackupNext ==
    \/ CronFires \/ RunNow
    \/ MinutePasses
    \/ RetentionPasses
    \/ SchemaDump
    \/ \E w \in BackupSlots, t \in BackupTriggers : StartBackup(w, t)
    \/ \E w \in BackupSlots : BackupStep(w) \/ BackupCrash(w)
    \/ LockExpires

BackupSpec == BackupInit /\ [][BackupNext]_backupVars

------------------------------------------------------------------------------

\* Once the settings card shows a last successful backup, S3 holds at least one
\* dump that restores, whatever was pruned, failed or crashed since.
SuccessIsRestorable ==
    Shown => \E d \in whole : bucket[d] # "absent"

\* The dump of a backup in progress is never in the hands of a second run: two
\* live runs never overlap, so no run sweeps or prunes under another.
BackupsSerial ==
    \A v, w \in BackupSlots :
        (v # w /\ backupRun[v].pc # "rest") => backupRun[w].pc = "rest"

\* Backups run one at a time, and one that is called a success can be restored.
BackupsSound == SuccessIsRestorable /\ BackupsSerial
==============================================================================
