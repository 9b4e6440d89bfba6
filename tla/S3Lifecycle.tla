----------------------------- MODULE S3Lifecycle -----------------------------
(***************************************************************************)
(* Attachment files in S3: presigned upload, registration as a database    *)
(* row, deletion with the row or with its deal, the cleanup job that       *)
(* deletes objects, and the reconcile sweep that looks for objects no row  *)
(* refers to.                                                              *)
(*                                                                         *)
(* Time is a counter of ticks.  A key carries the date of its presign in   *)
(* its path, and an incremental sweep lists only the dates since its       *)
(* high-water mark less the grace period; it uses a snapshot of the rows   *)
(* taken before it lists, so uploads, registrations and deletions go on    *)
(* while it runs.  One deal owns every attachment of the model.            *)
(***************************************************************************)
EXTENDS Integers

CONSTANTS
    Keys,          \* object keys the api may hand out
    DayLen,        \* ticks in a UTC day
    Grace,         \* ORPHAN_GRACE_MS
    PutTTL,        \* lifetime of a presigned PUT
    IssueTTL,      \* TTL_MS of the issued-key store
    RegisterTime,  \* bound on a registration handler, from its key to its row
    SweepHours,    \* ticks of a day at which a sweep may start
    Horizon        \* bound on time

ASSUME S3Assumption ==
    /\ DayLen \in Nat \ {0}
    /\ Grace \in Nat /\ PutTTL \in Nat /\ IssueTTL \in Nat
    /\ RegisterTime \in Nat /\ IssueTTL + RegisterTime < Grace
    /\ SweepHours \subseteq 0..(DayLen - 1)
    /\ Horizon \in Nat \ {0}

VARIABLES
    now,
    born,          \* time of a key's presign, 0 before it
    issued,        \* keys in the api's issued-key store
    consumed,      \* when a registration in flight consumed the key, else 0
    object,        \* the bucket: "none", "stored" or "removed"
    mtime,         \* LastModified of an object
    row,           \* the attachment row: "none", "live" or "gone"
    dealGone,      \* the deal was deleted
    deleting,      \* the deal's deletion has read its keys and not committed
    collected,     \* the keys it read
    toEnqueue,     \* keys an api handler is about to enqueue
    doomed,        \* keys in queued cleanup jobs
    handed,        \* history: keys a sweep handed to cleanup
    sweep,         \* the reconcile job's step
    full,          \* it lists the whole bucket
    startedAt,     \* when it started
    inUse,         \* its snapshot of the keys rows refer to
    dates,         \* dates it has still to list
    batch,         \* orphans it found and has not yet enqueued
    lastChecked    \* the high-water mark in Redis, 0 when unset

fileVars  == <<born, issued, consumed, object, mtime, row>>
dealVars  == <<dealGone, deleting, collected>>
queueVars == <<toEnqueue, doomed>>
sweepVars == <<sweep, full, startedAt, inUse, dates, batch, lastChecked, handed>>
vars == <<now, fileVars, dealVars, queueVars, sweepVars>>

Date(t) == t \div DayLen
Days == 0..Date(Horizon)

TypeOK ==
    /\ now \in 1..Horizon
    /\ born \in [Keys -> 0..Horizon]
    /\ issued \in SUBSET Keys
    /\ consumed \in [Keys -> 0..Horizon]
    /\ object \in [Keys -> {"none", "stored", "removed"}]
    /\ mtime \in [Keys -> 0..Horizon]
    /\ row \in [Keys -> {"none", "live", "gone"}]
    /\ dealGone \in BOOLEAN
    /\ deleting \in BOOLEAN
    /\ collected \in SUBSET Keys
    /\ toEnqueue \in SUBSET Keys
    /\ doomed \in SUBSET Keys
    /\ handed \in SUBSET Keys
    /\ sweep \in {"idle", "snapshot", "list"}
    /\ full \in BOOLEAN
    /\ startedAt \in 0..Horizon
    /\ inUse \in SUBSET Keys
    /\ dates \in SUBSET Days
    /\ batch \in SUBSET Keys
    /\ lastChecked \in 0..Horizon

Init ==
    /\ now = 1
    /\ born = [k \in Keys |-> 0]
    /\ issued = {}
    /\ consumed = [k \in Keys |-> 0]
    /\ object = [k \in Keys |-> "none"]
    /\ mtime = [k \in Keys |-> 0]
    /\ row = [k \in Keys |-> "none"]
    /\ dealGone = FALSE
    /\ deleting = FALSE /\ collected = {}
    /\ toEnqueue = {} /\ doomed = {} /\ handed = {}
    /\ sweep = "idle" /\ full = FALSE /\ startedAt = 0
    /\ inUse = {} /\ dates = {} /\ batch = {} /\ lastChecked = 0

Tick ==
    /\ now < Horizon
    /\ now' = now + 1
    /\ UNCHANGED <<fileVars, dealVars, queueVars, sweepVars>>

-----------------------------------------------------------------------------
(* The upload: presign, PUT by the client, registration.                   *)

Presign(k) ==
    /\ born[k] = 0
    /\ born' = [born EXCEPT ![k] = now]
    /\ issued' = issued \cup {k}
    /\ UNCHANGED <<now, consumed, object, mtime, row, dealVars, queueVars, sweepVars>>

\* The presigned URL can be used, and used again, until it expires.
Put(k) ==
    /\ born[k] # 0
    /\ now <= born[k] + PutTTL
    /\ object' = [object EXCEPT ![k] = "stored"]
    /\ mtime' = [mtime EXCEPT ![k] = now]
    /\ UNCHANGED <<now, born, issued, consumed, row, dealVars, queueVars, sweepVars>>

\* Mutant: an issued key never expires.
Consumable_Forever(k) == k \in issued

Consumable(k) == k \in issued /\ now <= born[k] + IssueTTL

Register(k) ==
    /\ Consumable(k)
    /\ issued' = issued \ {k}
    /\ consumed' = [consumed EXCEPT ![k] = now]
    /\ UNCHANGED <<now, born, object, mtime, row, dealVars, queueVars, sweepVars>>

\* The row, unless the deal is gone: 404, or the foreign key refuses it.
CreateAttachment(k) ==
    /\ consumed[k] # 0
    /\ now <= consumed[k] + RegisterTime
    /\ consumed' = [consumed EXCEPT ![k] = 0]
    /\ row' = IF dealGone THEN row ELSE [row EXCEPT ![k] = "live"]
    /\ UNCHANGED <<now, born, issued, object, mtime, dealVars, queueVars, sweepVars>>

RegisterFails(k) ==
    /\ consumed[k] # 0
    /\ consumed' = [consumed EXCEPT ![k] = 0]
    /\ UNCHANGED <<now, born, issued, object, mtime, row, dealVars, queueVars, sweepVars>>

EndDeletion == deleting' = FALSE /\ collected' = {}

\* The api restarts: the store is in its memory, and a handler between its
\* commit and its enqueue is cut off.
ApiRestart ==
    /\ issued' = {}
    /\ consumed' = [k \in Keys |-> 0]
    /\ toEnqueue' = {}
    /\ EndDeletion
    /\ UNCHANGED <<now, born, object, mtime, row, dealGone, doomed, sweepVars>>

-----------------------------------------------------------------------------
(* Deletion: rows first, then the objects by a queued job.                 *)

DeleteAttachment(k) ==
    /\ row[k] = "live"
    /\ row' = [row EXCEPT ![k] = "gone"]
    /\ toEnqueue' = toEnqueue \cup {k}
    /\ UNCHANGED <<now, born, issued, consumed, object, mtime, dealVars, doomed, sweepVars>>

Live == {k \in Keys : row[k] = "live"}

\* DELETE /deals/:id reads the keys and deletes the deal in one transaction,
\* at READ COMMITTED: the two statements see different states.
CollectKeys ==
    /\ ~dealGone
    /\ ~deleting
    /\ deleting' = TRUE
    /\ collected' = Live
    /\ UNCHANGED <<now, fileVars, dealGone, queueVars, sweepVars>>

\* The foreign key takes the deal's attachment rows with it.
Cascade ==
    /\ dealGone' = TRUE
    /\ row' = [k \in Keys |-> IF row[k] = "live" THEN "gone" ELSE row[k]]

DeleteDeal ==
    /\ deleting
    /\ ~dealGone
    /\ Cascade
    /\ toEnqueue' = toEnqueue \cup collected
    /\ EndDeletion
    /\ UNCHANGED <<now, born, issued, consumed, object, mtime, doomed, sweepVars>>

\* The deal is gone already: the transaction rolls back.
DeleteDealThrows ==
    /\ deleting
    /\ dealGone
    /\ EndDeletion
    /\ UNCHANGED <<now, fileVars, dealGone, queueVars, sweepVars>>

\* The MCP tool's deleteDeal neither collects nor enqueues keys.
McpDeleteDeal ==
    /\ ~dealGone
    /\ Cascade
    /\ UNCHANGED <<now, born, issued, consumed, object, mtime, deleting, collected,
                   queueVars, sweepVars>>

EnqueueCleanup ==
    /\ toEnqueue # {}
    /\ doomed' = doomed \cup toEnqueue
    /\ toEnqueue' = {}
    /\ UNCHANGED <<now, fileVars, dealVars, sweepVars>>

\* enqueueS3Cleanup swallows the error: "reconcile will reap".
EnqueueFails ==
    /\ toEnqueue # {}
    /\ toEnqueue' = {}
    /\ UNCHANGED <<now, fileVars, dealVars, doomed, sweepVars>>

\* The cleanup job deletes a key; deleting an absent one is a no-op.
CleanKey(k) ==
    /\ k \in doomed
    /\ doomed' = doomed \ {k}
    /\ object' = IF object[k] = "stored" THEN [object EXCEPT ![k] = "removed"] ELSE object
    /\ UNCHANGED <<now, born, issued, consumed, mtime, row, dealVars, toEnqueue, sweepVars>>

\* The job used its attempts.
CleanupFails(k) ==
    /\ k \in doomed
    /\ doomed' = doomed \ {k}
    /\ UNCHANGED <<now, fileVars, dealVars, toEnqueue, sweepVars>>

-----------------------------------------------------------------------------
(* The reconcile sweep; its worker runs one at a time.                     *)

\* Mutant: the window starts at the last run, without the grace period.
Window_NoGrace == Date(lastChecked)..Date(now)

Window == Date(lastChecked - Grace)..Date(now)

StartSweep(force) ==
    /\ sweep = "idle"
    /\ now % DayLen \in SweepHours
    /\ sweep' = "snapshot"
    /\ startedAt' = now
    /\ full' = (force \/ lastChecked = 0)
    /\ dates' = IF full' THEN Days ELSE Window \cap Days
    /\ UNCHANGED <<now, fileVars, dealVars, queueVars, inUse, batch, lastChecked, handed>>

LoadInUseKeys ==
    /\ sweep = "snapshot"
    /\ inUse' = Live
    /\ sweep' = "list"
    /\ UNCHANGED <<now, fileVars, dealVars, queueVars, full, startedAt, dates,
                   batch, lastChecked, handed>>

\* Mutant: the grace period is left out.
Orphan_NoGrace(k) == object[k] = "stored" /\ k \notin inUse

Orphan(k) ==
    /\ object[k] = "stored"
    /\ k \notin inUse
    /\ mtime[k] <= startedAt - Grace

ListDate(d) ==
    /\ sweep = "list"
    /\ d \in dates
    /\ dates' = dates \ {d}
    /\ batch' = batch \cup {k \in Keys : Date(born[k]) = d /\ Orphan(k)}
    /\ UNCHANGED <<now, fileVars, dealVars, queueVars, sweep, full, startedAt,
                   inUse, lastChecked, handed>>

\* A batch goes out when it is full and at the end of the listing.
FlushOrphans ==
    /\ batch # {}
    /\ doomed' = doomed \cup batch
    /\ handed' = handed \cup batch
    /\ batch' = {}
    /\ UNCHANGED <<now, fileVars, dealVars, toEnqueue, sweep, full, startedAt,
                   inUse, dates, lastChecked>>

EndSweep ==
    /\ sweep' = "idle" /\ full' = FALSE /\ startedAt' = 0
    /\ inUse' = {} /\ dates' = {} /\ batch' = {}

\* Mutant: the mark is saved before the last batch is flushed.
Listed_Unflushed == sweep = "list" /\ dates = {}

Listed == sweep = "list" /\ dates = {} /\ batch = {}

SaveLastChecked ==
    /\ Listed
    /\ lastChecked' = startedAt
    /\ EndSweep
    /\ UNCHANGED <<now, fileVars, dealVars, queueVars, handed>>

\* S3, the database or Redis failed: the mark stays where it was.
SweepThrows ==
    /\ sweep # "idle"
    /\ EndSweep
    /\ UNCHANGED <<now, fileVars, dealVars, queueVars, lastChecked, handed>>

-----------------------------------------------------------------------------
Next ==
    \/ Tick
    \/ \E k \in Keys : Presign(k) \/ Put(k) \/ Register(k) \/ CreateAttachment(k)
                       \/ RegisterFails(k) \/ DeleteAttachment(k)
                       \/ CleanKey(k) \/ CleanupFails(k)
    \/ ApiRestart
    \/ CollectKeys \/ DeleteDeal \/ DeleteDealThrows \/ McpDeleteDeal
    \/ EnqueueCleanup \/ EnqueueFails
    \/ \E force \in BOOLEAN : StartSweep(force)
    \/ LoadInUseKeys \/ FlushOrphans \/ SaveLastChecked \/ SweepThrows
    \/ \E d \in Days : ListDate(d)

Spec == Init /\ [][Next]_vars

-----------------------------------------------------------------------------
(***************************************************************************)
(* Properties.                                                             *)
(***************************************************************************)

\* No attachment row refers to an object that was deleted: neither the
\* sweep's stale snapshot nor a late cleanup job takes a live file.
NoDanglingRow == \A k \in Keys : row[k] = "live" => object[k] # "removed"

\* An upload nobody registered is handed to cleanup by the first clean sweep
\* that starts a grace period after it, although incremental sweeps list
\* only recent dates and may fail at any point.
AbandonedUploadsHanded ==
    \A k \in Keys :
        object[k] = "stored" /\ row[k] = "none" /\ mtime[k] # 0
          /\ lastChecked # 0 /\ mtime[k] + Grace <= lastChecked
            => k \in handed

\* Orphans as a sweep that is about to finish sees them.
SeenOrphans == {k \in Keys : Orphan(k)}

\* A full sweep that finishes has handed over every orphan.
FullSweepHandsAll ==
    [][lastChecked' # lastChecked /\ full => SeenOrphans \subseteq handed]_vars

-----------------------------------------------------------------------------
(***************************************************************************)
(* Why no live file is deleted: the inductive invariant of the proof.      *)
(***************************************************************************)

\* k's row is gone, or it can no longer be registered.
Dead(k) ==
    \/ row[k] = "gone"
    \/ /\ row[k] = "none" /\ born[k] # 0
       /\ ~Consumable(k)
       /\ consumed[k] # 0 => now > consumed[k] + RegisterTime

\* A row the sweep's snapshot misses belongs to a key too young for it.
SnapshotFresh ==
    /\ startedAt <= now
    /\ sweep = "list" => \A k \in Keys \ inUse :
         row[k] = "live" => startedAt <= born[k] + IssueTTL + RegisterTime

KeyTimes ==
    \A k \in Keys :
        /\ born[k] <= now /\ mtime[k] <= now
        /\ k \in issued => born[k] # 0 /\ row[k] = "none"
        /\ row[k] # "none" => born[k] # 0
        /\ consumed[k] # 0 => /\ k \notin issued /\ born[k] # 0 /\ row[k] = "none"
                              /\ consumed[k] <= born[k] + IssueTTL /\ consumed[k] <= now
        /\ object[k] # "none" => born[k] # 0 /\ born[k] <= mtime[k]

OnlyDeadDoomed ==
    /\ \A k \in doomed \cup batch \cup toEnqueue : Dead(k)
    /\ \A k \in Keys : object[k] = "removed" => Dead(k)
    /\ \A k \in collected : row[k] # "none"

IInv ==
    TypeOK /\ SnapshotFresh /\ KeyTimes /\ OnlyDeadDoomed /\ NoDanglingRow
=============================================================================
