-------------------------- MODULE S3Lifecycle_proofs --------------------------
(***************************************************************************)
(* No attachment row refers to a deleted object, for any lifetimes of      *)
(* presigned and issued keys shorter than the grace period, any number of  *)
(* files and any schedule of sweeps.                                       *)
(***************************************************************************)
EXTENDS S3Lifecycle, TLAPS

-----------------------------------------------------------------------------
(* Types.                                                                  *)

\* Every part of the state has its type at the start.
LEMMA InitTyped == Init => TypeOK
<1> SUFFICES ASSUME Init
             PROVE  TypeOK
  OBVIOUS
<1>1. full \in BOOLEAN /\ dealGone \in BOOLEAN /\ deleting \in BOOLEAN
  BY Zenon DEF Init
<1>2. /\ now \in 1..Horizon /\ 0 \in 0..Horizon
      /\ startedAt \in 0..Horizon /\ lastChecked \in 0..Horizon
  BY S3Assumption DEF Init
<1>3. /\ born \in [Keys -> 0..Horizon] /\ consumed \in [Keys -> 0..Horizon]
      /\ mtime \in [Keys -> 0..Horizon]
      /\ object \in [Keys -> {"none", "stored", "removed"}]
      /\ row \in [Keys -> {"none", "live", "gone"}]
  BY <1>2 DEF Init
<1>4. /\ issued = {} /\ collected = {} /\ toEnqueue = {} /\ doomed = {}
      /\ handed = {} /\ inUse = {} /\ dates = {} /\ batch = {}
      /\ sweep = "idle"
  BY DEF Init
<1> QED
  BY <1>1, <1>2, <1>3, <1>4 DEF TypeOK

\* A step of an upload keeps the types.
LEMMA UploadTyped ==
    ASSUME TypeOK, NEW k \in Keys,
           \/ Presign(k) \/ Put(k) \/ Register(k)
           \/ CreateAttachment(k) \/ RegisterFails(k)
    PROVE  TypeOK'
<1> USE S3Assumption
    DEF TypeOK, dealVars, queueVars, sweepVars
<1>1. CASE Presign(k)
  BY <1>1 DEF Presign
<1>2. CASE Put(k)
  BY <1>2 DEF Put
<1>3. CASE Register(k)
  BY <1>3 DEF Register
<1>4. CASE CreateAttachment(k)
  BY <1>4 DEF CreateAttachment
<1>5. CASE RegisterFails(k)
  BY <1>5 DEF RegisterFails
<1> QED
  BY <1>1, <1>2, <1>3, <1>4, <1>5

\* So does a deletion or a step of the cleanup queue.
LEMMA DeletionTyped ==
    ASSUME TypeOK,
           \/ \E k \in Keys : DeleteAttachment(k) \/ CleanKey(k) \/ CleanupFails(k)
           \/ ApiRestart \/ CollectKeys \/ DeleteDeal \/ DeleteDealThrows
           \/ McpDeleteDeal \/ EnqueueCleanup \/ EnqueueFails
    PROVE  TypeOK'
<1> USE S3Assumption
    DEF TypeOK, EndDeletion, fileVars, dealVars, queueVars, sweepVars
<1>1. CASE \E k \in Keys : DeleteAttachment(k)
  BY <1>1 DEF DeleteAttachment
<1>2. CASE \E k \in Keys : CleanKey(k)
  BY <1>2 DEF CleanKey
<1>3. CASE \E k \in Keys : CleanupFails(k)
  BY <1>3 DEF CleanupFails
<1>4. CASE ApiRestart
  <2>1. consumed' \in [Keys -> 0..Horizon]
    BY <1>4 DEF ApiRestart
  <2>2. deleting' \in BOOLEAN /\ collected' = {}
    BY <1>4 DEF ApiRestart
  <2> QED
    BY <1>4, <2>1, <2>2 DEF ApiRestart
<1>5. CASE CollectKeys
  BY <1>5 DEF CollectKeys, Live
<1>6. CASE DeleteDeal
  BY <1>6 DEF DeleteDeal, Cascade
<1>7. CASE DeleteDealThrows
  BY <1>7 DEF DeleteDealThrows
<1>8. CASE McpDeleteDeal
  BY <1>8 DEF McpDeleteDeal, Cascade
<1>9. CASE EnqueueCleanup
  BY <1>9 DEF EnqueueCleanup
<1>10. CASE EnqueueFails
  BY <1>10 DEF EnqueueFails
<1> QED
  BY <1>1, <1>2, <1>3, <1>4, <1>5, <1>6, <1>7, <1>8, <1>9, <1>10

\* So does a step of the sweep.
LEMMA SweepTyped ==
    ASSUME TypeOK,
           \/ \E force \in BOOLEAN : StartSweep(force)
           \/ \E d \in Days : ListDate(d)
           \/ LoadInUseKeys \/ FlushOrphans \/ SaveLastChecked \/ SweepThrows
    PROVE  TypeOK'
<1> USE S3Assumption
    DEF TypeOK, fileVars, dealVars, queueVars, EndSweep
<1>1. ASSUME NEW force \in BOOLEAN, StartSweep(force)
      PROVE  TypeOK'
  <2>1. full' \in BOOLEAN /\ dates' \in SUBSET Days
    BY <1>1 DEF StartSweep
  <2>2. startedAt' \in 0..Horizon
    BY <1>1 DEF StartSweep
  <2> QED
    BY <1>1, <2>1, <2>2 DEF StartSweep
<1>2. ASSUME NEW d \in Days, ListDate(d)
      PROVE  TypeOK'
  BY <1>2 DEF ListDate
<1>3. CASE LoadInUseKeys
  BY <1>3 DEF LoadInUseKeys, Live
<1>4. CASE FlushOrphans
  BY <1>4 DEF FlushOrphans
<1>5. CASE SaveLastChecked \/ SweepThrows
  <2>1. full' \in BOOLEAN
    BY <1>5, Zenon DEF SaveLastChecked, SweepThrows
  <2>2. startedAt' \in 0..Horizon /\ lastChecked' \in 0..Horizon
    BY <1>5 DEF SaveLastChecked, SweepThrows
  <2>3. /\ sweep' = "idle" /\ inUse' = {} /\ dates' = {} /\ batch' = {}
        /\ UNCHANGED <<now, fileVars, dealVars, queueVars, handed>>
    BY <1>5 DEF SaveLastChecked, SweepThrows
  <2> HIDE DEF EndSweep
  <2> QED
    BY <2>1, <2>2, <2>3
<1> QED
  BY <1>1, <1>2, <1>3, <1>4, <1>5

\* Every step keeps the types.
LEMMA StepTyped == TypeOK /\ [Next]_vars => TypeOK'
<1> SUFFICES ASSUME TypeOK, [Next]_vars
             PROVE  TypeOK'
  OBVIOUS
<1>1. CASE Tick
  BY <1>1, S3Assumption
     DEF Tick, TypeOK, fileVars, dealVars, queueVars, sweepVars
<1>2. CASE UNCHANGED vars
  BY <1>2 DEF TypeOK, vars, fileVars, dealVars, queueVars, sweepVars
<1> QED
  BY <1>1, <1>2, UploadTyped, DeletionTyped, SweepTyped DEF Next

-----------------------------------------------------------------------------
(* The invariant.                                                          *)

Files == SnapshotFresh /\ KeyTimes /\ OnlyDeadDoomed /\ NoDanglingRow

\* Uploads keep the invariant: a key is fresh when it is presigned, and a
\* registration within IssueTTL cannot concern a dead key.
LEMMA UploadKeeps ==
    ASSUME TypeOK, TypeOK', Files, NEW k \in Keys,
           \/ Presign(k) \/ Put(k) \/ Register(k)
           \/ CreateAttachment(k) \/ RegisterFails(k)
    PROVE  Files'
<1> USE S3Assumption
    DEF Files, SnapshotFresh, KeyTimes, OnlyDeadDoomed, NoDanglingRow,
        dealVars, queueVars, sweepVars
<1>1. CASE Presign(k)
  <2>1. \A i \in Keys : Dead(i) => i # k
    BY <1>1 DEF Presign, Dead, TypeOK
  <2>2. \A i \in Keys : Dead(i) => Dead(i)'
    BY <1>1, <2>1 DEF Presign, Dead, Consumable, TypeOK
  <2>3. OnlyDeadDoomed' /\ NoDanglingRow'
    BY <1>1, <2>2 DEF Presign, TypeOK
  <2>4. SnapshotFresh'
    BY <1>1 DEF Presign, TypeOK
  <2>5. KeyTimes'
    BY <1>1 DEF Presign, TypeOK
  <2> QED
    BY <2>3, <2>4, <2>5
<1>2. CASE Put(k)
  <2>1. \A i \in Keys : Dead(i) => Dead(i)'
    BY <1>2 DEF Put, Dead, Consumable, TypeOK
  <2>2. OnlyDeadDoomed' /\ NoDanglingRow'
    BY <1>2, <2>1 DEF Put, TypeOK
  <2>3. SnapshotFresh'
    BY <1>2 DEF Put, TypeOK
  <2>4. KeyTimes'
    BY <1>2 DEF Put, TypeOK
  <2> QED
    BY <2>2, <2>3, <2>4
<1>3. CASE Register(k)
  <2>1. \A i \in Keys : Dead(i) => i # k
    BY <1>3 DEF Register, Dead, Consumable, TypeOK
  <2>2. \A i \in Keys : Dead(i) => Dead(i)'
    BY <1>3, <2>1 DEF Register, Dead, Consumable, TypeOK
  <2>3. OnlyDeadDoomed' /\ NoDanglingRow'
    BY <1>3, <2>2 DEF Register, TypeOK
  <2>4. SnapshotFresh'
    BY <1>3 DEF Register, TypeOK
  <2>5. KeyTimes'
    BY <1>3 DEF Register, Consumable, TypeOK
  <2> QED
    BY <2>3, <2>4, <2>5
<1>4. CASE CreateAttachment(k)
  <2>1. \A i \in Keys : Dead(i) => i # k
    BY <1>4 DEF CreateAttachment, Dead, TypeOK
  <2>2. \A i \in Keys : Dead(i) => Dead(i)'
    BY <1>4, <2>1 DEF CreateAttachment, Dead, Consumable, TypeOK
  <2>3. OnlyDeadDoomed' /\ NoDanglingRow'
    BY <1>4, <2>1, <2>2 DEF CreateAttachment, TypeOK
  <2>4. SnapshotFresh'
    BY <1>4 DEF CreateAttachment, TypeOK
  <2>5. KeyTimes'
    BY <1>4 DEF CreateAttachment, TypeOK
  <2> QED
    BY <2>3, <2>4, <2>5
<1>5. CASE RegisterFails(k)
  <2>1. \A i \in Keys : Dead(i) => Dead(i)'
    BY <1>5 DEF RegisterFails, Dead, Consumable, TypeOK
  <2>2. OnlyDeadDoomed' /\ NoDanglingRow'
    BY <1>5, <2>1 DEF RegisterFails, TypeOK
  <2>3. SnapshotFresh' /\ KeyTimes'
    BY <1>5 DEF RegisterFails, TypeOK
  <2> QED
    BY <2>2, <2>3
<1> QED
  BY <1>1, <1>2, <1>3, <1>4, <1>5

\* Deletions and cleanup keep the invariant: only keys whose row is gone are
\* enqueued, and only dead keys are deleted.
LEMMA DeletionKeeps ==
    ASSUME TypeOK, TypeOK', Files,
           \/ \E k \in Keys : DeleteAttachment(k) \/ CleanKey(k) \/ CleanupFails(k)
           \/ ApiRestart \/ CollectKeys \/ DeleteDeal \/ DeleteDealThrows
           \/ McpDeleteDeal \/ EnqueueCleanup \/ EnqueueFails
    PROVE  Files'
<1> USE DEF Files, EndDeletion, fileVars, dealVars, queueVars, sweepVars
<1>1. /\ UNCHANGED <<now, born, mtime, sweep, startedAt, inUse, batch>>
      /\ issued' \subseteq issued /\ \A i \in Keys : consumed'[i] \in {consumed[i], 0}
      /\ \A i \in Keys : row'[i] = row[i] \/ (row[i] = "live" /\ row'[i] = "gone")
      /\ \A i \in Keys : object'[i] = object[i] \/ object[i] = "stored"
      /\ \A i \in Keys : object'[i] = object[i] \/ (object'[i] = "removed" /\ i \in doomed)
  BY DEF TypeOK, DeleteAttachment, CleanKey, CleanupFails, ApiRestart, CollectKeys,
         DeleteDeal, DeleteDealThrows, McpDeleteDeal, Cascade, EnqueueCleanup,
         EnqueueFails
<1>2. \A i \in Keys : Dead(i) => Dead(i)'
  BY <1>1, S3Assumption DEF Dead, Consumable, TypeOK
<1>3. \A i \in doomed' \cup toEnqueue' : Dead(i)'
  <2>1. \A i \in doomed' \cup toEnqueue' :
          i \in doomed \cup toEnqueue \/ row'[i] = "gone"
    <3>1. CASE DeleteDeal
      BY <3>1 DEF DeleteDeal, Cascade, OnlyDeadDoomed, TypeOK
    <3>2. CASE \E k \in Keys : DeleteAttachment(k)
      BY <3>2 DEF DeleteAttachment, TypeOK
    <3> QED
      BY <3>1, <3>2
         DEF CleanKey, CleanupFails, ApiRestart, CollectKeys, DeleteDealThrows,
             McpDeleteDeal, EnqueueCleanup, EnqueueFails
  <2> QED
    BY <2>1, <1>2 DEF OnlyDeadDoomed, Dead, TypeOK
<1>4. \A i \in collected' : row'[i] # "none"
  <2>1. collected' = {} \/ collected' = collected \/ collected' = Live
    BY DEF DeleteAttachment, CleanKey, CleanupFails, ApiRestart, CollectKeys,
           DeleteDeal, DeleteDealThrows, McpDeleteDeal, EnqueueCleanup,
           EnqueueFails
  <2> QED
    BY <1>1, <2>1 DEF Live, OnlyDeadDoomed, TypeOK
<1>5. OnlyDeadDoomed'
  BY <1>1, <1>2, <1>3, <1>4 DEF OnlyDeadDoomed, TypeOK
<1>6. NoDanglingRow'
  BY <1>1 DEF NoDanglingRow, OnlyDeadDoomed, Dead, TypeOK
<1>7. SnapshotFresh'
  BY <1>1 DEF SnapshotFresh, TypeOK
<1>8. KeyTimes'
  BY <1>1 DEF KeyTimes, TypeOK
<1> QED
  BY <1>5, <1>6, <1>7, <1>8

\* What a sweep takes for an orphan is dead: a row its snapshot missed is of
\* a key presigned less than IssueTTL before the sweep, and the object of an
\* orphan is older than Grace.
LEMMA OrphansAreDead ==
    ASSUME TypeOK, Files, sweep = "list", NEW k \in Keys, Orphan(k)
    PROVE  Dead(k)
BY S3Assumption
   DEF Files, TypeOK, Orphan, Dead, Consumable, SnapshotFresh, KeyTimes

\* The sweep keeps the invariant.
LEMMA SweepKeeps ==
    ASSUME TypeOK, TypeOK', Files,
           \/ \E force \in BOOLEAN : StartSweep(force)
           \/ \E d \in Days : ListDate(d)
           \/ LoadInUseKeys \/ FlushOrphans \/ SaveLastChecked \/ SweepThrows
    PROVE  Files'
<1> USE DEF fileVars, dealVars, queueVars, EndSweep
<1>1. UNCHANGED <<now, fileVars, dealVars, toEnqueue>>
  BY DEF StartSweep, ListDate, LoadInUseKeys, FlushOrphans, SaveLastChecked,
         SweepThrows
<1>2. \A i \in Keys : Dead(i) => Dead(i)'
  BY <1>1 DEF Dead, Consumable
<1>3. \A i \in doomed' \cup batch' : Dead(i)
  <2>1. CASE \E d \in Days : ListDate(d)
    BY <2>1, OrphansAreDead DEF ListDate, Files, OnlyDeadDoomed
  <2> QED
    BY <2>1 DEF StartSweep, LoadInUseKeys, FlushOrphans, SaveLastChecked,
                SweepThrows, Files, OnlyDeadDoomed
<1>4. OnlyDeadDoomed' /\ KeyTimes' /\ NoDanglingRow'
  BY <1>1, <1>2, <1>3
     DEF Files, OnlyDeadDoomed, KeyTimes, NoDanglingRow, TypeOK
<1>5. SnapshotFresh'
  <2>1. CASE \E force \in BOOLEAN : StartSweep(force)
    BY <2>1, S3Assumption DEF StartSweep, SnapshotFresh, TypeOK
  <2>2. CASE LoadInUseKeys
    BY <2>2 DEF LoadInUseKeys, Live, Files, SnapshotFresh
  <2>3. CASE \E d \in Days : ListDate(d)
    BY <2>3 DEF ListDate, Files, SnapshotFresh
  <2>4. CASE FlushOrphans
    BY <2>4 DEF FlushOrphans, Files, SnapshotFresh
  <2>5. CASE SaveLastChecked \/ SweepThrows
    BY <2>5, <1>1 DEF SaveLastChecked, SweepThrows, SnapshotFresh, TypeOK
  <2> QED
    BY <2>1, <2>2, <2>3, <2>4, <2>5
<1> QED
  BY <1>4, <1>5 DEF Files

\* Every step keeps the invariant.
LEMMA StepKeeps == IInv /\ [Next]_vars => IInv'
<1> SUFFICES ASSUME IInv, [Next]_vars
             PROVE  IInv'
  OBVIOUS
<1>1. TypeOK /\ Files /\ TypeOK'
  BY StepTyped DEF IInv, Files
<1>2. CASE Tick
  <2>1. \A i \in Keys : Dead(i) => Dead(i)'
    BY <1>1, <1>2, S3Assumption DEF Tick, fileVars, Dead, Consumable, TypeOK
  <2>2. OnlyDeadDoomed' /\ NoDanglingRow'
    BY <1>1, <1>2, <2>1
       DEF Tick, Files, OnlyDeadDoomed, NoDanglingRow, fileVars, dealVars,
           queueVars, sweepVars, TypeOK
  <2>3. SnapshotFresh' /\ KeyTimes'
    BY <1>1, <1>2, S3Assumption
       DEF Tick, Files, SnapshotFresh, KeyTimes, fileVars, sweepVars, TypeOK
  <2> QED
    BY <1>1, <2>2, <2>3 DEF IInv
<1>3. CASE UNCHANGED vars
  BY <1>1, <1>3
     DEF IInv, Files, SnapshotFresh, KeyTimes, OnlyDeadDoomed, NoDanglingRow,
         Dead, Consumable, vars, fileVars, dealVars, queueVars, sweepVars
<1>4. Files' => IInv'
  BY <1>1 DEF Files, IInv
<1> QED
  BY <1>1, <1>2, <1>3, <1>4, UploadKeeps, DeletionKeeps, SweepKeeps DEF Next

-----------------------------------------------------------------------------
(* The theorem.                                                            *)

LEMMA InitHolds == Init => IInv
BY InitTyped, S3Assumption
   DEF Init, IInv, SnapshotFresh, KeyTimes, OnlyDeadDoomed, NoDanglingRow

\* No attachment row ever refers to an object that was deleted.
THEOREM LiveFilesKept == Spec => []NoDanglingRow
<1>1. Init => IInv
  BY InitHolds
<1>2. IInv => NoDanglingRow
  BY DEF IInv
<1> QED
  BY <1>1, <1>2, StepKeeps, PTL DEF Spec
-----------------------------------------------------------------------------
(***************************************************************************)
(* What a sweep finds: every file left behind a grace period before it.    *)
(***************************************************************************)

LEMMA DateMonotone ==
    ASSUME NEW s \in Int, NEW t \in Int, s <= t
    PROVE  Date(s) \in Int /\ Date(s) <= Date(t)
<1>1. DayLen \in Nat /\ DayLen > 0
  BY S3Assumption
<1>2. s \div DayLen \in Int /\ s \div DayLen <= t \div DayLen
  BY <1>1
<1> QED
  BY <1>2 DEF Date

\* An upload without a row at t - Grace.
Ripe(k, t) == object[k] = "stored" /\ row[k] = "none" /\ mtime[k] + Grace <= t

\* The sweep has k, or lists its day yet.
Covered(k) == k \in handed \cup batch \/ Date(born[k]) \in dates

WindowTimes ==
    /\ lastChecked <= now
    /\ sweep # "idle" => startedAt # 0 /\ startedAt % DayLen \in SweepHours
    /\ lastChecked # 0 => lastChecked % DayLen \in SweepHours
    /\ \A k \in Keys : object[k] = "stored" => mtime[k] <= born[k] + PutTTL

\* What a full sweep will hand over, and the rows its snapshot holds.
FullCovers ==
    /\ sweep = "snapshot" /\ full => dates = Days
    /\ \A k \in inUse : row[k] # "none"
    /\ sweep = "list" /\ full => \A k \in Keys : Orphan(k) => Covered(k)

\* What any sweep will hand over, and what the last one did.
RipeCovered ==
    /\ sweep # "idle" => \A k \in Keys : Ripe(k, startedAt) => Covered(k)
    /\ lastChecked # 0 => \A k \in Keys : Ripe(k, lastChecked) => k \in handed

SweepInv == IInv /\ WindowTimes /\ FullCovers

\* The window of a sweep starts late enough in a day that no URL reaches into
\* it from the day before: the schedule says 03:17 UTC.
SweepsClearMidnight ==
    \A t \in 1..Horizon :
        t % DayLen \in SweepHours => Date(t - Grace) <= Date(t - Grace + 1 - PutTTL)

FileSteps ==
    \/ Tick
    \/ \E k \in Keys : Presign(k) \/ Put(k) \/ Register(k) \/ CreateAttachment(k)
                       \/ RegisterFails(k) \/ DeleteAttachment(k)
                       \/ CleanKey(k) \/ CleanupFails(k)
    \/ ApiRestart
    \/ CollectKeys \/ DeleteDeal \/ DeleteDealThrows \/ McpDeleteDeal
    \/ EnqueueCleanup \/ EnqueueFails
    \/ UNCHANGED vars

SweepSteps ==
    \/ \E force \in BOOLEAN : StartSweep(force)
    \/ LoadInUseKeys \/ FlushOrphans \/ SaveLastChecked \/ SweepThrows
    \/ \E d \in Days : ListDate(d)

\* A row once written never leaves the table's history, and an upload after a
\* moment is not older than it.
LEMMA FileStepsMove ==
    ASSUME IInv, FileSteps
    PROVE  /\ UNCHANGED sweepVars /\ now' >= now
           /\ \A k \in Keys : row'[k] = "none" => row[k] = "none"
           /\ \A k \in Keys : object'[k] = "stored" =>
                /\ born'[k] = born[k] /\ born[k] # 0
                /\ \/ object[k] = "stored" /\ mtime'[k] = mtime[k]
                   \/ mtime'[k] = now /\ now <= born[k] + PutTTL
<1> USE DEF IInv, TypeOK
<1>1. CASE \E k \in Keys : Presign(k)
  BY <1>1 DEF Presign, dealVars, queueVars, sweepVars, KeyTimes
<1>2. CASE \E k \in Keys : Put(k)
  BY <1>2 DEF Put, dealVars, queueVars, sweepVars, KeyTimes
<1>3. CASE \E k \in Keys : Register(k) \/ CreateAttachment(k) \/ RegisterFails(k)
  BY <1>3 DEF Register, CreateAttachment, RegisterFails, dealVars, queueVars, sweepVars, KeyTimes
<1>4. CASE \E k \in Keys : DeleteAttachment(k) \/ CleanKey(k) \/ CleanupFails(k)
  BY <1>4 DEF DeleteAttachment, CleanKey, CleanupFails, fileVars, dealVars, sweepVars, KeyTimes
<1>5. CASE DeleteDeal \/ McpDeleteDeal
  BY <1>5 DEF DeleteDeal, McpDeleteDeal, Cascade, sweepVars, queueVars, KeyTimes
<1>6. CASE Tick \/ ApiRestart \/ CollectKeys \/ DeleteDealThrows \/ EnqueueCleanup \/ EnqueueFails
           \/ UNCHANGED vars
  BY <1>6 DEF Tick, ApiRestart, CollectKeys, DeleteDealThrows, EnqueueCleanup, EnqueueFails,
     vars, fileVars, dealVars, queueVars, sweepVars, KeyTimes
<1> QED
  BY <1>1, <1>2, <1>3, <1>4, <1>5, <1>6 DEF FileSteps

LEMMA DaysAreListed ==
    ASSUME TypeOK, NEW k \in Keys
    PROVE  Date(born[k]) \in Days
<1>1. born[k] \in Int /\ 0 <= born[k] /\ born[k] <= Horizon /\ Horizon \in Int
  BY S3Assumption DEF TypeOK
<1>2. Date(0) <= Date(born[k]) /\ Date(born[k]) <= Date(Horizon) /\ Date(born[k]) \in Int
      /\ Date(Horizon) \in Int
  BY <1>1, DateMonotone
<1>3. Date(0) = 0
  BY S3Assumption DEF Date
<1> QED
  BY <1>2, <1>3 DEF Days

LEMMA FileStepsCover ==
    ASSUME SweepInv, FileSteps
    PROVE  /\ WindowTimes' /\ FullCovers'
           /\ RipeCovered => RipeCovered'
<1>1. /\ UNCHANGED sweepVars /\ now' >= now
      /\ \A k \in Keys : row'[k] = "none" => row[k] = "none"
      /\ \A k \in Keys : object'[k] = "stored" =>
           /\ born'[k] = born[k] /\ born[k] # 0
           /\ \/ object[k] = "stored" /\ mtime'[k] = mtime[k]
              \/ mtime'[k] = now /\ now <= born[k] + PutTTL
  BY FileStepsMove DEF SweepInv
<1>2. /\ now \in Nat /\ startedAt \in Nat /\ lastChecked \in Nat
      /\ startedAt <= now /\ lastChecked <= now
      /\ inUse \in SUBSET Keys /\ now' \in Nat
  BY StepTyped DEF SweepInv, IInv, TypeOK, SnapshotFresh, WindowTimes, FileSteps, Next
<1>3. Grace \in Nat /\ Grace > 0
  BY S3Assumption
<1>4. ASSUME NEW k \in Keys, NEW t \in Nat, t <= now, object'[k] = "stored", mtime'[k] + Grace <= t
      PROVE  object[k] = "stored" /\ mtime'[k] = mtime[k] /\ born'[k] = born[k]
  BY <1>1, <1>2, <1>3, <1>4
<1>5. WindowTimes'
  BY <1>1, <1>2 DEF SweepInv, WindowTimes, sweepVars
<1>6. FullCovers'
  <2>1. ASSUME sweep = "list", full, NEW k \in Keys, Orphan(k)'
        PROVE  Covered(k)'
    <3>1. object'[k] = "stored" /\ mtime'[k] <= startedAt - Grace /\ k \notin inUse
      BY <1>1, <2>1 DEF Orphan, sweepVars
    <3>2. mtime'[k] + Grace <= startedAt
      <4>1. mtime'[k] \in Nat
        BY StepTyped DEF SweepInv, IInv, FileSteps, Next, TypeOK
      <4> QED
        BY <1>2, <1>3, <3>1, <4>1
    <3>3. Orphan(k) /\ born'[k] = born[k]
      BY <1>2, <1>4, <3>1, <3>2 DEF Orphan
    <3> QED
      BY <1>1, <2>1, <3>3 DEF SweepInv, FullCovers, Covered, sweepVars
  <2> QED
    BY <1>1, <1>2, <2>1 DEF SweepInv, FullCovers, sweepVars
<1>7. ASSUME RipeCovered
      PROVE  RipeCovered'
  <2>1. ASSUME NEW k \in Keys, NEW t \in Nat, t <= now, Ripe(k, t)'
        PROVE  Ripe(k, t) /\ born'[k] = born[k]
    BY <1>1, <1>4, <2>1 DEF Ripe
  <2>2. ASSUME sweep # "idle", NEW k \in Keys, Ripe(k, startedAt)'
        PROVE  Covered(k)'
    <3>1. Ripe(k, startedAt) /\ born'[k] = born[k]
      <4>1. PICK t \in Nat : t = startedAt
        BY <1>2
      <4>2. Ripe(k, t)'
        BY <1>1, <2>2, <4>1 DEF Ripe, sweepVars
      <4> QED
        BY <1>2, <2>1, <4>1, <4>2
    <3> QED
      BY <1>1, <1>7, <2>2, <3>1 DEF RipeCovered, Covered, sweepVars
  <2>3. ASSUME lastChecked # 0, NEW k \in Keys, Ripe(k, lastChecked)'
        PROVE  k \in handed'
    <3>1. Ripe(k, lastChecked)
      <4>1. PICK t \in Nat : t = lastChecked
        BY <1>2
      <4>2. Ripe(k, t)'
        BY <1>1, <2>3, <4>1 DEF Ripe, sweepVars
      <4> QED
        BY <1>2, <2>1, <4>1, <4>2
    <3> QED
      BY <1>1, <1>7, <2>3, <3>1 DEF RipeCovered, sweepVars
  <2> QED
    BY <1>1, <2>2, <2>3 DEF RipeCovered, sweepVars
<1> QED
  BY <1>5, <1>6, <1>7

\* A sweep starts with every ripe file in its window or handed over before.
LEMMA StartCovers ==
    ASSUME SweepInv, NEW force \in BOOLEAN, StartSweep(force)
    PROVE  /\ WindowTimes' /\ FullCovers'
           /\ SweepsClearMidnight /\ RipeCovered => RipeCovered'
<1>1. /\ sweep = "idle" /\ now % DayLen \in SweepHours
      /\ sweep' = "snapshot" /\ startedAt' = now /\ full' = (force \/ lastChecked = 0)
      /\ dates' = IF full' THEN Days ELSE Window \cap Days
      /\ UNCHANGED <<now, fileVars, inUse, batch, lastChecked, handed>>
  BY DEF StartSweep
<1>2. /\ now \in 1..Horizon /\ lastChecked \in 0..Horizon /\ lastChecked <= now
      /\ born \in [Keys -> 0..Horizon] /\ mtime \in [Keys -> 0..Horizon]
      /\ Horizon \in Nat /\ Grace \in Nat /\ PutTTL \in Nat /\ inUse \in SUBSET Keys
  BY S3Assumption DEF SweepInv, IInv, TypeOK, WindowTimes
<1>3. WindowTimes'
  BY <1>1, <1>2 DEF SweepInv, WindowTimes, fileVars
<1>4. FullCovers'
  BY <1>1 DEF SweepInv, FullCovers, fileVars
<1>5. ASSUME SweepsClearMidnight, RipeCovered, NEW k \in Keys, Ripe(k, now), k \notin handed
      PROVE  Date(born[k]) \in dates'
  <2>1. Date(born[k]) \in Days
    BY DaysAreListed DEF SweepInv, IInv
  <2>2. CASE lastChecked = 0
    BY <1>1, <2>1, <2>2
  <2>3. CASE lastChecked # 0
    <3>1. mtime[k] + Grace > lastChecked /\ mtime[k] <= born[k] + PutTTL /\ mtime[k] + Grace <= now
      BY <1>2, <1>5, <2>3 DEF RipeCovered, Ripe, SweepInv, WindowTimes
    <3>2. /\ born[k] \in Int /\ lastChecked - Grace + 1 - PutTTL \in Int /\ now \in Int
          /\ lastChecked - Grace \in Int
      BY <1>2
    <3>3. /\ lastChecked - Grace + 1 - PutTTL <= born[k]
          /\ born[k] <= now
      <4>1. born[k] <= mtime[k]
        BY <1>5 DEF Ripe, SweepInv, IInv, KeyTimes
      <4> QED
        BY <1>2, <3>1, <4>1
    <3>4. Date(lastChecked - Grace + 1 - PutTTL) <= Date(born[k]) /\ Date(born[k]) <= Date(now)
      BY <3>2, <3>3, DateMonotone
    <3>5. Date(lastChecked - Grace) <= Date(lastChecked - Grace + 1 - PutTTL)
      BY <1>2, <1>5, <2>3 DEF SweepsClearMidnight, SweepInv, WindowTimes
    <3>6. /\ Date(born[k]) \in Int /\ Date(now) \in Int /\ Date(lastChecked - Grace) \in Int
          /\ Date(lastChecked - Grace + 1 - PutTTL) \in Int
      BY <3>2, DateMonotone
    <3>7. Date(born[k]) \in Window
      BY <3>4, <3>5, <3>6 DEF Window
    <3> QED
      BY <1>1, <2>1, <3>7
  <2> QED
    BY <2>2, <2>3
<1>6. ASSUME SweepsClearMidnight, RipeCovered
      PROVE  RipeCovered'
  <2>1. \A k \in Keys : Ripe(k, now) => k \in handed \/ Date(born[k]) \in dates'
    BY <1>5, <1>6
  <2> QED
    BY <1>1, <1>6, <2>1 DEF RipeCovered, Ripe, Covered, fileVars
<1> QED
  BY <1>3, <1>4, <1>6

\* It goes on with them, and ends with all of them handed over.
LEMMA SweepCovers ==
    ASSUME SweepInv, LoadInUseKeys \/ FlushOrphans \/ SaveLastChecked \/ SweepThrows
                     \/ \E d \in Days : ListDate(d)
    PROVE  /\ WindowTimes' /\ FullCovers'
           /\ RipeCovered => RipeCovered'
<1> USE DEF SweepInv, fileVars
<1>1. CASE LoadInUseKeys
  <2>1. /\ UNCHANGED <<now, fileVars, full, startedAt, dates, batch, lastChecked, handed>>
        /\ sweep = "snapshot" /\ sweep' = "list" /\ inUse' = Live
    BY <1>1 DEF LoadInUseKeys
  <2>2. WindowTimes' /\ \A k \in inUse' : row'[k] # "none"
    BY <2>1 DEF WindowTimes, Live
  <2>3. full => \A k \in Keys : Date(born[k]) \in dates
    BY <2>1, DaysAreListed DEF FullCovers, IInv
  <2>4. FullCovers'
    BY <2>1, <2>2, <2>3 DEF FullCovers, Covered
  <2> QED
    BY <2>1, <2>2, <2>4 DEF RipeCovered, Ripe, Covered
<1>2. CASE FlushOrphans
  <2>1. /\ UNCHANGED <<now, fileVars, sweep, full, startedAt, inUse, dates, lastChecked>>
        /\ handed' = handed \cup batch /\ batch' = {}
    BY <1>2 DEF FlushOrphans
  <2>2. \A k \in Keys : Covered(k)' <=> Covered(k)
    BY <2>1 DEF Covered
  <2> QED
    BY <2>1, <2>2 DEF WindowTimes, FullCovers, RipeCovered, Ripe, Orphan
<1>3. ASSUME NEW d \in Days, ListDate(d)
      PROVE  /\ WindowTimes' /\ FullCovers'
             /\ RipeCovered => RipeCovered'
  <2>1. /\ UNCHANGED <<now, fileVars, sweep, full, startedAt, inUse, lastChecked, handed>>
        /\ sweep = "list" /\ dates' = dates \ {d}
        /\ batch' = batch \cup {k \in Keys : Date(born[k]) = d /\ Orphan(k)}
    BY <1>3 DEF ListDate
  <2>2. \A k \in Keys : Orphan(k) /\ Covered(k) => Covered(k)'
    BY <2>1 DEF Covered
  <2>3. ASSUME NEW k \in Keys, Ripe(k, startedAt)
        PROVE  Orphan(k)
    <3>1. k \notin inUse
      BY <2>3 DEF Ripe, FullCovers
    <3>2. mtime[k] \in Nat /\ startedAt \in Nat /\ Grace \in Nat
      BY S3Assumption DEF IInv, TypeOK
    <3> QED
      BY <2>3, <3>1, <3>2 DEF Ripe, Orphan
  <2>4. WindowTimes' /\ FullCovers'
    BY <2>1, <2>2 DEF WindowTimes, FullCovers, Orphan
  <2> QED
    BY <2>1, <2>2, <2>3, <2>4 DEF RipeCovered, Ripe
<1>4. CASE SaveLastChecked
  <2>1. /\ UNCHANGED <<now, fileVars, handed>>
        /\ sweep = "list" /\ dates = {} /\ batch = {}
        /\ sweep' = "idle" /\ lastChecked' = startedAt /\ inUse' = {}
    BY <1>4 DEF SaveLastChecked, Listed, EndSweep
  <2>2. WindowTimes' /\ FullCovers'
    BY <2>1 DEF WindowTimes, FullCovers, IInv, SnapshotFresh
  <2>3. \A k \in Keys : Covered(k) => k \in handed
    BY <2>1 DEF Covered
  <2> QED
    BY <2>1, <2>2, <2>3 DEF RipeCovered, Ripe
<1>5. CASE SweepThrows
  <2>1. UNCHANGED <<now, fileVars, handed, lastChecked>> /\ sweep' = "idle" /\ inUse' = {}
    BY <1>5 DEF SweepThrows, EndSweep
  <2> QED
    BY <2>1 DEF WindowTimes, FullCovers, RipeCovered, Ripe
<1> QED
  BY <1>1, <1>2, <1>3, <1>4, <1>5

LEMMA StepCovers ==
    ASSUME SweepInv, [Next]_vars
    PROVE  /\ SweepInv'
           /\ SweepsClearMidnight /\ RipeCovered => RipeCovered'
<1>1. IInv'
  BY StepKeeps DEF SweepInv
<1>2. CASE FileSteps
  BY <1>1, <1>2, FileStepsCover DEF SweepInv
<1>3. CASE SweepSteps
  BY <1>1, <1>3, StartCovers, SweepCovers DEF SweepInv, SweepSteps
<1> QED
  BY <1>2, <1>3 DEF Next, FileSteps, SweepSteps

LEMMA InitCovers == Init => SweepInv /\ RipeCovered
<1> SUFFICES ASSUME Init
             PROVE  SweepInv /\ RipeCovered
  OBVIOUS
<1>1. IInv
  BY InitHolds
<1> QED
  BY <1>1 DEF Init, SweepInv, WindowTimes, FullCovers, RipeCovered

\* A full sweep that ends has handed every orphan it could see to the cleanup
\* (makeReconcileProcessor without a high-water mark).
THEOREM FullSweepsAreComplete == Spec => FullSweepHandsAll
<1>1. SweepInv /\ [Next]_vars => [lastChecked' # lastChecked /\ full => SeenOrphans \subseteq handed]_vars
  <2> SUFFICES ASSUME SweepInv, Next, lastChecked' # lastChecked, full
               PROVE  SeenOrphans \subseteq handed
    OBVIOUS
  <2>1. SaveLastChecked
    BY FileStepsMove DEF Next, FileSteps, SweepInv, StartSweep, LoadInUseKeys, FlushOrphans,
       SweepThrows, ListDate, sweepVars
  <2> QED
    BY <2>1 DEF SaveLastChecked, Listed, SweepInv, FullCovers, Covered, SeenOrphans
<1> QED
  BY <1>1, InitCovers, StepCovers, PTL DEF Spec, FullSweepHandsAll

\* When sweeps start clear of midnight, an upload nobody registered has been
\* handed to the cleanup once a clean sweep started a grace period after it,
\* however many sweeps failed in between.
THEOREM AbandonedUploadsFound == SweepsClearMidnight => (Spec => []AbandonedUploadsHanded)
<1> SUFFICES ASSUME SweepsClearMidnight
             PROVE  Spec => []AbandonedUploadsHanded
  OBVIOUS
<1>1. (SweepInv /\ RipeCovered) /\ [Next]_vars => (SweepInv /\ RipeCovered)'
  BY StepCovers
<1>2. SweepInv /\ RipeCovered => AbandonedUploadsHanded
  BY DEF RipeCovered, Ripe, AbandonedUploadsHanded
<1> QED
  BY <1>1, <1>2, InitCovers, PTL DEF Spec
=============================================================================
