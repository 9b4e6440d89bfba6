-------------------------- MODULE Contacts_proofs ---------------------------
(*************************************************************************)
(* Proofs about Google contacts, for any number of pages, job slots,     *)
(* persons, edits and entries: the pull keeps its lock until it expires  *)
(* and leaves no page out, the newest edit wins on both sides of a link, *)
(* and a push keeps what it does not own.                                *)
(*************************************************************************)
EXTENDS ContactsPull, ContactsSync, ContactMapper, FiniteSetTheorems, SequenceTheorems, WellFoundedInduction, TLAPS

-----------------------------------------------------------------------------
(***************************************************************************)
(* Proofs about the contacts pull, for any number of pages and job slots:  *)
(* a run keeps its lock until the lock expires, and, when no user connects *)
(* the account under a run, an import leaves no page out.                  *)
(***************************************************************************)
USE PullAssumption

-----------------------------------------------------------------------------
(* The types.                                                              *)

LEMMA FirstPage == 1 \in Pages
BY DEF Pages

\* What LoadSync starts with is a listing.
LEMMA FreshListing ==
    ASSUME NEW job \in JobIds, NEW mode \in Modes, NEW grant \in Nat, NEW wasDone \in BOOLEAN,
           NEW useToken \in BOOLEAN, NEW page \in Pages
    PROVE  [at |-> "list", job |-> job, mode |-> mode, grant |-> grant, wasDone |-> wasDone,
            useToken |-> useToken, page |-> page, last |-> BookPages, left |-> PageCap]
              \in Listing
BY DEF Listing, Pages

\* What the steps of a listing write into it leaves it one.
LEMMA ListingChanged ==
    ASSUME NEW run \in Listing, NEW at \in {"list", "finish"}, NEW page \in Pages,
           NEW last \in Pages, NEW left \in 0..PageCap
    PROVE  /\ [run EXCEPT !.at = "save", !.useToken = FALSE, !.last = last, !.left = left] \in Listing
           /\ [run EXCEPT !.mode = "full-fallback", !.useToken = FALSE, !.page = page, !.left = left]
                \in Listing
           /\ [run EXCEPT !.at = at, !.page = page, !.left = left] \in Listing
           /\ [run EXCEPT !.at = at] \in Listing
BY Zenon DEF Listing, Modes

\* The same of the sync row.
LEMMA SyncRowChanged ==
    ASSUME NEW row \in SyncRows, NEW next \in Pages, NEW token \in SyncTokens, NEW done \in BOOLEAN
    PROVE  /\ [row EXCEPT !.next = next] \in SyncRows
           /\ [row EXCEPT !.inbound = FALSE] \in SyncRows
           /\ [row EXCEPT !.token = token] \in SyncRows
           /\ [row EXCEPT !.next = next, !.token = token, !.done = done] \in SyncRows
           /\ [row EXCEPT !.present = TRUE, !.inbound = TRUE, !.done = FALSE, !.next = next]
                \in SyncRows
BY Zenon DEF SyncRows

\* Every other slot keeps its run, and the one that changes has a run or none.
LEMMA SlotChanges ==
    ASSUME PullTypeOK, NEW s \in PullSlots, NEW x \in Pulls \cup {NoPull},
           pull' = [pull EXCEPT ![s] = x]
    PROVE  pull' \in [PullSlots -> Pulls \cup {NoPull}]
BY DEF PullTypeOK

\* A run that is past its load is a listing.
LEMMA ListingRuns ==
    ASSUME PullTypeOK, NEW s \in PullSlots, pull[s].at \in {"list", "save", "finish"}
    PROVE  pull[s] \in Listing
BY DEF PullTypeOK, Pulls, Loading, NoPull

\* A load is one.
LEMMA LoadingRuns ==
    ASSUME PullTypeOK, NEW s \in PullSlots, pull[s].at = "load"
    PROVE  pull[s] \in Loading
BY DEF PullTypeOK, Pulls, Listing, NoPull

\* A run ends: its slot is free, and the lock is free or as it was.
LEMMA EndRunTyped ==
    ASSUME PullTypeOK, NEW s \in PullSlots, EndRun(s)
    PROVE  /\ pull' \in [PullSlots -> Pulls \cup {NoPull}]
           /\ pullLock' \in PullSlots \cup {NoPullSlot, "dead"}
           /\ expiredOn' \subseteq PullSlots
BY DEF PullTypeOK, EndRun, ReleaseLock

LEMMA PullInitTyped == PullInit => PullTypeOK
<1> SUFFICES ASSUME PullInit PROVE PullTypeOK
  OBVIOUS
<1>1. sync \in SyncRows
  BY Zenon, FirstPage DEF PullInit, SyncRows, SyncTokens
<1>2. pull \in [PullSlots -> Pulls \cup {NoPull}] /\ cron \in BOOLEAN
  BY DEF PullInit
<1> QED
  BY <1>1, <1>2 DEF PullInit, PullTypeOK

\* The user's requests and what happens outside a run keep the types.
LEMMA OutsideTyped ==
    ASSUME PullTypeOK,
           \/ ConnectAccount \/ ConnectRow \/ ConnectEnqueue \/ ConnectEnqueueFails
           \/ Disconnect \/ DisconnectRow \/ DisconnectUnschedule \/ Resync \/ ApiBoot
           \/ CronTick \/ (\E id \in Kinds : RetentionEnds(id))
           \/ TokenExpires \/ GrantWithdrawn \/ LockExpires
    PROVE  PullTypeOK'
<1> USE DEF PullTypeOK, PullFault, syncVars, queueVars, Kinds, JobIds
<1>1. CASE ConnectAccount
  BY <1>1 DEF ConnectAccount
<1>2. CASE ConnectRow
  <2>1. 1 \in Pages
    BY DEF Pages
  <2>2. sync' \in SyncRows
    BY <1>2, <2>1, SyncRowChanged DEF ConnectRow, RestartImport, SyncTokens
  <2> QED
    BY <1>2, <2>2 DEF ConnectRow
<1>3. CASE ConnectEnqueue
  BY <1>3 DEF ConnectEnqueue, Enqueued
<1>12. CASE ConnectEnqueueFails
  BY <1>12 DEF ConnectEnqueueFails
<1>4. CASE Disconnect
  BY <1>4 DEF Disconnect
<1>5. CASE DisconnectRow
  <2>1. [sync EXCEPT !.inbound = FALSE] \in SyncRows
    BY FirstPage, SyncRowChanged DEF SyncTokens
  <2> QED
    BY <1>5, <2>1 DEF DisconnectRow
<1>6. CASE DisconnectUnschedule
  <2>1. cron' \in BOOLEAN
    BY <1>6, Zenon DEF DisconnectUnschedule
  <2>2. pullFaults' \in 0..MaxPullFaults
    BY <1>6 DEF DisconnectUnschedule
  <2> QED
    BY <1>6, <2>1, <2>2 DEF DisconnectUnschedule
<1>7. CASE Resync
  BY <1>7 DEF Resync, Enqueued
<1>8. CASE ApiBoot \/ CronTick \/ (\E id \in Kinds : RetentionEnds(id))
  BY <1>8 DEF ApiBoot, CronTick, RetentionEnds
<1>9. CASE TokenExpires
  <2>1. [sync EXCEPT !.token = "expired"] \in SyncRows
    BY FirstPage, SyncRowChanged DEF SyncTokens
  <2> QED
    BY <1>9, <2>1 DEF TokenExpires
<1>10. CASE GrantWithdrawn
  <2>1. revoked' \subseteq 0..MaxConnects
    BY <1>10 DEF GrantWithdrawn
  <2>2. pullFaults' \in 0..MaxPullFaults
    BY <1>10 DEF GrantWithdrawn
  <2> QED
    BY <1>10, <2>1, <2>2 DEF GrantWithdrawn
<1>11. CASE LockExpires
  BY <1>11 DEF LockExpires
<1> QED
  BY <1>1, <1>2, <1>3, <1>4, <1>5, <1>6, <1>7, <1>8, <1>9, <1>10, <1>11, <1>12

\* The steps of a run keep the types.
LEMMA RunTyped ==
    ASSUME PullTypeOK, NEW s \in PullSlots,
           PullRunStep(s) \/ ListFails(s) \/ PullCrash(s) \/ (\E id \in JobIds : TakeJob(s, id))
    PROVE  PullTypeOK'
<1> USE DEF PullTypeOK, PullFault, syncVars, queueVars
<1>1. CASE \E id \in JobIds : TakeJob(s, id)
  <2>1. PICK id \in JobIds : TakeJob(s, id)
    BY <1>1
  <2>2. [at |-> "load", job |-> id] \in Pulls
    BY DEF Pulls, Loading
  <2> QED
    BY <2>1, <2>2, SlotChanges DEF TakeJob
<1>2. CASE LoadSync(s)
  <2>1. CASE account.state = "connected" /\ sync.present /\ sync.inbound
    <3>1. pull[s].job \in JobIds
      BY <1>2, LoadingRuns DEF LoadSync, Loading
    <3>2. ModeOf(pull[s].job) \in Modes
      BY DEF ModeOf, Modes
    <3>3. sync.next \in Pages /\ 1 \in Pages /\ sync.done \in BOOLEAN /\ account.grant \in Nat
      BY DEF SyncRows, Pages
    <3>4. \E x \in Listing : pull' = [pull EXCEPT ![s] = x]
      BY <1>2, <2>1, <3>1, <3>2, <3>3, FreshListing DEF LoadSync
    <3> QED
      BY <1>2, <2>1, <3>4, SlotChanges DEF LoadSync, Pulls
  <2>2. CASE ~(account.state = "connected" /\ sync.present /\ sync.inbound)
    BY <1>2, <2>2, EndRunTyped DEF LoadSync
  <2> QED
    BY <2>1, <2>2
<1>3. CASE ListPage(s)
  <2>1. pull[s] \in Listing /\ pull[s].left > 0
    BY <1>3, ListingRuns DEF ListPage, MayList
  <2>2. \E last \in Pages : pull' = [pull EXCEPT ![s] =
           [pull[s] EXCEPT !.at = "save", !.useToken = FALSE, !.last = last,
                           !.left = pull[s].left - 1]]
    <3>1. PICK last \in (IF pull[s].useToken THEN {1, BookPages} ELSE {pull[s].last}) :
             pull' = [pull EXCEPT ![s].at = "save", ![s].useToken = FALSE, ![s].last = last,
                                  ![s].left = @ - 1]
      BY <1>3 DEF ListPage
    <3>2. last \in Pages
      BY <2>1 DEF Listing, Pages
    <3> QED
      BY <3>1, <3>2
  <2>3. \A last \in Pages :
           [pull[s] EXCEPT !.at = "save", !.useToken = FALSE, !.last = last, !.left = pull[s].left - 1]
             \in Listing
    <3>1. pull[s].left - 1 \in 0..PageCap
      BY <2>1 DEF Listing
    <3> QED
      BY <2>1, <3>1, FirstPage, ListingChanged
  <2>4. imported' \subseteq Pages
    BY <1>3, <2>1 DEF ListPage, Listing
  <2> QED
    BY <1>3, <2>2, <2>3, <2>4, SlotChanges DEF ListPage, Pulls
<1>4. CASE ListExpired(s)
  <2>1. pull[s] \in Listing /\ pull[s].left > 0
    BY <1>4, ListingRuns DEF ListExpired, MayList
  <2>2. [pull[s] EXCEPT !.mode = "full-fallback", !.useToken = FALSE, !.page = 1,
                        !.left = pull[s].left - 1] \in Listing
    <3>1. pull[s].left - 1 \in 0..PageCap /\ 1 \in Pages
      BY <2>1 DEF Listing, Pages
    <3> QED
      BY <2>1, <3>1, ListingChanged
  <2>3. pull' = [pull EXCEPT ![s] =
           [pull[s] EXCEPT !.mode = "full-fallback", !.useToken = FALSE, !.page = 1,
                           !.left = pull[s].left - 1]]
    BY <1>4 DEF ListExpired
  <2> QED
    BY <1>4, <2>2, <2>3, SlotChanges DEF ListExpired, Pulls
<1>5. CASE ListRefused(s)
  <2>1. pull[s] \in Listing
    BY <1>5, ListingRuns DEF ListRefused, MayList
  <2>2. account' \in [state : {"none", "connected", "disabled"}, grant : 0..MaxConnects]
    BY <1>5 DEF ListRefused
  <2>3. EndRun(s) /\ UNCHANGED <<revoked, syncVars, queueVars, consent, pullFaults>>
    BY <1>5 DEF ListRefused
  <2> QED
    BY <2>2, <2>3, EndRunTyped
<1>6. CASE ListFails(s)
  <2>1. pull[s].job \in JobIds
    BY <1>6, ListingRuns DEF ListFails, MayList, Listing
  <2> QED
    BY <1>6, <2>1, EndRunTyped DEF ListFails
<1>7. CASE SaveProgress(s)
  <2>1. pull[s] \in Listing
    BY <1>7, ListingRuns DEF SaveProgress
  <2>2. Checkpoint(s) \in SyncRows
    <3>1. (IF IsLast(s) THEN 1 ELSE pull[s].page + 1) \in Pages
      BY <2>1 DEF IsLast, Listing, Pages
    <3>2. [sync EXCEPT !.next = IF IsLast(s) THEN 1 ELSE pull[s].page + 1] \in SyncRows
      BY <3>1, SyncRowChanged DEF SyncRows
    <3> QED
      BY <3>2 DEF Checkpoint
  <2>3. pull' = [pull EXCEPT ![s] =
           [pull[s] EXCEPT !.at = IF IsLast(s) THEN "finish" ELSE "list",
                           !.page = IF IsLast(s) THEN pull[s].page ELSE pull[s].page + 1,
                           !.left = IF IsLast(s) THEN 0 ELSE pull[s].left]]
    BY <1>7 DEF SaveProgress
  <2>4. [pull[s] EXCEPT !.at = IF IsLast(s) THEN "finish" ELSE "list",
                        !.page = IF IsLast(s) THEN pull[s].page ELSE pull[s].page + 1,
                        !.left = IF IsLast(s) THEN 0 ELSE pull[s].left] \in Listing
    <3>1. /\ (IF IsLast(s) THEN pull[s].page ELSE pull[s].page + 1) \in Pages
          /\ (IF IsLast(s) THEN 0 ELSE pull[s].left) \in 0..PageCap
      BY <2>1 DEF IsLast, Listing, Pages
    <3> QED
      BY <2>1, <3>1, ListingChanged
  <2> QED
    BY <1>7, <2>2, <2>3, <2>4, SlotChanges DEF SaveProgress, Pulls
<1>8. CASE PauseAtCap(s)
  <2>1. CASE PagesLeft(s)
    BY <1>8, <2>1, EndRunTyped DEF PauseAtCap
  <2>2. CASE ~PagesLeft(s)
    <3>1. pull' = [pull EXCEPT ![s] = [pull[s] EXCEPT !.at = "finish"]]
      BY <1>8, <2>2 DEF PauseAtCap
    <3>2. [pull[s] EXCEPT !.at = "finish"] \in Listing
      <4>1. pull[s] \in Listing /\ 0 \in 0..PageCap
        BY <1>8, ListingRuns DEF PauseAtCap
      <4> QED
        BY <4>1, FirstPage, ListingChanged
    <3> QED
      BY <1>8, <2>2, <3>1, <3>2, SlotChanges DEF PauseAtCap, Pulls
  <2> QED
    BY <2>1, <2>2
<1>9. CASE FinishPull(s)
  <2>1. pull[s] \in Listing
    BY <1>9, ListingRuns DEF FinishPull
  <2>2. TokensIssued(s) \subseteq SyncTokens
    BY <2>1 DEF TokensIssued, Listing, Modes, SyncTokens, SyncRows
  <2>3. sync' \in SyncRows
    <3>1. PICK token \in TokensIssued(s) :
             sync' = [sync EXCEPT !.next = 1, !.token = token,
                                  !.done = sync.done \/ (pull[s].mode # "incremental" /\ ~pull[s].wasDone)]
      BY <1>9 DEF FinishPull
    <3>2. (sync.done \/ (pull[s].mode # "incremental" /\ ~pull[s].wasDone)) \in BOOLEAN /\ 1 \in Pages
      BY DEF Pages
    <3> QED
      BY <2>2, <3>1, <3>2, SyncRowChanged
  <2> QED
    BY <1>9, <2>3, EndRunTyped DEF FinishPull
<1>10. CASE PullCrash(s)
  <2>1. pull[s].job \in JobIds
    BY <1>10 DEF PullCrash, Pulls, Loading, Listing
  <2>2. pull' \in [PullSlots -> Pulls \cup {NoPull}]
    BY <1>10, SlotChanges DEF PullCrash
  <2> QED
    BY <1>10, <2>1, <2>2 DEF PullCrash
<1> QED
  BY <1>1, <1>2, <1>3, <1>4, <1>5, <1>6, <1>7, <1>8, <1>9, <1>10 DEF PullRunStep

\* PullNext, by who acts.
LEMMA NextCases ==
    ASSUME PullNext
    PROVE  \/ ConnectAccount \/ ConnectRow \/ ConnectEnqueue \/ ConnectEnqueueFails
           \/ Disconnect \/ DisconnectRow \/ DisconnectUnschedule \/ Resync \/ ApiBoot
           \/ CronTick \/ (\E id \in Kinds : RetentionEnds(id))
           \/ TokenExpires \/ GrantWithdrawn \/ LockExpires
           \/ \E s \in PullSlots : \/ PullRunStep(s) \/ ListFails(s) \/ PullCrash(s)
                                   \/ \E id \in JobIds : TakeJob(s, id)
BY DEF PullNext, PullWork

LEMMA NextTyped == PullTypeOK /\ [PullNext]_pullVars => PullTypeOK'
<1> SUFFICES ASSUME PullTypeOK, [PullNext]_pullVars PROVE PullTypeOK'
  OBVIOUS
<1>1. CASE PullNext
  BY <1>1, NextCases, OutsideTyped, RunTyped
<1>2. CASE UNCHANGED pullVars
  BY <1>2 DEF PullTypeOK, pullVars, syncVars, queueVars
<1> QED
  BY <1>1, <1>2

\* The state of the pull keeps its types, for any bounds.
THEOREM Typing == PullSpec => []PullTypeOK
BY PullInitTyped, NextTyped, PTL DEF PullSpec

-----------------------------------------------------------------------------
(* The lock.                                                               *)

\* Ending a run, or losing its process, frees no other run's lock.
LEMMA OthersKeepLock ==
    ASSUME PullTypeOK, LockKeptUntilExpiry, NEW s \in PullSlots,
           EndRun(s) \/ PullCrash(s)
    PROVE  LockKeptUntilExpiry'
<1>1. /\ pull' = [pull EXCEPT ![s] = NoPull]
      /\ expiredOn' = expiredOn \ {s}
      /\ pullLock # s => pullLock' = pullLock
  BY DEF EndRun, ReleaseLock, PullCrash
<1> QED
  BY <1>1 DEF PullTypeOK, LockKeptUntilExpiry

LEMMA NextKeepsLock ==
    PullTypeOK /\ LockKeptUntilExpiry /\ [PullNext]_pullVars => LockKeptUntilExpiry'
<1> SUFFICES ASSUME PullTypeOK, LockKeptUntilExpiry, [PullNext]_pullVars
             PROVE  LockKeptUntilExpiry'
  OBVIOUS
<1>1. CASE \/ ConnectAccount \/ ConnectRow \/ ConnectEnqueue \/ ConnectEnqueueFails
           \/ Disconnect \/ DisconnectRow \/ DisconnectUnschedule \/ Resync \/ ApiBoot
           \/ CronTick \/ (\E id \in Kinds : RetentionEnds(id))
           \/ TokenExpires \/ GrantWithdrawn \/ UNCHANGED pullVars
  <2>1. UNCHANGED <<pullLock, expiredOn, pull>>
    BY <1>1 DEF ConnectAccount, ConnectRow, ConnectEnqueue, ConnectEnqueueFails, Disconnect,
         DisconnectRow, DisconnectUnschedule, Resync, ApiBoot, CronTick, RetentionEnds,
         TokenExpires, GrantWithdrawn, pullVars
  <2> QED
    BY <2>1 DEF LockKeptUntilExpiry
<1>2. CASE LockExpires
  BY <1>2 DEF LockExpires, LockKeptUntilExpiry, PullTypeOK
<1>3. ASSUME NEW s \in PullSlots, NEW id \in JobIds, TakeJob(s, id)
      PROVE  LockKeptUntilExpiry'
  <2>1. CASE pullLock = NoPullSlot
    <3>1. \A t \in PullSlots : pull[t] # NoPull => t \in expiredOn
      BY <2>1 DEF LockKeptUntilExpiry
    <3>2. pullLock' = s /\ UNCHANGED expiredOn /\ \A t \in PullSlots \ {s} : pull'[t] = pull[t]
      BY <1>3, <2>1 DEF TakeJob, PullTypeOK
    <3> QED
      BY <3>1, <3>2 DEF LockKeptUntilExpiry
  <2>2. CASE pullLock # NoPullSlot
    BY <1>3, <2>2 DEF TakeJob, LockKeptUntilExpiry
  <2> QED
    BY <2>1, <2>2
<1>4. ASSUME NEW s \in PullSlots,
             LoadSync(s) \/ ListPage(s) \/ ListExpired(s) \/ SaveProgress(s) \/ PauseAtCap(s)
      PROVE  LockKeptUntilExpiry'
  <2>1. CASE EndRun(s)
    BY <2>1, OthersKeepLock
  <2>2. CASE ~EndRun(s)
    <3>1. UNCHANGED <<pullLock, expiredOn>>
      BY <1>4, <2>2 DEF LoadSync, ListPage, ListExpired, SaveProgress, PauseAtCap
    <3>2. pull[s].at # "idle"
      BY <1>4 DEF LoadSync, ListPage, ListExpired, SaveProgress, PauseAtCap, MayList
    <3>3. \A t \in PullSlots \ {s} : pull'[t] = pull[t]
      BY <1>4, <2>2 DEF LoadSync, ListPage, ListExpired, SaveProgress, PauseAtCap, PullTypeOK
    <3> QED
      BY <3>1, <3>2, <3>3 DEF LockKeptUntilExpiry, NoPull
  <2> QED
    BY <2>1, <2>2
<1>5. ASSUME NEW s \in PullSlots,
             ListRefused(s) \/ FinishPull(s) \/ ListFails(s) \/ PullCrash(s)
      PROVE  LockKeptUntilExpiry'
  BY <1>5, OthersKeepLock DEF ListRefused, FinishPull, ListFails
<1> QED
  BY <1>1, <1>2, <1>3, <1>4, <1>5, NextCases DEF PullRunStep

\* A run that has not outlived its lock holds it, whatever is released, crashes
\* or expires around it.
THEOREM LockKept == PullSpec => []LockKeptUntilExpiry
<1>1. PullInit => LockKeptUntilExpiry
  BY DEF PullInit, LockKeptUntilExpiry
<1> QED
  BY <1>1, NextKeepsLock, Typing, PTL DEF PullSpec

-----------------------------------------------------------------------------
(* The import covers the book.                                             *)

\* An idle slot and a load ask nothing of a run.
LEMMA RestCovers ==
    ASSUME NEW s \in PullSlots, pull[s].at \in {"idle", "load"}
    PROVE  RunCovers(s)
BY DEF RunCovers, Lists

\* A run whose slot does not change stays covered while pages are only added.
LEMMA StillCovers ==
    ASSUME PullInv, NEW s \in PullSlots, UNCHANGED pull[s],
           imported \subseteq imported', imported' \subseteq Pages
    PROVE  RunCovers(s)'
BY DEF PullInv, RunCovers, Lists

\* The end of a run changes its own slot only, and leaves it idle.
LEMMA EndRunCovers ==
    ASSUME PullInv, NEW s \in PullSlots, EndRun(s) \/ PullCrash(s), UNCHANGED imported
    PROVE  \A t \in PullSlots : RunCovers(t)'
<1> SUFFICES ASSUME NEW t \in PullSlots PROVE RunCovers(t)'
  OBVIOUS
<1>1. pull' = [pull EXCEPT ![s] = NoPull] /\ imported \subseteq Pages
  BY DEF EndRun, PullCrash, PullInv, PullTypeOK
<1>2. CASE t = s
  BY <1>1, <1>2 DEF RunCovers, Lists, NoPull, PullInv, PullTypeOK
<1>3. CASE t # s
  BY <1>1, <1>3, StillCovers DEF PullInv, PullTypeOK
<1> QED
  BY <1>2, <1>3

\* Steps that touch neither the runs nor the import.
LEMMA OutsideCovers ==
    ASSUME ~ConnectsSpan, PullInv, PullTypeOK',
           \/ ConnectAccount \/ ConnectEnqueue \/ ConnectEnqueueFails
           \/ Disconnect \/ DisconnectRow \/ DisconnectUnschedule \/ Resync \/ ApiBoot
           \/ CronTick \/ (\E id \in Kinds : RetentionEnds(id))
           \/ TokenExpires \/ GrantWithdrawn \/ LockExpires \/ UNCHANGED pullVars
    PROVE  PullInv'
<1>1. /\ UNCHANGED <<pull, imported>>
      /\ sync'.next = sync.next /\ sync'.done = sync.done
  BY DEF ConnectAccount, ConnectEnqueue, ConnectEnqueueFails, Disconnect, DisconnectRow,
       DisconnectUnschedule, Resync, ApiBoot, CronTick, RetentionEnds, TokenExpires,
       GrantWithdrawn, LockExpires, pullVars, syncVars, PullInv, PullTypeOK, SyncRows
<1>2. RestartRests'
  <2>1. CASE ConnectAccount
    BY <2>1 DEF ConnectAccount, RestartRests
  <2>2. CASE ~ConnectAccount
    <3>1. consent' = "row" => consent = "row"
      BY <2>2 DEF ConnectEnqueue, ConnectEnqueueFails, Disconnect, DisconnectRow,
           DisconnectUnschedule, Resync, ApiBoot, CronTick, RetentionEnds, TokenExpires,
           GrantWithdrawn, LockExpires, pullVars
    <3> QED
      BY <1>1, <3>1 DEF RestartRests, PullInv
  <2> QED
    BY <2>1, <2>2
<1>3. \A s \in PullSlots : RunCovers(s)'
  BY <1>1, StillCovers DEF PullInv, PullTypeOK
<1>4. ResumesAfterImported' /\ (sync.done => imported = Pages)'
  BY <1>1 DEF PullInv, ResumesAfterImported
<1> QED
  BY <1>2, <1>3, <1>4 DEF PullInv

\* The import starts over, under no run.
LEMMA RestartCovers ==
    ASSUME PullInv, PullTypeOK', ConnectRow
    PROVE  PullInv'
<1>1. /\ sync'.next = 1 /\ sync'.done = FALSE
      /\ UNCHANGED pull /\ consent' = "enqueue"
  BY DEF ConnectRow, RestartImport, PullInv, PullTypeOK, SyncRows
<1>2. \A s \in PullSlots : RunCovers(s)'
  BY <1>1 DEF ConnectRow, PullInv, RestartRests, RunCovers, Lists, NoPull
<1>3. ResumesAfterImported' /\ (sync.done => imported = Pages)' /\ RestartRests'
  BY <1>1 DEF ResumesAfterImported, RestartRests, Pages
<1> QED
  BY <1>2, <1>3 DEF PullInv

\* A job is taken while no restart is under way.
LEMMA TakeCovers ==
    ASSUME ~ConnectsSpan, PullInv, PullTypeOK', NEW s \in PullSlots, NEW id \in JobIds,
           TakeJob(s, id)
    PROVE  PullInv'
<1>1. consent # "row" /\ UNCHANGED <<sync, imported, consent>>
  BY DEF TakeJob, syncVars
<1>2. \A t \in PullSlots : RunCovers(t)'
  <2> SUFFICES ASSUME NEW t \in PullSlots PROVE RunCovers(t)'
    OBVIOUS
  <2>1. CASE UNCHANGED pull[t]
    BY <1>1, <2>1, StillCovers DEF PullInv, PullTypeOK
  <2>2. CASE pull'[t] # pull[t]
    BY <2>2 DEF TakeJob, PullInv, PullTypeOK, RunCovers, Lists
  <2> QED
    BY <2>1, <2>2
<1>3. ResumesAfterImported' /\ (sync.done => imported = Pages)' /\ RestartRests'
  BY <1>1 DEF PullInv, ResumesAfterImported, RestartRests
<1> QED
  BY <1>2, <1>3 DEF PullInv

\* A run that goes on changes its own slot only: it is enough to look at that.
LEMMA RunStepCovers ==
    ASSUME PullInv, PullTypeOK', NEW s \in PullSlots,
           UNCHANGED consent, pull[s].at # "idle",
           \A t \in PullSlots \ {s} : pull'[t] = pull[t],
           imported \subseteq imported', RunCovers(s)',
           ResumesAfterImported', (sync.done => imported = Pages)'
    PROVE  PullInv'
<1>1. RestartRests'
  BY DEF PullInv, RestartRests, NoPull
<1>2. \A t \in PullSlots \ {s} : RunCovers(t)'
  BY StillCovers DEF PullTypeOK
<1> QED
  BY <1>1, <1>2 DEF PullInv

\* A run that ends leaves the import as it is, or with its mark set when the
\* run covered the book.
LEMMA EndCovers ==
    ASSUME PullInv, PullTypeOK', NEW s \in PullSlots,
           \/ LoadSync(s) /\ EndRun(s)
           \/ ListRefused(s) \/ ListFails(s) \/ PullCrash(s) \/ FinishPull(s)
           \/ PauseAtCap(s) /\ EndRun(s)
    PROVE  PullInv'
<1>1. UNCHANGED <<imported, consent>> /\ (EndRun(s) \/ PullCrash(s))
  BY DEF LoadSync, ListRefused, ListFails, PullCrash, FinishPull, PauseAtCap, syncVars
<1>2. \A t \in PullSlots : RunCovers(t)'
  BY <1>1, EndRunCovers
<1>3. RestartRests'
  BY <1>1 DEF EndRun, PullCrash, RestartRests, PullInv, PullTypeOK
<1>4. ResumesAfterImported' /\ (sync.done => imported = Pages)'
  <2>1. CASE FinishPull(s)
    <3>1. pull[s].at = "finish" /\ sync'.next = 1
      BY <2>1 DEF FinishPull, PullInv, PullTypeOK, SyncRows
    <3>2. sync'.done => sync.done \/ pull[s].mode # "incremental"
      BY <2>1 DEF FinishPull, PullInv, PullTypeOK, SyncRows
    <3>3. sync'.done => imported = Pages
      BY <3>1, <3>2 DEF PullInv, RunCovers
    <3> QED
      BY <1>1, <3>1, <3>3 DEF ResumesAfterImported, Pages
  <2>2. CASE ~FinishPull(s)
    <3>1. UNCHANGED sync
      BY <2>2 DEF LoadSync, ListRefused, ListFails, PullCrash, PauseAtCap, syncVars
    <3> QED
      BY <1>1, <3>1 DEF PullInv, ResumesAfterImported
  <2> QED
    BY <2>1, <2>2
<1> QED
  BY <1>2, <1>3, <1>4 DEF PullInv

\* A run asks for changes only after a finished import, and resumes one where
\* its pages are applied.
LEMMA LoadCovers ==
    ASSUME PullInv, PullTypeOK', NEW s \in PullSlots, LoadSync(s), ~EndRun(s)
    PROVE  PullInv'
<1>1. pull' = [pull EXCEPT ![s] =
         [at |-> "list", job |-> pull[s].job, mode |-> ModeOf(pull[s].job),
          grant |-> account.grant, wasDone |-> sync.done,
          useToken |-> ModeOf(pull[s].job) = "incremental",
          page |-> IF ModeOf(pull[s].job) = "initial" THEN sync.next ELSE 1,
          last |-> BookPages, left |-> PageCap]]
  BY DEF LoadSync
<1>2. UNCHANGED <<sync, imported, consent>> /\ pull[s].at = "load"
  BY DEF LoadSync, syncVars
<1>3. \/ ModeOf(pull[s].job) = "initial"
      \/ ModeOf(pull[s].job) = "incremental" /\ imported = Pages
  BY DEF ModeOf, PullInv
<1>4. sync.next \in Pages /\ PageCap >= 2
  BY DEF PullInv, PullTypeOK, SyncRows
<1>5. RunCovers(s)'
  <2>1. /\ pull'[s].at = "list" /\ pull'[s].mode = ModeOf(pull[s].job)
        /\ pull'[s].useToken => ModeOf(pull[s].job) = "incremental"
        /\ pull'[s].page = IF ModeOf(pull[s].job) = "initial" THEN sync.next ELSE 1
        /\ pull'[s].last = BookPages /\ pull'[s].left = PageCap
    BY <1>1 DEF PullInv, PullTypeOK
  <2>2. CASE ModeOf(pull[s].job) = "initial"
    <3>1. /\ pull'[s].at = "list" /\ pull'[s].mode = "initial" /\ ~pull'[s].useToken
          /\ pull'[s].page = sync.next /\ pull'[s].last = BookPages /\ pull'[s].left >= 1
      BY <1>4, <2>1, <2>2
    <3>2. \A k \in Pages : k < pull'[s].page => k \in imported'
      BY <1>2, <3>1 DEF PullInv, ResumesAfterImported
    <3> QED
      BY <3>1, <3>2 DEF RunCovers, Lists
  <2>3. CASE ModeOf(pull[s].job) = "incremental" /\ imported = Pages
    BY <1>2, <1>4, <2>1, <2>3 DEF RunCovers, Lists
  <2> QED
    BY <1>3, <2>2, <2>3
<1> QED
  BY <1>1, <1>2, <1>5, RunStepCovers DEF PullInv, PullTypeOK, ResumesAfterImported

\* A page is listed and applied.
LEMMA ListCovers ==
    ASSUME PullInv, PullTypeOK', NEW s \in PullSlots, ListPage(s)
    PROVE  PullInv'
<1>1. pull[s] \in Listing /\ pull[s].at = "list" /\ RunCovers(s)
  BY ListingRuns DEF ListPage, MayList, PullInv
<1>2. UNCHANGED <<sync, consent>> /\ imported \subseteq imported' /\ imported' \subseteq Pages
  BY DEF ListPage, PullTypeOK
<1>3. \A t \in PullSlots \ {s} : pull'[t] = pull[t]
  BY DEF ListPage, PullInv, PullTypeOK
<1>4. /\ pull'[s].at = "save" /\ pull'[s].useToken = FALSE
      /\ pull'[s].mode = pull[s].mode /\ pull'[s].page = pull[s].page
      /\ ~pull[s].useToken => pull'[s].last = pull[s].last
  BY DEF ListPage, PullInv, PullTypeOK
<1>5. CASE pull[s].mode = "incremental"
  <2>1. imported' = Pages
    BY <1>1, <1>2, <1>5 DEF RunCovers, Lists
  <2> QED
    BY <1>1, <1>2, <1>3, <1>4, <1>5, <2>1, RunStepCovers
    DEF RunCovers, Lists, PullInv, ResumesAfterImported
<1>6. CASE pull[s].mode # "incremental"
  <2>1. imported' = imported \cup {pull[s].page}
    BY <1>6 DEF ListPage
  <2>2. RunCovers(s)'
    BY <1>1, <1>2, <1>4, <1>6, <2>1 DEF RunCovers, Lists
  <2>3. ResumesAfterImported' /\ (sync.done => imported = Pages)'
    BY <1>2 DEF PullInv, ResumesAfterImported
  <2> QED
    BY <1>1, <1>2, <1>3, <2>2, <2>3, RunStepCovers
<1> QED
  BY <1>5, <1>6

\* After a 410 the listing starts over.
LEMMA ExpiredCovers ==
    ASSUME PullInv, PullTypeOK', NEW s \in PullSlots, ListExpired(s)
    PROVE  PullInv'
<1>1. /\ pull[s] \in Listing /\ pull[s].at = "list" /\ pull[s].useToken /\ RunCovers(s)
  BY ListingRuns DEF ListExpired, MayList, PullInv
<1>2. UNCHANGED <<sync, imported, consent>> /\ \A t \in PullSlots \ {s} : pull'[t] = pull[t]
  BY DEF ListExpired, syncVars, PullInv, PullTypeOK
<1>3. /\ pull'[s].at = "list" /\ pull'[s].mode = "full-fallback" /\ pull'[s].useToken = FALSE
      /\ pull'[s].page = 1 /\ pull'[s].last = pull[s].last /\ pull'[s].left = pull[s].left - 1
  BY <1>1 DEF ListExpired, PullInv, PullTypeOK, Listing
<1>4. RunCovers(s)'
  BY <1>1, <1>2, <1>3 DEF RunCovers, Lists, Pages, Listing
<1> QED
  BY <1>1, <1>2, <1>4, RunStepCovers DEF PullInv, ResumesAfterImported

\* A checkpoint is written behind an applied page.
LEMMA SaveCovers ==
    ASSUME PullInv, PullTypeOK', NEW s \in PullSlots, SaveProgress(s)
    PROVE  PullInv'
<1>1. /\ pull[s] \in Listing /\ pull[s].at = "save" /\ ~pull[s].useToken /\ RunCovers(s)
  BY ListingRuns DEF SaveProgress, PullInv, RunCovers, Lists
<1>2. /\ UNCHANGED <<imported, consent>> /\ \A t \in PullSlots \ {s} : pull'[t] = pull[t]
  BY DEF SaveProgress, PullInv, PullTypeOK
<1>3. /\ pull'[s].at = IF IsLast(s) THEN "finish" ELSE "list"
      /\ pull'[s].mode = pull[s].mode /\ pull'[s].useToken = FALSE /\ pull'[s].last = pull[s].last
      /\ pull'[s].page = IF IsLast(s) THEN pull[s].page ELSE pull[s].page + 1
  BY <1>1 DEF SaveProgress, PullInv, PullTypeOK, Listing
<1>4. /\ sync'.done = sync.done
      /\ sync'.next = IF pull[s].mode = "incremental" THEN sync.next
                      ELSE IF IsLast(s) THEN 1 ELSE pull[s].page + 1
  BY DEF SaveProgress, Checkpoint, PullInv, PullTypeOK, SyncRows
<1>5. pull[s].page \in Pages /\ (IsLast(s) <=> pull[s].page >= pull[s].last)
  BY <1>1 DEF IsLast, Listing
<1>6. CASE pull[s].mode = "incremental"
  <2>1. imported = Pages
    BY <1>1, <1>6 DEF RunCovers, Lists
  <2>2. RunCovers(s)'
    BY <1>1, <1>2, <1>3, <1>5, <1>6, <2>1 DEF RunCovers, Lists, Pages
  <2> QED
    BY <1>1, <1>2, <1>4, <2>1, <2>2, RunStepCovers DEF ResumesAfterImported
<1>7. CASE pull[s].mode # "incremental"
  <2>1. pull[s].last = BookPages /\ \A k \in Pages : k <= pull[s].page => k \in imported
    BY <1>1, <1>5, <1>7 DEF RunCovers, Lists, Pages
  <2>2. IsLast(s) => imported = Pages
    <3>1. imported \subseteq Pages
      BY DEF PullInv, PullTypeOK
    <3>2. pull[s].page \in Pages
      BY <1>5
    <3>3. IsLast(s) => \A k \in Pages : k <= pull[s].page
      BY <1>5, <2>1, <3>2 DEF Pages
    <3> QED
      BY <2>1, <3>1, <3>3
  <2>3. RunCovers(s)'
    BY <1>1, <1>2, <1>3, <1>5, <1>7, <2>1, <2>2 DEF RunCovers, Lists, Pages
  <2>4. ResumesAfterImported' /\ (sync.done => imported = Pages)'
    BY <1>2, <1>4, <1>5, <1>7, <2>1 DEF ResumesAfterImported, Pages, PullInv
  <2> QED
    BY <1>1, <1>2, <2>3, <2>4, RunStepCovers
<1> QED
  BY <1>6, <1>7

\* A run at its cap is past its first page: it pauses, it does not finish.
LEMMA CapPauses ==
    ASSUME PullInv, NEW s \in PullSlots, PauseAtCap(s)
    PROVE  EndRun(s)
<1>1. pull[s] \in Listing /\ RunCovers(s) /\ pull[s].at = "list" /\ pull[s].left = 0
  BY ListingRuns DEF PauseAtCap, PullInv
<1>2. PagesLeft(s)
  BY <1>1 DEF PagesLeft, RunCovers, Listing, Pages
<1> QED
  BY <1>2 DEF PauseAtCap

\* Whatever fails and however often runs take over from each other, no import
\* leaves a page out, if no account is connected under a run.
THEOREM CoversBook == ~ConnectsSpan => (PullSpec => []ImportCoversBook)
<1> SUFFICES ASSUME ~ConnectsSpan
             PROVE  PullSpec => []ImportCoversBook
  OBVIOUS
<1>1. PullInit => PullInv
  <2> SUFFICES ASSUME PullInit PROVE PullInv
    OBVIOUS
  <2>1. \A s \in PullSlots : RunCovers(s)
    BY RestCovers DEF PullInit, NoPull
  <2> QED
    BY <2>1, PullInitTyped DEF PullInit, PullInv, ResumesAfterImported, RestartRests, Pages
<1>2. PullInv /\ [PullNext]_pullVars => PullInv'
  <2> SUFFICES ASSUME PullInv, [PullNext]_pullVars PROVE PullInv'
    OBVIOUS
  <2>1. PullTypeOK'
    BY NextTyped DEF PullInv
  <2>2. ASSUME NEW s \in PullSlots,
               \/ PullRunStep(s) \/ ListFails(s) \/ PullCrash(s)
               \/ \E id \in JobIds : TakeJob(s, id)
        PROVE  PullInv'
    <3>1. CASE PullRunStep(s)
      BY <2>1, <3>1, EndCovers, LoadCovers, ListCovers, ExpiredCovers, SaveCovers, CapPauses
      DEF PullRunStep
    <3>2. CASE ListFails(s) \/ PullCrash(s)
      BY <2>1, <3>2, EndCovers
    <3>3. CASE \E id \in JobIds : TakeJob(s, id)
      BY <2>1, <3>3, TakeCovers
    <3> QED
      BY <2>2, <3>1, <3>2, <3>3
  <2> QED
    BY <2>1, <2>2, NextCases, OutsideCovers, RestartCovers
<1>3. PullInv => ImportCoversBook
  BY DEF PullInv, ImportCoversBook, DoneCoversBook, RunCovers, Lists
<1> QED
  BY <1>1, <1>2, <1>3, PTL DEF PullSpec

HIDE PullAssumption

-----------------------------------------------------------------------------
(***************************************************************************)
(* Both sides of a link agree on the newest edit, for any number of        *)
(* persons and edits.                                                      *)
(***************************************************************************)
\* What the theorem asks: values tell edits apart, pushes run one at a time
\* and not beside a pull, and Google's answer to an update is recorded.
OneSyncAtATime ==
    /\ ~Reverts /\ ~SyncOverlap
    /\ \A s, t \in PushSlots : s = t
    /\ "record" \notin CrashPoints

Valued == {"links", "get", "update", "record", "create", "link"}
Planned == {"get", "update", "record", "create", "link"}
About == {"update", "record", "link", "unlink"}

GooglePersons == [state : {"absent", "live", "deleted"}, value : Nat, at : Nat]
LinkRows == [of : Nat, pushed : Nat, pulled : Nat]

JobTyped(job) ==
    /\ job.at \in {"idle", "unlink"} \cup Valued
    /\ job.at = "idle" => job = Resting
    /\ job.at \in Valued => job.id \in Nat /\ job.id # 0 /\ job.value \in 0..edits
    /\ job.at \in Planned => job.todo \subseteq Resources
    /\ job.at \in About => job.on \in Resources

SyncTypes ==
    /\ contact \in [id : Nat, value : Nat, at : Nat]
    /\ persons \in [Resources -> GooglePersons]
    /\ links \in [Resources -> LinkRows]
    /\ feed \subseteq Resources /\ removals \subseteq Resources
    /\ DOMAIN batch \subseteq Resources
    /\ \A r \in DOMAIN batch : batch[r] \in GooglePersons
    /\ upserts \in Nat /\ clock \in Nat /\ edits \in Nat
    /\ lastEdit \in [by : {"none", "crm", "google"}, over : SUBSET Resources, value : Nat]
    /\ DOMAIN push = PushSlots
    /\ \A s \in PushSlots : JobTyped(push[s])

\* No value is newer than the last edit and no stamp newer than the clock.
SyncBounds ==
    /\ Present => contact.id # 0
    /\ contact.value <= edits /\ contact.at <= clock /\ contact.id <= clock
    /\ \A r \in Resources :
         /\ persons[r].value <= edits /\ persons[r].at <= clock
         /\ links[r].pulled <= edits
         /\ persons[r].state = "absent" => persons[r] = NoPerson
    /\ \A r \in DOMAIN batch : batch[r].value <= edits /\ batch[r].at <= clock

SyncTyped == SyncTypes /\ SyncBounds

\* Links are the contact's; what is linked, listed or to be removed was there
\* once; and a linked person that was deleted is still to be pulled.
LinksStand ==
    /\ DOMAIN batch # {} => PushIdle
    /\ \A r \in Resources :
         /\ Linked(r) => Present /\ links[r].of = contact.id
         /\ Linked(r) \/ r \in removals \/ r \in feed \/ r \in DOMAIN batch =>
              persons[r].state # "absent"
         /\ Linked(r) /\ persons[r].state = "deleted" =>
              r \in feed \/ (r \in DOMAIN batch /\ batch[r].state = "deleted")
    /\ \A r \in DOMAIN batch :
         /\ r \notin feed => batch[r] = persons[r]
         /\ batch[r].state # "absent"
         /\ batch[r].state = "deleted" => persons[r].state = "deleted"
    /\ \A s \in PushSlots :
         /\ push[s].at = "link" => push[s].on \in feed
         /\ push[s].at = "unlink" => persons[push[s].on].state = "deleted"

\* A live person stamped after the contact shows the last push of the contact
\* or an edit no older than the contact's.
NotOlder(p, pushed) ==
    p.state = "live" /\ p.at >= contact.at =>
        pushed = p.value \/ p.value >= contact.value

NewerIsNewer ==
    /\ \A r \in Resources : Linked(r) =>
         \/ NotOlder(persons[r], links[r].pushed)
         \/ \E s \in PushSlots : push[s].at = "record" /\ push[s].on = r
    /\ \A r \in DOMAIN batch : Linked(r) => NotOlder(batch[r], links[r].pushed)
    /\ \A s \in PushSlots : push[s].at \in {"record", "link"} =>
         NotOlder(persons[push[s].on], push[s].value)

\* Shows the last edit, or is deleted.
ShowsEdit(r) == persons[r].value = edits \/ persons[r].state = "deleted"

\* The job will write the contact, as it is, to the person.
WillWrite(job, r) ==
    /\ job.at \in Valued /\ job.id = contact.id /\ job.value = contact.value
    /\ \/ job.at = "links"
       \/ job.at \in Planned \ {"record"} /\ r \in job.todo
       \/ job.at = "record" /\ r \in job.todo \ {job.on}

\* After an edit in the CRM: what it must pass, shows it, or a push is due; a
\* push that was under way before has written it nowhere.
EditIsPassedOn ==
    lastEdit.by = "crm" =>
      /\ Present /\ contact.value = lastEdit.value /\ contact.value = edits /\ edits # 0
      /\ \A r \in lastEdit.over : ~Linked(r) => persons[r].state = "deleted"
      /\ \A s \in PushSlots : push[s].at \in Valued /\ push[s].value # edits =>
           \A r \in Resources : persons[r].value # edits /\ links[r].pulled # edits
      /\ \A r \in Resources : Linked(r) /\ links[r].pulled = edits => ShowsEdit(r)
      /\ \A r \in DOMAIN batch : batch[r].value = edits => ShowsEdit(r)
      /\ \A r \in lastEdit.over : Linked(r) =>
           ShowsEdit(r) \/ upserts > 0 \/ \E s \in PushSlots : WillWrite(push[s], r)

SyncInv == SyncTyped /\ LinksStand /\ NewerIsNewer /\ EditIsPassedOn

---------------------------------------------------------------------------
LEMMA InitSync == ContactsInit => SyncInv
<1> SUFFICES ASSUME ContactsInit
             PROVE  SyncInv
  OBVIOUS
<1>1. SyncTypes
  BY DEF ContactsInit, SyncTypes, NoContact, NoPerson, NoLink, NoEdit, GooglePersons, LinkRows,
         JobTyped, Resting, Valued, Planned, About
<1>2. SyncBounds
  BY DEF ContactsInit, SyncBounds, Present, NoContact, NoPerson, NoLink
<1>3. LinksStand
  BY DEF ContactsInit, LinksStand, Linked, PushIdle, NoPerson, Resting
<1>4. NewerIsNewer
  BY DEF ContactsInit, NewerIsNewer, Linked, Resting
<1>5. EditIsPassedOn
  BY DEF ContactsInit, EditIsPassedOn, NoEdit
<1> QED
  BY <1>1, <1>2, <1>3, <1>4, <1>5 DEF SyncInv, SyncTyped

\* A person changes and enters the feed.
LEMMA PersonSet ==
    ASSUME SyncTypes, NEW r \in Resources, NEW state \in {"live", "deleted"}, NEW v \in Nat,
           SetPerson(r, state, v)
    PROVE  /\ persons' \in [Resources -> GooglePersons]
           /\ persons'[r] = [state |-> state, value |-> v, at |-> clock + 1]
           /\ \A q \in Resources \ {r} : persons'[q] = persons[q]
           /\ feed' = feed \cup {r} /\ feed' \subseteq Resources
           /\ clock' = clock + 1 /\ clock' \in Nat
BY DEF SyncTypes, SetPerson, GooglePersons

\* A job goes on; jobs exclude each other.
LEMMA JobSet ==
    ASSUME OneSyncAtATime, SyncTypes, NEW s \in PushSlots, NEW job, Goto(s, job)
    PROVE  /\ DOMAIN push' = PushSlots /\ push'[s] = job
           /\ \A t \in PushSlots : t = s
BY DEF SyncTypes, Goto, OneSyncAtATime

-----------------------------------------------------------------------------
(* The user's edits.                                                       *)

LEMMA SaveSync ==
    ASSUME OneSyncAtATime, SyncInv, NEW v \in 1..MaxEdits, SaveContact(v)
    PROVE  SyncInv'
<1>1. v = edits + 1
  BY DEF SaveContact, EditValue, OneSyncAtATime
<1>2. /\ edits \in Nat /\ clock \in Nat /\ edits' = edits + 1 /\ clock' = clock + 1
      /\ upserts \in Nat /\ upserts' = upserts + 1
      /\ contact \in [id : Nat, value : Nat, at : Nat]
      /\ contact.value <= edits /\ contact.at <= clock /\ contact.id <= clock
      /\ Present => contact.id # 0
  BY DEF SaveContact, Edit, SyncInv, SyncTyped, SyncTypes, SyncBounds
<1>3. /\ contact'.id = (IF Present THEN contact.id ELSE clock + 1)
      /\ contact'.value = v /\ contact'.at = clock + 1 /\ contact' \in [id : Nat, value : Nat, at : Nat]
  BY <1>1, <1>2 DEF SaveContact
<1>4. /\ lastEdit' = [by |-> "crm", over |-> LinkedTo(contact.id), value |-> v]
      /\ UNCHANGED <<persons, feed, links, batch, removals, push>>
  BY DEF SaveContact, Edit, googleVars
<1>5. Present' /\ contact'.id # 0
  BY <1>2, <1>3 DEF Present, NoContact
<1>6. \A r \in Resources : Linked(r) => Present /\ links[r].of = contact.id
  BY DEF SyncInv, LinksStand
<1>7. \A r \in LinkedTo(contact.id) : r \in Resources /\ Linked(r)
  BY DEF LinkedTo
<1>8. SyncTypes'
  <2>1. \A s \in PushSlots : JobTyped(push[s])'
    <3> SUFFICES ASSUME NEW s \in PushSlots
                 PROVE  JobTyped(push[s])'
      OBVIOUS
    <3>1. JobTyped(push[s]) /\ push' = push
      BY <1>4 DEF SyncInv, SyncTyped, SyncTypes
    <3>2. 0..edits \subseteq 0..edits'
      BY <1>2
    <3> QED
      BY <3>1, <3>2 DEF JobTyped
  <2>2. lastEdit' \in [by : {"none", "crm", "google"}, over : SUBSET Resources, value : Nat]
    BY <1>1, <1>2, <1>4, <1>7
  <2> QED
    BY <1>2, <1>3, <1>4, <2>1, <2>2 DEF SyncInv, SyncTyped, SyncTypes
<1>9. SyncBounds'
  <2>1. \A r \in Resources : persons[r].value \in Nat /\ persons[r].at \in Nat /\ links[r].pulled \in Nat
    BY DEF SyncInv, SyncTyped, SyncTypes, GooglePersons, LinkRows
  <2>2. \A r \in DOMAIN batch : batch[r].value \in Nat /\ batch[r].at \in Nat
    BY DEF SyncInv, SyncTyped, SyncTypes, GooglePersons
  <2>3. \A n \in Nat : (n <= edits => n <= edits') /\ (n <= clock => n <= clock')
    BY <1>2
  <2>4. contact'.value <= edits' /\ contact'.at <= clock' /\ contact'.id <= clock'
    BY <1>1, <1>2, <1>3
  <2> QED
    BY <1>4, <1>5, <2>1, <2>2, <2>3, <2>4 DEF SyncInv, SyncTyped, SyncBounds
<1>10. LinksStand'
  BY <1>3, <1>4, <1>5, <1>6 DEF SyncInv, LinksStand, PushIdle, Linked
<1>11. NewerIsNewer'
  <2>1. \A n \in Nat : n <= clock => ~(n >= contact'.at)
    BY <1>2, <1>3
  <2>2. \A r \in Resources : persons[r].at \in Nat /\ persons[r].at <= clock
    BY DEF SyncInv, SyncTyped, SyncTypes, SyncBounds, GooglePersons
  <2>3. \A r \in DOMAIN batch : batch[r].at \in Nat /\ batch[r].at <= clock
    BY DEF SyncInv, SyncTyped, SyncTypes, SyncBounds, GooglePersons
  <2>4. \A s \in PushSlots : push[s].at \in {"record", "link"} => push[s].on \in Resources
    BY DEF SyncInv, SyncTyped, SyncTypes, JobTyped, About
  <2> QED
    BY <1>4, <2>1, <2>2, <2>3, <2>4 DEF NewerIsNewer, NotOlder
<1>12. EditIsPassedOn'
  <2>1. \A n \in Nat : n <= edits => n # edits'
    BY <1>2
  <2>2. \A r \in Resources : /\ persons[r].value \in Nat /\ persons[r].value <= edits
                             /\ links[r].pulled \in Nat /\ links[r].pulled <= edits
    BY DEF SyncInv, SyncTyped, SyncTypes, SyncBounds, GooglePersons, LinkRows
  <2>3. \A r \in DOMAIN batch : batch[r].value \in Nat /\ batch[r].value <= edits
    BY DEF SyncInv, SyncTyped, SyncTypes, SyncBounds, GooglePersons
  <2>4. upserts' > 0 /\ edits' # 0
    BY <1>2
  <2>5. contact'.value = v /\ lastEdit'.value = v /\ v = edits' /\ lastEdit'.over = LinkedTo(contact.id)
    BY <1>1, <1>2, <1>3, <1>4
  <2>6. \A r \in Resources : Linked(r)' <=> Linked(r)
    BY <1>4 DEF Linked
  <2> QED
    BY <1>4, <1>5, <1>7, <2>1, <2>2, <2>3, <2>4, <2>5, <2>6 DEF EditIsPassedOn
<1> QED
  BY <1>8, <1>9, <1>10, <1>11, <1>12 DEF SyncInv, SyncTyped

\* A person changes at Google.
LEMMA GoogleChanges ==
    ASSUME SyncInv, NEW r \in Resources, NEW state \in {"live", "deleted"}, NEW v \in Nat,
           SetPerson(r, state, v), persons[r].state # "deleted",
           v <= edits + 1, state = "live" => v = edits + 1,
           edits' = edits + 1, lastEdit'.by # "crm",
           lastEdit' \in [by : {"none", "crm", "google"}, over : SUBSET Resources, value : Nat],
           UNCHANGED <<contact, links, batch, upserts, removals, push>>
    PROVE  SyncInv'
<1>1. SyncTypes /\ SyncBounds /\ LinksStand /\ NewerIsNewer
  BY DEF SyncInv, SyncTyped
<1>2. /\ edits \in Nat /\ clock \in Nat /\ edits' \in Nat
      /\ contact.value \in Nat /\ contact.at \in Nat /\ contact.id \in Nat
      /\ contact.value <= edits /\ contact.at <= clock /\ contact.id <= clock
  BY <1>1 DEF SyncTypes, SyncBounds
<1>3. /\ persons' \in [Resources -> GooglePersons]
      /\ persons'[r] = [state |-> state, value |-> v, at |-> clock + 1]
      /\ \A q \in Resources \ {r} : persons'[q] = persons[q]
      /\ feed' = feed \cup {r} /\ feed' \subseteq Resources
      /\ clock' = clock + 1 /\ clock' \in Nat
  BY <1>1, PersonSet
<1>4. SyncTypes'
  <2>1. \A s \in PushSlots : JobTyped(push[s])'
    <3> SUFFICES ASSUME NEW s \in PushSlots
                 PROVE  JobTyped(push[s])'
      OBVIOUS
    <3>1. JobTyped(push[s]) /\ push' = push
      BY <1>1 DEF SyncTypes
    <3>2. 0..edits \subseteq 0..edits'
      BY <1>2
    <3> QED
      BY <3>1, <3>2 DEF JobTyped
  <2> QED
    BY <1>1, <1>2, <1>3, <2>1 DEF SyncTypes
<1>5. SyncBounds'
  <2>1. \A q \in Resources : persons[q].value \in Nat /\ persons[q].at \in Nat /\ links[q].pulled \in Nat
    BY <1>1 DEF SyncTypes, GooglePersons, LinkRows
  <2>2. \A q \in DOMAIN batch : batch[q].value \in Nat /\ batch[q].at \in Nat
    BY <1>1 DEF SyncTypes, GooglePersons
  <2>3. \A n \in Nat : (n <= edits => n <= edits') /\ (n <= clock => n <= clock')
    BY <1>2, <1>3
  <2>4. persons'[r].value <= edits' /\ persons'[r].at <= clock' /\ persons'[r].state # "absent"
    BY <1>2, <1>3
  <2>5. Present' <=> Present
    BY DEF Present
  <2> QED
    BY <1>1, <1>2, <1>3, <2>1, <2>2, <2>3, <2>4, <2>5 DEF SyncBounds
<1>6. LinksStand'
  <2>1. persons'[r].state # "absent" /\ r \in feed'
    BY <1>3
  <2>2. \A s \in PushSlots : push[s].at = "unlink" => push[s].on \in Resources \ {r}
    BY <1>1 DEF SyncTypes, JobTyped, About, LinksStand
  <2> QED
    BY <1>1, <1>3, <2>1, <2>2 DEF LinksStand, PushIdle, Linked, Present, SyncTypes
<1>7. NewerIsNewer'
  <2>1. persons'[r].state = "live" => persons'[r].value >= contact.value
    BY <1>2, <1>3
  <2>2. \A s \in PushSlots : push[s].at \in {"record", "link"} => push[s].on \in Resources
    BY <1>1 DEF SyncTypes, JobTyped, About
  <2> QED
    BY <1>1, <1>3, <2>1, <2>2 DEF NewerIsNewer, NotOlder, Linked
<1>8. EditIsPassedOn'
  BY DEF EditIsPassedOn
<1> QED
  BY <1>4, <1>5, <1>6, <1>7, <1>8 DEF SyncInv, SyncTyped

LEMMA GoogleEditSync ==
    ASSUME OneSyncAtATime, SyncInv, NEW r \in Resources, NEW v \in 1..MaxEdits, GoogleEdit(r, v)
    PROVE  SyncInv'
<1>1. v = edits + 1 /\ edits \in Nat
  BY DEF GoogleEdit, EditValue, OneSyncAtATime, SyncInv, SyncTyped, SyncTypes
<1>2. /\ SetPerson(r, "live", v) /\ persons[r].state = "live"
      /\ edits' = edits + 1 /\ lastEdit' = [by |-> "google", over |-> {r} \cap LinkedTo(contact.id), value |-> v]
      /\ UNCHANGED <<contact, links, batch, upserts, removals, push>>
  BY DEF GoogleEdit, Edit, pushVars
<1>3. lastEdit' \in [by : {"none", "crm", "google"}, over : SUBSET Resources, value : Nat]
  BY <1>1, <1>2 DEF LinkedTo
<1> QED
  BY <1>1, <1>2, <1>3, GoogleChanges

LEMMA GoogleAddSync ==
    ASSUME SyncInv, NEW r \in Resources, GoogleAdd(r)
    PROVE  SyncInv'
<1>1. edits \in Nat /\ edits + 1 \in Nat
  BY DEF SyncInv, SyncTyped, SyncTypes
<1>2. /\ SetPerson(r, "live", edits + 1) /\ persons[r].state = "absent"
      /\ edits' = edits + 1 /\ lastEdit' = [by |-> "none", over |-> {}, value |-> 0]
      /\ UNCHANGED <<contact, links, batch, upserts, removals, push>>
  BY DEF GoogleAdd, Edit, pushVars, NoPerson
<1>3. lastEdit' \in [by : {"none", "crm", "google"}, over : SUBSET Resources, value : Nat]
  BY <1>2
<1> QED
  BY <1>1, <1>2, <1>3, GoogleChanges

LEMMA GoogleDeleteSync ==
    ASSUME SyncInv, NEW r \in Resources, GoogleDelete(r)
    PROVE  SyncInv'
<1>1. edits \in Nat /\ 0 <= edits + 1
  BY DEF SyncInv, SyncTyped, SyncTypes
<1>2. /\ SetPerson(r, "deleted", 0) /\ persons[r].state = "live"
      /\ edits' = edits + 1 /\ lastEdit' = [by |-> "none", over |-> {}, value |-> 0]
      /\ UNCHANGED <<contact, links, batch, upserts, removals, push>>
  BY DEF GoogleDelete, Edit, pushVars
<1>3. lastEdit' \in [by : {"none", "crm", "google"}, over : SUBSET Resources, value : Nat]
  BY <1>2
<1> QED
  BY <1>1, <1>2, <1>3, GoogleChanges

LEMMA DeleteSync ==
    ASSUME SyncInv, DeleteContact
    PROVE  SyncInv'
<1>1. SyncTypes /\ SyncBounds /\ LinksStand /\ NewerIsNewer
  BY DEF SyncInv, SyncTyped
<1>2. /\ Present /\ edits' = edits + 1 /\ lastEdit' = NoEdit
      /\ removals' = removals \cup LinkedTo(contact.id)
      /\ links' = [r \in Resources |-> IF links[r].of = contact.id THEN NoLink ELSE links[r]]
      /\ contact' = NoContact /\ upserts' = 0
      /\ UNCHANGED <<persons, feed, batch, push, clock>>
  BY DEF DeleteContact, Edit, NoEdit, googleVars
<1>3. \A r \in Resources : links'[r] = NoLink
  BY <1>1, <1>2 DEF LinksStand, Linked
<1>4. LinkedTo(contact.id) \subseteq {r \in Resources : Linked(r)}
  BY DEF LinkedTo
<1>5. edits \in Nat /\ clock \in Nat /\ edits' \in Nat
  BY <1>1, <1>2 DEF SyncTypes
<1>6. SyncTypes'
  <2>1. \A s \in PushSlots : JobTyped(push[s])'
    <3> SUFFICES ASSUME NEW s \in PushSlots
                 PROVE  JobTyped(push[s])'
      OBVIOUS
    <3>1. JobTyped(push[s]) /\ push' = push
      BY <1>1, <1>2 DEF SyncTypes
    <3>2. 0..edits \subseteq 0..edits'
      BY <1>2, <1>5
    <3> QED
      BY <3>1, <3>2 DEF JobTyped
  <2>2. links' \in [Resources -> LinkRows] /\ contact' \in [id : Nat, value : Nat, at : Nat]
    BY <1>2, <1>3 DEF NoLink, LinkRows, NoContact
  <2>3. lastEdit' \in [by : {"none", "crm", "google"}, over : SUBSET Resources, value : Nat]
    BY <1>2 DEF NoEdit
  <2> QED
    BY <1>1, <1>2, <1>4, <1>5, <2>1, <2>2, <2>3 DEF SyncTypes
<1>7. SyncBounds'
  <2>1. \A q \in Resources : persons[q].value \in Nat /\ links'[q].pulled = 0
    BY <1>1, <1>3 DEF SyncTypes, GooglePersons, NoLink
  <2>2. \A q \in DOMAIN batch : batch[q].value \in Nat
    BY <1>1 DEF SyncTypes, GooglePersons
  <2>3. \A n \in Nat : n <= edits => n <= edits'
    BY <1>2, <1>5
  <2>4. ~Present' /\ contact'.value = 0 /\ contact'.at = 0 /\ contact'.id = 0
    BY <1>2 DEF Present, NoContact
  <2> QED
    BY <1>1, <1>2, <1>5, <2>1, <2>2, <2>3, <2>4 DEF SyncBounds
<1>8. LinksStand'
  BY <1>1, <1>2, <1>3, <1>4 DEF LinksStand, PushIdle, Linked
<1>9. NewerIsNewer'
  <2>1. contact'.value = 0
    BY <1>2 DEF NoContact
  <2>2. \A r \in Resources : persons[r].value >= 0
    BY <1>1 DEF SyncTypes, GooglePersons
  <2>3. \A s \in PushSlots : push[s].at \in {"record", "link"} => push[s].on \in Resources
    BY <1>1 DEF SyncTypes, JobTyped, About
  <2>4. \A r \in Resources : ~Linked(r)'
    BY <1>3 DEF Linked
  <2>5. DOMAIN batch \subseteq Resources
    BY <1>1 DEF SyncTypes
  <2> QED
    BY <1>2, <2>1, <2>2, <2>3, <2>4, <2>5 DEF NewerIsNewer, NotOlder
<1>10. EditIsPassedOn'
  BY <1>2 DEF EditIsPassedOn, NoEdit
<1> QED
  BY <1>6, <1>7, <1>8, <1>9, <1>10 DEF SyncInv, SyncTyped

-----------------------------------------------------------------------------
(* The pull.                                                               *)

LEMMA ListSync ==
    ASSUME OneSyncAtATime, SyncInv, ListChanges
    PROVE  SyncInv'
<1>1. SyncTypes /\ SyncBounds /\ LinksStand /\ NewerIsNewer /\ EditIsPassedOn
  BY DEF SyncInv, SyncTyped
<1>2. /\ DOMAIN batch' = feed /\ \A r \in feed : batch'[r] = persons[r]
      /\ feed' = {} /\ DOMAIN batch = {}
      /\ \A s \in PushSlots : push[s] = Resting
      /\ UNCHANGED <<contact, persons, links, upserts, removals, push, clock, edits, lastEdit>>
  BY DEF ListChanges, OneSyncAtATime, PullIdle, PushIdle, pushVars, userVars
<1>3. feed \subseteq Resources /\ persons \in [Resources -> GooglePersons]
  BY <1>1 DEF SyncTypes
<1>4. SyncTypes'
  <2>1. \A s \in PushSlots : JobTyped(push[s])'
    BY <1>1, <1>2 DEF SyncTypes, JobTyped
  <2> QED
    BY <1>1, <1>2, <1>3, <2>1 DEF SyncTypes
<1>5. SyncBounds'
  BY <1>1, <1>2, <1>3 DEF SyncBounds, Present
<1>6. LinksStand'
  <2>1. \A r \in Resources : persons[r].state \in {"absent", "live", "deleted"}
    BY <1>3 DEF GooglePersons
  <2> QED
    BY <1>1, <1>2, <1>3, <2>1 DEF LinksStand, PushIdle, Linked, Present, Resting
<1>7. NewerIsNewer'
  BY <1>1, <1>2, <1>3 DEF NewerIsNewer, NotOlder, Linked, Resting
<1>8. EditIsPassedOn'
  <2>1. \A s \in PushSlots : push[s].at \notin Valued
    BY <1>2 DEF Resting, Valued
  <2>2. \A s \in PushSlots, r \in Resources : ~WillWrite(push[s], r)
    BY <2>1 DEF WillWrite
  <2>3. \A r \in Resources : (Linked(r)' <=> Linked(r)) /\ (ShowsEdit(r)' <=> ShowsEdit(r))
    BY <1>2 DEF Linked, ShowsEdit
  <2>4. ASSUME lastEdit.by = "crm"
        PROVE  /\ Present' /\ contact'.value = lastEdit'.value /\ contact'.value = edits' /\ edits' # 0
               /\ \A r \in lastEdit'.over : ~Linked(r)' => persons'[r].state = "deleted"
               /\ \A s \in PushSlots : push'[s].at \notin Valued
               /\ \A r \in Resources : Linked(r)' /\ links'[r].pulled = edits' => ShowsEdit(r)'
               /\ \A r \in DOMAIN batch' : batch'[r].value = edits' => ShowsEdit(r)'
               /\ \A r \in lastEdit'.over : Linked(r)' => ShowsEdit(r)' \/ upserts' > 0
    <3>1. lastEdit.over \subseteq Resources
      BY <1>1 DEF SyncTypes
    <3> QED
      BY <1>1, <1>2, <1>3, <2>1, <2>2, <2>3, <2>4, <3>1 DEF EditIsPassedOn, Present, Linked, ShowsEdit
  <2> QED
    BY <1>2, <2>4 DEF EditIsPassedOn
<1> QED
  BY <1>4, <1>5, <1>6, <1>7, <1>8 DEF SyncInv, SyncTyped

\* While a listing is applied no push is under way, and the invariant is about
\* what the pull knows, the contact and the links.
PullKeeps ==
    lastEdit.by = "crm" =>
      /\ Present /\ contact.value = lastEdit.value /\ contact.value = edits /\ edits # 0
      /\ \A r \in lastEdit.over : ~Linked(r) => persons[r].state = "deleted"
      /\ \A r \in Resources : Linked(r) /\ links[r].pulled = edits => ShowsEdit(r)
      /\ \A r \in DOMAIN batch : batch[r].value = edits => ShowsEdit(r)
      /\ \A r \in lastEdit.over : Linked(r) => ShowsEdit(r) \/ upserts > 0

LEMMA PullAlone ==
    ASSUME SyncInv, \A s \in PushSlots : push[s] = Resting
    PROVE  PullKeeps
<1>1. \A s \in PushSlots, r \in Resources : ~WillWrite(push[s], r)
  BY DEF WillWrite, Valued, Resting
<1>2. lastEdit.over \subseteq Resources
  BY DEF SyncInv, SyncTyped, SyncTypes
<1> QED
  BY <1>1, <1>2 DEF PullKeeps, SyncInv, EditIsPassedOn

\* A person is done with.
LEMMA Applied ==
    ASSUME SyncInv, NEW r \in DOMAIN batch, ApplyDone(r)
    PROVE  /\ DOMAIN batch' = DOMAIN batch \ {r}
           /\ \A q \in DOMAIN batch \ {r} : batch'[q] = batch[q]
           /\ \A s \in PushSlots : push[s] = Resting
           /\ r \in Resources /\ batch[r] \in GooglePersons
           /\ batch[r].value <= edits /\ batch[r].at <= clock
           /\ PullKeeps
<1>1. \A s \in PushSlots : push[s] = Resting
  BY DEF SyncInv, LinksStand, PushIdle
<1> QED
  BY <1>1, PullAlone DEF ApplyDone, SyncInv, SyncTyped, SyncTypes, SyncBounds

\* What a linked person does to the contact: nothing, or it is newer.
LEMMA LinkedEffect ==
    ASSUME SyncInv, NEW r \in Resources, ApplyLinked(r)
    PROVE  /\ r \in DOMAIN batch /\ batch[r].state = "live" /\ Linked(r)
           /\ links' \in [Resources -> LinkRows]
           /\ links'[r] \in {links[r], [of |-> links[r].of, pushed |-> links[r].pushed,
                                        pulled |-> batch[r].value]}
           /\ \A q \in Resources \ {r} : links'[q] = links[q]
           /\ \/ contact' = contact /\ clock' = clock
              \/ /\ contact' = [id |-> contact.id, value |-> batch[r].value, at |-> clock + 1]
                 /\ clock' = clock + 1 /\ batch[r].value >= contact.value
<1>1. r \in DOMAIN batch /\ batch[r].state = "live" /\ Linked(r)
  BY DEF ApplyLinked
<1>2. /\ links \in [Resources -> LinkRows] /\ contact \in [id : Nat, value : Nat, at : Nat]
      /\ batch[r] \in GooglePersons
  BY <1>1 DEF SyncInv, SyncTyped, SyncTypes
<1>3. CASE links[r].pushed = batch[r].value
  <2>1. links' = [links EXCEPT ![r].pulled = batch[r].value] /\ contact' = contact /\ clock' = clock
    BY <1>3 DEF ApplyLinked
  <2> QED
    BY <1>1, <1>2, <2>1 DEF LinkRows, GooglePersons
<1>4. CASE links[r].pushed # batch[r].value /\ PfIsNewer(batch[r])
  <2>1. links' = links /\ contact' = contact /\ clock' = clock
    BY <1>4 DEF ApplyLinked
  <2> QED
    BY <1>1, <1>2, <2>1
<1>5. CASE links[r].pushed # batch[r].value /\ ~PfIsNewer(batch[r])
  <2>1. /\ links' = [links EXCEPT ![r].pulled = batch[r].value]
        /\ contact' = [contact EXCEPT !.value = batch[r].value, !.at = clock + 1]
        /\ clock' = clock + 1
    BY <1>5 DEF ApplyLinked
  <2>2. batch[r].at >= contact.at
    BY <1>2, <1>5 DEF PfIsNewer, GooglePersons
  <2>3. batch[r].value >= contact.value
    BY <1>1, <1>5, <2>2 DEF SyncInv, NewerIsNewer, NotOlder
  <2>4. contact' = [id |-> contact.id, value |-> batch[r].value, at |-> clock + 1]
    BY <1>2, <2>1
  <2>5. /\ links' \in [Resources -> LinkRows]
        /\ links'[r] = [of |-> links[r].of, pushed |-> links[r].pushed, pulled |-> batch[r].value]
        /\ \A q \in Resources \ {r} : links'[q] = links[q]
    BY <1>2, <2>1 DEF LinkRows, GooglePersons
  <2> QED
    BY <1>1, <2>1, <2>3, <2>4, <2>5
<1> QED
  BY <1>3, <1>4, <1>5

\* What the pull leaves as it is keeps its types.
LEMMA RestTyped ==
    ASSUME SyncTypes, \A s \in PushSlots : push[s] = Resting,
           UNCHANGED <<persons, feed, upserts, removals, push, edits, lastEdit>>,
           DOMAIN batch' \subseteq DOMAIN batch, \A q \in DOMAIN batch' : batch'[q] = batch[q],
           links' \in [Resources -> LinkRows], contact' \in [id : Nat, value : Nat, at : Nat],
           clock' \in Nat
    PROVE  SyncTypes'
<1>1. \A s \in PushSlots : JobTyped(push[s])'
  BY DEF SyncTypes, JobTyped
<1> QED
  BY <1>1 DEF SyncTypes

LEMMA PullGoesOn ==
    ASSUME PullKeeps', \A s \in PushSlots : push[s] = Resting, push' = push
    PROVE  EditIsPassedOn'
BY DEF EditIsPassedOn, PullKeeps, Resting, Valued

LEMMA ApplyLinkedSync ==
    ASSUME SyncInv, NEW r \in Resources, ApplyLinked(r)
    PROVE  SyncInv'
<1>1. SyncTypes /\ SyncBounds /\ LinksStand /\ NewerIsNewer
  BY DEF SyncInv, SyncTyped
<1>2. /\ r \in DOMAIN batch /\ batch[r].state = "live" /\ Linked(r)
      /\ links' \in [Resources -> LinkRows]
      /\ links'[r] \in {links[r], [of |-> links[r].of, pushed |-> links[r].pushed,
                                   pulled |-> batch[r].value]}
      /\ \A q \in Resources \ {r} : links'[q] = links[q]
      /\ \/ contact' = contact /\ clock' = clock
         \/ /\ contact' = [id |-> contact.id, value |-> batch[r].value, at |-> clock + 1]
            /\ clock' = clock + 1 /\ batch[r].value >= contact.value
  BY LinkedEffect
<1>3. /\ ApplyDone(r)
      /\ UNCHANGED <<persons, feed, upserts, removals, push, edits, lastEdit>>
  BY DEF ApplyLinked, googleVars, pushVars, userVars
<1>4. /\ DOMAIN batch' = DOMAIN batch \ {r}
      /\ \A q \in DOMAIN batch \ {r} : batch'[q] = batch[q]
      /\ \A s \in PushSlots : push[s] = Resting
      /\ batch[r] \in GooglePersons
      /\ batch[r].value <= edits /\ batch[r].at <= clock
      /\ PullKeeps
  BY <1>2, <1>3, Applied
<1>5. /\ contact \in [id : Nat, value : Nat, at : Nat] /\ clock \in Nat /\ edits \in Nat
      /\ contact.value <= edits /\ contact.at <= clock /\ contact.id <= clock
      /\ batch[r].value \in Nat
  BY <1>1, <1>4 DEF SyncTypes, SyncBounds, GooglePersons
<1>6. Present /\ contact.id # 0 /\ links[r].of = contact.id
  BY <1>1, <1>2 DEF LinksStand, SyncBounds
<1>7. /\ contact' \in [id : Nat, value : Nat, at : Nat] /\ clock' \in Nat
      /\ contact'.id = contact.id /\ contact'.value \in {contact.value, batch[r].value}
      /\ contact'.value >= contact.value /\ contact'.value <= edits
      /\ contact'.at <= clock' /\ contact'.id <= clock' /\ clock' >= clock
      /\ contact' = contact \/ contact'.at = clock + 1
  BY <1>2, <1>4, <1>5
<1>8. Present'
  BY <1>6, <1>7 DEF Present, NoContact
<1>9. /\ \A q \in Resources : links'[q].of = links[q].of /\ links'[q].pushed = links[q].pushed
      /\ links'[r].pulled \in {links[r].pulled, batch[r].value}
      /\ \A q \in Resources : Linked(q)' <=> Linked(q)
  <2>1. \A q \in Resources : links'[q].of = links[q].of /\ links'[q].pushed = links[q].pushed
    BY <1>2
  <2>2. links'[r].pulled \in {links[r].pulled, batch[r].value}
    BY <1>2
  <2>3. links'[r] # NoLink
    BY <1>6, <2>1 DEF NoLink
  <2> QED
    BY <1>2, <2>1, <2>2, <2>3 DEF Linked
<1>10. SyncTypes'
  BY <1>1, <1>2, <1>3, <1>4, <1>7, RestTyped
<1>11. SyncBounds'
  <2>1. \A n \in Nat : n <= clock => n <= clock'
    BY <1>5, <1>7
  <2>2. \A q \in Resources : links'[q].pulled <= edits
    BY <1>1, <1>2, <1>4, <1>9 DEF SyncBounds
  <2>3. /\ \A q \in Resources : persons[q].at \in Nat
        /\ \A q \in DOMAIN batch : batch[q].at \in Nat
    BY <1>1 DEF SyncTypes, GooglePersons
  <2> QED
    BY <1>1, <1>3, <1>4, <1>6, <1>7, <1>8, <2>1, <2>2, <2>3 DEF SyncBounds
<1>12. LinksStand'
  <2>1. \A q \in Resources : Linked(q)' => Present' /\ links'[q].of = contact'.id
    BY <1>1, <1>7, <1>8, <1>9 DEF LinksStand
  <2>2. persons[r].state = "deleted" => r \in feed
    BY <1>1, <1>2 DEF LinksStand
  <2> QED
    BY <1>1, <1>2, <1>3, <1>4, <1>9, <2>1, <2>2 DEF LinksStand, PushIdle, Resting
<1>13. NewerIsNewer'
  <2>1. CASE contact' = contact
    BY <1>1, <1>3, <1>4, <1>9, <2>1 DEF NewerIsNewer, NotOlder, Resting, SyncTypes
  <2>2. CASE contact'.at = clock + 1
    <3>1. \A n \in Nat : n <= clock => ~(n >= contact'.at)
      BY <1>5, <2>2
    <3>2. \A q \in Resources : persons[q].at \in Nat /\ persons[q].at <= clock
      BY <1>1 DEF SyncTypes, SyncBounds, GooglePersons
    <3>3. \A q \in DOMAIN batch : batch[q].at \in Nat /\ batch[q].at <= clock
      BY <1>1 DEF SyncTypes, SyncBounds, GooglePersons
    <3> QED
      BY <1>3, <1>4, <3>1, <3>2, <3>3 DEF NewerIsNewer, NotOlder, Resting
  <2> QED
    BY <1>7, <2>1, <2>2
<1>14. EditIsPassedOn'
  <2>1. lastEdit.by = "crm" => contact'.value = edits
    BY <1>4, <1>5, <1>7 DEF PullKeeps
  <2>2. lastEdit.over \subseteq Resources
    BY <1>1 DEF SyncTypes
  <2>3. \A q \in Resources : ShowsEdit(q)' <=> ShowsEdit(q)
    BY <1>3 DEF ShowsEdit
  <2>4. lastEdit.by = "crm" => \A q \in Resources :
          Linked(q)' /\ links'[q].pulled = edits => ShowsEdit(q)'
    BY <1>2, <1>4, <1>9, <2>3 DEF PullKeeps
  <2>5. lastEdit.by = "crm" =>
          /\ \A q \in lastEdit.over : ~Linked(q)' => persons[q].state = "deleted"
          /\ \A q \in lastEdit.over : Linked(q)' => ShowsEdit(q)' \/ upserts > 0
    BY <1>4, <1>9, <2>2, <2>3 DEF PullKeeps
  <2>6. lastEdit.by = "crm" => \A q \in DOMAIN batch' : batch'[q].value = edits => ShowsEdit(q)'
    BY <1>1, <1>4, <2>3 DEF PullKeeps, SyncTypes
  <2>7. PullKeeps'
    BY <1>3, <1>4, <1>8, <2>1, <2>4, <2>5, <2>6 DEF PullKeeps
  <2> QED
    BY <1>3, <1>4, <2>7, PullGoesOn
<1> QED
  BY <1>10, <1>11, <1>12, <1>13, <1>14 DEF SyncInv, SyncTyped

LEMMA ApplyDeletedSync ==
    ASSUME SyncInv, NEW r \in Resources, ApplyDeleted(r)
    PROVE  SyncInv'
<1>1. SyncTypes /\ SyncBounds /\ LinksStand /\ NewerIsNewer
  BY DEF SyncInv, SyncTyped
<1>2. /\ r \in DOMAIN batch /\ batch[r].state = "deleted" /\ ApplyDone(r)
      /\ links' = [links EXCEPT ![r] = NoLink]
      /\ UNCHANGED <<contact, persons, feed, upserts, removals, push, clock, edits, lastEdit>>
  BY DEF ApplyDeleted, googleVars, pushVars, userVars
<1>3. /\ DOMAIN batch' = DOMAIN batch \ {r}
      /\ \A q \in DOMAIN batch \ {r} : batch'[q] = batch[q]
      /\ \A s \in PushSlots : push[s] = Resting
      /\ PullKeeps
  BY <1>2, Applied
<1>4. /\ links' \in [Resources -> LinkRows] /\ links'[r] = NoLink
      /\ \A q \in Resources \ {r} : links'[q] = links[q]
  BY <1>1, <1>2 DEF SyncTypes, NoLink, LinkRows
<1>5. /\ ~Linked(r)' /\ \A q \in Resources \ {r} : Linked(q)' <=> Linked(q)
      /\ Present' <=> Present
  BY <1>2, <1>4 DEF Linked, Present
<1>6. SyncTypes'
  BY <1>1, <1>2, <1>3, <1>4, RestTyped DEF SyncTypes
<1>7. SyncBounds'
  <2>1. links'[r].pulled <= edits
    BY <1>1, <1>4 DEF NoLink, SyncTypes
  <2> QED
    BY <1>1, <1>2, <1>3, <1>4, <1>5, <2>1 DEF SyncBounds
<1>8. LinksStand'
  <2>1. persons[r].state = "deleted"
    BY <1>1, <1>2 DEF LinksStand
  <2> QED
    BY <1>1, <1>2, <1>3, <1>4, <1>5, <2>1 DEF LinksStand, PushIdle, Resting
<1>9. NewerIsNewer'
  <2>1. \A q \in Resources : Linked(q)' => Linked(q) /\ links'[q] = links[q]
    BY <1>4, <1>5
  <2> QED
    BY <1>1, <1>2, <1>3, <2>1 DEF NewerIsNewer, NotOlder, Resting, SyncTypes
<1>10. EditIsPassedOn'
  <2>1. persons[r].state = "deleted"
    BY <1>1, <1>2 DEF LinksStand
  <2>2. lastEdit.over \subseteq Resources /\ DOMAIN batch \subseteq Resources
    BY <1>1 DEF SyncTypes
  <2>3. \A q \in Resources : ShowsEdit(q)' <=> ShowsEdit(q)
    BY <1>2 DEF ShowsEdit
  <2>4. lastEdit.by = "crm" => \A q \in Resources :
          Linked(q)' /\ links'[q].pulled = edits => ShowsEdit(q)'
    BY <1>3, <1>4, <1>5, <2>3 DEF PullKeeps
  <2>5. lastEdit.by = "crm" =>
          /\ \A q \in lastEdit.over : ~Linked(q)' => persons[q].state = "deleted"
          /\ \A q \in lastEdit.over : Linked(q)' => ShowsEdit(q)' \/ upserts > 0
    BY <1>3, <1>5, <2>1, <2>2, <2>3 DEF PullKeeps
  <2>6. lastEdit.by = "crm" => \A q \in DOMAIN batch' : batch'[q].value = edits => ShowsEdit(q)'
    BY <1>3, <2>2, <2>3 DEF PullKeeps
  <2>7. PullKeeps'
    BY <1>2, <1>3, <1>5, <2>4, <2>5, <2>6 DEF PullKeeps
  <2> QED
    BY <1>2, <1>3, <2>7, PullGoesOn
<1> QED
  BY <1>6, <1>7, <1>8, <1>9, <1>10 DEF SyncInv, SyncTyped

LEMMA ApplyUnlinkedSync ==
    ASSUME SyncInv, NEW r \in Resources, ApplyUnlinked(r)
    PROVE  SyncInv'
<1>1. SyncTypes /\ SyncBounds /\ LinksStand /\ NewerIsNewer
  BY DEF SyncInv, SyncTyped
<1>2. /\ r \in DOMAIN batch /\ batch[r].state = "live" /\ ~Linked(r) /\ ApplyDone(r)
      /\ contact' = IF Present THEN [contact EXCEPT !.at = clock + 1]
                    ELSE [id |-> clock + 1, value |-> batch[r].value, at |-> clock + 1]
      /\ links' = [links EXCEPT ![r] = [of |-> contact'.id, pushed |-> 0, pulled |-> batch[r].value]]
      /\ clock' = clock + 1
      /\ UNCHANGED <<persons, feed, upserts, removals, push, edits, lastEdit>>
  BY DEF ApplyUnlinked, googleVars, pushVars, userVars
<1>3. /\ DOMAIN batch' = DOMAIN batch \ {r}
      /\ \A q \in DOMAIN batch \ {r} : batch'[q] = batch[q]
      /\ \A s \in PushSlots : push[s] = Resting
      /\ batch[r] \in GooglePersons
      /\ batch[r].value <= edits /\ batch[r].at <= clock
      /\ PullKeeps
  BY <1>2, Applied
<1>4. /\ contact \in [id : Nat, value : Nat, at : Nat] /\ clock \in Nat /\ edits \in Nat
      /\ contact.value <= edits /\ contact.at <= clock /\ contact.id <= clock
      /\ batch[r].value \in Nat
      /\ Present => contact.id # 0
  BY <1>1, <1>3 DEF SyncTypes, SyncBounds, GooglePersons
<1>5. /\ contact' \in [id : Nat, value : Nat, at : Nat] /\ clock' \in Nat
      /\ contact'.id # 0 /\ contact'.value <= edits
      /\ contact'.at = clock + 1 /\ contact'.at <= clock' /\ contact'.id <= clock'
      /\ Present => contact'.id = contact.id /\ contact'.value = contact.value
  BY <1>2, <1>3, <1>4
<1>6. Present'
  BY <1>5 DEF Present, NoContact
<1>7. /\ links' \in [Resources -> LinkRows]
      /\ links'[r] = [of |-> contact'.id, pushed |-> 0, pulled |-> batch[r].value]
      /\ \A q \in Resources \ {r} : links'[q] = links[q]
  BY <1>1, <1>2, <1>4, <1>5 DEF SyncTypes, LinkRows
<1>8. Linked(r)' /\ \A q \in Resources \ {r} : Linked(q)' <=> Linked(q)
  BY <1>5, <1>7 DEF Linked, NoLink
<1>9. SyncTypes'
  BY <1>1, <1>2, <1>3, <1>5, <1>7, RestTyped
<1>10. SyncBounds'
  <2>1. \A n \in Nat : n <= clock => n <= clock'
    BY <1>2, <1>4
  <2>2. \A q \in Resources : links'[q].pulled <= edits
    BY <1>1, <1>3, <1>7 DEF SyncBounds
  <2>3. /\ \A q \in Resources : persons[q].at \in Nat
        /\ \A q \in DOMAIN batch : batch[q].at \in Nat
    BY <1>1 DEF SyncTypes, GooglePersons
  <2> QED
    BY <1>1, <1>2, <1>3, <1>5, <1>6, <2>1, <2>2, <2>3 DEF SyncBounds
<1>11. LinksStand'
  <2>1. \A q \in Resources : Linked(q)' => Present' /\ links'[q].of = contact'.id
    BY <1>1, <1>5, <1>6, <1>7, <1>8 DEF LinksStand
  <2>2. persons[r].state = "deleted" => r \in feed
    BY <1>1, <1>2 DEF LinksStand
  <2>3. persons[r].state # "absent"
    BY <1>1, <1>2 DEF LinksStand
  <2> QED
    BY <1>1, <1>2, <1>3, <1>8, <2>1, <2>2, <2>3 DEF LinksStand, PushIdle, Resting
<1>12. NewerIsNewer'
  <2>1. \A n \in Nat : n <= clock => ~(n >= contact'.at)
    BY <1>4, <1>5
  <2>2. \A q \in Resources : persons[q].at \in Nat /\ persons[q].at <= clock
    BY <1>1 DEF SyncTypes, SyncBounds, GooglePersons
  <2>3. \A q \in DOMAIN batch : batch[q].at \in Nat /\ batch[q].at <= clock
    BY <1>1 DEF SyncTypes, SyncBounds, GooglePersons
  <2> QED
    BY <1>2, <1>3, <2>1, <2>2, <2>3 DEF NewerIsNewer, NotOlder, Resting
<1>13. EditIsPassedOn'
  <2>1. lastEdit.over \subseteq Resources /\ DOMAIN batch \subseteq Resources
    BY <1>1 DEF SyncTypes
  <2>2. \A q \in Resources : ShowsEdit(q)' <=> ShowsEdit(q)
    BY <1>2 DEF ShowsEdit
  <2>3. lastEdit.by = "crm" => \A q \in Resources :
          Linked(q)' /\ links'[q].pulled = edits => ShowsEdit(q)'
    BY <1>2, <1>3, <1>7, <1>8, <2>2 DEF PullKeeps
  <2>4. lastEdit.by = "crm" /\ r \in lastEdit.over => ShowsEdit(r)
    BY <1>2, <1>3 DEF PullKeeps, ShowsEdit
  <2>5. lastEdit.by = "crm" =>
          /\ \A q \in lastEdit.over : ~Linked(q)' => persons[q].state = "deleted"
          /\ \A q \in lastEdit.over : Linked(q)' => ShowsEdit(q)' \/ upserts > 0
    BY <1>3, <1>8, <2>1, <2>2, <2>4 DEF PullKeeps
  <2>6. lastEdit.by = "crm" => \A q \in DOMAIN batch' : batch'[q].value = edits => ShowsEdit(q)'
    BY <1>3, <2>1, <2>2 DEF PullKeeps
  <2>7. PullKeeps'
    BY <1>2, <1>3, <1>5, <1>6, <2>3, <2>5, <2>6 DEF PullKeeps
  <2> QED
    BY <1>2, <1>3, <2>7, PullGoesOn
<1> QED
  BY <1>9, <1>10, <1>11, <1>12, <1>13 DEF SyncInv, SyncTyped

-----------------------------------------------------------------------------
(* Pushes.                                                                 *)

\* A push that is under way has no listing beside it.
LEMMA PushAlone ==
    ASSUME OneSyncAtATime, SyncInv, NEW s \in PushSlots,
           push[s] # Resting \/ DOMAIN batch = {}
    PROVE  /\ DOMAIN batch = {}
           /\ SyncTypes /\ SyncBounds /\ LinksStand /\ NewerIsNewer /\ EditIsPassedOn
           /\ JobTyped(push[s])
           /\ \A t \in PushSlots : t = s
BY DEF OneSyncAtATime, SyncInv, SyncTyped, SyncTypes, LinksStand, PushIdle

\* The types and bounds of a step of a push.
LEMMA PushTyped ==
    ASSUME SyncTypes, SyncBounds, DOMAIN batch = {}, NEW s \in PushSlots,
           \A t \in PushSlots : t = s, DOMAIN push' = PushSlots, JobTyped(push'[s]),
           UNCHANGED <<contact, batch, edits, lastEdit>>,
           clock' \in Nat, clock <= clock',
           upserts' \in Nat, removals' \subseteq Resources, feed' \subseteq Resources,
           persons' \in [Resources -> GooglePersons], links' \in [Resources -> LinkRows],
           \A r \in Resources :
             /\ persons'[r].value <= edits /\ persons'[r].at <= clock'
             /\ persons'[r].state = "absent" => persons'[r] = NoPerson
             /\ links'[r].pulled <= edits
    PROVE  SyncTyped'
<1>1. \A t \in PushSlots : JobTyped(push[t])'
  BY DEF JobTyped
<1>2. SyncTypes'
  BY <1>1 DEF SyncTypes
<1>3. contact.at <= clock' /\ contact.id <= clock' /\ (Present' <=> Present)
  BY DEF SyncTypes, SyncBounds, Present
<1>4. SyncBounds'
  BY <1>3 DEF SyncBounds
<1> QED
  BY <1>2, <1>4 DEF SyncTyped

\* A push takes a step that changes nothing but the queue and its own state.
LEMMA PushMoves ==
    ASSUME OneSyncAtATime, SyncInv, NEW s \in PushSlots, DOMAIN batch = {},
           NEW job, Goto(s, job), JobTyped(job),
           push[s].at \in {"idle", "links", "get", "update", "record", "link"},
           push[s].at = "record" => ~Linked(push[s].on),
           job.at \in {"idle", "links", "get", "update", "create"}, upserts' \in Nat,
           UNCHANGED <<contact, persons, feed, links, batch, removals, clock, edits, lastEdit>>,
           job.at \in Valued => \/ push[s].at \in Valued /\ push[s].value = job.value
                                \/ job.value = contact.value,
           \A r \in Resources :
             lastEdit.by = "crm" /\ Linked(r) /\ (upserts > 0 \/ WillWrite(push[s], r)) =>
                ShowsEdit(r) \/ upserts' > 0 \/ WillWrite(job, r)
    PROVE  SyncInv'
<1>1. /\ SyncTypes /\ SyncBounds /\ LinksStand /\ NewerIsNewer /\ EditIsPassedOn
      /\ \A t \in PushSlots : t = s
  BY PushAlone
<1>2. DOMAIN push' = PushSlots /\ push'[s] = job
  BY <1>1, JobSet
<1>3. SyncTyped'
  <2>1. /\ clock \in Nat /\ clock <= clock
        /\ removals \subseteq Resources /\ feed \subseteq Resources
        /\ persons \in [Resources -> GooglePersons] /\ links \in [Resources -> LinkRows]
        /\ JobTyped(push'[s])
    BY <1>1, <1>2 DEF SyncTypes
  <2>2. \A r \in Resources :
           /\ persons[r].value <= edits /\ persons[r].at <= clock
           /\ persons[r].state = "absent" => persons[r] = NoPerson
           /\ links[r].pulled <= edits
    BY <1>1 DEF SyncBounds
  <2> QED
    BY <1>1, <1>2, <2>1, <2>2, PushTyped
<1>4. \A r \in Resources : (Linked(r)' <=> Linked(r)) /\ (ShowsEdit(r)' <=> ShowsEdit(r))
  BY DEF Linked, ShowsEdit
<1>5. (Present' <=> Present) /\ lastEdit.over \subseteq Resources
  BY <1>1 DEF Present, SyncTypes
<1>6. LinksStand'
  BY <1>1, <1>2, <1>4, <1>5 DEF LinksStand, PushIdle
<1>7. NewerIsNewer'
  BY <1>1, <1>2, <1>4 DEF NewerIsNewer, NotOlder
<1>8. EditIsPassedOn'
  <2>1. \A r \in Resources : WillWrite(push[s], r)' <=> WillWrite(job, r)
    BY <1>2 DEF WillWrite
  <2>2. \A r \in lastEdit.over : lastEdit.by = "crm" /\ Linked(r) =>
           ShowsEdit(r) \/ upserts' > 0 \/ WillWrite(job, r)
    BY <1>1, <1>5 DEF EditIsPassedOn
  <2>3. lastEdit.by = "crm" /\ job.at \in Valued /\ job.value # edits =>
           \A r \in Resources : persons[r].value # edits /\ links[r].pulled # edits
    BY <1>1 DEF EditIsPassedOn
  <2>4. lastEdit.by = "crm" => \A r \in Resources :
           Linked(r) /\ links[r].pulled = edits => ShowsEdit(r)
    BY <1>1 DEF EditIsPassedOn
  <2>5. lastEdit.by = "crm" =>
           /\ Present /\ contact.value = lastEdit.value /\ contact.value = edits /\ edits # 0
           /\ \A r \in lastEdit.over : ~Linked(r) => persons[r].state = "deleted"
    BY <1>1 DEF EditIsPassedOn
  <2> QED
    BY <1>1, <1>2, <1>4, <1>5, <2>1, <2>2, <2>3, <2>4, <2>5 DEF EditIsPassedOn
<1> QED
  BY <1>3, <1>6, <1>7, <1>8 DEF SyncInv

LEMMA TakeUpsertSync ==
    ASSUME OneSyncAtATime, SyncInv, NEW s \in PushSlots, TakeUpsert(s)
    PROVE  SyncInv'
<1> DEFINE job == IF Present THEN [at |-> "links", id |-> contact.id, value |-> contact.value]
                  ELSE Resting
<1>1. /\ push[s] = Resting /\ upserts > 0 /\ DOMAIN batch = {} /\ upserts' = upserts - 1
      /\ Goto(s, job)
      /\ UNCHANGED <<contact, persons, feed, links, batch, removals, clock, edits, lastEdit>>
  BY DEF TakeUpsert, OneSyncAtATime, PullIdle, EndPush, googleVars, userVars
<1>2. /\ upserts \in Nat /\ contact.id \in Nat /\ contact.value \in 0..edits
      /\ Present => contact.id # 0
  BY DEF SyncInv, SyncTyped, SyncTypes, SyncBounds
<1>3. JobTyped(job)
  BY <1>2 DEF JobTyped, Resting, Valued, Planned, About
<1>4. job.at \in {"idle", "links"} /\ (job.at \in Valued => job.value = contact.value)
  BY DEF Resting, Valued
<1>5. upserts' \in Nat
  BY <1>1, <1>2
<1>6. lastEdit.by = "crm" => \A r \in Resources : WillWrite(job, r)
  BY DEF SyncInv, EditIsPassedOn, WillWrite, Valued
<1>7. push[s].at = "idle"
  BY <1>1 DEF Resting
<1> HIDE DEF job
<1> QED
  BY <1>1, <1>3, <1>4, <1>5, <1>6, <1>7, PushMoves

LEMMA ReadLinksSync ==
    ASSUME OneSyncAtATime, SyncInv, NEW s \in PushSlots, ReadLinks(s)
    PROVE  SyncInv'
<1> DEFINE id == push[s].id
           value == push[s].value
<1>1. push[s].at = "links" /\ push[s] # Resting
  BY DEF ReadLinks, Resting
<1>2. /\ DOMAIN batch = {} /\ JobTyped(push[s]) /\ EditIsPassedOn /\ LinksStand /\ upserts \in Nat
  BY <1>1, PushAlone DEF SyncTypes
<1>3. id \in Nat /\ id # 0 /\ value \in 0..edits
  BY <1>1, <1>2 DEF JobTyped, Valued
<1>4. Targets(push[s]) \subseteq Resources
  BY DEF Targets, LinkedTo
<1>5. UNCHANGED <<contact, persons, feed, links, batch, upserts, removals, clock, edits, lastEdit>>
  BY DEF ReadLinks, googleVars, userVars
<1>6. \A r \in Resources : lastEdit.by = "crm" /\ Linked(r) /\ WillWrite(push[s], r) =>
         r \in LinkedTo(id) /\ value = edits
  BY <1>2 DEF WillWrite, LinkedTo, LinksStand, EditIsPassedOn
<1>7. CASE LinkedTo(id) = {}
  <2> DEFINE job == [at |-> "create", id |-> id, value |-> value, todo |-> {}]
  <2>1. Goto(s, job)
    BY <1>7 DEF ReadLinks
  <2>2. JobTyped(job) /\ job.at = "create" /\ job.value = value
    BY <1>3 DEF JobTyped, Valued, Planned, About
  <2>3. \A r \in Resources : lastEdit.by = "crm" /\ Linked(r) => ~WillWrite(push[s], r)
    BY <1>6, <1>7
  <2> HIDE DEF job
  <2> QED
    BY <1>1, <1>2, <1>5, <2>1, <2>2, <2>3, PushMoves DEF Valued
<1>8. CASE LinkedTo(id) # {} /\ Targets(push[s]) = {}
  <2>1. Goto(s, Resting)
    BY <1>8 DEF ReadLinks, EndPush
  <2>2. JobTyped(Resting) /\ Resting.at = "idle"
    BY DEF JobTyped, Resting, Valued, Planned, About
  <2>3. \A r \in Resources : lastEdit.by = "crm" /\ Linked(r) /\ WillWrite(push[s], r) => ShowsEdit(r)
    BY <1>2, <1>6, <1>8 DEF Targets, EditIsPassedOn
  <2> QED
    BY <1>1, <1>2, <1>5, <2>1, <2>2, <2>3, PushMoves DEF Valued
<1>9. CASE LinkedTo(id) # {} /\ Targets(push[s]) # {}
  <2> DEFINE job == [at |-> "get", id |-> id, value |-> value, todo |-> Targets(push[s]), tries |-> 2]
  <2>1. Goto(s, job)
    BY <1>9 DEF ReadLinks
  <2>2. JobTyped(job) /\ job.at = "get" /\ job.value = value /\ job.id = id
        /\ job.todo = Targets(push[s])
    BY <1>3, <1>4 DEF JobTyped, Valued, Planned, About
  <2> HIDE DEF job
  <2>3. \A r \in Resources : lastEdit.by = "crm" /\ Linked(r) /\ WillWrite(push[s], r) =>
           ShowsEdit(r) \/ WillWrite(job, r)
    <3> SUFFICES ASSUME NEW r \in Resources, lastEdit.by = "crm", Linked(r), WillWrite(push[s], r)
                 PROVE  ShowsEdit(r) \/ WillWrite(job, r)
      OBVIOUS
    <3>1. CASE links[r].pulled = value
      BY <1>2, <1>6, <3>1 DEF EditIsPassedOn
    <3>2. CASE links[r].pulled # value
      <4>1. r \in job.todo
        BY <1>6, <2>2, <3>2 DEF Targets
      <4> QED
        BY <2>2, <4>1 DEF WillWrite, Valued, Planned
    <3> QED
      BY <3>1, <3>2
  <2> QED
    BY <1>1, <1>2, <1>5, <2>1, <2>2, <2>3, PushMoves DEF Valued
<1> QED
  BY <1>7, <1>8, <1>9

LEMMA GetPersonSync ==
    ASSUME OneSyncAtATime, SyncInv, NEW s \in PushSlots, NEW r \in Resources, GetPerson(s, r)
    PROVE  SyncInv'
<1> DEFINE job == [at |-> "update", id |-> push[s].id, value |-> push[s].value,
                   todo |-> push[s].todo, tries |-> push[s].tries - 1, on |-> r,
                   etag |-> persons[r].at]
<1>1. /\ push[s].at = "get" /\ push[s] # Resting /\ Goto(s, job)
      /\ UNCHANGED <<contact, persons, feed, links, batch, upserts, removals, clock, edits, lastEdit>>
  BY DEF GetPerson, Resting, googleVars, userVars
<1>2. /\ DOMAIN batch = {} /\ JobTyped(push[s]) /\ upserts \in Nat
  BY <1>1, PushAlone DEF SyncTypes
<1>3. JobTyped(job) /\ job.at = "update" /\ job.value = push[s].value
  BY <1>1, <1>2 DEF JobTyped, Valued, Planned, About
<1>4. \A q \in Resources : WillWrite(push[s], q) => WillWrite(job, q)
  BY <1>1 DEF WillWrite, Valued, Planned
<1> HIDE DEF job
<1> QED
  BY <1>1, <1>2, <1>3, <1>4, PushMoves DEF Valued

LEMMA UpdateRefusedSync ==
    ASSUME OneSyncAtATime, SyncInv, NEW s \in PushSlots, UpdateRefused(s)
    PROVE  SyncInv'
<1>1. /\ push[s].at = "update" /\ push[s] # Resting
      /\ UNCHANGED <<contact, persons, feed, links, batch, removals, clock, edits, lastEdit>>
  BY DEF UpdateRefused, Resting, googleVars, userVars
<1>2. /\ DOMAIN batch = {} /\ JobTyped(push[s]) /\ upserts \in Nat
  BY <1>1, PushAlone DEF SyncTypes
<1>3. CASE persons[push[s].on].state = "live" /\ push[s].tries > 0
  <2> DEFINE job == [at |-> "get", id |-> push[s].id, value |-> push[s].value,
                     todo |-> push[s].todo, tries |-> push[s].tries]
  <2>1. Goto(s, job) /\ upserts' = upserts
    BY <1>3 DEF UpdateRefused
  <2>2. JobTyped(job) /\ job.at = "get" /\ job.value = push[s].value
    BY <1>1, <1>2 DEF JobTyped, Valued, Planned, About
  <2>3. \A q \in Resources : WillWrite(push[s], q) => WillWrite(job, q)
    BY <1>1 DEF WillWrite, Valued, Planned
  <2> HIDE DEF job
  <2> QED
    BY <1>1, <1>2, <2>1, <2>2, <2>3, PushMoves DEF Valued
<1>4. CASE ~(persons[push[s].on].state = "live" /\ push[s].tries > 0)
  <2>1. Goto(s, Resting) /\ upserts' = upserts + 1
    BY <1>4 DEF UpdateRefused, ThrowPush, EndPush
  <2>2. JobTyped(Resting) /\ Resting.at = "idle"
    BY DEF JobTyped, Resting, Valued, Planned, About
  <2>3. upserts' \in Nat /\ upserts' > 0
    BY <1>2, <2>1
  <2> QED
    BY <1>1, <1>2, <2>1, <2>2, <2>3, PushMoves DEF Valued
<1> QED
  BY <1>3, <1>4

\* A job that is thrown back into the queue.
LEMMA ThrownSync ==
    ASSUME OneSyncAtATime, SyncInv, NEW s \in PushSlots, ThrowPush(s),
           push[s].at \in {"get", "record", "link"},
           push[s].at = "record" => ~Linked(push[s].on),
           UNCHANGED <<contact, persons, feed, links, batch, removals, clock, edits, lastEdit>>
    PROVE  SyncInv'
<1>1. push[s] # Resting
  BY DEF Resting
<1>2. DOMAIN batch = {} /\ upserts \in Nat
  BY <1>1, PushAlone DEF SyncTypes
<1>3. Goto(s, Resting) /\ upserts' = upserts + 1
  BY DEF ThrowPush, EndPush
<1>4. JobTyped(Resting) /\ Resting.at = "idle"
  BY DEF JobTyped, Resting, Valued, Planned, About
<1>5. upserts' \in Nat /\ upserts' > 0
  BY <1>2, <1>3
<1> QED
  BY <1>2, <1>3, <1>4, <1>5, PushMoves DEF Valued

\* The link of a deleted person is dropped.
LEMMA Unlinks ==
    ASSUME OneSyncAtATime, SyncInv, NEW s \in PushSlots, NEW r \in Resources,
           persons[r].state = "deleted", links' = [links EXCEPT ![r] = NoLink],
           NEW job, Goto(s, job), JobTyped(job),
           push[s].at \in {"get", "unlink"}, job.at \in {"idle", "create"},
           job.at \in Valued => push[s].at \in Valued /\ push[s].value = job.value,
           \A q \in Resources \ {r} : WillWrite(push[s], q) => WillWrite(job, q),
           UNCHANGED <<contact, persons, feed, batch, upserts, removals, clock, edits, lastEdit>>
    PROVE  SyncInv'
<1>1. push[s] # Resting
  BY DEF Resting
<1>2. /\ SyncTypes /\ SyncBounds /\ LinksStand /\ NewerIsNewer /\ EditIsPassedOn
      /\ DOMAIN batch = {} /\ \A t \in PushSlots : t = s
  BY <1>1, PushAlone
<1>3. DOMAIN push' = PushSlots /\ push'[s] = job
  BY <1>2, JobSet
<1>4. /\ links' \in [Resources -> LinkRows] /\ links'[r] = NoLink
      /\ \A q \in Resources \ {r} : links'[q] = links[q]
  BY <1>2 DEF SyncTypes, NoLink, LinkRows
<1>5. ~Linked(r)' /\ \A q \in Resources \ {r} : Linked(q)' <=> Linked(q)
  BY <1>4 DEF Linked
<1>6. /\ \A q \in Resources : ShowsEdit(q)' <=> ShowsEdit(q)
      /\ (Present' <=> Present) /\ lastEdit.over \subseteq Resources
  BY <1>2 DEF Present, SyncTypes, ShowsEdit
<1>7. SyncTyped'
  <2>1. /\ clock \in Nat /\ clock <= clock /\ upserts \in Nat
        /\ removals \subseteq Resources /\ feed \subseteq Resources
        /\ persons \in [Resources -> GooglePersons] /\ edits \in Nat
    BY <1>2 DEF SyncTypes
  <2>2. \A q \in Resources :
           /\ persons[q].value <= edits /\ persons[q].at <= clock
           /\ persons[q].state = "absent" => persons[q] = NoPerson
           /\ links'[q].pulled <= edits
    BY <1>2, <1>4, <2>1 DEF SyncBounds, NoLink
  <2> QED
    BY <1>2, <1>3, <1>4, <2>1, <2>2, PushTyped
<1>8. LinksStand'
  BY <1>2, <1>3, <1>4, <1>5, <1>6 DEF LinksStand, PushIdle
<1>9. NewerIsNewer'
  BY <1>2, <1>3, <1>4, <1>5 DEF NewerIsNewer, NotOlder
<1>10. EditIsPassedOn'
  <2>1. \A q \in Resources : WillWrite(push[s], q)' <=> WillWrite(job, q)
    BY <1>3 DEF WillWrite
  <2>2. \A q \in lastEdit.over : lastEdit.by = "crm" /\ Linked(q)' =>
           ShowsEdit(q) \/ upserts > 0 \/ WillWrite(job, q)
    BY <1>2, <1>5, <1>6 DEF EditIsPassedOn
  <2>3. lastEdit.by = "crm" => edits # 0 /\ edits \in Nat /\ links'[r].pulled # edits
    BY <1>2, <1>4 DEF EditIsPassedOn, NoLink, SyncTypes
  <2>4. lastEdit.by = "crm" /\ job.at \in Valued /\ job.value # edits =>
           \A q \in Resources : persons[q].value # edits /\ links'[q].pulled # edits
    BY <1>2, <1>4, <2>3 DEF EditIsPassedOn
  <2>5. lastEdit.by = "crm" => \A q \in Resources :
           Linked(q)' /\ links'[q].pulled = edits => ShowsEdit(q)
    BY <1>2, <1>4, <1>5 DEF EditIsPassedOn
  <2>6. lastEdit.by = "crm" =>
           /\ Present /\ contact.value = lastEdit.value /\ contact.value = edits /\ edits # 0
           /\ \A q \in lastEdit.over : ~Linked(q)' => persons[q].state = "deleted"
    BY <1>2, <1>5, <1>6 DEF EditIsPassedOn
  <2> QED
    BY <1>2, <1>3, <1>6, <2>1, <2>2, <2>4, <2>5, <2>6 DEF EditIsPassedOn
<1> QED
  BY <1>7, <1>8, <1>9, <1>10 DEF SyncInv

LEMMA PersonGoneSync ==
    ASSUME OneSyncAtATime, SyncInv, NEW s \in PushSlots, NEW r \in Resources, PersonGone(s, r)
    PROVE  SyncInv'
<1>1. /\ push[s].at = "get" /\ persons[r].state = "deleted"
      /\ UNCHANGED <<contact, persons, feed, batch, removals, clock, edits, lastEdit>>
  BY DEF PersonGone, googleVars, userVars
<1>2. push[s] # Resting
  BY <1>1 DEF Resting
<1>3. JobTyped(push[s])
  BY <1>2, PushAlone
<1>4. CASE Linked(r)
  <2> DEFINE job == [at |-> "create", id |-> push[s].id, value |-> push[s].value,
                     todo |-> push[s].todo \ {r}]
  <2>1. Goto(s, job) /\ upserts' = upserts /\ links' = [links EXCEPT ![r] = NoLink]
    BY <1>4 DEF PersonGone
  <2>2. JobTyped(job) /\ job.at = "create" /\ job.value = push[s].value
    BY <1>1, <1>3 DEF JobTyped, Valued, Planned, About
  <2>3. \A q \in Resources \ {r} : WillWrite(push[s], q) => WillWrite(job, q)
    BY <1>1 DEF WillWrite, Valued, Planned
  <2> HIDE DEF job
  <2> QED
    BY <1>1, <2>1, <2>2, <2>3, Unlinks DEF Valued
<1>5. CASE ~Linked(r)
  <2>1. ThrowPush(s) /\ links' = links
    BY <1>5 DEF PersonGone
  <2> QED
    BY <1>1, <2>1, ThrownSync
<1> QED
  BY <1>4, <1>5

LEMMA UnlinkPersonSync ==
    ASSUME OneSyncAtATime, SyncInv, NEW s \in PushSlots, UnlinkPerson(s)
    PROVE  SyncInv'
<1>1. /\ push[s].at = "unlink" /\ push[s] # Resting /\ Goto(s, Resting)
      /\ links' = [links EXCEPT ![push[s].on] = NoLink]
      /\ UNCHANGED <<contact, persons, feed, batch, upserts, removals, clock, edits, lastEdit>>
  BY DEF UnlinkPerson, EndPush, Resting, googleVars, userVars
<1>2. JobTyped(push[s]) /\ LinksStand
  BY <1>1, PushAlone
<1>3. push[s].on \in Resources /\ persons[push[s].on].state = "deleted"
  BY <1>1, <1>2 DEF JobTyped, About, LinksStand
<1>4. JobTyped(Resting) /\ Resting.at = "idle" /\ Resting.at \notin Valued
  BY DEF JobTyped, Resting, Valued, Planned, About
<1>5. \A q \in Resources : ~WillWrite(push[s], q)
  BY <1>1 DEF WillWrite, Valued
<1> QED
  BY <1>1, <1>3, <1>4, <1>5, Unlinks

\* What was pushed is recorded on its link, or the link is made.
LEMMA Records ==
    ASSUME OneSyncAtATime, SyncInv, NEW s \in PushSlots, NEW r \in Resources,
           push[s].at \in {"record", "link"}, push[s].on = r,
           push[s].at = "record" => Linked(r),
           push[s].at = "link" => ~Linked(r) /\ contact.id = push[s].id,
           links' \in [Resources -> LinkRows], \A q \in Resources \ {r} : links'[q] = links[q],
           links'[r].pushed = push[s].value, links'[r].of = contact.id,
           links'[r].pulled \in {0, links[r].pulled},
           NEW rest, NextTarget(s, rest),
           rest = IF push[s].at = "record" THEN push[s].todo \ {r} ELSE push[s].todo,
           UNCHANGED <<contact, persons, feed, batch, upserts, removals, clock, edits, lastEdit>>
    PROVE  SyncInv'
<1> DEFINE job == IF rest = {} THEN Resting
                  ELSE [at |-> "get", id |-> push[s].id, value |-> push[s].value, todo |-> rest,
                        tries |-> 2]
<1>1. push[s] # Resting /\ Goto(s, job)
  BY DEF Resting, NextTarget, EndPush
<1>2. /\ SyncTypes /\ SyncBounds /\ LinksStand /\ NewerIsNewer /\ EditIsPassedOn
      /\ DOMAIN batch = {} /\ JobTyped(push[s]) /\ \A t \in PushSlots : t = s
  BY <1>1, PushAlone
<1>3. DOMAIN push' = PushSlots /\ push'[s] = job
  BY <1>1, <1>2, JobSet
<1>4. /\ push[s].id \in Nat /\ push[s].id # 0 /\ push[s].value \in 0..edits
      /\ rest \subseteq Resources
  BY <1>2 DEF JobTyped, Valued, Planned
<1>5. JobTyped(job) /\ job.at \in {"idle", "get"} /\ (job.at \in Valued => job.value = push[s].value)
  BY <1>4 DEF JobTyped, Resting, Valued, Planned, About
<1>6. \A q \in Resources : WillWrite(push[s], q) /\ (q # r \/ push[s].at = "link") => WillWrite(job, q)
  BY DEF WillWrite, Valued, Planned
<1>7. push[s].at = "record" => ~WillWrite(push[s], r)
  BY DEF WillWrite, Planned
<1> HIDE DEF job
<1>8. contact.id # 0 /\ Present
  <2>1. CASE push[s].at = "record"
    BY <1>2, <2>1 DEF LinksStand, SyncBounds
  <2>2. CASE push[s].at = "link"
    BY <1>4, <2>2 DEF Present, NoContact
  <2> QED
    BY <2>1, <2>2
<1>9. Linked(r)' /\ \A q \in Resources \ {r} : Linked(q)' <=> Linked(q)
  BY <1>8 DEF Linked, NoLink
<1>10. /\ \A q \in Resources : ShowsEdit(q)' <=> ShowsEdit(q)
       /\ (Present' <=> Present) /\ lastEdit.over \subseteq Resources
  BY <1>2 DEF Present, SyncTypes, ShowsEdit
<1>11. SyncTyped'
  <2>1. /\ clock \in Nat /\ clock <= clock /\ upserts \in Nat /\ edits \in Nat
        /\ removals \subseteq Resources /\ feed \subseteq Resources
        /\ persons \in [Resources -> GooglePersons]
    BY <1>2 DEF SyncTypes
  <2>2. \A q \in Resources :
           /\ persons[q].value <= edits /\ persons[q].at <= clock
           /\ persons[q].state = "absent" => persons[q] = NoPerson
           /\ links'[q].pulled <= edits
    BY <1>2, <2>1 DEF SyncBounds
  <2>3. JobTyped(push'[s])
    BY <1>3, <1>5
  <2> QED
    BY <1>2, <1>3, <2>1, <2>2, <2>3, PushTyped
<1>12. LinksStand'
  <2>1. r \in feed \/ Linked(r)
    BY <1>2 DEF LinksStand
  <2>2. persons[r].state # "absent"
    BY <1>2, <2>1 DEF LinksStand
  <2>3. persons[r].state = "deleted" => r \in feed
    BY <1>2, <2>1 DEF LinksStand
  <2> QED
    BY <1>2, <1>3, <1>5, <1>8, <1>9, <1>10, <2>2, <2>3 DEF LinksStand, PushIdle
<1>13. NewerIsNewer'
  <2>1. NotOlder(persons[r], links'[r].pushed)
    BY <1>2 DEF NewerIsNewer
  <2>2. \A q \in Resources \ {r} : Linked(q) => NotOlder(persons[q], links[q].pushed)
    BY <1>2 DEF NewerIsNewer
  <2> QED
    BY <1>2, <1>3, <1>5, <1>9, <2>1, <2>2 DEF NewerIsNewer, NotOlder
<1>14. EditIsPassedOn'
  <2>1. \A q \in Resources : WillWrite(push[s], q)' <=> WillWrite(job, q)
    BY <1>3 DEF WillWrite
  <2>2. lastEdit.by = "crm" =>
           /\ Present /\ contact.value = lastEdit.value /\ contact.value = edits /\ edits # 0
           /\ \A q \in lastEdit.over : ~Linked(q) => persons[q].state = "deleted"
    BY <1>2 DEF EditIsPassedOn
  <2>3. \A q \in lastEdit.over : lastEdit.by = "crm" /\ Linked(q)' =>
           ShowsEdit(q) \/ upserts > 0 \/ WillWrite(job, q)
    <3> SUFFICES ASSUME NEW q \in lastEdit.over, lastEdit.by = "crm", Linked(q)'
                 PROVE  ShowsEdit(q) \/ upserts > 0 \/ WillWrite(job, q)
      OBVIOUS
    <3>1. CASE Linked(q)
      <4>1. ShowsEdit(q) \/ upserts > 0 \/ WillWrite(push[s], q)
        BY <1>2, <3>1 DEF EditIsPassedOn
      <4> QED
        BY <1>6, <1>7, <1>10, <4>1
    <3>2. CASE ~Linked(q)
      BY <2>2, <3>2 DEF ShowsEdit
    <3> QED
      BY <3>1, <3>2
  <2>4. lastEdit.by = "crm" /\ job.at \in Valued /\ job.value # edits =>
           \A q \in Resources : persons[q].value # edits /\ links'[q].pulled # edits
    <3>1. lastEdit.by = "crm" /\ push[s].value # edits =>
            \A q \in Resources : persons[q].value # edits /\ links[q].pulled # edits
      BY <1>2 DEF EditIsPassedOn, Valued
    <3> QED
      BY <1>5, <2>2, <3>1
  <2>5. lastEdit.by = "crm" => \A q \in Resources :
           Linked(q)' /\ links'[q].pulled = edits => ShowsEdit(q)
    <3>1. lastEdit.by = "crm" => \A q \in Resources :
             Linked(q) /\ links[q].pulled = edits => ShowsEdit(q)
      BY <1>2 DEF EditIsPassedOn
    <3>2. ~Linked(r) => links[r].pulled = 0
      BY DEF Linked, NoLink
    <3> QED
      BY <1>9, <2>2, <3>1, <3>2
  <2>6. lastEdit.by = "crm" => \A q \in lastEdit.over : ~Linked(q)' => persons[q].state = "deleted"
    BY <1>9, <1>10, <2>2
  <2> QED
    BY <1>2, <1>3, <1>10, <2>1, <2>2, <2>3, <2>4, <2>5, <2>6 DEF EditIsPassedOn
<1> QED
  BY <1>11, <1>12, <1>13, <1>14 DEF SyncInv

LEMMA RecordPushSync ==
    ASSUME OneSyncAtATime, SyncInv, NEW s \in PushSlots, RecordPush(s)
    PROVE  SyncInv'
<1>1. /\ push[s].at = "record"
      /\ UNCHANGED <<contact, persons, feed, batch, removals, clock, edits, lastEdit>>
  BY DEF RecordPush, googleVars, userVars
<1>2. push[s] # Resting
  BY <1>1 DEF Resting
<1>3. JobTyped(push[s]) /\ SyncTypes /\ LinksStand
  BY <1>2, PushAlone
<1>4. push[s].on \in Resources /\ push[s].value \in Nat
  BY <1>1, <1>3 DEF JobTyped, About, Valued, SyncTypes
<1>5. CASE Linked(push[s].on)
  <2>1. /\ links' = [links EXCEPT ![push[s].on].pushed = push[s].value]
        /\ NextTarget(s, push[s].todo \ {push[s].on}) /\ upserts' = upserts
    BY <1>5 DEF RecordPush
  <2>2. links \in [Resources -> LinkRows] /\ links[push[s].on].of = contact.id
    BY <1>3, <1>4, <1>5 DEF SyncTypes, LinksStand
  <2>3. /\ links' \in [Resources -> LinkRows]
        /\ \A q \in Resources \ {push[s].on} : links'[q] = links[q]
        /\ links'[push[s].on].pushed = push[s].value /\ links'[push[s].on].of = contact.id
        /\ links'[push[s].on].pulled = links[push[s].on].pulled
    BY <1>4, <2>1, <2>2 DEF LinkRows
  <2> DEFINE rest == push[s].todo \ {push[s].on}
  <2>4. NextTarget(s, rest) /\ rest = IF push[s].at = "record" THEN push[s].todo \ {push[s].on} ELSE push[s].todo
    BY <1>1, <2>1
  <2> HIDE DEF rest
  <2> QED
    BY <1>1, <1>4, <1>5, <2>1, <2>3, <2>4, Records
<1>6. CASE ~Linked(push[s].on)
  <2>1. ThrowPush(s) /\ links' = links
    BY <1>6 DEF RecordPush
  <2> QED
    BY <1>1, <1>6, <2>1, ThrownSync
<1> QED
  BY <1>5, <1>6

LEMMA LinkPersonSync ==
    ASSUME OneSyncAtATime, SyncInv, NEW s \in PushSlots, LinkPerson(s)
    PROVE  SyncInv'
<1>1. /\ push[s].at = "link"
      /\ UNCHANGED <<contact, persons, feed, batch, removals, clock, edits, lastEdit>>
  BY DEF LinkPerson, googleVars, userVars
<1>2. push[s] # Resting
  BY <1>1 DEF Resting
<1>3. JobTyped(push[s]) /\ SyncTypes
  BY <1>2, PushAlone
<1>4. push[s].on \in Resources /\ push[s].value \in Nat /\ push[s].id \in Nat
  BY <1>1, <1>3 DEF JobTyped, About, Valued, SyncTypes
<1>5. CASE contact.id = push[s].id /\ ~Linked(push[s].on)
  <2>1. /\ links' = [links EXCEPT ![push[s].on] = [of |-> push[s].id, pushed |-> push[s].value, pulled |-> 0]]
        /\ NextTarget(s, push[s].todo) /\ upserts' = upserts
    BY <1>5 DEF LinkPerson
  <2>2. /\ links' \in [Resources -> LinkRows]
        /\ \A q \in Resources \ {push[s].on} : links'[q] = links[q]
        /\ links'[push[s].on].pushed = push[s].value /\ links'[push[s].on].of = contact.id
        /\ links'[push[s].on].pulled = 0
    BY <1>3, <1>4, <1>5, <2>1 DEF LinkRows, SyncTypes
  <2> DEFINE rest == push[s].todo
  <2>3. NextTarget(s, rest) /\ rest = IF push[s].at = "record" THEN push[s].todo \ {push[s].on} ELSE push[s].todo
    BY <1>1, <2>1
  <2> HIDE DEF rest
  <2> QED
    BY <1>1, <1>4, <1>5, <2>1, <2>2, <2>3, Records
<1>6. CASE ~(contact.id = push[s].id /\ ~Linked(push[s].on))
  <2>1. ThrowPush(s) /\ links' = links
    BY <1>6 DEF LinkPerson
  <2> QED
    BY <1>1, <2>1, ThrownSync
<1> QED
  BY <1>5, <1>6

\* The contact is written to a person.
LEMMA Writes ==
    ASSUME OneSyncAtATime, SyncInv, NEW s \in PushSlots, NEW r \in Resources,
           push[s].at \in {"update", "create"}, persons[r].state # "deleted",
           SetPerson(r, "live", push[s].value),
           NEW job, Goto(s, job), JobTyped(job), job.at \in {"record", "link"},
           persons[r].state = "absent" \/ job.at = "record",
           job.on = r, job.value = push[s].value,
           \A q \in Resources \ {r} : WillWrite(push[s], q) => WillWrite(job, q),
           UNCHANGED <<contact, links, batch, upserts, removals, edits, lastEdit>>
    PROVE  SyncInv'
<1>1. push[s] # Resting
  BY DEF Resting
<1>2. /\ SyncTypes /\ SyncBounds /\ LinksStand /\ NewerIsNewer /\ EditIsPassedOn
      /\ DOMAIN batch = {} /\ JobTyped(push[s]) /\ \A t \in PushSlots : t = s
  BY <1>1, PushAlone
<1>3. DOMAIN push' = PushSlots /\ push'[s] = job
  BY <1>2, JobSet
<1>4. edits \in Nat /\ clock \in Nat /\ push[s].value \in Nat /\ push[s].value <= edits
  BY <1>2 DEF SyncTypes, JobTyped, Valued
<1>5. /\ persons' \in [Resources -> GooglePersons]
      /\ persons'[r] = [state |-> "live", value |-> push[s].value, at |-> clock + 1]
      /\ \A q \in Resources \ {r} : persons'[q] = persons[q]
      /\ feed' = feed \cup {r} /\ feed' \subseteq Resources
      /\ clock' = clock + 1 /\ clock' \in Nat
  BY <1>2, <1>4, PersonSet
<1>6. /\ \A q \in Resources : Linked(q)' <=> Linked(q)
      /\ (Present' <=> Present) /\ lastEdit.over \subseteq Resources
  BY <1>2 DEF Linked, Present, SyncTypes
<1>7. SyncTyped'
  <2>1. \A q \in Resources : persons[q].at \in Nat
    BY <1>2 DEF SyncTypes, GooglePersons
  <2>2. \A n \in Nat : n <= clock => n <= clock'
    BY <1>4, <1>5
  <2>3. \A q \in Resources :
           /\ persons'[q].value <= edits /\ persons'[q].at <= clock'
           /\ persons'[q].state = "absent" => persons'[q] = NoPerson
           /\ links[q].pulled <= edits
    <3>1. persons'[r].value <= edits /\ persons'[r].at <= clock' /\ persons'[r].state # "absent"
      BY <1>4, <1>5
    <3> QED
      BY <1>2, <1>5, <2>1, <2>2, <3>1 DEF SyncBounds
  <2>4. upserts \in Nat /\ removals \subseteq Resources /\ links \in [Resources -> LinkRows]
    BY <1>2 DEF SyncTypes
  <2>5. clock <= clock'
    BY <1>4, <1>5
  <2>6. JobTyped(push'[s])
    BY <1>3
  <2> QED
    BY <1>2, <1>3, <1>5, <2>3, <2>4, <2>5, <2>6, PushTyped
<1>8. LinksStand'
  <2>1. persons'[r].state = "live" /\ r \in feed'
    BY <1>5
  <2> QED
    BY <1>2, <1>3, <1>5, <1>6, <2>1 DEF LinksStand, PushIdle
<1>9. NewerIsNewer'
  <2>1. persons'[r].value = push[s].value
    BY <1>5
  <2>2. \A q \in Resources \ {r} : Linked(q) => NotOlder(persons[q], links[q].pushed)
    BY <1>2 DEF NewerIsNewer
  <2>3. Linked(r) => job.at = "record"
    BY <1>2 DEF LinksStand
  <2> QED
    BY <1>2, <1>3, <1>5, <1>6, <2>1, <2>2, <2>3 DEF NewerIsNewer, NotOlder
<1>10. EditIsPassedOn'
  <2>1. \A q \in Resources : WillWrite(push[s], q)' <=> WillWrite(job, q)
    BY <1>3 DEF WillWrite
  <2>2. lastEdit.by = "crm" =>
           /\ Present /\ contact.value = lastEdit.value /\ contact.value = edits /\ edits # 0
           /\ \A q \in lastEdit.over : ~Linked(q) => persons[q].state = "deleted"
    BY <1>2 DEF EditIsPassedOn
  <2>3. lastEdit.by = "crm" /\ push[s].value # edits =>
           \A q \in Resources : persons[q].value # edits /\ links[q].pulled # edits
    BY <1>2 DEF EditIsPassedOn, Valued
  <2>4. /\ \A q \in Resources \ {r} : ShowsEdit(q)' <=> ShowsEdit(q)
        /\ ShowsEdit(r)' <=> push[s].value = edits
    BY <1>5 DEF ShowsEdit
  <2>5. lastEdit.by = "crm" /\ push[s].value # edits =>
           \A q \in Resources : persons'[q].value # edits /\ links[q].pulled # edits
    BY <1>5, <2>3
  <2>6. \A q \in lastEdit.over : lastEdit.by = "crm" /\ ~Linked(q)' => persons'[q].state = "deleted"
    BY <1>5, <1>6, <2>2
  <2>7. lastEdit.by = "crm" => \A q \in Resources :
           Linked(q) /\ links[q].pulled = edits => ShowsEdit(q)'
    <3>1. lastEdit.by = "crm" => \A q \in Resources :
             Linked(q) /\ links[q].pulled = edits => ShowsEdit(q)
      BY <1>2 DEF EditIsPassedOn
    <3> QED
      BY <2>3, <2>4, <3>1
  <2>8. \A q \in lastEdit.over : lastEdit.by = "crm" /\ Linked(q) =>
           ShowsEdit(q)' \/ upserts > 0 \/ WillWrite(job, q)
    <3> SUFFICES ASSUME NEW q \in lastEdit.over, lastEdit.by = "crm", Linked(q)
                 PROVE  ShowsEdit(q)' \/ upserts > 0 \/ WillWrite(job, q)
      OBVIOUS
    <3>1. ShowsEdit(q) \/ upserts > 0 \/ WillWrite(push[s], q)
      BY <1>2 DEF EditIsPassedOn
    <3>2. CASE q # r
      BY <1>6, <2>4, <3>1, <3>2
    <3>3. CASE q = r
      <4>1. WillWrite(push[s], r) => push[s].value = edits
        BY <2>2 DEF WillWrite
      <4>2. ShowsEdit(r) => push[s].value = edits
        BY <2>3 DEF ShowsEdit
      <4> QED
        BY <2>4, <3>1, <3>3, <4>1, <4>2
    <3> QED
      BY <3>2, <3>3
  <2>9. lastEdit.by = "crm" => \A q \in DOMAIN batch : FALSE
    BY <1>2
  <2> QED
    BY <1>2, <1>3, <1>6, <2>1, <2>2, <2>5, <2>6, <2>7, <2>8, <2>9 DEF EditIsPassedOn
<1> QED
  BY <1>7, <1>8, <1>9, <1>10 DEF SyncInv

LEMMA UpdatePersonSync ==
    ASSUME OneSyncAtATime, SyncInv, NEW s \in PushSlots, UpdatePerson(s)
    PROVE  SyncInv'
<1> DEFINE r == push[s].on
           job == [at |-> "record", id |-> push[s].id, value |-> push[s].value,
                   todo |-> push[s].todo, on |-> r]
<1>1. /\ push[s].at = "update" /\ persons[r].state = "live"
      /\ SetPerson(r, "live", push[s].value) /\ Goto(s, job)
      /\ UNCHANGED <<contact, links, batch, upserts, removals, edits, lastEdit>>
  BY DEF UpdatePerson, userVars
<1>2. push[s] # Resting
  BY <1>1 DEF Resting
<1>3. JobTyped(push[s])
  BY <1>2, PushAlone
<1>4. r \in Resources /\ JobTyped(job) /\ job.at = "record" /\ job.on = r /\ job.value = push[s].value
  BY <1>1, <1>3 DEF JobTyped, Valued, Planned, About
<1>5. \A q \in Resources \ {r} : WillWrite(push[s], q) => WillWrite(job, q)
  BY <1>1 DEF WillWrite, Valued, Planned
<1> HIDE DEF job, r
<1> QED
  BY <1>1, <1>4, <1>5, Writes

LEMMA CreatePersonSync ==
    ASSUME OneSyncAtATime, SyncInv, NEW s \in PushSlots, NEW r \in Resources, CreatePerson(s, r)
    PROVE  SyncInv'
<1> DEFINE job == [at |-> "link", id |-> push[s].id, value |-> push[s].value,
                   todo |-> push[s].todo, on |-> r]
<1>1. /\ push[s].at = "create" /\ persons[r].state = "absent"
      /\ SetPerson(r, "live", push[s].value) /\ Goto(s, job)
      /\ UNCHANGED <<contact, links, batch, upserts, removals, edits, lastEdit>>
  BY DEF CreatePerson, NoPerson, userVars
<1>2. push[s] # Resting
  BY <1>1 DEF Resting
<1>3. JobTyped(push[s])
  BY <1>2, PushAlone
<1>4. JobTyped(job) /\ job.at = "link" /\ job.on = r /\ job.value = push[s].value
  BY <1>1, <1>3 DEF JobTyped, Valued, Planned, About
<1>5. \A q \in Resources \ {r} : WillWrite(push[s], q) => WillWrite(job, q)
  BY <1>1 DEF WillWrite, Valued, Planned
<1> HIDE DEF job
<1> QED
  BY <1>1, <1>4, <1>5, Writes

LEMMA TakeRemovalSync ==
    ASSUME OneSyncAtATime, SyncInv, NEW s \in PushSlots, NEW r \in Resources, TakeRemoval(s, r)
    PROVE  SyncInv'
<1> DEFINE job == [at |-> "unlink", on |-> r]
<1>1. /\ push[s] = Resting /\ r \in removals /\ removals' = removals \ {r}
      /\ DOMAIN batch = {} /\ Goto(s, job)
      /\ IF persons[r].state = "live" THEN SetPerson(r, "deleted", 0)
         ELSE UNCHANGED <<persons, feed, clock>>
      /\ UNCHANGED <<contact, links, batch, upserts, edits, lastEdit>>
  BY DEF TakeRemoval, OneSyncAtATime, PullIdle, googleVars, userVars
<1>2. /\ SyncTypes /\ SyncBounds /\ LinksStand /\ NewerIsNewer /\ EditIsPassedOn
      /\ \A t \in PushSlots : t = s
  BY <1>1, PushAlone
<1>3. DOMAIN push' = PushSlots /\ push'[s] = job
  BY <1>1, <1>2, JobSet
<1>4. JobTyped(job) /\ job.at = "unlink" /\ job.on = r
  BY DEF JobTyped, Valued, Planned, About
<1> HIDE DEF job
<1>5. edits \in Nat /\ clock \in Nat /\ 0 \in Nat
  BY <1>2 DEF SyncTypes
<1>6. persons[r].state # "absent" /\ persons[r].state \in {"absent", "live", "deleted"}
  BY <1>1, <1>2 DEF LinksStand, SyncTypes, GooglePersons
<1>7. /\ persons' \in [Resources -> GooglePersons]
      /\ persons'[r].state = "deleted"
      /\ persons'[r] = persons[r] \/ persons'[r] = [state |-> "deleted", value |-> 0, at |-> clock + 1]
      /\ \A q \in Resources \ {r} : persons'[q] = persons[q]
      /\ feed' \subseteq Resources /\ feed \subseteq feed' /\ feed' \subseteq feed \cup {r}
      /\ clock' \in {clock, clock + 1} /\ clock' \in Nat
      /\ persons'[r] = persons[r] \/ (clock' = clock + 1 /\ r \in feed')
  <2>1. CASE persons[r].state = "live"
    <3>1. SetPerson(r, "deleted", 0)
      BY <1>1, <2>1
    <3>2. /\ persons' \in [Resources -> GooglePersons]
          /\ persons'[r] = [state |-> "deleted", value |-> 0, at |-> clock + 1]
          /\ \A q \in Resources \ {r} : persons'[q] = persons[q]
          /\ feed' = feed \cup {r} /\ feed' \subseteq Resources
          /\ clock' = clock + 1 /\ clock' \in Nat
      BY <1>2, <1>5, <3>1, PersonSet
    <3> QED
      BY <3>2
  <2>2. CASE persons[r].state # "live"
    BY <1>1, <1>2, <1>6, <2>2 DEF SyncTypes
  <2> QED
    BY <2>1, <2>2
<1>8. /\ \A q \in Resources : Linked(q)' <=> Linked(q)
      /\ (Present' <=> Present) /\ lastEdit.over \subseteq Resources
  BY <1>1, <1>2 DEF Linked, Present, SyncTypes
<1>9. SyncTyped'
  <2>1. \A q \in Resources : persons[q].at \in Nat
    BY <1>2 DEF SyncTypes, GooglePersons
  <2>2. clock <= clock' /\ \A n \in Nat : n <= clock => n <= clock'
    BY <1>5, <1>7
  <2>3. persons'[r].value <= edits /\ persons'[r].at <= clock'
    <3>1. CASE persons'[r] = persons[r]
      BY <1>2, <2>1, <2>2, <3>1 DEF SyncBounds
    <3>2. CASE persons'[r] # persons[r]
      <4>1. clock' = clock + 1 /\ persons'[r].value = 0 /\ persons'[r].at = clock + 1
        BY <1>7, <3>2
      <4> QED
        BY <1>5, <4>1
    <3> QED
      BY <3>1, <3>2
  <2>4. \A q \in Resources :
           /\ persons'[q].value <= edits /\ persons'[q].at <= clock'
           /\ persons'[q].state = "absent" => persons'[q] = NoPerson
           /\ links[q].pulled <= edits
    BY <1>2, <1>7, <2>1, <2>2, <2>3 DEF SyncBounds
  <2>5. upserts \in Nat /\ removals' \subseteq Resources /\ links \in [Resources -> LinkRows]
    BY <1>1, <1>2 DEF SyncTypes
  <2>6. JobTyped(push'[s])
    BY <1>3, <1>4
  <2> QED
    BY <1>1, <1>2, <1>3, <1>7, <2>2, <2>4, <2>5, <2>6, PushTyped
<1>10. LinksStand'
  <2>1. Linked(r) => r \in feed'
    BY <1>1, <1>2, <1>6, <1>7 DEF LinksStand
  <2>2. \A q \in feed' : persons'[q].state # "absent"
    BY <1>2, <1>7 DEF LinksStand, SyncTypes
  <2> QED
    BY <1>1, <1>2, <1>3, <1>4, <1>7, <1>8, <2>1, <2>2 DEF LinksStand, PushIdle, SyncTypes
<1>11. NewerIsNewer'
  <2>1. \A q \in Resources : Linked(q) => NotOlder(persons[q], links[q].pushed)
    BY <1>1, <1>2 DEF NewerIsNewer, Resting
  <2> QED
    BY <1>1, <1>2, <1>3, <1>4, <1>7, <1>8, <2>1 DEF NewerIsNewer, NotOlder
<1>12. EditIsPassedOn'
  <2>1. \A q \in Resources : ~WillWrite(push[s], q)
    BY <1>1 DEF WillWrite, Valued, Resting
  <2>2. \A q \in Resources : ShowsEdit(q) => ShowsEdit(q)'
    BY <1>1, <1>7 DEF ShowsEdit
  <2>3. push'[s].at \notin Valued
    BY <1>3, <1>4 DEF Valued
  <2>4. lastEdit.by = "crm" =>
           /\ Present /\ contact.value = lastEdit.value /\ contact.value = edits /\ edits # 0
           /\ \A q \in lastEdit.over : ~Linked(q)' => persons'[q].state = "deleted"
    BY <1>2, <1>7, <1>8 DEF EditIsPassedOn
  <2>5. lastEdit.by = "crm" => \A q \in Resources :
           Linked(q) /\ links[q].pulled = edits => ShowsEdit(q)'
    BY <1>2, <2>2 DEF EditIsPassedOn
  <2>6. lastEdit.by = "crm" => \A q \in lastEdit.over : Linked(q) => ShowsEdit(q)' \/ upserts > 0
    BY <1>2, <1>8, <2>1, <2>2 DEF EditIsPassedOn
  <2> QED
    BY <1>1, <1>2, <1>8, <2>3, <2>4, <2>5, <2>6 DEF EditIsPassedOn
<1> QED
  BY <1>9, <1>10, <1>11, <1>12 DEF SyncInv

-----------------------------------------------------------------------------
(* The worker dies; the theorem.                                           *)

LEMMA SyncCrashSync ==
    ASSUME OneSyncAtATime, SyncInv, SyncCrash
    PROVE  SyncInv'
<1> DEFINE cut == {s \in PushSlots : push[s].at \notin {"idle", "unlink"}}
           dropped == {push[s].on : s \in {t \in PushSlots : push[t].at = "unlink"}}
<1>1. /\ SyncTypes /\ SyncBounds /\ LinksStand /\ NewerIsNewer /\ EditIsPassedOn
  BY DEF SyncInv, SyncTyped
<1>2. /\ upserts' = upserts + Cardinality(cut)
      /\ removals' = removals \cup dropped
      /\ push' = [s \in PushSlots |-> Resting]
      /\ feed' = feed \cup DOMAIN batch /\ DOMAIN batch' = {}
      /\ \A s \in PushSlots : push[s].at \in CrashPoints \cup {"idle"}
      /\ UNCHANGED <<contact, persons, links, clock, edits, lastEdit>>
  BY DEF SyncCrash, userVars
<1>3. \A s \in PushSlots : push[s].at # "record"
  BY <1>2 DEF OneSyncAtATime
<1>4. Cardinality(cut) \in Nat /\ (cut # {} => Cardinality(cut) > 0)
  <2>1. CASE cut = {}
    <3>1. Cardinality({}) = 0
      BY FS_EmptySet
    <3> HIDE DEF cut
    <3> QED
      BY <2>1, <3>1
  <2>2. CASE cut # {}
    <3>1. PICK s \in PushSlots : s \in cut
      BY <2>2
    <3>2. cut = {s}
      BY <3>1 DEF OneSyncAtATime
    <3>3. Cardinality({s}) = 1
      BY FS_Singleton
    <3> HIDE DEF cut
    <3> QED
      BY <3>2, <3>3
  <2> QED
    BY <2>1, <2>2
<1>5. upserts' \in Nat /\ (upserts > 0 \/ cut # {} => upserts' > 0)
  BY <1>1, <1>2, <1>4 DEF SyncTypes
<1>6. \A r \in dropped : r \in Resources /\ persons[r].state = "deleted"
  BY <1>1 DEF SyncTypes, JobTyped, About, LinksStand
<1>7. \A s \in PushSlots, r \in Resources : WillWrite(push[s], r) => s \in cut
  BY DEF WillWrite, Valued
<1> HIDE DEF cut, dropped
<1>8. \A s \in PushSlots : push'[s] = Resting
  BY <1>2
<1>9. /\ \A q \in Resources : (Linked(q)' <=> Linked(q)) /\ (ShowsEdit(q)' <=> ShowsEdit(q))
      /\ (Present' <=> Present) /\ lastEdit.over \subseteq Resources
  BY <1>1, <1>2 DEF Linked, Present, ShowsEdit, SyncTypes
<1>10. SyncTyped'
  <2>1. \A s \in PushSlots : JobTyped(push[s])'
    BY <1>8 DEF JobTyped, Resting, Valued, Planned, About
  <2>2. SyncTypes'
    BY <1>1, <1>2, <1>5, <1>6, <2>1 DEF SyncTypes
  <2>3. SyncBounds'
    BY <1>1, <1>2, <1>9 DEF SyncBounds
  <2> QED
    BY <2>2, <2>3 DEF SyncTyped
<1>11. LinksStand'
  BY <1>1, <1>2, <1>6, <1>8, <1>9 DEF LinksStand, PushIdle, Resting
<1>12. NewerIsNewer'
  BY <1>1, <1>2, <1>3, <1>8, <1>9 DEF NewerIsNewer, NotOlder, Resting
<1>13. EditIsPassedOn'
  <2>1. \A s \in PushSlots : push'[s].at \notin Valued
    BY <1>8 DEF Resting, Valued
  <2>2. lastEdit.by = "crm" =>
           \A r \in lastEdit.over : Linked(r) => ShowsEdit(r) \/ upserts' > 0
    BY <1>1, <1>5, <1>7, <1>9 DEF EditIsPassedOn
  <2>3. lastEdit.by = "crm" =>
           /\ Present /\ contact.value = lastEdit.value /\ contact.value = edits /\ edits # 0
           /\ \A r \in lastEdit.over : ~Linked(r) => persons[r].state = "deleted"
           /\ \A r \in Resources : Linked(r) /\ links[r].pulled = edits => ShowsEdit(r)
    BY <1>1 DEF EditIsPassedOn
  <2> QED
    BY <1>2, <1>9, <2>1, <2>2, <2>3 DEF EditIsPassedOn
<1> QED
  BY <1>10, <1>11, <1>12, <1>13 DEF SyncInv

LEMMA StepSync == OneSyncAtATime /\ SyncInv /\ [ContactsNext]_contactsVars => SyncInv'
<1> SUFFICES ASSUME OneSyncAtATime, SyncInv, [ContactsNext]_contactsVars
             PROVE  SyncInv'
  OBVIOUS
<1>1. ASSUME NEW v \in 1..MaxEdits, SaveContact(v) \/ \E r \in Resources : GoogleEdit(r, v)
      PROVE  SyncInv'
  BY <1>1, SaveSync, GoogleEditSync
<1>2. CASE DeleteContact
  BY <1>2, DeleteSync
<1>3. ASSUME NEW r \in Resources, GoogleAdd(r) \/ GoogleDelete(r)
      PROVE  SyncInv'
  BY <1>3, GoogleAddSync, GoogleDeleteSync
<1>4. CASE ListChanges
  BY <1>4, ListSync
<1>5. ASSUME NEW r \in Resources, ApplyLinked(r) \/ ApplyUnlinked(r) \/ ApplyDeleted(r)
      PROVE  SyncInv'
  BY <1>5, ApplyLinkedSync, ApplyUnlinkedSync, ApplyDeletedSync
<1>6. ASSUME NEW s \in PushSlots, PushStep(s)
      PROVE  SyncInv'
  <2>1. CASE TakeUpsert(s) \/ ReadLinks(s) \/ UpdatePerson(s) \/ UpdateRefused(s)
    BY <2>1, TakeUpsertSync, ReadLinksSync, UpdatePersonSync, UpdateRefusedSync
  <2>2. CASE RecordPush(s) \/ LinkPerson(s) \/ UnlinkPerson(s)
    BY <2>2, RecordPushSync, LinkPersonSync, UnlinkPersonSync
  <2>3. ASSUME NEW r \in Resources,
               GetPerson(s, r) \/ PersonGone(s, r) \/ CreatePerson(s, r) \/ TakeRemoval(s, r)
        PROVE  SyncInv'
    BY <2>3, GetPersonSync, PersonGoneSync, CreatePersonSync, TakeRemovalSync
  <2> QED
    BY <1>6, <2>1, <2>2, <2>3 DEF PushStep
<1>7. CASE SyncCrash
  BY <1>7, SyncCrashSync
<1>8. CASE ContactsIdle \/ UNCHANGED contactsVars
  <2>1. UNCHANGED <<contact, persons, feed, links, batch, upserts, removals, push, clock, edits,
                    lastEdit>>
    BY <1>8 DEF ContactsIdle, contactsVars, googleVars, pushVars, userVars
  <2> QED
    BY <2>1 DEF SyncInv, SyncTyped, SyncTypes, SyncBounds, LinksStand, NewerIsNewer, EditIsPassedOn,
                JobTyped, NotOlder, ShowsEdit, WillWrite, Present, Linked, PushIdle
<1> QED
  BY <1>1, <1>2, <1>3, <1>4, <1>5, <1>6, <1>7, <1>8 DEF ContactsNext

\* Only a save and a newer person write the contact's value.
LEMMA StepKeepsNewest ==
    OneSyncAtATime /\ SyncInv /\ [ContactsNext]_contactsVars =>
        [contact'.id = contact.id => contact'.value >= contact.value]_contactsVars
<1> SUFFICES ASSUME OneSyncAtATime, SyncInv, ContactsNext, contact'.id = contact.id
             PROVE  contact'.value >= contact.value
  OBVIOUS
<1>1. /\ contact \in [id : Nat, value : Nat, at : Nat] /\ contact.value <= edits /\ edits \in Nat
      /\ clock \in Nat /\ contact.id <= clock /\ (Present => contact.id # 0)
  BY DEF SyncInv, SyncTyped, SyncTypes, SyncBounds
<1>2. contact.value >= contact.value
  BY <1>1
<1>3. ASSUME NEW v \in 1..MaxEdits, SaveContact(v)
      PROVE  contact'.value >= contact.value
  <2>1. v = edits + 1 /\ contact'.value = v
    BY <1>3 DEF SaveContact, EditValue, OneSyncAtATime
  <2> QED
    BY <1>1, <2>1
<1>4. CASE DeleteContact
  <2>1. Present /\ contact'.id = 0
    BY <1>4 DEF DeleteContact, NoContact
  <2> QED
    BY <1>1, <2>1
<1>5. ASSUME NEW r \in Resources, ApplyLinked(r)
      PROVE  contact'.value >= contact.value
  BY <1>2, <1>5, LinkedEffect
<1>6. ASSUME NEW r \in Resources, ApplyUnlinked(r)
      PROVE  contact'.value >= contact.value
  <2>1. CASE Present
    <3>1. contact' = [contact EXCEPT !.at = clock + 1]
      BY <1>6, <2>1 DEF ApplyUnlinked
    <3>2. contact'.value = contact.value
      BY <1>1, <3>1
    <3> QED
      BY <1>2, <3>2
  <2>2. CASE ~Present
    <3>1. contact'.id = clock + 1
      BY <1>6, <2>2 DEF ApplyUnlinked
    <3> QED
      BY <1>1, <3>1
  <2> QED
    BY <2>1, <2>2
<1>7. CASE UNCHANGED contact
  BY <1>2, <1>7
<1>8. ASSUME NEW s \in PushSlots, PushStep(s)
      PROVE  UNCHANGED contact
  BY <1>8 DEF PushStep, TakeUpsert, ReadLinks, UpdatePerson, UpdateRefused, RecordPush, LinkPerson,
              UnlinkPerson, GetPerson, PersonGone, CreatePerson, TakeRemoval
<1>9. \A r \in Resources, v \in 1..MaxEdits :
        GoogleEdit(r, v) \/ GoogleAdd(r) \/ GoogleDelete(r) \/ ApplyDeleted(r) => UNCHANGED contact
  BY DEF GoogleEdit, GoogleAdd, GoogleDelete, ApplyDeleted
<1>10. \A r \in Resources : GoogleAdd(r) \/ GoogleDelete(r) \/ ApplyDeleted(r) => UNCHANGED contact
  BY DEF GoogleAdd, GoogleDelete, ApplyDeleted
<1>11. ListChanges \/ SyncCrash \/ ContactsIdle => UNCHANGED contact
  BY DEF ListChanges, SyncCrash, ContactsIdle, contactsVars
<1> QED
  BY <1>3, <1>4, <1>5, <1>6, <1>7, <1>8, <1>9, <1>10, <1>11 DEF ContactsNext

LEMMA InvReachesGoogle == SyncInv => CrmEditsReachGoogle
<1> SUFFICES ASSUME SyncInv, Quiet, lastEdit.by = "crm"
             PROVE  /\ contact.value = lastEdit.value
                    /\ \A r \in lastEdit.over \cap LinkedTo(contact.id) :
                         persons[r].value = lastEdit.value
  BY DEF CrmEditsReachGoogle
<1>1. /\ LinksStand /\ EditIsPassedOn /\ feed = {} /\ DOMAIN batch = {} /\ upserts = 0
      /\ \A s \in PushSlots : push[s] = Resting
  BY DEF SyncInv, Quiet, PullIdle, PushIdle
<1>2. contact.value = lastEdit.value /\ edits = lastEdit.value
  BY <1>1 DEF EditIsPassedOn
<1>3. ASSUME NEW r \in lastEdit.over, r \in Resources, Linked(r)
      PROVE  persons[r].value = lastEdit.value
  <2>1. \A s \in PushSlots : ~WillWrite(push[s], r)
    BY <1>1 DEF WillWrite, Valued, Resting
  <2>2. ShowsEdit(r)
    BY <1>1, <1>3, <2>1 DEF EditIsPassedOn
  <2>3. persons[r].state # "deleted"
    BY <1>1, <1>3 DEF LinksStand
  <2> QED
    BY <1>2, <2>2, <2>3 DEF ShowsEdit
<1> QED
  BY <1>2, <1>3 DEF LinkedTo

(* When nothing is left to sync, an edit made in the CRM stands in the      *)
(* contact and in every person that was linked to it, and no pull takes a   *)
(* contact back to an older edit, for any number of persons, edits and      *)
(* crashes: processGoogleContactsPull and processGoogleContactsPush.        *)
THEOREM NewestWins == OneSyncAtATime => (ContactsSpec => NewestEditWins)
<1> SUFFICES ASSUME OneSyncAtATime
             PROVE  ContactsSpec => NewestEditWins
  OBVIOUS
<1>1. SyncInv /\ [ContactsNext]_contactsVars => SyncInv'
  BY StepSync
<1>2. SyncInv /\ [ContactsNext]_contactsVars =>
        [contact'.id = contact.id => contact'.value >= contact.value]_contactsVars
  BY StepKeepsNewest
<1> QED
  BY <1>1, <1>2, InitSync, InvReachesGoogle, PTL
     DEF ContactsSpec, NewestEditWins, ContactKeepsNewest

-----------------------------------------------------------------------------
(***************************************************************************)
(* The fields of a contact and of its person.                              *)
(***************************************************************************)

Entries(values) == [value : values, primary : BOOLEAN]
Persons == [mails : Seq(Entries(Mails)), orgs : Seq(Entries(Jobs)),
            urls : Seq(Entries(Links \cup {"site"})), bio : {"text", Blank}]

MapperTypes == crmContact \in ContactValue /\ person \in Persons

---------------------------------------------------------------------------
\* Of some numbers one is the least.
LEMMA LeastNat ==
  ASSUME NEW T \in SUBSET Nat, T # {}
  PROVE  \E n \in T : \A m \in T : n <= m
<1>1. \E n \in T : \A m \in T : <<m, n>> \notin OpToRel(<, Nat)
  BY NatLessThanWellFounded, WFMin
<1>2. \A m, n \in Nat : <<m, n>> \notin OpToRel(<, Nat) => n <= m
  BY DEF OpToRel
<1> QED
  BY <1>1, <1>2

\* The primary entry, or the first, is one of the list.
LEMMA PrimaryIsThere ==
  ASSUME NEW V, NEW list \in Seq(Entries(V)), list # <<>>
  PROVE  PrimaryAt(list) \in 1 .. Len(list)
<1>1. DOMAIN list = 1 .. Len(list) /\ Len(list) \in Nat /\ 1 \in 1 .. Len(list)
  OBVIOUS
<1>2. CASE \E i \in DOMAIN list : list[i].primary
  <2> DEFINE T == {i \in DOMAIN list : list[i].primary}
  <2>1. T \in SUBSET Nat /\ T # {}
    BY <1>1, <1>2
  <2>2. \E i \in T : \A k \in T : i <= k
    BY <2>1, LeastNat
  <2>3. \E i \in DOMAIN list :
          list[i].primary /\ \A k \in DOMAIN list : list[k].primary => i <= k
    BY <2>2
  <2> QED
    BY <1>1, <1>2, <2>3 DEF PrimaryAt
<1>3. CASE ~\E i \in DOMAIN list : list[i].primary
  BY <1>1, <1>3 DEF PrimaryAt
<1> QED
  BY <1>2, <1>3

\* The entries a push leaves in a list are of the list.
LEMMA OthersStay ==
  ASSUME NEW V, NEW list \in Seq(Entries(V))
  PROVE  /\ Others(list) \in Seq(Entries(V))
         /\ Values(Others(list)) \subseteq Values(list)
<1>1. CASE list = <<>>
  BY <1>1 DEF Others
<1>2. CASE list # <<>>
  <2>1. PICK n \in 1 .. Len(list) : n = PrimaryAt(list)
    BY <1>2, PrimaryIsThere
  <2>2. Others(list) = SubSeq(list, 1, n - 1) \o SubSeq(list, n + 1, Len(list))
    BY <1>2, <2>1 DEF Others, RemoveAt
  <2>3. Others(list) \in Seq(Entries(V))
    BY <2>2
  <2>4. \A i \in DOMAIN Others(list) : \E k \in DOMAIN list : Others(list)[i] = list[k]
    <3> SUFFICES ASSUME NEW i \in DOMAIN Others(list)
                 PROVE  \E k \in DOMAIN list : Others(list)[i] = list[k]
      OBVIOUS
    <3>1. i \in 1 .. (Len(list) - 1)
      <4>1. Len(list) \in Nat /\ n \in Nat /\ 1 <= n /\ n <= Len(list)
        OBVIOUS
      <4>2. PICK a \in Seq(Entries(V)) : a = SubSeq(list, 1, n - 1) /\ Len(a) = n - 1
        <5>1. PICK m \in Int : m = n - 1
          BY <4>1
        <5>2. \A k \in 1 .. m : list[k] \in Entries(V)
          BY <4>1, <5>1
        <5>3. /\ SubSeq(list, 1, m) \in Seq(Entries(V))
              /\ Len(SubSeq(list, 1, m)) = IF 1 <= m THEN m - 1 + 1 ELSE 0
          BY <5>2, SubSeqProperties
        <5>4. (IF 1 <= m THEN m - 1 + 1 ELSE 0) = n - 1
          BY <4>1, <5>1
        <5> QED
          BY <5>1, <5>3, <5>4
      <4>3. PICK b \in Seq(Entries(V)) : b = SubSeq(list, n + 1, Len(list)) /\ Len(b) = Len(list) - n
        <5>1. PICK m \in Int : m = n + 1
          BY <4>1
        <5>2. PICK l \in Int : l = Len(list)
          BY <4>1
        <5>3. \A k \in m .. l : list[k] \in Entries(V)
          BY <4>1, <5>1, <5>2
        <5>4. /\ SubSeq(list, m, l) \in Seq(Entries(V))
              /\ Len(SubSeq(list, m, l)) = IF m <= l THEN l - m + 1 ELSE 0
          BY <5>3, SubSeqProperties
        <5>5. (IF m <= l THEN l - m + 1 ELSE 0) = Len(list) - n
          BY <4>1, <5>1, <5>2
        <5> QED
          BY <5>1, <5>2, <5>4, <5>5
      <4>4. Others(list) = a \o b
        BY <2>2, <4>2, <4>3
      <4>5. DOMAIN (a \o b) = 1 .. (Len(a) + Len(b))
        OBVIOUS
      <4>6. Len(a) + Len(b) = Len(list) - 1
        <5>1. (n - 1) + (Len(list) - n) = Len(list) - 1
          BY <4>1
        <5> QED
          BY <4>2, <4>3, <5>1
      <4> QED
        BY <4>4, <4>5, <4>6
    <3>2. CASE i < n
      BY <2>2, <3>1, <3>2
    <3>3. CASE ~(i < n)
      <4>1. i + 1 \in DOMAIN list /\ Others(list)[i] = list[i + 1]
        BY <2>2, <3>1, <3>3
      <4> QED
        BY <4>1
    <3> QED
      BY <3>2, <3>3
  <2> QED
    BY <2>3, <2>4 DEF Values
<1> QED
  BY <1>1, <1>2

\* An entry has the fields it is made of.
LEMMA EntryFields ==
  \A V : \A v \in V, b \in BOOLEAN :
    /\ Entry(v, b) \in Entries(V)
    /\ Entry(v, b).value = v /\ (Entry(v, b).primary <=> b)
BY DEF Entry, Entries

\* An entry in front takes no value from a list.
LEMMA FrontAdds ==
  ASSUME NEW S, NEW list \in Seq(S), NEW e \in S
  PROVE  /\ <<e>> \o list \in Seq(S)
         /\ (<<e>> \o list)[1] = e
         /\ Values(list) \subseteq Values(<<e>> \o list)
<1>1. /\ <<e>> \o list \in Seq(S) /\ (<<e>> \o list)[1] = e
      /\ DOMAIN (<<e>> \o list) = 1 .. (Len(list) + 1) /\ DOMAIN list = 1 .. Len(list)
      /\ Len(list) \in Nat
  OBVIOUS
<1>2. \A i \in DOMAIN list :
        i + 1 \in DOMAIN (<<e>> \o list) /\ (<<e>> \o list)[i + 1] = list[i]
  BY <1>1
<1>3. \A i \in DOMAIN list : \E k \in DOMAIN (<<e>> \o list) : (<<e>> \o list)[k] = list[i]
  BY <1>2
<1> QED
  BY <1>1, <1>3 DEF Values

\* Places among kept entries count from one without a gap.
LEMMA PlacesCount ==
  ASSUME NEW n \in Nat, NEW kept \in SUBSET (1 .. n)
  PROVE  /\ IsFiniteSet(kept) /\ Cardinality(kept) \in Nat
         /\ \A i \in kept : PlaceIn(kept, i) \in 1 .. Cardinality(kept)
         /\ \A i, j \in kept : PlaceIn(kept, i) = PlaceIn(kept, j) => i = j
         /\ \A m \in 1 .. Cardinality(kept) : \E i \in kept : PlaceIn(kept, i) = m
<1> DEFINE upTo(i) == {k \in kept : k <= i}
           c == Cardinality(kept)
           place == [i \in kept |-> Cardinality(upTo(i))]
<1>1. IsFiniteSet(kept) /\ c \in Nat
  <2>1. IsFiniteSet(1 .. n)
    BY FS_Interval
  <2> QED
    BY <2>1, FS_Subset, FS_CardinalityType
<1>2. \A i \in kept : /\ IsFiniteSet(upTo(i)) /\ Cardinality(upTo(i)) \in Nat
                      /\ Cardinality(upTo(i)) <= c
  BY <1>1, FS_Subset, FS_CardinalityType
<1>3. \A i \in kept : Cardinality(upTo(i)) # 0
  <2>1. \A i \in kept : i \in upTo(i)
    OBVIOUS
  <2>2. \A i \in kept : upTo(i) # {}
    BY <2>1
  <2> HIDE DEF upTo
  <2> QED
    BY <1>2, <2>2, FS_EmptySet
<1>4. \A i \in kept : place[i] \in 1 .. c
  BY <1>1, <1>2, <1>3
<1>5. ASSUME NEW i \in kept, NEW j \in kept, i < j
      PROVE  Cardinality(upTo(i)) < Cardinality(upTo(j))
  <2>1. upTo(i) \in SUBSET upTo(j) /\ j \in upTo(j) /\ j \notin upTo(i)
    <3>1. \A k \in kept : k \in Nat
      OBVIOUS
    <3>2. \A k \in kept : k <= i => k <= j
      BY <1>5, <3>1
    <3>3. j <= j /\ ~(j <= i)
      BY <1>5, <3>1
    <3> QED
      BY <3>2, <3>3
  <2>2. upTo(i) # upTo(j)
    BY <2>1
  <2> HIDE DEF upTo
  <2>3. /\ Cardinality(upTo(i)) <= Cardinality(upTo(j))
        /\ Cardinality(upTo(j)) = Cardinality(upTo(i)) => upTo(j) = upTo(i)
    BY <1>2, <2>1, FS_Subset
  <2> QED
    BY <1>2, <2>2, <2>3
<1>6. \A i, j \in kept : place[i] = place[j] => i = j
  <2> SUFFICES ASSUME NEW i \in kept, NEW j \in kept, i # j
               PROVE  place[i] # place[j]
    OBVIOUS
  <2>1. i < j \/ j < i
    OBVIOUS
  <2>2. place[i] = Cardinality(upTo(i)) /\ place[j] = Cardinality(upTo(j))
    OBVIOUS
  <2>3. Cardinality(upTo(i)) \in Nat /\ Cardinality(upTo(j)) \in Nat
    BY <1>2
  <2>4. /\ i < j => Cardinality(upTo(i)) < Cardinality(upTo(j))
        /\ j < i => Cardinality(upTo(j)) < Cardinality(upTo(i))
    BY <1>5
  <2> HIDE DEF upTo, place
  <2> QED
    BY <2>1, <2>2, <2>3, <2>4
<1>7. place \in Injection(kept, 1 .. c)
  <2>1. place \in [kept -> 1 .. c] /\ DOMAIN place = kept
    BY <1>4
  <2> HIDE DEF place
  <2> QED
    BY <1>6, <2>1 DEF Injection, IsInjective
<1>8. Cardinality(1 .. c) = c /\ IsFiniteSet(1 .. c)
  BY <1>1, FS_Interval
<1>9. \A i \in kept : PlaceIn(kept, i) = place[i]
  BY DEF PlaceIn
<1> HIDE DEF place
<1>10. place \in Surjection(kept, 1 .. c)
  BY <1>7, <1>8, FS_Injection
<1>11. \A m \in 1 .. c : \E i \in kept : place[i] = m
  BY <1>10 DEF Surjection
<1> QED
  BY <1>1, <1>4, <1>6, <1>9, <1>11

\* The addresses that are no profile are a list, and none of them is missing.
LEMMA FilterKeeps ==
  ASSUME NEW V, NEW urls \in Seq(Entries(V))
  PROVE  /\ WithoutLinkedin(urls) \in Seq(Entries(V))
         /\ {urls[i].value : i \in KeptIn(urls)} \subseteq Values(WithoutLinkedin(urls))
<1>0. Len(urls) \in Nat /\ DOMAIN urls = 1 .. Len(urls)
  OBVIOUS
<1>1. PICK kept \in SUBSET (1 .. Len(urls)) : kept = KeptIn(urls)
  <2>1. KeptIn(urls) \in SUBSET (1 .. Len(urls))
    BY <1>0 DEF KeptIn
  <2> QED
    BY <2>1
<1>2. PICK c \in Nat : c = Cardinality(kept)
  BY <1>0, PlacesCount
<1> DEFINE at(m) == CHOOSE i \in kept : PlaceIn(kept, i) = m
<1>3. \A m \in 1 .. c : at(m) \in kept /\ PlaceIn(kept, at(m)) = m
  <2>1. \A m \in 1 .. Cardinality(kept) : \E i \in kept : PlaceIn(kept, i) = m
    BY <1>0, PlacesCount
  <2>2. \A m \in 1 .. c : \E i \in kept : PlaceIn(kept, i) = m
    BY <1>2, <2>1
  <2> QED
    BY <2>2
<1>4. \A i \in kept : PlaceIn(kept, i) \in 1 .. c /\ at(PlaceIn(kept, i)) = i
  <2>1. \A i \in kept : PlaceIn(kept, i) \in 1 .. c
    BY <1>0, <1>2, PlacesCount
  <2>2. \A i, j \in kept : PlaceIn(kept, i) = PlaceIn(kept, j) => i = j
    BY <1>0, PlacesCount
  <2> HIDE DEF at
  <2> QED
    BY <1>3, <2>1, <2>2
<1>5. WithoutLinkedin(urls) = [m \in 1 .. c |-> urls[at(m)]]
  BY <1>1, <1>2 DEF WithoutLinkedin
<1> HIDE DEF at
<1>6. \A m \in 1 .. c : urls[at(m)] \in Entries(V)
  <2>1. \A i \in 1 .. Len(urls) : urls[i] \in Entries(V)
    OBVIOUS
  <2> QED
    BY <1>3, <2>1
<1>7. WithoutLinkedin(urls) \in Seq(Entries(V))
  BY <1>5, <1>6
<1>8. \A i \in kept : \E m \in DOMAIN WithoutLinkedin(urls) : WithoutLinkedin(urls)[m] = urls[i]
  <2> SUFFICES ASSUME NEW i \in kept
               PROVE  \E m \in DOMAIN WithoutLinkedin(urls) : WithoutLinkedin(urls)[m] = urls[i]
    OBVIOUS
  <2>1. PICK m \in 1 .. c : at(m) = i
    BY <1>4
  <2>2. m \in DOMAIN WithoutLinkedin(urls) /\ WithoutLinkedin(urls)[m] = urls[i]
    BY <1>5, <2>1
  <2> QED
    BY <2>2
<1> QED
  BY <1>1, <1>7, <1>8 DEF Values

---------------------------------------------------------------------------
\* An overlaid list is one, keeps the other entries, and reads as its value.
LEMMA OverlayReads ==
  ASSUME NEW V, NEW list \in Seq(Entries(V)), NEW value \in V \cup {Blank}
  PROVE  /\ MergeSingleValue(list, value) \in Seq(Entries(V))
         /\ Values(Others(list)) \subseteq Values(MergeSingleValue(list, value))
         /\ value # Blank => PrimaryOrFirst(MergeSingleValue(list, value)) = value
<1>1. PICK rest \in Seq(Entries(V)) : rest = Others(list)
  BY OthersStay
<1>2. CASE value = Blank
  BY <1>1, <1>2 DEF MergeSingleValue
<1>3. CASE value # Blank
  <2>1. PICK e \in Entries(V) : e = Entry(value, TRUE) /\ e.value = value /\ e.primary
    <3>1. value \in V
      BY <1>3
    <3> QED
      BY <3>1, EntryFields
  <2>2. PICK new : new = <<e>> \o rest
    OBVIOUS
  <2>3. new \in Seq(Entries(V)) /\ new[1] = e /\ Values(rest) \subseteq Values(new)
    BY <2>2, FrontAdds
  <2>4. MergeSingleValue(list, value) = new
    BY <1>1, <1>3, <2>1, <2>2 DEF MergeSingleValue
  <2>5. new # <<>> /\ 1 \in DOMAIN new /\ DOMAIN new \subseteq Nat \ {0}
    BY <2>2, <2>3
  <2>6. PrimaryAt(new) = 1
    <3>0. \A k \in DOMAIN new : 1 <= k
      BY <2>5
    <3>1. new[1].primary /\ \A k \in DOMAIN new : new[k].primary => 1 <= k
      BY <2>1, <2>3, <3>0
    <3>2. \A i \in DOMAIN new :
            (new[i].primary /\ \A k \in DOMAIN new : new[k].primary => i <= k) => i = 1
      BY <2>5, <3>1
    <3> QED
      BY <2>5, <3>1, <3>2 DEF PrimaryAt
  <2>7. PrimaryOrFirst(new) = value
    BY <2>1, <2>3, <2>5, <2>6 DEF PrimaryOrFirst
  <2> QED
    BY <1>1, <2>3, <2>4, <2>7
<1> QED
  BY <1>2, <1>3

LEMMA OrgsRead ==
  ASSUME NEW list \in Seq(Entries(Jobs)), NEW value \in Jobs \cup {Blank}
  PROVE  /\ MergeOrgs(list, value) \in Seq(Entries(Jobs))
         /\ Values(Others(list)) \subseteq Values(MergeOrgs(list, value))
         /\ value # Blank => PrimaryOrFirst(MergeOrgs(list, value)) = value
BY OverlayReads, OthersStay DEF MergeOrgs

\* The overlaid addresses keep those that are no profile; a profile is found.
LEMMA UrlsRead ==
  ASSUME NEW list \in Seq(Entries(Links \cup {"site"})), NEW value \in Links \cup {Blank}
  PROVE  /\ MergeUrls(list, value) \in Seq(Entries(Links \cup {"site"}))
         /\ {list[i].value : i \in KeptIn(list)} \subseteq Values(MergeUrls(list, value))
         /\ value \in Profiles /\ value # Blank => FirstLinkedin(MergeUrls(list, value)) = value
<1> DEFINE V == Links \cup {"site"}
<1> HIDE DEF V
<1>1. PICK rest \in Seq(Entries(V)) : rest = WithoutLinkedin(list)
  BY FilterKeeps DEF V
<1>2. {list[i].value : i \in KeptIn(list)} \subseteq Values(rest)
  BY <1>1, FilterKeeps DEF V
<1>3. CASE value = Blank
  BY <1>1, <1>2, <1>3 DEF MergeUrls, V
<1>4. CASE value # Blank
  <2>1. PICK e \in Entries(V) : e = Entry(value, TRUE) /\ e.value = value
    <3>1. value \in V
      BY <1>4 DEF V
    <3> QED
      BY <3>1, EntryFields
  <2>2. PICK new : new = <<e>> \o rest
    OBVIOUS
  <2>3. new \in Seq(Entries(V)) /\ new[1] = e /\ Values(rest) \subseteq Values(new)
    BY <2>2, FrontAdds
  <2>4. MergeUrls(list, value) = new
    BY <1>1, <1>4, <2>1, <2>2 DEF MergeUrls
  <2>5. 1 \in 1 .. Len(new) /\ Len(new) \in Nat
    BY <2>2, <2>3
  <2>6. ASSUME value \in Profiles
        PROVE  FirstLinkedin(new) = value
    <3> DEFINE I == {i \in 1 .. Len(new) : IsLinkedinUrl(new[i])}
    <3>0. IsLinkedinUrl(new[1])
      BY <2>1, <2>3, <2>6 DEF IsLinkedinUrl
    <3>1. 1 \in I /\ I \subseteq Nat \ {0}
      <4>1. 1 .. Len(new) \subseteq Nat \ {0}
        BY <2>5
      <4>2. 1 \in I /\ I \subseteq 1 .. Len(new)
        BY <2>5, <3>0
      <4> QED
        BY <4>1, <4>2
    <3>2. Min(I) = 1
      BY <3>1 DEF Min
    <3>3. SelectInSeq(new, IsLinkedinUrl) = IF I # {} THEN Min(I) ELSE 0
      BY DEF SelectInSeq
    <3> HIDE DEF I
    <3>4. SelectInSeq(new, IsLinkedinUrl) = 1
      BY <3>1, <3>2, <3>3
    <3>5. FirstLinkedin(new) = new[1].value
      BY <3>4 DEF FirstLinkedin
    <3> QED
      BY <2>1, <2>3, <3>5
  <2> QED
    BY <1>2, <2>3, <2>4, <2>6 DEF V
<1> QED
  BY <1>3, <1>4

\* The parts of a person a push writes.
LEMMA MergedParts ==
  ASSUME NEW c \in ContactValue, NEW p \in Persons
  PROVE  /\ MergedPerson(c, p) \in Persons
         /\ MergedPerson(c, p).mails = MergeSingleValue(p.mails, c.mail)
         /\ MergedPerson(c, p).orgs = MergeOrgs(p.orgs, c.org)
         /\ MergedPerson(c, p).urls = MergeUrls(p.urls, c.link)
         /\ MergedPerson(c, p).bio = c.bio
<1>1. /\ c.mail \in Mails \cup {Blank} /\ c.org \in Jobs \cup {Blank}
      /\ c.link \in Links \cup {Blank} /\ c.bio \in {"text", Blank}
  BY DEF ContactValue
<1>2. /\ p.mails \in Seq(Entries(Mails)) /\ p.orgs \in Seq(Entries(Jobs))
      /\ p.urls \in Seq(Entries(Links \cup {"site"}))
  BY DEF Persons
<1>3. PICK ms \in Seq(Entries(Mails)) : ms = MergeSingleValue(p.mails, c.mail)
  BY <1>1, <1>2, OverlayReads
<1>4. PICK os \in Seq(Entries(Jobs)) : os = MergeOrgs(p.orgs, c.org)
  BY <1>1, <1>2, OrgsRead
<1>5. PICK us \in Seq(Entries(Links \cup {"site"})) : us = MergeUrls(p.urls, c.link)
  BY <1>1, <1>2, UrlsRead
<1>6. MergedPerson(c, p) = [mails |-> ms, orgs |-> os, urls |-> us, bio |-> c.bio]
  BY <1>3, <1>4, <1>5 DEF MergedPerson
<1> QED
  BY <1>1, <1>3, <1>4, <1>5, <1>6 DEF Persons

\* What a pull takes from a person, and what becomes of the contact.
LEMMA TakenTypes ==
  ASSUME NEW c \in ContactValue, NEW p \in Persons
  PROVE  TakenIn(c, Normalized(p)) \in ContactValue
<1>1. /\ p.mails \in Seq(Entries(Mails)) /\ p.orgs \in Seq(Entries(Jobs))
      /\ p.urls \in Seq(Entries(Links \cup {"site"})) /\ p.bio \in {"text", Blank}
  BY DEF Persons
<1>2. ASSUME NEW V, NEW list \in Seq(Entries(V))
      PROVE  PrimaryOrFirst(list) \in V \cup {Blank}
  <2>1. CASE list = <<>>
    BY <2>1 DEF PrimaryOrFirst
  <2>2. CASE list # <<>>
    <3>1. PICK n \in 1 .. Len(list) : n = PrimaryAt(list)
      BY <1>2, <2>2, PrimaryIsThere
    <3>2. list[n] \in Entries(V)
      BY <1>2
    <3>3. list[n].value \in V
      BY <3>2 DEF Entries
    <3> QED
      BY <2>2, <3>1, <3>3 DEF PrimaryOrFirst
  <2> QED
    BY <2>1, <2>2
<1>3. FirstLinkedin(p.urls) \in Links \cup {Blank}
  <2> DEFINE I == {i \in 1 .. Len(p.urls) : IsLinkedinUrl(p.urls[i])}
  <2>1. I \in SUBSET Nat /\ Len(p.urls) \in Nat
    BY <1>1
  <2>2. SelectInSeq(p.urls, IsLinkedinUrl) = IF I # {} THEN Min(I) ELSE 0
    BY DEF SelectInSeq
  <2>3. CASE I = {}
    BY <2>2, <2>3 DEF FirstLinkedin
  <2>4. CASE I # {}
    <3>1. \E n \in I : \A m \in I : n <= m
      BY <2>1, <2>4, LeastNat
    <3>2. Min(I) \in I
      BY <3>1 DEF Min
    <3>3. PICK i \in I : i = SelectInSeq(p.urls, IsLinkedinUrl)
      BY <2>2, <2>4, <3>2
    <3>4. i # 0 /\ p.urls[i].value \in Profiles
      BY <3>3 DEF IsLinkedinUrl
    <3> QED
      BY <3>3, <3>4 DEF FirstLinkedin, Links
  <2> QED
    BY <2>3, <2>4
<1>4. PICK n \in ContactValue : n = Normalized(p)
  BY <1>1, <1>2, <1>3 DEF Normalized, ContactValue
<1>5. c = [mail |-> c.mail, org |-> c.org, link |-> c.link, bio |-> c.bio]
  BY DEF ContactValue
<1>6. DOMAIN c = {"mail", "org", "link", "bio"}
  BY <1>5
<1>7. TakenIn(c, n) = [mail |-> IF n.mail # Blank THEN n.mail ELSE c.mail,
                       org  |-> IF n.org # Blank THEN n.org ELSE c.org,
                       link |-> IF n.link # Blank THEN n.link ELSE c.link,
                       bio  |-> IF n.bio # Blank THEN n.bio ELSE c.bio]
  BY <1>6 DEF TakenIn
<1> QED
  BY <1>4, <1>7 DEF ContactValue

---------------------------------------------------------------------------
\* A user's edit of a list in Google leaves a list.
LEMMA EditsAreLists ==
  ASSUME NEW V, NEW list \in Seq(Entries(V)), NEW value \in V, NEW l \in Edits(list, value)
  PROVE  l \in Seq(Entries(V))
<1>1. \A v \in V, b \in BOOLEAN : Entry(v, b) \in Entries(V)
  BY DEF Entry, Entries
<1>2. CASE l = Append(list, Entry(value, list = <<>>))
  <2>1. Entry(value, list = <<>>) \in Entries(V)
    BY <1>1
  <2> QED
    BY <1>2, <2>1
<1>3. ASSUME NEW k \in DOMAIN list, l = [i \in DOMAIN list |-> Entry(list[i].value, i = k)]
      PROVE  l \in Seq(Entries(V))
  <2>1. \A i \in DOMAIN list : Entry(list[i].value, i = k) \in Entries(V)
    <3> SUFFICES ASSUME NEW i \in DOMAIN list
                 PROVE  Entry(list[i].value, i = k) \in Entries(V)
      OBVIOUS
    <3>1. list[i] \in Entries(V)
      OBVIOUS
    <3>2. list[i].value \in V /\ (i = k) \in BOOLEAN
      BY <3>1 DEF Entries
    <3> QED
      BY <1>1, <3>2
  <2>2. DOMAIN list = 1 .. Len(list) /\ Len(list) \in Nat
    OBVIOUS
  <2> QED
    BY <1>3, <2>1, <2>2
<1>4. ASSUME NEW i \in DOMAIN list, l = RemoveAt(list, i)
      PROVE  l \in Seq(Entries(V))
  BY <1>4 DEF RemoveAt
<1> QED
  BY <1>2, <1>3, <1>4 DEF Edits

LEMMA InitMapper == MapperInit => MapperTypes
<1> SUFFICES ASSUME MapperInit PROVE MapperTypes
  OBVIOUS
<1>1. crmContact \in ContactValue /\ person = MergedPerson(crmContact, EmptyPerson)
  BY DEF MapperInit
<1>2. EmptyPerson \in Persons
  BY DEF EmptyPerson, Persons
<1> QED
  BY <1>1, <1>2, MergedParts DEF MapperTypes

LEMMA EditPersonTypes ==
  ASSUME MapperTypes, EditPerson
  PROVE  MapperTypes'
<1>1. /\ person.mails \in Seq(Entries(Mails)) /\ person.orgs \in Seq(Entries(Jobs))
      /\ person.urls \in Seq(Entries(Links \cup {"site"}))
  BY DEF MapperTypes, Persons
<1>2. crmContact' = crmContact
  BY DEF EditPerson
<1>3. ASSUME NEW v \in Mails, NEW l \in Edits(person.mails, v), person' = [person EXCEPT !.mails = l]
      PROVE  person' \in Persons
  <2>1. l \in Seq(Entries(Mails))
    BY <1>1, EditsAreLists
  <2> QED
    BY <1>3, <2>1 DEF MapperTypes, Persons
<1>4. ASSUME NEW v \in Jobs, NEW l \in Edits(person.orgs, v), person' = [person EXCEPT !.orgs = l]
      PROVE  person' \in Persons
  <2>1. l \in Seq(Entries(Jobs))
    BY <1>1, EditsAreLists
  <2> QED
    BY <1>4, <2>1 DEF MapperTypes, Persons
<1>5. ASSUME NEW l \in Edits(person.urls, "site"), person' = [person EXCEPT !.urls = l]
      PROVE  person' \in Persons
  <2>1. l \in Seq(Entries(Links \cup {"site"}))
    BY <1>1, EditsAreLists
  <2> QED
    BY <1>5, <2>1 DEF MapperTypes, Persons
<1>6. person' \in Persons
  BY <1>3, <1>4, <1>5 DEF EditPerson
<1> QED
  BY <1>2, <1>6 DEF MapperTypes

LEMMA StepMapper ==
  ASSUME MapperTypes, [MapperNext]_mapperVars
  PROVE  MapperTypes'
<1>1. CASE EditContact
  BY <1>1 DEF EditContact, MapperTypes
<1>2. CASE EditPerson
  BY <1>2, EditPersonTypes
<1>3. CASE PushPerson
  <2>1. person' = MergedPerson(crmContact, person) /\ crmContact' = crmContact
    BY <1>3 DEF PushPerson
  <2> QED
    BY <2>1, MergedParts DEF MapperTypes
<1>4. CASE PullPerson
  <2>1. /\ person' = person
        /\ crmContact' = crmContact \/ crmContact' = TakenIn(crmContact, Normalized(person))
    BY <1>4 DEF PullPerson
  <2> QED
    BY <2>1, TakenTypes DEF MapperTypes
<1>5. CASE UNCHANGED mapperVars
  BY <1>5 DEF mapperVars, MapperTypes
<1> QED
  BY <1>1, <1>2, <1>3, <1>4, <1>5 DEF MapperNext

LEMMA PushReads ==
  ASSUME MapperTypes
  PROVE  KeepsExtras /\ ReadsBack
<1> SUFFICES ASSUME PushPerson
             PROVE  KeepsExtras /\ ReadsBack
  BY DEF KeepsExtras, ReadsBack, Pushes
<1>1. PICK p \in Persons : p = MergedPerson(crmContact, person)
  BY MergedParts DEF MapperTypes
<1>2. person' = p /\ lastPushed' = crmContact
  BY <1>1 DEF PushPerson
<1>3. /\ p.mails = MergeSingleValue(person.mails, crmContact.mail)
      /\ p.orgs = MergeOrgs(person.orgs, crmContact.org)
      /\ p.urls = MergeUrls(person.urls, crmContact.link) /\ p.bio = crmContact.bio
  BY <1>1, MergedParts DEF MapperTypes
<1>4. /\ crmContact.mail \in Mails \cup {Blank} /\ crmContact.org \in Jobs \cup {Blank}
      /\ crmContact.link \in Links \cup {Blank}
      /\ person.mails \in Seq(Entries(Mails)) /\ person.orgs \in Seq(Entries(Jobs))
      /\ person.urls \in Seq(Entries(Links \cup {"site"}))
  BY DEF MapperTypes, ContactValue, Persons
<1>5. /\ Values(Others(person.mails)) \subseteq Values(p.mails)
      /\ crmContact.mail # Blank => PrimaryOrFirst(p.mails) = crmContact.mail
  BY <1>3, <1>4, OverlayReads
<1>6. /\ Values(Others(person.orgs)) \subseteq Values(p.orgs)
      /\ crmContact.org # Blank => PrimaryOrFirst(p.orgs) = crmContact.org
  BY <1>3, <1>4, OrgsRead
<1>7. /\ {person.urls[i].value : i \in KeptIn(person.urls)} \subseteq Values(p.urls)
      /\ crmContact.link \in Profiles /\ crmContact.link # Blank
           => FirstLinkedin(p.urls) = crmContact.link
  BY <1>3, <1>4, UrlsRead
<1>8. KeepsExtras
  BY <1>2, <1>5, <1>6, <1>7 DEF KeepsExtras
<1>9. ReadsBack
  <2> SUFFICES ASSUME \A f \in DOMAIN crmContact : crmContact[f] # Blank,
                      crmContact.link \in Profiles
               PROVE  Normalized(p) = crmContact
    BY <1>2 DEF ReadsBack
  <2>1. crmContact = [mail |-> crmContact.mail, org |-> crmContact.org,
                      link |-> crmContact.link, bio |-> crmContact.bio]
    BY DEF MapperTypes, ContactValue
  <2>2. DOMAIN crmContact = {"mail", "org", "link", "bio"}
    BY <2>1
  <2>3. crmContact.mail # Blank /\ crmContact.org # Blank /\ crmContact.link # Blank
    BY <2>2
  <2> QED
    BY <1>3, <1>5, <1>6, <1>7, <2>1, <2>3 DEF Normalized
<1> QED
  BY <1>8, <1>9

\* For any contact and person, with any entries in any order: a push takes
\* away nothing but the slots it writes, and a pull reads back what was pushed
\* (contactMapper.ts, mergePerson and personToNormalized).
THEOREM PushesAreFaithful == MapperSpec => PushIsFaithful
<1>1. MapperInit => MapperTypes
  BY InitMapper
<1>2. MapperTypes /\ [MapperNext]_mapperVars => MapperTypes'
  BY StepMapper
<1>3. MapperTypes => [KeepsExtras]_mapperVars /\ [ReadsBack]_mapperVars
  BY PushReads
<1>4. MapperSpec => [][KeepsExtras]_mapperVars /\ [][ReadsBack]_mapperVars
  BY <1>1, <1>2, <1>3, PTL DEF MapperSpec
<1>5. MapperSpec => ExtrasKept
  BY <1>4 DEF ExtrasKept
<1>6. MapperSpec => EchoRecognised
  BY <1>4 DEF EchoRecognised
<1> QED
  BY <1>5, <1>6 DEF PushIsFaithful
=============================================================================
