----------------------------- MODULE ContactsPull -----------------------------
(***************************************************************************)
(* The Google Contacts pull of one account: connecting and disconnecting   *)
(* it, the jobs that BullMQ runs for it, the advisory lock that serialises *)
(* them, and the paged import with its checkpoint in the sync row.         *)
(*                                                                         *)
(* A listing is its pages: page 1 first, the last one carries the sync     *)
(* token of the next incremental listing.  What a page does to a contact   *)
(* is in ContactsSync.                                                     *)
(***************************************************************************)
EXTENDS Integers, FiniteSets

CONSTANTS
    BookPages,     \* pages of the whole address book
    PageCap,       \* MAX_PAGES_PER_JOB
    PullSlots,     \* concurrent pull jobs
    NoPullSlot,    \* the holder of a free lock
    MaxConnects,   \* times the user connects the account
    MaxPullFaults, \* crashes, errors, expiries and failed enqueues
    SlowPulls,     \* whether a run may outlive its lock
    ConnectsSpan   \* whether the user may connect while a run is under way

ASSUME PullAssumption ==
    /\ BookPages \in Nat \ {0} /\ PageCap \in Nat \ {0, 1}
    /\ NoPullSlot \notin PullSlots /\ "dead" \notin PullSlots /\ NoPullSlot # "dead"
    /\ MaxConnects \in Nat /\ MaxPullFaults \in Nat
    /\ SlowPulls \in BOOLEAN /\ ConnectsSpan \in BOOLEAN

VARIABLES
    account,       \* the GoogleAccount row: state and number of its grant
    revoked,       \* grants Google no longer honours
    sync,          \* the GoogleContactsSync row
    imported,      \* pages of the book whose contacts have been applied
    jobs,          \* pull jobs waiting, by the id they were added under
    knownIds,      \* pinned ids BullMQ still holds a job of
    cron,          \* whether the recurring pull is registered
    pullLock,      \* the slot that holds the lock, "dead" after its crash
    expiredOn,     \* slots whose lock expired under their run
    pull,          \* the run of each slot
    consent,       \* the connect or disconnect request under way
    pullFaults     \* faults that happened

syncVars == <<sync, imported>>
queueVars == <<jobs, knownIds, cron>>
pullVars == <<account, revoked, syncVars, queueVars, pullLock, expiredOn, pull, consent, pullFaults>>

Kinds == {"initial", "incremental"}
JobIds == Kinds \cup {"cron"}
SyncTokens == {"none", "fresh", "expired"}
Pages == 1..BookPages

\* next is the page initialPageToken points at, 1 when there is none.
SyncRows == [present : BOOLEAN, inbound : BOOLEAN, done : BOOLEAN,
             token : SyncTokens, next : Pages]

Modes == {"initial", "incremental", "full-fallback"}
NoPull == [at |-> "idle"]
Loading == [at : {"load"}, job : JobIds]
Listing == [at : {"list", "save", "finish"}, job : JobIds, mode : Modes, grant : Nat,
            wasDone : BOOLEAN, useToken : BOOLEAN, page : Pages, last : Pages,
            left : 0..PageCap]
Pulls == Loading \cup Listing

PullTypeOK ==
    /\ account \in [state : {"none", "connected", "disabled"}, grant : 0..MaxConnects]
    /\ revoked \subseteq 0..MaxConnects
    /\ sync \in SyncRows /\ imported \subseteq Pages
    /\ jobs \subseteq JobIds /\ knownIds \subseteq Kinds /\ cron \in BOOLEAN
    /\ pullLock \in PullSlots \cup {NoPullSlot, "dead"}
    /\ expiredOn \subseteq PullSlots
    /\ pull \in [PullSlots -> Pulls \cup {NoPull}]
    /\ consent \in {"none", "row", "enqueue", "inbound", "unschedule"}
    /\ pullFaults \in 0..MaxPullFaults

PullInit ==
    /\ account = [state |-> "none", grant |-> 0]
    /\ revoked = {}
    /\ sync = [present |-> FALSE, inbound |-> FALSE, done |-> FALSE, token |-> "none", next |-> 1]
    /\ imported = {}
    /\ jobs = {} /\ knownIds = {} /\ cron = FALSE
    /\ pullLock = NoPullSlot /\ expiredOn = {}
    /\ pull = [s \in PullSlots |-> NoPull]
    /\ consent = "none" /\ pullFaults = 0

PullFault == pullFaults < MaxPullFaults /\ pullFaults' = pullFaults + 1

-----------------------------------------------------------------------------
(* The user: OAuth callback, disconnect, Resync now, toggles; API boots.   *)

\* BullMQ drops an add whose id it already holds a job of.
Enqueued(kind) ==
    IF kind \in knownIds THEN UNCHANGED <<jobs, knownIds>>
    ELSE jobs' = jobs \cup {kind} /\ knownIds' = knownIds \cup {kind}

ConnectAccount ==
    /\ consent = "none" /\ account.grant < MaxConnects
    /\ ConnectsSpan \/ \A s \in PullSlots : pull[s] = NoPull
    /\ account' = [state |-> "connected", grant |-> account.grant + 1]
    /\ consent' = "row"
    /\ UNCHANGED <<revoked, syncVars, queueVars, pullLock, expiredOn, pull, pullFaults>>

\* Mutant: a reconnect leaves the done mark of the import it restarts.
RestartImport_KeepToken(row) ==
    [row EXCEPT !.present = TRUE, !.inbound = TRUE, !.done = FALSE]

RestartImport(row) ==
    [row EXCEPT !.present = TRUE, !.inbound = TRUE, !.done = FALSE, !.next = 1]

\* The import starts over, so the pages it must apply do.
ConnectRow ==
    /\ consent = "row"
    /\ sync' = RestartImport(sync)
    /\ imported' = {}
    /\ consent' = "enqueue"
    /\ UNCHANGED <<account, revoked, queueVars, pullLock, expiredOn, pull, pullFaults>>

\* Adds the initial pull and registers the recurring one.
ConnectEnqueue ==
    /\ consent = "enqueue"
    /\ Enqueued("initial")
    /\ cron' = TRUE
    /\ consent' = "none"
    /\ UNCHANGED <<account, revoked, syncVars, pullLock, expiredOn, pull, pullFaults>>

\* Redis is unreachable: the failure is logged, the account stays connected.
ConnectEnqueueFails ==
    /\ consent = "enqueue" /\ PullFault
    /\ consent' = "none"
    /\ UNCHANGED <<account, revoked, syncVars, queueVars, pullLock, expiredOn, pull>>

Disconnect ==
    /\ consent = "none" /\ account.state # "none"
    /\ account' = [account EXCEPT !.state = "disabled"]
    /\ revoked' = revoked \cup {account.grant}
    /\ consent' = "inbound"
    /\ UNCHANGED <<syncVars, queueVars, pullLock, expiredOn, pull, pullFaults>>

DisconnectRow ==
    /\ consent = "inbound"
    /\ sync' = [sync EXCEPT !.inbound = FALSE]
    /\ consent' = "unschedule"
    /\ UNCHANGED <<account, revoked, imported, queueVars, pullLock, expiredOn, pull, pullFaults>>

\* Best effort: a failure leaves the cron, whose jobs find the account disabled.
DisconnectUnschedule ==
    /\ consent = "unschedule"
    /\ \/ cron' = FALSE /\ UNCHANGED pullFaults
       \/ UNCHANGED cron /\ PullFault
    /\ consent' = "none"
    /\ UNCHANGED <<account, revoked, syncVars, jobs, knownIds, pullLock, expiredOn, pull>>

Resync ==
    /\ account.state = "connected" /\ sync.present
    /\ Enqueued(IF sync.done THEN "incremental" ELSE "initial")
    /\ UNCHANGED <<account, revoked, syncVars, cron, pullLock, expiredOn, pull, consent, pullFaults>>

\* Each boot registers the recurring pull of every account that is not disabled.
ApiBoot ==
    /\ account.state = "connected"
    /\ cron' = TRUE
    /\ UNCHANGED <<account, revoked, syncVars, jobs, knownIds, pullLock, expiredOn, pull,
                   consent, pullFaults>>

-----------------------------------------------------------------------------
(* BullMQ and Google on their own.                                         *)

CronTick ==
    /\ cron /\ "cron" \notin jobs
    /\ jobs' = jobs \cup {"cron"}
    /\ UNCHANGED <<account, revoked, syncVars, knownIds, cron, pullLock, expiredOn, pull,
                   consent, pullFaults>>

Running(id) == \E s \in PullSlots : pull[s] # NoPull /\ pull[s].job = id

\* removeOnComplete and removeOnFail: a retained job is dropped by its age.
RetentionEnds(id) ==
    /\ id \in knownIds \ jobs /\ ~Running(id)
    /\ knownIds' = knownIds \ {id}
    /\ UNCHANGED <<account, revoked, syncVars, jobs, cron, pullLock, expiredOn, pull, consent,
                   pullFaults>>

\* Google holds a sync token for about a week.
TokenExpires ==
    /\ sync.token = "fresh" /\ PullFault
    /\ sync' = [sync EXCEPT !.token = "expired"]
    /\ UNCHANGED <<account, revoked, imported, queueVars, pullLock, expiredOn, pull, consent>>

\* The user withdraws the grant at Google.
GrantWithdrawn ==
    /\ account.state = "connected" /\ account.grant \notin revoked /\ PullFault
    /\ revoked' = revoked \cup {account.grant}
    /\ UNCHANGED <<account, syncVars, queueVars, pullLock, expiredOn, pull, consent>>

\* The TTL of the lock passes; its holder crashed, or is slower than the TTL.
LockExpires ==
    /\ pullLock # NoPullSlot
    /\ pullLock = "dead" \/ (SlowPulls /\ PullFault)
    /\ pullLock = "dead" => UNCHANGED pullFaults
    /\ expiredOn' = expiredOn \cup ({pullLock} \cap PullSlots)
    /\ pullLock' = NoPullSlot
    /\ UNCHANGED <<account, revoked, syncVars, queueVars, pull, consent>>

-----------------------------------------------------------------------------
(* A run of the worker.                                                    *)

\* Any free slot will do.
FreeSlot == CHOOSE s \in PullSlots : pull[s] = NoPull

\* A job that finds the lock held completes without doing anything.
TakeJob(s, id) ==
    /\ pull[s] = NoPull /\ s = FreeSlot /\ id \in jobs
    /\ ConnectsSpan \/ consent # "row"
    /\ jobs' = jobs \ {id}
    /\ IF pullLock = NoPullSlot
         THEN pullLock' = s /\ pull' = [pull EXCEPT ![s] = [at |-> "load", job |-> id]]
         ELSE UNCHANGED <<pullLock, pull>>
    /\ UNCHANGED <<account, revoked, syncVars, knownIds, cron, expiredOn, consent, pullFaults>>

\* Deletes the key only while it holds this run's token.
ReleaseLock(s) ==
    /\ pullLock' = IF pullLock = s THEN NoPullSlot ELSE pullLock
    /\ expiredOn' = expiredOn \ {s}

EndRun(s) ==
    /\ pull' = [pull EXCEPT ![s] = NoPull]
    /\ ReleaseLock(s)

\* Mutant: a cron run is incremental whenever there is a token.
ModeOf_TokenOnly(id) ==
    IF id # "initial" /\ sync.token # "none" THEN "incremental" ELSE "initial"

ModeOf(id) ==
    IF id # "initial" /\ sync.done /\ sync.token # "none" THEN "incremental" ELSE "initial"

\* Reads the account and the sync row; the account decides nothing the row's
\* inbound flag does not decide a statement later.
LoadSync(s) ==
    /\ pull[s].at = "load"
    /\ IF account.state = "connected" /\ sync.present /\ sync.inbound
         THEN LET mode == ModeOf(pull[s].job)
              IN  /\ pull' = [pull EXCEPT ![s] =
                       [at |-> "list", job |-> pull[s].job, mode |-> mode,
                        grant |-> account.grant, wasDone |-> sync.done,
                        useToken |-> mode = "incremental",
                        page |-> IF mode = "initial" THEN sync.next ELSE 1,
                        last |-> BookPages, left |-> PageCap]]
                  /\ UNCHANGED <<pullLock, expiredOn>>
         ELSE EndRun(s)
    /\ UNCHANGED <<account, revoked, syncVars, queueVars, consent, pullFaults>>

MayList(s) == pull[s].at = "list" /\ pull[s].left > 0

\* One page is listed and its persons are applied one after another.  An
\* incremental listing has one page, or as many as a book of changes.
ListPage(s) ==
    /\ MayList(s)
    /\ pull[s].grant \notin revoked
    /\ pull[s].useToken => sync.token # "expired"
    /\ \E last \in IF pull[s].useToken THEN {1, BookPages} ELSE {pull[s].last} :
         pull' = [pull EXCEPT ![s].at = "save", ![s].useToken = FALSE, ![s].last = last,
                              ![s].left = @ - 1]
    /\ imported' = IF pull[s].mode = "incremental" THEN imported
                   ELSE imported \cup {pull[s].page}
    /\ UNCHANGED <<account, revoked, sync, queueVars, pullLock, expiredOn, consent, pullFaults>>

\* 410: the listing starts over without a token, one turn of the loop spent.
ListExpired(s) ==
    /\ MayList(s)
    /\ pull[s].grant \notin revoked
    /\ pull[s].useToken /\ sync.token = "expired"
    /\ pull' = [pull EXCEPT ![s].mode = "full-fallback", ![s].useToken = FALSE,
                            ![s].page = 1, ![s].left = @ - 1]
    /\ UNCHANGED <<account, revoked, syncVars, queueVars, pullLock, expiredOn, consent, pullFaults>>

\* invalid_grant: the account is disabled and the run ends.
ListRefused(s) ==
    /\ MayList(s)
    /\ pull[s].grant \in revoked
    /\ account' = [account EXCEPT !.state = "disabled"]
    /\ EndRun(s)
    /\ UNCHANGED <<revoked, syncVars, queueVars, consent, pullFaults>>

\* 429 moves the job to delayed; another error leaves it to BullMQ's retry,
\* or fails it for good when its attempts are used up.
ListFails(s) ==
    /\ MayList(s) /\ PullFault
    /\ \/ jobs' = jobs \cup {pull[s].job}
       \/ UNCHANGED jobs
    /\ EndRun(s)
    /\ UNCHANGED <<account, revoked, syncVars, knownIds, cron, consent>>

IsLast(s) == pull[s].page >= pull[s].last

\* Mutant: the checkpoint of a full listing stays where the run began.
Checkpoint_Stuck(s) == IF pull[s].mode = "initial" THEN sync ELSE [sync EXCEPT !.next = 1]

\* initialPageToken after a page: the next page, or none after the last.
Checkpoint(s) ==
    IF pull[s].mode = "incremental" THEN sync
    ELSE [sync EXCEPT !.next = IF IsLast(s) THEN 1 ELSE pull[s].page + 1]

SaveProgress(s) ==
    /\ pull[s].at = "save"
    /\ sync' = Checkpoint(s)
    /\ pull' = [pull EXCEPT ![s].at = IF IsLast(s) THEN "finish" ELSE "list",
                            ![s].page = IF IsLast(s) THEN @ ELSE @ + 1,
                            ![s].left = IF IsLast(s) THEN 0 ELSE @]
    /\ UNCHANGED <<account, revoked, imported, queueVars, pullLock, expiredOn, consent, pullFaults>>

\* Mutant: a run that ends at its cap is taken for a finished one.
PagesLeft_Ignored(s) == FALSE

PagesLeft(s) == pull[s].page > 1

\* The loop ends at its cap; with no page token left it falls through to the end.
PauseAtCap(s) ==
    /\ pull[s].at = "list" /\ pull[s].left = 0
    /\ IF PagesLeft(s)
         THEN EndRun(s)
         ELSE pull' = [pull EXCEPT ![s].at = "finish"] /\ UNCHANGED <<pullLock, expiredOn>>
    /\ UNCHANGED <<account, revoked, syncVars, queueVars, consent, pullFaults>>

\* Google issues a sync token on the last page of a listing that asked for
\* one: every page of an initial listing and the first page of an incremental
\* one ask (whether Google then answers on a later page is left open); a full
\* fallback never asks.
TokensIssued(s) ==
    CASE pull[s].mode = "initial"                            -> {"fresh"}
      [] pull[s].mode = "incremental" /\ pull[s].last = 1    -> {"fresh"}
      [] pull[s].mode = "incremental" /\ pull[s].last # 1    -> {"fresh", sync.token}
      [] pull[s].mode = "full-fallback"                      -> {sync.token}

\* The end of the listing: a sync token that was issued is pinned.
FinishPull(s) ==
    /\ pull[s].at = "finish"
    /\ \E token \in TokensIssued(s) :
         sync' = [sync EXCEPT !.next = 1, !.token = token,
                              !.done = @ \/ (pull[s].mode # "incremental" /\ ~pull[s].wasDone)]
    /\ EndRun(s)
    /\ UNCHANGED <<account, revoked, imported, queueVars, consent, pullFaults>>

\* The worker process dies: the lock stays until its TTL, the job stalls and
\* is run again, or is failed when it has stalled before.
PullCrash(s) ==
    /\ pull[s] # NoPull /\ PullFault
    /\ \/ jobs' = jobs \cup {pull[s].job}
       \/ UNCHANGED jobs
    /\ pullLock' = IF pullLock = s THEN "dead" ELSE pullLock
    /\ expiredOn' = expiredOn \ {s}
    /\ pull' = [pull EXCEPT ![s] = NoPull]
    /\ UNCHANGED <<account, revoked, syncVars, knownIds, cron, consent>>

-----------------------------------------------------------------------------
PullRunStep(s) ==
    \/ LoadSync(s) \/ ListPage(s) \/ ListExpired(s) \/ ListRefused(s)
    \/ SaveProgress(s) \/ PauseAtCap(s) \/ FinishPull(s)

PullWork ==
    \/ \E s \in PullSlots : PullRunStep(s) \/ (\E id \in JobIds : TakeJob(s, id))
    \/ ConnectRow \/ ConnectEnqueue \/ DisconnectRow \/ DisconnectUnschedule
    \/ CronTick
    \/ pullLock = "dead" /\ LockExpires

PullNext ==
    \/ PullWork
    \/ ConnectAccount \/ ConnectEnqueueFails \/ Disconnect \/ Resync \/ ApiBoot
    \/ (\E id \in Kinds : RetentionEnds(id))
    \/ TokenExpires \/ GrantWithdrawn \/ LockExpires
    \/ \E s \in PullSlots : ListFails(s) \/ PullCrash(s)

\* Workers take jobs and run them, requests end, the cron ticks, locks expire.
PullFair ==
    /\ WF_pullVars(ConnectRow \/ ConnectEnqueue \/ DisconnectRow \/ DisconnectUnschedule)
    /\ WF_pullVars(CronTick)
    /\ WF_pullVars(pullLock = "dead" /\ LockExpires)
    /\ \A s \in PullSlots : WF_pullVars(PullRunStep(s))
    /\ WF_pullVars(\E s \in PullSlots, id \in JobIds : TakeJob(s, id))

PullSpec == PullInit /\ [][PullNext]_pullVars /\ PullFair

-----------------------------------------------------------------------------
(***************************************************************************)
(* Properties.                                                             *)
(***************************************************************************)

\* The page the next run resumes at has every page before it imported since
\* the user connected: whatever crashes, pauses and takeovers of an expired
\* lock come in between, an import is never resumed past a page it missed.
ResumesAfterImported == \A k \in Pages : k < sync.next => k \in imported

\* The import is marked done, and a run asks for changes only, when the
\* whole address book has been imported.
DoneCoversBook ==
    /\ sync.done => imported = Pages
    /\ \A s \in PullSlots :
         pull[s].at = "list" /\ pull[s].mode = "incremental" => imported = Pages

\* An import leaves no page of the book out, however it was cut up.
ImportCoversBook == ResumesAfterImported /\ DoneCoversBook

\* A run that has not outlived its lock holds it: nobody else's release, and
\* no crash of another run, takes it away.
LockKeptUntilExpiry ==
    \A s \in PullSlots : pull[s] # NoPull /\ s \notin expiredOn => pullLock = s

\* Why they hold: a run that lists the whole book has applied every page
\* before the one it is at, its page token is spent only after the first page,
\* and no run is under way while a connect restarts the import.
RestartRests == consent = "row" => \A s \in PullSlots : pull[s] = NoPull

Lists(s) == pull[s].at \in {"list", "save"}

RunCovers(s) ==
    /\ Lists(s) =>
         IF pull[s].mode = "incremental" THEN imported = Pages
         ELSE /\ pull[s].last = BookPages /\ ~pull[s].useToken
              /\ \A k \in Pages : k < pull[s].page => k \in imported
    /\ Lists(s) /\ pull[s].useToken =>
         pull[s].at = "list" /\ pull[s].page = 1 /\ pull[s].last = BookPages /\ pull[s].left >= 2
    /\ pull[s].at = "list" /\ pull[s].page = 1 => pull[s].left >= 1
    /\ pull[s].at = "save" /\ pull[s].mode # "incremental" => pull[s].page \in imported
    /\ pull[s].at = "finish" /\ pull[s].mode # "incremental" => imported = Pages

PullInv ==
    /\ PullTypeOK /\ ResumesAfterImported /\ RestartRests
    /\ sync.done => imported = Pages
    /\ \A s \in PullSlots : RunCovers(s)

\* However large the book and whatever fails on the way, the import of an
\* account that stays connected and scheduled is completed.
ImportCompletes ==
    account.state = "connected" /\ sync.inbound /\ cron
      ~> sync.done \/ account.state # "connected"
=============================================================================
