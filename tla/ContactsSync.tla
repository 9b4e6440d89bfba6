----------------------------- MODULE ContactsSync -----------------------------
(***************************************************************************)
(* One contact of the CRM and its persons in one Google address book: the  *)
(* edits on both sides, the pull that applies changed persons, the push    *)
(* jobs that edits enqueue, and the link rows with their two echo hashes.  *)
(*                                                                         *)
(* All fields of a contact are one value, which is also its fingerprint;   *)
(* every person carries the contact's e-mail address.  A stamp of one      *)
(* clock is a row's updatedAt and a person's updateTime and etag.          *)
(***************************************************************************)
EXTENDS Integers, FiniteSets

CONSTANTS
    Resources,     \* resource names Google can give
    PushSlots,     \* concurrent push jobs
    MaxEdits,      \* edits of the user, on either side
    MaxSyncFaults, \* crashes of the worker
    CrashPoints,   \* stages of a push job in which it may crash
    Reverts,       \* whether an edit may bring back an earlier value
    SyncOverlap    \* whether a push and a pull may run at the same time

ASSUME ContactsAssumption ==
    /\ MaxEdits \in Nat /\ MaxSyncFaults \in Nat
    /\ Reverts \in BOOLEAN /\ SyncOverlap \in BOOLEAN

VARIABLES
    contact,       \* the Contact row
    persons,       \* Google's persons, by resource name
    links,         \* ContactGoogleLink rows, by resource name
    feed,          \* resources changed since the sync token
    batch,         \* persons a pull has listed and not yet applied
    upserts,       \* push jobs waiting for the contact
    removals,      \* push jobs waiting to delete a person
    push,          \* the push job of each slot
    clock,         \* the last stamp given
    edits,         \* edits made
    lastEdit,      \* where the last edit was made, and the links it must pass
    syncFaults

googleVars == <<persons, feed>>
pushVars == <<upserts, removals, push>>
userVars == <<edits, lastEdit>>
contactsVars == <<contact, googleVars, links, batch, pushVars, clock, userVars, syncFaults>>

NoContact == [id |-> 0, value |-> 0, at |-> 0]
NoPerson == [state |-> "absent", value |-> 0, at |-> 0]
NoLink == [of |-> 0, pushed |-> 0, pulled |-> 0]
Resting == [at |-> "idle"]
NoEdit == [by |-> "none", over |-> {}, value |-> 0]

Present == contact # NoContact
Linked(r) == links[r] # NoLink
LinkedTo(id) == {r \in Resources : Linked(r) /\ links[r].of = id}

ContactsInit ==
    /\ contact = NoContact
    /\ persons = [r \in Resources |-> NoPerson]
    /\ links = [r \in Resources |-> NoLink]
    /\ feed = {} /\ batch = <<>>
    /\ upserts = 0 /\ removals = {}
    /\ push = [s \in PushSlots |-> Resting]
    /\ clock = 0 /\ edits = 0 /\ lastEdit = NoEdit /\ syncFaults = 0

PullIdle == DOMAIN batch = {}
PushIdle == \A s \in PushSlots : push[s] = Resting

\* Every change of a person, by the user or by a push, is in the feed.
SetPerson(r, state, value) ==
    /\ persons' = [persons EXCEPT ![r] = [state |-> state, value |-> value, at |-> clock + 1]]
    /\ feed' = feed \cup {r}
    /\ clock' = clock + 1

-----------------------------------------------------------------------------
(* The user's edits, in the CRM and at Google.                             *)

Edit(where, over, v) ==
    /\ edits < MaxEdits
    /\ edits' = edits + 1
    /\ lastEdit' = [by |-> where, over |-> over, value |-> v]

EditValue(v) == IF Reverts THEN v \in 1..(edits + 1) ELSE v = edits + 1

\* POST and PATCH of a contact commit, then enqueue a push of it.
SaveContact(v) ==
    /\ Edit("crm", LinkedTo(contact.id), v) /\ EditValue(v)
    /\ contact' = [id |-> IF Present THEN contact.id ELSE clock + 1, value |-> v, at |-> clock + 1]
    /\ clock' = clock + 1
    /\ upserts' = upserts + 1
    /\ UNCHANGED <<googleVars, links, batch, removals, push, syncFaults>>

\* DELETE: the links cascade; a removal is enqueued for each.  The upserts
\* still waiting find no contact, so they are as good as done.
DeleteContact ==
    /\ Present /\ Edit("none", {}, 0)
    /\ removals' = removals \cup LinkedTo(contact.id)
    /\ links' = [r \in Resources |-> IF links[r].of = contact.id THEN NoLink ELSE links[r]]
    /\ contact' = NoContact
    /\ upserts' = 0
    /\ UNCHANGED <<googleVars, batch, push, clock, syncFaults>>

GoogleEdit(r, v) ==
    /\ persons[r].state = "live"
    /\ Edit("google", {r} \cap LinkedTo(contact.id), v) /\ EditValue(v)
    /\ SetPerson(r, "live", v)
    /\ UNCHANGED <<contact, links, batch, pushVars, syncFaults>>

GoogleAdd(r) ==
    /\ persons[r] = NoPerson
    /\ Edit("none", {}, 0)
    /\ SetPerson(r, "live", edits + 1)
    /\ UNCHANGED <<contact, links, batch, pushVars, syncFaults>>

GoogleDelete(r) ==
    /\ persons[r].state = "live"
    /\ Edit("none", {}, 0)
    /\ SetPerson(r, "deleted", 0)
    /\ UNCHANGED <<contact, links, batch, pushVars, syncFaults>>

-----------------------------------------------------------------------------
(* The pull: a listing, then one transaction per person.                   *)

ListChanges ==
    /\ PullIdle /\ feed # {}
    /\ SyncOverlap \/ PushIdle
    /\ batch' = [r \in feed |-> persons[r]]
    /\ feed' = {}
    /\ UNCHANGED <<contact, persons, links, pushVars, clock, userVars, syncFaults>>

\* Mutant: Google's version wins whenever it is not an echo.
PfIsNewer_Never(person) == FALSE

PfIsNewer(person) == person.at < contact.at

ApplyDone(r) == batch' = [q \in DOMAIN batch \ {r} |-> batch[q]]

\* A linked person: an echo of the last push, older than the contact, or newer.
ApplyLinked(r) ==
    LET person == batch[r]
    IN  /\ r \in DOMAIN batch /\ person.state = "live" /\ Linked(r)
        /\ CASE links[r].pushed = person.value ->
                  /\ links' = [links EXCEPT ![r].pulled = person.value]
                  /\ UNCHANGED <<contact, clock>>
             [] links[r].pushed # person.value /\ PfIsNewer(person) ->
                  UNCHANGED <<contact, links, clock>>
             [] OTHER ->
                  /\ contact' = [contact EXCEPT !.value = person.value, !.at = clock + 1]
                  /\ links' = [links EXCEPT ![r].pulled = person.value]
                  /\ clock' = clock + 1
        /\ ApplyDone(r)
        /\ UNCHANGED <<googleVars, pushVars, userVars, syncFaults>>

\* A person without a link is joined to the contact of its e-mail address,
\* whose own fields win, or becomes a new contact.
ApplyUnlinked(r) ==
    LET person == batch[r]
    IN  /\ r \in DOMAIN batch /\ person.state = "live" /\ ~Linked(r)
        /\ contact' = IF Present THEN [contact EXCEPT !.at = clock + 1]
                      ELSE [id |-> clock + 1, value |-> person.value, at |-> clock + 1]
        /\ links' = [links EXCEPT ![r] = [of |-> contact'.id, pushed |-> 0, pulled |-> person.value]]
        /\ clock' = clock + 1
        /\ ApplyDone(r)
        /\ UNCHANGED <<googleVars, pushVars, userVars, syncFaults>>

\* A deleted person takes its link along; the contact stays.
ApplyDeleted(r) ==
    /\ r \in DOMAIN batch /\ batch[r].state = "deleted"
    /\ links' = [links EXCEPT ![r] = NoLink]
    /\ ApplyDone(r)
    /\ UNCHANGED <<contact, googleVars, pushVars, clock, userVars, syncFaults>>

-----------------------------------------------------------------------------
(* A push job of the worker.                                               *)

Goto(s, job) == push' = [push EXCEPT ![s] = job]
EndPush(s) == Goto(s, Resting)

\* The job is retried, from its beginning.
ThrowPush(s) == EndPush(s) /\ upserts' = upserts + 1

\* Reads the contact it is about.
TakeUpsert(s) ==
    /\ push[s] = Resting /\ upserts > 0
    /\ SyncOverlap \/ PullIdle
    /\ upserts' = upserts - 1
    /\ IF Present
         THEN Goto(s, [at |-> "links", id |-> contact.id, value |-> contact.value])
         ELSE EndPush(s)
    /\ UNCHANGED <<contact, googleVars, links, batch, removals, clock, userVars, syncFaults>>

\* Mutant: only the first of several linked persons is written.
Targets_First(job) ==
    LET all == {r \in LinkedTo(job.id) : links[r].pulled # job.value}
    IN  IF all = {} THEN {} ELSE {CHOOSE r \in all : TRUE}

\* Every link whose last pulled hash is not the contact's.
Targets(job) == {r \in LinkedTo(job.id) : links[r].pulled # job.value}

ReadLinks(s) ==
    LET job == push[s]
    IN  /\ job.at = "links"
        /\ CASE LinkedTo(job.id) = {} ->
                  Goto(s, [at |-> "create", id |-> job.id, value |-> job.value, todo |-> {}])
             [] LinkedTo(job.id) # {} /\ Targets(job) = {} -> EndPush(s)
             [] OTHER ->
                  Goto(s, [at |-> "get", id |-> job.id, value |-> job.value,
                           todo |-> Targets(job), tries |-> 2])
        /\ UNCHANGED <<contact, googleVars, links, batch, upserts, removals, clock, userVars,
                       syncFaults>>

\* Fetches the person's etag.
GetPerson(s, r) ==
    LET job == push[s]
    IN  /\ job.at = "get" /\ r \in job.todo
        /\ persons[r].state = "live"
        /\ Goto(s, [at |-> "update", id |-> job.id, value |-> job.value, todo |-> job.todo,
                    tries |-> job.tries - 1, on |-> r, etag |-> persons[r].at])
        /\ UNCHANGED <<contact, googleVars, links, batch, upserts, removals, clock, userVars,
                       syncFaults>>

\* 404: the link is dropped and the person created again.
PersonGone(s, r) ==
    LET job == push[s]
    IN  /\ job.at = "get" /\ r \in job.todo
        /\ persons[r].state = "deleted"
        /\ IF Linked(r)
             THEN /\ links' = [links EXCEPT ![r] = NoLink]
                  /\ Goto(s, [at |-> "create", id |-> job.id, value |-> job.value,
                              todo |-> job.todo \ {r}])
                  /\ UNCHANGED upserts
             ELSE ThrowPush(s) /\ UNCHANGED links
        /\ UNCHANGED <<contact, googleVars, batch, removals, clock, userVars, syncFaults>>

UpdatePerson(s) ==
    LET job == push[s]
    IN  /\ job.at = "update"
        /\ persons[job.on].state = "live" /\ persons[job.on].at = job.etag
        /\ SetPerson(job.on, "live", job.value)
        /\ Goto(s, [at |-> "record", id |-> job.id, value |-> job.value, todo |-> job.todo,
                    on |-> job.on])
        /\ UNCHANGED <<contact, links, batch, upserts, removals, userVars, syncFaults>>

\* 412: fetched again once, then the job is retried; 404: the job is retried.
UpdateRefused(s) ==
    LET job == push[s]
    IN  /\ job.at = "update"
        /\ persons[job.on].state # "live" \/ persons[job.on].at # job.etag
        /\ IF persons[job.on].state = "live" /\ job.tries > 0
             THEN /\ Goto(s, [at |-> "get", id |-> job.id, value |-> job.value,
                              todo |-> job.todo, tries |-> job.tries])
                  /\ UNCHANGED upserts
             ELSE ThrowPush(s)
        /\ UNCHANGED <<contact, googleVars, links, batch, removals, clock, userVars, syncFaults>>

NextTarget(s, rest) ==
    IF rest = {} THEN EndPush(s)
    ELSE Goto(s, [at |-> "get", id |-> push[s].id, value |-> push[s].value, todo |-> rest,
                  tries |-> 2])

RecordPush(s) ==
    LET job == push[s]
    IN  /\ job.at = "record"
        /\ IF Linked(job.on)
             THEN /\ links' = [links EXCEPT ![job.on].pushed = job.value]
                  /\ NextTarget(s, job.todo \ {job.on})
                  /\ UNCHANGED upserts
             ELSE ThrowPush(s) /\ UNCHANGED links
        /\ UNCHANGED <<contact, googleVars, batch, removals, clock, userVars, syncFaults>>

CreatePerson(s, r) ==
    LET job == push[s]
    IN  /\ job.at = "create"
        /\ persons[r] = NoPerson
        /\ SetPerson(r, "live", job.value)
        /\ Goto(s, [at |-> "link", id |-> job.id, value |-> job.value, todo |-> job.todo, on |-> r])
        /\ UNCHANGED <<contact, links, batch, upserts, removals, userVars, syncFaults>>

\* The link row needs its contact, and a resource name no other link has.
LinkPerson(s) ==
    LET job == push[s]
    IN  /\ job.at = "link"
        /\ IF contact.id = job.id /\ ~Linked(job.on)
             THEN /\ links' = [links EXCEPT ![job.on] =
                                 [of |-> job.id, pushed |-> job.value, pulled |-> 0]]
                  /\ NextTarget(s, job.todo)
                  /\ UNCHANGED upserts
             ELSE ThrowPush(s) /\ UNCHANGED links
        /\ UNCHANGED <<contact, googleVars, batch, removals, clock, userVars, syncFaults>>

\* A removal deletes the person; one already gone is fine.
TakeRemoval(s, r) ==
    /\ push[s] = Resting /\ r \in removals
    /\ SyncOverlap \/ PullIdle
    /\ removals' = removals \ {r}
    /\ IF persons[r].state = "live" THEN SetPerson(r, "deleted", 0)
       ELSE UNCHANGED <<googleVars, clock>>
    /\ Goto(s, [at |-> "unlink", on |-> r])
    /\ UNCHANGED <<contact, links, batch, upserts, userVars, syncFaults>>

UnlinkPerson(s) ==
    /\ push[s].at = "unlink"
    /\ links' = [links EXCEPT ![push[s].on] = NoLink]
    /\ EndPush(s)
    /\ UNCHANGED <<contact, googleVars, batch, upserts, removals, clock, userVars, syncFaults>>

\* The worker process dies: its jobs are run again, the listing is repeated.
SyncCrash ==
    /\ syncFaults < MaxSyncFaults /\ ~(PullIdle /\ PushIdle)
    /\ \A s \in PushSlots : push[s].at \in CrashPoints \cup {"idle"}
    /\ syncFaults' = syncFaults + 1
    /\ upserts' = upserts + Cardinality({s \in PushSlots : push[s].at \notin {"idle", "unlink"}})
    /\ removals' = removals \cup {push[s].on : s \in {t \in PushSlots : push[t].at = "unlink"}}
    /\ push' = [s \in PushSlots |-> Resting]
    /\ feed' = feed \cup DOMAIN batch
    /\ batch' = <<>>
    /\ UNCHANGED <<contact, persons, links, clock, userVars>>

-----------------------------------------------------------------------------
Quiet == feed = {} /\ PullIdle /\ upserts = 0 /\ removals = {} /\ PushIdle

ContactsIdle == Quiet /\ UNCHANGED contactsVars

PushStep(s) ==
    \/ TakeUpsert(s) \/ ReadLinks(s) \/ UpdatePerson(s) \/ UpdateRefused(s)
    \/ RecordPush(s) \/ LinkPerson(s) \/ UnlinkPerson(s)
    \/ \E r \in Resources :
         GetPerson(s, r) \/ PersonGone(s, r) \/ CreatePerson(s, r) \/ TakeRemoval(s, r)

ContactsNext ==
    \/ \E v \in 1..MaxEdits : SaveContact(v) \/ \E r \in Resources : GoogleEdit(r, v)
    \/ DeleteContact
    \/ \E r \in Resources : GoogleAdd(r) \/ GoogleDelete(r)
    \/ ListChanges
    \/ \E r \in Resources : ApplyLinked(r) \/ ApplyUnlinked(r) \/ ApplyDeleted(r)
    \/ \E s \in PushSlots : PushStep(s)
    \/ SyncCrash
    \/ ContactsIdle

ContactsSpec == ContactsInit /\ [][ContactsNext]_contactsVars

-----------------------------------------------------------------------------
(***************************************************************************)
(* Properties.                                                             *)
(***************************************************************************)

\* When nothing is left to sync and the last edit was made in the CRM, the
\* contact still shows it and so does every person that was linked to it.
CrmEditsReachGoogle ==
    Quiet /\ lastEdit.by = "crm" =>
      /\ contact.value = lastEdit.value
      /\ \A r \in lastEdit.over \cap LinkedTo(contact.id) : persons[r].value = lastEdit.value

\* A pull never takes a contact back to an older edit than the one it shows.
ContactKeepsNewest ==
    [][contact'.id = contact.id => contact'.value >= contact.value]_contactsVars

\* Both sides of a link agree on the newest edit.
NewestEditWins == []CrmEditsReachGoogle /\ ContactKeepsNewest
=============================================================================
