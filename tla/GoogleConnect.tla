---------------------------- MODULE GoogleConnect ----------------------------
(***************************************************************************)
(* One user's connection to Google: the consent round trip with its        *)
(* one-shot state row, the account row and its two children (contacts and  *)
(* calendar sync), the per-account schedules in Redis, disconnect, and the *)
(* settings card that decides which buttons exist.                         *)
(* apps/api/src/routes/integrations/google.ts, integrations/google/        *)
(* oauthClient.ts, lib/queue.ts (Google producers), index.ts (boot),       *)
(* apps/web/src/pages/settings/IntegrationsCard.tsx.                       *)
(*                                                                         *)
(* What Google has granted is a set of intents; a refresh token works while*)
(* it is not empty.  A pull is one step here (its pages: ContactsPull);    *)
(* the push switch and the calendar's delta token are left out.            *)
(***************************************************************************)
EXTENDS Naturals, FiniteSets

CONSTANTS StateIds,         \* OAuthState ids /start can still draw
          Callbacks,        \* callback requests that can be in flight
          Cards,            \* open settings pages
          MaxLinkFaults     \* bound: Redis, exchange and grant failures

ASSUME ConnectAssumption == MaxLinkFaults \in Nat

VARIABLES oauth,        \* OAuthState rows: [state, intent]
          uses,         \* connections a state row has made
          account,      \* GoogleAccount: [state, scopes]
          contactsRow,  \* GoogleContactsSync: [row, inbound, full]
          calendarRow,  \* GoogleCalendarSync: [row, enabled]
          crons,        \* repeatables in Redis (the calendar's two are one)
          pulls,        \* pinned pull jobs waiting, by kind
          retained,     \* pinned pull jobs finished and still in Redis
          granted,      \* intents Google has granted
          callback,     \* callback requests
          leaving,      \* the disconnect request in flight
          revoking,     \* revokeRefreshToken has not landed yet
          card,         \* the status each settings page last loaded
          wanted,       \* the last thing the user finished was connecting
          synced,       \* a contacts pull has run since then
          linkFaults

connectVars == <<oauth, uses, account, contactsRow, calendarRow, crons, pulls,
                 retained, granted, callback, leaving, revoking, card, wanted,
                 synced, linkFaults>>

Intents == {"contacts", "calendar"}
Kinds == {"initial", "incremental"}
NoRow == [state |-> "none", scopes |-> {}]
IdleCallback == [pc |-> "rest", of |-> "none", got |-> {}]

\* GET /status as the card keeps it: whether the account is connected.
Status == account.state = "on"

ConnectInit ==
    /\ oauth = [s \in StateIds |-> [state |-> "free", intent |-> "contacts"]]
    /\ uses = [s \in StateIds |-> 0]
    /\ account = NoRow
    /\ contactsRow = [row |-> FALSE, inbound |-> FALSE, full |-> FALSE]
    /\ calendarRow = [row |-> FALSE, enabled |-> FALSE]
    /\ crons = {} /\ pulls = {} /\ retained = {}
    /\ granted = {}
    /\ callback = [c \in Callbacks |-> IdleCallback]
    /\ leaving = "no"
    /\ revoking = FALSE
    /\ card = [t \in Cards |-> Status]
    /\ wanted = FALSE /\ synced = FALSE
    /\ linkFaults = 0

OAuthRows == [state : {"free", "open", "used", "gone"}, intent : Intents]
CallbackRuns == [pc : {"rest", "exchange", "account", "child", "enqueue"},
                 of : StateIds \cup {"none"}, got : SUBSET Intents]

ConnectTypeOK ==
    /\ oauth \in [StateIds -> OAuthRows]
    /\ uses \in [StateIds -> Nat]
    /\ callback \in [Callbacks -> CallbackRuns]
    /\ \A c \in Callbacks : callback[c].pc # "rest" => callback[c].of \in StateIds
    /\ account \in [state : {"none", "on", "off"}, scopes : SUBSET Intents]
    /\ contactsRow \in [row : BOOLEAN, inbound : BOOLEAN, full : BOOLEAN]
    /\ calendarRow \in [row : BOOLEAN, enabled : BOOLEAN]
    /\ crons \subseteq Intents
    /\ pulls \subseteq Kinds /\ retained \subseteq Kinds
    /\ granted \subseteq Intents
    /\ leaving \in {"no", "contacts", "calendar", "uncron", "uncal"}
    /\ card \in [Cards -> BOOLEAN]
    /\ revoking \in BOOLEAN /\ wanted \in BOOLEAN /\ synced \in BOOLEAN
    /\ linkFaults \in 0..MaxLinkFaults

LinkFault == /\ linkFaults < MaxLinkFaults
             /\ linkFaults' = linkFaults + 1

\* Groups of variables an action leaves alone.
rowsSame == UNCHANGED <<account, contactsRow, calendarRow>>
queueSame == UNCHANGED <<crons, pulls, retained>>
oauthSame == UNCHANGED <<oauth, uses, callback>>
pageSame == UNCHANGED <<card, leaving, revoking, wanted>>

------------------------------------------------------------------------------
(* The settings card.                                                      *)

\* ConnectedState, without the calendar's own buttons.
ConnectedOffers == {"resync", "disconnect", "consent calendar"}

\* What the page offers by the status it shows: only the disconnected state
\* connects contacts.
ConnectOffered(t) == IF card[t] THEN ConnectedOffers ELSE {"connect"}

LoadStatus(t) ==
    /\ card[t] # Status
    /\ card' = [card EXCEPT ![t] = Status]
    /\ UNCHANGED <<leaving, revoking, wanted, granted, synced, linkFaults>>
    /\ rowsSame /\ queueSame /\ oauthSame

\* A fresh random id; which of the free ones does not matter.
Drawn == CHOOSE s \in StateIds : oauth[s].state = "free"

\* GET /start: this user's unconsumed states are deleted, a new one is made.
StartConsent(t, intent) ==
    /\ (IF intent = "contacts" THEN "connect" ELSE "consent calendar") \in ConnectOffered(t)
    /\ \E s \in StateIds : oauth[s].state = "free"
    /\ oauth' = [r \in StateIds |->
          IF r = Drawn THEN [state |-> "open", intent |-> intent]
          ELSE IF oauth[r].state = "open" THEN [oauth[r] EXCEPT !.state = "gone"]
          ELSE oauth[r]]
    /\ UNCHANGED <<uses, callback, granted, synced, linkFaults>>
    /\ rowsSame /\ queueSame /\ pageSame

\* An add with a pinned jobId is nothing while that job waits or is retained.
AddPull(kind) == pulls' = pulls \cup ({kind} \ retained)

\* POST /contacts/resync: 409 and 404 leave everything as it is.
Resync(t) ==
    /\ "resync" \in ConnectOffered(t)
    /\ account.state = "on" /\ contactsRow.row
    /\ AddPull(IF contactsRow.full THEN "incremental" ELSE "initial")
    /\ UNCHANGED <<crons, retained, granted, synced, linkFaults>>
    /\ rowsSame /\ oauthSame /\ pageSame

\* The per-account repeatables, whose ids make a second registration nothing.
Schedule(intent) == crons' = crons \cup {intent}
Unschedule(intent) == crons' = crons \ {intent}

------------------------------------------------------------------------------
(* GET /callback, a request at a time; the browser may follow it twice.    *)

\* Mutant: the claim looks only at the id.
StateClaimable_ById(s) == oauth[s].state \in {"open", "used"}

\* updateMany where consumedAt is null, not expired, this user's.
StateClaimable(s) == oauth[s].state = "open"

Claim(c, s) ==
    /\ callback[c].pc = "rest"
    /\ oauth[s].state \in {"open", "used"}
    /\ StateClaimable(s)
    /\ oauth' = [oauth EXCEPT ![s].state = "used"]
    /\ callback' = [callback EXCEPT ![c] = [IdleCallback EXCEPT !.pc = "exchange",
                                                                !.of = s]]
    /\ UNCHANGED <<uses, granted, synced, linkFaults>>
    /\ rowsSame /\ queueSame /\ pageSame

\* The ten minutes pass, or the user denies: the row can connect no more.
StateExpires(s) ==
    /\ oauth[s].state = "open"
    /\ oauth' = [oauth EXCEPT ![s].state = "gone"]
    /\ UNCHANGED <<uses, callback, granted, synced, linkFaults>>
    /\ rowsSame /\ queueSame /\ pageSame

\* exchangeCodeForTokens; include_granted_scopes returns earlier grants too.
Exchange(c) ==
    /\ callback[c].pc = "exchange"
    /\ \/ /\ granted' = granted \cup {oauth[callback[c].of].intent}
          /\ callback' = [callback EXCEPT ![c].pc = "account", ![c].got = granted']
          /\ UNCHANGED linkFaults
       \/ /\ LinkFault
          /\ callback' = [callback EXCEPT ![c] = IdleCallback]
          /\ UNCHANGED granted
    /\ UNCHANGED <<oauth, uses, synced>>
    /\ rowsSame /\ queueSame /\ pageSame

\* Created, or the row of an earlier connection overwritten and enabled.
Connected(scopes) == [state |-> "on", scopes |-> scopes]

UpsertAccount(c) ==
    /\ callback[c].pc = "account"
    /\ account' = Connected(callback[c].got)
    /\ uses' = [uses EXCEPT ![callback[c].of] = @ + 1]
    /\ callback' = [callback EXCEPT ![c].pc = "child"]
    /\ UNCHANGED <<oauth, contactsRow, calendarRow, granted, synced, linkFaults>>
    /\ queueSame /\ pageSame

\* Mutant: a reconnect keeps the flags the disconnect cleared.
Resumed_Kept(r) == [r EXCEPT !.row = TRUE, !.full = FALSE,
                             !.inbound = IF r.row THEN r.inbound ELSE TRUE]

\* Create with its defaults, or the update: inbound again, import restarted.
Resumed(r) == [r EXCEPT !.row = TRUE, !.inbound = TRUE, !.full = FALSE]

InitChild(c) ==
    /\ callback[c].pc = "child"
    /\ IF oauth[callback[c].of].intent = "contacts"
       THEN /\ contactsRow' = Resumed(contactsRow)
            /\ wanted' = TRUE
            /\ synced' = FALSE
            /\ UNCHANGED calendarRow
       ELSE /\ calendarRow' = [row |-> TRUE, enabled |-> TRUE]
            /\ UNCHANGED <<contactsRow, wanted, synced>>
    /\ callback' = [callback EXCEPT ![c].pc = "enqueue"]
    /\ UNCHANGED <<oauth, uses, account, granted, card, leaving, revoking, linkFaults>>
    /\ queueSame

\* The first pull, then the schedule; a Redis error at either is only logged.
EnqueueFirst(c) ==
    LET intent == oauth[callback[c].of].intent
        First == IF intent = "contacts" THEN AddPull("initial") ELSE UNCHANGED pulls
    IN  /\ callback[c].pc = "enqueue"
        /\ \/ First /\ Schedule(intent) /\ UNCHANGED linkFaults
           \/ First /\ LinkFault /\ UNCHANGED crons
           \/ LinkFault /\ UNCHANGED <<pulls, crons>>
        /\ callback' = [callback EXCEPT ![c] = IdleCallback]
        /\ UNCHANGED <<oauth, uses, retained, granted, synced>>
        /\ rowsSame /\ pageSame

CallbackStep(c) == Exchange(c) \/ UpsertAccount(c) \/ InitChild(c) \/ EnqueueFirst(c)

------------------------------------------------------------------------------
(* POST /disconnect: one update after another, no transaction.             *)

Disconnect(t) ==
    /\ "disconnect" \in ConnectOffered(t)
    /\ leaving = "no" /\ account.state # "none"
    /\ account' = [account EXCEPT !.state = "off"]
    /\ revoking' = TRUE
    /\ leaving' = "contacts"
    /\ UNCHANGED <<contactsRow, calendarRow, granted, card, wanted, synced, linkFaults>>
    /\ queueSame /\ oauthSame

LeaveStep ==
    /\ \/ /\ leaving = "contacts"
          /\ contactsRow' = [contactsRow EXCEPT !.inbound = FALSE]
          /\ leaving' = "calendar"
          /\ UNCHANGED <<calendarRow, crons, wanted, linkFaults>>
       \/ /\ leaving = "calendar"
          /\ calendarRow' = [calendarRow EXCEPT !.enabled = FALSE]
          /\ leaving' = "uncron"
          /\ UNCHANGED <<contactsRow, crons, wanted, linkFaults>>
       \/ /\ leaving = "uncron"
          /\ \/ Unschedule("contacts") /\ UNCHANGED linkFaults
             \/ LinkFault /\ UNCHANGED crons
          /\ leaving' = "uncal"
          /\ UNCHANGED <<contactsRow, calendarRow, wanted>>
       \/ /\ leaving = "uncal"
          /\ \/ Unschedule("calendar") /\ UNCHANGED linkFaults
             \/ LinkFault /\ UNCHANGED crons
          /\ leaving' = "no"
          /\ wanted' = FALSE
          /\ UNCHANGED <<contactsRow, calendarRow>>
    /\ UNCHANGED <<account, pulls, retained, granted, revoking, card, synced>>
    /\ oauthSame

\* The revoke nobody awaits: it lands late, or never.
Revoke ==
    /\ revoking
    /\ revoking' = FALSE
    /\ granted' = {}
    /\ UNCHANGED <<card, leaving, wanted, synced, linkFaults>>
    /\ rowsSame /\ queueSame /\ oauthSame

------------------------------------------------------------------------------
(* The contacts worker, the api's boot, and what goes on outside.          *)

\* Google answers a refresh with invalid_grant.
InvalidGrant == granted = {}

\* A pinned job or a tick of the repeatable.  The guards of the pull: account
\* not disabled, inbound enabled; invalid_grant disables the account.
RunPull(kind, ticked) ==
    /\ IF ticked THEN kind = "incremental" /\ "contacts" \in crons
                 ELSE kind \in pulls
    /\ IF ticked THEN UNCHANGED <<pulls, retained>>
       ELSE pulls' = pulls \ {kind} /\ retained' = retained \cup {kind}
    /\ IF account.state # "on" \/ ~contactsRow.inbound
       THEN UNCHANGED <<account, contactsRow, synced>>
       ELSE IF InvalidGrant
       THEN /\ account' = [account EXCEPT !.state = "off"]
            /\ UNCHANGED <<contactsRow, synced>>
       ELSE /\ contactsRow' = [contactsRow EXCEPT !.full = TRUE]
            /\ synced' = TRUE
            /\ UNCHANGED account
    /\ UNCHANGED <<calendarRow, crons, granted, linkFaults>>
    /\ oauthSame /\ pageSame

\* removeOnComplete and removeOnFail: the id can be used again.
JobForgotten(kind) ==
    /\ kind \in retained
    /\ retained' = retained \ {kind}
    /\ UNCHANGED <<crons, pulls, granted, synced, linkFaults>>
    /\ rowsSame /\ oauthSame /\ pageSame

\* Mutant: a boot registers nothing per account.
BootSchedules_None == {}

\* Every account that is not disabled gets its contacts repeatable; the
\* calendar's two are not looked at.
BootSchedules == IF account.state = "on" THEN {"contacts"} ELSE {}

ApiBoot ==
    /\ crons' = crons \cup BootSchedules
    /\ crons' # crons
    /\ UNCHANGED <<pulls, retained, granted, synced, linkFaults>>
    /\ rowsSame /\ oauthSame /\ pageSame

\* Redis comes back empty.
RedisLost ==
    /\ crons \cup pulls \cup retained # {}
    /\ LinkFault
    /\ crons' = {} /\ pulls' = {} /\ retained' = {}
    /\ UNCHANGED <<granted, synced>>
    /\ rowsSame /\ oauthSame /\ pageSame

\* The user withdraws the grant in the Google account.
GrantWithdrawn ==
    /\ granted # {}
    /\ LinkFault
    /\ granted' = {}
    /\ UNCHANGED synced
    /\ rowsSame /\ queueSame /\ oauthSame /\ pageSame

Worker == \E kind \in Kinds, ticked \in BOOLEAN : RunPull(kind, ticked)

ConnectNext ==
    \/ \E t \in Cards : \/ LoadStatus(t) \/ Resync(t)
                        \/ Disconnect(t)
                        \/ \E intent \in Intents : StartConsent(t, intent)
    \/ \E c \in Callbacks : CallbackStep(c) \/ \E s \in StateIds : Claim(c, s)
    \/ \E s \in StateIds : StateExpires(s)
    \/ LeaveStep \/ Revoke \/ Worker \/ ApiBoot
    \/ \E kind \in Kinds : JobForgotten(kind)
    \/ RedisLost \/ GrantWithdrawn

\* Requests run to their end, the worker serves its queue and its repeatables,
\* and an api is started again now and then (every deploy does).
ConnectFair ==
    /\ WF_connectVars(LeaveStep)
    /\ WF_connectVars(ApiBoot)
    /\ \A c \in Callbacks : WF_connectVars(CallbackStep(c))
    /\ \A kind \in Kinds, ticked \in BOOLEAN :
          WF_connectVars(RunPull(kind, ticked))

ConnectSpec == ConnectInit /\ [][ConnectNext]_connectVars /\ ConnectFair

------------------------------------------------------------------------------

\* One consent connects once: following Google's redirect twice, or reloading
\* it, cannot run a second connection off the same state row.
StateConnectsOnce == \A s \in StateIds : uses[s] <= 1

\* A user whose last finished act was connecting contacts gets a pull, however
\* the enqueue, Redis, an earlier disconnect or a retained job stood in the
\* way, or sees the account disabled.
ConnectedSyncs ==
    wanted ~> (synced \/ ~wanted \/ account.state = "off")
==============================================================================
