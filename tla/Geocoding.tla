------------------------------- MODULE Geocoding -------------------------------
(***************************************************************************)
(* Geocoding of a company's address: the button that marks the row pending *)
(* and adds a job, the job with its three attempts, and the company page   *)
(* that polls the row while it is pending.                                 *)
(***************************************************************************)
EXTENDS Integers, FiniteSets

CONSTANTS
    GeoAttempts,    \* attempts of a job
    GeoSlots,       \* concurrent jobs
    MaxSeconds,     \* seconds in which the button is pressed
    MaxAddresses,   \* edits of the address
    MaxGeoFaults    \* failed lookups, failed enqueues and crashes

ASSUME GeocodingAssumption ==
    /\ GeoAttempts \in Nat \ {0} /\ MaxSeconds \in Nat /\ MaxAddresses \in Nat
    /\ MaxGeoFaults \in Nat

VARIABLES
    address,        \* the address: its revision, whether it is complete
    geo,            \* the row: status, and the revisions of address and place it holds
    second,         \* the clock, by which job ids are bucketed
    geoJobs,        \* jobs by bucket: absent, or waiting, active, done and attempts made
    lookup,         \* what each slot does
    page,           \* what the page shows; it polls while that is pending
    button,         \* the request of the button
    geoFaults

geoVars == <<address, geo, second, geoJobs, lookup, page, button, geoFaults>>

Buckets == 1..MaxSeconds
NoLookup == [at |-> "idle"]

GeoInit ==
    /\ address = [rev |-> 0, full |-> TRUE]
    /\ geo = [status |-> "none", of |-> -1, place |-> -1]
    /\ second = 0
    /\ geoJobs = [b \in Buckets |-> [state |-> "absent", made |-> 0]]
    /\ lookup = [s \in GeoSlots |-> NoLookup]
    /\ page = "none" /\ button = "idle" /\ geoFaults = 0

GeoFault == geoFaults < MaxGeoFaults /\ geoFaults' = geoFaults + 1

-----------------------------------------------------------------------------
(* The page and its user.                                                  *)

EditAddress(full) ==
    /\ address.rev < MaxAddresses
    /\ address' = [rev |-> address.rev + 1, full |-> full]
    /\ UNCHANGED <<geo, second, geoJobs, lookup, page, button, geoFaults>>

\* The button is disabled while its request runs or the row is shown pending.
GeocodeOffered == button = "idle" /\ page # "pending"

\* A later press comes in a later second.
PressGeocode ==
    /\ GeocodeOffered /\ second < MaxSeconds
    /\ second' = second + 1
    /\ IF address.full
         THEN button' = "enqueue" /\ geo' = [geo EXCEPT !.status = "pending"]
         ELSE UNCHANGED <<button, geo>>
    /\ UNCHANGED <<address, geoJobs, lookup, page, geoFaults>>

\* The answer puts the pending row into the page's cache.
Enqueue ==
    /\ button = "enqueue"
    /\ geoJobs' = [geoJobs EXCEPT ![second].state = "waiting"]
    /\ page' = "pending" /\ button' = "idle"
    /\ UNCHANGED <<address, geo, second, lookup, geoFaults>>

EnqueueFails ==
    /\ button = "enqueue" /\ GeoFault
    /\ geo' = [geo EXCEPT !.status = "failed"]
    /\ button' = "idle"
    /\ UNCHANGED <<address, second, geoJobs, lookup, page>>

Poll ==
    /\ page = "pending" /\ page # geo.status
    /\ page' = geo.status
    /\ UNCHANGED <<address, geo, second, geoJobs, lookup, button, geoFaults>>

\* The page is left and opened again.
Reopen ==
    /\ button = "idle" /\ page # geo.status
    /\ page' = geo.status
    /\ UNCHANGED <<address, geo, second, geoJobs, lookup, button, geoFaults>>

-----------------------------------------------------------------------------
(* The worker.                                                             *)

GeoJobDone(b) == [geoJobs EXCEPT ![b] = [state |-> "done", made |-> 0]]

\* The latest address is read; an incomplete one fails for good.
StartLookup(s, b) ==
    /\ lookup[s] = NoLookup /\ geoJobs[b].state = "waiting"
    /\ IF address.full
         THEN /\ lookup' = [lookup EXCEPT ![s] = [at |-> "fetch", job |-> b, of |-> address.rev]]
              /\ geoJobs' = [geoJobs EXCEPT ![b].state = "active"]
              /\ UNCHANGED geo
         ELSE /\ geo' = [geo EXCEPT !.status = "failed"]
              /\ geoJobs' = GeoJobDone(b)
              /\ UNCHANGED lookup
    /\ UNCHANGED <<address, second, page, button, geoFaults>>

EndLookup(s, row) ==
    /\ geo' = row
    /\ geoJobs' = GeoJobDone(lookup[s].job)
    /\ lookup' = [lookup EXCEPT ![s] = NoLookup]
    /\ UNCHANGED <<address, second, page, button, geoFaults>>

PlaceFound(s) ==
    /\ lookup[s].at = "fetch"
    /\ EndLookup(s, [status |-> "none", of |-> lookup[s].of, place |-> lookup[s].of])

\* No feature, or a malformed one: not retried.
PlaceUnknown(s) ==
    /\ lookup[s].at = "fetch"
    /\ EndLookup(s, [geo EXCEPT !.status = "failed"])

\* Mutant: attemptsMade is compared without the attempt under way.
IsFinalAttempt_OffByOne(b) == geoJobs[b].made >= GeoAttempts

\* attemptsMade counts the attempts before this one.
IsFinalAttempt(b) == geoJobs[b].made + 1 >= GeoAttempts

\* Mutant: every failed attempt marks the row.
MarksFailure_Any(b) == TRUE

MarksFailure(b) == IsFinalAttempt(b)

\* Mapbox cannot be reached or answers with an error: BullMQ tries again
\* while attempts are left.
LookupFails(s) ==
    LET b == lookup[s].job
    IN  /\ lookup[s].at = "fetch" /\ GeoFault
        /\ geo' = IF MarksFailure(b) THEN [geo EXCEPT !.status = "failed"] ELSE geo
        /\ geoJobs' = [geoJobs EXCEPT ![b] =
                        IF @.made + 1 < GeoAttempts
                          THEN [state |-> "waiting", made |-> @.made + 1]
                          ELSE [state |-> "done", made |-> 0]]
        /\ lookup' = [lookup EXCEPT ![s] = NoLookup]
        /\ UNCHANGED <<address, second, page, button>>

\* The worker dies: the stalled job is run again.
LookupCrash(s) ==
    /\ lookup[s] # NoLookup /\ GeoFault
    /\ geoJobs' = [geoJobs EXCEPT ![lookup[s].job].state = "waiting"]
    /\ lookup' = [lookup EXCEPT ![s] = NoLookup]
    /\ UNCHANGED <<address, geo, second, page, button>>

-----------------------------------------------------------------------------
GeoStep(s) ==
    \/ PlaceFound(s) \/ PlaceUnknown(s)
    \/ \E b \in Buckets : StartLookup(s, b)

GeoNext ==
    \/ (\E full \in BOOLEAN : EditAddress(full))
    \/ PressGeocode \/ Enqueue \/ EnqueueFails \/ Poll \/ Reopen
    \/ \E s \in GeoSlots : GeoStep(s) \/ LookupFails(s) \/ LookupCrash(s)

\* Requests end, the page polls, and the worker works.
GeoFair ==
    /\ WF_geoVars(Enqueue \/ EnqueueFails) /\ WF_geoVars(Poll)
    /\ \A s \in GeoSlots : WF_geoVars(GeoStep(s))

GeoSpec == GeoInit /\ [][GeoNext]_geoVars /\ GeoFair

-----------------------------------------------------------------------------
(***************************************************************************)
(* Properties.                                                             *)
(***************************************************************************)

Underway == {b \in Buckets : geoJobs[b].state \in {"waiting", "active"}}

\* The spinner does not turn forever: a pending row is settled and the page
\* learns of it, whichever attempts fail.
SpinnerStops == page = "pending" ~> page # "pending"

\* The page that waits for an address gets an answer, and a failure is one: it
\* is shown only when no attempt is left that could still succeed behind the
\* back of a page that has stopped polling.
PageIsAnswered ==
    /\ [](page = "failed" /\ button = "idle" => Underway = {})
    /\ SpinnerStops
=============================================================================
