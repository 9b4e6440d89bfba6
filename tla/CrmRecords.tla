------------------------------ MODULE CrmRecords ------------------------------
(* Contacts, companies and deals as the CRM keeps what hangs on them: tags   *)
(* and one SELECT custom field, in rows keyed by (entityType, entityId) with *)
(* no foreign key to the record. REST routes and MCP services run the same   *)
(* transactions under READ COMMITTED; each is split at the point where what  *)
(* it read may have changed before it writes. The web's edit dialogs hold    *)
(* copies of a record, and of the field's definition, that they save whole.  *)
(* Bounds: the sets of ids, options and requests in flight.                  *)
EXTENDS FiniteSets

CONSTANTS Recs,        \* ids of records of one entity type, never reused
          TagIds,      \* ids of tags, never reused
          Choices,     \* values a SELECT option may have
          CrmRequests, \* slots for requests in flight
          CrmOverlap,     \* do requests overlap, or run one after another?
          Empty,       \* no value, no default; an explicit null in a payload
          Unsent       \* the payload leaves the field, or the tags, out

ASSUME CrmAssumption == /\ {Empty, Unsent} \cap Choices = {} /\ Empty # Unsent
                        /\ CrmOverlap \in BOOLEAN

VARIABLES recState, tagState, tagRows, field, value, request, dialog

crmVars == <<recState, tagState, tagRows, field, value, request, dialog>>

Life == {"unborn", "live", "gone"}
NoField == [state |-> "unborn", options |-> {}, active |-> FALSE,
            required |-> FALSE, default |-> Empty]
NoRequest == [pc |-> "idle"]
Closed == [of |-> "none"]

CrmInit ==
  /\ recState = [r \in Recs |-> "unborn"]
  /\ tagState = [t \in TagIds |-> "unborn"]
  /\ tagRows = {}                          \* TagAttachment: <<record, tag>>
  /\ field = NoField                       \* the CustomFieldDefinition
  /\ value = [r \in Recs |-> Empty]        \* its CustomFieldValue rows
  /\ request = [q \in CrmRequests |-> NoRequest]
  /\ dialog = Closed       \* one modal at a time: a record's or the field's

LiveTags == {t \in TagIds : tagState[t] = "live"}
TagsOf(r) == {t \in TagIds : <<r, t>> \in tagRows}
Quiet == CrmOverlap \/ \A q \in CrmRequests : request[q].pc = "idle"
Begin(q, work) == Quiet /\ request' = [request EXCEPT ![q] = work]
Finish(q) == request' = [request EXCEPT ![q] = NoRequest]

------------------------------------------------------------------------------
(* Custom-field payloads (lib/customFields.ts).                              *)

\* An unknown key and a value that is no option of an active field are a 400;
\* an inactive field is skipped before its value is looked at.
PayloadOk(p) ==
  \/ p = Unsent
  \/ /\ field.state = "live"
     /\ field.active /\ p # Empty => p \in field.options

\* What the payload leaves in a record that has `old`.
\* Mutant: the definition's isActive is not looked at.
ValuesWritten_Inactive(p, old) == IF p = Unsent THEN old ELSE p

ValuesWritten(p, old) == IF p = Unsent \/ ~field.active THEN old ELSE p

\* On create an active required field needs a value, sent or defaulted.
\* Mutant: an explicit null passes for a value.
RequiredOk_Null(p) ==
  field.active /\ field.required => p # Unsent \/ field.default # Empty

RequiredOk(p) ==
  field.active /\ field.required =>
    p \in Choices \/ field.default # Empty

\* Defaults fill keys the payload leaves out; one that is no longer an option
\* is logged and skipped.
Defaulted(p) ==
  IF p = Unsent /\ field.active /\ field.default \in field.options
  THEN field.default ELSE ValuesWritten(p, Empty)

------------------------------------------------------------------------------
(* Records.                                                                  *)

\* POST: the tags, the definitions and the payload are read and judged.
CreateReads(q, r, tags, p) ==
  /\ request[q].pc = "idle" /\ recState[r] = "unborn"
  /\ \A other \in CrmRequests : request[other].pc = "create" => request[other].rec # r
  /\ tags \subseteq LiveTags /\ PayloadOk(p) /\ RequiredOk(p)
  /\ Begin(q, [pc |-> "create", rec |-> r, tags |-> tags, val |-> Defaulted(p)])
  /\ UNCHANGED <<recState, tagState, tagRows, field, value, dialog>>

\* The foreign keys to Tag and to the definition still hold, or it rolls back.
KeysHold(q) == /\ request[q].tags \subseteq LiveTags
               /\ request[q].val # Empty => field.state = "live"

CreateCommits(q) ==
  LET r == request[q].rec
  IN /\ request[q].pc = "create"
     /\ Finish(q)
     /\ IF KeysHold(q)
        THEN /\ recState' = [recState EXCEPT ![r] = "live"]
             /\ tagRows' = tagRows \cup ({r} \X request[q].tags)
             /\ value' = [value EXCEPT ![r] = request[q].val]
        ELSE UNCHANGED <<recState, tagRows, value>>
     /\ UNCHANGED <<tagState, field, dialog>>

\* PATCH: the row's update comes first and holds its lock until the commit.
Locked(r) == \E q \in CrmRequests : request[q].pc = "patch" /\ request[q].rec = r

PatchReads(q, r, tags, p) ==
  /\ request[q].pc = "idle"
  /\ recState[r] = "live" /\ ~Locked(r)
  /\ tags # Unsent => tags \subseteq LiveTags
  /\ PayloadOk(p)
  /\ Begin(q, [pc |-> "patch", rec |-> r, tags |-> IF tags = Unsent THEN TagsOf(r) ELSE tags,
               val |-> ValuesWritten(p, value[r])])
  /\ UNCHANGED <<recState, tagState, tagRows, field, value>>

PatchCommits(q) ==
  LET r == request[q].rec
  IN /\ request[q].pc = "patch"
     /\ Finish(q)
     /\ IF KeysHold(q)
        THEN /\ tagRows' = {row \in tagRows : row[1] # r} \cup ({r} \X request[q].tags)
             /\ value' = [value EXCEPT ![r] = request[q].val]
        ELSE UNCHANGED <<tagRows, value>>
     /\ UNCHANGED <<recState, tagState, field, dialog>>

\* DELETE: both deleteMany see the rows committed now; the record's own delete
\* comes last and waits for whoever holds the row.
\* Mutant: the handler forgets the tags.
Swept_ValuesOnly(r) == [tags |-> {}, val |-> value[r]]

Swept(r) == [tags |-> TagsOf(r), val |-> value[r]]

DeleteReads(q, r) ==
  /\ request[q].pc = "idle" /\ recState[r] = "live"
  /\ Begin(q, [pc |-> "delete", rec |-> r, swept |-> Swept(r)])
  /\ UNCHANGED <<recState, tagState, tagRows, field, value, dialog>>

DeleteCommits(q) ==
  LET r == request[q].rec
      swept == request[q].swept
  IN /\ request[q].pc = "delete" /\ ~Locked(r)
     /\ Finish(q)
     /\ IF recState[r] = "live"
        THEN /\ recState' = [recState EXCEPT ![r] = "gone"]
             /\ tagRows' = tagRows \ ({r} \X swept.tags)
             /\ value' = [value EXCEPT ![r] = IF swept.val = Empty THEN @ ELSE Empty]
        ELSE UNCHANGED <<recState, tagRows, value>>     \* deleted meanwhile: rolled back
     /\ UNCHANGED <<tagState, field, dialog>>

------------------------------------------------------------------------------
(* Tags: single statements. Deleting one cascades to its rows.               *)

CreateTag(t) ==
  /\ Quiet
  /\ tagState[t] = "unborn"
  /\ tagState' = [tagState EXCEPT ![t] = "live"]
  /\ UNCHANGED <<recState, tagRows, field, value, request, dialog>>

\* The picker drops the tag it deleted from the selection of its own form.
DeleteTag(t) ==
  /\ Quiet
  /\ tagState[t] = "live"
  /\ tagState' = [tagState EXCEPT ![t] = "gone"]
  /\ tagRows' = {row \in tagRows : row[2] # t}
  /\ \/ UNCHANGED dialog
     \/ /\ dialog.of = "record"
        /\ dialog' = [dialog EXCEPT !.tags = @ \ {t}]
  /\ UNCHANGED <<recState, field, value, request>>

------------------------------------------------------------------------------
(* The field's definition (routes/customFields.ts).                          *)

CreateField(options, required, default) ==
  /\ Quiet
  /\ field.state = "unborn" /\ options # {}
  /\ field' = [state |-> "live", options |-> options, active |-> TRUE,
               required |-> required, default |-> default]
  /\ UNCHANGED <<recState, tagState, tagRows, value, request, dialog>>

Stored == {value[r] : r \in Recs} \ {Empty}

\* PATCH: new options must be some, and keep every stored value.
\* Mutant: only an empty list of options is refused.
NarrowingOk_Any(options) == options # {}

NarrowingOk(options) == options # {} /\ Stored \subseteq options

FieldReads(q, new) ==
  /\ request[q].pc = "idle" /\ field.state = "live"
  /\ NarrowingOk(new.options)
  /\ Begin(q, [pc |-> "field", new |-> new])
  /\ UNCHANGED <<recState, tagState, tagRows, field, value>>

FieldCommits(q) ==
  /\ request[q].pc = "field"
  /\ Finish(q)
  /\ field' = IF field.state = "live" THEN request[q].new ELSE field
  /\ UNCHANGED <<recState, tagState, tagRows, value, dialog>>

\* The buttons Inactivate and Reactivate: no options, so nothing is compared.
ToggleField ==
  /\ Quiet
  /\ field.state = "live"
  /\ field' = [field EXCEPT !.active = ~@]
  /\ UNCHANGED <<recState, tagState, tagRows, value, request, dialog>>

\* DELETE counts the values; the foreign key (Restrict) makes the count safe.
DeleteField ==
  /\ Quiet
  /\ field.state = "live" /\ Stored = {}
  /\ field' = [NoField EXCEPT !.state = "gone"]
  /\ UNCHANGED <<recState, tagState, tagRows, value, request, dialog>>

------------------------------------------------------------------------------
(* The web's dialogs. A record's form holds its tags and its value, a        *)
(* field's form the whole definition; a save sends all of it.                *)

OpenRecordForm(r) ==
  /\ recState[r] = "live"
  /\ dialog' = [of |-> "record", rec |-> r, tags |-> TagsOf(r),
                val |-> IF value[r] = Empty THEN Unsent ELSE value[r]]
  /\ UNCHANGED <<recState, tagState, tagRows, field, value, request>>

\* The picker offers every tag there is and toggles it.
PickTag ==
  \E t \in LiveTags :
    dialog' = [dialog EXCEPT !.tags = IF t \in @ THEN @ \ {t} ELSE @ \cup {t}]

\* An active field's input offers its options and nothing; an inactive field
\* is shown read-only.
FormValues == IF field.active THEN field.options \cup {Empty} ELSE {}

SetValue == \E v \in FormValues : dialog' = [dialog EXCEPT !.val = v]

EditRecordForm ==
  /\ dialog.of = "record"
  /\ PickTag \/ SetValue
  /\ UNCHANGED <<recState, tagState, tagRows, field, value, request>>

SaveRecordForm(q) ==
  /\ dialog.of = "record"
  /\ PatchReads(q, dialog.rec, dialog.tags, dialog.val)
  /\ dialog' = Closed

OpenFieldForm ==
  /\ field.state = "live"
  /\ dialog' = [of |-> "field", options |-> field.options,
                required |-> field.required, default |-> field.default]
  /\ UNCHANGED <<recState, tagState, tagRows, field, value, request>>

\* A select needs a filled-in choice before its form can be saved.
CanSave(options) == options # {}

\* The body carries label, required, default and options, not isActive.
SaveFieldForm(q) ==
  /\ dialog.of = "field"
  /\ \E options \in SUBSET Choices, required \in BOOLEAN, default \in Choices \cup {Empty} :
       /\ CanSave(options)
       /\ \/ options = dialog.options
          \/ required = dialog.required /\ default = dialog.default
       /\ FieldReads(q, [field EXCEPT !.options = options, !.required = required,
                           !.default = default])
  /\ dialog' = Closed

\* An API client, or an MCP tool, names its own payload.
PatchRecord(q, r, p) ==
  /\ \E tags \in {Unsent} \cup {{t} : t \in TagIds} : PatchReads(q, r, tags, p)
  /\ UNCHANGED dialog

------------------------------------------------------------------------------
CrmNext ==
  \/ \E q \in CrmRequests :
       \/ \E r \in Recs, p \in Choices \cup {Empty, Unsent} :
            \/ \E tags \in SUBSET TagIds : CreateReads(q, r, tags, p)
            \/ PatchRecord(q, r, p)
       \/ \E r \in Recs : DeleteReads(q, r)
       \/ CreateCommits(q) \/ PatchCommits(q) \/ DeleteCommits(q)
       \/ FieldCommits(q) \/ SaveRecordForm(q) \/ SaveFieldForm(q)
  \/ \E t \in TagIds : CreateTag(t) \/ DeleteTag(t)
  \/ \E options \in SUBSET Choices, required \in BOOLEAN, default \in Choices \cup {Empty} :
       CreateField(options, required, default)
  \/ ToggleField \/ DeleteField
  \/ \E r \in Recs : OpenRecordForm(r)
  \/ EditRecordForm \/ OpenFieldForm

CrmSpec == CrmInit /\ [][CrmNext]_crmVars

------------------------------------------------------------------------------
(* Properties.                                                               *)

\* With no foreign key to lean on, the handlers leave no tag and no value on 
\* a record that does not exist: lib/tags.ts, "each entity DELETE handler
\* must clean up its rows explicitly".
NoOrphanRows ==
  \A r \in Recs : recState[r] # "live" => TagsOf(r) = {} /\ value[r] = Empty

\* Every stored value is an option of the field, through narrowing, defaults,
\* inactive spells and saves of forms opened before any of them.
ValuesAreOptions == Stored \subseteq field.options

\* A value of an inactive field stays as it is for as long as its record.
InactiveKept ==
  [][\A r \in Recs : recState'[r] = "live" /\ recState[r] = "live"
       /\ field.state = "live" /\ ~field.active => value'[r] = value[r]]_crmVars

\* A record appears without a value only if its field may be left empty: it
\* is inactive, not required, or has a default that stood in for the check.
RequiredFilled ==
  [][\A r \in Recs : recState[r] = "unborn" /\ recState'[r] = "live" /\ value'[r] = Empty
       => ~field.active \/ ~field.required \/ field.default # Empty]_crmVars

\* The rows that hang on a record, by a key the database does not know, live and
\* die with it, and hold what their definitions allow.
AttachedRowsConsistent ==
  [](NoOrphanRows /\ ValuesAreOptions) /\ InactiveKept /\ RequiredFilled
==============================================================================
