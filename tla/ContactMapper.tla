---------------------------- MODULE ContactMapper ----------------------------
(* What a push and a pull do to the fields: a contact has one value of each, *)
(* a Google person lists of entries with a primary one. The push overlays    *)
(* the contact's values on the person it just read, the pull takes the       *)
(* primary entries, and a hash of the contact's side tells an echo. When     *)
(* they run is in ContactsSync; here they run at any time. Values that       *)
(* differ in case, spaces or a phone's punctuation are one value.            *)
EXTENDS Naturals, FiniteSets, Sequences, SequencesExt

CONSTANTS Mails,        \* e-mail addresses (phones are handled alike)
          Jobs,         \* job titles (a title and an employer go together)
          MaxEntries,   \* bound on the entries of a person's field
          MaxFieldEdits,
          Blank

ASSUME MapperAssumption == MaxEntries \in Nat \ {0} /\ MaxFieldEdits \in Nat

VARIABLES crmContact,   \* the CRM's row
          person,       \* the person at Google
          lastPushed,   \* hash of the contact last pushed
          lastPulled,   \* hash of the person last pulled
          fieldEdits

mapperVars == <<crmContact, person, lastPushed, lastPulled, fieldEdits>>

\* A profile's address is one the mapper knows (with a scheme, at linkedin.com);
\* the contact form takes any text, "linkedin.com/in/x" without scheme too.
Profiles == {"profile"}
Links == Profiles \cup {"bare"}
ContactValue == [mail : Mails \cup {Blank}, org : Jobs \cup {Blank},
                 link : Links \cup {Blank}, bio : {"text", Blank}]
Entry(value, primary) == [value |-> value, primary |-> primary]

---------------------------------------------------------------------------
(* From Google.                                                              *)
PrimaryAt(list) ==
  IF list = <<>> THEN 0
  ELSE IF \E i \in DOMAIN list : list[i].primary
       THEN CHOOSE i \in DOMAIN list :
              list[i].primary /\ \A k \in DOMAIN list : list[k].primary => i <= k
       ELSE 1
PrimaryOrFirst(list) == IF list = <<>> THEN Blank ELSE list[PrimaryAt(list)].value

IsLinkedinUrl(entry) == entry.value \in Profiles
FirstLinkedin(urls) ==
  LET i == SelectInSeq(urls, IsLinkedinUrl) IN IF i = 0 THEN Blank ELSE urls[i].value

Normalized(p) == [mail |-> PrimaryOrFirst(p.mails), org |-> PrimaryOrFirst(p.orgs),
                  link |-> FirstLinkedin(p.urls), bio |-> p.bio]

---------------------------------------------------------------------------
(* To Google.                                                                *)
Others(list) == IF list = <<>> THEN <<>> ELSE RemoveAt(list, PrimaryAt(list))

\* Mutant: the first entry is the slot, and keeps its mark.
MergeSingleValue_First(list, value) ==
  IF list = <<>> THEN IF value = Blank THEN <<>> ELSE <<Entry(value, TRUE)>>
  ELSE IF value = Blank THEN Tail(list)
       ELSE <<Entry(value, list[1].primary)>> \o Tail(list)

\* The primary slot takes the value, or goes; the others stay.
MergeSingleValue(list, value) ==
  IF value = Blank THEN Others(list)
  ELSE <<Entry(value, TRUE)>> \o Others(list)

\* Without a title and an employer Google's list is sent back as it is.
MergeOrgs(list, value) == IF value = Blank THEN list ELSE MergeSingleValue(list, value)

\* The addresses a filter keeps, each at the place that is its number among
\* them, counted from the front.
KeptIn(urls) == {i \in DOMAIN urls : ~IsLinkedinUrl(urls[i])}
PlaceIn(kept, i) == Cardinality({k \in kept : k <= i})
WithoutLinkedin(urls) ==
  [n \in 1 .. Cardinality(KeptIn(urls)) |->
     urls[CHOOSE i \in KeptIn(urls) : PlaceIn(KeptIn(urls), i) = n]]

\* Mutant: the profile replaces the list.
MergeUrls_Only(urls, value) == IF value = Blank THEN <<>> ELSE <<Entry(value, TRUE)>>

MergeUrls(urls, value) ==
  IF value = Blank THEN WithoutLinkedin(urls)
  ELSE <<Entry(value, TRUE)>> \o WithoutLinkedin(urls)

MergedPerson(c, p) == [mails |-> MergeSingleValue(p.mails, c.mail),
                        orgs |-> MergeOrgs(p.orgs, c.org),
                        urls |-> MergeUrls(p.urls, c.link), bio |-> c.bio]

EmptyPerson == [mails |-> <<>>, orgs |-> <<>>, urls |-> <<>>, bio |-> Blank]
BlankContact == [mail |-> Blank, org |-> Blank, link |-> Blank, bio |-> Blank]

MapperInit == /\ crmContact \in {c \in ContactValue : \A f \in DOMAIN c : c[f] # Blank}
              /\ person = MergedPerson(crmContact, EmptyPerson)
              /\ lastPushed = crmContact /\ lastPulled = BlankContact
              /\ fieldEdits = 0

---------------------------------------------------------------------------
AnEdit == fieldEdits < MaxFieldEdits /\ fieldEdits' = fieldEdits + 1

EditContact ==
  /\ AnEdit
  /\ \E v \in ContactValue :
       /\ \E f \in DOMAIN v : v[f] # crmContact[f] /\ \A g \in DOMAIN v \ {f} : v[g] = crmContact[g]
       /\ crmContact' = v
  /\ UNCHANGED <<person, lastPushed, lastPulled>>

\* In Google a user adds an entry, makes one the primary one, or drops one.
Edits(list, value) ==
  {Append(list, Entry(value, list = <<>>))} \cup
  {[i \in DOMAIN list |-> Entry(list[i].value, i = k)] : k \in DOMAIN list} \cup
  {RemoveAt(list, i) : i \in DOMAIN list}

EditPerson ==
  /\ AnEdit
  /\ \/ \E v \in Mails : \E l \in Edits(person.mails, v) :
          Len(l) <= MaxEntries /\ person' = [person EXCEPT !.mails = l]
     \/ \E v \in Jobs : \E l \in Edits(person.orgs, v) :
          Len(l) <= MaxEntries /\ person' = [person EXCEPT !.orgs = l]
     \/ \E l \in Edits(person.urls, "site") :
          Len(l) <= MaxEntries /\ person' = [person EXCEPT !.urls = l]
  /\ UNCHANGED <<crmContact, lastPushed, lastPulled>>

\* Skipped when the contact is what was last pulled.
PushPerson ==
  /\ crmContact # lastPulled
  /\ LET p == MergedPerson(crmContact, person) IN Len(p.urls) <= MaxEntries + 1 /\ person' = p
  /\ lastPushed' = crmContact
  /\ UNCHANGED <<crmContact, lastPulled, fieldEdits>>

\* Google's value wins where there is one; a blank leaves the contact's.
TakenIn(c, n) == [f \in DOMAIN c |-> IF n[f] # Blank THEN n[f] ELSE c[f]]

\* An echo of the push only updates the hash; so does a person older than the
\* contact, without the hash.
PullPerson ==
  /\ LET n == Normalized(person)
     IN \/ n = lastPushed /\ lastPulled' = n /\ UNCHANGED crmContact
        \/ n # lastPushed /\ lastPulled' = n /\ crmContact' = TakenIn(crmContact, n)
        \/ n # lastPushed /\ UNCHANGED <<crmContact, lastPulled>>
  /\ UNCHANGED <<person, lastPushed, fieldEdits>>

MapperNext == EditContact \/ EditPerson \/ PushPerson \/ PullPerson
MapperSpec == MapperInit /\ [][MapperNext]_mapperVars

---------------------------------------------------------------------------
Values(list) == {list[i].value : i \in DOMAIN list}

\* A push that changed something.
Pushes == (person' # person \/ lastPushed' # lastPushed) /\ PushPerson

\* A push takes nothing from the person but the slots it writes: the other
\* e-mails and employers and every address that is no LinkedIn profile stay.
KeepsExtras ==
  Pushes =>
    /\ Values(Others(person.mails)) \subseteq Values(person'.mails)
    /\ Values(Others(person.orgs)) \subseteq Values(person'.orgs)
    /\ {person.urls[i].value : i \in KeptIn(person.urls)} \subseteq Values(person'.urls)
ExtrasKept == [][KeepsExtras]_mapperVars

\* What a push wrote reads back as the contact it pushed, so that the next
\* pull knows it for an echo, as long as the contact has every field and its
\* profile is an address.
ReadsBack ==
  Pushes /\ (\A f \in DOMAIN crmContact : crmContact[f] # Blank) /\ crmContact.link \in Profiles
    => Normalized(person') = lastPushed'
EchoRecognised == [][ReadsBack]_mapperVars

\* A push changes the person no more than it must, and a pull knows it by its hash.
PushIsFaithful == ExtrasKept /\ EchoRecognised
=============================================================================
