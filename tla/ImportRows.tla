----------------------------- MODULE ImportRows -----------------------------
(* One import's rows, from the validated file to the records it writes.      *)
(* ImportJob has the life of the job; here is what a run does with each row: *)
(* resolve what the row refers to, find the record it stands for, write it.  *)
(* The steps of a row are separate awaits, so users' edits fall in between.  *)
EXTENDS Naturals, FiniteSets, FiniteSetsExt

CONSTANTS Idents,        \* external ids (with their source) of the file
          RowKeys,       \* company names, e-mail addresses, deal titles
          Cells,         \* values of a content column, the deals' amounts
          RecordSlots,   \* room for records of the imported kind
          ParentSlots,   \* room for the companies or deals rows refer to
          RowShapes,     \* the rows a file may have
          ParentTables,  \* the companies or deals there are before the import
          CsvRows,      \* rows of the file
          HandEdits,     \* edits by users while the imports run
          None           \* a blank cell, an absent id, no record

BookRows == [ext : Idents \cup {None}, key : RowKeys \cup {None}, cell : Cells \cup {None},
             under : ParentSlots \cup {None}]
ParentRows == [ext : Idents \cup {None}, name : RowKeys]

ASSUME ImportRowsAssumption ==
  /\ CsvRows \in Nat \ {0} /\ HandEdits \in Nat
  /\ None \notin Idents \cup RowKeys \cup Cells \cup RecordSlots \cup ParentSlots
  /\ None \notin BookRows \cup ParentRows
  /\ RowShapes \subseteq [ext : Idents \cup {None}, key : RowKeys \cup {None},
                          cell : Cells \cup {None}, parentExt : Idents \cup {None},
                          parentName : RowKeys \cup {None},
                          check : {"ok", "flawed", "rejected"}]
  /\ ParentTables \subseteq [ParentSlots -> ParentRows \cup {None}]

VARIABLES kind,      \* "company", "contact", "deal", "note"; "none" before
          file,      \* the rows
          stages,    \* the user's pick for the file's stage name, its namesakes
          book,      \* records of the imported kind
          parents,   \* companies of contacts and deals, deals of notes
          cache,     \* what the run's resolvers remember
          turn,      \* which import of the file: 1, then again 2
          line,      \* the row in progress
          stage,     \* its next step, "idle" between runs
          under,     \* the parent it was resolved to
          plan,      \* what its lookup decided
          placed,    \* per import and row the record it was written to
          made,      \* rows that created their record, per import
          erred,     \* rows reported with an error, per import
          foreseen,  \* rows a dry-run before the run said it would update
          edits      \* edits users made

rowVars == <<kind, file, stages, book, parents, cache, turn, line, stage, under,
             plan, placed, made, erred, foreseen, edits>>

Lines     == 1 .. CsvRows
Turns     == 1 .. 2
NoPlan    == [op |-> "none", at |-> None]
NoCache   == [ext  |-> [x \in Idents |-> None], name |-> [k \in RowKeys |-> None],
              dead |-> {}]
Row       == file[line]
StageMaps == [pick : {None, "stage", "gone"}, namesakes : 0 .. 2]

RowsInit ==
  /\ kind = "none" /\ file = [i \in Lines |-> None] /\ stages = [pick |-> None, namesakes |-> 0]
  /\ book = [s \in RecordSlots |-> None] /\ parents = [p \in ParentSlots |-> None]
  /\ cache = NoCache /\ turn = 0 /\ line = 1 /\ stage = "idle" /\ under = None
  /\ plan = NoPlan /\ placed = [t \in Turns |-> [i \in Lines |-> None]]
  /\ made = [t \in Turns |-> {}] /\ erred = [t \in Turns |-> {}]
  /\ foreseen = {} /\ edits = 0

Held(s) == book[s] # None
Known(p) == parents[p] # None

(*** The file and the run over it ******************************************)

(* A file of one kind, mapped in the wizard, beside a CRM that has its own   *)
(* companies or deals already.                                              *)
UploadFile(k, rows, pick, existing) ==
  /\ k # "deal" => pick = [pick |-> None, namesakes |-> 0]
  /\ kind' = k /\ file' = rows /\ stages' = pick /\ parents' = existing
  /\ UNCHANGED <<book, cache, turn, foreseen, line, stage, under, plan, placed, made,
                 erred, edits>>

(* The wizard's pick wins if the stage still exists; else the one stage of   *)
(* that name, and a name two stages share is not matched.                    *)
StageMapped == kind = "deal" =>
  \/ stages.pick = "stage"
  \/ stages.pick = None /\ stages.namesakes = 1

(* Rows the validators let through; some of them carry an error as well.     *)
Validated == {i \in Lines : file[i].check # "rejected"}

NextLine(i) == Min({j \in Validated : j > i} \cup {CsvRows + 1})
StepAt(i) == IF i > CsvRows THEN "idle" ELSE "resolve"

(* What a dry-run says of a row: whether its record is there, deals and notes *)
(* by id alone.                                                              *)
PredictMatch_ByTitle(i) ==
  \E s \in RecordSlots : Held(s) /\
     \/ file[i].ext # None /\ book[s].ext = file[i].ext
     \/ kind # "note" /\ file[i].key # None /\ book[s].key = file[i].key
PredictMatch(i) ==
  \E s \in RecordSlots : Held(s) /\
     \/ file[i].ext # None /\ book[s].ext = file[i].ext
     \/ kind \in {"company", "contact"} /\ file[i].key # None /\ book[s].key = file[i].key

(* Every row is validated before the first is written.  Without a stage for  *)
(* the deals no row is run, and the error is the file's.                     *)
StartRun ==
  LET first == IF StageMapped THEN NextLine(0) ELSE CsvRows + 1 IN
  /\ kind # "none" /\ stage = "idle" /\ turn < 2
  /\ turn' = turn + 1 /\ cache' = NoCache
  /\ erred' = [erred EXCEPT ![turn + 1] = {i \in Lines : file[i].check # "ok"}]
  /\ foreseen' = {i \in Validated : PredictMatch(i)}
  /\ line' = first /\ stage' = StepAt(first)
  /\ UNCHANGED <<kind, file, stages, book, parents, under, plan, placed, made, edits>>

Finish(at, created, failed) ==
  /\ placed' = [placed EXCEPT ![turn][line] = at]
  /\ made' = [made EXCEPT ![turn] = IF created THEN @ \cup {line} ELSE @]
  /\ erred' = [erred EXCEPT ![turn] = IF failed THEN @ \cup {line} ELSE @]
  /\ line' = NextLine(line) /\ stage' = StepAt(NextLine(line))
  /\ under' = None /\ plan' = NoPlan

(* An error is kept against its row and the run goes on.                     *)
RowFails_Silent == Finish(None, FALSE, FALSE)
RowFails == Finish(None, FALSE, TRUE)

(*** What a row refers to **************************************************)

ParentsWith(x) == {p \in ParentSlots : Known(p) /\ x # None /\ parents[p].ext = x}
ParentsNamed(k) == {p \in ParentSlots : Known(p) /\ k # None /\ parents[p].name = k}

ToFind(p) == under' = p /\ stage' = "find"
             /\ UNCHANGED <<line, plan, placed, made, erred>>

CachedByExt  == IF Row.parentExt = None THEN None ELSE cache.ext[Row.parentExt]
CachedByName == IF Row.parentName = None THEN None ELSE cache.name[Row.parentName]

(* A company row refers to nothing; a row without a company has none.        *)
ResolveNone ==
  /\ stage = "resolve"
  /\ \/ kind = "company"
     \/ /\ kind \in {"contact", "deal"} /\ Row.parentName = None
        /\ CachedByExt = None /\ ParentsWith(Row.parentExt) = {}
  /\ ToFind(None) /\ UNCHANGED <<kind, file, stages, book, parents, cache, turn, foreseen, edits>>

(* A company by its id, then by its name, each remembered for the run.       *)
CompanyOf(p) ==
  \/ p = CachedByExt
  \/ CachedByExt = None /\ p \in ParentsWith(Row.parentExt)
  \/ /\ CachedByExt = None /\ ParentsWith(Row.parentExt) = {}
     /\ \/ p = CachedByName
        \/ CachedByName = None /\ p \in ParentsNamed(Row.parentName)

Remember(p) ==
  IF CachedByExt = None /\ p \in ParentsWith(Row.parentExt)
  THEN [cache EXCEPT !.ext[Row.parentExt] = p]
  ELSE IF CachedByExt = None /\ Row.parentName # None
       THEN [cache EXCEPT !.name[Row.parentName] = p] ELSE cache

ResolveCompany(p) ==
  /\ stage = "resolve" /\ kind \in {"contact", "deal"} /\ CompanyOf(p)
  /\ cache' = Remember(p) /\ ToFind(p)
  /\ UNCHANGED <<kind, file, stages, book, parents, turn, foreseen, edits>>

(* Nobody by that name: a stub company, with the id the row gives it.        *)
ResolveStub(p) ==
  /\ stage = "resolve" /\ kind \in {"contact", "deal"} /\ ~Known(p)
  /\ Row.parentName # None /\ ~\E q \in ParentSlots : CompanyOf(q)
  /\ parents' = [parents EXCEPT ![p] = [ext |-> Row.parentExt, name |-> Row.parentName]]
  /\ cache' = [cache EXCEPT !.name[Row.parentName] = p,
                 !.ext = IF Row.parentExt = None THEN @ ELSE [@ EXCEPT ![Row.parentExt] = p]]
  /\ ToFind(p) /\ UNCHANGED <<kind, file, stages, book, turn, foreseen, edits>>

(* A note's deal: by its id, else the one deal of that title nobody stamped. *)
DealTitled_AnyStamp(k) == ParentsNamed(k)
DealTitled(k) == {p \in ParentsNamed(k) : parents[p].ext = None}
DealOfNote(p) ==
  \/ p = CachedByExt
  \/ CachedByExt = None /\ p \in ParentsWith(Row.parentExt)
  \/ /\ CachedByExt = None /\ ParentsWith(Row.parentExt) = {}
     /\ \/ p = CachedByName
        \/ CachedByName = None /\ Row.parentName \notin cache.dead
           /\ DealTitled(Row.parentName) = {p}

ResolveDeal(p) ==
  /\ stage = "resolve" /\ kind = "note" /\ DealOfNote(p)
  /\ cache' = Remember(p) /\ ToFind(p)
  /\ UNCHANGED <<kind, file, stages, book, parents, turn, foreseen, edits>>

(* No such deal, several, or only deals of another identity: a row's error,  *)
(* remembered for the title as well.                                         *)
ResolveNoDeal ==
  /\ stage = "resolve" /\ kind = "note" /\ ~\E p \in ParentSlots : DealOfNote(p)
  /\ cache' = [cache EXCEPT !.dead = @ \cup ({Row.parentName} \ {None})]
  /\ RowFails /\ UNCHANGED <<kind, file, stages, book, parents, turn, foreseen, edits>>

(*** The record a row stands for *******************************************)

WithIdent == {s \in RecordSlots : Held(s) /\ Row.ext # None /\ book[s].ext = Row.ext}
WithKey   == {s \in RecordSlots : Held(s) /\ Row.key # None /\ book[s].key = Row.key}
Unstamped == {s \in WithKey : book[s].ext = None}

Update(s) == [op |-> "update", at |-> s]

(* By id; then companies by name and contacts by e-mail.  A deal with an id  *)
(* nobody has takes the one unstamped deal of its title, and refuses to      *)
(* choose among several.  Everything else is new.                            *)
Lookup ==
  IF WithIdent # {} THEN {Update(s) : s \in WithIdent}
  ELSE IF kind \in {"company", "contact"} /\ WithKey # {}
       THEN {Update(s) : s \in WithKey}
  ELSE IF kind = "deal" /\ Row.ext # None /\ Unstamped # {}
       THEN IF Cardinality(Unstamped) = 1
            THEN {[op |-> "stamp", at |-> s] : s \in Unstamped}
            ELSE {[op |-> "ambiguous", at |-> None]}
  ELSE {[op |-> "create", at |-> None]}

Find ==
  /\ stage = "find" /\ plan' \in Lookup /\ stage' = "write"
  /\ UNCHANGED <<kind, file, stages, book, parents, cache, turn, foreseen, line, under, placed,
                 made, erred, edits>>

(*** The write *************************************************************)

(* An update keeps the record's identity; only the title match gives it one. *)
IdentAfter_Binds(s) == IF Row.ext # None THEN Row.ext ELSE book[s].ext
IdentAfter(s) == IF plan.op = "stamp" THEN Row.ext ELSE book[s].ext

(* Blank cells are left out of an update; a deal's blank amount is a zero    *)
(* before that rule looks at it.                                             *)
Merged(s) ==
  [ext   |-> IdentAfter(s),
   key   |-> IF Row.key # None /\ kind # "note" THEN Row.key ELSE book[s].key,
   cell  |-> IF Row.cell # None \/ kind = "deal" THEN Row.cell ELSE book[s].cell,
   under |-> IF under # None THEN under ELSE book[s].under]

Fresh_Unstamped == [ext |-> None, key |-> Row.key, cell |-> Row.cell, under |-> under]
Fresh == [ext |-> Row.ext, key |-> Row.key, cell |-> Row.cell, under |-> under]

(* The database's unique indexes, and the rows an update and a reference     *)
(* need.                                                                     *)
Accepts(s, r) ==
  /\ \A o \in RecordSlots \ {s} : Held(o) =>
        (r.ext # None => book[o].ext # r.ext) /\ (kind = "company" => book[o].key # r.key)
  /\ under # None => Known(under)

WriteUpdate(s) ==
  /\ stage = "write" /\ plan.op \in {"update", "stamp"} /\ plan.at = s
  /\ Held(s) /\ Accepts(s, Merged(s))
  /\ book' = [book EXCEPT ![s] = Merged(s)]
  /\ Finish(s, FALSE, FALSE)
  /\ UNCHANGED <<kind, file, stages, parents, cache, turn, foreseen, edits>>

WriteCreate(s) ==
  /\ stage = "write" /\ plan.op = "create" /\ ~Held(s) /\ Accepts(s, Fresh)
  /\ book' = [book EXCEPT ![s] = Fresh]
  /\ Finish(s, TRUE, FALSE)
  /\ UNCHANGED <<kind, file, stages, parents, cache, turn, foreseen, edits>>

(* Ambiguous, or the statement throws: the record is gone, an index refuses. *)
Throws == \/ plan.op = "ambiguous"
          \/ /\ plan.op \in {"update", "stamp"}
             /\ Held(plan.at) => ~Accepts(plan.at, Merged(plan.at))
          \/ plan.op = "create" /\ ~Accepts(None, Fresh)
WriteFails ==
  /\ stage = "write" /\ Throws /\ RowFails
  /\ UNCHANGED <<kind, file, stages, book, parents, cache, turn, foreseen, edits>>

(*** Users meanwhile *******************************************************)

(* Somebody adds a record by hand, or deletes one.                           *)
HandCreate(s, k) ==
  /\ edits < HandEdits /\ kind \in {"company", "contact", "deal"} /\ ~Held(s)
  /\ kind = "company" => ~\E o \in RecordSlots : Held(o) /\ book[o].key = k
  /\ book' = [book EXCEPT ![s] = [ext |-> None, key |-> k, cell |-> None, under |-> None]]
  /\ edits' = edits + 1
  /\ UNCHANGED <<kind, file, stages, parents, cache, turn, foreseen, line, stage, under, plan,
                 placed, made, erred>>
HandDelete(s) ==
  /\ edits < HandEdits /\ Held(s) /\ book' = [book EXCEPT ![s] = None]
  /\ edits' = edits + 1
  /\ UNCHANGED <<kind, file, stages, parents, cache, turn, foreseen, line, stage, under, plan,
                 placed, made, erred>>

RowsNext ==
  \/ kind = "none" /\ \E k \in {"company", "contact", "deal", "note"},
        rows \in [Lines -> RowShapes], pick \in StageMaps, existing \in ParentTables :
           UploadFile(k, rows, pick, existing)
  \/ StartRun \/ ResolveNone \/ ResolveNoDeal \/ Find \/ WriteFails
  \/ \E p \in ParentSlots : ResolveCompany(p) \/ ResolveStub(p) \/ ResolveDeal(p)
  \/ \E s \in RecordSlots : WriteUpdate(s) \/ WriteCreate(s) \/ HandDelete(s)
  \/ \E s \in RecordSlots, k \in RowKeys : HandCreate(s, k)

RowsSpec == RowsInit /\ [][RowsNext]_rowVars

(*** Properties ************************************************************)

(* A row that carries an id and was imported creates nothing when its file   *)
(* is imported again, whatever the other rows of the file do to its record   *)
(* in between (upsertCompany, upsertContact, upsertDeal, upsertNote).  A     *)
(* company or contact that was only matched by name or e-mail, to a record   *)
(* of another id, is left out: that record may lose the name to other rows.  *)
BoundElsewhere(i) == /\ kind \in {"company", "contact"}
                     /\ book[placed[1][i]].ext # file[i].ext

ReimportCreatesNothing ==
  edits = 0 => \A i \in made[2] :
    file[i].ext = None \/ placed[1][i] = None \/ BoundElsewhere(i)

(* The identity of a record is given once: a match by name or e-mail never   *)
(* binds a record to the file's id, and a deal's is only filled in.          *)
IdentityNeverMoves ==
  [][\A s \in RecordSlots : book[s] # None /\ book'[s] # None =>
       \/ book'[s].ext = book[s].ext
       \/ kind = "deal" /\ book[s].ext = None]_rowVars

(* A note is only put under a deal that is nobody's or the one it names.     *)
NoteUnderItsDeal ==
  kind = "note" /\ under # None /\ Known(under) =>
     parents[under].ext \in {None, Row.parentExt}

(* A deal or a note the dry-run counted as an update is never created by the *)
(* import that follows (predictMatch and the upserts agree).                 *)
ForeseenIsUpdated ==
  kind \in {"deal", "note"} /\ edits = 0 /\ turn > 0 => made[turn] \cap foreseen = {}

(* Every row of a finished run is in a record or in the error report.        *)
RowsAccounted ==
  stage = "idle" /\ StageMapped => \A t \in 1 .. turn, i \in Lines :
     placed[t][i] # None \/ i \in erred[t]

\* What a user may expect of a commit after its dry-run, and of the same file
\* imported again.
ImportAsForeseen ==
  /\ [](ForeseenIsUpdated /\ ReimportCreatesNothing)
  /\ [](NoteUnderItsDeal /\ RowsAccounted)
  /\ IdentityNeverMoves
=============================================================================
