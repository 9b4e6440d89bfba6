---------------------------- MODULE ImportColumns ----------------------------
(* From a header row to rows that can be imported: the fields suggested for  *)
(* the columns, the preset that may override them, and the validators that   *)
(* read a row through the mapping. A header is known by its confidence for   *)
(* each field, a cell by its class: blank, ok, odd (its parser refuses it),  *)
(* long (over the field's limit) or two (several words).                     *)
EXTENDS Naturals, FiniteSets

CONSTANTS NHeaders,      \* columns of the file, in file order
          Confidences,   \* percentages scoreSynonym may give, 0 among them
          PresetHits,    \* how many of ten required headers a preset may find
          Unmapped

ASSUME ColumnsAssumption ==
  /\ NHeaders \in Nat \ {0}
  /\ Confidences \subseteq 0..100 /\ PresetHits \subseteq 0..10

VARIABLES csvFile,    \* entity, confidences, where its mapping came from
          fieldOf,    \* the mapping: column to field
          csvLine     \* the row last validated

columnVars == <<csvFile, fieldOf, csvLine>>

Headers == 1..NHeaders
Entities == {"company", "contact", "deal", "note"}

\* The fields that decide a row's fate, in the order the synonyms list them.
FieldsOf(e) == CASE e = "company" -> <<"name", "website">>
                 [] e = "contact" -> <<"firstName", "lastName", "email">>
                 [] e = "deal"    -> <<"title", "amount", "stageName">>
                 [] e = "note"    -> <<"content", "dealExternalId", "dealTitle">>
FieldSet(e) == {FieldsOf(e)[i] : i \in DOMAIN FieldsOf(e)}

---------------------------------------------------------------------------
(* Suggestions: each header's best field, then the strongest header first.   *)
Threshold == 85

BestIndex(e, score) ==
  CHOOSE i \in DOMAIN FieldsOf(e) :
    \A k \in DOMAIN FieldsOf(e) : score[k] < score[i] \/ (score[k] = score[i] /\ i <= k)
Candidate(e, score) ==
  LET i == BestIndex(e, score)
  IN IF score[i] >= Threshold THEN FieldsOf(e)[i] ELSE Unmapped
Confidence(e, score) == score[BestIndex(e, score)]

\* h comes before g in the sort by confidence, which is stable.
Ahead(e, scores, h, g) ==
  \/ Confidence(e, scores[h]) > Confidence(e, scores[g])
  \/ Confidence(e, scores[h]) = Confidence(e, scores[g]) /\ h < g

\* Mutant: the field goes to the first header that wants it.
Taken_FirstCome(e, scores, h) ==
  \E g \in Headers : g < h /\ Candidate(e, scores[g]) = Candidate(e, scores[h])

Taken(e, scores, h) ==
  \E g \in Headers : /\ Candidate(e, scores[g]) = Candidate(e, scores[h])
                     /\ Ahead(e, scores, g, h)

SuggestMapping(e, scores) ==
  [h \in Headers |-> IF Taken(e, scores, h) THEN Unmapped ELSE Candidate(e, scores[h])]

---------------------------------------------------------------------------
(* Presets: the one that finds the largest share of its required headers, at *)
(* least seven tenths of them, the first listed among equals; of another     *)
(* entity it counts for nothing.                                             *)
Presets == <<"contact", "company", "deal", "note">>
Detected(hits) == {p \in DOMAIN Presets :
                     /\ hits[p] >= 7
                     /\ \A q \in DOMAIN Presets : hits[q] < hits[p] \/ (hits[q] = hits[p] /\ p <= q)}

\* Mutant: the best preset's mapping is used for whatever the user imports.
PresetFor_Any(e, hits) == Detected(hits)

PresetFor(e, hits) == {p \in Detected(hits) : Presets[p] = e}

ColumnsInit ==
  /\ csvFile = [phase |-> "none"]
  /\ fieldOf = [h \in Headers |-> Unmapped]
  /\ csvLine = [read |-> FALSE]

\* A preset maps the headers it lists and leaves the others unmapped.
UploadPreset(e) ==
  \E hits \in [DOMAIN Presets -> PresetHits] : \E p \in PresetFor(e, hits) :
    /\ \E f \in [Headers -> FieldSet(Presets[p]) \cup {Unmapped}] : fieldOf' = f
    /\ csvFile' = [phase |-> "mapped", entity |-> e, by |-> "preset"]

UploadPlain(e) ==
  \E scores \in [Headers -> [DOMAIN FieldsOf(e) -> Confidences]] :
    /\ fieldOf' = SuggestMapping(e, scores)
    /\ csvFile' = [phase |-> "mapped", entity |-> e, by |-> "headers", scores |-> scores]

UploadColumns == /\ csvFile.phase = "none"
                 /\ \E e \in Entities : UploadPreset(e) \/ UploadPlain(e)
                 /\ UNCHANGED csvLine

\* The user's hand: any column to any field, the same one twice included.
Remap == /\ csvFile.phase \in {"mapped", "edited"}
         /\ \E f \in [Headers -> FieldSet(csvFile.entity) \cup {Unmapped}] : fieldOf' = f
         /\ csvFile' = [phase |-> "edited", entity |-> csvFile.entity, by |-> "user"]
         /\ csvLine' = [read |-> FALSE]

---------------------------------------------------------------------------
(* The validators.                                                           *)
CellClasses == {"blank", "ok", "odd", "long", "two"}
\* Fields with a parser that can refuse the cell; a phone is kept verbatim.
ParsedFields == {"website", "email", "amount"}
\* Fields that are text with a limit.
Limited(f) == f # "amount"

ColumnsFor(f) == {h \in Headers : fieldOf[h] = f}
\* makeCellReader: the first column mapped to the field.
CellOf(cells, f) ==
  IF ColumnsFor(f) = {} THEN "blank"
  ELSE cells[CHOOSE h \in ColumnsFor(f) : \A g \in ColumnsFor(f) : h <= g]

Splits(cells) == CellOf(cells, "firstName") = "two" /\ CellOf(cells, "lastName") = "blank"

Refused(cells, f) == f \in ParsedFields /\ CellOf(cells, f) = "odd"

\* What the schema sees: a refused cell is emptied, a full name is split.
ValueOf(cells, f) ==
  CASE Refused(cells, f) -> "blank"
    [] f \in {"firstName", "lastName"} /\ Splits(cells) -> "ok"
    [] OTHER -> CellOf(cells, f)

RequiredBy(e) == CASE e = "company" -> {"name"}
                   [] e = "contact" -> {"firstName", "lastName"}
                   [] e = "deal"    -> {"title", "stageName"}
                   [] e = "note"    -> {"content"}

TooLong(cells, f) == Limited(f) /\ ValueOf(cells, f) = "long"
MissingIn(e, cells) == {f \in RequiredBy(e) : ValueOf(cells, f) = "blank"}
NoDealRef(e, cells) ==
  e = "note" /\ \A f \in {"dealExternalId", "dealTitle"} : ValueOf(cells, f) = "blank"

\* Mutant: a note without a deal is dropped in silence.
Flaws_Fields(e, cells) ==
  {f \in FieldSet(e) : Refused(cells, f) \/ TooLong(cells, f)} \cup MissingIn(e, cells)

Flaws(e, cells) ==
  {f \in FieldSet(e) : Refused(cells, f) \/ TooLong(cells, f)} \cup MissingIn(e, cells)
    \cup (IF NoDealRef(e, cells) THEN {"deal"} ELSE {})

\* Mutant: only what the parsers refused makes a flaw of a row.
RowAccepted_Parsed(e, cells) == \A f \in FieldSet(e) : ~Refused(cells, f)

\* A refused cell is reported and emptied; the row is imported all the same.
RowAccepted(e, cells) ==
  /\ \A f \in FieldSet(e) : ~TooLong(cells, f)
  /\ MissingIn(e, cells) = {} /\ ~NoDealRef(e, cells)

ValidateRow ==
  /\ csvFile.phase = "edited"
  /\ \E cells \in [Headers -> CellClasses] :
       csvLine' = [read |-> TRUE, cells |-> cells,
                   data |-> RowAccepted(csvFile.entity, cells),
                   errors |-> Flaws(csvFile.entity, cells)]
  /\ UNCHANGED <<csvFile, fieldOf>>

ColumnsNext == UploadColumns \/ Remap \/ ValidateRow
ColumnsSpec == ColumnsInit /\ [][ColumnsNext]_columnVars

---------------------------------------------------------------------------
\* Of the headers whose best field it is, a field goes to the one the scores
\* are surest of, and no field is suggested for two columns. (A header that
\* loses is not tried for its second best field, even where it would win.)
StrongestSuggested ==
  (csvFile.phase = "mapped" /\ csvFile.by = "headers") =>
    LET e == csvFile.entity
        Sureness(h, f) == csvFile.scores[h][CHOOSE k \in DOMAIN FieldsOf(e) : FieldsOf(e)[k] = f]
        Wants(h, f) == /\ Sureness(h, f) >= Threshold
                       /\ \A k \in FieldSet(e) \ {f} : Sureness(h, k) < Sureness(h, f)
    IN \A h, g \in Headers : (h # g /\ fieldOf[h] # Unmapped) =>
         /\ fieldOf[g] # fieldOf[h]
         /\ Wants(g, fieldOf[h]) /\ fieldOf[g] = Unmapped =>
              Sureness(h, fieldOf[h]) >= Sureness(g, fieldOf[h])

\* No column of a file is mapped to a field of another kind of record, though
\* the presets are looked for whatever the user said the file holds.
FieldsOfEntity ==
  csvFile.phase = "mapped" => \A h \in Headers : fieldOf[h] \in FieldSet(csvFile.entity) \cup {Unmapped}

\* A row that goes on to the records has every required field, whichever of
\* several columns a field was read from and whatever was split or emptied.
AcceptedIsComplete ==
  (csvLine.read /\ csvLine.data) =>
    /\ \A f \in RequiredBy(csvFile.entity) :
         \/ \E h \in ColumnsFor(f) : csvLine.cells[h] \notin {"blank", "long"}
         \/ f = "lastName" /\ \E h \in ColumnsFor("firstName") : csvLine.cells[h] = "two"
    /\ csvFile.entity = "note" =>
         \E h \in ColumnsFor("dealExternalId") \cup ColumnsFor("dealTitle") : csvLine.cells[h] # "blank"

\* A row that does not go on is in the error list.
DroppedIsReported == (csvLine.read /\ ~csvLine.data) => csvLine.errors # {}

\* The suggestions are the best of their entity, and no cell of an accepted row
\* is lost without a word.
ColumnsAndCellsKept ==
  StrongestSuggested /\ FieldsOfEntity /\ AcceptedIsComplete /\ DroppedIsReported
=============================================================================
