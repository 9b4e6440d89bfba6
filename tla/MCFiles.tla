-------------------------------- MODULE MCFiles --------------------------------
(* Uploaded files for TLC, in one run: the files of attachments in S3, the    *)
(* rows of an imported file, the wizard's page, the column suggestions with   *)
(* the row parser; and the review of an enrichment. A behaviour is one of a   *)
(* part chosen at the start, and the other parts stay as they are. They share *)
(* no state, so this checks each of them alone.                               *)
EXTENDS S3Lifecycle, ImportRows, ImportWizard, ImportColumns, EnrichReview, TLC

VARIABLE part
partVars == <<part, vars, rowVars, wizardVars, columnVars, reviewVars>>

FileRow(x, k, c, px, pn, v) ==
  [ext |-> x, key |-> k, cell |-> c, parentExt |-> px, parentName |-> pn, check |-> v]
Shapes == { FileRow("x", "a", "v", None, None, "ok"), FileRow("x", "b", None, None, "a", "ok"),
            FileRow("y", "a", None, "y", "a", "ok"), FileRow(None, "a", "v", "x", "b", "ok"),
            FileRow("y", None, "v", "x", "a", "flawed"),
            FileRow(None, None, "v", "x", None, "rejected") }
Named(x, n) == [ext |-> x, name |-> n]
Tables == { [p \in ParentSlots |-> None],
            "p1" :> Named(None, "a") @@ "p2" :> None,
            "p1" :> Named("x", "a") @@ "p2" :> None,
            "p1" :> Named(None, "b") @@ "p2" :> Named("y", "a"),
            "p1" :> Named(None, "a") @@ "p2" :> Named(None, "a") }
ColumnValues == <<{"new"}, {"won"}>>
StageNames == "won" :> 1

PartInit ==
  /\ part \in {"files", "rows", "wizard", "columns", "review"}
  /\ IF part = "review" THEN TRUE ELSE record = [f \in ReviewFields |-> "blank"]
  /\ Init /\ RowsInit /\ WizardInit /\ ColumnsInit /\ ReviewInit

PartNext ==
  /\ UNCHANGED part
  /\ IF part = "files" THEN Next ELSE UNCHANGED vars
  /\ IF part = "rows" THEN RowsNext ELSE UNCHANGED rowVars
  /\ IF part = "wizard" THEN WizardNext ELSE UNCHANGED wizardVars
  /\ IF part = "columns" THEN ColumnsNext ELSE UNCHANGED columnVars
  /\ IF part = "review" THEN ReviewNext ELSE UNCHANGED reviewVars

PartSpec == PartInit /\ [][PartNext]_partVars
=============================================================================
