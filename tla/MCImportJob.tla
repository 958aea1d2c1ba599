---------------------------- MODULE MCImportJob ----------------------------
(* Small instances of ImportJob for TLC. *)
EXTENDS ImportJob, TLC

CONSTANTS p1, p2, p3, j1, j2, c1, c2, blank

Cells(part, maker, text) == [part |-> part, maker |-> maker, text |-> text]

\* One file finds its product by part number and changes the manufacturer, one
\* has a new product, one describes a known and a new product, and one has two
\* rows for one product.
MCFiles == {
  [mode |-> "part_number", rows |-> {Cells("x", "n", blank)}],
  [mode |-> "composite", rows |-> {Cells("x", "n", "t")}],
  [mode |-> "composite", rows |-> {Cells("x", "m", blank), Cells("x", "n", "t")}],
  [mode |-> "part_number", rows |-> {Cells("x", "m", "t"), Cells("x", "n", "t")}]}

MCInitProduct ==
  [p \in Products |-> [state |-> IF p = p1 THEN "current" ELSE "absent",
                       part |-> "x", maker |-> "m", text |-> "t", rev |-> IF p = p1 THEN 1 ELSE 0]]

(***************************************************************************)
(* Editors make up to three changes and leave the third product to the     *)
(* import; they stop when it has been applied.  Nothing else is cut off,   *)
(* and no fair step: a commit and a restart go on.                         *)
(***************************************************************************)
FewEdits ==
  receipts = {} => /\ product[p3].state = "absent"
                   /\ product[p1].rev + product[p2].rev <= 4
EditsBefore == receipts # {} /\ receipts' = receipts => product' = product
=============================================================================
