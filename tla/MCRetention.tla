---------------------------- MODULE MCRetention ----------------------------
(* A PDF received as an attachment and a PDF export, two requests. *)
EXTENDS Retention, TLC

CONSTANTS m1, e1, r1, r2, d1

AllFiles == {m1, e1}
ExportFiles == {e1}
OnlyPdf == {"pdf"}
KindOf == [f \in AllFiles |-> "pdf"]
TwoReqs == {r1, r2}
OneDel == {d1}
Symmetry == Permutations(TwoReqs)
=============================================================================
