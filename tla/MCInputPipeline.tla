--------------------------- MODULE MCInputPipeline ---------------------------
(* Small instances of InputPipeline: one jump zone.                 *)
EXTENDS InputPipeline, TLC

CONSTANTS f1, f2, f3

Buttons == [jump |-> {"inside"}]
OneTable == {Buttons}
Symmetry == Permutations(Track)
==============================================================================
