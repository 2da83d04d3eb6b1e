------------------------------ MODULE MCTransfer ------------------------------
(* Instances of Transfer for TLC: a directory with a file and a link, asked   *)
(* for alone, next to one of its own entries, and one file asked for twice.   *)
EXTENDS Transfer, TLC

CONSTANTS d, f, l

MCNodes == {d, f, l}
MCKids == d :> {f, l}
MCSelections == {<<d>>, <<f, f>>, <<d, l>>}
=============================================================================
