----------------------------- MODULE MCFindSearch -----------------------------
(***************************************************************************)
(* Instances of FindSearch: two clients the helper accepts, one it does    *)
(* not, and no more descriptor numbers than clients, so that a number is   *)
(* reused as soon as it is closed.                                         *)
(***************************************************************************)
EXTENDS FindSearch

=============================================================================
