----------------------------- MODULE MCFastProf -----------------------------
(* Instances of FastProf, and of what it is to the database, for TLC. *)
EXTENDS SearchDB

MeasuredSet == 0..3
ImpededSet  == {-1, 0, 2}
LimitSet    == {-1, 0, 1, 4}
=============================================================================
