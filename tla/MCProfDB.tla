------------------------------ MODULE MCProfDB ------------------------------
(* Instances of ProfDB for TLC. *)
EXTENDS ProfDB

MeasuredSet == {-1, 1, 2}
GarbageSet  == {0, 3}

(* No file, one kept by hand, one with a line of another make. *)
HistorySet == {<<>>, <<Comment, 1>>, <<2, Bad>>, <<Bad, 2>>}
=============================================================================
