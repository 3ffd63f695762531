------------------------------ MODULE SearchDB ------------------------------
(***************************************************************************)
(* A search as the profile database sees it: FastProf, which says what is   *)
(* measured and when the loop ends, behaves as the searching part of a      *)
(* session of ProfDB, which says how the record of a run gets into the file *)
(* and what becomes of the best result.  ProfDB lets a search make any      *)
(* number of runs; these are the ones it makes.                            *)
(*                                                                         *)
(* The file is the search's own records.  What other clients append to it    *)
(* in the meantime is ProfDB's, and so is what remains of a record that is  *)
(* not a line of its own, here as if nothing of it had reached the disk.    *)
(***************************************************************************)
EXTENDS FastProf

CONSTANTS
  Source,        \* "tcp" or "udt": whose search it is
  Bad, Comment   \* lines that are no record

ASSUME SourceAssumption == Source \in {"tcp", "udt"}

(* A search that fails is the end of the session; one that returns is        *)
(* followed by the next, or by the recommendation.                         *)
SessionPc ==
  IF pc = "failed" THEN "out"
  ELSE IF pc # "done" THEN Source
  ELSE IF Source = "tcp" THEN "udt" ELSE "done"

(* prof_max is where the session looks for the result.  Memory that nobody   *)
(* has written holds 0 here.                                               *)
Results == [s \in {"db", "tcp", "udt"} |-> IF s = Source THEN prof_max ELSE 0]

Records == INSTANCE ProfDB WITH
  Garbage   <- {0},
  Histories <- {<<>>},
  MaxLines  <- -1,
  CanCut    <- MaxCuts > 0,
  folder    <- TRUE,
  file      <- [i \in DOMAIN db |-> db[i].perf],
  open      <- FALSE,
  pc        <- SessionPc,
  pos       <- 0,
  perf      <- Results,
  written   <- IF prof_max > 0 THEN {Source} ELSE {},
  found     <- FALSE,
  best      <- IF pc = "done" THEN 0 ELSE max_perf,
  advice    <- None,
  had       <- 0,
  own       <- {visited_list[i].perf : i \in DOMAIN visited_list}

(* The search begins with nothing measured, and each of its steps is one of  *)
(* the session's or does not concern the session: the result of no run is   *)
(* kept that was not handed to the database or is not the best so far, the  *)
(* best one always is, and the search comes back with a result if it has    *)
(* measured anything.                                                      *)
ImplementsRecords ==
  /\ SessionPc = Source /\ prof_max = 0 /\ db = <<>>
  /\ [][Records!Next]_(Records!vars)
=============================================================================
