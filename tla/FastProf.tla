------------------------------ MODULE FastProf ------------------------------
(***************************************************************************)
(* One FastProf search: the client's loop that measures the network at one *)
(* parameter setting after another and keeps the best (f_tcp_client_run    *)
(* and f_udt_client_run, which have the same control flow).                *)
(*                                                                         *)
(* An iteration is three runs: y(+) and y(-) on both sides of the current  *)
(* point, and y star where the estimated gradient leads.  Where the points *)
(* lie is the stochastic approximation's business; here a run is made at   *)
(* any point and measures anything.  What is kept is what the loop does    *)
(* with the measurements: the best so far, the counters that end it, the   *)
(* records written to the profile database and the list of points visited. *)
(***************************************************************************)
EXTENDS Integers, Sequences

CONSTANTS
  Points,         \* parameter settings: buffer and streams, or block and buffer
  Perfs,          \* what a run can measure; below 1 when nothing got through
  Target,         \* bandwidth times the performance gain ratio (-y, -C)
  ImpededOpts,    \* the values of -L, negative for "use the default"
  LimitOpts,      \* the values of -N, negative for "twice the other limit"
  DefaultImpeded, \* F_IMPEDED_LIMIT
  MaxCuts,        \* bound: the writes that the disk cuts short
  None            \* no point yet

ASSUME SearchAssumption ==
  /\ Perfs \subseteq Int /\ Target \in Int
  /\ ImpededOpts \subseteq Int /\ LimitOpts \subseteq Int
  /\ DefaultImpeded \in Nat /\ MaxCuts \in Nat
  /\ None \notin Points

VARIABLES
  pc,                \* where the loop stands
  limits,            \* no_imp_limit and max_prof_limit
  profile_num, no_imp_counter, flag,
  max_perf, max_pt,  \* max_perf_Gbps and max_theta
  prof_pt,           \* the setting in prof->tcp_prof, the libiperf3 test object
  prof_max,          \* prof_max->perf_Mbps, 0 as long as prof_max is not written
  visited_list,
  db,                \* this search's records in the database that are lines of
                     \* their own, each with the number of its run
  torn,              \* the last line has no newline: a write was cut short
  cuts               \* ghost: the writes that were cut short

disk == <<db, torn, cuts>>
vars == <<pc, limits, profile_num, no_imp_counter, flag, max_perf, max_pt,
          prof_pt, prof_max, visited_list, disk>>

Ended == {"done", "failed"}

(* Faulty variant: the default without -L is not put in force. *)
LimitsNoDefault(l, n) == [imp |-> l, max |-> IF n < 0 THEN 2 * l ELSE n]

(* The limits in force, from the two options. *)
Limits(l, n) ==
  LET imp == IF l < 0 THEN DefaultImpeded ELSE l
  IN  [imp |-> imp, max |-> IF n < 0 THEN 2 * imp ELSE n]

TypeOK ==
  /\ pc \in {"head", "plus", "minus", "star", "report"} \cup Ended
  /\ limits \in [imp: Nat, max: Nat]
  /\ profile_num \in Nat /\ no_imp_counter \in Nat
  /\ flag \in {-1, 1, 2, 3}
  /\ max_perf \in Nat /\ max_pt \in Points \cup {None}
  /\ prof_pt \in Points \cup {None} /\ prof_max \in Nat
  /\ visited_list \in Seq([pt: Points, perf: Perfs])
  /\ db \in Seq([run: Nat, perf: Perfs]) /\ torn \in BOOLEAN /\ cuts \in 0..MaxCuts

Init ==
  /\ pc = "head"
  /\ \E l \in ImpededOpts, n \in LimitOpts : limits = Limits(l, n)
  /\ profile_num = 0 /\ no_imp_counter = 0 /\ flag = -1
  /\ max_perf = 0 /\ max_pt = None
  /\ prof_pt = None /\ prof_max = 0
  /\ visited_list = <<>> /\ db = <<>> /\ torn = FALSE /\ cuts = 0

-----------------------------------------------------------------------------
(* Faulty variants: the gain is asked first; a limit is missed by one. *)
VerdictGainFirst ==
  IF max_perf >= Target THEN 3
  ELSE IF no_imp_counter >= limits.imp THEN 2
  ELSE IF profile_num >= limits.max THEN 1 ELSE -1

VerdictOneMore ==
  IF profile_num > limits.max THEN 1
  ELSE IF no_imp_counter >= limits.imp THEN 2
  ELSE IF max_perf >= Target THEN 3 ELSE -1

(* The head of the loop: three reasons to stop, asked in this order. *)
Verdict ==
  IF profile_num >= limits.max THEN 1
  ELSE IF no_imp_counter >= limits.imp THEN 2
  ELSE IF max_perf >= Target THEN 3 ELSE -1

(* Unless it stops, an iteration begins; with -y it begins with ping, and an *)
(* answer without the times ends the process: f_estimate_rtt does not       *)
(* recognise npos and throws.                                              *)
Decide ==
  /\ pc = "head"
  /\ flag' = Verdict /\ pc' \in IF flag' = -1 THEN {"plus", "failed"} ELSE {"report"}
  /\ UNCHANGED <<limits, profile_num, no_imp_counter, max_perf, max_pt, prof_pt,
                 prof_max, visited_list, disk>>

(* Faulty variants: the copy of the best is forgotten; the counter is not     *)
(* cleared.                                                                *)
ImproveNoCopy(pt, y, next) ==
  /\ y > max_perf
  /\ max_perf' = y /\ max_pt' = pt /\ UNCHANGED prof_max /\ no_imp_counter' = 0
  /\ IF y >= Target THEN flag' = 3 /\ pc' = "report"
                    ELSE pc' = next /\ UNCHANGED flag

ImproveNoReset(pt, y, next) ==
  /\ y > max_perf
  /\ max_perf' = y /\ max_pt' = pt /\ prof_max' = y
  /\ no_imp_counter' = no_imp_counter + 1
  /\ IF y >= Target THEN flag' = 3 /\ pc' = "report"
                    ELSE pc' = next /\ UNCHANGED flag

(* The comparison after each run.  prof_max becomes a copy of prof, whose   *)
(* measurement is its own and whose test object is shared.                 *)
Improve(pt, y, next) ==
  /\ y > max_perf
  /\ max_perf' = y /\ max_pt' = pt /\ prof_max' = y /\ no_imp_counter' = 0
  /\ IF y >= Target THEN flag' = 3 /\ pc' = "report"
                    ELSE pc' = next /\ UNCHANGED flag

NoProgress(y, next) ==
  /\ y <= max_perf
  /\ no_imp_counter' = no_imp_counter + 1 /\ pc' = next
  /\ UNCHANGED <<max_perf, max_pt, prof_max, flag>>

(* Faulty variant: no newline is written after the record. *)
RecordAddNoNewline(y) ==
  /\ db' = IF torn THEN db ELSE Append(db, [run |-> profile_num + 1, perf |-> y])
  /\ torn' = TRUE /\ UNCHANGED cuts

(* The record of a run that measured y.  It becomes a line of its own or, if *)
(* a write before it was torn, the rest of that line; or the disk is full   *)
(* and nothing of it gets into the file, or a part without the newline.    *)
(* What fprintf and fflush return is not looked at: the run counts.        *)
RecordAdd(y) ==
  \/ /\ db' = IF torn THEN db ELSE Append(db, [run |-> profile_num + 1, perf |-> y])
     /\ torn' = FALSE /\ UNCHANGED cuts
  \/ /\ cuts < MaxCuts /\ cuts' = cuts + 1
     /\ torn' \in {torn, TRUE} /\ UNCHANGED db

(* Faulty variant: a run that fails is repeated. *)
GiveUpNever(pt) ==
  /\ prof_pt' = pt
  /\ UNCHANGED <<pc, profile_num, no_imp_counter, flag, max_perf, max_pt,
                 prof_max, visited_list, disk>>

(* A run at pt that measures y: recorded in the database, counted, listed,  *)
(* and compared.                                                           *)
Measure(pt, y, next) ==
  /\ prof_pt' = pt
  /\ RecordAdd(y)
  /\ profile_num' = profile_num + 1
  /\ visited_list' = Append(visited_list, [pt |-> pt, perf |-> y])
  /\ Improve(pt, y, next) \/ NoProgress(y, next)

(* The run fails and the search with it; or the database cannot be opened,  *)
(* and the search returns 0 at once, as if it had been completed: the run  *)
(* it has just made is neither counted nor compared.                       *)
GiveUp(pt) ==
  /\ prof_pt' = pt /\ pc' \in {"failed", "done"}
  /\ UNCHANGED <<profile_num, no_imp_counter, flag, max_perf, max_pt, prof_max,
                 visited_list, disk>>

Run(at, next) ==
  /\ pc = at
  /\ \E pt \in Points :
       GiveUp(pt) \/ \E y \in Perfs : Measure(pt, y, next)
  /\ UNCHANGED limits

Plus  == Run("plus", "minus")
Minus == Run("minus", "star")
Star  == Run("star", "head")

(* The result is read from prof_max; if no run ever wrote it, through an    *)
(* uninitialised pointer, which may or may not be the end of the process.   *)
Report ==
  /\ pc = "report"
  /\ pc' \in IF prof_max > 0 THEN {"done"} ELSE Ended
  /\ UNCHANGED <<limits, profile_num, no_imp_counter, flag, max_perf, max_pt,
                 prof_pt, prof_max, visited_list, disk>>

Over == pc \in Ended /\ UNCHANGED vars

Next == Decide \/ Plus \/ Minus \/ Star \/ Report \/ Over

Spec == Init /\ [][Next]_vars

(* A run ends: iperf3 and tpg measure for a given duration.  What fails, or  *)
(* what is measured, is left open.                                         *)
FairSpec == Spec /\ WF_vars(Next)

-----------------------------------------------------------------------------
(* Properties *)

(* max_perf and prof_max are the best of all the runs made, and max_theta is *)
(* the setting of the first run that measured it.                          *)
BestSoFar ==
  /\ prof_max = max_perf
  /\ \A i \in DOMAIN visited_list : visited_list[i].perf <= max_perf
  /\ max_perf > 0 =>
       \E i \in DOMAIN visited_list :
         /\ visited_list[i] = [pt |-> max_pt, perf |-> max_perf]
         /\ \A j \in 1..(i - 1) : visited_list[j].perf < max_perf

(* no_imp_counter counts the runs since the best one: the runs it covers     *)
(* brought nothing, the one before them is where max_perf was measured.    *)
Impeded ==
  /\ no_imp_counter <= Len(visited_list)
  /\ LET best == Len(visited_list) - no_imp_counter
     IN  /\ best = 0 => max_perf = 0
         /\ best > 0 => visited_list[best].perf = max_perf

(* The reason reported is the true one, although three places set it: 3 as   *)
(* soon as the gain is reached, and only then; else 1 when the runs are    *)
(* used up; else 2.                                                        *)
StopReason ==
  pc = "report" =>
    \/ flag = 3 /\ max_perf >= Target
    \/ /\ max_perf < Target \/ profile_num = 0
       /\ \/ flag = 1 /\ profile_num >= limits.max
          \/ flag = 2 /\ profile_num < limits.max /\ no_imp_counter >= limits.imp

(* The limits are looked at once per iteration of three runs: the search     *)
(* exceeds each of them by two runs at most, and not at all when there is   *)
(* nothing to do.                                                          *)
Overrun ==
  /\ profile_num <= IF limits.max = 0 THEN 0 ELSE limits.max + 2
  /\ no_imp_counter <= IF limits.imp = 0 THEN 0 ELSE limits.imp + 2

(* The database holds the runs the search has counted and listed, in their   *)
(* order and as they were measured, so that the best one can be found again: *)
(* all of them as long as the disk takes what is written.  A write that is  *)
(* cut short, of which the search hears nothing, costs its own record and   *)
(* at most one later one, which continues its line.                        *)
RecordsKept ==
  /\ Len(visited_list) = profile_num
  /\ Len(db) \in (profile_num - 2 * cuts)..profile_num
  /\ \A i \in DOMAIN db :
       /\ db[i].run \in 1..profile_num
       /\ db[i].perf = visited_list[db[i].run].perf
       /\ \A j \in 1..(i - 1) : db[j].run < db[i].run

(* What is promised and not kept: the result shows the settings of the best  *)
(* run ("record the current best iperf test").                             *)
ReportsBest == pc = "report" /\ prof_max > 0 => prof_pt = max_pt

(* Whatever is measured and whatever fails, the search comes to its end. *)
Terminates == <>(pc \in Ended)

(* Every step that changes anything brings the end nearer, measured by the   *)
(* runs that are left and the places in the loop: a run that improves clears *)
(* no_imp_counter, but nothing ever gives a run back.  So the search takes   *)
(* at most Remaining steps, whatever it measures.                          *)
Remaining ==
  IF pc \in Ended THEN 0
  ELSE IF pc = "report" THEN 1
  ELSE 2 * (limits.max + 3 - profile_num) + (IF pc = "head" THEN 1 ELSE 0)

Nearer == Remaining' \in 0..(Remaining - 1)

Shrinks == [][Nearer]_vars

(* The inductive invariant: the properties, what a torn line will still     *)
(* cost, and how far an iteration that was begun below both limits has come. *)
Damage == torn => profile_num + 1 <= Len(db) + 2 * cuts

Made == IF pc = "plus" THEN 0 ELSE IF pc = "minus" THEN 1 ELSE 2

Phase ==
  /\ pc \in {"plus", "minus", "star"} =>
       /\ max_perf < Target
       /\ limits.max > 0 /\ profile_num < limits.max + Made
       /\ limits.imp > 0 /\ no_imp_counter < limits.imp + Made
  /\ pc = "head" => max_perf < Target \/ profile_num = 0

IInv == BestSoFar /\ Impeded /\ RecordsKept /\ Damage /\ StopReason /\ Overrun /\ Phase

=============================================================================
