---------------------------- MODULE UdtProfiling ----------------------------
(***************************************************************************)
(* UDT profiling, both sides: the client's search (FastProf) and the        *)
(* server's UDT worker thread, which answers its runs one by one.  The two *)
(* count on their own, the client up to its -N and the worker up to the     *)
(* server's -N, and nothing tells either where the other one is.           *)
(***************************************************************************)
EXTENDS FastProf

CONSTANTS
  ServerLimits,  \* the values of the server's -N
  MaxErr         \* P_MAX_ERROR_NUM

ASSUME WorkerAssumption ==
  ServerLimits \subseteq Nat /\ MaxErr \in Nat \ {0}

VARIABLES
  max_prof_limit,     \* the server's
  worker,             \* "check" at the head of its loop, "serving", "ended"
  ok_cnt, err_cnt

server == <<max_prof_limit, worker, ok_cnt, err_cnt>>
both   == <<vars, server>>

WorkerTypeOK ==
  /\ max_prof_limit \in Nat /\ worker \in {"check", "serving", "ended"}
  /\ ok_cnt \in 0..(max_prof_limit + 1) /\ err_cnt \in 0..MaxErr

UdtInit ==
  /\ Init
  /\ max_prof_limit \in ServerLimits
  /\ worker = "check" /\ ok_cnt = 0 /\ err_cnt = 0

(* Faulty variant: the limit is not looked at. *)
CheckNoLimit ==
  /\ worker = "check"
  /\ worker' = IF err_cnt >= MaxErr THEN "ended" ELSE "serving"
  /\ UNCHANGED <<vars, max_prof_limit, ok_cnt, err_cnt>>

(* The head of the worker's loop, while the server is in RUN_M2M_UDT. *)
Check ==
  /\ worker = "check"
  /\ worker' = IF ok_cnt > max_prof_limit \/ err_cnt >= MaxErr THEN "ended" ELSE "serving"
  /\ UNCHANGED <<vars, max_prof_limit, ok_cnt, err_cnt>>

(* tpg_server_run comes back: served a run; failed (and if the profile cannot *)
(* be reset then, the thread returns); or waited 15 seconds for nothing.    *)
Served == ok_cnt' = ok_cnt + 1 /\ err_cnt' = 0 /\ worker' = "check"

Failed ==
  /\ UNCHANGED ok_cnt
  /\ \/ worker' = "check" /\ err_cnt' = err_cnt + 1
     \/ worker' = "ended" /\ UNCHANGED err_cnt

TimedOut == worker' = "check" /\ UNCHANGED <<ok_cnt, err_cnt>>

(* Faulty variant: coming back without a client counts as a run. *)
WorkerAloneCounts ==
  /\ worker = "serving" /\ (Failed \/ Served)
  /\ UNCHANGED <<vars, max_prof_limit>>

WorkerAlone ==
  /\ worker = "serving" /\ (Failed \/ TimedOut)
  /\ UNCHANGED <<vars, max_prof_limit>>

(* Faulty variant: the search goes on after a run was refused. *)
UdtRunRefusedGoesOn(at, next) ==
  /\ pc = at /\ UNCHANGED <<limits, max_prof_limit>>
  /\ \E pt \in Points :
       \/ /\ worker = "serving" /\ (Served \/ Failed)
          /\ GiveUp(pt) \/ \E y \in Perfs : Measure(pt, y, next)
       \/ /\ worker = "ended" /\ prof_pt' = pt /\ pc' = next
          /\ UNCHANGED <<profile_num, no_imp_counter, flag, max_perf, max_pt,
                         prof_max, visited_list, disk, worker, ok_cnt, err_cnt>>

(* A run against a worker that serves: it is measured and recorded, or      *)
(* fails, or the database cannot be opened; the server may see it end       *)
(* otherwise.  Against a worker that has ended it is refused.              *)
UdtRun(at, next) ==
  /\ pc = at /\ UNCHANGED <<limits, max_prof_limit>>
  /\ \E pt \in Points :
       \/ /\ worker = "serving" /\ (Served \/ Failed)
          /\ GiveUp(pt) \/ \E y \in Perfs : Measure(pt, y, next)
       \/ /\ worker = "ended" /\ GiveUp(pt) /\ pc' = "failed"
          /\ UNCHANGED <<worker, ok_cnt, err_cnt>>

UdtPlus  == UdtRun("plus", "minus")
UdtMinus == UdtRun("minus", "star")
UdtStar  == UdtRun("star", "head")

Alone == (Decide \/ Report \/ Over) /\ UNCHANGED server

UdtNext == Check \/ WorkerAlone \/ UdtPlus \/ UdtMinus \/ UdtStar \/ Alone

UdtSpec == UdtInit /\ [][UdtNext]_both

-----------------------------------------------------------------------------
(* Properties *)

Running == pc \in {"plus", "minus", "star"}

(* The worker has not used up its limit while the search has runs to make:   *)
(* otherwise the next run is refused and the client gives up on everything  *)
(* it has measured.  It takes a server's -N that is no smaller than the     *)
(* client's and, when iterations of three runs overshoot the client's by    *)
(* two, larger.                                                            *)
Matched ==
  /\ max_prof_limit >= limits.max
  /\ limits.max % 3 = 1 => max_prof_limit > limits.max

WorkerOutlivesSearch == Matched /\ Running => ok_cnt <= max_prof_limit

(* What one would expect of "-N, max number of the total iterations": the    *)
(* same value on both sides is enough.                                     *)
SameLimitSuffices ==
  max_prof_limit = limits.max /\ Running => ok_cnt <= max_prof_limit

(* The worker never counts a run the client does not know of: a measured    *)
(* run, or the one the client gave up on.                                  *)
CountsAgree ==
  /\ ok_cnt <= profile_num + 1
  /\ pc \notin Ended => ok_cnt <= profile_num

(* What the search does against a worker is what FastProf says of it alone. *)
ImplementsSearch == Spec

(* The inductive invariant: the counts, and where an iteration stands.      *)
Thirds ==
  /\ pc \in {"head", "plus"} => profile_num % 3 = 0
  /\ pc = "minus" => profile_num % 3 = 1
  /\ pc = "star"  => profile_num % 3 = 2

Below == worker = "serving" => ok_cnt <= max_prof_limit /\ err_cnt < MaxErr

UdtInv == WorkerTypeOK /\ CountsAgree /\ Thirds /\ Below
=============================================================================
