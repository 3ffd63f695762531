------------------------- MODULE UdtProfilingProofs -------------------------
(***************************************************************************)
(* Proofs about UdtProfiling: against a worker the search still is a search *)
(* (so that all that is proved of FastProf holds of it), and how the two    *)
(* limits must be related.                                                 *)
(***************************************************************************)
EXTENDS UdtProfiling, FastProfProofs

(* A run against the worker is a run of the search.                         *)
LEMMA RunRefines ==
  ASSUME NEW at, NEW next, UdtRun(at, next)
  PROVE  Run(at, next)
BY DEF UdtRun, Run

(* Every step of the two together is a step of the search or leaves it alone. *)
LEMMA StepRefines == [UdtNext]_both => [Next]_vars
<1> SUFFICES ASSUME [UdtNext]_both PROVE [Next]_vars
  OBVIOUS
<1>1. CASE Check \/ WorkerAlone
  BY <1>1 DEF Check, WorkerAlone
<1>2. CASE UdtPlus \/ UdtMinus \/ UdtStar
  BY <1>2, RunRefines DEF UdtPlus, UdtMinus, UdtStar, Next, Plus, Minus, Star
<1>3. CASE Alone
  BY <1>3 DEF Alone, Next
<1>4. CASE UNCHANGED both
  BY <1>4 DEF both
<1> QED
  BY <1>1, <1>2, <1>3, <1>4 DEF UdtNext

(* The client's side of UDT profiling implements FastProf.                  *)
THEOREM UdtRefinesSearch == UdtSpec => ImplementsSearch
<1>1. UdtInit => Init
  BY DEF UdtInit
<1> QED
  BY <1>1, StepRefines, PTL DEF UdtSpec, ImplementsSearch, Spec

(* What is proved of a search, of the search against a worker.              *)
LEMMA SearchInvariant == UdtSpec => [](TypeOK /\ IInv)
BY UdtRefinesSearch, Invariant, PTL DEF ImplementsSearch

-----------------------------------------------------------------------------
(* Before the first run nothing is counted.                                 *)
LEMMA UdtInvInit == UdtInit => UdtInv
BY WorkerAssumption DEF UdtInit, Init, UdtInv, WorkerTypeOK, CountsAgree, Thirds,
   Below, Ended

(* One run more, modulo the three of an iteration.                          *)
LEMMA NextThird ==
  ASSUME NEW n \in Nat
  PROVE  /\ n % 3 = 0 => (n + 1) % 3 = 1
         /\ n % 3 = 1 => (n + 1) % 3 = 2
         /\ n % 3 = 2 => (n + 1) % 3 = 0
OBVIOUS

(* Both sides count a run, or the worker loses it.                          *)
LEMMA RunCounts ==
  ASSUME TypeOK, UdtInv, NEW at, NEW next, UdtRun(at, next),
         <<at, next>> \in {<<"plus", "minus">>, <<"minus", "star">>, <<"star", "head">>}
  PROVE  UdtInv'
<1> USE WorkerAssumption DEF TypeOK, UdtInv, WorkerTypeOK
<1>1. pc = at /\ max_prof_limit' = max_prof_limit
  BY DEF UdtRun
<1>2. PICK pt \in Points :
        \/ /\ worker = "serving" /\ (Served \/ Failed)
           /\ GiveUp(pt) \/ \E y \in Perfs : Measure(pt, y, next)
        \/ /\ worker = "ended" /\ GiveUp(pt) /\ pc' = "failed"
           /\ UNCHANGED <<worker, ok_cnt, err_cnt>>
  BY DEF UdtRun
<1>3. WorkerTypeOK' /\ Below'
  BY <1>1, <1>2 DEF Below, Served, Failed
<1>4. ok_cnt' <= ok_cnt + 1 /\ ok_cnt' \in Nat
  BY <1>1, <1>2 DEF Served, Failed
<1>5. pc \notin Ended /\ ok_cnt <= profile_num
  BY <1>1 DEF CountsAgree, Ended
<1>6. CASE GiveUp(pt)
  <2>1. pc' \in {"failed", "done"} /\ profile_num' = profile_num
    BY <1>6 DEF GiveUp
  <2>2. CountsAgree'
    BY <1>4, <1>5, <2>1 DEF CountsAgree, Ended
  <2>3. Thirds'
    BY <2>1 DEF Thirds
  <2> QED
    BY <1>3, <2>2, <2>3
<1>7. CASE \E y \in Perfs : Measure(pt, y, next)
  <2>1. profile_num' = profile_num + 1 /\ pc' \in {next, "report"}
    BY <1>7 DEF Measure, Improve, NoProgress
  <2>2. CountsAgree'
    BY <1>4, <1>5, <2>1 DEF CountsAgree, Ended
  <2>3. \/ at = "plus" /\ next = "minus" /\ profile_num % 3 = 0
        \/ at = "minus" /\ next = "star" /\ profile_num % 3 = 1
        \/ at = "star" /\ next = "head" /\ profile_num % 3 = 2
    BY <1>1 DEF Thirds
  <2>4. \/ next = "minus" /\ profile_num' % 3 = 1
        \/ next = "star" /\ profile_num' % 3 = 2
        \/ next = "head" /\ profile_num' % 3 = 0
    <3>1. profile_num \in Nat
      OBVIOUS
    <3> QED
      BY <2>1, <2>3, <3>1, NextThird
  <2>5. Thirds'
    BY <2>1, <2>4 DEF Thirds
  <2> QED
    BY <1>3, <2>2, <2>5
<1> QED
  BY <1>2, <1>6, <1>7

(* Every step keeps the two counts in step.                                 *)
LEMMA UdtInvStep == TypeOK /\ UdtInv /\ [UdtNext]_both => UdtInv'
<1> SUFFICES ASSUME TypeOK, UdtInv, [UdtNext]_both PROVE UdtInv'
  OBVIOUS
<1> USE WorkerAssumption
<1>1. CASE Check
  BY <1>1 DEF TypeOK, UdtInv, WorkerTypeOK, CountsAgree, Thirds, Below, Check, vars
<1>2. CASE WorkerAlone
  BY <1>2 DEF TypeOK, UdtInv, WorkerTypeOK, CountsAgree, Thirds, Below, WorkerAlone,
       Failed, TimedOut, vars
<1>3. CASE UdtPlus \/ UdtMinus \/ UdtStar
  BY <1>3, RunCounts DEF UdtPlus, UdtMinus, UdtStar
<1>4. CASE Alone
  <2>1. UNCHANGED <<profile_num, max_prof_limit, worker, ok_cnt, err_cnt>>
    BY <1>4 DEF Alone, server, Decide, Report, Over, vars
  <2>2. pc' \in Ended \cup {"plus", "report"} \/ pc' = pc
    BY <1>4 DEF Alone, Decide, Report, Over, vars, Ended
  <2>3. pc' = "plus" => pc = "head" \/ pc' = pc
    BY <1>4 DEF Alone, Decide, Report, Over, vars, Ended
  <2>4. pc' \notin Ended => pc \notin Ended
    BY <1>4 DEF Alone, Decide, Report, Over, vars, Ended
  <2> QED
    BY <2>1, <2>2, <2>3, <2>4
       DEF UdtInv, WorkerTypeOK, CountsAgree, Thirds, Below, Ended
<1>5. CASE UNCHANGED both
  BY <1>5 DEF UdtInv, WorkerTypeOK, CountsAgree, Thirds, Below, both, server, vars
<1> QED
  BY <1>1, <1>2, <1>3, <1>4, <1>5 DEF UdtNext

(* Both invariants, in every state of UDT profiling.                        *)
LEMMA UdtInvariant == UdtSpec => [](TypeOK /\ IInv /\ UdtInv)
<1>1. UdtInit => UdtInv
  BY UdtInvInit
<1>2. TypeOK /\ UdtInv /\ [UdtNext]_both => UdtInv'
  BY UdtInvStep
<1> QED
  BY <1>1, <1>2, SearchInvariant, PTL DEF UdtSpec

(* The inductive invariant of the two together: the counts of either side,   *)
(* and where an iteration of three runs stands.                            *)
THEOREM UdtInvariantHolds == UdtSpec => []UdtInv
<1> QED
  BY UdtInvariant, PTL

(* The worker counts no run the client does not know of.                    *)
THEOREM WorkerCountsKnownRuns == UdtSpec => []CountsAgree
<1>1. UdtInv => CountsAgree
  BY DEF UdtInv
<1> QED
  BY <1>1, UdtInvariant, PTL

(* With limits that match, whatever their values, no run of the search is    *)
(* refused because the worker has reached its own limit.  A run begins with *)
(* at most max + 1 runs made, and with max + 1 only if max leaves 1.        *)
THEOREM MatchedLimitsSuffice == UdtSpec => []WorkerOutlivesSearch
<1>1. TypeOK /\ IInv /\ UdtInv => WorkerOutlivesSearch
  <2> SUFFICES ASSUME TypeOK, IInv, UdtInv, Matched, Running
               PROVE  ok_cnt <= max_prof_limit
    BY DEF WorkerOutlivesSearch
  <2>1. ok_cnt <= profile_num /\ ok_cnt \in Nat /\ profile_num \in Nat
        /\ limits.max \in Nat /\ max_prof_limit \in Nat
    BY DEF TypeOK, UdtInv, CountsAgree, WorkerTypeOK, Running, Ended
  <2>2. \/ profile_num <= limits.max
        \/ pc = "star" /\ profile_num = limits.max + 1
    BY <2>1 DEF IInv, Phase, Made, Running
  <2>3. pc = "star" /\ profile_num = limits.max + 1 => limits.max % 3 = 1
    BY <2>1 DEF UdtInv, Thirds
  <2> QED
    BY <2>1, <2>2, <2>3 DEF Matched
<1> QED
  BY <1>1, UdtInvariant, PTL

=============================================================================
