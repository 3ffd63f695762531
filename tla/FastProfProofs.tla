--------------------------- MODULE FastProfProofs ---------------------------
(***************************************************************************)
(* Proofs about FastProf, for every set of settings and measurements, every *)
(* pair of limits and every target.                                        *)
(*                                                                         *)
(* Every run appends one entry to visited_list and at most one to db, so   *)
(* the whole argument is what one Measure step does to the parts of the    *)
(* invariant (MeasureBest, MeasureImpeded, MeasureRecords, MeasurePhase).  *)
(***************************************************************************)
EXTENDS FastProf, TLAPS, SequenceTheorems

Entry(pt, y) == [pt |-> pt, perf |-> y]
Record(n, y) == [run |-> n, perf |-> y]

(* What Append does to the lists a run extends. *)
LEMMA AppendFacts ==
  ASSUME NEW S, NEW s \in Seq(S), NEW x \in S
  PROVE  /\ Append(s, x) \in Seq(S) /\ Len(Append(s, x)) = Len(s) + 1
         /\ DOMAIN Append(s, x) = DOMAIN s \cup {Len(s) + 1}
         /\ \A i \in DOMAIN s : Append(s, x)[i] = s[i]
         /\ Append(s, x)[Len(s) + 1] = x
         /\ DOMAIN s = 1..Len(s) /\ Len(s) \in Nat
OBVIOUS

(* The entries of a sequence are of its type. *)
LEMMA EntriesTyped ==
  ASSUME NEW S, NEW s \in Seq(S)
  PROVE  \A i \in DOMAIN s : s[i] \in S
OBVIOUS

(* The state a search starts in satisfies the types. *)
LEMMA TypeInit == Init => TypeOK
<1> SUFFICES ASSUME Init PROVE TypeOK
  OBVIOUS
<1>1. limits \in [imp: Nat, max: Nat]
  BY SearchAssumption DEF Init, Limits
<1>2. cuts \in 0..MaxCuts
  BY SearchAssumption DEF Init
<1>3. visited_list \in Seq([pt: Points, perf: Perfs]) /\ db \in Seq([run: Nat, perf: Perfs])
  BY DEF Init
<1> QED
  BY <1>1, <1>2, <1>3 DEF Init, TypeOK

(* A run keeps the types. *)
LEMMA TypeMeasure ==
  ASSUME TypeOK, NEW pt \in Points, NEW y \in Perfs, NEW next \in {"minus", "star", "head"},
         Measure(pt, y, next), UNCHANGED limits
  PROVE  TypeOK'
<1>1. y \in Int
  BY SearchAssumption
<1>2. visited_list' \in Seq([pt: Points, perf: Perfs])
  BY AppendFacts DEF TypeOK, Measure
<1>4. db' \in Seq([run: Nat, perf: Perfs]) /\ torn' \in BOOLEAN /\ cuts' \in 0..MaxCuts
  <2>1. Record(profile_num + 1, y) \in [run: Nat, perf: Perfs]
    BY DEF TypeOK, Record
  <2>2. Append(db, Record(profile_num + 1, y)) \in Seq([run: Nat, perf: Perfs])
    BY <2>1, AppendFacts DEF TypeOK
  <2>3. RecordAdd(y)
    BY DEF Measure
  <2>4. CASE cuts' = cuts /\ torn' = FALSE /\ db' \in {db, Append(db, Record(profile_num + 1, y))}
    BY <2>2, <2>4 DEF TypeOK
  <2>5. CASE cuts < MaxCuts /\ cuts' = cuts + 1 /\ torn' \in {torn, TRUE} /\ db' = db
    <3>1. cuts' \in 0..MaxCuts
      BY <2>5, SearchAssumption DEF TypeOK
    <3> QED
      BY <2>5, <3>1 DEF TypeOK
  <2> QED
    BY <2>3, <2>4, <2>5 DEF RecordAdd, Record
<1>3. max_perf' \in Nat /\ prof_max' \in Nat /\ max_pt' \in Points \cup {None}
      /\ no_imp_counter' \in Nat /\ flag' \in {-1, 1, 2, 3}
      /\ pc' \in {"head", "plus", "minus", "star", "report"} \cup Ended
  <2>1. CASE Improve(pt, y, next)
    BY <1>1, <2>1 DEF TypeOK, Improve
  <2>2. CASE NoProgress(y, next)
    BY <2>2 DEF TypeOK, NoProgress
  <2> QED
    BY <2>1, <2>2 DEF Measure
<1> QED
  BY <1>2, <1>3, <1>4 DEF TypeOK, Measure

(* Every step keeps the types. *)
LEMMA TypeStep == TypeOK /\ [Next]_vars => TypeOK'
<1> SUFFICES ASSUME TypeOK, [Next]_vars PROVE TypeOK'
  OBVIOUS
<1>1. CASE Decide
  BY <1>1 DEF TypeOK, Decide, Verdict, Ended, disk
<1>2. ASSUME NEW at, NEW next \in {"minus", "star", "head"}, Run(at, next) PROVE TypeOK'
  <2>1. PICK pt \in Points : GiveUp(pt) \/ \E y \in Perfs : Measure(pt, y, next)
    BY <1>2 DEF Run
  <2>2. CASE GiveUp(pt)
    BY <1>2, <2>2 DEF TypeOK, GiveUp, Ended, Run, disk
  <2>3. CASE \E y \in Perfs : Measure(pt, y, next)
    BY <1>2, <2>3, TypeMeasure DEF Run
  <2> QED
    BY <2>1, <2>2, <2>3
<1>3. CASE Report
  BY <1>3 DEF TypeOK, Report, Ended, disk
<1>4. CASE UNCHANGED vars
  BY <1>4 DEF TypeOK, vars, disk
<1> QED
  BY <1>1, <1>2, <1>3, <1>4 DEF Next, Plus, Minus, Star, Over

(* The types of a search's state, its limits among them, which are never    *)
(* negative whatever the options are.                                      *)
THEOREM TypeCorrect == Spec => []TypeOK
<1> QED
  BY TypeInit, TypeStep, PTL DEF Spec

-----------------------------------------------------------------------------
(* A run leaves max_perf and prof_max the best of all runs.                 *)
LEMMA MeasureBest ==
  ASSUME TypeOK, BestSoFar, NEW pt \in Points, NEW y \in Perfs, NEW next,
         Measure(pt, y, next)
  PROVE  BestSoFar'
<1> DEFINE n == Len(visited_list)
           v == Append(visited_list, Entry(pt, y))
<1>1. y \in Int /\ Entry(pt, y) \in [pt: Points, perf: Perfs] /\ Entry(pt, y).perf = y
  BY SearchAssumption DEF Entry
<1>2. /\ visited_list' = v /\ DOMAIN v = DOMAIN visited_list \cup {n + 1}
      /\ \A i \in DOMAIN visited_list : v[i] = visited_list[i]
      /\ v[n + 1] = Entry(pt, y) /\ DOMAIN visited_list = 1..n /\ n \in Nat
  BY <1>1, AppendFacts DEF TypeOK, Measure, Entry
<1>3. \A i \in DOMAIN visited_list : visited_list[i].perf \in Int
  <2>1. \A i \in DOMAIN visited_list : visited_list[i] \in [pt: Points, perf: Perfs]
    BY EntriesTyped DEF TypeOK
  <2>2. \A e \in [pt: Points, perf: Perfs] : e.perf \in Int
    BY SearchAssumption
  <2> QED
    BY <2>1, <2>2
<1> HIDE DEF v, n
<1>4. CASE Improve(pt, y, next)
  <2>1. max_perf' = y /\ prof_max' = y /\ max_pt' = pt /\ y > max_perf
    BY <1>4 DEF Improve
  <2>2. \A i \in DOMAIN visited_list : v[i].perf < y
    BY <1>1, <1>2, <1>3, <2>1 DEF BestSoFar, TypeOK
  <2>3. \A i \in DOMAIN v : v[i].perf <= y
    BY <1>1, <1>2, <2>2, <1>3
  <2>4. v[n + 1] = [pt |-> max_pt', perf |-> max_perf']
        /\ \A j \in 1..((n + 1) - 1) : v[j].perf < max_perf'
    BY <1>2, <2>1, <2>2 DEF Entry
  <2> QED
    BY <1>2, <2>1, <2>3, <2>4 DEF BestSoFar
<1>5. CASE NoProgress(y, next)
  <2>1. max_perf' = max_perf /\ prof_max' = prof_max /\ max_pt' = max_pt /\ y <= max_perf
    BY <1>5 DEF NoProgress
  <2>2. \A i \in DOMAIN v : v[i].perf <= max_perf
    BY <1>1, <1>2, <2>1 DEF BestSoFar
  <2>3. ASSUME max_perf > 0
        PROVE  \E i \in DOMAIN v : /\ v[i] = [pt |-> max_pt, perf |-> max_perf]
                                   /\ \A j \in 1..(i - 1) : v[j].perf < max_perf
    <3>1. PICK i \in DOMAIN visited_list :
            /\ visited_list[i] = [pt |-> max_pt, perf |-> max_perf]
            /\ \A j \in 1..(i - 1) : visited_list[j].perf < max_perf
      BY <2>3 DEF BestSoFar
    <3>2. \A j \in 1..(i - 1) : j \in DOMAIN visited_list
      BY <1>2
    <3> QED
      BY <1>2, <3>1, <3>2
  <2> QED
    BY <1>2, <2>1, <2>2, <2>3 DEF BestSoFar
<1> QED
  BY <1>4, <1>5 DEF Measure

(* A run leaves no_imp_counter the number of runs since the best one.       *)
LEMMA MeasureImpeded ==
  ASSUME TypeOK, Impeded, NEW pt \in Points, NEW y \in Perfs, NEW next,
         Measure(pt, y, next)
  PROVE  Impeded'
<1> DEFINE n == Len(visited_list)
           v == Append(visited_list, Entry(pt, y))
<1>1. y \in Int /\ Entry(pt, y) \in [pt: Points, perf: Perfs] /\ Entry(pt, y).perf = y
  BY SearchAssumption DEF Entry
<1>2. /\ visited_list' = v /\ Len(v) = n + 1 /\ n \in Nat
      /\ \A i \in 1..n : v[i] = visited_list[i]
      /\ v[n + 1] = Entry(pt, y)
  BY <1>1, AppendFacts DEF TypeOK, Measure, Entry
<1> HIDE DEF v, n
<1>3. CASE Improve(pt, y, next)
  <2>1. max_perf' = y /\ no_imp_counter' = 0
    BY <1>3 DEF Improve
  <2> QED
    BY <1>1, <1>2, <2>1 DEF Impeded
<1>4. CASE NoProgress(y, next)
  <2>1. max_perf' = max_perf /\ no_imp_counter' = no_imp_counter + 1
    BY <1>4 DEF NoProgress
  <2>2. Len(v) - no_imp_counter' = n - no_imp_counter /\ no_imp_counter \in Nat
    BY <1>2, <2>1 DEF TypeOK
  <2>3. n - no_imp_counter > 0 => (n - no_imp_counter) \in 1..n
    BY <1>2, <2>2
  <2>4. no_imp_counter' <= Len(v)
    <3>1. Len(v) = n + 1 /\ n \in Nat
      BY <1>2
    <3>2. no_imp_counter <= n /\ no_imp_counter \in Nat
      BY DEF Impeded, TypeOK, n
    <3>3. no_imp_counter + 1 <= n + 1
      BY <3>1, <3>2
    <3> QED
      BY <2>1, <3>1, <3>3
  <2>5. n - no_imp_counter = 0 => max_perf = 0
    BY DEF Impeded, n
  <2>6. n - no_imp_counter > 0 => v[n - no_imp_counter].perf = max_perf
    BY <1>2, <2>3 DEF Impeded, n
  <2> QED
    BY <1>2, <2>1, <2>2, <2>4, <2>5, <2>6 DEF Impeded
<1>5. Improve(pt, y, next) \/ NoProgress(y, next)
  BY DEF Measure
<1> QED
  BY <1>3, <1>4, <1>5

(* A run is listed and counted once.                                        *)
LEMMA MeasureLists ==
  ASSUME TypeOK, NEW pt \in Points, NEW y \in Perfs, NEW next, Measure(pt, y, next)
  PROVE  /\ profile_num' = profile_num + 1
         /\ Len(visited_list') = Len(visited_list) + 1
         /\ \A i \in 1..Len(visited_list) : visited_list'[i] = visited_list[i]
         /\ visited_list'[Len(visited_list) + 1].perf = y
<1>1. Entry(pt, y) \in [pt: Points, perf: Perfs] /\ Entry(pt, y).perf = y
  BY DEF Entry
<1> QED
  BY <1>1, AppendFacts DEF TypeOK, Measure, Entry

(* Its record is a line more, with its number, or there is no line more: the *)
(* record was cut, or paid for a cut before it.                            *)
LEMMA MeasureRecords ==
  ASSUME TypeOK, RecordsKept, Damage, NEW pt \in Points, NEW y \in Perfs, NEW next,
         Measure(pt, y, next)
  PROVE  RecordsKept' /\ Damage'
<1> DEFINE n == Len(db)
           rec == Record(profile_num + 1, y)
<1>1. /\ profile_num' = profile_num + 1 /\ profile_num \in Nat /\ cuts \in Nat
      /\ Len(visited_list') = profile_num'
      /\ \A i \in 1..profile_num : visited_list'[i] = visited_list[i]
      /\ visited_list'[profile_num + 1].perf = y
  BY MeasureLists, SearchAssumption DEF TypeOK, RecordsKept
<1>2. n \in Nat /\ DOMAIN db = 1..n /\ n <= profile_num /\ profile_num <= n + 2 * cuts
  BY <1>1 DEF TypeOK, RecordsKept
<1>3. rec \in [run: Nat, perf: Perfs] /\ rec.run = profile_num + 1 /\ rec.perf = y
  BY <1>1 DEF Record
<1>4. RecordAdd(y)
  BY DEF Measure
<1>5. CASE db' = Append(db, rec) /\ ~torn /\ torn' = FALSE /\ cuts' = cuts
  <2>1. /\ Len(db') = n + 1 /\ DOMAIN db' = DOMAIN db \cup {n + 1}
        /\ \A i \in DOMAIN db : db'[i] = db[i]
        /\ db'[n + 1] = rec
    BY <1>3, <1>5, AppendFacts DEF TypeOK
  <2> HIDE DEF n, rec
  <2>2. Len(db') \in (profile_num' - 2 * cuts')..profile_num' /\ Damage'
    BY <1>1, <1>2, <1>5, <2>1 DEF Damage
  <2>3. ASSUME NEW i \in DOMAIN db
        PROVE  /\ db'[i].run \in 1..profile_num'
               /\ db'[i].perf = visited_list'[db'[i].run].perf
               /\ \A j \in 1..(i - 1) : db'[j].run < db'[i].run
    <3>1. \A j \in 1..(i - 1) : j \in DOMAIN db
      BY <1>2
    <3>2. /\ db[i].run \in 1..profile_num
          /\ db[i].perf = visited_list[db[i].run].perf
          /\ \A j \in 1..(i - 1) : db[j].run < db[i].run
      BY DEF RecordsKept
    <3> QED
      BY <1>1, <2>1, <3>1, <3>2
  <2>4. \A j \in 1..((n + 1) - 1) : db'[j].run < rec.run
    <3>1. \A j \in 1..n : db[j].run \in 1..profile_num /\ db'[j] = db[j]
      BY <1>2, <2>1 DEF RecordsKept
    <3> QED
      BY <1>1, <1>2, <1>3, <3>1
  <2> QED
    BY <1>1, <1>3, <2>1, <2>2, <2>3, <2>4 DEF RecordsKept
<1>6. CASE db' = db /\ cuts' \in Nat /\ (torn' => profile_num' + 1 <= n + 2 * cuts')
           /\ profile_num' <= n + 2 * cuts'
  <2>1. Len(db') = n /\ DOMAIN db' = DOMAIN db
    BY <1>6
  <2> HIDE DEF n
  <2>2. Len(db') \in (profile_num' - 2 * cuts')..profile_num' /\ Damage'
    BY <1>1, <1>2, <1>6, <2>1 DEF Damage
  <2>3. \A i \in DOMAIN db : /\ db[i].run \in 1..profile_num'
                             /\ db[i].perf = visited_list'[db[i].run].perf
                             /\ \A j \in 1..(i - 1) : db[j].run < db[i].run
    BY <1>1 DEF RecordsKept
  <2> QED
    BY <1>1, <1>6, <2>1, <2>2, <2>3 DEF RecordsKept
<1>7. CASE torn /\ db' = db /\ torn' = FALSE /\ cuts' = cuts
  BY <1>1, <1>2, <1>6, <1>7 DEF Damage
<1>8. CASE cuts' = cuts + 1 /\ db' = db
  BY <1>1, <1>2, <1>6, <1>8
<1> QED
  BY <1>4, <1>5, <1>7, <1>8 DEF RecordAdd, Record, TypeOK

(* A run takes an iteration one step further, and stops it for the gain.    *)
LEMMA MeasurePhase ==
  ASSUME TypeOK, Phase, Overrun, NEW pt \in Points, NEW y \in Perfs,
         NEW at, NEW next,
         <<at, next>> \in {<<"plus", "minus">>, <<"minus", "star">>, <<"star", "head">>},
         pc = at, Measure(pt, y, next), UNCHANGED limits
  PROVE  Phase' /\ Overrun' /\ StopReason'
<1> USE DEF TypeOK, Phase, Overrun, Made, StopReason
<1>1. y \in Int /\ profile_num' = profile_num + 1
  BY SearchAssumption DEF Measure
<1>2. pc \in {"plus", "minus", "star"}
  OBVIOUS
<1>3. CASE Improve(pt, y, next)
  BY <1>1, <1>2, <1>3, SearchAssumption DEF Improve
<1>4. CASE NoProgress(y, next)
  BY <1>1, <1>2, <1>4, SearchAssumption DEF NoProgress
<1> QED
  BY <1>3, <1>4 DEF Measure

(* A run that fails changes nothing the invariant speaks of.                *)
LEMMA GiveUpKeeps ==
  ASSUME TypeOK, IInv, NEW pt, GiveUp(pt), pc \in {"plus", "minus", "star"},
         UNCHANGED limits
  PROVE  IInv'
<1>1. BestSoFar' /\ Impeded' /\ RecordsKept' /\ Damage' /\ Overrun'
  BY DEF IInv, BestSoFar, Impeded, RecordsKept, Damage, Overrun,
       disk, GiveUp
<1>2. pc' \in {"failed", "done"}
  BY DEF GiveUp
<1> QED
  BY <1>1, <1>2 DEF IInv, StopReason, Phase

(* The invariant holds before the first iteration ...                       *)
LEMMA IInvInit == Init => IInv
<1> SUFFICES ASSUME Init PROVE IInv
  OBVIOUS
<1>1. limits.imp \in Nat /\ limits.max \in Nat
  BY TypeInit DEF TypeOK
<1> QED
  BY <1>1 DEF Init, IInv, BestSoFar, Impeded, RecordsKept, Damage, StopReason, Overrun,
       Phase

(* ... and every step keeps it.                                             *)
LEMMA IInvStep == TypeOK /\ IInv /\ [Next]_vars => IInv'
<1> SUFFICES ASSUME TypeOK, IInv, [Next]_vars PROVE IInv'
  OBVIOUS
<1>1. CASE Decide
  <2>1. BestSoFar' /\ Impeded' /\ RecordsKept' /\ Damage' /\ Overrun'
    BY <1>1 DEF IInv, BestSoFar, Impeded, RecordsKept, Damage, Overrun,
       disk, Decide
  <2>2. StopReason' /\ Phase'
    BY <1>1, SearchAssumption
       DEF TypeOK, IInv, StopReason, Phase, Made, Decide, Verdict
  <2> QED
    BY <2>1, <2>2 DEF IInv
<1>2. ASSUME NEW at, NEW next, Run(at, next),
             <<at, next>> \in {<<"plus", "minus">>, <<"minus", "star">>, <<"star", "head">>}
      PROVE  IInv'
  <2>1. PICK pt \in Points : GiveUp(pt) \/ \E y \in Perfs : Measure(pt, y, next)
    BY <1>2 DEF Run
  <2>2. pc = at /\ pc \in {"plus", "minus", "star"} /\ UNCHANGED limits
    BY <1>2 DEF Run
  <2>3. CASE GiveUp(pt)
    BY <2>2, <2>3, GiveUpKeeps
  <2>4. ASSUME NEW y \in Perfs, Measure(pt, y, next) PROVE IInv'
    <3>1. BestSoFar' /\ Impeded' /\ RecordsKept' /\ Damage'
      BY <2>4, MeasureBest, MeasureImpeded, MeasureRecords DEF IInv
    <3>2. Phase' /\ Overrun' /\ StopReason'
      BY <1>2, <2>2, <2>4, MeasurePhase DEF IInv
    <3> QED
      BY <3>1, <3>2 DEF IInv
  <2> QED
    BY <2>1, <2>3, <2>4
<1>3. CASE Report
  <2>1. BestSoFar' /\ Impeded' /\ RecordsKept' /\ Damage' /\ Overrun'
    BY <1>3 DEF IInv, BestSoFar, Impeded, RecordsKept, Damage, Overrun,
       disk, Report
  <2>2. pc' \in Ended
    BY <1>3 DEF Report, Ended
  <2> QED
    BY <2>1, <2>2 DEF IInv, StopReason, Phase, Ended
<1>4. CASE UNCHANGED vars
  BY <1>4 DEF IInv, BestSoFar, Impeded, RecordsKept, Damage, StopReason, Overrun, Phase,
       Made, vars, disk
<1> QED
  BY <1>1, <1>2, <1>3, <1>4 DEF Next, Plus, Minus, Star, Over

(* Types and invariant, in every state of a search.                         *)
LEMMA Invariant == Spec => [](TypeOK /\ IInv)
<1>1. Init => TypeOK /\ IInv
  BY TypeInit, IInvInit
<1>2. (TypeOK /\ IInv) /\ [Next]_vars => (TypeOK /\ IInv)'
  BY TypeStep, IInvStep
<1> QED
  BY <1>1, <1>2, PTL DEF Spec

(* The inductive invariant itself: the properties, and where an iteration    *)
(* stands, in every state of a search.                                     *)
THEOREM InvariantHolds == Spec => []IInv
<1> QED
  BY Invariant, PTL

(* The best of all runs is what max_perf, max_theta and prof_max hold.      *)
THEOREM KeepsTheBest == Spec => []BestSoFar
<1>1. IInv => BestSoFar
  BY DEF IInv
<1> QED
  BY <1>1, Invariant, PTL

(* The runs no_imp_counter covers are those since the best one.             *)
THEOREM CountsTheImpeded == Spec => []Impeded
<1>1. IInv => Impeded
  BY DEF IInv
<1> QED
  BY <1>1, Invariant, PTL

(* The termination condition in the report is the one that held.            *)
THEOREM StopsForItsReason == Spec => []StopReason
<1>1. IInv => StopReason
  BY DEF IInv
<1> QED
  BY <1>1, Invariant, PTL

(* However the limits are chosen, the search exceeds them by two at most.   *)
THEOREM OverrunsByTwo == Spec => []Overrun
<1>1. IInv => Overrun
  BY DEF IInv
<1> QED
  BY <1>1, Invariant, PTL

(* The database has the runs that were counted, in order, and no others; and *)
(* however many writes are cut short, each costs two records at most.       *)
THEOREM CutsCostTwo == Spec => []RecordsKept
<1>1. IInv => RecordsKept
  BY DEF IInv
<1> QED
  BY <1>1, Invariant, PTL

-----------------------------------------------------------------------------
(* The safety half of termination.  Below both limits there are runs left;   *)
(* a run uses one up, and so does the test at the head without a run.       *)
LEMMA NearerStep == TypeOK /\ IInv /\ [Next]_vars => [Nearer]_vars
<1> SUFFICES ASSUME TypeOK, IInv, Next, ~UNCHANGED vars PROVE Nearer
  OBVIOUS
<1> DEFINE m == limits.max
           p == profile_num
<1>1. m \in Nat /\ p \in Nat /\ limits' = limits
  BY DEF TypeOK, Next, Decide, Plus, Minus, Star, Run, Report, Over, vars
<1>2. pc = "head" => p <= m + 2
  BY <1>1 DEF IInv, Overrun
<1>3. pc \in {"plus", "minus", "star"} => p < m + 2
  BY <1>1 DEF IInv, Phase, Made
<1> HIDE DEF m, p
<1>4. CASE Decide
  <2>1. /\ pc = "head" /\ pc' \in {"plus", "report"} \cup Ended /\ p' = p /\ m' = m
    BY <1>1, <1>4 DEF Decide, Ended, m, p
  <2> QED
    BY <1>1, <1>2, <2>1 DEF Nearer, Remaining, Ended, m, p
<1>5. ASSUME NEW at \in {"plus", "minus", "star"}, NEW next \in {"minus", "star", "head"},
             Run(at, next)
      PROVE  Nearer
  <2>1. pc = at /\ m' = m
    BY <1>1, <1>5 DEF Run, m
  <2>2. \/ pc' \in Ended /\ p' = p
        \/ pc' \in {"minus", "star", "head", "report"} /\ p' = p + 1
    BY <1>5 DEF Run, GiveUp, Measure, Improve, NoProgress, Ended, p
  <2> QED
    BY <1>1, <1>3, <2>1, <2>2 DEF Nearer, Remaining, Ended, m, p
<1>6. CASE Report
  BY <1>6 DEF Report, Nearer, Remaining, Ended
<1>7. CASE Over
  BY <1>7 DEF Over
<1> QED
  BY <1>4, <1>5, <1>6, <1>7 DEF Next, Plus, Minus, Star

(* No search takes more steps than its limit of runs allows.                 *)
THEOREM EveryStepNearer == Spec => Shrinks
<1> QED
  BY Invariant, NearerStep, PTL DEF Spec, Shrinks

=============================================================================
