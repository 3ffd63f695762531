--------------------------- MODULE SearchDBProofs ---------------------------
(***************************************************************************)
(* A search implements the searching part of a database session, for every  *)
(* set of measurements, every pair of limits and either transport.          *)
(***************************************************************************)
EXTENDS SearchDB, FastProfProofs

(* The mapping's file, best, written and own, by name.                       *)
File == [i \in DOMAIN db |-> db[i].perf]
Best == IF pc = "done" THEN 0 ELSE max_perf
Written == IF prof_max > 0 THEN {Source} ELSE {}
Own == {visited_list[i].perf : i \in DOMAIN visited_list}

(* A run more is one measurement more,                                      *)
LEMMA OwnGrows ==
  ASSUME TypeOK, NEW pt \in Points, NEW y \in Perfs, NEW next, Measure(pt, y, next)
  PROVE  Own' = Own \cup {y}
<1>1. Entry(pt, y) \in [pt: Points, perf: Perfs] /\ Entry(pt, y).perf = y
  BY DEF Entry
<1>2. /\ DOMAIN visited_list' = DOMAIN visited_list \cup {Len(visited_list) + 1}
      /\ \A i \in DOMAIN visited_list : visited_list'[i] = visited_list[i]
      /\ visited_list'[Len(visited_list) + 1].perf = y
  BY <1>1, AppendFacts DEF TypeOK, Measure, Entry
<1> QED
  BY <1>2 DEF Own

(* and a record more one line more.                                         *)
LEMMA FileGrows ==
  ASSUME TypeOK, NEW y \in Perfs, db' = Append(db, Record(profile_num + 1, y))
  PROVE  File' = Append(File, y)
<1> DEFINE n == Len(db)
<1>1. Record(profile_num + 1, y) \in [run: Nat, perf: Perfs]
      /\ Record(profile_num + 1, y).perf = y
  BY DEF TypeOK, Record
<1>2. /\ n \in Nat /\ DOMAIN db = 1..n /\ DOMAIN db' = 1..(n + 1)
      /\ \A i \in 1..n : db'[i] = db[i]
      /\ db'[n + 1].perf = y
  BY <1>1, AppendFacts DEF TypeOK
<1> HIDE DEF n
<1>3. File \in Seq(Perfs) /\ Len(File) = n
  <2>1. \A i \in 1..n : db[i] \in [run: Nat, perf: Perfs]
    BY <1>2, EntriesTyped DEF TypeOK
  <2>2. \A i \in 1..n : db[i].perf \in Perfs
    BY <2>1
  <2>3. File \in [1..n -> Perfs]
    BY <1>2, <2>2 DEF File
  <2> QED
    BY <1>2, <2>3
<1>4. File' \in Seq(Perfs) /\ Len(File') = n + 1
      /\ \A i \in 1..(n + 1) : File'[i] = IF i = n + 1 THEN y ELSE File[i]
  <2>1. \A i \in 1..(n + 1) : db'[i].perf = IF i = n + 1 THEN y ELSE File[i]
    BY <1>2 DEF File
  <2>2. \A i \in 1..n : File[i] \in Perfs
    BY <1>3
  <2>3. \A i \in 1..(n + 1) : db'[i].perf \in Perfs
    BY <1>2, <2>1, <2>2
  <2>4. File' \in [1..(n + 1) -> Perfs]
    BY <1>2, <2>3 DEF File
  <2> QED
    BY <1>2, <2>1, <2>4 DEF File
<1>5. /\ Append(File, y) \in Seq(Perfs) /\ Len(Append(File, y)) = n + 1
      /\ \A i \in 1..(n + 1) : Append(File, y)[i] = IF i = n + 1 THEN y ELSE File[i]
  BY <1>2, <1>3, AppendProperties
<1>6. \A i \in 1..Len(File') : File'[i] = Append(File, y)[i]
  BY <1>4, <1>5
<1> QED
  BY <1>4, <1>5, <1>6, SeqEqual

(* What a run hands to the database is a line more or, to a session whose    *)
(* disk may be full, none.                                                 *)
LEMMA RecordIsSessions ==
  ASSUME TypeOK, RecordsKept, Damage, NEW y \in Perfs, RecordAdd(y)
  PROVE  Records!RecordAdd(y)
<1>1. CASE db' = Append(db, Record(profile_num + 1, y))
  <2>1. File' = Append(File, y)
    BY <1>1, FileGrows
  <2>2. Records!Room
    BY DEF Records!Room
  <2>3. Records!Whole(y) <=> File' = Append(File, y)
    BY Zenon DEF Records!Whole, File
  <2> QED
    BY <2>1, <2>2, <2>3, Zenon DEF Records!RecordAdd
<1>2. CASE db' = db /\ MaxCuts > 0
  BY <1>2 DEF File, Records!RecordAdd, Records!Room, Records!Cut
<1>3. torn => cuts > 0
  BY SearchAssumption DEF TypeOK, RecordsKept, Damage
<1>4. cuts > 0 => MaxCuts > 0
  BY SearchAssumption DEF TypeOK
<1>5. cuts < MaxCuts => MaxCuts > 0
  BY SearchAssumption DEF TypeOK
<1> QED
  BY <1>1, <1>2, <1>3, <1>4, <1>5 DEF RecordAdd, Record

(* A run that measures y is the session's Run, whether it improves on the    *)
(* best or not.                                                            *)
LEMMA MeasureIsRun ==
  ASSUME TypeOK, BestSoFar, RecordsKept, Damage, NEW pt \in Points, NEW y \in Perfs,
         pc \in {"plus", "minus", "star"},
         NEW next \in {"minus", "star", "head"}, Measure(pt, y, next)
  PROVE  Records!Run(Source, y)
<1>1. /\ Own' = Own \cup {y}
      /\ y \in Int /\ max_perf \in Nat /\ prof_max = max_perf
  BY OwnGrows, SearchAssumption DEF Measure, TypeOK, BestSoFar
<1>2. SessionPc = Source /\ pc # "done"
  BY DEF SessionPc
<1>3. pc' \in {"minus", "star", "head", "report"}
  BY DEF Measure, Improve, NoProgress
<1>4. SessionPc' = Source /\ pc' # "done"
  BY <1>3 DEF SessionPc
<1>5. IF y > max_perf THEN max_perf' = y /\ prof_max' = y
                      ELSE UNCHANGED <<max_perf, prof_max>>
  BY <1>1 DEF Measure, Improve, NoProgress
<1>6. Records!RecordAdd(y)
  BY RecordIsSessions DEF Measure
<1>7. IF y > Best
        THEN /\ Best' = y /\ Results' = [Results EXCEPT ![Source] = y]
             /\ Written' = Written \cup {Source}
        ELSE UNCHANGED <<Best, Results, Written>>
  <2>1. Best = max_perf /\ Best' = max_perf'
    BY <1>2, <1>4 DEF Best
  <2>2. CASE y > max_perf
    <3>1. max_perf' = y /\ prof_max' = y /\ y > 0
      BY <1>1, <1>5, <2>2
    <3>2. Results' = [Results EXCEPT ![Source] = y]
      BY <3>1, SourceAssumption DEF Results
    <3>3. Written' = Written \cup {Source}
      BY <1>1, <3>1 DEF Written
    <3> QED
      BY <2>1, <2>2, <3>1, <3>2, <3>3
  <2>3. CASE ~(y > max_perf)
    BY <1>5, <2>1, <2>3 DEF Results, Written
  <2> QED
    BY <2>2, <2>3
<1> QED
  BY <1>1, <1>2, <1>4, <1>6, <1>7 DEF Records!Run, Best, Written, Own

(* The end of the search, by a result, an error or the process's own: the    *)
(* session goes on, or ends.                                               *)
LEMMA EndIsSessions ==
  ASSUME pc \notin Ended, pc' \in Ended, UNCHANGED <<max_perf, prof_max, visited_list, disk>>
  PROVE  Records!SearchReturns(Source) \/ Records!Die
<1>1. SessionPc = Source /\ pc # "done"
  BY DEF SessionPc, Ended
<1>2. CASE pc' = "done"
  <2>1. SessionPc' = IF Source = "tcp" THEN "udt" ELSE "done"
    BY <1>2 DEF SessionPc
  <2> QED
    BY <1>1, <1>2, <2>1 DEF Records!SearchReturns, Results, disk
<1>3. CASE pc' = "failed"
  <2>1. SessionPc' = "out" /\ Source # "out"
    BY <1>3, SourceAssumption DEF SessionPc
  <2> QED
    BY <1>1, <1>3, <2>1 DEF Records!Die, Records!fileVars, Results, disk
<1> QED
  BY <1>2, <1>3 DEF Ended

(* A step within the search that measures nothing is no step of the session. *)
LEMMA OtherwiseStutters ==
  ASSUME pc \notin Ended, pc' \notin Ended, UNCHANGED <<max_perf, prof_max, visited_list, disk>>
  PROVE  UNCHANGED Records!vars
<1>1. SessionPc' = SessionPc /\ pc # "done" /\ pc' # "done"
  BY DEF SessionPc, Ended
<1> QED
  BY <1>1 DEF Records!vars, Results, disk

(* Every step of the search, then, is the session's or none.                 *)
LEMMA RecordsStep ==
  TypeOK /\ IInv /\ [Next]_vars => [Records!Next]_(Records!vars)
<1> SUFFICES ASSUME TypeOK, IInv, [Next]_vars PROVE Records!Next \/ UNCHANGED Records!vars
  OBVIOUS
<1>1. (Records!SearchReturns(Source) \/ Records!Die
        \/ \E y \in Perfs : Records!Run(Source, y)) => Records!Next
  BY SourceAssumption DEF Records!Next, Records!Searches
<1>2. CASE Decide
  <2>1. pc \notin Ended /\ UNCHANGED <<max_perf, prof_max, visited_list, disk>>
    BY <1>2 DEF Decide, Ended
  <2> QED
    BY <1>1, <2>1, EndIsSessions, OtherwiseStutters
<1>3. ASSUME NEW at \in {"plus", "minus", "star"}, NEW next \in {"minus", "star", "head"},
             Run(at, next)
      PROVE  Records!Next
  <2>1. PICK pt \in Points : GiveUp(pt) \/ \E y \in Perfs : Measure(pt, y, next)
    BY <1>3 DEF Run
  <2>2. pc = at
    BY <1>3 DEF Run
  <2>3. CASE GiveUp(pt)
    BY <1>1, <2>2, <2>3, EndIsSessions DEF GiveUp, Ended
  <2>4. CASE \E y \in Perfs : Measure(pt, y, next)
    BY <1>1, <2>2, <2>4, MeasureIsRun DEF IInv
  <2> QED
    BY <2>1, <2>3, <2>4
<1>4. CASE Report
  BY <1>1, <1>4, EndIsSessions DEF Report, Ended
<1>5. CASE UNCHANGED vars
  <2>1. UNCHANGED <<SessionPc, Results>>
    BY <1>5 DEF vars, disk, SessionPc, Results
  <2> QED
    BY <1>5, <2>1 DEF vars, disk, Records!vars
<1> QED
  BY <1>2, <1>3, <1>4, <1>5 DEF Next, Plus, Minus, Star, Over

(* The search of FastProf is a search as ProfDB has it.                      *)
THEOREM SearchIsSessions == Spec => ImplementsRecords
<1>1. Init => SessionPc = Source /\ prof_max = 0 /\ db = <<>>
  BY DEF Init, SessionPc
<1> QED
  BY <1>1, Invariant, RecordsStep, PTL DEF Spec, ImplementsRecords

=============================================================================
