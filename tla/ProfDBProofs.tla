---------------------------- MODULE ProfDBProofs ----------------------------
(***************************************************************************)
(* Proofs about ProfDB, for every set of measurements, every content of    *)
(* uninitialised memory and every file to begin with.                      *)
(*                                                                         *)
(* The file changes in one operator, RecordAdd, whoever calls it: a        *)
(* complete line stays what it is and where it is (RecordKeepsLines), so    *)
(* that what a reader has made of the lines it has read stays true.        *)
(***************************************************************************)
EXTENDS ProfDB, TLAPS

(* What of the file a step that adds a record must leave as it is. *)
LinesKept ==
  /\ file' \in Seq(Lines) /\ (open' => Len(file') > 0)
  /\ Len(file) <= Len(file') /\ Closed <= Closed'
  /\ Len(file) \in Nat /\ Len(file') \in Nat /\ Closed \in Nat /\ Closed' \in Nat
  /\ \A i \in 1..Closed : file'[i] = file[i]

(* A record on a line of its own leaves the complete lines alone. *)
LEMMA NewLine ==
  ASSUME TypeOK, NEW l \in Lines, file' = Append(file, l), ~open, open' \in BOOLEAN
  PROVE  LinesKept
<1> DEFINE n == Len(file)
<1>1. file \in Seq(Lines) /\ n \in Nat
  BY DEF TypeOK
<1>2. file' \in Seq(Lines) /\ Len(file') = n + 1 /\ \A i \in 1..n : file'[i] = file[i]
  BY <1>1
<1>3. Closed = n /\ Closed' \in {n, n + 1}
  BY <1>1, <1>2 DEF Closed
<1> QED
  BY <1>1, <1>2, <1>3 DEF LinesKept

(* A record that continues a cut line leaves the complete lines alone. *)
LEMMA LastLine ==
  ASSUME TypeOK, NEW l \in Lines, file' = [file EXCEPT ![Len(file)] = l],
         open, open' \in BOOLEAN
  PROVE  LinesKept
<1> DEFINE n == Len(file)
<1>1. file \in Seq(Lines) /\ n \in Nat /\ n > 0
  BY DEF TypeOK
<1>2. file' \in Seq(Lines) /\ Len(file') = n /\ \A i \in 1..(n - 1) : file'[i] = file[i]
  BY <1>1
<1>3. Closed = n - 1 /\ Closed' \in {n - 1, n}
  BY <1>1, <1>2 DEF Closed
<1>4. \A i \in 1..Closed : file'[i] = file[i]
  BY <1>2, <1>3, Zenon
<1>5. Len(file) = n /\ Len(file') = n /\ file' \in Seq(Lines)
  BY <1>2
<1> HIDE DEF n
<1>6. Closed <= Closed' /\ Closed \in Nat /\ Closed' \in Nat
  BY <1>1, <1>3
<1> QED
  BY <1>1, <1>4, <1>5, <1>6 DEF LinesKept

(* A record that is added, whole or cut short, leaves the complete lines     *)
(* alone.                                                                  *)
LEMMA RecordKeepsLines ==
  ASSUME TypeOK, NEW y \in Perfs, RecordAdd(y)
  PROVE  LinesKept /\ folder' \in BOOLEAN /\ open' \in BOOLEAN
<1>1. \A l \in Perfs \cup {Bad} : l \in Lines
  BY DEF Lines
<1>2. folder' \in BOOLEAN /\ open' \in BOOLEAN
  BY DEF RecordAdd, Whole, Cut, TypeOK
<1>3. CASE UNCHANGED <<file, open>>
  BY <1>2, <1>3 DEF LinesKept, Closed, TypeOK
<1>4. CASE open /\ \E l \in Perfs \cup {Bad} : file' = [file EXCEPT ![Len(file)] = l]
  <2>1. PICK l \in Perfs \cup {Bad} : file' = [file EXCEPT ![Len(file)] = l]
    BY <1>4
  <2> QED
    BY <1>1, <1>2, <1>4, <2>1, LastLine
<1>5. CASE ~open /\ \E l \in Perfs \cup {Bad} : file' = Append(file, l)
  <2>1. PICK l \in Perfs \cup {Bad} : file' = Append(file, l)
    BY <1>5
  <2> QED
    BY <1>1, <1>2, <1>5, <2>1, NewLine
<1>6. \/ UNCHANGED <<file, open>>
      \/ open /\ \E l \in Perfs \cup {Bad} : file' = [file EXCEPT ![Len(file)] = l]
      \/ ~open /\ \E l \in Perfs \cup {Bad} : file' = Append(file, l)
  <2>1. CASE Whole(y)
    BY <2>1, Zenon DEF Whole
  <2>2. CASE Cut(y)
    BY <2>2, Zenon DEF Cut
  <2> QED
    BY <2>1, <2>2 DEF RecordAdd
<1> QED
  BY <1>2, <1>3, <1>4, <1>5, <1>6

(* The state a history starts in satisfies the types. *)
LEMMA TypeInit == Init => TypeOK
<1> SUFFICES ASSUME Init PROVE TypeOK
  OBVIOUS
<1>1. file \in Seq(Lines)
  BY DBAssumption DEF Init
<1>2. perf \in [Sources -> Int]
  BY DBAssumption DEF Init
<1>3. 0 \in 0..Len(file) /\ 0 \in 0..Closed
  BY <1>1 DEF Init, Closed
<1> QED
  BY <1>1, <1>2, <1>3 DEF Init, TypeOK

(* A step of the session that does not touch the file and the results. *)
LEMMA TypeStill ==
  ASSUME TypeOK, UNCHANGED <<file, open>>,
         folder' \in BOOLEAN,
         pc' \in {"out", "start", "read", "eof", "ask", "tcp", "udt", "done"},
         pos' \in 0..Len(file), had' \in 0..Closed,
         perf' \in [Sources -> Int], written' \subseteq Sources,
         found' \in BOOLEAN, best' \in Nat,
         advice' \in Sources \cup {None}, own' \subseteq Perfs
  PROVE  TypeOK'
BY DEF TypeOK, Closed

(* Adding a record keeps the types, whatever else the step does. *)
LEMMA TypeRecord ==
  ASSUME TypeOK, NEW y \in Perfs, RecordAdd(y),
         UNCHANGED <<pc, pos, found, advice, had>>,
         perf' \in [Sources -> Int], written' \subseteq Sources,
         best' \in Nat, own' \subseteq Perfs
  PROVE  TypeOK'
<1>1. LinesKept /\ folder' \in BOOLEAN /\ open' \in BOOLEAN
  BY RecordKeepsLines
<1>2. pos' \in 0..Len(file') /\ had' \in 0..Closed'
  BY <1>1 DEF LinesKept, TypeOK
<1> QED
  BY <1>1, <1>2 DEF LinesKept, TypeOK

(* Every step keeps the types. *)
LEMMA TypeStep == TypeOK /\ [Next]_vars => TypeOK'
<1> SUFFICES ASSUME TypeOK, [Next]_vars PROVE TypeOK'
  OBVIOUS
<1>0. Len(file) \in Nat /\ Closed \in Nat /\ Closed <= Len(file)
  BY DEF TypeOK, Closed
<1>1. CASE OtherClient
  BY <1>1, TypeRecord DEF OtherClient, TypeOK
<1>2. CASE Begin
  <2>1. perf' \in [Sources -> Int]
    BY <1>2, DBAssumption DEF Begin
  <2>2. UNCHANGED <<folder, file, open>>
    BY <1>2 DEF Begin, fileVars
  <2>3. pos' \in 0..Len(file) /\ had' \in 0..Closed /\ folder' \in BOOLEAN
    BY <1>0, <1>2, <2>2 DEF Begin, TypeOK
  <2> QED
    BY <1>2, <2>1, <2>2, <2>3, TypeStill DEF Begin
<1>3. CASE MakeFolder \/ OpenFails \/ DiskSession \/ ReadEnd \/ Hit \/ Answer \/ Die
  <2>1. folder' \in BOOLEAN /\ found' \in BOOLEAN
    BY <1>3 DEF TypeOK, MakeFolder, OpenFails, DiskSession, ReadEnd, Hit, Answer, Die
  <2>2. pc' \in {"out", "start", "read", "eof", "ask", "tcp", "udt", "done"}
    BY <1>3 DEF TypeOK, MakeFolder, OpenFails, DiskSession, ReadEnd, Hit, Answer, Die
  <2>3. UNCHANGED <<file, open, pos, perf, written, best, advice, had, own>>
    BY <1>3 DEF MakeFolder, OpenFails, DiskSession, ReadEnd, Hit, Answer, Die
  <2> QED
    BY <2>1, <2>2, <2>3, TypeStill DEF TypeOK
<1>4. CASE OpenFile
  <2>1. perf' \in [Sources -> Int] /\ written' \subseteq Sources /\ had' \in 0..Closed
    BY <1>0, <1>4 DEF OpenFile, TypeOK, Sources
  <2> QED
    BY <1>4, <2>1, TypeStill DEF OpenFile, TypeOK
<1>5. CASE ReadLine
  <2>1. perf' \in [Sources -> Int]
    BY <1>5, DBAssumption DEF ReadLine, TypeOK
  <2>2. pos' \in 0..Len(file) /\ pc' \in {"tcp", "eof", "read"}
    BY <1>0, <1>5 DEF ReadLine, TypeOK
  <2> QED
    BY <1>5, <2>1, <2>2, TypeStill DEF ReadLine, TypeOK
<1>6. ASSUME NEW s \in Searches, SearchReturns(s) PROVE TypeOK'
  BY <1>6, TypeStill DEF SearchReturns, TypeOK
<1>7. ASSUME NEW s \in Searches, NEW y \in Perfs, Run(s, y) PROVE TypeOK'
  <2>1. y \in Int /\ s \in Sources
    BY DBAssumption DEF Searches, Sources
  <2>2. best' \in Nat
    BY <1>7, <2>1 DEF Run, TypeOK
  <2>3. perf' \in [Sources -> Int] /\ written' \subseteq Sources /\ own' \subseteq Perfs
    BY <1>7, <2>1 DEF Run, TypeOK
  <2>4. RecordAdd(y) /\ UNCHANGED <<pc, pos, found, advice, had>>
    BY <1>7 DEF Run
  <2> QED
    BY <2>2, <2>3, <2>4, TypeRecord
<1>8. CASE Advise
  BY <1>8, TypeStill DEF Advise, TypeOK
<1>9. CASE UNCHANGED vars
  BY <1>9 DEF vars, TypeOK, Closed
<1> QED
  BY <1>1, <1>2, <1>3, <1>4, <1>5, <1>6, <1>7, <1>8, <1>9 DEF Next

(* Types: the reader never runs past the end of the file, whoever appends,   *)
(* and best, max_perf in the code, is never negative.                      *)
THEOREM TypeCorrect == Spec => []TypeOK
<1> QED
  BY TypeInit, TypeStep, PTL DEF Spec

-----------------------------------------------------------------------------
(* The properties hold at the start. *)
LEMMA InvInit == Init => IInv
BY DEF Init, IInv, OfferedBest, ReadSoFar, BestKept, RunsKept, AdviceBeats,
       Phases, Searches

(* What was true of the first n lines stays true, if they are complete and   *)
(* the historical result does not change.                                  *)
LEMMA LinesStay ==
  ASSUME NEW n \in Nat, NEW m, LinesKept, n <= Closed, perf'["db"] = perf["db"],
         LinesUpTo(n), m = n
  PROVE  \A i \in 1..m : file'[i] # Bad /\ (file'[i] \in Perfs => file'[i] <= perf'["db"])
<1>1. \A i \in 1..n : i \in 1..Closed
  BY DEF LinesKept
<1> QED
  BY <1>1 DEF LinesKept, LinesUpTo

(* A step that adds a record leaves alone what is known of the lines. *)
LEMMA RecordLines ==
  ASSUME TypeOK, OfferedBest, ReadSoFar, NEW y \in Perfs, RecordAdd(y),
         UNCHANGED <<pc, pos, found, had>>, perf'["db"] = perf["db"]
  PROVE  OfferedBest' /\ ReadSoFar'
<1>1. LinesKept
  BY RecordKeepsLines
<1>2. had \in Nat /\ had <= Closed /\ pos \in Nat /\ Closed \in Nat /\ Closed' \in Nat
  BY <1>1 DEF TypeOK, LinesKept
<1>3. LinesUpTo(had) => LinesUpTo(had)'
  BY <1>1, <1>2, LinesStay DEF LinesUpTo
<1>4. pos <= Closed /\ LinesUpTo(pos) => LinesUpTo(pos)'
  BY <1>1, <1>2, LinesStay DEF LinesUpTo
<1>5. pos <= Closed => pos <= Closed'
  BY <1>1, <1>2 DEF LinesKept
<1> QED
  BY <1>3, <1>4, <1>5 DEF OfferedBest, ReadSoFar

(* Reading a line extends what is known by that line, or ends the search. *)
LEMMA ReadLineLines ==
  ASSUME TypeOK, OfferedBest, ReadSoFar, Phases, ReadLine
  PROVE  OfferedBest' /\ ReadSoFar'
<1> DEFINE l == file[pos + 1]
           n == Len(file)
<1>1. /\ n \in Nat /\ pos \in Nat /\ pos < n /\ pos' = pos + 1 /\ pos <= Closed
      /\ had \in Nat /\ had <= Closed /\ Closed \in Nat /\ Closed' = Closed
      /\ UNCHANGED <<file, open, had>> /\ ~found' /\ open \in BOOLEAN
      /\ Closed = IF open THEN n - 1 ELSE n
  BY DEF ReadLine, TypeOK, ReadSoFar, Phases, Closed
<1>2. perf["db"] \in Int /\ perf'["db"] \in Int /\ perf["db"] >= -1
      /\ perf'["db"] >= perf["db"] /\ (l \in Perfs => l <= perf'["db"])
  <2>1. perf \in [Sources -> Int] /\ "db" \in Sources /\ perf["db"] >= -1 /\ pc = "read"
    BY DEF ReadLine, TypeOK, ReadSoFar, Sources
  <2>2. perf' = IF l \in Perfs /\ l > perf["db"] THEN [perf EXCEPT !["db"] = l] ELSE perf
    BY DEF ReadLine
  <2>3. l \in Perfs => l \in Int
    BY DBAssumption
  <2> HIDE DEF l
  <2> QED
    BY <2>1, <2>2, <2>3
<1>3. \A i \in 1..pos : file[i] # Bad /\ (file[i] \in Perfs => file[i] <= perf["db"])
  BY DEF ReadLine, ReadSoFar, LinesUpTo
<1>4. \A i \in 1..pos : file[i] # Bad /\ (file[i] \in Perfs => file[i] <= perf'["db"])
  <2>1. \A x \in Perfs : x <= perf["db"] => x <= perf'["db"]
    BY <1>2, DBAssumption
  <2> QED
    BY <1>3, <2>1
<1>5. ASSUME l # Bad
      PROVE  \A i \in 1..pos' : file'[i] # Bad /\ (file'[i] \in Perfs => file'[i] <= perf'["db"])
  <2>1. \A i \in 1..(pos + 1) : i \in 1..pos \/ i = pos + 1
    BY <1>1
  <2> QED
    BY <1>1, <1>2, <1>4, <1>5, <2>1
<1>6. pc' \in {"read", "eof"} => l # Bad
  BY DEF ReadLine
<1>7. pc' = "read" => pos' <= Closed'
  BY <1>1 DEF ReadLine
<1>8. pc' = "eof" => \A i \in 1..had' : i \in 1..pos'
  BY <1>1 DEF ReadLine
<1>9. ReadSoFar'
  BY <1>2, <1>5, <1>6, <1>7, <1>8 DEF ReadSoFar, LinesUpTo
<1> QED
  BY <1>1, <1>9 DEF OfferedBest

(* What is known of the lines, step by step. *)
LEMMA LinesStep ==
  ASSUME TypeOK, OfferedBest, ReadSoFar, Phases, [Next]_vars
  PROVE  OfferedBest' /\ ReadSoFar'
<1>0. Len(file) \in Nat /\ Closed \in Nat /\ Closed <= Len(file) /\ had <= Closed
      /\ had \in Nat /\ pos \in Nat
  BY DEF TypeOK, Closed
<1>1. CASE OtherClient
  BY <1>1, RecordLines DEF OtherClient
<1>2. CASE Begin
  BY <1>2 DEF Begin, OfferedBest, ReadSoFar
<1>3. ASSUME UNCHANGED <<file, open, pos, perf, had, found>>, pc' \notin {"read", "eof"}
      PROVE  OfferedBest' /\ ReadSoFar'
  BY <1>3 DEF OfferedBest, ReadSoFar, LinesUpTo
<1>4. CASE MakeFolder \/ OpenFails \/ DiskSession \/ Answer \/ Die
  BY <1>3, <1>4 DEF MakeFolder, OpenFails, DiskSession, Answer, Die
<1>5. CASE OpenFile
  <2>1. perf \in [Sources -> Int] /\ "db" \in Sources
    BY DEF TypeOK, Sources
  <2>2. ~found /\ UNCHANGED <<file, open, found, pos>> /\ pc' = "read"
    BY <1>5 DEF OpenFile, Phases
  <2>3. perf'["db"] = -1
    BY <1>5, <2>1 DEF OpenFile
  <2>4. pos = 0
    BY <1>5 DEF OpenFile, Phases
  <2> QED
    BY <1>0, <2>2, <2>3, <2>4 DEF OfferedBest, ReadSoFar, LinesUpTo, Closed
<1>6. CASE ReadLine
  BY <1>6, ReadLineLines
<1>7. CASE ReadEnd
  <2>1. \A i \in 1..had : i \in 1..pos
    BY <1>0, <1>7 DEF ReadEnd
  <2>2. LinesUpTo(pos) /\ perf["db"] >= -1
    BY <1>7 DEF ReadEnd, ReadSoFar
  <2>3. /\ pc' = "eof" /\ UNCHANGED <<file, perf, had, found>> /\ ~found
    BY <1>7 DEF ReadEnd, Phases
  <2> QED
    BY <2>1, <2>2, <2>3 DEF OfferedBest, ReadSoFar, LinesUpTo
<1>8. CASE Hit
  <2>1. LinesUpTo(had) /\ UNCHANGED <<file, perf, had>> /\ pc' \notin {"read", "eof"}
        /\ (found' => perf["db"] >= 0)
    BY <1>8 DEF Hit, ReadSoFar
  <2> QED
    BY <2>1 DEF OfferedBest, ReadSoFar, LinesUpTo
<1>9. ASSUME NEW s \in Searches, SearchReturns(s) PROVE OfferedBest' /\ ReadSoFar'
  BY <1>3, <1>9 DEF SearchReturns, Searches
<1>10. ASSUME NEW s \in Searches, NEW y \in Perfs, Run(s, y)
       PROVE  OfferedBest' /\ ReadSoFar'
  <2>1. RecordAdd(y) /\ UNCHANGED <<pc, pos, found, had>> /\ s # "db"
        /\ (perf' = perf \/ perf' = [perf EXCEPT ![s] = y])
    BY <1>10 DEF Run, Searches
  <2>2. perf \in [Sources -> Int] /\ "db" \in Sources
    BY DEF TypeOK, Sources
  <2>3. perf'["db"] = perf["db"]
    BY <2>1, <2>2
  <2> QED
    BY <2>1, <2>3, RecordLines
<1>11. CASE Advise
  BY <1>3, <1>11 DEF Advise
<1>12. CASE UNCHANGED vars
  BY <1>12 DEF vars, OfferedBest, ReadSoFar, LinesUpTo, Closed
<1> QED
  BY <1>1, <1>2, <1>4, <1>5, <1>6, <1>7, <1>8, <1>9, <1>10, <1>11, <1>12 DEF Next

(* A run leaves each result the best its search has recorded. *)
LEMMA RunKeepsBest ==
  ASSUME TypeOK, BestKept, RunsKept, AdviceBeats, Phases,
         NEW s \in Searches, NEW y \in Perfs, Run(s, y)
  PROVE  BestKept' /\ RunsKept' /\ AdviceBeats' /\ Phases'
<1>1. /\ pc = s /\ pc' = s /\ own' = own \cup {y} /\ UNCHANGED <<found, advice, pos>>
      /\ best \in Nat /\ perf \in [Sources -> Int]
      /\ written \subseteq Sources /\ own \subseteq Perfs
  BY DEF Run, TypeOK
<1>2. y \in Int /\ s \in Sources /\ (\A x \in own : x \in Int) /\ s \in {"tcp", "udt"}
  BY <1>1, DBAssumption DEF Searches, Sources
<1>3. advice = None
  BY <1>1, <1>2 DEF AdviceBeats
<1>4. CASE y > best
  <2>1. perf' = [perf EXCEPT ![s] = y] /\ written' = written \cup {s} /\ best' = y
    BY <1>4 DEF Run
  <2>2. perf'[s] = y /\ (\A t \in Sources : t # s => perf'[t] = perf[t])
    BY <1>1, <1>2, <2>1
  <2>3. BestKept'
    BY <1>1, <1>2, <1>4, <2>1, <2>2 DEF BestKept
  <2>4. s \in written => perf[s] = best
    BY <1>1 DEF BestKept
  <2>5. ASSUME NEW x \in own', x > 0
        PROVE  \E t \in Searches \cap written' : x <= perf'[t]
    <3>1. CASE x = y
      BY <1>2, <2>1, <2>2, <3>1
    <3>2. CASE x # y
      <4>1. PICK t \in Searches \cap written : x <= perf[t]
        BY <1>1, <2>5, <3>2 DEF RunsKept
      <4>2. CASE t = s
        BY <1>1, <1>2, <1>4, <2>1, <2>2, <2>4, <2>5, <3>2, <4>1, <4>2
      <4>3. CASE t # s
        BY <2>1, <2>2, <4>1, <4>3 DEF Searches, Sources
      <4> QED
        BY <4>2, <4>3
    <3> QED
      BY <3>1, <3>2
  <2>6. Phases'
    BY <1>1, <1>2, <2>1 DEF Phases, Searches
  <2> QED
    BY <1>1, <1>3, <2>3, <2>5, <2>6 DEF RunsKept, AdviceBeats
<1>5. CASE ~(y > best)
  <2>1. UNCHANGED <<best, perf, written>>
    BY <1>5 DEF Run
  <2>2. y > 0 => perf[s] = best /\ s \in written /\ y <= best
    BY <1>1, <1>2, <1>5 DEF BestKept
  <2>3. RunsKept'
    BY <1>1, <2>1, <2>2 DEF RunsKept
  <2> QED
    BY <1>1, <1>2, <1>3, <2>1, <2>3 DEF BestKept, AdviceBeats, Phases, Searches
<1> QED
  BY <1>4, <1>5

(* What the searches have measured, and the phases of a session. *)
LEMMA RunsStep ==
  ASSUME TypeOK, BestKept, RunsKept, AdviceBeats, Phases, [Next]_vars
  PROVE  BestKept' /\ RunsKept' /\ AdviceBeats' /\ Phases'
<1>1. CASE OtherClient
  BY <1>1 DEF OtherClient, BestKept, RunsKept, AdviceBeats, Phases
<1>2. CASE Begin
  BY <1>2 DEF Begin, BestKept, RunsKept, AdviceBeats, Phases, Searches
<1>3. ASSUME UNCHANGED <<perf, written, best, own>>, advice' = advice, pc # "out",
             BestKept', Phases'
      PROVE  BestKept' /\ RunsKept' /\ AdviceBeats' /\ Phases'
  BY <1>3 DEF RunsKept, AdviceBeats
<1>4. CASE MakeFolder \/ OpenFails
  <2>1. pc' = "tcp" /\ best = 0 /\ "tcp" \notin written /\ "udt" \notin written
        /\ UNCHANGED <<perf, written, best, own>> /\ advice' = advice /\ pc # "out"
    BY <1>4 DEF MakeFolder, OpenFails, Phases, Searches
  <2> QED
    BY <1>3, <2>1 DEF BestKept, Phases, Searches
<1>5. CASE DiskSession \/ ReadEnd \/ Hit \/ Answer
  <2>1. UNCHANGED <<perf, written, best, own>> /\ advice' = advice /\ pc # "out"
    BY <1>5 DEF DiskSession, ReadEnd, Hit, Answer
  <2>2. best = 0 /\ "tcp" \notin written /\ "udt" \notin written /\ written \subseteq {"db"}
    BY <1>5 DEF DiskSession, ReadEnd, Hit, Answer, Phases, Searches
  <2>3. \/ pc' = "eof" /\ ~found' /\ own = {}
        \/ pc' \in {"ask", "tcp", "udt", "done"}
    BY <1>5 DEF DiskSession, ReadEnd, Hit, Answer, Phases
  <2> QED
    BY <1>3, <2>1, <2>2, <2>3 DEF BestKept, Phases, Searches
<1>6. CASE OpenFile \/ ReadLine
  <2>1. pc' \in {"read", "tcp", "eof"} /\ best' = 0 /\ ~found' /\ own' = {}
        /\ advice' = advice /\ pc # "out" /\ written' \subseteq {"db"}
    BY <1>6 DEF OpenFile, ReadLine, Phases, Searches
  <2> QED
    BY <2>1 DEF BestKept, RunsKept, AdviceBeats, Phases, Searches
<1>7. CASE Die
  BY <1>7 DEF Die, BestKept, RunsKept, AdviceBeats, Phases, Searches
<1>8. ASSUME NEW s \in Searches, SearchReturns(s)
      PROVE  BestKept' /\ RunsKept' /\ AdviceBeats' /\ Phases'
  <2>1. /\ \/ pc = "tcp" /\ pc' = "udt" /\ "udt" \notin written
           \/ pc' = "done"
        /\ best' = 0 /\ advice' = advice /\ pc # "out" /\ UNCHANGED <<perf, written, own>>
    BY <1>8 DEF SearchReturns, Searches, Phases
  <2> QED
    BY <2>1 DEF BestKept, RunsKept, AdviceBeats, Phases, Searches
<1>9. ASSUME NEW s \in Searches, NEW y \in Perfs, Run(s, y)
      PROVE  BestKept' /\ RunsKept' /\ AdviceBeats' /\ Phases'
  BY <1>9, RunKeepsBest
<1>10. CASE Advise
  <2>1. pc' = "out" /\ UNCHANGED <<perf, written, best, own, found>>
    BY <1>10 DEF Advise
  <2>2. AdviceBeats'
    BY <1>10 DEF Advise, AdviceBeats
  <2> QED
    BY <2>1, <2>2 DEF BestKept, RunsKept, Phases, Searches
<1>11. CASE UNCHANGED vars
  BY <1>11 DEF vars, BestKept, RunsKept, AdviceBeats, Phases
<1> QED
  BY <1>1, <1>2, <1>4, <1>5, <1>6, <1>7, <1>8, <1>9, <1>10, <1>11 DEF Next

(* The invariant is inductive. *)
THEOREM Inductive == Spec => []IInv
<1>1. TypeOK /\ IInv /\ [Next]_vars => IInv'
  BY LinesStep, RunsStep DEF IInv
<1> QED
  BY <1>1, InvInit, TypeCorrect, PTL DEF Spec

(* What is offered to the user is as good as every record that was in the    *)
(* file when the reading began, for any interleaving with other clients and *)
(* any cut writes.                                                         *)
THEOREM OffersTheBest == Spec => []OfferedBest
<1>1. IInv => OfferedBest
  BY DEF IInv
<1> QED
  BY <1>1, Inductive, PTL

(* What is recommended is as good as every recorded run of the session, and  *)
(* as the history if there was a hit.                                      *)
THEOREM RecommendsTheBest == Spec => []AdviceBest
<1>1. TypeOK /\ IInv => AdviceBest
  <2> SUFFICES ASSUME TypeOK, IInv, advice # None PROVE AdviceBest
    BY DEF AdviceBest
  <2>1. /\ advice \in Sources /\ perf \in [Sources -> Int] /\ own \subseteq Perfs
        /\ \A t \in Sources : t = advice \/ perf[advice] > perf[t]
    BY DEF TypeOK, IInv, AdviceBeats
  <2>2. /\ perf[advice] \in Int
        /\ \A t \in Sources : perf[t] \in Int /\ perf[t] <= perf[advice]
    BY <2>1
  <2>3. ASSUME NEW y \in own, y > 0 PROVE y <= perf[advice]
    <3>1. PICK t \in Searches \cap written : y <= perf[t]
      BY <2>3 DEF IInv, RunsKept
    <3>2. t \in Sources /\ y \in Int
      BY <2>1, <3>1, DBAssumption DEF Searches, Sources
    <3> QED
      BY <2>2, <3>1, <3>2
  <2>4. ASSUME found, NEW i \in 1..had, file[i] \in Perfs PROVE file[i] <= perf[advice]
    <3>1. file[i] <= perf["db"] /\ file[i] \in Int /\ "db" \in Sources
      BY <2>4, DBAssumption DEF IInv, OfferedBest, LinesUpTo, Sources
    <3> QED
      BY <2>2, <3>1
  <2> QED
    BY <2>3, <2>4 DEF AdviceBest
<1> QED
  BY <1>1, Inductive, TypeCorrect, PTL

-----------------------------------------------------------------------------
(* Only the two operations that add a record touch the file. *)
LEMMA StandStep == TypeOK /\ [Next]_vars => LinesStand
<1> SUFFICES ASSUME TypeOK, [Next]_vars PROVE LinesStand
  OBVIOUS
<1>1. LinesKept => LinesStand
  <2> SUFFICES ASSUME LinesKept PROVE LinesStand
    OBVIOUS
  <2>1. Closed <= Len(file)
    BY DEF TypeOK, Closed
  <2> QED
    BY <2>1 DEF LinesKept, LinesStand
<1>2. UNCHANGED <<file, open>> => LinesKept
  BY DEF LinesKept, Closed, TypeOK
<1>3. CASE OtherClient
  BY <1>1, <1>3, RecordKeepsLines DEF OtherClient
<1>4. ASSUME NEW s \in Searches, NEW y \in Perfs, Run(s, y) PROVE LinesStand
  BY <1>1, <1>4, RecordKeepsLines DEF Run
<1>5. CASE UNCHANGED <<file, open>>
  BY <1>1, <1>2, <1>5
<1>6. ASSUME NEW s \in Searches, SearchReturns(s) PROVE LinesStand
  BY <1>5, <1>6 DEF SearchReturns
<1>7. CASE Begin \/ MakeFolder \/ OpenFails \/ DiskSession \/ OpenFile \/ ReadLine
           \/ ReadEnd \/ Hit \/ Answer \/ Advise \/ Die \/ UNCHANGED vars
  <2>1. UNCHANGED <<file, open>>
    BY <1>7 DEF Begin, fileVars, MakeFolder, OpenFails, DiskSession, OpenFile, ReadLine,
         ReadEnd, Hit, Answer, Advise, Die, vars
  <2> QED
    BY <1>5, <2>1
<1> QED
  BY <1>3, <1>4, <1>6, <1>7 DEF Next

(* No step of anybody changes or removes a complete line of the file.        *)
THEOREM CompleteLinesStand == Spec => AppendOnly
<1> QED
  BY TypeInit, TypeStep, StandStep, PTL DEF Spec, AppendOnly

=============================================================================
