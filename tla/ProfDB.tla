------------------------------- MODULE ProfDB -------------------------------
(***************************************************************************)
(* The profile database of one pair of hosts and the client sessions that  *)
(* use it, one after the other: a session looks for the best record        *)
(* (f_m2m_db_search), offers it, measures if the user wants to, appending  *)
(* a record per run, and recommends the best of what it found and          *)
(* measured.  Other clients of the same two hosts append to the same file  *)
(* at any time.                                                            *)
(*                                                                         *)
(* A line of the file is what a reader makes of it: a measurement (Mbps,   *)
(* as printed), Bad if it does not have the 17 elements, Comment if it is  *)
(* skipped.  How a search comes by its measurements and when it stops is   *)
(* FastProf; whether the server answers the last request is                *)
(* ControlSession.  Here a search makes any number of runs.                *)
(***************************************************************************)
EXTENDS Integers, Sequences

CONSTANTS
  Perfs,         \* what a run can measure: -1 without streams
  Garbage,       \* what an uninitialised double may hold
  Bad, Comment,  \* a line that does not parse, a line that is skipped
  None,          \* no recommendation
  Histories,     \* the files there may be to begin with, their lines complete
  MaxLines,      \* bound: the file grows no further; negative for no bound
  CanCut         \* the disk may fill up

Lines == Perfs \cup {Bad, Comment}

ASSUME DBAssumption ==
  /\ Perfs \subseteq Int /\ Garbage \subseteq Int
  /\ Bad \notin Perfs /\ Comment \notin Perfs /\ Bad # Comment
  /\ Histories \subseteq Seq(Lines) /\ <<>> \in Histories
  /\ MaxLines \in Int /\ CanCut \in BOOLEAN

(* The three results compared in the end: m2m_record_max->average_perf and  *)
(* the perf_Mbps of prob_tcp_prof_max and prob_udt_prof_max.               *)
Sources  == {"db", "tcp", "udt"}
Searches == {"tcp", "udt"}

ASSUME NoneAssumption == None \notin Sources

VARIABLES
  folder, file,  \* whether the profile folder exists; the lines of the file
  open,          \* the last line has no newline: a write was cut short
  pc,            \* where the session stands
  pos,           \* the lines the reader has read
  perf,          \* the three results, as they lie in memory
  written,       \* ghost: which of the three this session has assigned
  found,         \* the database search returned 0
  best,          \* max_perf of the current search
  advice,        \* the result recommended
  had, own       \* ghosts: complete lines when the reading began; recorded runs

fileVars == <<folder, file, open>>
vars == <<folder, file, open, pc, pos, perf, written, found, best, advice,
          had, own>>

Closed == IF open THEN Len(file) - 1 ELSE Len(file)

TypeOK ==
  /\ folder \in BOOLEAN /\ file \in Seq(Lines) /\ open \in BOOLEAN
  /\ open => Len(file) > 0
  /\ pc \in {"out", "start", "read", "eof", "ask", "tcp", "udt", "done"}
  /\ pos \in 0..Len(file) /\ had \in 0..Closed
  /\ perf \in [Sources -> Int] /\ written \subseteq Sources
  /\ found \in BOOLEAN /\ best \in Nat
  /\ advice \in Sources \cup {None} /\ own \subseteq Perfs

Init ==
  /\ folder \in BOOLEAN
  /\ file \in IF folder THEN Histories ELSE {<<>>}
  /\ open = FALSE /\ pc = "out" /\ pos = 0
  /\ perf \in [Sources -> Garbage] /\ written = {}
  /\ found = FALSE /\ best = 0 /\ advice = None /\ had = 0 /\ own = {}

-----------------------------------------------------------------------------
(* Appending a record *)

(* A record that becomes a complete last line: a line of its own, or, after  *)
(* a cut write, the rest of that line, which then reads as anything.       *)
Whole(y) ==
  /\ open' = FALSE
  /\ IF open
       THEN \E l \in Perfs \cup {Bad} : file' = [file EXCEPT ![Len(file)] = l]
       ELSE file' = Append(file, y)

(* The disk is full: no character of the record gets into the file, or some, *)
(* but not the newline.  Nothing looks at what fprintf and fflush return.  *)
Cut(y) ==
  /\ CanCut
  /\ \/ UNCHANGED <<file, open>>
     \/ /\ open' = TRUE
        /\ IF open
             THEN \E l \in Perfs \cup {Bad} : file' = [file EXCEPT ![Len(file)] = l]
             ELSE \E l \in {y, Bad} : file' = Append(file, l)

Room == MaxLines < 0 \/ Len(file) < MaxLines

(* Faulty variant: the file is opened for writing, not for appending.        *)
RecordAddTruncates(y) ==
  /\ Room
  /\ folder' = TRUE
  /\ open' = FALSE /\ file' = <<y>>

(* f_tcp_m2m_record_add and f_udt_m2m_record_add; they create the folder if  *)
(* there is none.                                                          *)
RecordAdd(y) ==
  /\ Room
  /\ folder' = TRUE
  /\ Whole(y) \/ Cut(y)

(* A client of the same hosts in another process makes a run. *)
OtherClient ==
  /\ \E y \in Perfs : RecordAdd(y)
  /\ UNCHANGED <<pc, pos, perf, written, found, best, advice, had, own>>

-----------------------------------------------------------------------------
(* The session *)

(* A new process: the results are allocated and not initialised. *)
Begin ==
  /\ pc = "out" /\ pc' = "start"
  /\ perf' \in [Sources -> Garbage] /\ written' = {} /\ own' = {}
  /\ pos' = 0 /\ had' = 0 /\ best' = 0 /\ found' = FALSE /\ advice' = None
  /\ UNCHANGED fileVars

(* f_m2m_db_search without a folder: it is created, if it can be. *)
MakeFolder ==
  /\ pc = "start" /\ ~folder /\ folder' \in BOOLEAN
  /\ pc' = "tcp"
  /\ UNCHANGED <<file, open, pos, perf, written, found, best, advice, had, own>>

(* The file cannot be opened; m2m_record_max has not been touched. *)
OpenFails ==
  /\ pc = "start" /\ folder
  /\ pc' = "tcp"
  /\ UNCHANGED <<folder, file, open, pos, perf, written, found, best, advice,
                 had, own>>

(* A session for files (-S, -V) neither searches nor measures. *)
DiskSession ==
  /\ pc = "start"
  /\ pc' = "done"
  /\ UNCHANGED <<folder, file, open, pos, perf, written, found, best, advice,
                 had, own>>

(* The file is opened, or created, and the maximum reset. *)
OpenFile ==
  /\ pc = "start" /\ folder
  /\ pc' = "read" /\ had' = Closed
  /\ perf' = [perf EXCEPT !["db"] = -1] /\ written' = {"db"}
  /\ UNCHANGED <<folder, file, open, pos, found, best, advice, own>>

(* Faulty variants: the first record is taken; the blank line read at the    *)
(* end of the file is counted.                                             *)
ReadLineFirst ==
  /\ pc = "read" /\ pos < Len(file) /\ pos' = pos + 1
  /\ LET l == file[pos + 1]
     IN  /\ pc' = IF l = Bad THEN "tcp" ELSE IF l \in Perfs THEN "eof" ELSE "read"
         /\ perf' = IF l \in Perfs THEN [perf EXCEPT !["db"] = l] ELSE perf
  /\ UNCHANGED <<folder, file, open, written, found, best, advice, had, own>>

ReadEndCounted ==
  /\ pc = "read" /\ pos = Len(file) /\ pos' = pos + 1
  /\ pc' = "eof"
  /\ UNCHANGED <<folder, file, open, perf, written, found, best, advice, had, own>>

(* One round of the reading loop.  A line that does not parse ends the       *)
(* search as a failure; a last line without a newline is the end of the    *)
(* file for the reader, even if it is continued later.                     *)
ReadLine ==
  /\ pc = "read" /\ pos < Len(file) /\ pos' = pos + 1
  /\ LET l == file[pos + 1]
     IN  /\ pc' = IF l = Bad THEN "tcp"
                  ELSE IF open /\ pos' = Len(file) THEN "eof" ELSE "read"
         /\ perf' = IF l \in Perfs /\ l > perf["db"]
                      THEN [perf EXCEPT !["db"] = l] ELSE perf
  /\ UNCHANGED <<folder, file, open, written, found, best, advice, had, own>>

ReadEnd ==
  /\ pc = "read" /\ pos = Len(file)
  /\ pc' = "eof"
  /\ UNCHANGED <<folder, file, open, pos, perf, written, found, best, advice,
                 had, own>>

(* The search returns; a hit is shown to the user. *)
Hit ==
  /\ pc = "eof"
  /\ IF perf["db"] >= 0 THEN found' = TRUE /\ pc' = "ask"
                         ELSE found' = FALSE /\ pc' = "tcp"
  /\ UNCHANGED <<folder, file, open, pos, perf, written, best, advice, had, own>>

(* "DO ONLINE PROFILING?": no, or yes, with -t from UDT on. *)
Answer ==
  /\ pc = "ask"
  /\ pc' \in {"done", "tcp", "udt"}
  /\ UNCHANGED <<folder, file, open, pos, perf, written, found, best, advice,
                 had, own>>

(* Faulty variant: the latest result is kept. *)
RunKeepsLast(s, y) ==
  /\ pc = s /\ RecordAdd(y)
  /\ own' = own \cup {y}
  /\ IF y > 0
       THEN /\ best' = y
            /\ perf' = [perf EXCEPT ![s] = y] /\ written' = written \cup {s}
       ELSE UNCHANGED <<best, perf, written>>
  /\ UNCHANGED <<pc, pos, found, advice, had>>

(* A run of search s measures y.  It is recorded, and kept if it is the best *)
(* of this search.                                                         *)
Run(s, y) ==
  /\ pc = s /\ RecordAdd(y)
  /\ own' = own \cup {y}
  /\ IF y > best
       THEN /\ best' = y
            /\ perf' = [perf EXCEPT ![s] = y] /\ written' = written \cup {s}
       ELSE UNCHANGED <<best, perf, written>>
  /\ UNCHANGED <<pc, pos, found, advice, had>>

(* The search returns 0: it has stopped, or a record could not be written    *)
(* (the folder may have been made).  UDT follows TCP.                      *)
SearchReturns(s) ==
  /\ pc = s
  /\ pc' = IF s = "tcp" THEN "udt" ELSE "done"
  /\ best' = 0 /\ folder' \in {folder, TRUE}
  /\ UNCHANGED <<file, open, pos, perf, written, found, advice, had, own>>

(* Faulty variant: UDT is not compared with the history. *)
AdviseUdtBeforeHistory ==
  /\ pc = "done" /\ pc' = "out"
  /\ advice' = IF perf["udt"] > perf["tcp"] THEN "udt"
               ELSE IF perf["tcp"] > perf["db"] THEN "tcp" ELSE "db"
  /\ UNCHANGED <<folder, file, open, pos, perf, written, found, best, had, own>>

(* The three comparisons at the end, all strict: in a tie nothing is shown.  *)
(* (An uninitialised value that is not a number is like a tie.)            *)
Advise ==
  /\ pc = "done" /\ pc' = "out"
  /\ \/ /\ advice' \in Sources
        /\ \A t \in Sources \ {advice'} : perf[advice'] > perf[t]
     \/ /\ advice' = None
        /\ \A s \in Sources : \E t \in Sources \ {s} : perf[s] <= perf[t]
  /\ UNCHANGED <<folder, file, open, pos, perf, written, found, best, had, own>>

(* The session fails or is killed, at any time: no recommendation. *)
Die ==
  /\ pc # "out" /\ pc' = "out"
  /\ UNCHANGED <<folder, file, open, pos, perf, written, found, best, advice,
                 had, own>>

Next ==
  \/ OtherClient
  \/ Begin \/ MakeFolder \/ OpenFails \/ DiskSession \/ OpenFile
  \/ ReadLine \/ ReadEnd \/ Hit \/ Answer
  \/ \E s \in Searches : SearchReturns(s) \/ \E y \in Perfs : Run(s, y)
  \/ Advise \/ Die

Spec == Init /\ [][Next]_vars

-----------------------------------------------------------------------------
(* Properties *)

(* The first n lines parse, and none of them beats the historical result. *)
LinesUpTo(n) ==
  \A i \in 1..n : file[i] # Bad /\ (file[i] \in Perfs => file[i] <= perf["db"])

(* What is offered to the user is as good as every record that was in the    *)
(* file when the reading began, whatever other clients have appended since, *)
(* and nothing is offered from a file in which a line did not parse.       *)
OfferedBest ==
  found =>
    /\ perf["db"] >= 0
    /\ LinesUpTo(had)

(* What is recommended is as good as every run the session has recorded, and *)
(* as everything known before if the search for that came back with a hit.  *)
AdviceBest ==
  advice # None =>
    /\ \A y \in own : y > 0 => y <= perf[advice]
    /\ found => \A i \in 1..had : file[i] \in Perfs => file[i] <= perf[advice]

(* A complete line stands: no run, of this client or another, and no session *)
(* changes it, moves it or takes it away, also while somebody reads the file *)
(* and after a write that was cut short.                                    *)
LinesStand ==
  Closed <= Closed' /\ \A i \in 1..Closed : i <= Len(file') /\ file'[i] = file[i]

AppendOnly == [][LinesStand]_vars

(* What is promised and not kept.  "Cannot find historical data": a search   *)
(* that read the file and found nothing means there is nothing in it.      *)
MissMeansNone ==
  pc = "tcp" /\ "db" \in written /\ ~found =>
    \A i \in 1..had : file[i] \in Perfs => file[i] < 0

(* "RECOMMENDED CONTROL PARAMETER VALUES": a recommendation is a result this *)
(* session has found or measured.                                          *)
RecommendsResult == advice # None => advice \in written

(* The inductive invariant.  While the reader reads, its result is the best  *)
(* of the lines read, all of them complete;                                *)
ReadSoFar ==
  /\ pc \in {"read", "eof"} => perf["db"] >= -1
  /\ pc = "read" => pos <= Closed /\ LinesUpTo(pos)
  /\ pc = "eof" => LinesUpTo(had)

(* the running search's best lies in its result, which nobody else writes;   *)
BestKept ==
  \A s \in Searches :
    pc = s => IF best > 0 THEN perf[s] = best /\ s \in written ELSE s \notin written

(* and each recorded run is outdone by the result of a search.              *)
RunsKept ==
  \A y \in own : y > 0 => \E s \in Searches \cap written : y <= perf[s]

(* The recommendation beats the other two.                                  *)
AdviceBeats ==
  advice # None => pc = "out" /\ \A t \in Sources \ {advice} : perf[advice] > perf[t]

(* Before the search has returned, nothing is found; no search, no best; and *)
(* the searches come one after the other.                                  *)
Phases ==
  /\ pc \in {"start", "read", "eof"} => ~found /\ own = {}
  /\ pc = "start" => pos = 0
  /\ pc \in {"start", "read", "eof", "ask"} => written \subseteq {"db"}
  /\ pc = "tcp" => "udt" \notin written
  /\ pc \notin Searches \cup {"out"} => best = 0

IInv ==
  OfferedBest /\ ReadSoFar /\ BestKept /\ RunsKept /\ AdviceBeats /\ Phases
=============================================================================
