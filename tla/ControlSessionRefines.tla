----------------------- MODULE ControlSessionRefines -----------------------
(***************************************************************************)
(* ControlSession implements Session: the untagged bytes that the two      *)
(* processes exchange, whatever their threads do, are a conversation of     *)
(* requests and answers.  The stage is what the client acted on last; what  *)
(* is pending is found in whichever place the request or its answer is at   *)
(* the moment, in either stream or in the server's status.                 *)
(***************************************************************************)
EXTENDS ControlSessionProofs

Stage == IF BothAlive THEN cst ELSE "closed"

(* Where the request is that the client waits for. *)
Place == IF c2s # <<>> THEN StatusOf(Head(c2s))
         ELSE IF s2c # <<>> THEN StatusOf(Head(s2c)) ELSE sst

Pending == IF BothAlive /\ Waiting THEN Place ELSE "none"

(* The steps of the conversation, of these two. *)
Silent  == Stage' = Stage /\ Pending' = Pending
Greets  == Stage = "PROGRAM_START" /\ Stage' = "CTRL_CHAN_EST" /\ Pending' = Pending
Asks    == /\ Pending = "none" /\ Conversation!MayAsk(Stage, Pending') /\ Pending' \in Status
           /\ Stage' = Stage
Answers == Pending # "none" /\ Stage' = Pending /\ Pending' = "none"
Closes  == Stage' = "closed" /\ Pending' = "none"

LEMMA ConversationStep == Silent \/ Greets \/ Asks \/ Answers \/ Closes
                            => [Conversation!Next]_(Conversation!vars)
<1>1. Silent => UNCHANGED Conversation!vars
  BY DEF Silent, Stage, Pending, Place, Conversation!vars
<1>2. Greets => Conversation!Greet
  BY DEF Greets, Stage, Pending, Place, Conversation!Greet
<1>3. Asks => \E r \in Status : Conversation!Ask(r)
  BY DEF Asks, Stage, Pending, Place, Conversation!Ask
<1>4. Answers => Conversation!Answer
  BY DEF Answers, Stage, Pending, Place, Conversation!Answer
<1>5. Closes => Conversation!Close
  BY DEF Closes, Stage, Pending, Place, Conversation!Close
<1> QED
  BY <1>1, <1>2, <1>3, <1>4, <1>5 DEF Conversation!Next

-----------------------------------------------------------------------------
(* Who has gone stays gone, and with either process the conversation. *)
LEMMA GoneStays == [Next]_vars => (~BothAlive => ~BothAlive')
<1> SUFFICES ASSUME [Next]_vars PROVE (CliGone => CliGone') /\ (SrvGone => SrvGone')
  BY DEF BothAlive
<1> USE DEF CliGone, SrvGone, Gone
<1>1. ASSUME cvars' = cvars PROVE cpc' = cpc
  BY <1>1 DEF cvars
<1>2. ASSUME svars' = svars PROVE spc' = spc
  BY <1>2 DEF svars
<1>3. CASE CliStep
  <2>1. svars' = svars
    BY <1>3 DEF CliStep, CliUnch, CliConnect, CliSendId, CliRecvAddr, CliPoll, CliEst, CliHandshake,
       CliExchange, CliD2dDb, CliD2dTcp, CliD2dUdt, CliM2mDb, CliStartTcp, CliTcpRun, CliTcpDone,
       CliStartUdt, CliUdtRun, CliUdtDone, CliRunFail, CliOther, CliBrokenPipe, CliAsk, CliStart,
       CliFinish
  <2>2. ~CliGone
    BY <1>3 DEF CliStep, CliConnect, CliSendId, CliRecvAddr, CliPoll, CliEst, CliHandshake,
       CliExchange, CliD2dDb, CliD2dTcp, CliD2dUdt, CliM2mDb, CliStartTcp, CliTcpRun, CliTcpDone,
       CliStartUdt, CliUdtRun, CliUdtDone, CliRunFail, CliOther, CliBrokenPipe, CliAsk, CliStart,
       CliFinish
  <2> QED
    BY <1>2, <2>1, <2>2
<1>4. CASE SrvStep
  <2>1. cvars' = cvars
    BY <1>4 DEF SrvStep, SrvUnch, SrvListen, SrvAccept, SrvRecvId, SrvEst, SrvPoll, SrvHandshake,
       SrvExchange, SrvEchoOnly, SrvStartTcp, SrvTcpEcho, SrvCancelTcp, SrvJoinTcp, SrvUdtEcho,
       SrvStartUdt, SrvFinish, SrvJoinUdt, SrvJoinTcpAgain, SrvDoneEcho, SrvCleanUp,
       SrvBrokenPipe, SrvEcho
  <2>2. ~SrvGone
    BY <1>4 DEF SrvStep, SrvListen, SrvAccept, SrvRecvId, SrvEst, SrvPoll, SrvHandshake,
       SrvExchange, SrvEchoOnly, SrvStartTcp, SrvTcpEcho, SrvCancelTcp, SrvJoinTcp, SrvUdtEcho,
       SrvStartUdt, SrvFinish, SrvJoinUdt, SrvJoinTcpAgain, SrvDoneEcho, SrvCleanUp,
       SrvBrokenPipe, SrvEcho
  <2> QED
    BY <1>1, <2>1, <2>2
<1>5. CASE TcpWorker \/ TwError \/ UdtWorker \/ UwError
  BY <1>1, <1>5 DEF TcpWorker, TwServe, TwReset, TwBreak, TwCancelled, TwError, UdtWorker, UwCheck,
     UwTimeout, UwError, TwUnch, UwUnch
<1>6. CASE Kill \/ Over \/ UNCHANGED vars
  BY <1>6 DEF Kill, Over, vars, cvars, svars
<1> QED
  BY <1>3, <1>4, <1>5, <1>6 DEF Next

(* With both alive, the client waits for one request, and it is in its place. *)
LEMMA WaitsForOne ==
  TypeOK /\ IInv /\ BothAlive /\ Waiting =>
    \E r \in Requests \ {"CLIENT_TERMINATE"} :
      /\ Follow(cst, r) /\ Place = r
      /\ \/ spc \in Rest(cst) /\ sst = cst /\ c2s = <<Byte(r)>> /\ s2c = <<>>
         \/ spc \in Busy /\ sst = r /\ Quiet
         \/ spc \in AfterEcho(r) /\ sst = r /\ c2s = <<>> /\ s2c = <<Byte(r)>>
<1> SUFFICES ASSUME TypeOK, IInv, BothAlive, Waiting
    PROVE \E r \in Requests \ {"CLIENT_TERMINATE"} :
      /\ Follow(cst, r) /\ Place = r
      /\ \/ spc \in Rest(cst) /\ sst = cst /\ c2s = <<Byte(r)>> /\ s2c = <<>>
         \/ spc \in Busy /\ sst = r /\ Quiet
         \/ spc \in AfterEcho(r) /\ sst = r /\ c2s = <<>> /\ s2c = <<Byte(r)>>
  OBVIOUS
<1>1. PICK r \in Requests \ {"CLIENT_TERMINATE"} :
        Follow(cst, r) /\ (Asked(r) \/ Served(r) \/ Answered(r))
  BY DEF IInv, CliView, BothAlive, CliWaiting, Waiting
<1>2. CASE Asked(r)
  BY <1>1, <1>2, Short, ByteFacts DEF Asked, Place
<1>3. CASE Served(r)
  BY <1>1, <1>3 DEF Served, Place, Quiet
<1>4. CASE Answered(r)
  BY <1>1, <1>4, Short, ByteFacts DEF Answered, Place
<1> QED
  BY <1>1, <1>2, <1>3, <1>4

(* A step of the server or of a thread leaves the request pending, wherever  *)
(* it takes it: from the stream to its status, or from there to the echo.   *)
LEMMA ServerSilent ==
  ASSUME TypeOK, IInv, BothAlive, BothAlive', UNCHANGED cvars,
         Waiting => Place' = Place
  PROVE  Silent
BY DEF Silent, Stage, Pending, Waiting, cvars

LEMMA ServerStepSilent ==
  ASSUME TypeOK, IInv, BothAlive, BothAlive', SrvStep
  PROVE  Silent
<1> USE DEF BothAlive, CliGone, SrvGone, Gone
<1>1. ASSUME SrvUnch \/ UNCHANGED <<env, cvars>> PROVE UNCHANGED cvars
  BY <1>1 DEF SrvUnch
<1>2. ASSUME UNCHANGED <<sst, net>> PROVE Place' = Place
  BY <1>2 DEF Place, net
<1>3. CASE SrvPoll
  <2>1. /\ spc = "poll" /\ c2s # <<>> /\ sst' = StatusOf(Head(c2s)) /\ c2s' = Tail(c2s)
        /\ s2c' = s2c /\ UNCHANGED cvars
    BY <1>3 DEF SrvPoll, SrvUnch
  <2>2. ASSUME Waiting PROVE Place' = Place
    <3>1. PICK r \in Requests : Place = r /\ c2s = <<Byte(r)>> /\ s2c = <<>>
      BY <2>1, <2>2, WaitsForOne DEF Quiet, Busy
    <3> QED
      BY <2>1, <3>1, Short, ByteFacts DEF Place
  <2> QED
    BY <2>1, <2>2, ServerSilent
<1>4. ASSUME NEW pc \in Busy, NEW next, SrvEcho(pc, next) PROVE Silent
  <2>1. /\ spc = pc /\ s2c' = Append(s2c, Byte(sst)) /\ c2s' = c2s /\ sst' = sst
        /\ UNCHANGED cvars
    BY <1>4 DEF SrvEcho, ToClient, SrvUnch
  <2>2. ASSUME Waiting PROVE Place' = Place
    <3>1. Quiet
      BY <1>4, <2>1, AtServer DEF Quiet
    <3> QED
      BY <2>1, <3>1, Short, ByteFacts DEF Place, Quiet
  <2> QED
    BY <2>1, <2>2, ServerSilent
<1>5. CASE SrvHandshake \/ SrvEchoOnly \/ SrvTcpEcho \/ SrvUdtEcho \/ SrvDoneEcho
  BY <1>4, <1>5 DEF SrvHandshake, SrvEchoOnly, SrvTcpEcho, SrvUdtEcho, SrvDoneEcho, Busy
<1>6. CASE SrvRecvId \/ SrvEst \/ SrvExchange
  <2>1. spc \in {"id", "est", "exch"} /\ UNCHANGED cvars
    BY <1>6 DEF SrvRecvId, SrvEst, SrvExchange, SrvUnch
  <2>2. ASSUME Waiting PROVE FALSE
    <3>1. PICK r \in Requests :
            \/ spc \in Rest(cst) \/ spc \in Busy
            \/ spc \in AfterEcho(r) /\ c2s = <<>>
      BY <2>2, WaitsForOne
    <3>2. spc = "exch" /\ c2s = <<>>
      BY <2>1, <3>1 DEF Rest, Busy, AfterEcho
    <3>3. SrvExchange
      BY <1>6, <3>2 DEF SrvRecvId, SrvEst
    <3> QED
      BY <3>2, <3>3 DEF SrvExchange
  <2> QED
    BY <2>1, <2>2, ServerSilent
<1>7. CASE SrvListen \/ SrvAccept \/ SrvStartTcp \/ SrvCancelTcp \/ SrvJoinTcp \/ SrvStartUdt
           \/ SrvFinish \/ SrvJoinUdt \/ SrvJoinTcpAgain \/ SrvCleanUp \/ SrvBrokenPipe
  <2>1. UNCHANGED <<sst, net>> /\ UNCHANGED cvars
    BY <1>7 DEF SrvListen, SrvAccept, SrvStartTcp, SrvCancelTcp, SrvJoinTcp, SrvStartUdt,
       SrvFinish, SrvJoinUdt, SrvJoinTcpAgain, SrvCleanUp, SrvBrokenPipe, SrvUnch
  <2> QED
    BY <1>2, <2>1, ServerSilent
<1> QED
  BY <1>3, <1>5, <1>6, <1>7 DEF SrvStep

LEMMA ThreadStepSilent ==
  ASSUME TypeOK, IInv, BothAlive, BothAlive',
         TcpWorker \/ TwError \/ UdtWorker \/ UwError \/ UNCHANGED vars
  PROVE  Silent
<1>1. UNCHANGED cvars /\ sst' = sst /\ UNCHANGED net
  BY DEF TcpWorker, TwServe, TwReset, TwBreak, TwCancelled, TwError, UdtWorker, UwCheck,
     UwTimeout, UwError, TwUnch, UwUnch, svars, vars
<1>2. Place' = Place
  BY <1>1 DEF Place, net
<1> QED
  BY <1>1, <1>2, ServerSilent

-----------------------------------------------------------------------------
(* The client asks: nothing was pending and both streams were empty.        *)
LEMMA AskStep ==
  ASSUME TypeOK, IInv, BothAlive, BothAlive', NEW r \in Requests,
         cpc # "poll", cpc' = "poll", cst' = cst, cst # "PROGRAM_START",
         c2s = <<>>, c2s' = Append(c2s, Byte(r)), Conversation!MayAsk(cst, r)
  PROVE  Asks
<1>1. c2s' = <<Byte(r)>>
  BY Short
<1>2. Pending = "none" /\ Pending' = r
  BY <1>1, Short, ByteFacts DEF Pending, Place, Waiting
<1>3. Stage = cst /\ Stage' = cst
  BY DEF Stage
<1> QED
  BY <1>2, <1>3 DEF Asks, Status

(* The client moves, and neither waited before nor waits now. *)
LEMMA ClientSilent ==
  ASSUME BothAlive, BothAlive', ~Waiting, ~Waiting', cst' = cst
  PROVE  Silent
BY DEF Silent, Stage, Pending

LEMMA ClientStep ==
  ASSUME TypeOK, IInv, BothAlive, BothAlive', CliStep
  PROVE  Silent \/ Greets \/ Asks \/ Answers
<1> USE DEF BothAlive, CliGone, SrvGone, Gone
<1>1. cpc \in {"proc", "tcp", "udt"} =>
        Quiet /\ cst \in Requests \cup {"CTRL_CHAN_EST"} /\ cst # "PROGRAM_START"
  BY DEF IInv, CliView, CliActing, Requests
<1>2. CASE CliConnect \/ CliSendId \/ CliHandshake \/ CliStartTcp \/ CliStartUdt \/ CliTcpRun
           \/ CliUdtRun
  BY <1>2, ClientSilent DEF CliConnect, CliSendId, CliHandshake, CliStartTcp, CliStartUdt, CliStart,
     CliTcpRun, CliUdtRun, Waiting
<1>3. CASE CliRecvAddr
  <2>1. cpc = "addr" /\ cst = "PROGRAM_START" /\ cst' = cst
    BY <1>3 DEF CliRecvAddr, IInv, Unexchanged
  <2> QED
    BY <2>1, ClientSilent DEF Waiting
<1>4. CASE CliOther
  BY <1>1, <1>4 DEF CliOther, Requests
<1>5. CASE CliRunFail \/ CliBrokenPipe
  BY <1>5 DEF CliRunFail, CliBrokenPipe
<1>6. CASE CliPoll
  <2>1. /\ cpc = "poll" /\ s2c # <<>> /\ cst' = StatusOf(Head(s2c)) /\ cpc' = "proc"
    BY <1>6 DEF CliPoll
  <2>2. CASE cst = "PROGRAM_START"
    <3>1. s2c = <<Byte("CTRL_CHAN_EST")>>
      BY <2>1, <2>2 DEF IInv, CliView, CliConnecting, Answered, Quiet
    <3> QED
      BY <2>1, <2>2, <3>1, Short, ByteFacts DEF Greets, Stage, Pending, Waiting
  <2>3. CASE cst # "PROGRAM_START"
    <3>1. PICK r \in Requests : Place = r /\ c2s = <<>> /\ s2c = <<Byte(r)>>
      BY <2>1, <2>3, WaitsForOne DEF Quiet, Waiting
    <3>2. Pending = r /\ cst' = r
      BY <2>1, <2>3, <3>1, Short, ByteFacts DEF Pending, Waiting
    <3>3. r # "none"
      BY DEF Requests
    <3> QED
      BY <2>1, <3>2, <3>3 DEF Answers, Stage, Pending, Waiting
  <2> QED
    BY <2>2, <2>3
<1>7. ASSUME NEW st, NEW r \in Requests, CliAsk(st, r), Conversation!MayAsk(st, r) PROVE Asks
  <2>1. /\ cpc = "proc" /\ cst = st /\ cpc' = "poll" /\ cst' = cst
        /\ c2s' = Append(c2s, Byte(r))
    BY <1>7 DEF CliAsk, ToServer
  <2> QED
    BY <1>1, <1>7, <2>1, AskStep DEF Quiet
<1>8. CASE CliEst \/ CliD2dDb \/ CliD2dTcp \/ CliD2dUdt
  BY <1>7, <1>8 DEF CliEst, CliD2dDb, CliD2dTcp, CliD2dUdt, Conversation!MayAsk, Requests
<1>9. CASE CliM2mDb
  <2>1. PICK r \in AfterDb : CliAsk("RUN_M2M_DB", r)
    BY <1>9 DEF CliM2mDb
  <2>2. r \in {"RUN_M2M_TCP", "RUN_M2M_UDT", "PROGRAM_DONE"}
    BY DEF AfterDb
  <2>3. r \in Requests /\ Conversation!MayAsk("RUN_M2M_DB", r)
    BY <2>2 DEF Conversation!MayAsk, Requests
  <2> QED
    BY <1>7, <2>1, <2>3
<1>10. CASE CliTcpDone \/ CliUdtDone
  <2>1. PICK r \in {"RUN_M2M_UDT", "PROGRAM_DONE"} :
          /\ cpc = (IF r = "RUN_M2M_UDT" THEN "tcp" ELSE "udt") /\ cpc' = "poll" /\ cst' = cst
          /\ c2s' = Append(c2s, Byte(r))
    BY <1>10 DEF CliTcpDone, CliUdtDone, CliFinish, ToServer
  <2>2. cst = IF r = "RUN_M2M_UDT" THEN "RUN_M2M_TCP" ELSE "RUN_M2M_UDT"
    BY <2>1 DEF IInv, CliView, CliActing
  <2>3. r \in Requests /\ Conversation!MayAsk(cst, r)
    BY <2>2 DEF Conversation!MayAsk, Requests
  <2> QED
    BY <1>1, <2>1, <2>3, AskStep DEF Quiet
<1>11. CASE CliExchange
  <2>1. /\ cpc = "exch" /\ cpc' = "poll" /\ mode # "dst" /\ cst' = cst /\ s2c # <<>>
        /\ c2s' = Append(c2s, Byte(FirstRun))
    BY <1>11 DEF CliExchange
  <2>2. cst = "TWOWAY_HANDSHAKE" /\ c2s = <<>>
    BY <2>1 DEF IInv, CliView, CliActing
  <2>3. FirstRun \in {"RUN_M2M_DB", "RUN_D2D_DB"}
    BY <2>1 DEF FirstRun
  <2>4. FirstRun \in Requests /\ Conversation!MayAsk(cst, FirstRun)
    BY <2>2, <2>3 DEF Conversation!MayAsk, Requests
  <2> QED
    BY <2>1, <2>2, <2>4, AskStep
<1> QED
  BY <1>2, <1>3, <1>4, <1>5, <1>6, <1>8, <1>9, <1>10, <1>11 DEF CliStep

-----------------------------------------------------------------------------
(* Every session is a conversation: the refinement TLC checks, for every     *)
(* value of the constants.                                                 *)
THEOREM SessionIsConversation == Spec => ImplementsSession
<1>1. Init => Conversation!Init
  BY DEF Init, Conversation!Init, BothAlive, CliGone, SrvGone, Gone, Waiting
<1>2. TypeOK /\ IInv /\ [Next]_vars => [Conversation!Next]_(Conversation!vars)
  <2> SUFFICES ASSUME TypeOK, IInv, [Next]_vars
               PROVE  Silent \/ Greets \/ Asks \/ Answers \/ Closes
    BY ConversationStep
  <2>1. CASE ~BothAlive'
    BY <2>1 DEF Closes, Stage, Pending
  <2>2. CASE BothAlive'
    <3>1. BothAlive
      BY <2>2, GoneStays
    <3>2. CASE CliStep
      BY <2>2, <3>1, <3>2, ClientStep
    <3>3. CASE SrvStep
      BY <2>2, <3>1, <3>3, ServerStepSilent
    <3>4. CASE TcpWorker \/ TwError \/ UdtWorker \/ UwError \/ UNCHANGED vars
      BY <2>2, <3>1, <3>4, ThreadStepSilent
    <3>5. CASE Kill
      BY <2>2, <3>5 DEF Kill, BothAlive, CliGone, SrvGone, Gone
    <3>6. CASE Over
      BY <3>1, <3>6 DEF Over, BothAlive
    <3> QED
      BY <3>2, <3>3, <3>4, <3>5, <3>6 DEF Next
  <2> QED
    BY <2>1, <2>2
<1> QED
  BY <1>1, <1>2, Invariant, PTL DEF Spec, ImplementsSession, Conversation!Spec

=============================================================================
