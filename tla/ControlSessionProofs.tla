------------------------ MODULE ControlSessionProofs ------------------------
(***************************************************************************)
(* Proofs about ControlSession.                                            *)
(***************************************************************************)
EXTENDS ControlSessionInv, TLAPS, SequenceTheorems

(* What is sent is an item of the channel. *)
LEMMA ItemsOf == /\ \A s \in Status : Byte(s) \in Items
                 /\ \A u \in BOOLEAN, b \in Bufs : Ctrl(u, b) \in CtrlMsgs
                 /\ CtrlMsgs \subseteq Items /\ Id \in Items /\ Addr \in Items
BY DEF Items, CtrlMsgs, Byte, Ctrl, Id, Addr

(* A one-byte read yields a status, whatever item it meets. *)
LEMMA StatusOfItem == \A m \in Items : StatusOf(m) \in Status
<1> SUFFICES ASSUME NEW m \in Items PROVE StatusOf(m) \in Status
  OBVIOUS
<1>1. CASE m \in [t: {"byte"}, v: Status]
  BY <1>1 DEF StatusOf
<1>2. CASE m.t # "byte"
  BY <1>2 DEF StatusOf, Status
<1>3. \A x \in CtrlMsgs : x.t # "byte"
  BY DEF CtrlMsgs
<1> QED
  BY <1>1, <1>2, <1>3 DEF Items, Id, Addr

(* The streams stay sequences of items when read from and written to. *)
LEMMA SeqOfItems == /\ <<>> \in Seq(Items)
                    /\ \A s \in Seq(Items) : s # <<>> => Head(s) \in Items /\ Tail(s) \in Seq(Items)
                    /\ \A s \in Seq(Items), x \in Items : Append(s, x) \in Seq(Items)
OBVIOUS

(* The smaller of two buffer limits is one of them. *)
LEMMA LowerIn == \A a, b \in Bufs : Lower(a, b) \in Bufs
BY DEF Lower

(* The processes start within their types. *)
LEMMA TypeInit == Init => TypeOK /\ Counts
<1> SUFFICES ASSUME Init PROVE TypeOK /\ Counts
  OBVIOUS
<1>1. EnvType /\ cudt \in BOOLEAN
  BY ConstantsAssumption DEF Init, EnvType
<1>2. cbuf \in Bufs /\ sbuf \in Bufs
  BY <1>1 DEF Init, EnvType
<1>5. CliType
  BY <1>1, <1>2, ConstantsAssumption DEF Init, CliType, Status
<1>6. SrvType
  BY <1>2 DEF Init, SrvType, Status
<1>3. NetType
  BY SeqOfItems DEF Init, NetType
<1>4. WorkerType /\ Counts
  BY ConstantsAssumption DEF Init, WorkerType, Counts
<1> QED
  BY <1>1, <1>3, <1>4, <1>5, <1>6 DEF TypeOK

(* What a step does not touch keeps its type; one step per part for the rest. *)
LEMMA TypeStep == TypeOK /\ Counts /\ [Next]_vars => TypeOK' /\ Counts'
<1> SUFFICES ASSUME TypeOK, Counts, [Next]_vars PROVE TypeOK' /\ Counts'
  OBVIOUS
<1> USE ConstantsAssumption
<1> USE DEF Gone, CliGone, SrvGone, env, cvars, svars, net, tcpw, udtw
<1>e. UNCHANGED env => EnvType'
  BY DEF TypeOK, EnvType
<1>c. UNCHANGED cvars => CliType'
  BY DEF TypeOK, CliType
<1>s. UNCHANGED svars => SrvType'
  BY DEF TypeOK, SrvType
<1>n. UNCHANGED net => NetType'
  BY DEF TypeOK, NetType
<1>w. UNCHANGED <<tcpw, udtw>> => WorkerType' /\ Counts'
  BY DEF TypeOK, WorkerType, Counts
<1>1. CASE CliConnect
  <2>1. UNCHANGED <<env, svars, tcpw, udtw>>
    BY <1>1 DEF CliConnect, CliUnch
  <2>2. CliType'
    BY <1>1 DEF TypeOK, CliType, Status, Requests, CliConnect, CliUnch
  <2>3. NetType'
    BY <1>1, ItemsOf, SeqOfItems, LowerIn DEF TypeOK, NetType, Status, Requests, CliType, SrvType, CliConnect, CliUnch
  <2> QED
    BY <2>1, <2>2, <2>3, <1>e, <1>s, <1>w DEF TypeOK
<1>2. CASE CliSendId
  <2>1. UNCHANGED <<env, svars, tcpw, udtw>>
    BY <1>2 DEF CliSendId, ToServer, CliUnch
  <2>2. CliType'
    BY <1>2 DEF TypeOK, CliType, Status, Requests, CliSendId, ToServer, CliUnch
  <2>3. NetType'
    BY <1>2, ItemsOf, SeqOfItems, LowerIn DEF TypeOK, NetType, Status, Requests, CliType, SrvType, CliSendId, ToServer, CliUnch
  <2> QED
    BY <2>1, <2>2, <2>3, <1>e, <1>s, <1>w DEF TypeOK
<1>3. CASE CliRecvAddr
  <2>1. UNCHANGED <<env, svars, tcpw, udtw>>
    BY <1>3 DEF CliRecvAddr, CliUnch
  <2>2. CliType'
    BY <1>3, StatusOfItem, SeqOfItems, LowerIn DEF TypeOK, CliType, Status, Requests, NetType, CliRecvAddr, CliUnch
  <2>3. NetType'
    BY <1>3, ItemsOf, SeqOfItems, LowerIn DEF TypeOK, NetType, Status, Requests, CliType, SrvType, CliRecvAddr, CliUnch
  <2> QED
    BY <2>1, <2>2, <2>3, <1>e, <1>s, <1>w DEF TypeOK
<1>4. CASE CliPoll
  <2>1. UNCHANGED <<env, svars, tcpw, udtw>>
    BY <1>4 DEF CliPoll, StatusOf, CliUnch
  <2>2. CliType'
    BY <1>4, StatusOfItem, SeqOfItems, LowerIn DEF TypeOK, CliType, Status, Requests, NetType, CliPoll, StatusOf, CliUnch
  <2>3. NetType'
    BY <1>4, ItemsOf, SeqOfItems, LowerIn DEF TypeOK, NetType, Status, Requests, CliType, SrvType, CliPoll, StatusOf, CliUnch
  <2> QED
    BY <2>1, <2>2, <2>3, <1>e, <1>s, <1>w DEF TypeOK
<1>5. CASE CliEst
  <2>1. UNCHANGED <<env, svars, tcpw, udtw>>
    BY <1>5 DEF CliEst, CliAsk, ToServer, CliUnch
  <2>2. CliType'
    BY <1>5 DEF TypeOK, CliType, Status, Requests, CliEst, CliAsk, ToServer, CliUnch
  <2>3. NetType'
    BY <1>5, ItemsOf, SeqOfItems, LowerIn DEF TypeOK, NetType, Status, Requests, CliType, SrvType, CliEst, CliAsk, ToServer, CliUnch
  <2> QED
    BY <2>1, <2>2, <2>3, <1>e, <1>s, <1>w DEF TypeOK
<1>6. CASE CliHandshake
  <2>1. UNCHANGED <<env, svars, tcpw, udtw>>
    BY <1>6 DEF CliHandshake, ToServer, CliUnch
  <2>2. CliType'
    BY <1>6 DEF TypeOK, CliType, Status, Requests, CliHandshake, ToServer, CliUnch
  <2>3. NetType'
    BY <1>6, ItemsOf, SeqOfItems, LowerIn DEF TypeOK, NetType, Status, Requests, CliType, SrvType, CliHandshake, ToServer, CliUnch
  <2> QED
    BY <2>1, <2>2, <2>3, <1>e, <1>s, <1>w DEF TypeOK
<1>7. CASE CliExchange
  <2>1. UNCHANGED <<env, svars, tcpw, udtw>>
    BY <1>7 DEF CliExchange, FirstRun, Lower, CliUnch
  <2>2. CliType'
    BY <1>7, StatusOfItem, SeqOfItems, LowerIn DEF TypeOK, CliType, Status, Requests, NetType, CtrlMsgs, CliExchange, FirstRun, Lower, CliUnch
  <2>3. NetType'
    BY <1>7, ItemsOf, SeqOfItems, LowerIn DEF TypeOK, NetType, Status, Requests, CliType, SrvType, CliExchange, FirstRun, Lower, CliUnch
  <2> QED
    BY <2>1, <2>2, <2>3, <1>e, <1>s, <1>w DEF TypeOK
<1>8. CASE CliD2dDb
  <2>1. UNCHANGED <<env, svars, tcpw, udtw>>
    BY <1>8 DEF CliD2dDb, CliAsk, ToServer, CliUnch
  <2>2. CliType'
    BY <1>8 DEF TypeOK, CliType, Status, Requests, CliD2dDb, CliAsk, ToServer, CliUnch
  <2>3. NetType'
    BY <1>8, ItemsOf, SeqOfItems, LowerIn DEF TypeOK, NetType, Status, Requests, CliType, SrvType, CliD2dDb, CliAsk, ToServer, CliUnch
  <2> QED
    BY <2>1, <2>2, <2>3, <1>e, <1>s, <1>w DEF TypeOK
<1>9. CASE CliD2dTcp
  <2>1. UNCHANGED <<env, svars, tcpw, udtw>>
    BY <1>9 DEF CliD2dTcp, CliAsk, ToServer, CliUnch
  <2>2. CliType'
    BY <1>9 DEF TypeOK, CliType, Status, Requests, CliD2dTcp, CliAsk, ToServer, CliUnch
  <2>3. NetType'
    BY <1>9, ItemsOf, SeqOfItems, LowerIn DEF TypeOK, NetType, Status, Requests, CliType, SrvType, CliD2dTcp, CliAsk, ToServer, CliUnch
  <2> QED
    BY <2>1, <2>2, <2>3, <1>e, <1>s, <1>w DEF TypeOK
<1>10. CASE CliD2dUdt
  <2>1. UNCHANGED <<env, svars, tcpw, udtw>>
    BY <1>10 DEF CliD2dUdt, CliAsk, ToServer, CliUnch
  <2>2. CliType'
    BY <1>10 DEF TypeOK, CliType, Status, Requests, CliD2dUdt, CliAsk, ToServer, CliUnch
  <2>3. NetType'
    BY <1>10, ItemsOf, SeqOfItems, LowerIn DEF TypeOK, NetType, Status, Requests, CliType, SrvType, CliD2dUdt, CliAsk, ToServer, CliUnch
  <2> QED
    BY <2>1, <2>2, <2>3, <1>e, <1>s, <1>w DEF TypeOK
<1>11. CASE CliM2mDb
  <2>1. UNCHANGED <<env, svars, tcpw, udtw>>
    BY <1>11 DEF CliM2mDb, CliAsk, ToServer, AfterDb, CliUnch
  <2>2. CliType'
    BY <1>11 DEF TypeOK, CliType, Status, Requests, CliM2mDb, CliAsk, ToServer, AfterDb, CliUnch
  <2>3. NetType'
    BY <1>11, ItemsOf, SeqOfItems, LowerIn DEF TypeOK, NetType, Status, Requests, CliType, SrvType, CliM2mDb, CliAsk, ToServer, AfterDb, CliUnch
  <2> QED
    BY <2>1, <2>2, <2>3, <1>e, <1>s, <1>w DEF TypeOK
<1>12. CASE CliStartTcp
  <2>1. UNCHANGED <<env, svars, net, tcpw, udtw>>
    BY <1>12 DEF CliStartTcp, CliStart, CliUnch
  <2>2. CliType'
    BY <1>12 DEF TypeOK, CliType, Status, Requests, CliStartTcp, CliStart, CliUnch
  <2> QED
    BY <2>1, <2>2, <1>e, <1>s, <1>n, <1>w DEF TypeOK
<1>13. CASE CliTcpRun
  <2>1. UNCHANGED <<env, svars, net>>
    BY <1>13 DEF CliTcpRun
  <2>2. CliType'
    BY <1>13 DEF TypeOK, CliType, Status, Requests, CliTcpRun
  <2>3. WorkerType' /\ Counts'
    BY <1>13 DEF TypeOK, WorkerType, Counts, CliTcpRun
  <2> QED
    BY <2>1, <2>2, <2>3, <1>e, <1>s, <1>n DEF TypeOK
<1>14. CASE CliTcpDone
  <2>1. UNCHANGED <<env, svars, tcpw, udtw>>
    BY <1>14 DEF CliTcpDone, CliFinish, ToServer, CliUnch
  <2>2. CliType'
    BY <1>14 DEF TypeOK, CliType, Status, Requests, CliTcpDone, CliFinish, ToServer, CliUnch
  <2>3. NetType'
    BY <1>14, ItemsOf, SeqOfItems, LowerIn DEF TypeOK, NetType, Status, Requests, CliType, SrvType, CliTcpDone, CliFinish, ToServer, CliUnch
  <2> QED
    BY <2>1, <2>2, <2>3, <1>e, <1>s, <1>w DEF TypeOK
<1>15. CASE CliStartUdt
  <2>1. UNCHANGED <<env, svars, net, tcpw, udtw>>
    BY <1>15 DEF CliStartUdt, CliStart, CliUnch
  <2>2. CliType'
    BY <1>15 DEF TypeOK, CliType, Status, Requests, CliStartUdt, CliStart, CliUnch
  <2> QED
    BY <2>1, <2>2, <1>e, <1>s, <1>n, <1>w DEF TypeOK
<1>16. CASE CliUdtRun
  <2>1. UNCHANGED <<env, svars, net>>
    BY <1>16 DEF CliUdtRun
  <2>2. CliType'
    BY <1>16 DEF TypeOK, CliType, Status, Requests, CliUdtRun
  <2>3. WorkerType' /\ Counts'
    BY <1>16 DEF TypeOK, WorkerType, Counts, CliUdtRun
  <2> QED
    BY <2>1, <2>2, <2>3, <1>e, <1>s, <1>n DEF TypeOK
<1>17. CASE CliUdtDone
  <2>1. UNCHANGED <<env, svars, tcpw, udtw>>
    BY <1>17 DEF CliUdtDone, CliFinish, ToServer, CliUnch
  <2>2. CliType'
    BY <1>17 DEF TypeOK, CliType, Status, Requests, CliUdtDone, CliFinish, ToServer, CliUnch
  <2>3. NetType'
    BY <1>17, ItemsOf, SeqOfItems, LowerIn DEF TypeOK, NetType, Status, Requests, CliType, SrvType, CliUdtDone, CliFinish, ToServer, CliUnch
  <2> QED
    BY <2>1, <2>2, <2>3, <1>e, <1>s, <1>w DEF TypeOK
<1>18. CASE CliRunFail
  <2>1. UNCHANGED <<env, svars, net, tcpw, udtw>>
    BY <1>18 DEF CliRunFail, CliUnch
  <2>2. CliType'
    BY <1>18 DEF TypeOK, CliType, Status, Requests, CliRunFail, CliUnch
  <2> QED
    BY <2>1, <2>2, <1>e, <1>s, <1>n, <1>w DEF TypeOK
<1>19. CASE CliOther
  <2>1. UNCHANGED <<env, svars, net, tcpw, udtw>>
    BY <1>19 DEF CliOther, CliUnch
  <2>2. CliType'
    BY <1>19 DEF TypeOK, CliType, Status, Requests, CliOther, CliUnch
  <2> QED
    BY <2>1, <2>2, <1>e, <1>s, <1>n, <1>w DEF TypeOK
<1>20. CASE CliBrokenPipe
  <2>1. UNCHANGED <<env, svars, net, tcpw, udtw>>
    BY <1>20 DEF CliBrokenPipe, CliUnch
  <2>2. CliType'
    BY <1>20 DEF TypeOK, CliType, Status, Requests, CliBrokenPipe, CliUnch
  <2> QED
    BY <2>1, <2>2, <1>e, <1>s, <1>n, <1>w DEF TypeOK
<1>21. CASE SrvListen
  <2>1. UNCHANGED <<env, cvars, net, tcpw, udtw>>
    BY <1>21 DEF SrvListen, SrvUnch
  <2>2. SrvType'
    BY <1>21 DEF TypeOK, SrvType, Status, Requests, SrvListen, SrvUnch
  <2> QED
    BY <2>1, <2>2, <1>e, <1>c, <1>n, <1>w DEF TypeOK
<1>22. CASE SrvAccept
  <2>1. UNCHANGED <<env, cvars, net, tcpw, udtw>>
    BY <1>22 DEF SrvAccept, SrvUnch
  <2>2. SrvType'
    BY <1>22 DEF TypeOK, SrvType, Status, Requests, SrvAccept, SrvUnch
  <2> QED
    BY <2>1, <2>2, <1>e, <1>c, <1>n, <1>w DEF TypeOK
<1>23. CASE SrvRecvId
  <2>1. UNCHANGED <<env, cvars, tcpw, udtw>>
    BY <1>23 DEF SrvRecvId, SrvUnch
  <2>2. SrvType'
    BY <1>23 DEF TypeOK, SrvType, Status, Requests, SrvRecvId, SrvUnch
  <2>3. NetType'
    BY <1>23, ItemsOf, SeqOfItems, LowerIn DEF TypeOK, NetType, Status, Requests, CliType, SrvType, SrvRecvId, SrvUnch
  <2> QED
    BY <2>1, <2>2, <2>3, <1>e, <1>c, <1>w DEF TypeOK
<1>24. CASE SrvEst
  <2>1. UNCHANGED <<env, cvars, tcpw, udtw>>
    BY <1>24 DEF SrvEst, ToClient, SrvUnch
  <2>2. SrvType'
    BY <1>24 DEF TypeOK, SrvType, Status, Requests, SrvEst, ToClient, SrvUnch
  <2>3. NetType'
    BY <1>24, ItemsOf, SeqOfItems, LowerIn DEF TypeOK, NetType, Status, Requests, CliType, SrvType, SrvEst, ToClient, SrvUnch
  <2> QED
    BY <2>1, <2>2, <2>3, <1>e, <1>c, <1>w DEF TypeOK
<1>25. CASE SrvPoll
  <2>1. UNCHANGED <<env, cvars, tcpw, udtw>>
    BY <1>25 DEF SrvPoll, StatusOf, SrvUnch
  <2>2. SrvType'
    BY <1>25, StatusOfItem, SeqOfItems, LowerIn DEF TypeOK, SrvType, Status, Requests, NetType, SrvPoll, StatusOf, SrvUnch
  <2>3. NetType'
    BY <1>25, ItemsOf, SeqOfItems, LowerIn DEF TypeOK, NetType, Status, Requests, CliType, SrvType, SrvPoll, StatusOf, SrvUnch
  <2> QED
    BY <2>1, <2>2, <2>3, <1>e, <1>c, <1>w DEF TypeOK
<1>26. CASE SrvHandshake
  <2>1. UNCHANGED <<env, cvars, tcpw, udtw>>
    BY <1>26 DEF SrvHandshake, SrvEcho, ToClient, SrvUnch
  <2>2. SrvType'
    BY <1>26 DEF TypeOK, SrvType, Status, Requests, SrvHandshake, SrvEcho, ToClient, SrvUnch
  <2>3. NetType'
    BY <1>26, ItemsOf, SeqOfItems, LowerIn DEF TypeOK, NetType, Status, Requests, CliType, SrvType, SrvHandshake, SrvEcho, ToClient, SrvUnch
  <2> QED
    BY <2>1, <2>2, <2>3, <1>e, <1>c, <1>w DEF TypeOK
<1>27. CASE SrvExchange
  <2>1. UNCHANGED <<env, cvars, tcpw, udtw>>
    BY <1>27 DEF SrvExchange, Lower, SrvUnch
  <2>2. SrvType'
    BY <1>27, StatusOfItem, SeqOfItems, LowerIn DEF TypeOK, SrvType, Status, Requests, NetType, CtrlMsgs, SrvExchange, Lower, SrvUnch
  <2>3. NetType'
    <3>1. PICK m \in CtrlMsgs : s2c' = Append(s2c, Ctrl(m.udt, sbuf'))
      BY <1>27 DEF SrvExchange
    <3>2. Ctrl(m.udt, sbuf') \in Items
      BY <2>2, ItemsOf DEF SrvType, CtrlMsgs
    <3>3. c2s' \in Seq(Items) /\ conn' \in BOOLEAN
      BY <1>27, SeqOfItems DEF SrvExchange, TypeOK, NetType
    <3> QED
      BY <3>1, <3>2, <3>3, SeqOfItems DEF TypeOK, NetType
  <2> QED
    BY <2>1, <2>2, <2>3, <1>e, <1>c, <1>w DEF TypeOK
<1>28. CASE SrvEchoOnly
  <2>1. UNCHANGED <<env, cvars, tcpw, udtw>>
    BY <1>28 DEF SrvEchoOnly, SrvEcho, ToClient, SrvUnch
  <2>2. SrvType'
    BY <1>28 DEF TypeOK, SrvType, Status, Requests, SrvEchoOnly, SrvEcho, ToClient, SrvUnch
  <2>3. NetType'
    BY <1>28, ItemsOf, SeqOfItems, LowerIn DEF TypeOK, NetType, Status, Requests, CliType, SrvType, SrvEchoOnly, SrvEcho, ToClient, SrvUnch
  <2> QED
    BY <2>1, <2>2, <2>3, <1>e, <1>c, <1>w DEF TypeOK
<1>29. CASE SrvStartTcp
  <2>1. UNCHANGED <<env, cvars, net>>
    BY <1>29 DEF SrvStartTcp, SrvUnch
  <2>2. SrvType'
    BY <1>29 DEF TypeOK, SrvType, Status, Requests, SrvStartTcp, SrvUnch
  <2>3. WorkerType' /\ Counts'
    BY <1>29 DEF TypeOK, WorkerType, Counts, SrvStartTcp, SrvUnch
  <2> QED
    BY <2>1, <2>2, <2>3, <1>e, <1>c, <1>n DEF TypeOK
<1>30. CASE SrvTcpEcho
  <2>1. UNCHANGED <<env, cvars, tcpw, udtw>>
    BY <1>30 DEF SrvTcpEcho, SrvEcho, ToClient, SrvUnch
  <2>2. SrvType'
    BY <1>30 DEF TypeOK, SrvType, Status, Requests, SrvTcpEcho, SrvEcho, ToClient, SrvUnch
  <2>3. NetType'
    BY <1>30, ItemsOf, SeqOfItems, LowerIn DEF TypeOK, NetType, Status, Requests, CliType, SrvType, SrvTcpEcho, SrvEcho, ToClient, SrvUnch
  <2> QED
    BY <2>1, <2>2, <2>3, <1>e, <1>c, <1>w DEF TypeOK
<1>31. CASE SrvCancelTcp
  <2>1. UNCHANGED <<env, cvars, net, tcpw, udtw>>
    BY <1>31 DEF SrvCancelTcp, SrvUnch
  <2>2. SrvType'
    BY <1>31 DEF TypeOK, SrvType, Status, Requests, SrvCancelTcp, SrvUnch
  <2> QED
    BY <2>1, <2>2, <1>e, <1>c, <1>n, <1>w DEF TypeOK
<1>32. CASE SrvJoinTcp
  <2>1. UNCHANGED <<env, cvars, net>>
    BY <1>32 DEF SrvJoinTcp, SrvUnch
  <2>2. SrvType'
    BY <1>32 DEF TypeOK, SrvType, Status, Requests, SrvJoinTcp, SrvUnch
  <2>3. WorkerType' /\ Counts'
    BY <1>32 DEF TypeOK, WorkerType, Counts, SrvJoinTcp, SrvUnch
  <2> QED
    BY <2>1, <2>2, <2>3, <1>e, <1>c, <1>n DEF TypeOK
<1>33. CASE SrvUdtEcho
  <2>1. UNCHANGED <<env, cvars, tcpw, udtw>>
    BY <1>33 DEF SrvUdtEcho, SrvEcho, ToClient, SrvUnch
  <2>2. SrvType'
    BY <1>33 DEF TypeOK, SrvType, Status, Requests, SrvUdtEcho, SrvEcho, ToClient, SrvUnch
  <2>3. NetType'
    BY <1>33, ItemsOf, SeqOfItems, LowerIn DEF TypeOK, NetType, Status, Requests, CliType, SrvType, SrvUdtEcho, SrvEcho, ToClient, SrvUnch
  <2> QED
    BY <2>1, <2>2, <2>3, <1>e, <1>c, <1>w DEF TypeOK
<1>34. CASE SrvStartUdt
  <2>1. UNCHANGED <<env, cvars, net>>
    BY <1>34 DEF SrvStartUdt
  <2>2. SrvType'
    BY <1>34 DEF TypeOK, SrvType, Status, Requests, SrvStartUdt
  <2>3. WorkerType' /\ Counts'
    BY <1>34 DEF TypeOK, WorkerType, Counts, SrvStartUdt
  <2> QED
    BY <2>1, <2>2, <2>3, <1>e, <1>c, <1>n DEF TypeOK
<1>35. CASE SrvFinish
  <2>1. UNCHANGED <<env, cvars, net, tcpw, udtw>>
    BY <1>35 DEF SrvFinish, SrvUnch
  <2>2. SrvType'
    BY <1>35 DEF TypeOK, SrvType, Status, Requests, SrvFinish, SrvUnch
  <2> QED
    BY <2>1, <2>2, <1>e, <1>c, <1>n, <1>w DEF TypeOK
<1>36. CASE SrvJoinUdt
  <2>1. UNCHANGED <<env, cvars, net>>
    BY <1>36 DEF SrvJoinUdt
  <2>2. SrvType'
    BY <1>36 DEF TypeOK, SrvType, Status, Requests, SrvJoinUdt
  <2>3. WorkerType' /\ Counts'
    BY <1>36 DEF TypeOK, WorkerType, Counts, SrvJoinUdt
  <2> QED
    BY <2>1, <2>2, <2>3, <1>e, <1>c, <1>n DEF TypeOK
<1>37. CASE SrvJoinTcpAgain
  <2>1. UNCHANGED <<env, cvars, net>>
    BY <1>37 DEF SrvJoinTcpAgain, SrvUnch
  <2>2. SrvType'
    BY <1>37 DEF TypeOK, SrvType, Status, Requests, SrvJoinTcpAgain, SrvUnch
  <2>3. WorkerType' /\ Counts'
    BY <1>37 DEF TypeOK, WorkerType, Counts, SrvJoinTcpAgain, SrvUnch
  <2> QED
    BY <2>1, <2>2, <2>3, <1>e, <1>c, <1>n DEF TypeOK
<1>38. CASE SrvDoneEcho
  <2>1. UNCHANGED <<env, cvars, tcpw, udtw>>
    BY <1>38 DEF SrvDoneEcho, SrvEcho, ToClient, SrvUnch
  <2>2. SrvType'
    BY <1>38 DEF TypeOK, SrvType, Status, Requests, SrvDoneEcho, SrvEcho, ToClient, SrvUnch
  <2>3. NetType'
    BY <1>38, ItemsOf, SeqOfItems, LowerIn DEF TypeOK, NetType, Status, Requests, CliType, SrvType, SrvDoneEcho, SrvEcho, ToClient, SrvUnch
  <2> QED
    BY <2>1, <2>2, <2>3, <1>e, <1>c, <1>w DEF TypeOK
<1>39. CASE SrvCleanUp
  <2>1. UNCHANGED <<env, cvars, net, tcpw, udtw>>
    BY <1>39 DEF SrvCleanUp, SrvUnch
  <2>2. SrvType'
    BY <1>39 DEF TypeOK, SrvType, Status, Requests, SrvCleanUp, SrvUnch
  <2> QED
    BY <2>1, <2>2, <1>e, <1>c, <1>n, <1>w DEF TypeOK
<1>40. CASE SrvBrokenPipe
  <2>1. UNCHANGED <<env, cvars, net, tcpw, udtw>>
    BY <1>40 DEF SrvBrokenPipe, SrvUnch
  <2>2. SrvType'
    BY <1>40 DEF TypeOK, SrvType, Status, Requests, SrvBrokenPipe, SrvUnch
  <2> QED
    BY <2>1, <2>2, <1>e, <1>c, <1>n, <1>w DEF TypeOK
<1>41. CASE TwServe
  <2>1. UNCHANGED <<env, cvars, svars, net>>
    BY <1>41 DEF TwServe, TwUnch, CancelPending
  <2>2. WorkerType' /\ Counts'
    BY <1>41 DEF TypeOK, WorkerType, Counts, TwServe, TwUnch, CancelPending
  <2> QED
    BY <2>1, <2>2, <1>e, <1>c, <1>s, <1>n DEF TypeOK
<1>42. CASE TwReset
  <2>1. UNCHANGED <<env, cvars, svars, net>>
    BY <1>42 DEF TwReset, TwUnch
  <2>2. WorkerType' /\ Counts'
    BY <1>42 DEF TypeOK, WorkerType, Counts, TwReset, TwUnch
  <2> QED
    BY <2>1, <2>2, <1>e, <1>c, <1>s, <1>n DEF TypeOK
<1>43. CASE TwBreak
  <2>1. UNCHANGED <<env, cvars, net>>
    BY <1>43 DEF TwBreak
  <2>2. SrvType'
    BY <1>43 DEF TypeOK, SrvType, Status, Requests, TwBreak
  <2>3. WorkerType' /\ Counts'
    BY <1>43 DEF TypeOK, WorkerType, Counts, TwBreak
  <2> QED
    BY <2>1, <2>2, <2>3, <1>e, <1>c, <1>n DEF TypeOK
<1>44. CASE TwCancelled
  <2>1. UNCHANGED <<env, cvars, svars, net>>
    BY <1>44 DEF TwCancelled, TwUnch, CancelPending
  <2>2. WorkerType' /\ Counts'
    BY <1>44 DEF TypeOK, WorkerType, Counts, TwCancelled, TwUnch, CancelPending
  <2> QED
    BY <2>1, <2>2, <1>e, <1>c, <1>s, <1>n DEF TypeOK
<1>45. CASE TwError
  <2>1. UNCHANGED <<env, cvars, svars, net>>
    BY <1>45 DEF TwError, TwUnch
  <2>2. WorkerType' /\ Counts'
    BY <1>45 DEF TypeOK, WorkerType, Counts, TwError, TwUnch
  <2> QED
    BY <2>1, <2>2, <1>e, <1>c, <1>s, <1>n DEF TypeOK
<1>46. CASE UwCheck
  <2>1. UNCHANGED <<env, cvars, svars, net>>
    BY <1>46 DEF UwCheck, UwUnch
  <2>2. WorkerType' /\ Counts'
    BY <1>46 DEF TypeOK, WorkerType, Counts, UwCheck, UwUnch
  <2> QED
    BY <2>1, <2>2, <1>e, <1>c, <1>s, <1>n DEF TypeOK
<1>47. CASE UwTimeout
  <2>1. UNCHANGED <<env, cvars, svars, net>>
    BY <1>47 DEF UwTimeout, UwUnch
  <2>2. WorkerType' /\ Counts'
    BY <1>47 DEF TypeOK, WorkerType, Counts, UwTimeout, UwUnch
  <2> QED
    BY <2>1, <2>2, <1>e, <1>c, <1>s, <1>n DEF TypeOK
<1>48. CASE UwError
  <2>1. UNCHANGED <<env, cvars, svars, net>>
    BY <1>48 DEF UwError, UwUnch
  <2>2. WorkerType' /\ Counts'
    BY <1>48 DEF TypeOK, WorkerType, Counts, UwError, UwUnch
  <2> QED
    BY <2>1, <2>2, <1>e, <1>c, <1>s, <1>n DEF TypeOK
<1>49. CASE Kill
  <2>1. UNCHANGED <<env, net, tcpw, udtw>>
    BY <1>49 DEF Kill
  <2>2. CliType'
    BY <1>49 DEF TypeOK, CliType, Status, Requests, Kill
  <2>3. SrvType'
    BY <1>49 DEF TypeOK, SrvType, Status, Requests, Kill
  <2> QED
    BY <2>1, <2>2, <2>3, <1>e, <1>n, <1>w DEF TypeOK
<1>50. CASE Over
  <2>1. UNCHANGED <<env, cvars, svars, net, tcpw, udtw>>
    BY <1>50 DEF Over, vars
  <2> QED
    BY <2>1, <1>e, <1>c, <1>s, <1>n, <1>w DEF TypeOK
<1>51. CASE UNCHANGED vars
  BY <1>51, <1>e, <1>c, <1>s, <1>n, <1>w DEF vars, TypeOK
<1> QED
  BY <1>1, <1>2, <1>3, <1>4, <1>5, <1>6, <1>7, <1>8, <1>9, <1>10, <1>11, <1>12, <1>13, <1>14, <1>15, <1>16, <1>17, <1>18, <1>19, <1>20, <1>21, <1>22, <1>23, <1>24, <1>25, <1>26, <1>27, <1>28, <1>29, <1>30, <1>31, <1>32, <1>33, <1>34, <1>35, <1>36, <1>37, <1>38, <1>39, <1>40, <1>41, <1>42, <1>43, <1>44, <1>45, <1>46, <1>47, <1>48, <1>49, <1>50, <1>51
  DEF Next, CliStep, SrvStep, TcpWorker, UdtWorker

(* Every variable keeps its type: no counter of a worker passes its limit   *)
(* and only whole messages lie in the two streams.                          *)
THEOREM TypeCorrect == Spec => []TypeOK
<1>1. TypeOK /\ Counts => TypeOK
  OBVIOUS
<1> QED
  BY TypeInit, TypeStep, <1>1, PTL DEF Spec

-----------------------------------------------------------------------------
(* Sequences of one or two items, and what tells the items apart. *)

LEMMA Short ==
  /\ \A x : <<x>> # <<>> /\ Head(<<x>>) = x /\ Tail(<<x>>) = <<>> /\ Append(<<>>, x) = <<x>>
  /\ \A x, y : <<x, y>> # <<>> /\ Head(<<x, y>>) = x /\ Tail(<<x, y>>) = <<y>>
  /\ \A x, y : <<x>> = <<y>> => x = y
  /\ \A x, y, z : <<x, y>> # <<z>>
OBVIOUS

(* Streams of at most one item. *)
LEMMA Lengths == Len(<<>>) <= 1 /\ \A x : Len(<<x>>) <= 1
OBVIOUS

(* Appending to one item makes two. *)
LEMMA Two == \A x, y : Append(<<x>>, y) = <<x, y>>
<1> SUFFICES ASSUME NEW x, NEW y PROVE Append(<<x>>, y) = <<x, y>>
  OBVIOUS
<1>1. Append(<<x>>, y) \in Seq({x, y}) /\ <<x, y>> \in Seq({x, y})
  OBVIOUS
<1>2. Len(Append(<<x>>, y)) = 2 /\ Len(<<x, y>>) = 2
  OBVIOUS
<1>3. \A i \in 1..2 : Append(<<x>>, y)[i] = <<x, y>>[i]
  OBVIOUS
<1> QED
  BY <1>1, <1>2, <1>3, SeqEqual

(* A status byte is read back as the status it was written for. *)
LEMMA ByteFacts ==
  /\ \A r : StatusOf(Byte(r)) = r /\ Byte(r).t = "byte"
  /\ \A r, q : Byte(r) = Byte(q) => r = q
BY DEF Byte, StatusOf

(* A control message is read back field by field. *)
LEMMA CtrlFacts ==
  /\ \A u, b : Ctrl(u, b).udt = u /\ Ctrl(u, b).buf = b /\ Ctrl(u, b).t = "ctrl"
  /\ \A m \in CtrlMsgs : m.t = "ctrl" /\ m.udt \in BOOLEAN /\ m.buf \in Bufs
  /\ \A u \in BOOLEAN, b \in Bufs : Ctrl(u, b) \in CtrlMsgs
BY DEF Ctrl, CtrlMsgs

(* The four kinds of items differ. *)
LEMMA Distinct ==
  /\ \A r : Byte(r) \notin CtrlMsgs /\ Byte(r) # Addr /\ Byte(r) # Id
  /\ \A r, u, b : Byte(r) # Ctrl(u, b)
  /\ \A u, b : Ctrl(u, b) # Addr /\ Ctrl(u, b) # Id
BY ByteFacts, CtrlFacts DEF Addr, Id


(* While the server works on a request, the client waits for that answer and
   the channel is empty. *)
LEMMA AtServer ==
  TypeOK /\ IInv /\ ~CliGone /\ spc \in Busy =>
    /\ cpc = "poll" /\ cst # "PROGRAM_START" /\ Quiet
    /\ sst \in Requests \ {"CLIENT_TERMINATE"} /\ Follow(cst, sst)
BY Short DEF IInv, CliView, CliConnecting, CliWaiting, CliActing, Asked, Served, Answered, AfterEcho, Rest, Quiet, Busy, CliGone, SrvGone, Gone, SrvView, TypeOK, CliType

(* The server echoing the request it works on keeps the client's view. *)
LEMMA EchoView ==
  /\ TypeOK /\ IInv /\ ~CliGone /\ spc \in Busy
  /\ spc' \in AfterEcho(sst) /\ s2c' = Append(s2c, Byte(sst))
  /\ UNCHANGED <<env, cvars, sst, sudt, sbuf, conn, c2s>>
  => CliView' /\ CliInbox'
<1> SUFFICES ASSUME TypeOK, IInv, ~CliGone, spc \in Busy, spc' \in AfterEcho(sst),
                    s2c' = Append(s2c, Byte(sst)),
                    UNCHANGED <<env, cvars, sst, sudt, sbuf, conn, c2s>>
             PROVE  CliView' /\ CliInbox'
  OBVIOUS
<1>1. /\ cpc' = "poll" /\ cst' # "PROGRAM_START" /\ cst' = cst
      /\ sst \in Requests \ {"CLIENT_TERMINATE"} /\ Follow(cst, sst)
      /\ c2s' = <<>> /\ s2c' = <<Byte(sst)>> /\ sst' = sst
      /\ cudt' = cudt /\ hit' = hit
  BY AtServer, Short DEF Quiet, cvars, env
<1>2. Answered(sst)'
  BY <1>1 DEF Answered, AfterEcho
<1>3. Follow(cst, sst)'
  BY <1>1 DEF Follow
<1>4. CliWaiting'
  BY <1>1, <1>2, <1>3 DEF CliWaiting
<1>5. CliConnecting' /\ CliActing'
  BY <1>1 DEF CliConnecting, CliActing
<1>6. CliInbox'
  <2>1. sst \in Status /\ Expected(sst)'
    BY <1>1 DEF Expected, Follow, Status
  <2> QED
    BY <1>1, <2>1 DEF CliInbox
<1> QED
  BY <1>1, <1>4, <1>5, <1>6 DEF CliView, CliGone, Gone

(* Just before the server greets, the client still awaits its address or has it. *)
LEMMA AtEst ==
  TypeOK /\ IInv /\ ~CliGone /\ spc = "est" =>
    /\ sst = "PROGRAM_START" /\ c2s = <<>>
    /\ \/ cpc = "addr" /\ s2c = <<Addr>>
       \/ cpc = "poll" /\ cst = "PROGRAM_START" /\ s2c = <<>>
BY DEF IInv, CliView, CliConnecting, CliWaiting, CliActing, Asked, Served, Answered, AfterEcho, Rest, Quiet, Busy, CliGone, SrvGone, Gone, SrvView, TypeOK, CliType

(* An echo answers PROGRAM_DONE only if the threads are waited for. *)
LEMMA EchoDone ==
  /\ TypeOK /\ IInv /\ ~CliGone /\ spc \in Busy
  /\ s2c' = Append(s2c, Byte(sst))
  /\ UNCHANGED <<env, cvars, sst, sudt, sbuf, conn, c2s>>
  /\ sst = "PROGRAM_DONE" => WrappedUp'
  => DoneAnswered'
<1> SUFFICES ASSUME TypeOK, IInv, ~CliGone, spc \in Busy,
                    s2c' = Append(s2c, Byte(sst)),
                    UNCHANGED <<env, cvars, sst, sudt, sbuf, conn, c2s>>,
                    sst = "PROGRAM_DONE" => WrappedUp'
             PROVE  DoneAnswered'
  OBVIOUS
<1>1. cpc' = "poll" /\ cst' = cst /\ s2c' = <<Byte(sst)>>
  BY AtServer, Short DEF Quiet, cvars
<1>2. cst # "PROGRAM_DONE"
  BY AtServer DEF Follow
<1> QED
  BY <1>1, <1>2, Short, ByteFacts DEF DoneAnswered, CliGone, Gone

(* The greeting keeps the client's view. *)
LEMMA EstView == TypeOK /\ IInv /\ SrvEst /\ ~CliGone => CliView' /\ CliInbox' /\ DoneAnswered'
<1> SUFFICES ASSUME TypeOK, IInv, SrvEst, ~CliGone PROVE CliView' /\ CliInbox' /\ DoneAnswered'
  OBVIOUS
<1>1. /\ sst' = "CTRL_CHAN_EST" /\ spc' = "poll" /\ c2s' = <<>>
      /\ cpc' = cpc /\ cst' = cst /\ spc = "est"
      /\ s2c' = Append(s2c, Byte("CTRL_CHAN_EST"))
  BY AtEst DEF SrvEst, ToClient, SrvUnch, cvars
<1>2. CASE cpc = "addr" /\ s2c = <<Addr>>
  <2>1. s2c' = <<Addr, Byte("CTRL_CHAN_EST")>>
    BY <1>1, <1>2, Two
  <2>2. cst = "PROGRAM_START"
    BY <1>2 DEF IInv, Unexchanged
  <2>3. DoneAnswered'
    BY <1>1, <1>2, <2>1, <2>2, Short DEF DoneAnswered
  <2>4. CliInbox'
    BY <1>1, <1>2, <2>1, <2>2 DEF CliInbox
  <2> QED
    BY <1>1, <1>2, <2>1, <2>2, <2>3, <2>4 DEF CliView, CliConnecting, CliWaiting, CliActing, CliGone, Gone
<1>3. CASE cpc = "poll" /\ cst = "PROGRAM_START" /\ s2c = <<>>
  <2>1. s2c' = <<Byte("CTRL_CHAN_EST")>>
    BY <1>1, <1>3, Short
  <2>2. Answered("CTRL_CHAN_EST")'
    BY <1>1, <2>1 DEF Answered, AfterEcho
  <2>3. CliInbox'
    BY <1>1, <1>3, <2>1 DEF CliInbox, Expected, Status
  <2>4. DoneAnswered'
    BY <1>1, <1>3, <2>1, Short, ByteFacts DEF DoneAnswered
  <2> QED
    BY <1>1, <1>3, <2>2, <2>3, <2>4 DEF CliView, CliConnecting, CliWaiting, CliActing, CliGone, Gone
<1> QED
  BY <1>2, <1>3, AtEst, <1>1

(* Reading the client's ID and sending its address keeps the client's view. *)
LEMMA RecvIdView == TypeOK /\ IInv /\ SrvRecvId /\ ~CliGone => CliView' /\ CliInbox' /\ DoneAnswered'
<1> SUFFICES ASSUME TypeOK, IInv, SrvRecvId, ~CliGone PROVE CliView' /\ CliInbox' /\ DoneAnswered'
  OBVIOUS
<1>1. spc = "id" /\ c2s # <<>> /\ spc' = "est" /\ c2s' = Tail(c2s)
      /\ cpc' = cpc /\ cst' = cst /\ sst' = sst /\ s2c' = Append(s2c, Addr)
  BY DEF SrvRecvId, SrvUnch, cvars
<1>2. cpc = "addr" /\ c2s = <<Id>> /\ s2c = <<>> /\ sst = "PROGRAM_START" 
  BY <1>1 DEF IInv, CliView, CliConnecting, CliWaiting, CliActing, Asked, Served, Answered, AfterEcho, Rest, Quiet, Busy, CliGone, SrvGone, Gone, SrvView, TypeOK, CliType
<1>3. s2c' = <<Addr>> /\ c2s' = <<>>
  BY <1>1, <1>2, Short
<1>4. cst = "PROGRAM_START"
  BY <1>2 DEF IInv, Unexchanged
<1> QED
  BY <1>1, <1>2, <1>3, <1>4, Short, Distinct DEF CliView, CliInbox, CliConnecting, CliWaiting, CliActing, CliGone, Gone, DoneAnswered

(* The server's half of the exchange keeps the client's view. *)
LEMMA SrvExchangeView ==
  TypeOK /\ IInv /\ SrvExchange /\ ~CliGone => CliView' /\ CliInbox' /\ DoneAnswered'
<1> SUFFICES ASSUME TypeOK, IInv, SrvExchange, ~CliGone
             PROVE  CliView' /\ CliInbox' /\ DoneAnswered'
  OBVIOUS
<1>1. /\ spc = "exch" /\ sst = "TWOWAY_HANDSHAKE" /\ spc' = "poll" /\ sst' = sst
      /\ cpc' = cpc /\ cst' = cst /\ cudt' = cudt /\ cbuf' = cbuf /\ hostMax' = hostMax
      /\ c2s # <<>> /\ c2s' = Tail(c2s)
  BY DEF SrvExchange, SrvUnch, cvars, env, IInv, SrvView, SrvGone, Gone
<1>2. \/ cpc = "poll" /\ cst # "PROGRAM_START" /\ s2c = <<Byte(sst)>> /\ c2s = <<>>
      \/ /\ cpc = "proc" /\ Quiet
      \/ cpc = "exch" /\ cst = sst /\ c2s = <<Ctrl(cudt, cbuf)>> /\ s2c = <<>>
  BY <1>1 DEF IInv, CliView, CliConnecting, CliWaiting, CliActing, Asked, Served, Answered,
       AfterEcho, Rest, Quiet, Busy, CliGone, SrvGone, Gone, TypeOK, CliType
<1>3. cpc = "exch" /\ cst = sst /\ c2s = <<Ctrl(cudt, cbuf)>> /\ s2c = <<>>
  BY <1>1, <1>2 DEF Quiet
<1>4. Ctrl(cudt, cbuf) \in CtrlMsgs /\ Head(c2s) = Ctrl(cudt, cbuf)
  BY <1>3, CtrlFacts, Short DEF TypeOK, CliType
<1>5. sudt' = cudt /\ sbuf' = Lower(cbuf, sbuf) /\ s2c' = Append(s2c, Ctrl(cudt, sbuf'))
  BY <1>1, <1>3, <1>4, CtrlFacts DEF SrvExchange
<1>6. cbuf = hostMax["c"] /\ sbuf = hostMax["s"]
  BY <1>1, <1>3 DEF IInv, Unexchanged, SrvGone, Gone
<1>7. c2s' = <<>> /\ s2c' = <<Ctrl(cudt, sbuf')>>
  BY <1>1, <1>3, <1>5, Short
<1>8. CliView'
  BY <1>1, <1>3, <1>5, <1>6, <1>7 DEF CliView, CliConnecting, CliWaiting, CliActing, CliGone, Gone
<1>9. CliInbox'
  <2>1. sbuf' \in Bufs
    BY <1>5, LowerIn DEF TypeOK, CliType, SrvType
  <2> QED
    BY <1>1, <1>3, <1>7, <2>1, CtrlFacts DEF CliInbox, TypeOK, CliType
<1>10. DoneAnswered'
  BY <1>1, <1>3, <1>7, Short, Distinct DEF DoneAnswered, CliGone, Gone
<1> QED
  BY <1>8, <1>9, <1>10

(* The client reading its address keeps the client's view. *)
LEMMA RecvAddrStep ==
  TypeOK /\ IInv /\ CliRecvAddr => CliView' /\ CliInbox' /\ DoneAnswered'
<1> SUFFICES ASSUME TypeOK, IInv, CliRecvAddr PROVE CliView' /\ CliInbox' /\ DoneAnswered'
  OBVIOUS
<1>1. /\ cpc = "addr" /\ cst = "PROGRAM_START" /\ cst' = cst /\ cpc' \in {"poll", "failed"}
      /\ spc' = spc /\ sst' = sst /\ c2s' = c2s /\ UNCHANGED <<tw, uw>>
  BY DEF CliRecvAddr, CliUnch, svars, tcpw, udtw, IInv, Unexchanged
<1>2. s2c \in {<<>>, <<Addr>>, <<Addr, Byte("CTRL_CHAN_EST")>>}
  BY <1>1 DEF IInv, CliInbox
<1>3. s2c' = <<>> \/ s2c' = <<Byte("CTRL_CHAN_EST")>>
  <2>1. s2c' = IF s2c = <<>> THEN s2c ELSE Tail(s2c)
    BY DEF CliRecvAddr
  <2>2. CASE s2c = <<>>
    BY <2>1, <2>2
  <2>3. CASE s2c = <<Addr>>
    BY <2>1, <2>3, Short
  <2>4. CASE s2c = <<Addr, Byte("CTRL_CHAN_EST")>>
    BY <2>1, <2>4, Short
  <2> QED
    BY <1>2, <2>2, <2>3, <2>4
<1>4. DoneAnswered'
  BY <1>1, <1>3, Short, ByteFacts DEF DoneAnswered
<1>5. CliInbox'
  BY <1>1, <1>3 DEF CliInbox, Expected, Status
<1>6. CASE SrvGone
  BY <1>1, <1>4, <1>5, <1>6 DEF CliView, SrvGone
<1>7. CASE ~SrvGone
  <2>1. cpc' = "poll" /\ s2c # <<>> /\ s2c' = Tail(s2c)
    BY <1>7 DEF CliRecvAddr
  <2>2. \/ spc = "est" /\ sst = "PROGRAM_START" /\ c2s = <<>> /\ s2c = <<Addr>>
        \/ /\ spc = "poll" /\ sst = "CTRL_CHAN_EST"
           /\ c2s = <<>> /\ s2c = <<Addr, Byte("CTRL_CHAN_EST")>>
    BY <1>1, <1>7, <2>1 DEF IInv, CliView, CliConnecting, CliGone, Gone
  <2>3. CASE s2c = <<Addr>>
    <3>1. s2c' = <<>> /\ spc' = "est" /\ sst' = "PROGRAM_START" /\ c2s' = <<>>
      BY <1>1, <2>1, <2>2, <2>3, Short
    <3> QED
      BY <1>1, <1>4, <1>5, <2>1, <3>1
      DEF CliView, CliConnecting, CliWaiting, CliActing, CliGone, Gone, Quiet
  <2>4. CASE s2c = <<Addr, Byte("CTRL_CHAN_EST")>>
    <3>1. /\ s2c' = <<Byte("CTRL_CHAN_EST")>> /\ c2s' = <<>>
          /\ spc' = "poll" /\ sst' = "CTRL_CHAN_EST"
      BY <1>1, <2>1, <2>2, <2>4, Short
    <3>2. Answered("CTRL_CHAN_EST")'
      BY <3>1 DEF Answered, AfterEcho
    <3> QED
      BY <1>1, <1>4, <1>5, <2>1, <3>2
      DEF CliView, CliConnecting, CliWaiting, CliActing, CliGone, Gone
  <2> QED
    BY <2>2, <2>3, <2>4
<1> QED
  BY <1>6, <1>7

(* The client reading an answer keeps the client's view. *)
LEMMA PollStep ==
  TypeOK /\ IInv /\ CliPoll => CliView' /\ CliInbox' /\ DoneAnswered'
<1> SUFFICES ASSUME TypeOK, IInv, CliPoll PROVE CliView' /\ CliInbox' /\ DoneAnswered'
  OBVIOUS
<1>1. /\ cpc = "poll" /\ cpc' \in {"proc", "failed"}
      /\ spc' = spc /\ sst' = sst /\ c2s' = c2s /\ UNCHANGED <<tw, uw>>
  BY DEF CliPoll, CliUnch, svars, tcpw, udtw
<1>2. CASE s2c = <<>>
  <2>1. SrvGone /\ cpc' = "failed" /\ s2c' = s2c /\ cst' = cst
    BY <1>2 DEF CliPoll
  <2> QED
    BY <1>1, <2>1 DEF CliView, CliInbox, DoneAnswered, SrvGone, CliGone, Gone
<1>3. CASE s2c # <<>>
  <2>1. PICK r \in Status : s2c = <<Byte(r)>>
    BY <1>1, <1>3 DEF IInv, CliInbox
  <2>2. cst' = r /\ cpc' = "proc" /\ s2c' = <<>>
    BY <1>3, <2>1, Short, ByteFacts DEF CliPoll
  <2>3. CliInbox'
    BY <2>2 DEF CliInbox
  <2>4. r = "PROGRAM_DONE" => WrappedUp
    BY <1>1, <2>1 DEF IInv, DoneAnswered, CliGone, Gone
  <2>5. DoneAnswered'
    BY <1>1, <2>2, <2>4, Short DEF DoneAnswered, WrappedUp, AllJoined, SrvGone
  <2>6. CASE SrvGone
    BY <1>1, <2>3, <2>5, <2>6 DEF CliView, SrvGone
  <2>7. CASE ~SrvGone
    <3>1. \/ cst = "PROGRAM_START" /\ Answered("CTRL_CHAN_EST")
          \/ \E q \in Requests \ {"CLIENT_TERMINATE"} : Answered(q)
      BY <1>1, <2>1, <2>7, Short DEF IInv, CliView, CliConnecting, CliWaiting, CliGone, Gone,
           Asked, Served, Quiet
    <3>2. /\ sst = r /\ spc \in AfterEcho(r) /\ c2s = <<>>
          /\ r \in Requests \cup {"CTRL_CHAN_EST"} /\ r # "CLIENT_TERMINATE"
      BY <2>1, <3>1, Short, ByteFacts DEF Answered, Requests
    <3> QED
      BY <1>1, <2>2, <2>3, <2>5, <3>2 DEF CliView, CliConnecting, CliWaiting, CliActing,
           CliGone, Gone, Quiet
  <2> QED
    BY <2>6, <2>7
<1> QED
  BY <1>2, <1>3

(* The client's half of the exchange keeps the client's view. *)
LEMMA CliExchangeStep ==
  TypeOK /\ IInv /\ CliExchange => CliView' /\ CliInbox' /\ DoneAnswered'
<1> SUFFICES ASSUME TypeOK, IInv, CliExchange PROVE CliView' /\ CliInbox' /\ DoneAnswered'
  OBVIOUS
<1>1. /\ cpc = "exch" /\ cpc' \in {"poll", "failed"} /\ cst' = cst /\ cudt' = cudt
      /\ c2s' = Append(c2s, Byte(FirstRun))
      /\ UNCHANGED <<spc, sst, sudt, sbuf, mode, hostMax, tw, uw>>
  BY DEF CliExchange, CliUnch, svars, tcpw, udtw, env
<1>2. s2c' = <<>>
  <2>1. s2c' = IF s2c = <<>> THEN s2c ELSE Tail(s2c)
    BY DEF CliExchange
  <2>2. s2c = <<>> \/ \E m \in CtrlMsgs : s2c = <<m>>
    BY <1>1 DEF IInv, CliInbox
  <2> QED
    BY <2>1, <2>2, Short
<1>3. CliInbox'
  BY <1>1, <1>2 DEF CliInbox
<1>4. DoneAnswered'
  BY <1>1, <1>2, Short DEF DoneAnswered, IInv, WrappedUp, AllJoined, SrvGone, CliGone, Gone
<1>5. CASE SrvGone
  BY <1>1, <1>3, <1>4, <1>5 DEF CliView, SrvGone
<1>6. CASE ~SrvGone
  <2>1. /\ s2c # <<>> /\ cst = "TWOWAY_HANDSHAKE" /\ sst = cst
        /\ spc = "poll" /\ c2s = <<>> /\ s2c = <<Ctrl(cudt, sbuf)>>
        /\ sudt = cudt /\ sbuf = Lower(hostMax["c"], hostMax["s"])
    BY <1>1, <1>6, Short DEF CliExchange, IInv, CliView, CliActing, CliGone, Gone
  <2>2. cbuf = hostMax["c"]
    BY <1>1, <1>6, <2>1 DEF IInv, Unexchanged
  <2>3. Head(s2c) = Ctrl(cudt, sbuf) /\ Head(s2c) \in CtrlMsgs
    BY <2>1, Short, CtrlFacts DEF TypeOK, CliType, SrvType
  <2>4. cbuf' = Lower(sbuf, cbuf)
    BY <2>1, <2>3, CtrlFacts DEF CliExchange
  <2>5. hostMax["c"] \in Int /\ hostMax["s"] \in Int
    BY ConstantsAssumption DEF TypeOK, EnvType
  <2>6. Agreed'
    BY <1>1, <2>1, <2>2, <2>4, <2>5 DEF Agreed, Lower
  <2>7. PICK r \in Requests : r = FirstRun
    BY DEF FirstRun, Requests
  <2>8. c2s' = <<Byte(r)>> /\ Follow(cst, r)'
    BY <1>1, <2>1, <2>7, Short DEF FirstRun, Follow
  <2>9. Asked(r)'
    BY <1>1, <1>2, <2>1, <2>6, <2>8 DEF Asked, Rest
  <2>10. CASE mode = "dst"
    <3>1. Legacy'
      BY <2>8, <2>9 DEF Legacy, Asked
    <3>2. cpc' = "failed"
      BY <2>10 DEF CliExchange
    <3> QED
      BY <1>3, <1>4, <3>1, <3>2 DEF CliView, CliGone, Gone
  <2>11. CASE mode # "dst"
    <3>1. cpc' = "poll" /\ r # "CLIENT_TERMINATE"
      BY <2>7, <2>11 DEF CliExchange, FirstRun
    <3>2. CliWaiting'
      BY <2>8, <2>9, <3>1 DEF CliWaiting
    <3> QED
      BY <1>1, <1>3, <1>4, <2>1, <3>1, <3>2
      DEF CliView, CliConnecting, CliActing, CliGone, Gone
  <2> QED
    BY <2>10, <2>11
<1> QED
  BY <1>5, <1>6

(* A server that empties the stream of a client that has left owes it nothing. *)
LEMMA GoneView ==
  /\ TypeOK /\ IInv /\ CliGone /\ ~SrvGone /\ spc # "cleanup"
  /\ UNCHANGED cvars /\ c2s' = <<>>
  => CliView' /\ CliInbox' /\ DoneAnswered'
BY DEF IInv, CliView, Legacy, CliInbox, DoneAnswered, WrappedUp, CliGone, Gone, cvars

(* The echo of a status, at any of the control points it is sent from. *)
LEMMA EchoStep ==
  TypeOK /\ IInv
  /\ (SrvHandshake \/ SrvEchoOnly \/ SrvTcpEcho \/ SrvUdtEcho \/ SrvDoneEcho)
  => CliView' /\ CliInbox' /\ DoneAnswered'
<1> SUFFICES ASSUME TypeOK, IInv,
                    SrvHandshake \/ SrvEchoOnly \/ SrvTcpEcho \/ SrvUdtEcho \/ SrvDoneEcho
             PROVE  CliView' /\ CliInbox' /\ DoneAnswered'
  OBVIOUS
<1>1. /\ spc \in Busy /\ spc' \in AfterEcho(sst) /\ s2c' = Append(s2c, Byte(sst))
      /\ UNCHANGED <<env, cvars, sst, sudt, sbuf, conn, c2s>> /\ UNCHANGED <<tw, uw>>
      /\ sst = "PROGRAM_DONE" => spc = "doneEcho"
  BY DEF SrvHandshake, SrvEchoOnly, SrvTcpEcho, SrvUdtEcho, SrvDoneEcho, SrvEcho, ToClient,
         SrvUnch, IInv, SrvView, SrvGone, Gone, Busy, AfterEcho, env, cvars, tcpw, udtw
<1>2. ~SrvGone /\ spc # "cleanup"
  BY <1>1 DEF SrvGone, Gone, Busy
<1>3. CASE CliGone
  <2>1. c2s' = <<>>
    BY <1>1, <1>2, <1>3 DEF IInv, CliView, Legacy, Busy, Rest
  <2> QED
    BY <1>1, <1>2, <1>3, <2>1, GoneView
<1>4. CASE ~CliGone
  <2>1. sst = "PROGRAM_DONE" => WrappedUp'
    BY <1>1, <1>2 DEF IInv, SrvView, WrappedUp, AllJoined, AfterEcho
  <2> QED
    BY <1>1, <1>4, <2>1, EchoView, EchoDone
<1> QED
  BY <1>3, <1>4

(* The server's other sends. *)
LEMMA SendStep ==
  TypeOK /\ IInv /\ (SrvEst \/ SrvRecvId \/ SrvExchange)
  => CliView' /\ CliInbox' /\ DoneAnswered'
<1> SUFFICES ASSUME TypeOK, IInv, SrvEst \/ SrvRecvId \/ SrvExchange
             PROVE  CliView' /\ CliInbox' /\ DoneAnswered'
  OBVIOUS
<1>1. CASE CliGone
  <2>1. /\ spc \in {"id", "est", "exch"} /\ UNCHANGED cvars
        /\ c2s' = IF spc = "est" \/ c2s = <<>> THEN c2s ELSE Tail(c2s)
    BY DEF SrvEst, SrvRecvId, SrvExchange, SrvUnch, ToClient
  <2>2. ~SrvGone /\ spc # "cleanup"
    BY <2>1 DEF SrvGone, Gone
  <2>3. \/ c2s = <<>>
        \/ spc # "est" /\ c2s = <<Id>>
        \/ spc # "est" /\ c2s = <<Ctrl(cudt, cbuf)>>
    BY <1>1, <2>1, <2>2 DEF IInv, CliView, Legacy, Rest
  <2>4. c2s' = <<>>
    BY <2>1, <2>3, Short
  <2> QED
    BY <1>1, <2>1, <2>2, <2>4, GoneView
<1> QED
  BY <1>1, EstView, RecvIdView, SrvExchangeView

(* What almost every step of the client leaves alone. *)
LEMMA CliFrame ==
  CliStep => \/ CliExchange \/ CliTcpRun \/ CliUdtRun
             \/ UNCHANGED <<env, svars, tcpw, udtw, cudt, cbuf>>
BY DEF CliStep, CliAsk, CliBrokenPipe, CliConnect, CliD2dDb, CliD2dTcp,
       CliD2dUdt, CliEst, CliFinish, CliHandshake, CliM2mDb, CliOther,
       CliPoll, CliRecvAddr, CliRunFail, CliSendId, CliStart, CliStartTcp,
       CliStartUdt, CliTcpDone, CliUdtDone, CliUnch, ToServer

(* The server's threads at its control points. *)
LEMMA SrvViewStep == TypeOK /\ IInv /\ [Next]_vars => SrvView'
<1> SUFFICES ASSUME TypeOK, IInv, [Next]_vars PROVE SrvView'
  OBVIOUS
<1> USE Short, ByteFacts, CtrlFacts, Distinct
<1> USE DEF TypeOK, EnvType, CliType, SrvType, Gone, CliGone, SrvGone, env,
          cvars, svars, net, tcpw, udtw, IInv, CliView, SrvView,
          CliConnecting, CliWaiting, CliActing, Legacy, Asked, Served,
          Answered, Follow, Busy, AfterEcho, Rest, Quiet, Early, Agreed,
          NoWorkers, Imposed, Requests
<1>1. CASE CliExchange
  BY <1>1 DEF CliExchange, FirstRun, Lower, CliUnch
<1>2. CASE CliTcpRun \/ CliUdtRun
  BY <1>2 DEF CliTcpRun, CliUdtRun
<1>3. CASE CliStep /\ ~CliExchange /\ ~CliTcpRun /\ ~CliUdtRun
  <2>1. UNCHANGED <<env, svars, tcpw, udtw, cudt, cbuf>>
    BY <1>3, CliFrame
  <2> QED
    BY <2>1
<1>4. CASE SrvListen
  BY <1>4 DEF SrvListen, SrvUnch
<1>5. CASE SrvAccept
  BY <1>5 DEF SrvAccept, SrvUnch
<1>6. CASE SrvRecvId
  BY <1>6 DEF SrvRecvId, SrvUnch
<1>7. CASE SrvEst
  BY <1>7 DEF SrvEst, ToClient, SrvUnch
<1>8. CASE SrvPoll
  BY <1>8 DEF SrvPoll, SrvUnch
<1>9. CASE SrvHandshake \/ SrvEchoOnly \/ SrvTcpEcho
  BY <1>9 DEF SrvHandshake, SrvEcho, ToClient, SrvUnch, SrvEchoOnly,
       SrvTcpEcho
<1>10. CASE SrvExchange
  BY <1>10 DEF SrvExchange, Lower, SrvUnch
<1>11. CASE SrvStartTcp \/ SrvCancelTcp
  BY <1>11 DEF SrvStartTcp, SrvUnch, SrvCancelTcp
<1>12. CASE SrvJoinTcp \/ SrvUdtEcho \/ SrvStartUdt
  BY <1>12 DEF SrvJoinTcp, SrvUnch, SrvUdtEcho, SrvEcho, ToClient, SrvStartUdt
<1>13. CASE SrvFinish \/ SrvJoinUdt \/ SrvJoinTcpAgain
  BY <1>13 DEF SrvFinish, SrvUnch, SrvJoinUdt, SrvJoinTcpAgain
<1>14. CASE SrvDoneEcho \/ SrvCleanUp \/ SrvBrokenPipe
  BY <1>14 DEF SrvDoneEcho, SrvEcho, ToClient, SrvUnch, SrvCleanUp,
       SrvBrokenPipe
<1>15. CASE TwServe \/ TwReset \/ TwBreak \/ TwCancelled \/ TwError \/ UwCheck
       \/ UwTimeout \/ UwError
  <2>1. CASE TwServe \/ TwReset \/ TwError
    BY <2>1, SMTT(30) DEF TwServe, TwUnch, CancelPending, TwReset, TwError
  <2>2. CASE TwBreak \/ TwCancelled
    BY <2>2, SMTT(30) DEF TwBreak, TwCancelled, TwUnch, CancelPending
  <2>3. CASE UwCheck \/ UwTimeout \/ UwError
    BY <2>3, SMTT(30) DEF UwCheck, UwUnch, UwTimeout, UwError
  <2> QED
    BY <1>15, <2>1, <2>2, <2>3
<1>16. CASE Kill
  BY <1>16 DEF Kill
<1>17. CASE UNCHANGED vars
  BY <1>17 DEF vars
<1> QED
  BY <1>1, <1>2, <1>3, <1>4, <1>5, <1>6, <1>7, <1>8, <1>9, <1>10, <1>11,
       <1>12, <1>13, <1>14, <1>15, <1>16, <1>17 DEF Next, CliStep, SrvStep,
       TcpWorker, UdtWorker, Over

(* Where the client is, as the server and the two streams show it. *)
LEMMA CliViewStep == TypeOK /\ IInv /\ [Next]_vars => CliView'
<1> SUFFICES ASSUME TypeOK, IInv, [Next]_vars PROVE CliView'
  OBVIOUS
<1> USE Short, ByteFacts, CtrlFacts, Distinct
<1> USE DEF TypeOK, EnvType, CliType, SrvType, Gone, CliGone, SrvGone, env,
          cvars, svars, net, tcpw, udtw, IInv, CliView, CliConnecting,
          CliWaiting, CliActing, Legacy, Asked, Served, Answered, Follow,
          Busy, AfterEcho, Rest, Quiet, Early, Agreed, SrvView, Unexchanged,
          Requests
<1>1. CASE CliRecvAddr \/ CliPoll \/ CliExchange
  BY <1>1, RecvAddrStep, PollStep, CliExchangeStep
<1>2. CASE CliConnect \/ CliSendId
  BY <1>2 DEF CliConnect, CliUnch, CliSendId, ToServer
<1>3. CASE CliEst \/ CliHandshake
  <2>1. CASE CliEst
    BY <2>1, SMTT(30) DEF CliEst, CliAsk, ToServer, CliUnch
  <2>2. CASE CliHandshake
    BY <2>2, SMTT(30) DEF CliHandshake, ToServer, CliUnch
  <2> QED
    BY <1>3, <2>1, <2>2
<1>4. CASE CliD2dDb \/ CliD2dTcp \/ CliD2dUdt
  <2>1. CASE CliD2dDb
    BY <2>1, SMTT(30) DEF CliD2dDb, CliAsk, ToServer, CliUnch
  <2>2. CASE CliD2dTcp
    BY <2>2, SMTT(30) DEF CliD2dTcp, CliAsk, ToServer, CliUnch
  <2>3. CASE CliD2dUdt
    BY <2>3, SMTT(30) DEF CliD2dUdt, CliAsk, ToServer, CliUnch
  <2> QED
    BY <1>4, <2>1, <2>2, <2>3
<1>5. CASE CliM2mDb
  BY <1>5 DEF CliM2mDb, CliAsk, ToServer, AfterDb, CliUnch
<1>6. CASE CliStartTcp \/ CliTcpRun \/ CliTcpDone
  <2>1. CASE CliStartTcp
    BY <2>1, SMTT(30) DEF CliStartTcp, CliStart, CliUnch
  <2>2. CASE CliTcpRun
    BY <2>2, SMTT(30) DEF CliTcpRun
  <2>3. CASE CliTcpDone
    BY <2>3, SMTT(30) DEF CliTcpDone, CliFinish, ToServer, CliUnch
  <2> QED
    BY <1>6, <2>1, <2>2, <2>3
<1>7. CASE CliStartUdt \/ CliUdtRun \/ CliUdtDone
  <2>1. CASE CliStartUdt
    BY <2>1, SMTT(30) DEF CliStartUdt, CliStart, CliUnch
  <2>2. CASE CliUdtRun
    BY <2>2, SMTT(30) DEF CliUdtRun
  <2>3. CASE CliUdtDone
    BY <2>3, SMTT(30) DEF CliUdtDone, CliFinish, ToServer, CliUnch
  <2> QED
    BY <1>7, <2>1, <2>2, <2>3
<1>8. CASE CliRunFail \/ CliOther \/ CliBrokenPipe
  BY <1>8 DEF CliRunFail, CliUnch, CliOther, CliBrokenPipe
<1>9. CASE SrvHandshake \/ SrvEchoOnly \/ SrvTcpEcho \/ SrvUdtEcho \/
       SrvDoneEcho
  BY <1>9, EchoStep
<1>10. CASE SrvEst \/ SrvRecvId \/ SrvExchange
  BY <1>10, SendStep
<1>11. CASE SrvListen \/ SrvAccept
  <2>1. CASE SrvListen
    BY <2>1, SMTT(30) DEF SrvListen, SrvUnch
  <2>2. CASE SrvAccept
    BY <2>2, SMTT(30) DEF SrvAccept, SrvUnch
  <2> QED
    BY <1>11, <2>1, <2>2
<1>12. CASE SrvPoll
  <2> USE <1>12 DEF SrvPoll, SrvUnch
  <2>1. CASE SrvGone'
    BY <2>1
  <2>2. CASE CliGone /\ ~SrvGone'
    <3>1. ~SrvGone /\ spc = "poll"
      BY <2>2
    <3>2. Legacy
      BY <2>2, <3>1
    <3>3. c2s # <<>> /\ c2s' = Tail(c2s)
      BY <2>2
    <3>4. \E x : c2s = <<x>>
      BY <3>1, <3>2, <3>3
    <3>6. c2s' = <<>>
      BY <3>3, <3>4
    <3>5. CliGone'
      BY <2>2
    <3> QED
      BY <3>5, <3>6
  <2>3. CASE cpc = "poll" /\ cst # "PROGRAM_START" /\ ~SrvGone'
    <3>1. PICK r \in Requests \ {"CLIENT_TERMINATE"} :
            Follow(cst, r) /\ (Asked(r) \/ Served(r) \/ Answered(r))
      BY <2>3
    <3>a. spc = "poll" /\ c2s # <<>> /\ sst' = StatusOf(Head(c2s)) /\ c2s' = Tail(c2s)
          /\ spc' = "proc" /\ s2c' = s2c
      BY <2>3
    <3>b. Asked(r)
      BY <3>1, <3>a
    <3>c. c2s = <<Byte(r)>> /\ s2c = <<>>
      BY <3>b
    <3>d. sst' = r /\ c2s' = <<>>
      BY <3>a, <3>c
    <3>2. Asked(r) /\ sst' = r /\ spc' = "proc" /\ c2s' = <<>> /\ s2c' = <<>>
      BY <3>a, <3>b, <3>c, <3>d
    <3>3. Follow(cst, r)' /\ Served(r)'
      BY <3>1, <3>2
    <3>4. CliWaiting'
      BY <3>3
    <3> QED
      BY <2>3, <3>4
  <2>4. CASE /\ ~CliGone /\ ~SrvGone'
             /\ ~(cpc = "poll" /\ cst # "PROGRAM_START")
    <3>1. c2s = <<>> \/ spc # "poll"
      BY <2>4
    <3> QED
      BY <2>4, <3>1
  <2> QED
    BY <2>1, <2>2, <2>3, <2>4
<1>13. CASE SrvStartTcp \/ SrvCancelTcp \/ SrvJoinTcp
  <2>1. CASE SrvStartTcp
    BY <2>1, SMTT(30) DEF SrvStartTcp, SrvUnch
  <2>2. CASE SrvCancelTcp
    BY <2>2, SMTT(30) DEF SrvCancelTcp, SrvUnch
  <2>3. CASE SrvJoinTcp
    BY <2>3, SMTT(30) DEF SrvJoinTcp, SrvUnch
  <2> QED
    BY <1>13, <2>1, <2>2, <2>3
<1>14. CASE SrvStartUdt
  BY <1>14 DEF SrvStartUdt
<1>15. CASE SrvFinish
  BY <1>15 DEF SrvFinish, SrvUnch
<1>16. CASE SrvJoinUdt \/ SrvJoinTcpAgain
  BY <1>16 DEF SrvJoinUdt, SrvJoinTcpAgain, SrvUnch
<1>17. CASE SrvCleanUp \/ SrvBrokenPipe
  BY <1>17 DEF SrvCleanUp, SrvUnch, SrvBrokenPipe
<1>18. CASE TwServe \/ TwReset \/ TwBreak \/ TwCancelled \/ TwError \/ UwCheck \/ UwTimeout \/ UwError
  <2>1. CASE TwServe
    BY <2>1, SMTT(30) DEF TwServe, TwUnch, CancelPending
  <2>2. CASE TwReset
    BY <2>2, SMTT(30) DEF TwReset, TwUnch
  <2>3. CASE TwBreak
    BY <2>3, SMTT(30) DEF TwBreak
  <2>4. CASE TwCancelled
    BY <2>4, SMTT(30) DEF TwCancelled, TwUnch, CancelPending
  <2>5. CASE TwError
    BY <2>5, SMTT(30) DEF TwError, TwUnch
  <2>6. CASE UwCheck
    BY <2>6, SMTT(30) DEF UwCheck, UwUnch
  <2>7. CASE UwTimeout
    BY <2>7, SMTT(30) DEF UwTimeout, UwUnch
  <2>8. CASE UwError
    BY <2>8, SMTT(30) DEF UwError, UwUnch
  <2> QED
    BY <1>18, <2>1, <2>2, <2>3, <2>4, <2>5, <2>6, <2>7, <2>8
<1>19. CASE Kill
  BY <1>19 DEF Kill
<1>21. CASE UNCHANGED vars
  BY <1>21 DEF vars
<1> QED
  BY <1>1, <1>2, <1>3, <1>4, <1>5, <1>6, <1>7, <1>8, <1>9, <1>10, <1>11,
       <1>12, <1>13, <1>14, <1>15, <1>16, <1>17, <1>18, <1>19, <1>21
       DEF Next, CliStep, SrvStep, TcpWorker, UdtWorker, Over

(* What the client can still read. *)
LEMMA CliInboxStep == TypeOK /\ IInv /\ [Next]_vars => CliInbox'
<1> SUFFICES ASSUME TypeOK, IInv, [Next]_vars PROVE CliInbox'
  OBVIOUS
<1> USE Short, ByteFacts, CtrlFacts, Distinct
<1> USE DEF TypeOK, EnvType, CliType, SrvType, Gone, CliGone, SrvGone, env,
          cvars, svars, net, tcpw, udtw, IInv, CliInbox
<1>f. UNCHANGED <<cpc, cst, s2c, cudt, hit>> => CliInbox'
  BY DEF Expected, Follow
<1>1. CASE CliRecvAddr \/ CliPoll \/ CliExchange
  BY <1>1, RecvAddrStep, PollStep, CliExchangeStep
<1>2. CASE CliConnect \/ CliSendId \/ CliEst \/ CliHandshake
  BY <1>2 DEF CliConnect, CliUnch, CliSendId, ToServer, CliEst, CliAsk,
       CliHandshake
<1>3. CASE CliD2dDb \/ CliD2dTcp \/ CliD2dUdt \/ CliM2mDb
  BY <1>3 DEF CliD2dDb, CliAsk, ToServer, CliUnch, CliD2dTcp, CliD2dUdt,
       CliM2mDb, AfterDb
<1>4. CASE CliStartTcp \/ CliTcpRun \/ CliTcpDone \/ CliStartUdt \/ CliUdtRun
       \/ CliUdtDone
  BY <1>4 DEF CliStartTcp, CliStart, CliUnch, CliTcpRun, CliTcpDone,
       CliFinish, ToServer, CliStartUdt, CliUdtRun, CliUdtDone
<1>5. CASE CliRunFail \/ CliOther \/ CliBrokenPipe
  BY <1>5 DEF CliRunFail, CliUnch, CliOther, CliBrokenPipe
<1>6. CASE SrvHandshake \/ SrvEchoOnly \/ SrvTcpEcho \/ SrvUdtEcho \/
       SrvDoneEcho
  BY <1>6, EchoStep
<1>7. CASE SrvEst \/ SrvRecvId \/ SrvExchange
  BY <1>7, SendStep
<1>8. CASE SrvListen \/ SrvAccept \/ SrvPoll \/ SrvStartTcp \/ SrvCancelTcp \/
       SrvJoinTcp \/ SrvStartUdt
  BY <1>8, <1>f DEF SrvListen, SrvUnch, SrvAccept, SrvPoll, SrvStartTcp,
       SrvCancelTcp, SrvJoinTcp, SrvStartUdt
<1>9. CASE SrvFinish \/ SrvJoinUdt \/ SrvJoinTcpAgain \/ SrvCleanUp \/
       SrvBrokenPipe
  BY <1>9, <1>f DEF SrvFinish, SrvUnch, SrvJoinUdt, SrvJoinTcpAgain, SrvCleanUp,
       SrvBrokenPipe
<1>10. CASE TwServe \/ TwReset \/ TwBreak \/ TwCancelled \/ TwError \/ UwCheck
       \/ UwTimeout \/ UwError
  BY <1>10, <1>f DEF TwServe, TwUnch, CancelPending, TwReset, TwBreak, TwCancelled,
       TwError, UwCheck, UwUnch, UwTimeout, UwError
<1>11. CASE Kill
  BY <1>11, <1>f DEF Kill
<1>12. CASE UNCHANGED vars
  BY <1>12, <1>f DEF vars
<1> QED
  BY <1>1, <1>2, <1>3, <1>4, <1>5, <1>6, <1>7, <1>8, <1>9, <1>10, <1>11, <1>12
       DEF Next, CliStep, SrvStep, TcpWorker, UdtWorker, Over

(* The limits before the exchange. *)
LEMMA UnexchangedStep == TypeOK /\ IInv /\ [Next]_vars => Unexchanged'
<1> SUFFICES ASSUME TypeOK, IInv, [Next]_vars PROVE Unexchanged'
  OBVIOUS
<1> USE Short, ByteFacts, CtrlFacts, Distinct
<1> USE DEF TypeOK, EnvType, CliType, SrvType, Gone, CliGone, SrvGone, env,
          cvars, svars, net, tcpw, udtw, IInv, CliView, Unexchanged,
          CliConnecting, CliWaiting, CliActing, Legacy, Asked, Served,
          Answered, Follow, Busy, AfterEcho, Rest, Quiet, Early, SrvView,
          Requests
<1>1. CASE CliConnect
  BY <1>1 DEF CliConnect, CliUnch
<1>2. CASE CliSendId
  BY <1>2 DEF CliSendId, ToServer, CliUnch
<1>3. CASE CliRecvAddr
  BY <1>3 DEF CliRecvAddr, CliUnch
<1>4. CASE CliPoll
  BY <1>4 DEF CliPoll, CliUnch
<1>5. CASE CliExchange
  BY <1>5 DEF CliExchange, FirstRun, Lower, CliUnch
<1>6. CASE CliEst \/ CliHandshake
  BY <1>6 DEF CliEst, CliAsk, ToServer, CliUnch, CliHandshake
<1>7. CASE CliD2dDb \/ CliD2dTcp \/ CliD2dUdt \/ CliM2mDb
  BY <1>7 DEF CliD2dDb, CliAsk, ToServer, CliUnch, CliD2dTcp, CliD2dUdt,
       CliM2mDb, AfterDb
<1>8. CASE CliStartTcp \/ CliTcpRun \/ CliTcpDone \/ CliStartUdt \/ CliUdtRun
       \/ CliUdtDone
  BY <1>8 DEF CliStartTcp, CliStart, CliUnch, CliTcpRun, CliTcpDone,
       CliFinish, ToServer, CliStartUdt, CliUdtRun, CliUdtDone
<1>9. CASE CliRunFail \/ CliOther \/ CliBrokenPipe
  BY <1>9 DEF CliRunFail, CliUnch, CliOther, CliBrokenPipe
<1>10. CASE SrvListen \/ SrvAccept \/ SrvRecvId \/ SrvEst
  BY <1>10 DEF SrvListen, SrvUnch, SrvAccept, SrvRecvId, SrvEst, ToClient
<1>11. CASE SrvPoll
  BY <1>11 DEF SrvPoll, SrvUnch
<1>12. CASE SrvHandshake \/ SrvEchoOnly \/ SrvTcpEcho \/ SrvUdtEcho \/
       SrvDoneEcho
  BY <1>12 DEF SrvHandshake, SrvEcho, ToClient, SrvUnch, SrvEchoOnly,
       SrvTcpEcho, SrvUdtEcho, SrvDoneEcho
<1>13. CASE SrvExchange
  BY <1>13 DEF SrvExchange, Lower, SrvUnch
<1>14. CASE SrvStartTcp \/ SrvCancelTcp \/ SrvJoinTcp \/ SrvStartUdt
  BY <1>14 DEF SrvStartTcp, SrvUnch, SrvCancelTcp, SrvJoinTcp, SrvStartUdt
<1>15. CASE SrvFinish \/ SrvJoinUdt \/ SrvJoinTcpAgain \/ SrvCleanUp \/
       SrvBrokenPipe
  BY <1>15 DEF SrvFinish, SrvUnch, SrvJoinUdt, SrvJoinTcpAgain, SrvCleanUp,
       SrvBrokenPipe
<1>16. CASE TwServe \/ TwReset \/ TwBreak \/ TwCancelled \/ TwError \/ UwCheck
       \/ UwTimeout \/ UwError
  BY <1>16 DEF TwServe, TwUnch, CancelPending, TwReset, TwBreak, TwCancelled,
       TwError, UwCheck, UwUnch, UwTimeout, UwError
<1>17. CASE Kill
  BY <1>17 DEF Kill
<1>18. CASE UNCHANGED vars
  BY <1>18 DEF vars
<1> QED
  BY <1>1, <1>2, <1>3, <1>4, <1>5, <1>6, <1>7, <1>8, <1>9, <1>10, <1>11,
       <1>12, <1>13, <1>14, <1>15, <1>16, <1>17, <1>18 DEF Next, CliStep,
       SrvStep, TcpWorker, UdtWorker, Over

(* The answer to PROGRAM_DONE comes after the joins. *)
LEMMA DoneAnsweredStep == TypeOK /\ IInv /\ [Next]_vars => DoneAnswered'
<1> SUFFICES ASSUME TypeOK, IInv, [Next]_vars PROVE DoneAnswered'
  OBVIOUS
<1> USE Short, ByteFacts, CtrlFacts, Distinct
<1> USE DEF TypeOK, EnvType, CliType, SrvType, Gone, CliGone, SrvGone, env,
          cvars, svars, net, tcpw, udtw, IInv, CliInbox, DoneAnswered,
          WrappedUp, AllJoined, SrvView
<1>1. CASE CliRecvAddr \/ CliPoll \/ CliExchange
  BY <1>1, RecvAddrStep, PollStep, CliExchangeStep
<1>2. CASE CliConnect \/ CliSendId \/ CliEst \/ CliHandshake
  BY <1>2 DEF CliConnect, CliUnch, CliSendId, ToServer, CliEst, CliAsk,
       CliHandshake
<1>3. CASE CliD2dDb \/ CliD2dTcp \/ CliD2dUdt \/ CliM2mDb
  BY <1>3 DEF CliD2dDb, CliAsk, ToServer, CliUnch, CliD2dTcp, CliD2dUdt,
       CliM2mDb, AfterDb
<1>4. CASE CliStartTcp \/ CliTcpRun \/ CliTcpDone \/ CliStartUdt \/ CliUdtRun
       \/ CliUdtDone
  BY <1>4 DEF CliStartTcp, CliStart, CliUnch, CliTcpRun, CliTcpDone,
       CliFinish, ToServer, CliStartUdt, CliUdtRun, CliUdtDone
<1>5. CASE CliRunFail \/ CliOther \/ CliBrokenPipe
  BY <1>5 DEF CliRunFail, CliUnch, CliOther, CliBrokenPipe
<1>6. CASE SrvHandshake \/ SrvEchoOnly \/ SrvTcpEcho \/ SrvUdtEcho \/
       SrvDoneEcho
  BY <1>6, EchoStep
<1>7. CASE SrvEst \/ SrvRecvId \/ SrvExchange
  BY <1>7, SendStep
<1>8. CASE SrvListen \/ SrvAccept \/ SrvPoll \/ SrvStartTcp \/ SrvCancelTcp \/
       SrvJoinTcp \/ SrvStartUdt
  BY <1>8 DEF SrvListen, SrvUnch, SrvAccept, SrvPoll, SrvStartTcp,
       SrvCancelTcp, SrvJoinTcp, SrvStartUdt
<1>9. CASE SrvFinish \/ SrvJoinUdt \/ SrvJoinTcpAgain \/ SrvCleanUp \/
       SrvBrokenPipe
  BY <1>9 DEF SrvFinish, SrvUnch, SrvJoinUdt, SrvJoinTcpAgain, SrvCleanUp,
       SrvBrokenPipe
<1>10. CASE TwServe \/ TwReset \/ TwBreak \/ TwCancelled \/ TwError \/ UwCheck
       \/ UwTimeout \/ UwError
  BY <1>10 DEF TwServe, TwUnch, CancelPending, TwReset, TwBreak, TwCancelled,
       TwError, UwCheck, UwUnch, UwTimeout, UwError
<1>11. CASE Kill
  BY <1>11 DEF Kill
<1>12. CASE UNCHANGED vars
  BY <1>12 DEF vars
<1> QED
  BY <1>1, <1>2, <1>3, <1>4, <1>5, <1>6, <1>7, <1>8, <1>9, <1>10, <1>11, <1>12
       DEF Next, CliStep, SrvStep, TcpWorker, UdtWorker, Over

-----------------------------------------------------------------------------
(* The threads: none is started beside another, and none for TCP when -t    *)
(* excludes it.  The server may be gone, its threads then stand still.      *)
LEMMA ThreadsStep ==
  TypeOK /\ IInv /\ [Next]_vars => ProfilersExclusive' /\ UdtOnlySkipsTcp'
<1> SUFFICES ASSUME TypeOK, IInv, [Next]_vars
             PROVE  ProfilersExclusive' /\ UdtOnlySkipsTcp'
  OBVIOUS
<1> USE DEF ProfilersExclusive, UdtOnlySkipsTcp, Imposed, IInv, SrvView, Agreed, Gone, SrvGone,
          env, cvars, svars, net, tcpw, udtw, Requests
<1>1. CASE CliStep
  BY <1>1, CliFrame DEF CliExchange, CliTcpRun, CliUdtRun, CliUnch
<1>2. CASE SrvListen \/ SrvAccept \/ SrvRecvId \/ SrvEst \/ SrvPoll \/ SrvHandshake
           \/ SrvExchange \/ SrvEchoOnly \/ SrvTcpEcho \/ SrvCancelTcp \/ SrvUdtEcho
           \/ SrvFinish \/ SrvDoneEcho \/ SrvCleanUp \/ SrvBrokenPipe
  BY <1>2 DEF SrvListen, SrvAccept, SrvRecvId, SrvEst, SrvPoll, SrvHandshake, SrvEcho,
       SrvExchange, SrvEchoOnly, SrvTcpEcho, SrvCancelTcp, SrvUdtEcho, SrvFinish,
       SrvDoneEcho, SrvCleanUp, SrvBrokenPipe, SrvUnch
<1>3. CASE SrvStartTcp \/ SrvJoinTcp \/ SrvStartUdt
  BY <1>3 DEF SrvStartTcp, SrvJoinTcp, SrvStartUdt, SrvUnch
<1>4. CASE SrvJoinUdt \/ SrvJoinTcpAgain
  BY <1>4 DEF SrvJoinUdt, SrvJoinTcpAgain, SrvUnch
<1>5. CASE TcpWorker \/ TwError
  BY <1>5 DEF TcpWorker, TwServe, TwReset, TwBreak, TwCancelled, TwError, TwUnch
<1>6. CASE UdtWorker \/ UwError
  BY <1>6 DEF UdtWorker, UwCheck, UwTimeout, UwError, UwUnch
<1>7. CASE Kill
  BY <1>7 DEF Kill
<1>8. CASE UNCHANGED vars
  BY <1>8 DEF vars
<1> QED
  BY <1>1, <1>2, <1>3, <1>4, <1>5, <1>6, <1>7, <1>8 DEF Next, SrvStep, Over

(* The invariant holds at the start, where nothing has been said yet.       *)
LEMMA IInvInit == Init => IInv
<1> SUFFICES ASSUME Init PROVE IInv
  OBVIOUS
<1> USE DEF Init, Gone, CliGone, SrvGone, Early, Requests
<1>2. CliView
  BY DEF CliView, CliConnecting, CliWaiting, CliActing, Quiet
<1>3. CliInbox /\ Unexchanged
  BY DEF CliInbox, Unexchanged
<1>4. SrvView
  BY DEF SrvView, NoWorkers
<1>5. DoneAnswered
  BY Short DEF DoneAnswered
<1>6. ProfilersExclusive /\ UdtOnlySkipsTcp
  BY DEF ProfilersExclusive, UdtOnlySkipsTcp
<1> QED
  BY <1>2, <1>3, <1>4, <1>5, <1>6 DEF IInv

(* Every step preserves the invariant, part by part.                        *)
LEMMA IInvStep == TypeOK /\ IInv /\ [Next]_vars => IInv'
BY CliViewStep, CliInboxStep, UnexchangedStep, SrvViewStep, DoneAnsweredStep,
   ThreadsStep DEF IInv

(* The types, the error counts and where each side is, in every state of a  *)
(* session, whatever the client's options and its database.                *)
LEMMA Invariant == Spec => [](TypeOK /\ Counts /\ IInv)
<1>1. Init => TypeOK /\ Counts /\ IInv
  BY TypeInit, IInvInit
<1>2. (TypeOK /\ Counts /\ IInv) /\ [Next]_vars => (TypeOK /\ Counts /\ IInv)'
  BY TypeStep, IInvStep
<1> QED
  BY <1>1, <1>2, PTL DEF Spec

(* The inductive invariant: at each control point of either side, where the *)
(* other one is, what lies in the stream and which threads exist.           *)
THEOREM InvariantHolds == Spec => []IInv
<1> QED
  BY Invariant, PTL

(* Neither side ever reads a status byte where a control message lies, or   *)
(* the reverse, although one untagged stream carries both.                 *)
THEOREM StreamStaysFramed == Spec => []Framed
<1>1. TypeOK /\ Counts /\ IInv => Framed
  <2> SUFFICES ASSUME TypeOK, IInv PROVE Framed
    OBVIOUS
  <2>2. cpc = "poll" /\ s2c # <<>> => Head(s2c).t = "byte"
    BY Short, ByteFacts DEF IInv, CliInbox
  <2>3. cpc = "exch" /\ s2c # <<>> => Head(s2c).t = "ctrl"
    BY Short, CtrlFacts DEF IInv, CliInbox
  <2>4. spc = "poll" /\ c2s # <<>> => Head(c2s).t = "byte"
    BY Short, ByteFacts, CtrlFacts DEF TypeOK, CliType, IInv, CliView, CliConnecting, CliWaiting, CliActing, Legacy,
           Asked, Served, Answered, AfterEcho, Rest, Busy, Quiet, Gone, CliGone,
           SrvGone, SrvView, Requests, Early
  <2>5. spc = "exch" /\ c2s # <<>> => Head(c2s).t = "ctrl"
    BY Short, ByteFacts, CtrlFacts DEF TypeOK, CliType, IInv, CliView, CliConnecting, CliWaiting, CliActing, Legacy,
           Asked, Served, Answered, AfterEcho, Rest, Busy, Quiet, Gone, CliGone,
           SrvGone, SrvView, Requests, Early
  <2> QED
    BY <2>2, <2>3, <2>4, <2>5 DEF Framed
<1> QED
  BY <1>1, Invariant, PTL

(* While both processes live, requests and answers alternate.              *)
THEOREM RequestsAlternate == Spec => []LockStep
<1> DEFINE One(s)  == s = <<>> \/ \E x : s = <<x>>
           Shape == /\ c2s = <<>> \/ s2c = <<>>
                    /\ One(c2s) /\ (One(s2c) \/ cpc = "addr")
                    /\ spc \in Busy => cpc = "poll" /\ Quiet
<1>1. TypeOK /\ Counts /\ IInv => LockStep
  <2> SUFFICES ASSUME TypeOK, IInv, BothAlive PROVE LockStep
    BY DEF LockStep
  <2>1. Shape => LockStep
    <3>1. \A s : One(s) => Len(s) <= 1
      <4> SUFFICES ASSUME NEW s, One(s) PROVE Len(s) <= 1
        OBVIOUS
      <4>1. CASE s = <<>>
        BY <4>1, Lengths
      <4>2. CASE \E x : s = <<x>>
        <5>1. PICK x : s = <<x>>
          BY <4>2
        <5> QED
          BY <5>1, Lengths
      <4> QED
        BY <4>1, <4>2
    <3>2. Shape => Len(c2s) <= 1 /\ (Len(s2c) <= 1 \/ cpc = "addr")
      BY <3>1
    <3> HIDE DEF One
    <3> QED
      BY <3>2 DEF LockStep, Busy, Quiet
  <2> USE DEF TypeOK, CliType, SrvType, IInv, CliView, BothAlive, Gone, CliGone,
          SrvGone, Busy, Quiet, AfterEcho, Rest, Requests, Early
  <2>2. CASE cpc \in {"connect", "id", "addr"}
    <3>1. Shape
      BY <2>2 DEF CliConnecting
    <3> QED
      BY <3>1, <2>1
  <2>3. CASE cpc = "poll" /\ cst = "PROGRAM_START"
    <3>1. Shape
      BY <2>3 DEF CliConnecting, Answered
    <3> QED
      BY <3>1, <2>1
  <2>4. CASE cpc = "poll" /\ cst # "PROGRAM_START"
    <3>1. PICK r \in Requests \ {"CLIENT_TERMINATE"} : Asked(r) \/ Served(r) \/ Answered(r)
      BY <2>4 DEF CliWaiting
    <3>2. CASE Asked(r)
      BY <2>4, <3>2, <2>1 DEF Asked
    <3>3. CASE Served(r)
      BY <2>4, <3>3, <2>1 DEF Served
    <3>4. CASE Answered(r)
      BY <2>4, <3>4, <2>1 DEF Answered
    <3> QED
      BY <3>1, <3>2, <3>3, <3>4
  <2>5. CASE cpc \in {"proc", "tcp", "udt", "exch"}
    <3>1. Shape
      BY <2>5 DEF CliActing
    <3> QED
      BY <3>1, <2>1
  <2> QED
    BY <2>2, <2>3, <2>4, <2>5
<1> QED
  BY <1>1, Invariant, PTL

(* Once past the handshake both sides work with the same options.           *)
THEOREM SidesAgree == Spec => []Agreement
<1>1. TypeOK /\ Counts /\ IInv => Agreement
  BY DEF Agreement, IInv, SrvView, Agreed
<1> QED
  BY <1>1, Invariant, PTL

(* Where TCP profiling was not imposed, the UDT worker serves only when the  *)
(* TCP worker is gone, also while the server is being torn down.            *)
THEOREM ProfilersNeverOverlap == Spec => []ProfilersExclusive
<1>1. TypeOK /\ Counts /\ IInv => ProfilersExclusive
  BY DEF IInv
<1> QED
  BY <1>1, Invariant, PTL

(* The TCP worker that RUN_M2M_UDT cancels exists.                          *)
THEOREM WorkerExistsToCancel == Spec => []WorkerToCancel
<1>1. TypeOK /\ Counts /\ IInv => WorkerToCancel
  BY DEF WorkerToCancel, IInv, SrvView, Gone, SrvGone
<1> QED
  BY <1>1, Invariant, PTL

(* A client that reports its recommendation has been answered by a server   *)
(* that had waited for its threads.                                        *)
THEOREM DoneAfterJoins == Spec => []DoneMeansJoined
<1>1. TypeOK /\ Counts /\ IInv => DoneMeansJoined
  BY DEF DoneMeansJoined, IInv, DoneAnswered, WrappedUp, AllJoined
<1> QED
  BY <1>1, Invariant, PTL

(* At any moment one of the two processes can go on without the other, and   *)
(* every thread that is joined has been told to end, but for the TCP worker  *)
(* of a session it was imposed on.                                          *)
THEOREM NobodyStuck == Spec => []NoneStuck
<1>1. TypeOK /\ Counts /\ IInv => NoneStuck
  <2> SUFFICES ASSUME TypeOK, IInv PROVE NoneStuck
    OBVIOUS
  <2>1. ASSUME AwaitsServer, AwaitsClient PROVE FALSE
    <3> USE DEF AwaitsServer, AwaitsClient, IInv, CliView, SrvView, SrvGone, CliGone, Gone, Quiet
    <3>1. spc \in {"id", "poll", "exch"} /\ c2s = <<>> /\ s2c = <<>>
      BY <2>1
    <3>2. CASE cpc \in {"addr", "exch"} \/ cst = "PROGRAM_START"
      BY <2>1, <3>1, <3>2, Short DEF CliConnecting, CliActing, Answered
    <3>3. CASE cpc = "poll" /\ cst # "PROGRAM_START"
      <4>1. PICK r \in Requests : Asked(r) \/ Served(r) \/ Answered(r)
        BY <3>1, <3>3 DEF CliWaiting
      <4> QED
        BY <3>1, <4>1, Short DEF Asked, Served, Answered, Busy
    <3> QED
      BY <2>1, <3>2, <3>3
  <2>2. spc \in {"cancelJoin", "joinUdt", "joinTcp"} => ~SrvGone
    BY DEF SrvGone, Gone
  <2>3. /\ spc = "cancelJoin" => tw \notin {"none", "joined"}
        /\ spc = "joinUdt" => sst # "RUN_M2M_UDT"
        /\ spc = "joinTcp" /\ ~Imposed => tw \in {"none", "joined"}
    BY <2>2 DEF IInv, SrvView
  <2> QED
    BY <2>1, <2>3 DEF NoneStuck
<1> QED
  BY <1>1, Invariant, PTL

(* Given a database match, -t keeps its promise: no TCP worker exists.      *)
THEOREM UdtOnlyWithHistory == Spec => []UdtOnlySkipsTcp
<1>1. TypeOK /\ Counts /\ IInv => UdtOnlySkipsTcp
  BY DEF IInv
<1> QED
  BY <1>1, Invariant, PTL

-----------------------------------------------------------------------------
(* Whatever may be asked next is of a later stage. *)
LEMMA LaterStage == /\ Rank("PROGRAM_START") < Rank("CTRL_CHAN_EST")
                    /\ \A s, r : Follow(s, r) => Rank(s) < Rank(r)
BY DEF Rank, Follow

(* What the client reads is the answer to what it asked. *)
LEMMA ClientForward ==
  ASSUME IInv, CliPoll, s2c # <<>>
  PROVE  Rank(cst) < Rank(cst')
<1>1. PICK r \in Status : Expected(r) /\ s2c = <<Byte(r)>>
  BY DEF IInv, CliInbox, CliPoll
<1>2. cst' = r
  BY <1>1, Short, ByteFacts DEF CliPoll
<1> QED
  BY <1>1, <1>2, LaterStage DEF Expected

(* What the server reads was asked after its last answer was acted on, by a  *)
(* client that may have left since.                                        *)
LEMMA ServerForward ==
  ASSUME TypeOK, IInv, SrvPoll, c2s # <<>>
  PROVE  Rank(sst) < Rank(sst')
<1>1. spc = "poll" /\ sst' = StatusOf(Head(c2s)) /\ sst # "PROGRAM_START"
  BY DEF SrvPoll, IInv, SrvView, SrvGone, Gone
<1>2. \E r \in Requests : Follow(sst, r) /\ c2s = <<Byte(r)>>
  <2>1. CASE CliGone
    BY <1>1, <2>1 DEF IInv, CliView, SrvGone, Gone, Legacy
  <2>2. CASE cpc = "poll" /\ cst # "PROGRAM_START"
    <3>1. PICK r \in Requests : Follow(cst, r) /\ (Asked(r) \/ Served(r) \/ Answered(r))
      BY <1>1, <2>2 DEF IInv, CliView, CliWaiting, SrvGone, CliGone, Gone
    <3> QED
      BY <1>1, <3>1 DEF Asked, Served, Answered, Quiet
  <2>3. CASE ~CliGone /\ ~(cpc = "poll" /\ cst # "PROGRAM_START")
    BY <1>1, <2>3 DEF IInv, CliView, CliConnecting, CliActing, Answered, Quiet, SrvGone, CliGone,
         Gone, TypeOK, CliType
  <2> QED
    BY <2>1, <2>2, <2>3
<1>3. PICK r \in Requests : Follow(sst, r) /\ c2s = <<Byte(r)>>
  BY <1>2
<1>4. sst' = r
  BY <1>1, <1>3, Short, ByteFacts
<1> QED
  BY <1>3, <1>4, LaterStage

LEMMA ForwardStep == TypeOK /\ IInv /\ [Next]_vars => [Forward]_vars
<1> SUFFICES ASSUME TypeOK, IInv, Next PROVE Forward
  BY DEF vars
<1> USE DEF Spent, env, cvars, svars, net, tcpw, udtw
<1>1. /\ UNCHANGED <<cst, sst, tw, uw>>
      /\ cpc' = cpc \/ cpc # "poll" \/ cpc' # "proc"
      /\ spc' = spc \/ spc # "poll" \/ spc' # "proc"
      => Forward
  BY DEF Forward
<1>2. CASE CliPoll
  <2>1. UNCHANGED <<spc, sst, tw, uw>> /\ (s2c = <<>> => cpc' = "failed" /\ cst' = cst)
    BY <1>2 DEF CliPoll, CliUnch
  <2>2. s2c # <<>> => Rank(cst) < Rank(cst')
    BY <1>2, ClientForward
  <2> QED
    BY <2>1, <2>2 DEF Forward
<1>3. CASE SrvPoll
  <2>1. UNCHANGED <<cpc, cst, tw, uw>> /\ (c2s = <<>> => spc' = "failed" /\ sst' = sst)
    BY <1>3 DEF SrvPoll, SrvUnch
  <2>2. c2s # <<>> => Rank(sst) < Rank(sst')
    BY <1>3, ServerForward
  <2> QED
    BY <2>1, <2>2 DEF Forward
<1>4. CASE CliRecvAddr
  <2>1. UNCHANGED <<spc, cst, sst, tw, uw>> /\ cpc = "addr"
    BY <1>4 DEF CliRecvAddr, CliUnch, IInv, Unexchanged
  <2> QED
    BY <1>1, <2>1
<1>5. CASE CliTcpRun \/ CliUdtRun
  BY <1>5 DEF CliTcpRun, CliUdtRun, Forward
<1>6. CASE CliStep /\ ~CliPoll /\ ~CliRecvAddr /\ ~CliTcpRun /\ ~CliUdtRun
  <2>1. UNCHANGED <<spc, cst, sst, tw, uw>> /\ (cpc # "poll" \/ cpc' # "proc")
    BY <1>6 DEF CliStep, CliUnch, CliConnect, CliSendId, CliEst, CliHandshake, CliExchange,
         CliD2dDb, CliD2dTcp, CliD2dUdt, CliM2mDb, CliStartTcp, CliTcpDone, CliStartUdt,
         CliUdtDone, CliRunFail, CliOther, CliBrokenPipe, CliAsk, CliStart, CliFinish
  <2> QED
    BY <1>1, <2>1
<1>7. CASE SrvEst
  <2>1. UNCHANGED <<cpc, cst, tw, uw>> /\ sst = "PROGRAM_START" /\ sst' = "CTRL_CHAN_EST"
    BY <1>7 DEF SrvEst, SrvUnch, IInv, SrvView, SrvGone, Gone
  <2> QED
    BY <2>1, LaterStage DEF Forward
<1>8. CASE SrvStartTcp \/ SrvStartUdt
  <2>1. UNCHANGED <<cpc, cst, sst>> /\ spc # "poll"
    BY <1>8 DEF SrvStartTcp, SrvStartUdt, SrvUnch
  <2>2. (tw' = tw \/ tw = "none") /\ (uw' = uw \/ uw = "none")
    BY <1>8 DEF SrvStartTcp, SrvStartUdt, SrvUnch, IInv, SrvView, SrvGone, Gone
  <2> QED
    BY <2>1, <2>2 DEF Forward
<1>9. CASE SrvJoinTcp \/ SrvJoinUdt \/ SrvJoinTcpAgain
  BY <1>9 DEF SrvJoinTcp, SrvJoinUdt, SrvJoinTcpAgain, SrvUnch, Forward
<1>10. CASE /\ SrvStep /\ ~SrvPoll /\ ~SrvEst /\ ~SrvStartTcp /\ ~SrvStartUdt
            /\ ~SrvJoinTcp /\ ~SrvJoinUdt /\ ~SrvJoinTcpAgain
  <2>1. UNCHANGED <<cpc, cst, sst, tw, uw>> /\ (spc # "poll" \/ spc' # "proc")
    BY <1>10 DEF SrvStep, SrvUnch, SrvListen, SrvAccept, SrvRecvId, SrvHandshake, SrvExchange,
         SrvEchoOnly, SrvTcpEcho, SrvCancelTcp, SrvUdtEcho, SrvFinish, SrvDoneEcho, SrvCleanUp,
         SrvBrokenPipe, SrvEcho
  <2> QED
    BY <1>1, <2>1
<1>11. CASE TcpWorker \/ TwError
  BY <1>11 DEF TcpWorker, TwServe, TwReset, TwBreak, TwCancelled, TwError, TwUnch, Forward
<1>12. CASE UdtWorker \/ UwError
  BY <1>12 DEF UdtWorker, UwCheck, UwTimeout, UwError, UwUnch, Forward
<1>13. CASE Kill
  BY <1>1, <1>13 DEF Kill
<1>14. CASE Over
  BY <1>1, <1>14 DEF Over, vars
<1> QED
  BY <1>2, <1>3, <1>4, <1>5, <1>6, <1>7, <1>8, <1>9, <1>10, <1>11, <1>12, <1>13, <1>14
  DEF Next, CliStep, SrvStep

(* Neither side ever goes back to a stage or takes one up twice, and a thread *)
(* that has ended stays ended: no profiling is done twice in a session.      *)
THEOREM NeverTurnsBack == Spec => Onward
<1> QED
  BY Invariant, ForwardStep, PTL DEF Spec, Onward

=============================================================================
