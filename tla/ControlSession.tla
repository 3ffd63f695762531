--------------------------- MODULE ControlSession ---------------------------
(***************************************************************************)
(* One ProbData session: the client process, the server process with its   *)
(* two profiling threads, and the TCP control channel between them.        *)
(*                                                                         *)
(* The client drives the session: it sends one status byte at a time, the  *)
(* server handles it and echoes it, and the client acts on the echo        *)
(* (probdata_client.cpp, probdata_server.cpp, probdata_control.cpp).  The  *)
(* server serves TCP profiling in one thread and UDT profiling in another; *)
(* between the two it cancels and joins the first.                         *)
(*                                                                         *)
(* A process that returns, is killed, or is struck by SIGPIPE is "gone":   *)
(* the kernel closes its sockets and, in the server, ends its threads.     *)
(***************************************************************************)
EXTENDS Integers, Sequences

CONSTANTS
  MaxErr,     \* P_MAX_ERROR_NUM: consecutive errors a worker tolerates
  Limit,      \* max_prof_limit (-N) of the SERVER: its UDT worker counts against it
  Runs,       \* bound: profiling runs the client makes in one of its two loops
  Bufs,       \* the socket buffer maxima a host can have
  Modes,      \* what the client was asked for: "m2m", "d2d" (-S) or "dst" (-V alone)
  Scenarios,  \* the client's -t option, and whether its profile database has a match
  CanDecline, \* the "[y/N]" question is asked (a build without PROBDATA_DEBUG)
  CanKill     \* processes may be killed from outside

ASSUME ConstantsAssumption ==
  /\ MaxErr \in Nat \ {0} /\ Limit \in Nat /\ Runs \in Nat
  /\ Bufs \subseteq Int /\ Bufs # {}
  /\ Modes \subseteq {"m2m", "d2d", "dst"}
  /\ Scenarios \subseteq [udt: BOOLEAN, hit: BOOLEAN]
  /\ CanDecline \in BOOLEAN /\ CanKill \in BOOLEAN

Requests == {"TWOWAY_HANDSHAKE", "RUN_M2M_DB", "RUN_M2M_TCP", "RUN_M2M_UDT",
             "RUN_D2D_DB", "RUN_D2D_TCP", "RUN_D2D_UDT",
             "PROGRAM_DONE", "CLIENT_TERMINATE"}

Status == Requests \cup {"PROGRAM_START", "CTRL_CHAN_EST", "SERVER_ERROR",
                         "ACCESS_DENIED", "UNKNOWN"}

VARIABLES
  mode, hit, hostMax,               \* the request, the database, the hosts' buffer limits
  cpc, cst, cudt, cbuf, crun,       \* client: control point, prob->status, do_udt_only,
                                    \*   host_max_buf, runs made by the current loop
  spc, sst, sudt, sbuf,             \* server: the same
  conn, c2s, s2c,                   \* the control connection and its two byte streams
  tw, twErr,                        \* TCP worker thread and its err_cnt
  uw, uwErr, uwOk                   \* UDT worker thread, its err_cnt and ok_cnt

env   == <<mode, hit, hostMax>>
cvars == <<cpc, cst, cudt, cbuf, crun>>
svars == <<spc, sst, sudt, sbuf>>
net   == <<conn, c2s, s2c>>
tcpw  == <<tw, twErr>>
udtw  == <<uw, uwErr, uwOk>>
vars  == <<env, cvars, svars, net, tcpw, udtw>>

(* What travels on the channel: a status byte, a struct probdata_ctrlmsg,   *)
(* the client's ID packet, or the client's address as the server sees it.  *)
Byte(s)    == [t |-> "byte", v |-> s]
Ctrl(u, b) == [t |-> "ctrl", udt |-> u, buf |-> b]
Id         == [t |-> "id"]
Addr       == [t |-> "addr"]

CtrlMsgs == [t: {"ctrl"}, udt: BOOLEAN, buf: Bufs]
Items    == [t: {"byte"}, v: Status] \cup CtrlMsgs \cup {Id, Addr}

(* A one-byte read: out of step it picks up a byte that is no status. *)
StatusOf(m) == IF m.t = "byte" THEN m.v ELSE "UNKNOWN"

Lower(a, b) == IF a > b THEN b ELSE a

Gone     == {"ended", "failed", "killed"}
CliGone  == cpc \in Gone
SrvGone  == spc \in Gone

EnvType == mode \in Modes /\ hit \in BOOLEAN /\ hostMax \in [{"c", "s"} -> Bufs]

CliType ==
  /\ cpc \in Gone \cup {"connect", "id", "addr", "poll", "proc", "exch", "tcp", "udt"}
  /\ cst \in Status /\ cudt \in BOOLEAN /\ cbuf \in Bufs /\ crun \in 0..Runs

SrvType ==
  /\ spc \in Gone \cup {"start", "accept", "id", "est", "poll", "proc", "exch",
                        "tcpEcho", "cancelJoin", "udtEcho", "udtStart",
                        "joinUdt", "joinTcp", "doneEcho", "cleanup"}
  /\ sst \in Status /\ sudt \in BOOLEAN /\ sbuf \in Bufs

NetType == conn \in BOOLEAN /\ c2s \in Seq(Items) /\ s2c \in Seq(Items)

WorkerType ==
  /\ tw \in {"none", "loop", "serving", "reset", "break", "ended", "joined"}
  /\ uw \in {"none", "loop", "serving", "ended", "joined"}
  /\ twErr \in 0..MaxErr /\ uwErr \in 0..MaxErr /\ uwOk \in 0..(Limit + 1)

TypeOK == EnvType /\ CliType /\ SrvType /\ NetType /\ WorkerType

Init ==
  /\ mode \in Modes /\ hostMax \in [{"c", "s"} -> Bufs]
  /\ \E s \in Scenarios : cudt = s.udt /\ hit = s.hit
  /\ cpc = "connect" /\ cst = "PROGRAM_START"
  /\ cbuf = hostMax["c"] /\ crun = 0
  /\ spc = "start" /\ sst = "PROGRAM_START" /\ sudt = FALSE /\ sbuf = hostMax["s"]
  /\ conn = FALSE /\ c2s = <<>> /\ s2c = <<>>
  /\ tw = "none" /\ twErr = 0
  /\ uw = "none" /\ uwErr = 0 /\ uwOk = 0

-----------------------------------------------------------------------------
(* The client *)

CliUnch == UNCHANGED <<env, svars, tcpw, udtw>>

ToServer(m) == c2s' = Append(c2s, m) /\ UNCHANGED <<conn, s2c>>

CliConnect ==
  /\ cpc = "connect"
  /\ IF spc # "start" /\ ~SrvGone
       THEN cpc' = "id" /\ conn' = TRUE
       ELSE cpc' = "failed" /\ UNCHANGED conn
  /\ UNCHANGED <<cst, cudt, cbuf, crun, c2s, s2c>> /\ CliUnch

CliSendId ==
  /\ cpc = "id" /\ cpc' = "addr"
  /\ ToServer(Id)
  /\ UNCHANGED <<cst, cudt, cbuf, crun>> /\ CliUnch

(* End of file is a short count, and no caller of recv_Nbytes for more than *)
(* one byte tells it from success; a reset connection is an error.          *)
CliRecvAddr ==
  /\ cpc = "addr"
  /\ \/ s2c # <<>> /\ s2c' = Tail(s2c) /\ cpc' = "poll"
     \/ s2c = <<>> /\ SrvGone /\ cpc' \in {"poll", "failed"} /\ UNCHANGED s2c
  /\ cst' = IF cpc' = "poll" THEN "PROGRAM_START" ELSE cst
  /\ UNCHANGED <<cudt, cbuf, crun, conn, c2s>> /\ CliUnch

CliPoll ==
  /\ cpc = "poll"
  /\ \/ /\ s2c # <<>> /\ cst' = StatusOf(Head(s2c)) /\ s2c' = Tail(s2c)
        /\ cpc' = "proc"
     \/ s2c = <<>> /\ SrvGone /\ cpc' = "failed" /\ UNCHANGED <<cst, s2c>>
  /\ UNCHANGED <<cudt, cbuf, crun, conn, c2s>> /\ CliUnch

(* Handling st ends with the request r and the client back in its poll loop. *)
CliAsk(st, r) ==
  /\ cpc = "proc" /\ cst = st /\ cpc' = "poll"
  /\ ToServer(Byte(r))
  /\ UNCHANGED <<cst, cudt, cbuf, crun>> /\ CliUnch

CliEst    == CliAsk("CTRL_CHAN_EST", "TWOWAY_HANDSHAKE")
CliD2dDb  == CliAsk("RUN_D2D_DB", "RUN_D2D_TCP")
CliD2dTcp == CliAsk("RUN_D2D_TCP", "RUN_D2D_UDT")
CliD2dUdt == CliAsk("RUN_D2D_UDT", "PROGRAM_DONE")

(* Faulty variant: -t is not looked at. *)
AfterDbIgnoresUdtOnly ==
  {"RUN_M2M_TCP"} \cup (IF CanDecline THEN {"PROGRAM_DONE"} ELSE {})

(* A database without a match always leads to TCP, whatever do_udt_only. *)
AfterDb ==
  IF hit THEN {IF cudt THEN "RUN_M2M_UDT" ELSE "RUN_M2M_TCP"}
              \cup (IF CanDecline THEN {"PROGRAM_DONE"} ELSE {})
         ELSE {"RUN_M2M_TCP"}

CliM2mDb == \E r \in AfterDb : CliAsk("RUN_M2M_DB", r)

CliHandshake ==
  /\ cpc = "proc" /\ cst = "TWOWAY_HANDSHAKE" /\ cpc' = "exch"
  /\ ToServer(Ctrl(cudt, cbuf))
  /\ UNCHANGED <<cst, cudt, cbuf, crun>> /\ CliUnch

FirstRun == IF mode = "d2d" THEN "RUN_D2D_DB"
            ELSE IF mode = "dst" THEN "CLIENT_TERMINATE" ELSE "RUN_M2M_DB"

(* The reply to the exchange, or what data still holds if there is none,    *)
(* then the first request; a lone -V ends the client right after it.        *)
CliExchange ==
  /\ cpc = "exch"
  /\ \/ /\ s2c # <<>> /\ s2c' = Tail(s2c)
        /\ \E m \in (IF Head(s2c) \in CtrlMsgs THEN {Head(s2c)} ELSE CtrlMsgs) :
             cbuf' = Lower(m.buf, cbuf)
     \/ s2c = <<>> /\ SrvGone /\ UNCHANGED <<s2c, cbuf>>
  /\ c2s' = Append(c2s, Byte(FirstRun))
  /\ cpc' = IF mode = "dst" THEN "failed" ELSE "poll"
  /\ UNCHANGED <<cst, cudt, crun, conn>> /\ CliUnch

(* The profiling loops.  A run succeeds only against a worker that is       *)
(* serving; a run that fails, for whatever reason, ends the client.         *)
CliStart(st, pc) ==
  /\ cpc = "proc" /\ cst = st /\ cpc' = pc /\ crun' = 0
  /\ UNCHANGED <<cst, cudt, cbuf, net>> /\ CliUnch

CliStartTcp == CliStart("RUN_M2M_TCP", "tcp")
CliStartUdt == CliStart("RUN_M2M_UDT", "udt")

CliTcpRun ==
  /\ cpc = "tcp" /\ crun < Runs /\ ~SrvGone
  /\ tw = "serving" /\ tw' = "reset" /\ twErr' = 0
  /\ crun' = crun + 1
  /\ UNCHANGED <<env, cpc, cst, cudt, cbuf, svars, net, udtw>>

CliUdtRun ==
  /\ cpc = "udt" /\ crun < Runs /\ ~SrvGone
  /\ uw = "serving" /\ uw' = "loop" /\ uwErr' = 0 /\ uwOk' = uwOk + 1
  /\ crun' = crun + 1
  /\ UNCHANGED <<env, cpc, cst, cudt, cbuf, svars, net, tcpw>>

CliFinish(pc, r) ==
  /\ cpc = pc /\ cpc' = "poll"
  /\ ToServer(Byte(r))
  /\ UNCHANGED <<cst, cudt, cbuf, crun>> /\ CliUnch

(* Faulty variants: the wrong request after a profiling loop. *)
CliTcpDoneAsksTcp == CliFinish("tcp", "RUN_M2M_TCP")
CliUdtDoneTerminates == CliFinish("udt", "CLIENT_TERMINATE")

CliTcpDone == CliFinish("tcp", "RUN_M2M_UDT")
CliUdtDone == CliFinish("udt", "PROGRAM_DONE")

CliRunFail ==
  /\ cpc \in {"tcp", "udt"} /\ cpc' = "failed"
  /\ UNCHANGED <<cst, cudt, cbuf, crun, net>> /\ CliUnch

(* PROGRAM_DONE leaves the loop; two statuses are ignored, the rest is an error. *)
CliOther ==
  /\ cpc = "proc" /\ cst \notin (Requests \ {"PROGRAM_DONE", "CLIENT_TERMINATE"})
  /\ cst # "CTRL_CHAN_EST"
  /\ cpc' = IF cst = "PROGRAM_DONE" THEN "ended"
            ELSE IF cst \in {"SERVER_ERROR", "ACCESS_DENIED"} THEN "poll" ELSE "failed"
  /\ UNCHANGED <<cst, cudt, cbuf, crun, net>> /\ CliUnch

(* Writing to a connection the server has left, or reading from one that  *)
(* its leaving reset: EPIPE, SIGPIPE or ECONNRESET.                        *)
CliBrokenPipe ==
  /\ SrvGone /\ cpc \in {"id", "proc", "exch"} /\ cpc' = "failed"
  /\ cpc = "proc" => cst \notin {"RUN_M2M_TCP", "RUN_M2M_UDT", "PROGRAM_DONE"}
  /\ UNCHANGED <<cst, cudt, cbuf, crun, net>> /\ CliUnch

CliStep ==
  \/ CliConnect \/ CliSendId \/ CliRecvAddr \/ CliPoll \/ CliEst \/ CliHandshake
  \/ CliExchange \/ CliD2dDb \/ CliD2dTcp \/ CliD2dUdt \/ CliM2mDb
  \/ CliStartTcp \/ CliTcpRun \/ CliTcpDone \/ CliStartUdt \/ CliUdtRun
  \/ CliUdtDone \/ CliRunFail \/ CliOther \/ CliBrokenPipe

-----------------------------------------------------------------------------
(* The server's main thread *)

SrvUnch == UNCHANGED <<env, cvars, udtw>>

ToClient(m) == s2c' = Append(s2c, m) /\ UNCHANGED <<conn, c2s>>

SrvListen ==
  /\ spc = "start" /\ spc' \in {"accept", "failed"}
  /\ UNCHANGED <<sst, sudt, sbuf, net, tcpw>> /\ SrvUnch

SrvAccept ==
  /\ spc = "accept" /\ conn /\ spc' = "id"
  /\ UNCHANGED <<sst, sudt, sbuf, net, tcpw>> /\ SrvUnch

SrvRecvId ==
  /\ spc = "id" /\ spc' = "est"
  /\ \/ c2s # <<>> /\ c2s' = Tail(c2s)
     \/ c2s = <<>> /\ CliGone /\ UNCHANGED c2s
  /\ s2c' = Append(s2c, Addr)
  /\ UNCHANGED <<sst, sudt, sbuf, conn, tcpw>> /\ SrvUnch

SrvEst ==
  /\ spc = "est" /\ spc' = "poll" /\ sst' = "CTRL_CHAN_EST"
  /\ ToClient(Byte("CTRL_CHAN_EST"))
  /\ UNCHANGED <<sudt, sbuf, tcpw>> /\ SrvUnch

(* The byte goes straight into prob->status, which the UDT worker reads. *)
SrvPoll ==
  /\ spc = "poll"
  /\ \/ /\ c2s # <<>> /\ sst' = StatusOf(Head(c2s)) /\ c2s' = Tail(c2s)
        /\ spc' = "proc"
     \/ c2s = <<>> /\ CliGone /\ spc' = "failed" /\ UNCHANGED <<sst, c2s>>
  /\ UNCHANGED <<sudt, sbuf, conn, s2c, tcpw>> /\ SrvUnch

(* Sending the echo of the status from control point pc. *)
SrvEcho(pc, next) ==
  /\ spc = pc /\ spc' = next
  /\ ToClient(Byte(sst))
  /\ UNCHANGED <<sst, sudt, sbuf, tcpw>> /\ SrvUnch

(* Faulty variant: the exchange that belongs to the handshake is left out. *)
SrvHandshakeOnly == sst = "TWOWAY_HANDSHAKE" /\ SrvEcho("proc", "poll")

SrvHandshake == sst = "TWOWAY_HANDSHAKE" /\ SrvEcho("proc", "exch")

(* Faulty variants: the server takes the client's limit, or keeps its own    *)
(* do_udt_only.                                                            *)
SrvExchangeTakesLimit ==
  /\ spc = "exch" /\ spc' = "poll"
  /\ c2s # <<>> /\ c2s' = Tail(c2s)
  /\ \E m \in {Head(c2s)} \cap CtrlMsgs :
       /\ sudt' = m.udt /\ sbuf' = m.buf
       /\ s2c' = Append(s2c, Ctrl(m.udt, sbuf'))
  /\ UNCHANGED <<sst, conn, tcpw>> /\ SrvUnch

SrvExchangeKeepsUdtOnly ==
  /\ spc = "exch" /\ spc' = "poll"
  /\ c2s # <<>> /\ c2s' = Tail(c2s)
  /\ \E m \in {Head(c2s)} \cap CtrlMsgs :
       /\ UNCHANGED sudt /\ sbuf' = Lower(m.buf, sbuf)
       /\ s2c' = Append(s2c, Ctrl(sudt, sbuf'))
  /\ UNCHANGED <<sst, conn, tcpw>> /\ SrvUnch

(* What the client asked for and the smaller of the two buffer limits.  If  *)
(* the client has left, data is whatever the stack held.                    *)
SrvExchange ==
  /\ spc = "exch" /\ spc' = "poll"
  /\ \/ c2s # <<>> /\ c2s' = Tail(c2s)
     \/ c2s = <<>> /\ CliGone /\ UNCHANGED c2s
  /\ \E m \in (IF c2s # <<>> /\ Head(c2s) \in CtrlMsgs THEN {Head(c2s)} ELSE CtrlMsgs) :
       /\ sudt' = m.udt /\ sbuf' = Lower(m.buf, sbuf)
       /\ s2c' = Append(s2c, Ctrl(m.udt, sbuf'))
  /\ UNCHANGED <<sst, conn, tcpw>> /\ SrvUnch

(* Faulty variant: a missing break answers twice. *)
SrvEchoTwice ==
  /\ sst \in {"RUN_M2M_DB", "RUN_D2D_DB", "RUN_D2D_TCP", "RUN_D2D_UDT"}
  /\ spc = "proc" /\ spc' = "poll"
  /\ s2c' = s2c \o <<Byte(sst), Byte(sst)>>
  /\ UNCHANGED <<sst, sudt, sbuf, conn, c2s, tcpw>> /\ SrvUnch

(* The database requests, and the disk-to-disk profilers, which are stubs. *)
SrvEchoOnly ==
  /\ sst \in {"RUN_M2M_DB", "RUN_D2D_DB", "RUN_D2D_TCP", "RUN_D2D_UDT"}
  /\ SrvEcho("proc", "poll")

(* The TCP worker is created first and the echo sent afterwards; the test   *)
(* or the thread may not be creatable.                                      *)
SrvStartTcp ==
  /\ spc = "proc" /\ sst = "RUN_M2M_TCP"
  /\ \/ spc' = "tcpEcho" /\ tw' = "loop" /\ twErr' = 0
     \/ spc' = "failed" /\ UNCHANGED tcpw
  /\ UNCHANGED <<sst, sudt, sbuf, net>> /\ SrvUnch

SrvTcpEcho == SrvEcho("tcpEcho", "poll")

(* Faulty variant: the worker is cancelled and not joined. *)
SrvCancelOnly ==
  /\ spc = "proc" /\ sst = "RUN_M2M_UDT"
  /\ spc' = IF ~sudt /\ tw = "none" THEN "failed" ELSE "udtEcho"
  /\ UNCHANGED <<sst, sudt, sbuf, net, tcpw>> /\ SrvUnch

(* pthread_cancel and pthread_join on the TCP worker, skipped when the      *)
(* client asked for UDT only; *prob_tcp_worker crashes if there is none.    *)
SrvCancelTcp ==
  /\ spc = "proc" /\ sst = "RUN_M2M_UDT"
  /\ spc' = IF sudt THEN "udtEcho" ELSE IF tw = "none" THEN "failed" ELSE "cancelJoin"
  /\ UNCHANGED <<sst, sudt, sbuf, net, tcpw>> /\ SrvUnch

SrvJoinTcp ==
  /\ spc = "cancelJoin" /\ tw = "ended" /\ tw' = "joined" /\ spc' = "udtEcho"
  /\ UNCHANGED <<sst, sudt, sbuf, net, twErr>> /\ SrvUnch

(* Here the echo goes first, and the worker is created 500 us later. *)
SrvUdtEcho == SrvEcho("udtEcho", "udtStart")

SrvStartUdt ==
  /\ spc = "udtStart"
  /\ \/ spc' = "poll" /\ uw' = "loop" /\ uwErr' = 0 /\ uwOk' = 0
     \/ spc' = "failed" /\ UNCHANGED udtw
  /\ UNCHANGED <<env, cvars, sst, sudt, sbuf, net, tcpw>>

(* Faulty variant: PROGRAM_DONE is answered without waiting for the threads. *)
SrvFinishNoJoin ==
  /\ spc = "proc"
  /\ sst \notin (Requests \ {"PROGRAM_DONE", "CLIENT_TERMINATE"})
  /\ spc' = IF sst = "PROGRAM_DONE" THEN "doneEcho"
            ELSE IF sst \in {"CLIENT_TERMINATE", "SERVER_ERROR"} THEN "cleanup" ELSE "poll"
  /\ UNCHANGED <<sst, sudt, sbuf, net, tcpw>> /\ SrvUnch

(* PROGRAM_DONE: wait for the UDT worker, then for the TCP worker, then      *)
(* echo.  CLIENT_TERMINATE leaves the loop; any other status is ignored.    *)
SrvFinish ==
  /\ spc = "proc"
  /\ sst \notin (Requests \ {"PROGRAM_DONE", "CLIENT_TERMINATE"})
  /\ spc' = IF sst = "PROGRAM_DONE" THEN "joinUdt"
            ELSE IF sst \in {"CLIENT_TERMINATE", "SERVER_ERROR"} THEN "cleanup" ELSE "poll"
  /\ UNCHANGED <<sst, sudt, sbuf, net, tcpw>> /\ SrvUnch

SrvJoinUdt ==
  /\ spc = "joinUdt" /\ uw \in {"none", "ended"} /\ spc' = "joinTcp"
  /\ uw' = IF uw = "none" THEN "none" ELSE "joined"
  /\ UNCHANGED <<env, cvars, sst, sudt, sbuf, net, tcpw, uwErr, uwOk>>

(* The second join of a thread joined by SrvJoinTcp is undefined: it comes   *)
(* back with or without an error (both are only logged), or it crashes.     *)
SrvJoinTcpAgain ==
  /\ spc = "joinTcp" /\ tw \in {"none", "ended", "joined"}
  /\ tw' = IF tw = "none" THEN "none" ELSE "joined"
  /\ \/ spc' = "doneEcho"
     \/ tw = "joined" /\ spc' = "failed"
  /\ UNCHANGED <<sst, sudt, sbuf, net, twErr>> /\ SrvUnch

SrvDoneEcho == SrvEcho("doneEcho", "cleanup")

SrvCleanUp ==
  /\ spc = "cleanup" /\ spc' = "ended"
  /\ UNCHANGED <<sst, sudt, sbuf, net, tcpw>> /\ SrvUnch

SrvBrokenPipe ==
  /\ CliGone /\ spc' = "failed"
  /\ \/ spc \in {"id", "est", "exch", "tcpEcho", "udtEcho", "doneEcho"}
     \/ spc = "proc" /\ sst \in {"TWOWAY_HANDSHAKE", "RUN_M2M_DB", "RUN_D2D_DB",
                                  "RUN_D2D_TCP", "RUN_D2D_UDT"}
  /\ UNCHANGED <<sst, sudt, sbuf, net, tcpw>> /\ SrvUnch

SrvStep ==
  \/ SrvListen \/ SrvAccept \/ SrvRecvId \/ SrvEst \/ SrvPoll \/ SrvHandshake
  \/ SrvExchange \/ SrvEchoOnly \/ SrvStartTcp \/ SrvTcpEcho \/ SrvCancelTcp
  \/ SrvJoinTcp \/ SrvUdtEcho \/ SrvStartUdt \/ SrvFinish \/ SrvJoinUdt
  \/ SrvJoinTcpAgain \/ SrvDoneEcho \/ SrvCleanUp \/ SrvBrokenPipe

-----------------------------------------------------------------------------
(* The two profiling threads; they run as long as the server process does *)

TwUnch == ~SrvGone /\ UNCHANGED <<env, cvars, svars, net, udtw>>

(* pthread_cancel is deferred: pthread_testcancel and the blocking calls of  *)
(* iperf_run_server are the cancellation points.                            *)
CancelPending == spc = "cancelJoin"

TwServe ==
  tw = "loop" /\ ~CancelPending /\ tw' = "serving" /\ UNCHANGED twErr /\ TwUnch

TwError ==
  /\ tw = "serving" /\ twErr' = twErr + 1
  /\ tw' = IF twErr' >= MaxErr THEN "break" ELSE "reset"
  /\ TwUnch

TwReset == tw = "reset" /\ tw' \in {"loop", "break"} /\ UNCHANGED twErr /\ TwUnch

(* Leaving the loop frees the test and then runs the cleanup handler, which *)
(* resets and frees it again: undefined, the process may die of it.         *)
TwBreak ==
  /\ tw = "break" /\ tw' = "ended" /\ spc' \in {spc, "failed"} /\ ~SrvGone
  /\ UNCHANGED <<env, cvars, sst, sudt, sbuf, net, twErr, udtw>>

(* Acting on the cancellation runs the cleanup handler once. *)
TwCancelled ==
  /\ tw \in {"loop", "serving"} /\ CancelPending /\ tw' = "ended"
  /\ UNCHANGED twErr /\ TwUnch

UwUnch == ~SrvGone /\ UNCHANGED <<env, cvars, svars, net, tcpw>>

(* Faulty variants: the worker forgets the limit, or the server's status. *)
UwCheckNoLimit ==
  /\ uw = "loop"
  /\ uw' = IF sst = "RUN_M2M_UDT" /\ uwErr < MaxErr THEN "serving" ELSE "ended"
  /\ UNCHANGED <<uwErr, uwOk>> /\ UwUnch

UwCheckNoStatus ==
  /\ uw = "loop"
  /\ uw' = IF uwOk <= Limit /\ uwErr < MaxErr THEN "serving" ELSE "ended"
  /\ UNCHANGED <<uwErr, uwOk>> /\ UwUnch

UwCheck ==
  /\ uw = "loop"
  /\ uw' = IF sst = "RUN_M2M_UDT" /\ uwOk <= Limit /\ uwErr < MaxErr
             THEN "serving" ELSE "ended"
  /\ UNCHANGED <<uwErr, uwOk>> /\ UwUnch

(* tpg_server_run gives up after 15 seconds without a client. *)
UwTimeout == uw = "serving" /\ uw' = "loop" /\ UNCHANGED <<uwErr, uwOk>> /\ UwUnch

UwError ==
  /\ uw = "serving"
  /\ \/ uw' = "ended" /\ UNCHANGED uwErr
     \/ uw' = "loop" /\ uwErr' = uwErr + 1
  /\ UNCHANGED uwOk /\ UwUnch

TcpWorker == TwServe \/ TwReset \/ TwBreak \/ TwCancelled
UdtWorker == UwCheck \/ UwTimeout

-----------------------------------------------------------------------------
(* The environment: a process is killed.  The kernel resets a connection     *)
(* whose owner left bytes unread; the peer then reads an error where it      *)
(* would have read end of file (CliBrokenPipe, SrvBrokenPipe).  It loses no  *)
(* bytes by it, because there are never bytes on their way in both           *)
(* directions.                                                              *)

Kill ==
  /\ CanKill
  /\ \/ ~CliGone /\ cpc' = "killed" /\ UNCHANGED spc
     \/ ~SrvGone /\ spc' = "killed" /\ UNCHANGED cpc
  /\ UNCHANGED <<env, cst, cudt, cbuf, crun, sst, sudt, sbuf, net, tcpw, udtw>>

(* Both processes are gone, or the server waits for a client that will not come. *)
Over == CliGone /\ (SrvGone \/ (spc = "accept" /\ ~conn)) /\ UNCHANGED vars

Next == CliStep \/ SrvStep \/ TcpWorker \/ TwError \/ UdtWorker \/ UwError
          \/ Kill \/ Over

Spec == Init /\ [][Next]_vars

(* Each thread that can run does, in the end: the operating system schedules *)
(* it, the poll loops spin, and tpg_server_run has its 15 s timeout.        *)
(* Nothing is assumed of errors and kills.                                 *)
Fairness == /\ WF_vars(CliStep) /\ WF_vars(SrvStep)
            /\ WF_vars(TcpWorker) /\ WF_vars(UdtWorker)

FairSpec == Spec /\ Fairness

-----------------------------------------------------------------------------
(* Properties *)

BothAlive == ~CliGone /\ ~SrvGone

(* A status byte is never read where a control message lies and vice versa: *)
(* the poll loops and the exchange share one untagged byte stream.          *)
Framed ==
  /\ spc = "poll" /\ c2s # <<>> => Head(c2s).t = "byte"
  /\ spc = "exch" /\ c2s # <<>> => Head(c2s).t = "ctrl"
  /\ cpc = "poll" /\ s2c # <<>> => Head(s2c).t = "byte"
  /\ cpc = "exch" /\ s2c # <<>> => Head(s2c).t = "ctrl"

(* While both processes live, requests and answers alternate: never bytes   *)
(* both ways, never two requests outstanding, and a server that is busy     *)
(* with a request has nothing more to read.                                 *)
LockStep ==
  BothAlive =>
    /\ c2s = <<>> \/ s2c = <<>>
    /\ Len(c2s) <= 1
    /\ Len(s2c) <= 1 \/ cpc = "addr"
    /\ spc \in {"proc", "tcpEcho", "cancelJoin", "udtEcho", "joinUdt", "joinTcp", "doneEcho"}
         => cpc = "poll" /\ c2s = <<>> /\ s2c = <<>>

(* From the first request after the handshake on, a server that lives works  *)
(* with the client's do_udt_only and with the smaller buffer limit of both  *)
(* hosts, and so does the client (probdata_ctrl_chan_ctrlmsg_exchange).     *)
Agreement ==
  ~SrvGone /\ sst \in Requests \ {"TWOWAY_HANDSHAKE"} =>
    /\ sudt = cudt
    /\ sbuf = Lower(hostMax["c"], hostMax["s"]) /\ cbuf = sbuf

(* TCP profiling is imposed on a client that excluded it: -t, but no match in *)
(* its database.  The server then never cancels the TCP worker, whose loop   *)
(* has no other end.                                                       *)
Imposed == cudt /\ ~hit

(* The profilers do not run side by side, where each would measure what the *)
(* other leaves of the link: UDT profiling starts after the join.           *)
ProfilersExclusive ==
  uw \in {"loop", "serving"} /\ ~Imposed => tw \in {"none", "joined"}

(* Cancelling the TCP worker never goes through a null prob_tcp_worker. *)
WorkerToCancel == spc = "proc" /\ sst = "RUN_M2M_UDT" /\ ~sudt => tw # "none"

(* The client prints its recommendation only when every thread the server   *)
(* started for it has been waited for.                                      *)
DoneMeansJoined ==
  cpc = "ended" => tw \in {"none", "joined"} /\ uw \in {"none", "joined"}

(* Given a match in the database, -t keeps its promise to use UDT only.      *)
UdtOnlySkipsTcp == cudt /\ ~Imposed => tw = "none"

(* What the log at PROGRAM_DONE says, and the code does not do: the threads  *)
(* waited for have not been waited for before.                              *)
JoinsRunningThreads == spc = "joinTcp" => tw # "joined"

(* Nobody waits for somebody who waits for him: the two processes are never  *)
(* both in recv on an empty stream, and a thread that the server joins has   *)
(* been told to end, by cancellation or by the status its loop looks at.    *)
AwaitsServer == cpc \in {"addr", "poll", "exch"} /\ s2c = <<>>
AwaitsClient == spc \in {"id", "poll", "exch"} /\ c2s = <<>>

NoneStuck ==
  /\ ~(AwaitsServer /\ AwaitsClient)
  /\ spc = "cancelJoin" => tw \notin {"none", "joined"}
  /\ spc = "joinUdt" => sst # "RUN_M2M_UDT"
  /\ spc = "joinTcp" /\ ~Imposed => tw \in {"none", "joined"}

(* How far the conversation is. *)
Rank(s) ==
  CASE s = "PROGRAM_START"                  -> 0
    [] s = "CTRL_CHAN_EST"                  -> 1
    [] s = "TWOWAY_HANDSHAKE"               -> 2
    [] s \in {"RUN_M2M_DB", "RUN_D2D_DB"}   -> 3
    [] s \in {"RUN_M2M_TCP", "RUN_D2D_TCP"} -> 4
    [] s \in {"RUN_M2M_UDT", "RUN_D2D_UDT"} -> 5
    [] OTHER                                -> 6

Spent == {"ended", "joined"}

Forward ==
  /\ cst' # cst \/ (cpc = "poll" /\ cpc' = "proc") => Rank(cst) < Rank(cst')
  /\ sst' # sst \/ (spc = "poll" /\ spc' = "proc") => Rank(sst) < Rank(sst')
  /\ tw \in Spent => tw' \in Spent
  /\ uw \in Spent => uw' \in Spent

(* Neither side ever turns back: each status it takes up, from a live peer   *)
(* or from what a dead one left in the stream, is of a later stage than the *)
(* last.  So no profiling is started twice, and a worker thread that has    *)
(* ended is never replaced by another.                                      *)
Onward == [][Forward]_vars

(* Once the connection is made both processes finish, however the client,   *)
(* the workers or the profiling fail; where TCP profiling was not imposed,   *)
(* that is so.                                                              *)
SessionEnds == conn ~> (CliGone /\ SrvGone)
SupportedEnds == conn /\ ~Imposed ~> (CliGone /\ SrvGone)

(* The conversation: what the client acted on and what it waits for. *)
Waiting == cpc = "poll" /\ cst # "PROGRAM_START"

Conversation == INSTANCE Session WITH
  None    <- "none",
  Closed  <- "closed",
  stage   <- IF BothAlive THEN cst ELSE "closed",
  pending <- IF BothAlive /\ Waiting
               THEN IF c2s # <<>> THEN StatusOf(Head(c2s))
                    ELSE IF s2c # <<>> THEN StatusOf(Head(s2c)) ELSE sst
               ELSE "none"

ImplementsSession == Conversation!Spec

=============================================================================
