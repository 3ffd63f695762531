-------------------------- MODULE ControlSessionInv --------------------------
(***************************************************************************)
(* The inductive invariant of ControlSession.  The safety properties relate *)
(* the server's threads to the client's options; what carries them from    *)
(* step to step is where each side is in the conversation, so that is what *)
(* the invariant describes: one case per control point of the client while *)
(* both live (CliView), what the client may leave behind (Legacy), and the *)
(* state of the server's threads at each of its control points (SrvView).  *)
(***************************************************************************)
EXTENDS ControlSession

(* A worker that goes on has neither used up its tolerance for errors nor, *)
(* in the UDT case, served more runs than the server's own limit.           *)
Counts ==
  /\ tw \in {"loop", "serving", "reset"} => twErr < MaxErr
  /\ uw = "serving" => uwErr < MaxErr /\ uwOk <= Limit

(* What may be asked after each status: Session's order, narrowed by -t and  *)
(* by what the database holds.                                              *)
Follow(s, r) ==
  \/ s = "CTRL_CHAN_EST"    /\ r = "TWOWAY_HANDSHAKE"
  \/ s = "TWOWAY_HANDSHAKE" /\ r \in {"RUN_M2M_DB", "RUN_D2D_DB", "CLIENT_TERMINATE"}
  \/ s = "RUN_M2M_DB"       /\ r = "PROGRAM_DONE"
  \/ s = "RUN_M2M_DB"       /\ r = IF cudt /\ hit THEN "RUN_M2M_UDT" ELSE "RUN_M2M_TCP"
  \/ s = "RUN_M2M_TCP"      /\ r = "RUN_M2M_UDT"
  \/ s = "RUN_D2D_DB"       /\ r = "RUN_D2D_TCP"
  \/ s = "RUN_D2D_TCP"      /\ r = "RUN_D2D_UDT"
  \/ s \in {"RUN_M2M_UDT", "RUN_D2D_UDT"} /\ r = "PROGRAM_DONE"

(* The server's control points: working on a status; right after its echo;  *)
(* and when the next request can reach it.                                  *)
Busy == {"proc", "tcpEcho", "cancelJoin", "udtEcho", "joinUdt", "joinTcp", "doneEcho"}

AfterEcho(s) ==
  IF s = "TWOWAY_HANDSHAKE" THEN {"exch"}
  ELSE IF s = "RUN_M2M_UDT" THEN {"udtStart", "poll"}
  ELSE IF s = "PROGRAM_DONE" THEN {"cleanup"}
  ELSE {"poll"}

Rest(s) == IF s = "RUN_M2M_UDT" THEN {"udtStart", "poll"} ELSE {"poll"}

Quiet == c2s = <<>> /\ s2c = <<>>

Early == {"PROGRAM_START", "CTRL_CHAN_EST"}

Agreed == sudt = cudt /\ sbuf = Lower(hostMax["c"], hostMax["s"]) /\ cbuf = sbuf

(* The client has asked r after acting on its status, and the server has not *)
(* read it; is working on it; has answered.                                 *)
Asked(r) == /\ sst = cst /\ spc \in Rest(cst) /\ c2s = <<Byte(r)>> /\ s2c = <<>>
            /\ cst # "CTRL_CHAN_EST" => Agreed
Served(r) == sst = r /\ spc \in Busy /\ Quiet
Answered(r) == sst = r /\ spc \in AfterEcho(r) /\ c2s = <<>> /\ s2c = <<Byte(r)>>

CliConnecting ==
  /\ cpc = "connect" =>
       ~conn /\ spc \in {"start", "accept"} /\ sst = "PROGRAM_START" /\ Quiet
  /\ cpc = "id" =>
       conn /\ spc \in {"accept", "id"} /\ sst = "PROGRAM_START" /\ Quiet
  /\ cpc = "addr" =>
       \/ /\ spc \in {"accept", "id"} /\ sst = "PROGRAM_START"
          /\ c2s = <<Id>> /\ s2c = <<>>
       \/ spc = "est" /\ sst = "PROGRAM_START" /\ c2s = <<>> /\ s2c = <<Addr>>
       \/ /\ spc = "poll" /\ sst = "CTRL_CHAN_EST"
          /\ c2s = <<>> /\ s2c = <<Addr, Byte("CTRL_CHAN_EST")>>
  /\ cpc = "poll" /\ cst = "PROGRAM_START" =>
       (spc = "est" /\ sst = "PROGRAM_START" /\ Quiet) \/ Answered("CTRL_CHAN_EST")

CliWaiting ==
  cpc = "poll" /\ cst # "PROGRAM_START" =>
    \E r \in Requests \ {"CLIENT_TERMINATE"} :
      Follow(cst, r) /\ (Asked(r) \/ Served(r) \/ Answered(r))

CliActing ==
  /\ cpc = "proc" => /\ sst = cst /\ spc \in AfterEcho(cst) /\ Quiet
                     /\ cst \in Requests \cup {"CTRL_CHAN_EST"}
                     /\ cst # "CLIENT_TERMINATE"
  /\ cpc = "tcp" => cst = "RUN_M2M_TCP" /\ sst = cst /\ spc = "poll" /\ Quiet
  /\ cpc = "udt" => cst = "RUN_M2M_UDT" /\ sst = cst /\ spc \in Rest(cst) /\ Quiet
  /\ cpc = "exch" =>
       /\ cst = "TWOWAY_HANDSHAKE" /\ sst = cst
       /\ \/ spc = "exch" /\ c2s = <<Ctrl(cudt, cbuf)>> /\ s2c = <<>>
          \/ /\ spc = "poll" /\ c2s = <<>> /\ s2c = <<Ctrl(cudt, sbuf)>>
             /\ sudt = cudt /\ sbuf = Lower(hostMax["c"], hostMax["s"])

(* What a client that has left may have left in the stream. *)
Legacy ==
  \/ c2s = <<>>
  \/ spc \in {"accept", "id"} /\ sst = "PROGRAM_START" /\ c2s = <<Id>>
  \/ /\ spc = "exch" /\ sst = "TWOWAY_HANDSHAKE" /\ c2s = <<Ctrl(cudt, cbuf)>>
     /\ cst = sst
  \/ /\ sst = cst /\ spc \in Rest(cst)
     /\ \E r \in Requests : Follow(cst, r) /\ c2s = <<Byte(r)>>
     /\ cst # "CTRL_CHAN_EST" => Agreed

CliView ==
  ~SrvGone => IF CliGone THEN Legacy ELSE CliConnecting /\ CliWaiting /\ CliActing

(* The limits before the exchange, and where the client starts. *)
Unexchanged ==
  /\ cpc \in {"connect", "id", "addr"} => cst = "PROGRAM_START"
  /\ ~SrvGone =>
       /\ cst \in Early \/ (cst = "TWOWAY_HANDSHAKE" /\ cpc \in {"proc", "exch"})
            => cbuf = hostMax["c"]
       /\ sst \in Early \/ (sst = "TWOWAY_HANDSHAKE" /\ spc \in {"proc", "exch"})
            => sbuf = hostMax["s"]

(* The server's threads at each of its control points. *)
NoWorkers == tw = "none" /\ uw = "none"

SrvView ==
  ~SrvGone =>
    /\ sst \in Requests \cup Early
    /\ spc \in {"start", "accept", "id", "est"} <=> sst = "PROGRAM_START"
    /\ spc = "exch" => sst = "TWOWAY_HANDSHAKE"
    /\ sst \in Requests \ {"TWOWAY_HANDSHAKE"} => Agreed
    /\ sst \notin {"RUN_M2M_TCP", "RUN_M2M_UDT", "PROGRAM_DONE"} => NoWorkers
    /\ sst = "RUN_M2M_TCP" =>
         /\ sudt => Imposed
         /\ uw = "none" /\ tw # "joined"
         /\ spc = "proc" \/ (spc \in {"tcpEcho", "poll"} /\ tw # "none")
         /\ spc = "proc" => tw = "none"
    /\ sst = "RUN_M2M_UDT" =>
         /\ spc \in {"proc", "cancelJoin", "udtEcho", "udtStart", "poll"}
         /\ spc \in {"proc", "cancelJoin"} =>
              /\ uw = "none"
              /\ IF sudt /\ hit THEN tw = "none" ELSE tw \notin {"none", "joined"}
         /\ spc \in {"udtEcho", "udtStart"} => uw = "none"
         /\ spc \in {"udtEcho", "udtStart", "poll"} =>
              IF Imposed THEN tw \notin {"none", "joined"} ELSE tw \in {"none", "joined"}
         /\ spc = "cancelJoin" => ~sudt
    /\ sst = "PROGRAM_DONE" =>
         /\ spc \in {"proc", "joinUdt", "joinTcp", "doneEcho", "cleanup"}
         /\ ~Imposed => tw \in {"none", "joined"}
         /\ spc \in {"doneEcho", "cleanup"} => tw \in {"none", "joined"}
         /\ spc \in {"joinTcp", "doneEcho", "cleanup"} => uw \in {"none", "joined"}
    /\ spc \in {"cancelJoin", "udtEcho", "udtStart"} => sst = "RUN_M2M_UDT"
    /\ spc = "tcpEcho" => sst = "RUN_M2M_TCP"
    /\ spc \in {"joinUdt", "joinTcp", "doneEcho"} => sst = "PROGRAM_DONE"
    /\ spc = "cleanup" => sst \in {"PROGRAM_DONE", "CLIENT_TERMINATE"}

(* What the client can still read, whether or not the server lives: while it *)
(* polls, no more than the answer to what it asked.                          *)
Expected(r) == IF cst = "PROGRAM_START" THEN r = "CTRL_CHAN_EST" ELSE Follow(cst, r)

CliInbox ==
  /\ cpc \in {"connect", "id", "proc", "tcp", "udt"} => s2c = <<>>
  /\ cpc = "addr" =>
       s2c \in {<<>>, <<Addr>>, <<Addr, Byte("CTRL_CHAN_EST")>>}
  /\ cpc = "poll" => s2c = <<>> \/ \E r \in Status : Expected(r) /\ s2c = <<Byte(r)>>
  /\ cpc = "exch" => s2c = <<>> \/ \E m \in CtrlMsgs : s2c = <<m>>

(* The answer to PROGRAM_DONE is sent after the joins, and nothing starts a *)
(* thread afterwards.                                                       *)
AllJoined == tw \in {"none", "joined"} /\ uw \in {"none", "joined"}

WrappedUp == AllJoined /\ (SrvGone \/ (sst = "PROGRAM_DONE" /\ spc = "cleanup"))

DoneAnswered ==
  \/ cpc = "ended"
  \/ ~CliGone /\ (cst = "PROGRAM_DONE" \/ s2c = <<Byte("PROGRAM_DONE")>>)
  => WrappedUp

IInv ==
  /\ CliView
  /\ CliInbox
  /\ Unexchanged
  /\ SrvView
  /\ DoneAnswered
  /\ ProfilersExclusive
  /\ UdtOnlySkipsTcp

=============================================================================
