------------------------------- MODULE Session -------------------------------
(***************************************************************************)
(* What a ProbData session promises on its control channel, whatever the   *)
(* threads behind it do: a conversation.  The server greets; from then on  *)
(* the client asks for one stage at a time, in one of the orders below,    *)
(* nothing else is asked before the answer, and the answer to a request is *)
(* that request.  The conversation can be cut short at any point.          *)
(***************************************************************************)

CONSTANTS Status, None, Closed

VARIABLES stage,    \* the last answer the client has acted on
          pending   \* the request that awaits its answer, or None

vars == <<stage, pending>>

(* probdata_client_proc_ctrl_packet: what may be asked after each answer.   *)
MayAsk(s, r) ==
  \/ s = "CTRL_CHAN_EST"    /\ r = "TWOWAY_HANDSHAKE"
  \/ s = "TWOWAY_HANDSHAKE" /\ r \in {"RUN_M2M_DB", "RUN_D2D_DB", "CLIENT_TERMINATE"}
  \/ s = "RUN_M2M_DB"       /\ r \in {"RUN_M2M_TCP", "RUN_M2M_UDT", "PROGRAM_DONE"}
  \/ s = "RUN_M2M_TCP"      /\ r = "RUN_M2M_UDT"
  \/ s = "RUN_D2D_DB"       /\ r = "RUN_D2D_TCP"
  \/ s = "RUN_D2D_TCP"      /\ r = "RUN_D2D_UDT"
  \/ s \in {"RUN_M2M_UDT", "RUN_D2D_UDT"} /\ r = "PROGRAM_DONE"

Init == stage = "PROGRAM_START" /\ pending = None

Greet == /\ stage = "PROGRAM_START" /\ stage' = "CTRL_CHAN_EST"
         /\ UNCHANGED pending

Ask(r) == /\ pending = None /\ MayAsk(stage, r) /\ pending' = r
          /\ UNCHANGED stage

Answer == /\ pending # None /\ stage' = pending /\ pending' = None

Close == stage' = Closed /\ pending' = None

Next == Greet \/ (\E r \in Status : Ask(r)) \/ Answer \/ Close

Spec == Init /\ [][Next]_vars
=============================================================================
