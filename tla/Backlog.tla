------------------------------ MODULE Backlog ------------------------------
(***************************************************************************)
(* The clients that come while a session is being served.  The server      *)
(* calls accept once and never again, so that the branch that would turn a *)
(* second client away ("server is busy") is never reached.  Such a client  *)
(* does what probdata_client_connect does, one read after the other: its   *)
(* connect and its ID packet need no doing of the server's, its read of    *)
(* its own address does, and has no timeout.                               *)
(*                                                                         *)
(* Whether connect succeeds is the kernel's business (how many it queues    *)
(* is not modelled: any number of Others may get through or be refused).   *)
(* ControlSession's client is the one that is accepted, which is the first *)
(* to connect; the others come after it.                                   *)
(***************************************************************************)
EXTENDS ControlSessionInv

CONSTANT Others   \* the processes that run probdata against the same server

VARIABLE other   \* of each: "away", "waiting" in recv, or "gone"

both == <<vars, other>>

BacklogInit == Init /\ other = [o \in Others |-> "away"]

Becomes(o, from, to) ==
  /\ other[o] = from /\ other' = [other EXCEPT ![o] = to] /\ UNCHANGED vars

(* The client is connected, has sent its ID and goes on to read the length   *)
(* of its address.                                                         *)
OtherConnect(o) == conn /\ ~SrvGone /\ Becomes(o, "away", "waiting")

(* connect fails, which ends the client. *)
OtherRefused(o) == (conn \/ SrvGone) /\ Becomes(o, "away", "gone")

(* The server's end closes what it never accepted; recv fails.              *)
OtherReset(o) == SrvGone /\ Becomes(o, "waiting", "gone")

OtherKilled(o) == CanKill /\ Becomes(o, "waiting", "gone")

SessionStep == Next /\ UNCHANGED other

OtherStep == \E o \in Others :
  OtherConnect(o) \/ OtherRefused(o) \/ OtherReset(o) \/ OtherKilled(o)

BacklogSpec == BacklogInit /\ [][SessionStep \/ OtherStep]_both

(* The fairness of a session, and the kernel's: a connection whose server is *)
(* gone is reset.  Nobody is made to connect.                              *)
FairBacklogSpec ==
  /\ BacklogSpec /\ Fairness
  /\ \A o \in Others : WF_both(OtherReset(o))

-----------------------------------------------------------------------------
(* Properties *)

(* Although nothing ever answers it, a client that waits behind a session   *)
(* does not wait forever: the session ends, the server with it, and the    *)
(* client is let go.                                                       *)
OthersReleased ==
  \A o \in Others : other[o] = "waiting" /\ ~Imposed ~> other[o] = "gone"

=============================================================================
