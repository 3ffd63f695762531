--------------------------- MODULE MCUdtProfiling ---------------------------
(* Instances of UdtProfiling for TLC. *)
EXTENDS UdtProfiling

MeasuredSet == 0..2
LimitSet    == 2..5
ServerSet   == 2..6
=============================================================================
