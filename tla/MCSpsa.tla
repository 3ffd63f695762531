------------------------------- MODULE MCSpsa -------------------------------
(* Instances of Spsa for TLC. *)
EXTENDS Spsa

IntLeast     == -33
HostSet      == {3, 20, 40}
BandwidthSet == {-1, 4}
GivenSet     == {-1, 2}
SampleSet    == {-1, 1, 2, 5}
MeasuredSet  == 0..2
StepSet      == {-1, 0, 4}
=============================================================================
