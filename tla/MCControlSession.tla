-------------------------- MODULE MCControlSession --------------------------
(* Instances of ControlSession for TLC. *)
EXTENDS ControlSessionInv

(* Every combination of -t and a match in the database; every one but -t    *)
(* without a match; and that one.                                           *)
AnyScenario == [udt: BOOLEAN, hit: BOOLEAN]
UdtNoMatch  == {[udt |-> TRUE, hit |-> FALSE]}
Supported   == AnyScenario \ UdtNoMatch
=============================================================================
