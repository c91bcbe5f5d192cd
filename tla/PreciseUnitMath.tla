-------------------------- MODULE PreciseUnitMath --------------------------
(***************************************************************************)
(* The fixed-point arithmetic every contract of the system computes with   *)
(* (index-protocol/contracts/lib/PreciseUnitMath.sol).  A ratio or a       *)
(* per-token unit is a natural number scaled by PRECISE_UNIT, which is     *)
(* 10^18 in the code and a parameter here: none of the properties depends  *)
(* on its value, only on the direction in which each operation rounds.     *)
(*                                                                         *)
(* SafeMath makes a division by zero and a subtraction below zero revert.  *)
(* A caller here guards the operation instead, so that a revert is a       *)
(* disabled action.                                                        *)
(***************************************************************************)
EXTENDS Integers

CONSTANT PRECISE_UNIT

ASSUME PreciseUnitAssumption == PRECISE_UNIT \in Nat \ {0}

preciseMul(a, b) == (a * b) \div PRECISE_UNIT

preciseMulCeil(a, b) ==
  IF a = 0 \/ b = 0 THEN 0 ELSE (a * b - 1) \div PRECISE_UNIT + 1

preciseDiv(a, b) == (a * PRECISE_UNIT) \div b

preciseDivCeil(a, b) ==
  IF a = 0 THEN 0 ELSE (a * PRECISE_UNIT - 1) \div b + 1

=============================================================================
