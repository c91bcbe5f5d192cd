-------------------------- MODULE MCLeveragedSet --------------------------
(***************************************************************************)
(* Instances of LeveragedSet for TLC.  A SetToken is PRECISE_UNIT = 10 wei *)
(* and starts with 2.5 wei of collateral per wei.                          *)
(***************************************************************************)
EXTENDS LeveragedSet

MCMarket == [assets |-> 7, shares |-> 60]
AtOraclePrice == {0}
AroundOraclePrice == {-1, 3}

=============================================================================
