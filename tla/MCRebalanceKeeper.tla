------------------------- MODULE MCRebalanceKeeper -------------------------
(***************************************************************************)
(* An instance of RebalanceKeeper for TLC: the strategy of                 *)
(* MCLeverageStrategy, and custom bounds that contain the strategy's, or   *)
(* that it refuses.                                                        *)
(***************************************************************************)
EXTENDS MCLeverageStrategy, RebalanceKeeper

\* Periods short by one, so that ages up to 2 tell them apart.
ShortMethodology == [MCMethodology EXCEPT !.rebalanceInterval = 1]
ShortCooldown == {[MCExecution EXCEPT !.twapCooldownPeriod = 0]}

\* What the operator submits where it intervenes: a tighter and higher target
\* range, an invalid range above the ripcord threshold, an exchange without a
\* trade size.
ManyMethodologies ==
  {ShortMethodology,
   [ShortMethodology EXCEPT !.minLeverageRatio = 210, !.targetLeverageRatio = 220],
   [ShortMethodology EXCEPT !.maxLeverageRatio = 280]}
ManyExchangeSizes == {MCExchange, NoExchange}

ManyLeverageSettings ==
  {[customMinLeverageRatio |-> 150, customMaxLeverageRatio |-> 250],
   [customMinLeverageRatio |-> 190, customMaxLeverageRatio |-> 210]}

=============================================================================
