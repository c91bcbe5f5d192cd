------------------------ MODULE MCLeverageStrategy ------------------------
(***************************************************************************)
(* Instances of LeverageStrategy for TLC: ratios and prices in hundredths, *)
(* a target of 2x within [1.7x, 2.3x] and a ripcord at 2.6x.               *)
(***************************************************************************)
EXTENDS LeverageStrategy, TLC

MCMethodology ==
  [targetLeverageRatio |-> 200, minLeverageRatio |-> 170,
   maxLeverageRatio |-> 230, recenteringSpeed |-> 50, rebalanceInterval |-> 2]

MCExecution ==
  [unutilizedLeveragePercentage |-> 5, slippageTolerance |-> 2,
   twapCooldownPeriod |-> 1]

MCIncentive ==
  [etherReward |-> 1, incentivizedLeverageRatio |-> 260,
   incentivizedSlippageTolerance |-> 5, incentivizedTwapCooldownPeriod |-> 0]

MCExchange == [twapMaxTradeSize |-> 4000, incentivizedTwapMaxTradeSize |-> 6000]

Methodologies == {MCMethodology}
Executions == {MCExecution}
Incentives == {MCIncentive}
ExchangeSizes == {MCExchange}

\* The second one takes no ripcord trades.
TwoExchangeSizes ==
  {MCExchange, [twapMaxTradeSize |-> 3000, incentivizedTwapMaxTradeSize |-> 0]}

\* The constructor's timestamps: in the future, or zero.
TwoInitialAges == {-1, AgeCap}

ExchangeSymmetry == Permutations(Exchanges)

=============================================================================
