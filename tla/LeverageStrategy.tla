-------------------------- MODULE LeverageStrategy --------------------------
(***************************************************************************)
(* The leverage strategy of one SetToken: the state machine of             *)
(* MorphoLeverageStrategyExtension (MLSE) together with what its calls do, *)
(* through MorphoLeverageModule (MLM), to the SetToken's position on       *)
(* Morpho.                                                                 *)
(*                                                                         *)
(* A transaction is one action; a revert is a disabled action.  Callers    *)
(* are left out: an action of the operator, of an allowed keeper or of     *)
(* anyone (ripcord) may be taken whenever its guards allow it.             *)
(*                                                                         *)
(* Timestamps are kept as ages, the time since the last trade (the only    *)
(* thing the code computes from them), and stop counting at AgeCap, past   *)
(* every period the settings name.  A timestamp of zero, "never traded",   *)
(* is the age AgeCap; one in the future, which only the constructor can be *)
(* given, is a negative age.                                               *)
(*                                                                         *)
(* The array of enabled exchanges is the number of times each name is      *)
(* listed: its order is only that of getters' results.                     *)
(***************************************************************************)
EXTENDS PreciseUnitMath, FiniteSets

CONSTANTS
  PRICE_SCALE,            \* MORPHO_ORACLE_PRICE_SCALE
  Lltv,                   \* liquidation loan-to-value of the Morpho market
  Supply,                 \* setToken.totalSupply()
  ProtocolFee,            \* MLM's protocol trade fee
  Exchanges,              \* exchange names
  Prices,                 \* prices the oracle may report
  InitialPrices,          \* prices at deployment
  MaxPriceMove,           \* how far the price moves at once, a precise unit ratio
  InterestRate,           \* borrow interest per market move
  PriceImprovement,       \* how much better than the oracle a DEX may fill
  Fills,                  \* where between the two a DEX fills, precise unit ratios
  InitialCollateral,      \* collateral tokens in the SetToken before engage()
  Donations,              \* amounts of collateral sent to the SetToken
  MethodologyChoices, ExecutionChoices, IncentiveChoices, ExchangeChoices,
                          \* settings the operator may submit, valid or not
  MaxListings,            \* bound on how often the constructor lists a name
  InitialAges,            \* ages the constructor's exchange timestamps may have
  AgeCap,                 \* bound on ages
  MaxEvents,              \* bound on market moves, donations and operator calls
  EtherAmounts,           \* amounts of ether sent to the extension
  MaxEther,               \* bound on the extension's ether
  RatioTolerance,         \* rounding of a leverage ratio, in the properties
  OperatorIntervenes,     \* does the operator act after deployment?
  PromptKeeper            \* does the market wait for the keeper?

VARIABLES
  price,                  \* what the Morpho oracle reports
  loose,                  \* collateral tokens held by the SetToken itself
  collateral,             \* collateral on Morpho
  borrow,                 \* debt on Morpho, interest included
  loanEquity,             \* loan tokens left in the SetToken by disengage()
  methodology, execution, incentive,
  exchangeSettings,       \* exchange name -> trade sizes
  enabledExchanges,       \* exchange name -> how often the array lists it
  enabledAtDeployment,    \* history: the array the constructor left
  twapLeverageRatio,      \* target of the TWAP under way, 0 if none
  globalAge,              \* block.timestamp - globalLastTradeTimestamp
  exchangeAge,            \* block.timestamp - exchangeLastTradeTimestamp
  traded,                 \* history: the exchanges a trade was recorded for
  overrideNoRebalanceInProgress,
  overrideUsed,           \* history: has the operator ever set the override?
  etherBalance,
  events                  \* market moves, donations and operator calls so far

position == <<loose, collateral, borrow, loanEquity>>
settings == <<methodology, execution, incentive>>
exchanges == <<exchangeSettings, enabledExchanges, enabledAtDeployment>>
ages == <<globalAge, exchangeAge, traded>>
flags == <<overrideNoRebalanceInProgress, overrideUsed>>
market == <<price, events>>
vars == <<price, loose, collateral, borrow, loanEquity, methodology, execution,
          incentive, exchangeSettings, enabledExchanges, enabledAtDeployment,
          twapLeverageRatio, globalAge, exchangeAge, traded,
          overrideNoRebalanceInProgress, overrideUsed, etherBalance, events>>

(***************************************************************************)
(* Settings.                                                               *)
(***************************************************************************)
MethodologySettings ==
  [targetLeverageRatio : Nat, minLeverageRatio : Nat, maxLeverageRatio : Nat,
   recenteringSpeed : Nat, rebalanceInterval : 0 .. AgeCap - 1]
ExecutionSettings ==
  [unutilizedLeveragePercentage : Nat, slippageTolerance : Nat,
   twapCooldownPeriod : 0 .. AgeCap - 1]
IncentiveSettings ==
  [etherReward : Nat, incentivizedLeverageRatio : Nat,
   incentivizedSlippageTolerance : Nat,
   incentivizedTwapCooldownPeriod : 0 .. AgeCap - 1]
ExchangeSettings == [twapMaxTradeSize : Nat, incentivizedTwapMaxTradeSize : Nat]

NoExchange == [twapMaxTradeSize |-> 0, incentivizedTwapMaxTradeSize |-> 0]

validateNonExchangeSettings(m, x, i) ==
  /\ m.minLeverageRatio <= m.targetLeverageRatio /\ m.minLeverageRatio > 0
  /\ m.maxLeverageRatio >= m.targetLeverageRatio
  /\ m.recenteringSpeed <= PRECISE_UNIT /\ m.recenteringSpeed > 0
  /\ m.targetLeverageRatio >= PRECISE_UNIT
  /\ x.unutilizedLeveragePercentage <= PRECISE_UNIT
  /\ x.slippageTolerance <= PRECISE_UNIT
  /\ i.incentivizedSlippageTolerance <= PRECISE_UNIT
  /\ i.incentivizedLeverageRatio >= m.maxLeverageRatio
  /\ m.rebalanceInterval >= x.twapCooldownPeriod
  /\ x.twapCooldownPeriod >= i.incentivizedTwapCooldownPeriod

validateExchangeSettings(s) == s.twapMaxTradeSize # 0

Ages == {age \in Int : age <= AgeCap}

ASSUME ConstantsAssumption ==
  /\ PRICE_SCALE \in Nat \ {0} /\ Lltv \in Nat /\ Supply \in Nat \ {0}
  /\ ProtocolFee \in 0 .. PRECISE_UNIT
  /\ Prices \subseteq Nat \ {0} /\ InitialPrices \subseteq Prices
  /\ MaxPriceMove \in Nat /\ InterestRate \in Nat /\ PriceImprovement \in Nat
  /\ Fills \subseteq 0 .. PRECISE_UNIT /\ InitialCollateral \in Nat \ {0}
  /\ MaxListings \in Nat /\ InitialAges \subseteq Ages
  /\ AgeCap \in Nat \ {0} /\ MaxEvents \in Nat /\ MaxEther \in Nat
  /\ EtherAmounts \subseteq Nat \ {0} /\ Donations \subseteq Nat \ {0}
  /\ RatioTolerance \in Nat
  /\ OperatorIntervenes \in BOOLEAN /\ PromptKeeper \in BOOLEAN

ASSUME ChoicesAssumption ==
  /\ MethodologyChoices \subseteq MethodologySettings
  /\ ExecutionChoices \subseteq ExecutionSettings
  /\ IncentiveChoices \subseteq IncentiveSettings
  /\ ExchangeChoices \subseteq ExchangeSettings

(***************************************************************************)
(* What the strategy computes from the position.  c is the collateral on   *)
(* Morpho: engage() computes with what it has just deposited.              *)
(***************************************************************************)
collateralValue(c) == (price * c) \div PRICE_SCALE

\* currentLeverageRatio is defined only while the collateral is worth more
\* than the debt: _calculateCurrentLeverageRatio reverts otherwise.
HasLeverageRatio == collateralValue(collateral) > borrow

currentLeverageRatio ==
  preciseDiv(collateralValue(collateral), collateralValue(collateral) - borrow)

\* Mutant: the market's LLTV is forgotten.
netBorrowLimit_noLltv(c) ==
  preciseMul(collateralValue(c), PRECISE_UNIT - execution.unutilizedLeveragePercentage)

\* What Morpho lends against c.
maxBorrow(c) == preciseMul(collateralValue(c), Lltv)

netBorrowLimit(c) ==
  preciseMul(maxBorrow(c), PRECISE_UNIT - execution.unutilizedLeveragePercentage)

maxBorrowCollateral(c, isLever) ==
  IF isLever
    THEN ((netBorrowLimit(c) - borrow) * PRICE_SCALE) \div price
    ELSE preciseDiv(preciseMul(c, netBorrowLimit(c) - borrow), netBorrowLimit(c))

\* The subtraction and the division of _calculateMaxBorrowCollateral do not revert.
BorrowCapacityDefined(c, isLever) ==
  /\ netBorrowLimit(c) >= borrow
  /\ isLever \/ netBorrowLimit(c) > 0

Least(a, b) == IF a <= b THEN a ELSE b
Greatest(a, b) == IF a >= b THEN a ELSE b

newLeverageRatio(current) ==
  LET a == preciseMul(methodology.targetLeverageRatio, methodology.recenteringSpeed)
      b == preciseMul(PRECISE_UNIT - methodology.recenteringSpeed, current)
  IN  Greatest(methodology.minLeverageRatio,
               Least(a + b, methodology.maxLeverageRatio))

\* Mutant: relative to the ratio that is aimed at.
totalRebalanceNotional_ofTarget(c, current, target) ==
  LET difference == IF target >= current THEN target - current ELSE current - target
  IN  preciseMul(preciseDiv(difference, target), c)

totalRebalanceNotional(c, current, target) ==
  LET difference == IF target >= current THEN target - current ELSE current - target
  IN  preciseMul(preciseDiv(difference, current), c)

chunkRebalanceNotional(c, current, target, isLever, maxTradeSize) ==
  Least(Least(maxBorrowCollateral(c, isLever),
              totalRebalanceNotional(c, current, target)),
        maxTradeSize)

calculateBorrowUnits(units) == (units * price) \div PRICE_SCALE

calculateMinCollateralReceiveUnits(units, slippage) ==
  preciseMul(units, PRECISE_UNIT - slippage)

\* Mutant: the slippage itself instead of what is left of it.
calculateMinRepayUnits_slippage(units, slippage) ==
  preciseMul(calculateBorrowUnits(units), slippage)

calculateMinRepayUnits(units, slippage) ==
  preciseMul(calculateBorrowUnits(units), PRECISE_UNIT - slippage)

(***************************************************************************)
(* The world outside: Morpho's collateral check, which borrowing and       *)
(* withdrawing collateral must pass, and what a DEX may pay out: from the  *)
(* minimum asked for to PriceImprovement over the oracle price.            *)
(***************************************************************************)
MorphoHealthy(c, b) == b <= maxBorrow(c)

DexReceives(minimum, fair) ==
  {minimum + preciseMul(fair + PriceImprovement - minimum, fill) :
     fill \in {f \in Fills : fair + PriceImprovement >= minimum}}

afterProtocolFee(received) == received - preciseMul(ProtocolFee, received)

(***************************************************************************)
(* The three trades, through the leverage module.  lever borrows, trades   *)
(* and deposits; delever withdraws, trades and repays; the last one repays *)
(* the whole debt and keeps what is left over.  Each quantity goes through *)
(* per-token units and back, rounding twice.                               *)
(***************************************************************************)
units(chunk) == preciseDiv(chunk, Supply)

leverSend(chunk) == preciseMul(calculateBorrowUnits(units(chunk)), Supply)

lever(c, chunk, slippage) ==
  LET send == leverSend(chunk)
      minReceive ==
        preciseMul(calculateMinCollateralReceiveUnits(units(chunk), slippage), Supply)
  IN  /\ send > 0
      /\ MorphoHealthy(c, borrow + send)
      /\ \E received \in DexReceives(minReceive, (send * PRICE_SCALE) \div price) :
           /\ afterProtocolFee(received) > 0
           /\ collateral' = c + afterProtocolFee(received)
      /\ borrow' = borrow + send
      /\ UNCHANGED loanEquity

deleverSend(chunk) == preciseMul(units(chunk), Supply)

delever(chunk, slippage) ==
  LET send == deleverSend(chunk)
      minRepay ==
        preciseMul(calculateMinRepayUnits(units(chunk), slippage), Supply)
  IN  /\ send > 0
      /\ send <= collateral
      /\ MorphoHealthy(collateral - send, borrow)
      /\ \E received \in DexReceives(minRepay, collateralValue(send)) :
           /\ afterProtocolFee(received) \in 1 .. borrow
           /\ borrow' = borrow - afterProtocolFee(received)
      /\ collateral' = collateral - send
      /\ UNCHANGED loanEquity

deleverToZeroSend(total) ==
  deleverSend(preciseMul(total, PRECISE_UNIT + execution.slippageTolerance))

deleverToZeroBorrowBalance(total) ==
  LET send == deleverToZeroSend(total)
  IN  /\ send > 0
      /\ send <= collateral
      /\ MorphoHealthy(collateral - send, borrow)
      /\ \E received \in DexReceives(borrow, collateralValue(send)) :
           loanEquity' = loanEquity + received - borrow
      /\ borrow' = 0
      /\ collateral' = collateral - send

(***************************************************************************)
(* Guards shared by the calls.                                             *)
(***************************************************************************)
\* _getAndValidateLeveragedInfo
ValidLeveragedInfo(maxTradeSize) ==
  /\ maxTradeSize > 0
  /\ collateral > 0
  /\ borrow > 0
  /\ HasLeverageRatio

\* Mutant: the upper bound is not looked at.
OutsideBounds_noMax(ratio, min, max) == ratio < min

OutsideBounds(ratio, min, max) == ratio > max \/ ratio < min

\* Mutant: the cooldown is compared the wrong way round.
validateNormalRebalance_flipped(coolDown, age) ==
  /\ currentLeverageRatio < incentive.incentivizedLeverageRatio
  /\ age >= 0
  /\ \/ age < coolDown
     \/ OutsideBounds(currentLeverageRatio, methodology.minLeverageRatio,
                      methodology.maxLeverageRatio)

\* Mutant: the cooldown is one too long.
validateNormalRebalance_late(coolDown, age) ==
  /\ currentLeverageRatio < incentive.incentivizedLeverageRatio
  /\ age >= 0
  /\ \/ age > coolDown + 1
     \/ OutsideBounds(currentLeverageRatio, methodology.minLeverageRatio,
                      methodology.maxLeverageRatio)

\* block.timestamp.sub reverts for a timestamp in the future.
validateNormalRebalance(coolDown, age) ==
  /\ currentLeverageRatio < incentive.incentivizedLeverageRatio
  /\ age >= 0
  /\ \/ age > coolDown
     \/ OutsideBounds(currentLeverageRatio, methodology.minLeverageRatio,
                      methodology.maxLeverageRatio)

\* Mutant: the cooldown is compared the wrong way round.
validateRipcord_flipped(age) ==
  /\ currentLeverageRatio >= incentive.incentivizedLeverageRatio
  /\ incentive.incentivizedTwapCooldownPeriod > age

validateRipcord(age) ==
  /\ currentLeverageRatio >= incentive.incentivizedLeverageRatio
  /\ incentive.incentivizedTwapCooldownPeriod < age

validateTWAP == twapLeverageRatio > 0

\* Mutant: rebalance() may start over during a TWAP.
validateNonTWAP_skipped == TRUE

validateNonTWAP == twapLeverageRatio = 0

\* Mutant: the modifier is missing.
noRebalanceInProgress_missing == TRUE

noRebalanceInProgress == overrideNoRebalanceInProgress \/ twapLeverageRatio = 0

isAdvantageousTWAP(current) ==
  \/ /\ twapLeverageRatio < methodology.targetLeverageRatio
     /\ current >= twapLeverageRatio
  \/ /\ twapLeverageRatio > methodology.targetLeverageRatio
     /\ current <= twapLeverageRatio

(***************************************************************************)
(* State updates after a trade.                                            *)
(***************************************************************************)
\* Mutant: only the exchange's own timestamp is updated.
updateLastTradeTimestamp_exchangeOnly(e) ==
  /\ exchangeAge' = [exchangeAge EXCEPT ![e] = 0]
  /\ traded' = traded \union {e}
  /\ UNCHANGED globalAge

updateLastTradeTimestamp(e) ==
  /\ globalAge' = 0
  /\ exchangeAge' = [exchangeAge EXCEPT ![e] = 0]
  /\ traded' = traded \union {e}

updateRebalanceState(chunk, total, target, e) ==
  /\ updateLastTradeTimestamp(e)
  /\ twapLeverageRatio' = IF chunk < total THEN target ELSE twapLeverageRatio

updateIterateState(chunk, total, e) ==
  /\ updateLastTradeTimestamp(e)
  /\ twapLeverageRatio' = IF chunk = total THEN 0 ELSE twapLeverageRatio

updateRipcordState(e) ==
  /\ updateLastTradeTimestamp(e)
  /\ twapLeverageRatio' = 0

(***************************************************************************)
(* The trading calls.                                                      *)
(***************************************************************************)
\* enterCollateralPosition() deposits every loose collateral token first.
\* The exchange is not validated: an unknown one has trade size 0, and the
\* leverage module refuses the empty trade.
engage(e) ==
  LET c == collateral + loose
      target == methodology.targetLeverageRatio
      chunk == chunkRebalanceNotional(c, PRECISE_UNIT, target, TRUE,
                                      exchangeSettings[e].twapMaxTradeSize)
      total == totalRebalanceNotional(c, PRECISE_UNIT, target)
  IN  /\ loose > 0
      /\ borrow = 0
      /\ BorrowCapacityDefined(c, TRUE)
      /\ lever(c, chunk, execution.slippageTolerance)
      /\ loose' = 0
      /\ updateRebalanceState(chunk, total, target, e)
      /\ UNCHANGED <<settings, exchanges, flags, market, etherBalance>>

chunkToward(target, maxTradeSize) ==
  chunkRebalanceNotional(collateral, currentLeverageRatio, target,
                         target >= currentLeverageRatio, maxTradeSize)

totalToward(target) ==
  totalRebalanceNotional(collateral, currentLeverageRatio, target)

handleRebalance(target, maxTradeSize) ==
  LET chunk == chunkToward(target, maxTradeSize)
  IN  IF target < currentLeverageRatio
        THEN /\ BorrowCapacityDefined(collateral, FALSE)
             /\ delever(chunk, execution.slippageTolerance)
        ELSE /\ BorrowCapacityDefined(collateral, TRUE)
             /\ lever(collateral, chunk, execution.slippageTolerance)

rebalance(e) ==
  LET maxTradeSize == exchangeSettings[e].twapMaxTradeSize
      target == newLeverageRatio(currentLeverageRatio)
  IN  /\ ValidLeveragedInfo(maxTradeSize)
      /\ validateNormalRebalance(methodology.rebalanceInterval, globalAge)
      /\ validateNonTWAP
      /\ handleRebalance(target, maxTradeSize)
      /\ updateRebalanceState(chunkToward(target, maxTradeSize),
                              totalToward(target), target, e)
      /\ UNCHANGED <<loose, settings, exchanges, flags, market, etherBalance>>

iterateRebalance(e) ==
  LET maxTradeSize == exchangeSettings[e].twapMaxTradeSize
  IN  /\ ValidLeveragedInfo(maxTradeSize)
      /\ validateNormalRebalance(execution.twapCooldownPeriod, exchangeAge[e])
      /\ validateTWAP
      /\ IF isAdvantageousTWAP(currentLeverageRatio)
           THEN /\ updateIterateState(0, 0, e)
                /\ UNCHANGED <<collateral, borrow, loanEquity>>
           ELSE /\ handleRebalance(twapLeverageRatio, maxTradeSize)
                /\ updateIterateState(chunkToward(twapLeverageRatio, maxTradeSize),
                                      totalToward(twapLeverageRatio), e)
      /\ UNCHANGED <<loose, settings, exchanges, flags, market, etherBalance>>

\* Mutant: the reward is paid whatever the balance.
etherReward_uncapped == incentive.etherReward

etherReward == Least(incentive.etherReward, etherBalance)

ripcord(e) ==
  LET maxTradeSize == exchangeSettings[e].incentivizedTwapMaxTradeSize
  IN  /\ ValidLeveragedInfo(maxTradeSize)
      /\ validateRipcord(exchangeAge[e])
      /\ BorrowCapacityDefined(collateral, FALSE)
      /\ delever(chunkRebalanceNotional(collateral, currentLeverageRatio,
                   methodology.maxLeverageRatio, FALSE, maxTradeSize),
                 incentive.incentivizedSlippageTolerance)
      /\ updateRipcordState(e)
      /\ etherBalance' = etherBalance - etherReward
      /\ UNCHANGED <<loose, settings, exchanges, flags, market>>

\* Neither the TWAP nor the timestamps are touched.
disengage(e) ==
  LET maxTradeSize == exchangeSettings[e].twapMaxTradeSize
      total == totalToward(PRECISE_UNIT)
      chunk == chunkRebalanceNotional(collateral, currentLeverageRatio,
                                      PRECISE_UNIT, FALSE, maxTradeSize)
  IN  /\ ValidLeveragedInfo(maxTradeSize)
      /\ BorrowCapacityDefined(collateral, FALSE)
      /\ IF total > chunk
           THEN delever(chunk, execution.slippageTolerance)
           ELSE deleverToZeroBorrowBalance(total)
      /\ UNCHANGED <<loose, settings, exchanges, twapLeverageRatio, ages, flags,
                     price, etherBalance>>

(***************************************************************************)
(* The operator's settings.                                                *)
(***************************************************************************)
setMethodologySettings(m) ==
  /\ noRebalanceInProgress
  /\ validateNonExchangeSettings(m, execution, incentive)
  /\ methodology' = m
  /\ UNCHANGED <<execution, incentive, position, exchanges, twapLeverageRatio,
                 ages, flags, price, etherBalance>>

setExecutionSettings(x) ==
  /\ noRebalanceInProgress
  /\ validateNonExchangeSettings(methodology, x, incentive)
  /\ execution' = x
  /\ UNCHANGED <<methodology, incentive, position, exchanges, twapLeverageRatio,
                 ages, flags, price, etherBalance>>

setIncentiveSettings(i) ==
  /\ noRebalanceInProgress
  /\ validateNonExchangeSettings(methodology, execution, i)
  /\ incentive' = i
  /\ UNCHANGED <<methodology, execution, position, exchanges, twapLeverageRatio,
                 ages, flags, price, etherBalance>>

setOverrideNoRebalanceInProgress(status) ==
  /\ overrideNoRebalanceInProgress' = status
  /\ overrideUsed' = (overrideUsed \/ status)
  /\ UNCHANGED <<position, settings, exchanges, twapLeverageRatio, ages, price,
                 etherBalance>>

\* The names in the array.
Listed == {e \in Exchanges : enabledExchanges[e] > 0}

\* Mutant: "Exchange already enabled" is not required.
addEnabledExchange_again(e, s) ==
  /\ validateExchangeSettings(s)
  /\ exchangeSettings' = [exchangeSettings EXCEPT ![e] = s]
  /\ exchangeAge' = [exchangeAge EXCEPT ![e] = AgeCap]
  /\ enabledExchanges' = [enabledExchanges EXCEPT ![e] = @ + 1]
  /\ UNCHANGED <<position, settings, enabledAtDeployment, twapLeverageRatio,
                 globalAge, traded, flags, price, etherBalance>>

addEnabledExchange(e, s) ==
  /\ exchangeSettings[e].twapMaxTradeSize = 0
  /\ validateExchangeSettings(s)
  /\ exchangeSettings' = [exchangeSettings EXCEPT ![e] = s]
  /\ exchangeAge' = [exchangeAge EXCEPT ![e] = AgeCap]
  /\ enabledExchanges' = [enabledExchanges EXCEPT ![e] = @ + 1]
  /\ UNCHANGED <<position, settings, enabledAtDeployment, twapLeverageRatio,
                 globalAge, traded, flags, price, etherBalance>>

\* enabledExchanges.removeStorage removes the first occurrence of the name, and
\* reverts if there is none.
removeEnabledExchange(e) ==
  /\ exchangeSettings[e].twapMaxTradeSize # 0
  /\ e \in Listed
  /\ exchangeSettings' = [exchangeSettings EXCEPT ![e] = NoExchange]
  /\ exchangeAge' = [exchangeAge EXCEPT ![e] = AgeCap]
  /\ enabledExchanges' = [enabledExchanges EXCEPT ![e] = @ - 1]
  /\ UNCHANGED <<position, settings, enabledAtDeployment, twapLeverageRatio,
                 globalAge, traded, flags, price, etherBalance>>

updateEnabledExchange(e, s) ==
  /\ exchangeSettings[e].twapMaxTradeSize # 0
  /\ validateExchangeSettings(s)
  /\ exchangeSettings' = [exchangeSettings EXCEPT ![e] = s]
  /\ UNCHANGED <<position, settings, enabledExchanges, enabledAtDeployment,
                 twapLeverageRatio, ages, flags, price, etherBalance>>

withdrawEtherBalance ==
  /\ noRebalanceInProgress
  /\ etherBalance' = 0
  /\ UNCHANGED <<position, settings, exchanges, twapLeverageRatio, ages, flags,
                 price>>

receive(amount) ==
  /\ etherBalance + amount <= MaxEther
  /\ etherBalance' = etherBalance + amount
  /\ UNCHANGED <<position, settings, exchanges, twapLeverageRatio, ages, flags,
                 market>>

(***************************************************************************)
(* What the strategy tells its keepers.                                    *)
(***************************************************************************)
\* Which call exchange e should be used for, given custom leverage bounds.
shouldRebalanceEnum(e, min, max) ==
  IF currentLeverageRatio >= incentive.incentivizedLeverageRatio
    THEN IF incentive.incentivizedTwapCooldownPeriod < exchangeAge[e]
           THEN "RIPCORD" ELSE "NONE"
  ELSE IF twapLeverageRatio > 0
    THEN IF execution.twapCooldownPeriod < exchangeAge[e]
           THEN "ITERATE_REBALANCE" ELSE "NONE"
  ELSE IF \/ globalAge > methodology.rebalanceInterval
          \/ OutsideBounds(currentLeverageRatio, min, max)
         THEN "REBALANCE" ELSE "NONE"

\* shouldRebalance() reverts when the leverage ratio is undefined.
shouldRebalance ==
  [e \in Listed |->
     IF HasLeverageRatio
       THEN shouldRebalanceEnum(e, methodology.minLeverageRatio,
                                methodology.maxLeverageRatio)
       ELSE "NONE"]

\* The collateral size getChunkRebalanceNotional computes before it is
\* expressed in the asset that is sold.  Ripcord sizes only strictly above
\* the incentivized ratio.
getChunkRebalanceNotional(e) ==
  LET current == currentLeverageRatio
      isRipcord == current > incentive.incentivizedLeverageRatio
      target == IF isRipcord THEN methodology.maxLeverageRatio
                ELSE IF twapLeverageRatio > 0 THEN twapLeverageRatio
                ELSE newLeverageRatio(current)
      maxTradeSize == IF isRipcord
                        THEN exchangeSettings[e].incentivizedTwapMaxTradeSize
                        ELSE exchangeSettings[e].twapMaxTradeSize
  IN  chunkRebalanceNotional(collateral, current, target, target > current,
                             maxTradeSize)

\* A keeper that reads shouldRebalance and at once makes the call it names.
\* RebalanceKeeper has the keeper whose call may come late.
promptUpkeep(e) ==
  /\ e \in Listed
  /\ \/ shouldRebalance[e] = "REBALANCE" /\ rebalance(e)
     \/ shouldRebalance[e] = "ITERATE_REBALANCE" /\ iterateRebalance(e)
     \/ shouldRebalance[e] = "RIPCORD" /\ ripcord(e)

(***************************************************************************)
(* The environment: time, the market and token transfers.                  *)
(***************************************************************************)
\* What is counted against MaxEvents.
Event == events < MaxEvents /\ events' = events + 1

Older(age) == Least(age + 1, AgeCap)

TimePasses ==
  /\ globalAge' = Older(globalAge)
  /\ exchangeAge' = [e \in Exchanges |-> Older(exchangeAge[e])]
  /\ UNCHANGED traded

NewBlock ==
  /\ TimePasses
  /\ UNCHANGED <<position, settings, exchanges, twapLeverageRatio, flags, market,
                 etherBalance>>

\* Every call the keepers are advised to make and that goes through is made.
KeeperIsDone == ~ ENABLED (\E e \in Exchanges : promptUpkeep(e))

\* The oracle price moves by at most MaxPriceMove and the debt accrues
\* interest.
MarketMove(p) ==
  /\ Event
  /\ p * PRECISE_UNIT <= price * (PRECISE_UNIT + MaxPriceMove)
  /\ price * PRECISE_UNIT <= p * (PRECISE_UNIT + MaxPriceMove)
  /\ PromptKeeper => KeeperIsDone
  /\ price' = p
  /\ borrow' = borrow + preciseMulCeil(borrow, InterestRate)
  /\ TimePasses
  /\ UNCHANGED <<loose, collateral, loanEquity, settings, exchanges,
                 twapLeverageRatio, flags, etherBalance>>

\* Someone sends collateral tokens to the SetToken.
TransferCollateral(amount) ==
  /\ Event
  /\ loose' = loose + amount
  /\ UNCHANGED <<price, collateral, borrow, loanEquity, settings, exchanges,
                 twapLeverageRatio, ages, flags, etherBalance>>

(***************************************************************************)
(* The specification.                                                      *)
(***************************************************************************)
\* The constructor stores the exchanges as given: a name may be listed twice
\* (its last settings count), and its timestamp may be any.
Init ==
  /\ price \in InitialPrices
  /\ loose = InitialCollateral /\ collateral = 0 /\ borrow = 0 /\ loanEquity = 0
  /\ methodology \in MethodologyChoices
  /\ execution \in ExecutionChoices
  /\ incentive \in IncentiveChoices
  /\ validateNonExchangeSettings(methodology, execution, incentive)
  /\ enabledExchanges \in [Exchanges -> 0 .. MaxListings]
  /\ enabledAtDeployment = enabledExchanges
  /\ exchangeSettings \in
       [Exchanges -> {NoExchange} \union
                     {s \in ExchangeChoices : validateExchangeSettings(s)}]
  /\ exchangeAge \in [Exchanges -> InitialAges \union {AgeCap}]
  /\ \A e \in Exchanges :
       IF e \in Listed
         THEN validateExchangeSettings(exchangeSettings[e]) /\ exchangeAge[e] \in InitialAges
         ELSE exchangeSettings[e] = NoExchange /\ exchangeAge[e] = AgeCap
  /\ twapLeverageRatio = 0
  /\ globalAge = AgeCap /\ traded = {}
  /\ overrideNoRebalanceInProgress = FALSE /\ overrideUsed = FALSE
  /\ etherBalance = 0
  /\ events = 0

Trade == \E e \in Exchanges :
  engage(e) \/ rebalance(e) \/ iterateRebalance(e) \/ ripcord(e)

Operate ==
  /\ OperatorIntervenes
  /\ Event
  /\ \/ \E e \in Exchanges : disengage(e)
     \/ \E m \in MethodologyChoices : setMethodologySettings(m)
     \/ \E x \in ExecutionChoices : setExecutionSettings(x)
     \/ \E i \in IncentiveChoices : setIncentiveSettings(i)
     \/ \E status \in BOOLEAN : setOverrideNoRebalanceInProgress(status)
     \/ \E e \in Exchanges, s \in ExchangeChoices :
          addEnabledExchange(e, s) \/ updateEnabledExchange(e, s)
     \/ \E e \in Exchanges : removeEnabledExchange(e)
     \/ withdrawEtherBalance

Environment ==
  \/ NewBlock
  \/ \E p \in Prices : MarketMove(p)
  \/ \E amount \in Donations : TransferCollateral(amount)
  \/ \E amount \in EtherAmounts : receive(amount)

Next == Trade \/ Operate \/ Environment

Spec == Init /\ [][Next]_vars

\* Blocks keep coming, and some keeper keeps following shouldRebalance.
FairSpec == Spec /\ WF_vars(NewBlock) /\ WF_vars(\E e \in Exchanges : promptUpkeep(e))

(***************************************************************************)
(* Properties.                                                             *)
(***************************************************************************)
\* Every variable has its type; balances and ether never go negative.
TypeOK ==
  /\ price \in Nat \ {0} /\ loose \in Nat /\ collateral \in Nat /\ borrow \in Nat
  /\ loanEquity \in Nat
  /\ methodology \in MethodologySettings
  /\ execution \in ExecutionSettings
  /\ incentive \in IncentiveSettings
  /\ exchangeSettings \in [Exchanges -> ExchangeSettings]
  /\ enabledExchanges \in [Exchanges -> Nat]
  /\ enabledAtDeployment \in [Exchanges -> Nat]
  /\ twapLeverageRatio \in Nat
  /\ globalAge \in 0 .. AgeCap
  /\ exchangeAge \in [Exchanges -> Ages]
  /\ traded \subseteq Exchanges
  /\ overrideNoRebalanceInProgress \in BOOLEAN /\ overrideUsed \in BOOLEAN
  /\ etherBalance \in Nat /\ events \in 0 .. MaxEvents

\* The target of a TWAP lies within the leverage bounds in force, for as long
\* as the TWAP lasts, unless the operator has lifted noRebalanceInProgress.
TwapTargetWithinBounds ==
  (twapLeverageRatio # 0 /\ ~overrideUsed) =>
    twapLeverageRatio \in methodology.minLeverageRatio .. methodology.maxLeverageRatio

\* No exchange that a trade was ever recorded for has a later timestamp than
\* globalLastTradeTimestamp, so the epoch check of rebalance() covers every
\* exchange, also one that was removed and added again.  Timestamps the
\* constructor was given are not of trades, and disengage() records none.
GlobalIsLatestTrade == \A e \in traded : globalAge <= exchangeAge[e]

Tradable(e) == exchangeSettings[e].twapMaxTradeSize # 0

\* Listings of e that outnumber its settings since deployment.
Surplus(e) == Greatest(enabledAtDeployment[e] - 1, 0)

\* enabledExchanges, which the keepers iterate over, lists an exchange once while
\* the trading calls accept it and not at all while they refuse it, whatever
\* was added and removed, but for the surplus listings of a name that the
\* constructor was given more than once: these no call ever removes.
ListingsCounted ==
  \A e \in Exchanges :
    enabledExchanges[e] = (IF Tradable(e) THEN 1 ELSE 0) + Surplus(e)

\* The trade an exchange would make toward a target.
TradeSend(target, maxTradeSize) ==
  IF target < currentLeverageRatio
    THEN deleverSend(chunkToward(target, maxTradeSize))
    ELSE leverSend(chunkToward(target, maxTradeSize))

\* The share of the debt's limit left unutilized is worth more than the slippage
\* on what is withdrawn, and a wei.  Nothing in _validateNonExchangeSettings
\* relates the two settings.
UnutilizedCovers(slippage) ==
  LET unutilized == execution.unutilizedLeveragePercentage
      utilized == PRECISE_UNIT - unutilized
  IN  borrow * (unutilized * PRECISE_UNIT * PRECISE_UNIT - slippage * Lltv * utilized)
        >= Lltv * utilized * PRECISE_UNIT

\* Morpho's collateral check accepts the chunk of any rebalance, ripcord or
\* disengage: the max-borrow cap is tight enough although a lever borrows
\* before it deposits and a delever withdraws before it repays.  A delever is
\* accepted if the unutilized share is worth a wei, the last trade of a
\* disengage, which withdraws the slippage on top, if it covers that too.
MorphoAcceptsChunk ==
  (ValidLeveragedInfo(1) /\ BorrowCapacityDefined(collateral, FALSE)) =>
    \A e \in Listed :
      \A target \in {PRECISE_UNIT, methodology.maxLeverageRatio, twapLeverageRatio,
                     newLeverageRatio(currentLeverageRatio)},
         size \in {exchangeSettings[e].twapMaxTradeSize,
                   exchangeSettings[e].incentivizedTwapMaxTradeSize} :
        LET up == chunkRebalanceNotional(collateral, currentLeverageRatio, target,
                                         TRUE, size)
            down == chunkRebalanceNotional(collateral, currentLeverageRatio, target,
                                           FALSE, size)
            last == deleverToZeroSend(totalToward(PRECISE_UNIT))
        IN  /\ MorphoHealthy(collateral, borrow + leverSend(up))
            /\ deleverSend(down) <= collateral
            /\ UnutilizedCovers(0) =>
                 MorphoHealthy(collateral - deleverSend(down), borrow)
            /\ (/\ target = PRECISE_UNIT /\ totalToward(target) <= down
                /\ UnutilizedCovers(execution.slippageTolerance)) =>
                 last <= collateral /\ MorphoHealthy(collateral - last, borrow)

\* The conditions, besides those shouldRebalance looks at, that a call needs:
\* there is a debt, the net borrow limit is not exceeded, the exchange has not
\* been removed and takes such trades, and there is something to trade (or nothing needs trading).
CallPossible(e, advice) ==
  /\ borrow > 0
  /\ netBorrowLimit(collateral) >= borrow /\ netBorrowLimit(collateral) > 0
  /\ Tradable(e)
  /\ CASE advice = "RIPCORD" ->
            /\ exchangeSettings[e].incentivizedTwapMaxTradeSize > 0
            /\ TradeSend(methodology.maxLeverageRatio,
                         exchangeSettings[e].incentivizedTwapMaxTradeSize) > 0
       [] advice = "ITERATE_REBALANCE" ->
            \/ isAdvantageousTWAP(currentLeverageRatio)
            \/ TradeSend(twapLeverageRatio, exchangeSettings[e].twapMaxTradeSize) > 0
       [] advice = "REBALANCE" ->
            TradeSend(newLeverageRatio(currentLeverageRatio),
                      exchangeSettings[e].twapMaxTradeSize) > 0
       [] OTHER -> FALSE

\* Under those conditions the advice of shouldRebalance is right: the call it
\* names goes through, Morpho's checks included, for some fill of the DEX.
AdviceCanBeFollowed ==
  \A e \in Listed :
    CallPossible(e, shouldRebalance[e]) => ENABLED promptUpkeep(e)

\* getChunkRebalanceNotional tells a keeper the size the advised call trades,
\* except exactly at the incentivized ratio, where it still returns the size of
\* a normal rebalance, and when the price has made the TWAP unnecessary, where
\* it returns a size although iterateRebalance trades nothing.
SizeMatchesAdvice ==
  \A e \in Listed :
    (/\ borrow > 0 /\ HasLeverageRatio
     /\ netBorrowLimit(collateral) >= borrow /\ netBorrowLimit(collateral) > 0) =>
      CASE shouldRebalance[e] = "RIPCORD" ->
             currentLeverageRatio # incentive.incentivizedLeverageRatio =>
               getChunkRebalanceNotional(e) =
                 chunkToward(methodology.maxLeverageRatio,
                             exchangeSettings[e].incentivizedTwapMaxTradeSize)
        [] shouldRebalance[e] = "ITERATE_REBALANCE" ->
             ~isAdvantageousTWAP(currentLeverageRatio) =>
               getChunkRebalanceNotional(e) =
                 chunkToward(twapLeverageRatio, exchangeSettings[e].twapMaxTradeSize)
        [] shouldRebalance[e] = "REBALANCE" ->
             getChunkRebalanceNotional(e) =
               chunkToward(newLeverageRatio(currentLeverageRatio),
                           exchangeSettings[e].twapMaxTradeSize)
        [] OTHER -> TRUE

(***************************************************************************)
(* The formulas by which the test-suite predicts the strategy              *)
(* (utils/flexibleLeverageUtils/flexibleLeverage.ts); prices are scaled by *)
(* PRECISE_UNIT.                                                           *)
(***************************************************************************)
calculateNewLeverageRatio(current, target, min, max, speed) ==
  LET c == preciseMul(target, speed) + preciseMul(PRECISE_UNIT - speed, current)
      d == IF c < max THEN c ELSE max
  IN  IF min >= d THEN min ELSE d

distance(a, b) == IF a > b THEN a - b ELSE b - a

calculateTotalRebalanceNotionalAave(balance, current, new) ==
  preciseMul(preciseDiv(distance(current, new), current), balance)

\* Multiplies before it divides.
calculateTotalRebalanceNotionalAaveV3(balance, current, new) ==
  preciseDiv(preciseMul(distance(current, new), balance), current)

calculateCollateralRebalanceUnits(current, new, balance, supply) ==
  preciseDiv(calculateTotalRebalanceNotionalAave(balance, current, new), supply)

calculateMaxBorrowForDelever(balance, factor, unutilized, cPrice, bPrice, debt) ==
  LET limit == preciseMul(preciseMul(preciseMul(balance, cPrice), factor),
                          PRECISE_UNIT - unutilized)
  IN  preciseDiv(preciseMul(balance, limit - preciseMul(debt, bPrice)), limit)

\* The whole collateral factor, nothing left unutilized.
calculateMaxBorrowForDeleverV3(balance, factor, cPrice, bPrice, debt) ==
  LET limit == preciseMul(preciseMul(balance, cPrice), factor)
  IN  preciseDiv(preciseMul(balance, limit - preciseMul(debt, bPrice)), limit)

calculateMaxRedeemForDeleverToZero(current, new, balance, supply, slippage) ==
  preciseDiv(preciseMul(calculateTotalRebalanceNotionalAave(balance, current, new),
                        PRECISE_UNIT + slippage),
             supply)

\* In every position the strategy can get into, the predictions are what the
\* contracts do, through their different order of operations: sizes agree to
\* the token where the tests compare with eq, the multiply-first total of the
\* V3 formula within one token per whole unit of collateral and one more.  The
\* cap agrees where the oracle's price is a whole number of the test's price
\* units, and the cap without the unutilized share is, but for rounding, never
\* below the one applied.
ReferenceFormulasAgree ==
  (ValidLeveragedInfo(1) /\ BorrowCapacityDefined(collateral, FALSE)) =>
    LET now == currentLeverageRatio
        goal == calculateNewLeverageRatio(now, methodology.targetLeverageRatio,
                  methodology.minLeverageRatio, methodology.maxLeverageRatio,
                  methodology.recenteringSpeed)
        cPrice == preciseDiv(price, PRICE_SCALE)
        cap == maxBorrowCollateral(collateral, FALSE)
    IN  /\ goal = newLeverageRatio(now)
        /\ calculateCollateralRebalanceUnits(now, goal, collateral, Supply)
             = units(totalToward(goal))
        /\ distance(calculateTotalRebalanceNotionalAaveV3(collateral, now, goal),
                    totalToward(goal)) <= collateral \div PRECISE_UNIT + 1
        /\ preciseMul(calculateMaxRedeemForDeleverToZero(now, PRECISE_UNIT,
                        collateral, Supply, execution.slippageTolerance), Supply)
             = deleverToZeroSend(totalToward(PRECISE_UNIT))
        /\ (price * PRECISE_UNIT) % PRICE_SCALE = 0 =>
             /\ cap = calculateMaxBorrowForDelever(collateral, Lltv,
                        execution.unutilizedLeveragePercentage, cPrice, PRECISE_UNIT,
                        borrow)
             /\ cap <= calculateMaxBorrowForDeleverV3(collateral, Lltv, cPrice,
                         PRECISE_UNIT, borrow)
                       + 1 + PRECISE_UNIT \div maxBorrow(collateral)

\* What keepers and the test-suite compute beforehand is what the calls trade:
\* getChunkRebalanceNotional for the call it is meant for, and the formulas of
\* flexibleLeverage.ts for every position.
SizesAsPredicted == SizeMatchesAdvice /\ ReferenceFormulasAgree

\* A trade that adds debt raises the leverage ratio but leaves it below the
\* incentivized one, so that no lever can trigger a ripcord; a trade that repays
\* debt never raises it, in spite of slippage and fees (up to RatioTolerance, the
\* effect of rounding amounts to whole tokens).
TradesMoveTowardTarget ==
  [][ (borrow > 0 /\ HasLeverageRatio /\ price' = price /\ collateral' # collateral) =>
        /\ borrow' > borrow =>
             /\ currentLeverageRatio' >= currentLeverageRatio - RatioTolerance
             /\ currentLeverageRatio' < incentive.incentivizedLeverageRatio
        /\ borrow' < borrow =>
             currentLeverageRatio' <= currentLeverageRatio + RatioTolerance ]_vars

\* While a TWAP is under way and debt is outstanding its target stays what it
\* was: another rebalance may not retarget it, only end it.
TwapTargetFixed ==
  [][ (twapLeverageRatio # 0 /\ borrow > 0 /\ twapLeverageRatio' # 0) =>
        twapLeverageRatio' = twapLeverageRatio ]_vars

\* The README's promise: if the keepers follow shouldRebalance before the market
\* moves on, the position is never liquidatable.
NeverLiquidatable == MorphoHealthy(collateral, borrow)

\* Nothing is left to trade toward the TWAP target on any exchange, or the net
\* borrow limit forbids it: iterateRebalance reverts on every exchange.
TwapHasNothingToTrade ==
  /\ HasLeverageRatio
  /\ \A e \in Listed :
       \/ netBorrowLimit(collateral) < borrow
       \/ TradeSend(twapLeverageRatio, exchangeSettings[e].twapMaxTradeSize) = 0

\* A TWAP ends once the market calms down, or it has come as close to its target
\* as the amounts can express.
TwapEnds ==
  twapLeverageRatio # 0 ~> (twapLeverageRatio = 0 \/ TwapHasNothingToTrade)

\* A ratio above the maximum returns below it.
LeverageReturnsBelowMax ==
  (HasLeverageRatio /\ borrow > 0 /\ currentLeverageRatio > methodology.maxLeverageRatio)
    ~> (HasLeverageRatio /\ currentLeverageRatio <= methodology.maxLeverageRatio)

(***************************************************************************)
(* What a comment of the source says that the code does not do.            *)
(***************************************************************************)
\* MorphoLeverageStrategyExtension.sol:65, RIPCORD "Indicates ripcord() function
\* can be successfully called".
RipcordAdviceSucceeds ==
  \A e \in Listed :
    shouldRebalance[e] = "RIPCORD" => ENABLED ripcord(e)

=============================================================================
