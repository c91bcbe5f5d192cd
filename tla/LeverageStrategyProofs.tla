----------------------- MODULE LeverageStrategyProofs -----------------------
(***************************************************************************)
(* What holds of the leverage strategy for every value of its constants:   *)
(* any number of exchanges, any prices, any settings the operator submits, *)
(* any fill of a DEX.  The last section is about the keeper whose calls    *)
(* come late.                                                              *)
(***************************************************************************)
EXTENDS RebalanceKeeper, PreciseUnitMathProofs, TLAPS

(***************************************************************************)
(* Arithmetic.  The provers need to be told that the fixed-point           *)
(* operations yield integers, and that a leverage ratio is positive.       *)
(***************************************************************************)
\* Division by a positive number yields an integer.
LEMMA DivInt ==
  ASSUME NEW a \in Int, NEW b \in Int, b > 0
  PROVE  a \div b \in Int
OBVIOUS

\* preciseMul yields an integer.
LEMMA PreciseMulInt ==
  ASSUME NEW a \in Int, NEW b \in Int
  PROVE  preciseMul(a, b) \in Int
BY PreciseUnitAssumption DEF preciseMul

\* preciseDiv by a positive number yields an integer.
LEMMA PreciseDivInt ==
  ASSUME NEW a \in Int, NEW b \in Int, b > 0
  PROVE  preciseDiv(a, b) \in Int
BY PreciseUnitAssumption DEF preciseDiv

\* preciseMul of naturals is a natural.
LEMMA PreciseMulNat ==
  ASSUME NEW a \in Nat, NEW b \in Nat
  PROVE  preciseMul(a, b) \in Nat
<1>1. a * b \in Nat
  OBVIOUS
<1>2. QED
  BY <1>1, PreciseUnitAssumption DEF preciseMul

\* A quotient of at least one is positive.
LEMMA DivPositive ==
  ASSUME NEW a \in Nat, NEW b \in Nat, b > 0, a >= b
  PROVE  a \div b > 0
OBVIOUS

\* The current leverage ratio, where defined, is a positive integer.
LEMMA RatioPositive ==
  ASSUME TypeOK, HasLeverageRatio
  PROVE  currentLeverageRatio \in Int /\ currentLeverageRatio > 0
<1> DEFINE V == collateralValue(collateral)
<1>1. V \in Nat
  <2>1. price * collateral \in Nat
    BY DEF TypeOK
  <2>2. QED
    BY <2>1, ConstantsAssumption DEF collateralValue
<1>2. V - borrow \in Nat /\ V - borrow > 0 /\ V >= V - borrow
  BY <1>1 DEF TypeOK, HasLeverageRatio
<1>3. V * PRECISE_UNIT \in Nat /\ V * PRECISE_UNIT >= V
  BY <1>1, PreciseUnitAssumption
<1> HIDE DEF V
<1>4. (V * PRECISE_UNIT) \div (V - borrow) > 0
  BY <1>1, <1>2, <1>3, DivPositive
<1>5. (V * PRECISE_UNIT) \div (V - borrow) \in Int
  BY <1>2, <1>3, DivInt
<1>6. QED
  BY <1>4, <1>5 DEF V, currentLeverageRatio, preciseDiv

\* The value of collateral is a natural number.
LEMMA CollateralValueNat ==
  ASSUME TypeOK, NEW c \in Nat
  PROVE  collateralValue(c) \in Nat
<1>1. price * c \in Nat
  BY DEF TypeOK
<1>2. QED
  BY <1>1, ConstantsAssumption DEF collateralValue

\* The net borrow limit is an integer.
LEMMA NetBorrowLimitInt ==
  ASSUME TypeOK, NEW c \in Nat
  PROVE  netBorrowLimit(c) \in Int
<1>1. collateralValue(c) \in Int /\ Lltv \in Int
  BY CollateralValueNat, ConstantsAssumption
<1>2. preciseMul(collateralValue(c), Lltv) \in Int
  BY <1>1, PreciseMulInt
<1>3. PRECISE_UNIT - execution.unutilizedLeveragePercentage \in Int
  BY PreciseUnitAssumption DEF TypeOK, ExecutionSettings
<1>4. QED
  BY <1>2, <1>3, PreciseMulInt DEF netBorrowLimit, maxBorrow

\* The whole notional to trade is an integer.
LEMMA TotalInt ==
  ASSUME NEW c \in Nat, NEW current \in Int, current > 0, NEW target \in Int
  PROVE  totalRebalanceNotional(c, current, target) \in Int
<1> DEFINE difference == IF target >= current THEN target - current
                                              ELSE current - target
<1>1. difference \in Int
  OBVIOUS
<1> HIDE DEF difference
<1>2. preciseDiv(difference, current) \in Int
  BY <1>1, PreciseDivInt
<1>3. preciseMul(preciseDiv(difference, current), c) \in Int
  BY <1>2, PreciseMulInt
<1>4. QED
  BY <1>3 DEF difference, totalRebalanceNotional

\* The chunk of a trade, where it is defined, is an integer.
LEMMA ChunkInt ==
  ASSUME TypeOK, NEW c \in Nat, NEW current \in Int, current > 0,
         NEW target \in Int, NEW isLever \in BOOLEAN, NEW size \in Nat,
         BorrowCapacityDefined(c, isLever)
  PROVE  chunkRebalanceNotional(c, current, target, isLever, size) \in Int
<1>1. netBorrowLimit(c) \in Int
  BY NetBorrowLimitInt
<1>2. maxBorrowCollateral(c, isLever) \in Int
  <2>1. CASE isLever
    <3>1. (netBorrowLimit(c) - borrow) * PRICE_SCALE \in Int
      BY <1>1, ConstantsAssumption DEF TypeOK
    <3>2. price \in Int /\ price > 0
      BY DEF TypeOK
    <3>3. QED
      BY <2>1, <3>1, <3>2, DivInt DEF maxBorrowCollateral
  <2>2. CASE ~isLever
    <3>1. netBorrowLimit(c) > 0
      BY <2>2 DEF BorrowCapacityDefined
    <3>2. preciseMul(c, netBorrowLimit(c) - borrow) \in Int
      BY <1>1, PreciseMulInt DEF TypeOK
    <3>3. QED
      BY <1>1, <2>2, <3>1, <3>2, PreciseDivInt DEF maxBorrowCollateral
  <2>3. QED
    BY <2>1, <2>2
<1>3. totalRebalanceNotional(c, current, target) \in Int
  BY TotalInt
<1>4. QED
  BY <1>2, <1>3 DEF chunkRebalanceNotional, Least

\* The amounts a chunk turns into on its way through per-token units.
LEMMA SendInt ==
  ASSUME TypeOK, NEW chunk \in Int
  PROVE  /\ units(chunk) \in Int
         /\ calculateBorrowUnits(units(chunk)) \in Int
         /\ leverSend(chunk) \in Int
         /\ deleverSend(chunk) \in Int
<1>1. units(chunk) \in Int
  BY ConstantsAssumption, PreciseDivInt DEF units
<1>2. calculateBorrowUnits(units(chunk)) \in Int
  <2>1. units(chunk) * price \in Int
    BY <1>1 DEF TypeOK
  <2>2. QED
    BY <2>1, ConstantsAssumption, DivInt DEF calculateBorrowUnits
<1>3. leverSend(chunk) \in Int
  BY <1>2, ConstantsAssumption, PreciseMulInt DEF leverSend
<1>4. deleverSend(chunk) \in Int
  BY <1>1, ConstantsAssumption, PreciseMulInt DEF deleverSend
<1>5. QED
  BY <1>1, <1>2, <1>3, <1>4

\* What a DEX pays out is an integer no less than the minimum.
LEMMA DexReceivesInt ==
  ASSUME NEW minimum \in Int, NEW fair \in Int,
         NEW received \in DexReceives(minimum, fair)
  PROVE  received \in Int /\ received >= minimum
<1>1. PICK fill \in Fills :
        /\ fair + PriceImprovement >= minimum
        /\ received = minimum + preciseMul(fair + PriceImprovement - minimum, fill)
  BY DEF DexReceives
<1>2. fair + PriceImprovement - minimum \in Nat /\ fill \in Nat
  BY <1>1, ConstantsAssumption, PreciseUnitAssumption
<1>3. preciseMul(fair + PriceImprovement - minimum, fill) \in Nat
  BY <1>2, PreciseMulNat
<1>4. QED
  BY <1>1, <1>3

\* The protocol fee of an integer amount is an integer.
LEMMA AfterFeeInt ==
  ASSUME NEW received \in Int
  PROVE  afterProtocolFee(received) \in Int
<1>1. ProtocolFee \in Int
  BY ConstantsAssumption, PreciseUnitAssumption
<1>2. QED
  BY <1>1, PreciseMulInt DEF afterProtocolFee

(***************************************************************************)
(* The three trades keep every balance a natural number.                   *)
(***************************************************************************)
\* A lever does.
LEMMA LeverBalances ==
  ASSUME TypeOK, NEW c \in Nat, NEW chunk \in Int, NEW slippage \in Int,
         lever(c, chunk, slippage)
  PROVE  collateral' \in Nat /\ borrow' \in Nat /\ loanEquity' \in Nat
<1> DEFINE send == leverSend(chunk)
           minUnits == calculateMinCollateralReceiveUnits(units(chunk), slippage)
           minReceive == preciseMul(minUnits, Supply)
           fair == (send * PRICE_SCALE) \div price
<1>1. send \in Int /\ units(chunk) \in Int
  BY SendInt
<1>2. minReceive \in Int
  <2>1. PRECISE_UNIT - slippage \in Int
    BY PreciseUnitAssumption
  <2>2. minUnits \in Int
    BY <1>1, <2>1, PreciseMulInt DEF calculateMinCollateralReceiveUnits
  <2>3. QED
    BY <2>2, ConstantsAssumption, PreciseMulInt
<1>3. fair \in Int
  <2>1. send * PRICE_SCALE \in Int
    BY <1>1, ConstantsAssumption
  <2>2. price \in Int /\ price > 0
    BY DEF TypeOK
  <2>3. QED
    BY <2>1, <2>2, DivInt
<1>4. /\ send > 0
      /\ borrow' = borrow + send
      /\ loanEquity' = loanEquity
      /\ \E received \in DexReceives(minReceive, fair) :
           /\ afterProtocolFee(received) > 0
           /\ collateral' = c + afterProtocolFee(received)
  BY DEF lever
<1> HIDE DEF send, minUnits, minReceive, fair
<1>5. PICK received \in DexReceives(minReceive, fair) :
        /\ afterProtocolFee(received) > 0
        /\ collateral' = c + afterProtocolFee(received)
  BY <1>4
<1>6. afterProtocolFee(received) \in Int
  BY <1>2, <1>3, DexReceivesInt, AfterFeeInt
<1>7. QED
  BY <1>1, <1>4, <1>5, <1>6 DEF TypeOK

\* A delever does.
LEMMA DeleverBalances ==
  ASSUME TypeOK, NEW chunk \in Int, NEW slippage \in Int, delever(chunk, slippage)
  PROVE  collateral' \in Nat /\ borrow' \in Nat /\ loanEquity' \in Nat
<1>1. deleverSend(chunk) \in Int
  BY SendInt
<1>2. /\ deleverSend(chunk) > 0 /\ deleverSend(chunk) <= collateral
      /\ collateral' = collateral - deleverSend(chunk)
      /\ loanEquity' = loanEquity
  BY DEF delever
<1>3. PICK repaid \in 1 .. borrow : borrow' = borrow - repaid
  BY DEF delever
<1>4. QED
  BY <1>1, <1>2, <1>3 DEF TypeOK

\* A delever to zero does.
LEMMA DeleverToZeroBalances ==
  ASSUME TypeOK, NEW total \in Int, deleverToZeroBorrowBalance(total)
  PROVE  collateral' \in Nat /\ borrow' \in Nat /\ loanEquity' \in Nat
<1> DEFINE send == deleverToZeroSend(total)
<1>1. send \in Int
  <2>1. PRECISE_UNIT + execution.slippageTolerance \in Int
    BY PreciseUnitAssumption DEF TypeOK, ExecutionSettings
  <2>2. preciseMul(total, PRECISE_UNIT + execution.slippageTolerance) \in Int
    BY <2>1, PreciseMulInt
  <2>3. QED
    BY <2>2, SendInt DEF deleverToZeroSend
<1>2. /\ send > 0 /\ send <= collateral
      /\ collateral' = collateral - send
      /\ borrow' = 0
      /\ \E received \in DexReceives(borrow, collateralValue(send)) :
           loanEquity' = loanEquity + received - borrow
  BY DEF deleverToZeroBorrowBalance
<1> HIDE DEF send
<1>3. collateralValue(send) \in Int /\ borrow \in Int
  BY <1>1, <1>2, CollateralValueNat DEF TypeOK
<1>4. PICK received \in DexReceives(borrow, collateralValue(send)) :
        loanEquity' = loanEquity + received - borrow
  BY <1>2
<1>5. received \in Int /\ received >= borrow
  BY <1>3, DexReceivesInt
<1>6. QED
  BY <1>1, <1>2, <1>4, <1>5 DEF TypeOK

\* The trade toward a target that rebalance() and iterateRebalance() make does.
LEMMA HandleRebalanceBalances ==
  ASSUME TypeOK, HasLeverageRatio, NEW target \in Nat, NEW size \in Nat,
         handleRebalance(target, size)
  PROVE  collateral' \in Nat /\ borrow' \in Nat /\ loanEquity' \in Nat
<1>1. currentLeverageRatio \in Int /\ currentLeverageRatio > 0
  BY RatioPositive
<1>2. execution.slippageTolerance \in Int /\ collateral \in Nat
  BY DEF TypeOK, ExecutionSettings
<1>3. target \in Int /\ FALSE \in BOOLEAN /\ TRUE \in BOOLEAN
  OBVIOUS
<1>4. CASE target < currentLeverageRatio
  <2>1. /\ BorrowCapacityDefined(collateral, FALSE)
        /\ delever(chunkToward(target, size), execution.slippageTolerance)
    BY <1>4 DEF handleRebalance
  <2>2. (target >= currentLeverageRatio) = FALSE
    BY <1>1, <1>4
  <2>3. chunkToward(target, size) \in Int
    <3>1. chunkRebalanceNotional(collateral, currentLeverageRatio, target, FALSE, size) \in Int
      BY <1>1, <1>2, <1>3, <2>1, ChunkInt, Zenon
    <3>2. QED
      BY <2>2, <3>1, Zenon DEF chunkToward
  <2>4. QED
    BY <1>2, <2>1, <2>3, DeleverBalances
<1>5. CASE ~(target < currentLeverageRatio)
  <2>1. /\ BorrowCapacityDefined(collateral, TRUE)
        /\ lever(collateral, chunkToward(target, size), execution.slippageTolerance)
    BY <1>5 DEF handleRebalance
  <2>2. (target >= currentLeverageRatio) = TRUE
    BY <1>1, <1>5
  <2>3. chunkToward(target, size) \in Int
    <3>1. chunkRebalanceNotional(collateral, currentLeverageRatio, target, TRUE, size) \in Int
      BY <1>1, <1>2, <1>3, <2>1, ChunkInt, Zenon
    <3>2. QED
      BY <2>2, <3>1, Zenon DEF chunkToward
  <2>4. QED
    BY <1>2, <2>1, <2>3, LeverBalances
<1>6. QED
  BY <1>4, <1>5

(***************************************************************************)
(* The inductive invariant.  The bounds on the TWAP target depend on the   *)
(* settings being valid (or a clamped ratio need not lie between min and   *)
(* max) and on the override flag being remembered once set.                *)
(***************************************************************************)
OverrideRemembered == overrideNoRebalanceInProgress => overrideUsed

\* The settings in force pass _validateNonExchangeSettings together.
SettingsValid == validateNonExchangeSettings(methodology, execution, incentive)

IInv ==
  /\ TypeOK
  /\ SettingsValid
  /\ TwapTargetWithinBounds
  /\ GlobalIsLatestTrade
  /\ ListingsCounted
  /\ OverrideRemembered

Bounds == methodology.minLeverageRatio .. methodology.maxLeverageRatio

\* The ratio a rebalance aims for lies within the leverage bounds.
LEMMA NewRatioWithinBounds ==
  ASSUME TypeOK, SettingsValid, NEW current \in Int
  PROVE  newLeverageRatio(current) \in Bounds /\ newLeverageRatio(current) \in Nat
<1> DEFINE a == preciseMul(methodology.targetLeverageRatio, methodology.recenteringSpeed)
           b == preciseMul(PRECISE_UNIT - methodology.recenteringSpeed, current)
<1>1. /\ methodology.targetLeverageRatio \in Nat
      /\ methodology.recenteringSpeed \in Nat
      /\ methodology.minLeverageRatio \in Nat
      /\ methodology.maxLeverageRatio \in Nat
      /\ methodology.minLeverageRatio <= methodology.maxLeverageRatio
  BY DEF TypeOK, MethodologySettings, SettingsValid, validateNonExchangeSettings
<1>2. PRECISE_UNIT - methodology.recenteringSpeed \in Int
  BY <1>1, PreciseUnitAssumption
<1>3. a \in Int /\ b \in Int
  <2>1. a \in Int
    <3>1. methodology.targetLeverageRatio \in Int /\ methodology.recenteringSpeed \in Int
      BY <1>1
    <3>2. QED
      BY <3>1, PreciseMulInt
  <2>2. b \in Int
    BY <1>2, PreciseMulInt
  <2>3. QED
    BY <2>1, <2>2
<1>4. newLeverageRatio(current) =
        Greatest(methodology.minLeverageRatio, Least(a + b, methodology.maxLeverageRatio))
  BY DEF newLeverageRatio
<1> HIDE DEF a, b
<1>5. QED
  BY <1>1, <1>3, <1>4 DEF Greatest, Least, Bounds

\* Updating the timestamps after a trade keeps the global one the latest.
LEMMA TimestampUpdate ==
  ASSUME TypeOK, GlobalIsLatestTrade, NEW e \in Exchanges, updateLastTradeTimestamp(e)
  PROVE  /\ globalAge' \in 0 .. AgeCap
         /\ exchangeAge' \in [Exchanges -> Ages]
         /\ traded' \subseteq Exchanges
         /\ GlobalIsLatestTrade'
<1>1. /\ globalAge' = 0
      /\ exchangeAge' = [exchangeAge EXCEPT ![e] = 0]
      /\ traded' = traded \union {e}
  BY DEF updateLastTradeTimestamp
<1>2. AgeCap \in Nat
  BY ConstantsAssumption
<1>3. exchangeAge \in [Exchanges -> Ages] /\ traded \subseteq Exchanges
  BY DEF TypeOK
<1>4. 0 \in Ages
  BY <1>2 DEF Ages
<1>5. /\ globalAge' \in 0 .. AgeCap
      /\ exchangeAge' \in [Exchanges -> Ages]
      /\ traded' \subseteq Exchanges
  BY <1>1, <1>2, <1>3, <1>4
<1>6. \A x \in traded : 0 <= exchangeAge[x]
  <2>1. globalAge \in 0 .. AgeCap /\ \A x \in Exchanges : exchangeAge[x] \in Int
    BY <1>3 DEF TypeOK, Ages
  <2>2. QED
    BY <1>2, <1>3, <2>1 DEF GlobalIsLatestTrade
<1>7. GlobalIsLatestTrade'
  <2> SUFFICES ASSUME NEW x \in traded'
               PROVE  0 <= exchangeAge'[x]
    BY <1>1 DEF GlobalIsLatestTrade
  <2>1. CASE x = e
    BY <1>1, <1>3, <2>1
  <2>2. CASE x # e
    BY <1>1, <1>3, <1>6, <2>2
  <2>3. QED
    BY <2>1, <2>2
<1>8. QED
  BY <1>5, <1>7

\* A step that trades on exchange e, changes no settings and leaves the TWAP
\* alone, ends it or gives it a target within the bounds, keeps the invariant.
LEMMA TradeStep ==
  ASSUME IInv, NEW e \in Exchanges, updateLastTradeTimestamp(e),
         UNCHANGED <<settings, exchanges, flags, market>>,
         loose' \in Nat, collateral' \in Nat, borrow' \in Nat, loanEquity' \in Nat,
         etherBalance' \in Nat,
         \/ twapLeverageRatio' = 0
         \/ twapLeverageRatio' = twapLeverageRatio
         \/ twapLeverageRatio' \in Nat /\ twapLeverageRatio' \in Bounds
  PROVE  IInv'
<1> USE DEF settings, exchanges, flags, market
<1>1. /\ globalAge' \in 0 .. AgeCap
      /\ exchangeAge' \in [Exchanges -> Ages]
      /\ traded' \subseteq Exchanges
      /\ GlobalIsLatestTrade'
  BY TimestampUpdate DEF IInv
<1>2. twapLeverageRatio' \in Nat
  BY DEF IInv, TypeOK
<1>3. TypeOK'
  BY <1>1, <1>2 DEF IInv, TypeOK
<1>4. SettingsValid'
  BY DEF IInv, SettingsValid, validateNonExchangeSettings
<1>5. TwapTargetWithinBounds'
  BY DEF IInv, TwapTargetWithinBounds, Bounds
<1>6. ListingsCounted'
  BY DEF IInv, ListingsCounted, Surplus, Tradable
<1>7. OverrideRemembered'
  BY DEF IInv, OverrideRemembered
<1>8. QED
  BY <1>1, <1>3, <1>4, <1>5, <1>6, <1>7 DEF IInv

(***************************************************************************)
(* Each action keeps the invariant.                                        *)
(***************************************************************************)
\* engage() does.
LEMMA EngageStep ==
  ASSUME IInv, NEW e \in Exchanges, engage(e)
  PROVE  IInv'
<1> DEFINE c == collateral + loose
           target == methodology.targetLeverageRatio
           size == exchangeSettings[e].twapMaxTradeSize
           chunk == chunkRebalanceNotional(c, PRECISE_UNIT, target, TRUE, size)
           total == totalRebalanceNotional(c, PRECISE_UNIT, target)
<1>1. TypeOK /\ SettingsValid
  BY DEF IInv
<1>2. /\ c \in Nat
      /\ target \in Int /\ target \in Nat /\ target \in Bounds
      /\ size \in Nat
      /\ PRECISE_UNIT \in Int /\ PRECISE_UNIT > 0
      /\ execution.slippageTolerance \in Int
      /\ etherBalance \in Nat
  BY <1>1, PreciseUnitAssumption
     DEF TypeOK, MethodologySettings, ExecutionSettings, ExchangeSettings,
         SettingsValid, validateNonExchangeSettings, Bounds
<1>3. /\ BorrowCapacityDefined(c, TRUE)
      /\ lever(c, chunk, execution.slippageTolerance)
      /\ loose' = 0
      /\ updateRebalanceState(chunk, total, target, e)
      /\ UNCHANGED <<settings, exchanges, flags, market>>
      /\ UNCHANGED etherBalance
  BY DEF engage
<1>4. updateLastTradeTimestamp(e)
  BY <1>3 DEF updateRebalanceState
<1>5. twapLeverageRatio' = target \/ twapLeverageRatio' = twapLeverageRatio
  BY <1>3 DEF updateRebalanceState
<1> HIDE DEF c, target, size, total
<1>6. chunk \in Int
  BY <1>1, <1>2, <1>3, ChunkInt, Zenon
<1> HIDE DEF chunk
<1>7. collateral' \in Nat /\ borrow' \in Nat /\ loanEquity' \in Nat
  BY <1>1, <1>2, <1>3, <1>6, LeverBalances
<1>8. QED
  BY <1>2, <1>3, <1>4, <1>5, <1>7, TradeStep

\* rebalance() does: its target is clamped to the bounds in force.
LEMMA RebalanceStep ==
  ASSUME IInv, NEW e \in Exchanges, rebalance(e)
  PROVE  IInv'
<1> DEFINE size == exchangeSettings[e].twapMaxTradeSize
           target == newLeverageRatio(currentLeverageRatio)
<1>1. TypeOK /\ SettingsValid
  BY DEF IInv
<1>2. /\ HasLeverageRatio
      /\ handleRebalance(target, size)
      /\ updateRebalanceState(chunkToward(target, size), totalToward(target), target, e)
      /\ UNCHANGED <<settings, exchanges, flags, market>>
      /\ UNCHANGED <<loose, etherBalance>>
  BY DEF rebalance, ValidLeveragedInfo
<1>3. size \in Nat /\ loose \in Nat /\ etherBalance \in Nat
  BY <1>1 DEF TypeOK, ExchangeSettings
<1>4. target \in Nat /\ target \in Bounds
  BY <1>1, <1>2, RatioPositive, NewRatioWithinBounds
<1> HIDE DEF size, target
<1>5. collateral' \in Nat /\ borrow' \in Nat /\ loanEquity' \in Nat
  BY <1>1, <1>2, <1>3, <1>4, HandleRebalanceBalances
<1>6. updateLastTradeTimestamp(e)
  BY <1>2 DEF updateRebalanceState
<1>7. twapLeverageRatio' = target \/ twapLeverageRatio' = twapLeverageRatio
  BY <1>2 DEF updateRebalanceState
<1>8. QED
  BY <1>2, <1>3, <1>4, <1>5, <1>6, <1>7, TradeStep

\* iterateRebalance() does: it keeps the target or clears it.
LEMMA IterateStep ==
  ASSUME IInv, NEW e \in Exchanges, iterateRebalance(e)
  PROVE  IInv'
<1> DEFINE size == exchangeSettings[e].twapMaxTradeSize
<1>1. TypeOK
  BY DEF IInv
<1>2. /\ HasLeverageRatio
      /\ UNCHANGED <<settings, exchanges, flags, market>>
      /\ UNCHANGED <<loose, etherBalance>>
  BY DEF iterateRebalance, ValidLeveragedInfo
<1>3. size \in Nat /\ twapLeverageRatio \in Nat /\ loose \in Nat /\ etherBalance \in Nat
  BY <1>1 DEF TypeOK, ExchangeSettings
<1>4. /\ collateral' \in Nat /\ borrow' \in Nat /\ loanEquity' \in Nat
      /\ updateLastTradeTimestamp(e)
      /\ twapLeverageRatio' = 0 \/ twapLeverageRatio' = twapLeverageRatio
  <2>1. CASE isAdvantageousTWAP(currentLeverageRatio)
    <3>1. updateIterateState(0, 0, e) /\ UNCHANGED <<collateral, borrow, loanEquity>>
      BY <2>1 DEF iterateRebalance
    <3>2. QED
      BY <1>1, <3>1 DEF updateIterateState, TypeOK
  <2>2. CASE ~isAdvantageousTWAP(currentLeverageRatio)
    <3>1. /\ handleRebalance(twapLeverageRatio, size)
          /\ updateIterateState(chunkToward(twapLeverageRatio, size),
                                totalToward(twapLeverageRatio), e)
      BY <2>2 DEF iterateRebalance
    <3>2. collateral' \in Nat /\ borrow' \in Nat /\ loanEquity' \in Nat
      BY <1>1, <1>2, <1>3, <3>1, HandleRebalanceBalances
    <3>3. QED
      BY <3>1, <3>2 DEF updateIterateState
  <2>3. QED
    BY <2>1, <2>2
<1>5. QED
  BY <1>2, <1>3, <1>4, TradeStep

\* ripcord() does: it ends the TWAP and pays no more ether than there is.
LEMMA RipcordStep ==
  ASSUME IInv, NEW e \in Exchanges, ripcord(e)
  PROVE  IInv'
<1> DEFINE size == exchangeSettings[e].incentivizedTwapMaxTradeSize
           target == methodology.maxLeverageRatio
           slippage == incentive.incentivizedSlippageTolerance
           chunk == chunkRebalanceNotional(collateral, currentLeverageRatio, target,
                                           FALSE, size)
<1>1. TypeOK
  BY DEF IInv
<1>2. /\ HasLeverageRatio
      /\ BorrowCapacityDefined(collateral, FALSE)
      /\ delever(chunk, slippage)
      /\ updateRipcordState(e)
      /\ etherBalance' = etherBalance - etherReward
      /\ UNCHANGED <<settings, exchanges, flags, market>>
      /\ UNCHANGED loose
  BY DEF ripcord, ValidLeveragedInfo
<1>3. /\ size \in Nat /\ target \in Int /\ slippage \in Int
      /\ collateral \in Nat /\ loose \in Nat
      /\ FALSE \in BOOLEAN
  BY <1>1 DEF TypeOK, ExchangeSettings, MethodologySettings, IncentiveSettings
<1>4. etherBalance' \in Nat
  BY <1>1, <1>2 DEF TypeOK, IncentiveSettings, etherReward, Least
<1>5. currentLeverageRatio \in Int /\ currentLeverageRatio > 0
  BY <1>1, <1>2, RatioPositive
<1> HIDE DEF size, target, slippage
<1>6. chunk \in Int
  BY <1>1, <1>2, <1>3, <1>5, ChunkInt, Zenon
<1> HIDE DEF chunk
<1>7. collateral' \in Nat /\ borrow' \in Nat /\ loanEquity' \in Nat
  BY <1>1, <1>2, <1>3, <1>6, DeleverBalances
<1>8. updateLastTradeTimestamp(e) /\ twapLeverageRatio' = 0
  BY <1>2 DEF updateRipcordState
<1>9. QED
  BY <1>2, <1>3, <1>4, <1>7, <1>8, TradeStep

\* disengage() does: it touches neither the TWAP nor the timestamps.
LEMMA DisengageStep ==
  ASSUME IInv, NEW e \in Exchanges, disengage(e), events' \in 0 .. MaxEvents
  PROVE  IInv'
<1> DEFINE size == exchangeSettings[e].twapMaxTradeSize
           slippage == execution.slippageTolerance
           total == totalToward(PRECISE_UNIT)
           chunk == chunkRebalanceNotional(collateral, currentLeverageRatio,
                                           PRECISE_UNIT, FALSE, size)
<1>1. TypeOK
  BY DEF IInv
<1>2. /\ HasLeverageRatio
      /\ BorrowCapacityDefined(collateral, FALSE)
      /\ delever(chunk, slippage) \/ deleverToZeroBorrowBalance(total)
      /\ UNCHANGED <<loose, settings, exchanges, twapLeverageRatio, ages, flags,
                     price, etherBalance>>
  BY DEF disengage, ValidLeveragedInfo
<1>3. /\ size \in Nat /\ slippage \in Int /\ collateral \in Nat
      /\ PRECISE_UNIT \in Int /\ FALSE \in BOOLEAN
  BY <1>1, PreciseUnitAssumption DEF TypeOK, ExchangeSettings, ExecutionSettings
<1>4. currentLeverageRatio \in Int /\ currentLeverageRatio > 0
  BY <1>1, <1>2, RatioPositive
<1>5. total \in Int
  BY <1>3, <1>4, TotalInt DEF totalToward
<1> HIDE DEF size, slippage, total
<1>6. chunk \in Int
  BY <1>1, <1>2, <1>3, <1>4, ChunkInt, Zenon
<1> HIDE DEF chunk
<1>7. collateral' \in Nat /\ borrow' \in Nat /\ loanEquity' \in Nat
  BY <1>1, <1>2, <1>3, <1>5, <1>6, DeleverBalances, DeleverToZeroBalances
<1> USE <1>2 DEF settings, exchanges, ages, flags
<1>8. TypeOK'
  BY <1>1, <1>7 DEF TypeOK
<1>9. SettingsValid' /\ TwapTargetWithinBounds'
  BY DEF IInv, SettingsValid, validateNonExchangeSettings, TwapTargetWithinBounds
<1>10. GlobalIsLatestTrade' /\ ListingsCounted' /\ OverrideRemembered'
  BY DEF IInv, GlobalIsLatestTrade, ListingsCounted, Surplus, Tradable, OverrideRemembered
<1>11. QED
  BY <1>8, <1>9, <1>10 DEF IInv

\* The three setters do: the new settings are validated together with the
\* rest, and the bounds change only outside a TWAP or under the override.
LEMMA SettingsStep ==
  ASSUME IInv, events' \in 0 .. MaxEvents,
         \/ \E m \in MethodologyChoices : setMethodologySettings(m)
         \/ \E x \in ExecutionChoices : setExecutionSettings(x)
         \/ \E i \in IncentiveChoices : setIncentiveSettings(i)
  PROVE  IInv'
<1>1. UNCHANGED <<position, exchanges, twapLeverageRatio, ages, flags, price,
                  etherBalance>>
  BY DEF setMethodologySettings, setExecutionSettings, setIncentiveSettings
<1> USE <1>1 DEF position, exchanges, ages, flags
<1>2. /\ methodology' \in MethodologySettings
      /\ execution' \in ExecutionSettings
      /\ incentive' \in IncentiveSettings
  BY ChoicesAssumption
     DEF IInv, TypeOK, setMethodologySettings, setExecutionSettings,
         setIncentiveSettings
<1>3. TypeOK'
  BY <1>2 DEF IInv, TypeOK
<1>4. SettingsValid'
  BY DEF SettingsValid, validateNonExchangeSettings, setMethodologySettings,
         setExecutionSettings, setIncentiveSettings
<1>5. methodology' = methodology \/ overrideUsed \/ twapLeverageRatio = 0
  BY DEF IInv, OverrideRemembered, setMethodologySettings, setExecutionSettings,
         setIncentiveSettings, noRebalanceInProgress
<1>6. TwapTargetWithinBounds'
  BY <1>5 DEF IInv, TwapTargetWithinBounds
<1>7. GlobalIsLatestTrade' /\ ListingsCounted' /\ OverrideRemembered'
  BY DEF IInv, GlobalIsLatestTrade, ListingsCounted, Surplus, Tradable, OverrideRemembered
<1>8. QED
  BY <1>3, <1>4, <1>6, <1>7 DEF IInv

\* Adding, updating and removing an exchange do.
LEMMA ExchangeStep ==
  ASSUME IInv, events' \in 0 .. MaxEvents, NEW e \in Exchanges,
         \/ \E s \in ExchangeChoices :
              addEnabledExchange(e, s) \/ updateEnabledExchange(e, s)
         \/ removeEnabledExchange(e)
  PROVE  IInv'
<1>1. UNCHANGED <<position, settings, enabledAtDeployment, twapLeverageRatio,
                  globalAge, traded, flags, price, etherBalance>>
  BY DEF addEnabledExchange, updateEnabledExchange, removeEnabledExchange, ages
<1> USE <1>1 DEF position, settings, flags
<1>2. PICK s \in ExchangeSettings : exchangeSettings' = [exchangeSettings EXCEPT ![e] = s]
  <2>1. NoExchange \in ExchangeSettings
    BY DEF NoExchange, ExchangeSettings
  <2>2. QED
    BY <2>1, ChoicesAssumption
       DEF addEnabledExchange, updateEnabledExchange, removeEnabledExchange
<1>3. \/ exchangeAge' = exchangeAge
      \/ exchangeAge' = [exchangeAge EXCEPT ![e] = AgeCap]
  BY DEF addEnabledExchange, updateEnabledExchange, removeEnabledExchange, ages
<1>4. AgeCap \in Nat /\ AgeCap \in Ages
  BY ConstantsAssumption DEF Ages
<1>5. exchangeAge' \in [Exchanges -> Ages]
  BY <1>3, <1>4 DEF IInv, TypeOK
<1>6. enabledExchanges' \in [Exchanges -> Nat]
  BY DEF IInv, TypeOK, addEnabledExchange, updateEnabledExchange,
         removeEnabledExchange, Listed
<1>7. TypeOK'
  BY <1>1, <1>2, <1>5, <1>6 DEF IInv, TypeOK
<1>8. SettingsValid' /\ TwapTargetWithinBounds' /\ OverrideRemembered'
  BY DEF IInv, SettingsValid, validateNonExchangeSettings, TwapTargetWithinBounds,
         OverrideRemembered
<1>9. GlobalIsLatestTrade'
  BY <1>3, <1>4 DEF IInv, TypeOK, GlobalIsLatestTrade
<1>10. ListingsCounted'
  <2>1. /\ exchangeSettings \in [Exchanges -> ExchangeSettings]
        /\ enabledExchanges \in [Exchanges -> Nat]
        /\ ListingsCounted
    BY DEF IInv, TypeOK
  <2>2. \A x \in Exchanges : exchangeSettings'[x] = IF x = e THEN s ELSE exchangeSettings[x]
    BY <1>2, <2>1
  <2>3. \A x \in Exchanges : Surplus(x)' = Surplus(x)
    BY <1>1 DEF Surplus
  <2>4. SUFFICES ASSUME NEW x \in Exchanges
                 PROVE  enabledExchanges'[x] =
                          (IF (IF x = e THEN s.twapMaxTradeSize # 0 ELSE Tradable(x))
                             THEN 1 ELSE 0) + Surplus(x)
    BY <2>2, <2>3 DEF ListingsCounted, Tradable
  <2>5. enabledExchanges[x] = (IF Tradable(x) THEN 1 ELSE 0) + Surplus(x)
    BY <2>1 DEF ListingsCounted
  <2>6. Surplus(x) \in Int
    BY DEF IInv, TypeOK, Surplus, Greatest
  <2>7. CASE \E t \in ExchangeChoices : addEnabledExchange(e, t)
    <3>1. /\ enabledExchanges' = [enabledExchanges EXCEPT ![e] = @ + 1]
          /\ ~Tradable(e)
          /\ exchangeSettings'[e].twapMaxTradeSize # 0
      BY <2>1, <2>7 DEF addEnabledExchange, validateExchangeSettings, Tradable
    <3>2. enabledExchanges'[x] = IF x = e THEN enabledExchanges[x] + 1 ELSE enabledExchanges[x]
      BY <2>1, <3>1
    <3>3. s.twapMaxTradeSize # 0
      BY <2>2, <3>1
    <3>4. QED
      BY <2>5, <2>6, <3>1, <3>2, <3>3
  <2>8. CASE \E t \in ExchangeChoices : updateEnabledExchange(e, t)
    <3>1. /\ enabledExchanges' = enabledExchanges
          /\ Tradable(e)
          /\ exchangeSettings'[e].twapMaxTradeSize # 0
      BY <2>1, <2>8 DEF updateEnabledExchange, validateExchangeSettings, Tradable
    <3>2. s.twapMaxTradeSize # 0
      BY <2>2, <3>1
    <3>3. QED
      BY <2>5, <2>6, <3>1, <3>2
  <2>9. CASE removeEnabledExchange(e)
    <3>1. /\ enabledExchanges' = [enabledExchanges EXCEPT ![e] = @ - 1]
          /\ Tradable(e)
          /\ exchangeSettings'[e].twapMaxTradeSize = 0
      BY <2>1, <2>9 DEF removeEnabledExchange, NoExchange, Tradable
    <3>2. enabledExchanges'[x] = IF x = e THEN enabledExchanges[x] - 1 ELSE enabledExchanges[x]
      BY <2>1, <3>1
    <3>3. s.twapMaxTradeSize = 0
      BY <2>2, <3>1
    <3>4. QED
      BY <2>5, <2>6, <3>1, <3>2, <3>3
  <2>10. QED
    BY <2>7, <2>8, <2>9
<1>11. QED
  BY <1>7, <1>8, <1>9, <1>10 DEF IInv

\* The override and the ether calls do.
LEMMA FlagAndEtherStep ==
  ASSUME IInv, events' \in 0 .. MaxEvents,
         \/ \E status \in BOOLEAN : setOverrideNoRebalanceInProgress(status)
         \/ withdrawEtherBalance
         \/ \E amount \in EtherAmounts : receive(amount)
  PROVE  IInv'
<1>1. UNCHANGED <<position, settings, exchanges, twapLeverageRatio, ages, price>>
  BY DEF setOverrideNoRebalanceInProgress, withdrawEtherBalance, receive, market
<1> USE <1>1 DEF position, settings, exchanges, ages
<1>2. etherBalance' \in Nat
  BY ConstantsAssumption
     DEF IInv, TypeOK, setOverrideNoRebalanceInProgress, withdrawEtherBalance, receive
<1>3. /\ overrideNoRebalanceInProgress' \in BOOLEAN
      /\ overrideUsed' \in BOOLEAN
      /\ overrideUsed => overrideUsed'
      /\ OverrideRemembered'
  <2>1. CASE \E status \in BOOLEAN : setOverrideNoRebalanceInProgress(status)
    <3>1. PICK status \in BOOLEAN : setOverrideNoRebalanceInProgress(status)
      BY <2>1
    <3>2. /\ overrideNoRebalanceInProgress' = status
          /\ overrideUsed' = (overrideUsed \/ status)
      BY <3>1 DEF setOverrideNoRebalanceInProgress
    <3>3. overrideUsed \in BOOLEAN
      BY DEF IInv, TypeOK
    <3>4. QED
      BY <3>2, <3>3, Zenon DEF OverrideRemembered
  <2>2. CASE withdrawEtherBalance \/ \E amount \in EtherAmounts : receive(amount)
    <3>1. UNCHANGED flags
      BY <2>2 DEF withdrawEtherBalance, receive
    <3>2. /\ overrideNoRebalanceInProgress' = overrideNoRebalanceInProgress
          /\ overrideUsed' = overrideUsed
      BY <3>1 DEF flags
    <3>3. /\ overrideNoRebalanceInProgress \in BOOLEAN
          /\ overrideUsed \in BOOLEAN
          /\ OverrideRemembered
      BY DEF IInv, TypeOK
    <3>4. QED
      BY <3>2, <3>3, Zenon DEF OverrideRemembered
  <2>3. QED
    BY <2>1, <2>2
<1>4. TypeOK'
  BY <1>2, <1>3 DEF IInv, TypeOK
<1>5. SettingsValid' /\ TwapTargetWithinBounds'
  BY <1>3 DEF IInv, SettingsValid, validateNonExchangeSettings, TwapTargetWithinBounds
<1>6. GlobalIsLatestTrade' /\ ListingsCounted'
  BY DEF IInv, GlobalIsLatestTrade, ListingsCounted, Surplus, Tradable
<1>7. QED
  BY <1>3, <1>4, <1>5, <1>6 DEF IInv

\* All ages grow together, so their order does not change, also at AgeCap.
LEMMA TimeStep ==
  ASSUME TypeOK, GlobalIsLatestTrade, TimePasses
  PROVE  /\ globalAge' \in 0 .. AgeCap
         /\ exchangeAge' \in [Exchanges -> Ages]
         /\ traded' \subseteq Exchanges
         /\ GlobalIsLatestTrade'
<1>1. AgeCap \in Nat
  BY ConstantsAssumption
<1>2. /\ \A a \in 0 .. AgeCap : Older(a) \in 0 .. AgeCap
      /\ \A a \in Ages : Older(a) \in Ages
  BY <1>1 DEF Older, Least, Ages
<1>3. \A a, b \in Ages : a <= b => Older(a) <= Older(b)
  BY <1>1 DEF Older, Least, Ages
<1>4. /\ globalAge' = Older(globalAge) /\ globalAge \in 0 .. AgeCap
      /\ exchangeAge' = [e \in Exchanges |-> Older(exchangeAge[e])]
      /\ \A e \in Exchanges : exchangeAge[e] \in Ages
      /\ \A e \in traded : globalAge <= exchangeAge[e]
      /\ traded' = traded /\ traded \subseteq Exchanges
  BY DEF TimePasses, TypeOK, GlobalIsLatestTrade
<1>5. globalAge' \in 0 .. AgeCap /\ exchangeAge' \in [Exchanges -> Ages]
  BY <1>2, <1>4
<1>6. \A e \in traded' : globalAge' <= exchangeAge'[e]
  <2> SUFFICES ASSUME NEW e \in traded
               PROVE  globalAge' <= exchangeAge'[e]
    BY <1>4
  <2>1. exchangeAge'[e] = Older(exchangeAge[e])
    BY <1>4
  <2>2. globalAge \in Ages
    BY <1>1, <1>4 DEF Ages
  <2>3. QED
    BY <1>3, <1>4, <2>1, <2>2
<1>7. QED
  BY <1>4, <1>5, <1>6 DEF GlobalIsLatestTrade

\* Time, the market and donations do.
LEMMA EnvironmentStep ==
  ASSUME IInv,
         \/ NewBlock
         \/ \E p \in Prices : MarketMove(p)
         \/ \E amount \in Donations : TransferCollateral(amount)
  PROVE  IInv'
<1>1. UNCHANGED <<collateral, loanEquity, settings, exchanges, twapLeverageRatio,
                  flags, etherBalance>>
  BY DEF NewBlock, MarketMove, TransferCollateral, position
<1> USE <1>1 DEF settings, exchanges, flags
<1>2. events' \in 0 .. MaxEvents
  BY ConstantsAssumption
     DEF IInv, TypeOK, NewBlock, MarketMove, TransferCollateral, Event, market
<1>3. price' \in Nat \ {0} /\ loose' \in Nat
  BY ConstantsAssumption
     DEF IInv, TypeOK, NewBlock, MarketMove, TransferCollateral, position, market
<1>4. borrow' \in Nat
  <2>1. CASE \E p \in Prices : MarketMove(p)
    <3>1. borrow' = borrow + preciseMulCeil(borrow, InterestRate)
      BY <2>1 DEF MarketMove
    <3>2. borrow \in Nat /\ InterestRate \in Nat
      BY ConstantsAssumption DEF IInv, TypeOK
    <3>3. preciseMulCeil(borrow, InterestRate) \in Nat
      <4>1. CASE borrow = 0 \/ InterestRate = 0
        BY <4>1 DEF preciseMulCeil
      <4>2. CASE ~(borrow = 0 \/ InterestRate = 0)
        <5>1. borrow * InterestRate - 1 \in Nat
          BY <3>2, <4>2
        <5>2. (borrow * InterestRate - 1) \div PRECISE_UNIT \in Nat
          BY <5>1, PreciseUnitAssumption
        <5>3. QED
          BY <4>2, <5>2 DEF preciseMulCeil
      <4>3. QED
        BY <4>1, <4>2
    <3>4. QED
      BY <3>1, <3>2, <3>3
  <2>2. CASE ~ \E p \in Prices : MarketMove(p)
    <3>1. borrow' = borrow
      BY <2>2 DEF NewBlock, TransferCollateral, position
    <3>2. QED
      BY <3>1 DEF IInv, TypeOK
  <2>3. QED
    BY <2>1, <2>2
<1>5. /\ globalAge' \in 0 .. AgeCap
      /\ exchangeAge' \in [Exchanges -> Ages]
      /\ traded' \subseteq Exchanges
      /\ GlobalIsLatestTrade'
  <2>1. TimePasses \/ UNCHANGED ages
    BY DEF NewBlock, MarketMove, TransferCollateral
  <2>2. CASE TimePasses
    BY <2>2, TimeStep DEF IInv
  <2>3. CASE UNCHANGED ages
    BY <2>3 DEF IInv, TypeOK, GlobalIsLatestTrade, ages
  <2>4. QED
    BY <2>1, <2>2, <2>3
<1>6. TypeOK'
  BY <1>2, <1>3, <1>4, <1>5 DEF IInv, TypeOK
<1>7. SettingsValid' /\ TwapTargetWithinBounds' /\ OverrideRemembered'
  BY DEF IInv, SettingsValid, validateNonExchangeSettings, TwapTargetWithinBounds,
         OverrideRemembered
<1>8. ListingsCounted'
  BY DEF IInv, ListingsCounted, Surplus, Tradable
<1>9. QED
  BY <1>5, <1>6, <1>7, <1>8 DEF IInv

\* The constructor establishes the invariant.
LEMMA InitEstablishes ==
  ASSUME Init
  PROVE  IInv
<1>1. AgeCap \in Nat /\ AgeCap \in 0 .. AgeCap /\ AgeCap \in Ages
  BY ConstantsAssumption DEF Ages
<1>2. NoExchange \in ExchangeSettings /\ NoExchange.twapMaxTradeSize = 0
  BY DEF NoExchange, ExchangeSettings
<1>3. /\ exchangeSettings \in [Exchanges -> ExchangeSettings]
      /\ enabledExchanges \in [Exchanges -> Nat]
      /\ enabledAtDeployment = enabledExchanges
      /\ exchangeAge \in [Exchanges -> Ages]
  <2>1. exchangeSettings \in [Exchanges -> ExchangeSettings]
    BY <1>2, ChoicesAssumption DEF Init
  <2>2. 0 .. MaxListings \subseteq Nat
    BY ConstantsAssumption
  <2>3. InitialAges \union {AgeCap} \subseteq Ages
    BY <1>1, ConstantsAssumption
  <2>4. QED
    BY <2>1, <2>2, <2>3 DEF Init
<1>4. \A e \in Exchanges : Tradable(e) <=> enabledExchanges[e] > 0
  BY <1>2 DEF Init, Tradable, Listed, validateExchangeSettings
<1>5. /\ price \in Nat \ {0} /\ loose \in Nat /\ collateral \in Nat /\ borrow \in Nat
      /\ loanEquity \in Nat /\ twapLeverageRatio \in Nat
      /\ etherBalance \in Nat /\ events \in 0 .. MaxEvents
  BY ConstantsAssumption DEF Init
<1>6. /\ methodology \in MethodologySettings
      /\ execution \in ExecutionSettings
      /\ incentive \in IncentiveSettings
  BY ChoicesAssumption DEF Init
<1>7. TypeOK
  BY <1>1, <1>3, <1>5, <1>6 DEF Init, TypeOK
<1>8. SettingsValid /\ TwapTargetWithinBounds /\ OverrideRemembered
  BY DEF Init, SettingsValid, TwapTargetWithinBounds, OverrideRemembered
<1>9. GlobalIsLatestTrade
  BY DEF Init, GlobalIsLatestTrade
<1>10. ListingsCounted
  BY <1>3, <1>4 DEF ListingsCounted, Surplus, Greatest
<1>11. QED
  BY <1>7, <1>8, <1>9, <1>10 DEF IInv

\* Every step keeps the invariant.
LEMMA NextPreserves ==
  ASSUME IInv, [Next]_vars
  PROVE  IInv'
<1>1. CASE Trade
  BY <1>1, EngageStep, RebalanceStep, IterateStep, RipcordStep DEF Trade
<1>2. CASE Operate
  <2>1. events' \in 0 .. MaxEvents
    BY <1>2, ConstantsAssumption DEF Operate, Event, IInv, TypeOK
  <2>2. QED
    BY <1>2, <2>1, DisengageStep, SettingsStep, ExchangeStep, FlagAndEtherStep
       DEF Operate
<1>3. CASE Environment
  <2>1. CASE \E amount \in EtherAmounts : receive(amount)
    <3>1. events' \in 0 .. MaxEvents
      BY <2>1 DEF receive, market, IInv, TypeOK
    <3>2. QED
      BY <2>1, <3>1, FlagAndEtherStep
  <2>2. CASE ~ \E amount \in EtherAmounts : receive(amount)
    BY <1>3, <2>2, EnvironmentStep DEF Environment
  <2>3. QED
    BY <2>1, <2>2
<1>4. CASE UNCHANGED vars
  BY <1>4 DEF vars, IInv, TypeOK, SettingsValid, TwapTargetWithinBounds,
     GlobalIsLatestTrade, ListingsCounted, Surplus, Tradable, OverrideRemembered
<1>5. QED
  BY <1>1, <1>2, <1>3, <1>4 DEF Next

(***************************************************************************)
(* The theorems.                                                           *)
(***************************************************************************)
\* The inductive invariant holds in every reachable state.
THEOREM Invariance == Spec => []IInv
<1>1. Init => IInv
  BY InitEstablishes
<1>2. IInv /\ [Next]_vars => IInv'
  BY NextPreserves
<1>3. QED
  BY <1>1, <1>2, PTL DEF Spec

\* Every variable keeps its type: no sequence of trades, fees, fills and rewards
\* makes a balance of MorphoLeverageStrategyExtension's position negative.
THEOREM TypeCorrectness == Spec => []TypeOK
<1>1. IInv => TypeOK
  BY DEF IInv
<1>2. QED
  BY <1>1, Invariance, PTL

\* A TWAP aims within the leverage bounds for as long as it lasts.
THEOREM TwapStaysWithinBounds == Spec => []TwapTargetWithinBounds
<1>1. IInv => TwapTargetWithinBounds
  BY DEF IInv
<1>2. QED
  BY <1>1, Invariance, PTL

\* globalLastTradeTimestamp is never older than the timestamp of an exchange a
\* trade was recorded for, whatever timestamps the constructor was given.
THEOREM GlobalTimestampIsLatest == Spec => []GlobalIsLatestTrade
<1>1. IInv => GlobalIsLatestTrade
  BY DEF IInv
<1>2. QED
  BY <1>1, Invariance, PTL

\* The keepers' list of exchanges and the exchanges' settings agree, up to the
\* surplus listings of names the constructor was given more than once.
THEOREM ListingsStayCounted == Spec => []ListingsCounted
<1>1. IInv => ListingsCounted
  BY DEF IInv
<1>2. QED
  BY <1>1, Invariance, PTL

\* No step retargets a TWAP while there is debt: engage() requires that there is
\* none, rebalance() that no TWAP is under way, and the other calls keep the
\* target or clear it.
THEOREM TwapKeepsItsTarget == Spec => TwapTargetFixed
<1>1. [Next]_vars =>
        ((twapLeverageRatio # 0 /\ borrow > 0 /\ twapLeverageRatio' # 0) =>
           twapLeverageRatio' = twapLeverageRatio)
  <2> SUFFICES ASSUME [Next]_vars,
                      twapLeverageRatio # 0, borrow > 0, twapLeverageRatio' # 0
               PROVE  twapLeverageRatio' = twapLeverageRatio
    OBVIOUS
  <2>1. CASE Trade
    <3>1. PICK e \in Exchanges :
            engage(e) \/ rebalance(e) \/ iterateRebalance(e) \/ ripcord(e)
      BY <2>1 DEF Trade
    <3>2. ~ engage(e)
      <4>1. engage(e) => borrow = 0
        BY Zenon DEF engage
      <4>2. QED
        BY <4>1
    <3>3. ~ rebalance(e)
      BY DEF rebalance, validateNonTWAP
    <3>4. ~ ripcord(e)
      BY DEF ripcord, updateRipcordState
    <3>5. CASE iterateRebalance(e)
      BY <3>5 DEF iterateRebalance, updateIterateState
    <3>6. QED
      BY <3>1, <3>2, <3>3, <3>4, <3>5
  <2>2. CASE Operate
    BY <2>2 DEF Operate, disengage, setMethodologySettings, setExecutionSettings,
       setIncentiveSettings, setOverrideNoRebalanceInProgress, addEnabledExchange,
       updateEnabledExchange, removeEnabledExchange, withdrawEtherBalance
  <2>3. CASE Environment
    BY <2>3 DEF Environment, NewBlock, MarketMove, TransferCollateral, receive
  <2>4. CASE UNCHANGED vars
    BY <2>4 DEF vars
  <2>5. QED
    BY <2>1, <2>2, <2>3, <2>4 DEF Next
<1>2. QED
  BY <1>1, PTL DEF Spec, TwapTargetFixed

(***************************************************************************)
(* Sizes predicted by keepers and by the test-suite.                       *)
(***************************************************************************)
\* A bound on a quotient's numerator bounds what is left after cancelling d:
\* if d times the gap stays below one and a fraction e/d, the gap is at most the
\* whole part of e/d and one more.
LEMMA GapBound ==
  ASSUME NEW gap \in Int, NEW d \in Nat \ {0}, NEW e \in Nat, d * gap < e + d
  PROVE  gap <= e \div d + 1
<1> DEFINE k == e \div d
<1>1. k \in Nat /\ e < k * d + d
  BY DivRoundsDown
<1> HIDE DEF k
<1>2. k * d + d + d = d * (k + 2) /\ k * d \in Nat /\ d * gap \in Int
  BY <1>1
<1>3. d * gap < d * (k + 2)
  BY <1>1, <1>2
<1>4. gap < k + 2
  BY <1>1, <1>3, CancelFactor
<1>5. QED
  BY <1>1, <1>4 DEF k

\* Dividing first (calculateTotalRebalanceNotionalAave, and the contract) or
\* multiplying first (the V3 formula) are close, for a ratio r of at least one.
LEMMA OrdersOfDivisionAgree ==
  ASSUME NEW diff \in Nat, NEW c \in Nat, NEW r \in Nat, r >= PRECISE_UNIT
  PROVE  /\ preciseDiv(preciseMul(diff, c), r) \in Nat
         /\ preciseMul(preciseDiv(diff, r), c) \in Nat
         /\ preciseDiv(preciseMul(diff, c), r) - preciseMul(preciseDiv(diff, r), c)
              <= c \div PRECISE_UNIT + 1
         /\ preciseMul(preciseDiv(diff, r), c) - preciseDiv(preciseMul(diff, c), r) <= 1
<1> DEFINE U == PRECISE_UNIT
           m == preciseMul(diff, c)
           x == preciseDiv(m, r)
           q == preciseDiv(diff, r)
           y == preciseMul(q, c)
<1>0. U \in Nat \ {0} /\ r \in Nat \ {0} /\ U <= r
  BY PreciseUnitAssumption
<1>1. m \in Nat /\ U * m <= diff * c /\ diff * c < U * m + U
  BY PreciseMulRoundsDown
<1> HIDE DEF m
<1>2. x \in Nat /\ r * x <= m * U /\ m * U < r * x + r
  BY <1>0, <1>1, PreciseDivRoundsDown
<1>3. q \in Nat /\ r * q <= diff * U /\ diff * U < r * q + r
  BY <1>0, PreciseDivRoundsDown
<1> HIDE DEF x, q
<1>4. y \in Nat /\ U * y <= q * c /\ q * c < U * y + U
  BY <1>3, PreciseMulRoundsDown
<1> HIDE DEF y, U
<1>5. U * (x - y) < c + U
  <2>1. r * x <= diff * c /\ r * x \in Nat /\ diff * c \in Nat
    BY <1>0, <1>1, <1>2, ProductIsNat
  <2>2. U * (r * x) <= U * (diff * c)
    BY <1>0, <2>1, ProductIsMonotone
  <2>3. (diff * U) * c <= (r * q + r) * c
    <3>1. diff * U \in Nat /\ r * q + r \in Nat /\ diff * U <= r * q + r
      BY <1>0, <1>3, ProductIsNat
    <3>2. QED
      BY <3>1, ProductIsMonotone
  <2>4. r * (q * c) < r * (U * y + U)
    <3>1. q * c \in Nat /\ U * y + U \in Nat
      BY <1>0, <1>3, <1>4, ProductIsNat
    <3> DEFINE s == q * c
               t == U * y + U
    <3>2. s \in Nat /\ t \in Nat /\ s < t
      BY <1>4, <3>1
    <3> HIDE DEF s, t
    <3>3. r * s < r * t
      BY <1>0, <3>2
    <3>4. QED
      BY <3>3 DEF s, t
  <2>5. /\ (diff * U) * c = U * (diff * c)
        /\ (r * q + r) * c = r * (q * c) + r * c
        /\ r * (U * y + U) = r * (U * y) + r * U
        /\ U * (r * x) = r * (U * x)
    BY <1>0, <1>2, <1>3, <1>4
  <2>6. r * (U * x) < r * (U * y) + r * U + r * c
    <3>1. /\ r * (U * x) \in Nat /\ r * (U * y) \in Nat /\ r * U \in Nat /\ r * c \in Nat
          /\ r * (q * c) \in Nat /\ U * (diff * c) \in Nat
      BY <1>0, <1>2, <1>3, <1>4, ProductIsNat
    <3>2. QED
      BY <2>2, <2>3, <2>4, <2>5, <3>1
  <2>7. r * (U * x) < r * (U * y + U + c)
    BY <1>0, <1>2, <1>4, <2>6
  <2>8. U * x < U * y + U + c
    <3>1. U * x \in Int /\ U * y + U + c \in Int
      BY <1>0, <1>2, <1>4
    <3>2. QED
      BY <1>0, <2>7, <3>1, CancelFactor
  <2>9. U * (x - y) = U * x - U * y /\ U * x \in Nat /\ U * y \in Nat
    BY <1>0, <1>2, <1>4
  <2>10. QED
    BY <1>0, <2>8, <2>9
<1>6. r * (y - x) < r * 2
  <2>1. r * (U * y) <= r * (q * c)
    <3>1. U * y \in Nat /\ q * c \in Nat
      BY <1>0, <1>3, <1>4, ProductIsNat
    <3>2. QED
      BY <1>0, <1>4, <3>1, ProductIsMonotone
  <2>2. (r * q) * c <= (diff * U) * c
    <3>1. r * q \in Nat /\ diff * U \in Nat
      BY <1>0, <1>3, ProductIsNat
    <3>2. QED
      BY <1>3, <3>1, ProductIsMonotone
  <2>3. /\ r * (U * y) = U * (r * y) /\ r * (q * c) = (r * q) * c
        /\ (diff * U) * c = U * (diff * c)
    BY <1>0, <1>3, <1>4
  <2>4. U * (r * y) <= U * (diff * c)
    <3>1. U * (r * y) \in Nat /\ (r * q) * c \in Nat /\ U * (diff * c) \in Nat
      BY <1>0, <1>3, <1>4, ProductIsNat
    <3>2. QED
      BY <2>1, <2>2, <2>3, <3>1
  <2>5. r * y <= diff * c
    <3>1. r * y \in Int /\ diff * c \in Int
      BY <1>0, <1>4
    <3>2. QED
      BY <1>0, <2>4, <3>1, CancelFactor
  <2>6. /\ r * (y - x) = r * y - r * x /\ r * 2 = r + r /\ U * m = m * U
        /\ r * y \in Nat /\ r * x \in Nat /\ diff * c \in Nat /\ m * U \in Nat
    BY <1>0, <1>1, <1>2, <1>4
  <2>7. QED
    BY <1>0, <1>1, <1>2, <2>5, <2>6
<1>7. y - x <= 1
  <2>1. y - x < 2
    BY <1>0, <1>2, <1>4, <1>6, CancelFactor
  <2>2. QED
    BY <1>2, <1>4, <2>1
<1>8. x - y <= c \div U + 1
  <2>1. x - y \in Int
    BY <1>2, <1>4
  <2>2. QED
    BY <1>0, <1>5, <2>1, GapBound
<1>9. QED
  BY <1>2, <1>4, <1>7, <1>8 DEF x, y, q, m, U

\* A quotient does not change when both sides are scaled alike.
LEMMA EqualFractions ==
  ASSUME NEW a \in Nat, NEW u \in Nat \ {0}, NEW b \in Nat, NEW s \in Nat \ {0},
         a * s = b * u
  PROVE  a \div u = b \div s
<1> DEFINE v == a \div u
           w == b \div s
<1>1. v \in Nat /\ v * u <= a /\ a < v * u + u
  BY DivRoundsDown
<1>2. w \in Nat /\ w * s <= b /\ b < w * s + s
  BY DivRoundsDown
<1> HIDE DEF v, w
<1>3. v <= w
  <2>1. (v * u) * s <= a * s
    BY <1>1, ProductIsNat, ProductIsMonotone
  <2>2. (v * u) * s = (v * s) * u /\ v * s \in Int
    BY <1>1
  <2>3. (v * s) * u <= b * u
    BY <2>1, <2>2
  <2>4. v * s <= b
    BY <2>2, <2>3, CancelFactor
  <2>5. v * s < (w + 1) * s
    <3>1. (w + 1) * s = w * s + s /\ w * s \in Nat
      BY <1>2
    <3>2. QED
      BY <1>2, <2>2, <2>4, <3>1
  <2>6. v < w + 1
    BY <1>1, <1>2, <2>5, CancelFactor
  <2>7. QED
    BY <1>1, <1>2, <2>6
<1>4. w <= v
  <2>1. (w * s) * u <= b * u
    BY <1>2, ProductIsNat, ProductIsMonotone
  <2>2. (w * s) * u = (w * u) * s /\ w * u \in Int
    BY <1>2
  <2>3. (w * u) * s <= a * s
    BY <2>1, <2>2
  <2>4. w * u <= a
    BY <2>2, <2>3, CancelFactor
  <2>5. w * u < (v + 1) * u
    <3>1. (v + 1) * u = v * u + u /\ v * u \in Nat
      BY <1>1
    <3>2. QED
      BY <1>1, <2>2, <2>4, <3>1
  <2>6. w < v + 1
    BY <1>1, <1>2, <2>5, CancelFactor
  <2>7. QED
    BY <1>1, <1>2, <2>6
<1>5. QED
  BY <1>1, <1>2, <1>3, <1>4 DEF v, w

\* The unutilized share lowers the cap on a delever, but for rounding: n is the
\* borrow limit with it, m the one without.
LEMMA CapGrowsWithLimit ==
  ASSUME NEW c \in Nat, NEW b \in Nat, NEW n \in Nat \ {0}, NEW m \in Nat,
         b <= n, n <= m
  PROVE  preciseDiv(preciseMul(c, n - b), n)
           <= preciseDiv(preciseMul(c, m - b), m) + 1 + PRECISE_UNIT \div m
<1> DEFINE U == PRECISE_UNIT
           nb == n - b
           mb == m - b
           p == preciseMul(c, nb)
           q == preciseMul(c, mb)
           x == preciseDiv(p, n)
           y == preciseDiv(q, m)
<1>0. U \in Nat \ {0} /\ m \in Nat \ {0} /\ nb \in Nat /\ mb \in Nat
  BY PreciseUnitAssumption
<1>n. nb = n - b /\ mb = m - b
  OBVIOUS
<1> HIDE DEF nb, mb
<1>1. p \in Nat /\ U * p <= c * nb
  BY <1>0, PreciseMulRoundsDown
<1>2. q \in Nat /\ c * mb < U * q + U
  BY <1>0, PreciseMulRoundsDown
<1> HIDE DEF p, q
<1>3. x \in Nat /\ n * x <= p * U
  BY <1>1, PreciseDivRoundsDown
<1>4. y \in Nat /\ q * U < m * y + m
  BY <1>0, <1>2, PreciseDivRoundsDown
<1> HIDE DEF x, y, U
<1>5. n * x <= c * nb /\ n * x \in Nat /\ c * nb \in Nat
  <2>1. p * U = U * p /\ U * p \in Nat
    BY <1>0, <1>1
  <2>2. QED
    BY <1>0, <1>1, <1>3, <2>1, ProductIsNat
<1>6. m * nb <= n * mb
  <2>1. m * nb = m * n - m * b /\ n * mb = n * m - n * b /\ n * m = m * n
    BY <1>n
  <2>2. n * b <= m * b /\ m * b \in Nat /\ n * b \in Nat /\ m * n \in Nat
    BY ProductIsNat, ProductIsMonotone
  <2>3. QED
    BY <2>1, <2>2
<1>7. n * (m * x) <= n * (c * mb)
  <2>1. m * (n * x) <= m * (c * nb)
    BY <1>0, <1>5, ProductIsMonotone
  <2>2. c * (m * nb) <= c * (n * mb)
    <3>1. m * nb \in Nat /\ n * mb \in Nat
      BY <1>0, ProductIsNat
    <3>2. QED
      BY <1>6, <3>1, ProductIsMonotone
  <2>3. /\ m * (n * x) = n * (m * x) /\ m * (c * nb) = c * (m * nb)
        /\ c * (n * mb) = n * (c * mb)
    BY <1>0, <1>3
  <2>4. n * (m * x) \in Nat /\ c * (m * nb) \in Nat /\ n * (c * mb) \in Nat
    BY <1>0, <1>3, ProductIsNat
  <2>5. QED
    BY <2>1, <2>2, <2>3, <2>4
<1>8. m * x <= c * mb
  <2>1. m * x \in Int /\ c * mb \in Int
    BY <1>0, <1>3
  <2>2. QED
    BY <1>7, <2>1, CancelFactor
<1>9. m * (x - y) < U + m
  <2>1. /\ m * (x - y) = m * x - m * y /\ q * U = U * q
        /\ m * x \in Nat /\ m * y \in Nat /\ U * q \in Nat /\ c * mb \in Nat
    BY <1>0, <1>2, <1>3, <1>4
  <2>2. QED
    BY <1>0, <1>2, <1>4, <1>8, <2>1
<1>10. x - y <= U \div m + 1
  <2>1. x - y \in Int
    BY <1>3, <1>4
  <2>2. QED
    BY <1>0, <1>9, <2>1, GapBound
<1>11. U \div m \in Nat
  BY <1>0, DivRoundsDown
<1>12. x <= y + 1 + U \div m
  BY <1>3, <1>4, <1>10, <1>11
<1>13. QED
  BY <1>12 DEF x, y, p, q, nb, mb, U

\* A leverage ratio is at least one.
LEMMA RatioAtLeastOne ==
  ASSUME TypeOK, HasLeverageRatio
  PROVE  currentLeverageRatio \in Nat /\ currentLeverageRatio >= PRECISE_UNIT
<1> DEFINE V == collateralValue(collateral)
           d == V - borrow
<1>1. V \in Nat
  BY CollateralValueNat DEF TypeOK
<1>2. d \in Nat \ {0} /\ d <= V
  BY <1>1 DEF TypeOK, HasLeverageRatio
<1>3. PRECISE_UNIT \in Nat
  BY PreciseUnitAssumption
<1> HIDE DEF V, d
<1>4. PRECISE_UNIT * d <= V * PRECISE_UNIT /\ V * PRECISE_UNIT \in Nat
  BY <1>1, <1>2, <1>3
<1>5. PRECISE_UNIT <= (V * PRECISE_UNIT) \div d
  BY <1>2, <1>3, <1>4, DivAtLeast
<1>6. (V * PRECISE_UNIT) \div d \in Nat
  BY <1>2, <1>4, DivRoundsDown
<1>7. QED
  BY <1>3, <1>5, <1>6 DEF V, d, currentLeverageRatio, preciseDiv

\* The borrow limits are naturals, the net one below the one of Morpho.
LEMMA BorrowLimits ==
  ASSUME TypeOK, SettingsValid, NEW c \in Nat
  PROVE  /\ maxBorrow(c) \in Nat /\ netBorrowLimit(c) \in Nat
         /\ netBorrowLimit(c) <= maxBorrow(c)
<1> DEFINE part == PRECISE_UNIT - execution.unutilizedLeveragePercentage
<1>1. maxBorrow(c) \in Nat
  BY CollateralValueNat, ConstantsAssumption, PreciseMulNat DEF maxBorrow
<1>2. part \in Nat /\ part <= PRECISE_UNIT
  BY PreciseUnitAssumption DEF TypeOK, ExecutionSettings, SettingsValid,
     validateNonExchangeSettings
<1>3. netBorrowLimit(c) = preciseMul(maxBorrow(c), part)
  BY DEF netBorrowLimit
<1> HIDE DEF part
<1>4. QED
  BY <1>1, <1>2, <1>3, PreciseMulNat, PreciseMulOfPart

\* Where the cap on a trade is defined it is not negative.
LEMMA CapIsNat ==
  ASSUME TypeOK, SettingsValid, NEW isLever \in BOOLEAN,
         netBorrowLimit(collateral) >= borrow, netBorrowLimit(collateral) > 0
  PROVE  maxBorrowCollateral(collateral, isLever) \in Nat
<1> DEFINE N == netBorrowLimit(collateral)
           room == N - borrow
<1>1. N \in Nat \ {0} /\ room \in Nat /\ collateral \in Nat
  BY BorrowLimits DEF TypeOK
<1> HIDE DEF N, room
<1>2. CASE isLever
  <2>1. room * PRICE_SCALE \in Nat /\ price \in Nat \ {0}
    BY <1>1, ConstantsAssumption, ProductIsNat DEF TypeOK
  <2>2. (room * PRICE_SCALE) \div price \in Nat
    BY <2>1, DivRoundsDown
  <2>3. QED
    BY <1>2, <2>2 DEF maxBorrowCollateral, N, room
<1>3. CASE ~isLever
  <2>1. preciseMul(collateral, room) \in Nat
    BY <1>1, PreciseMulNat
  <2>2. preciseDiv(preciseMul(collateral, room), N) \in Nat
    BY <1>1, <2>1, PreciseDivRoundsDown
  <2>3. QED
    BY <1>3, <2>2 DEF maxBorrowCollateral, N, room
<1>4. QED
  BY <1>2, <1>3

\* At the target there is nothing to trade.
LEMMA NothingAtTarget ==
  ASSUME NEW c \in Nat, NEW current \in Nat, current > 0
  PROVE  totalRebalanceNotional(c, current, current) = 0
<1>1. preciseDiv(0, current) = 0
  BY PreciseUnitAssumption DEF preciseDiv
<1>2. preciseMul(0, c) = 0
  BY PreciseUnitAssumption DEF preciseMul
<1>3. current - current = 0
  OBVIOUS
<1>4. QED
  BY <1>1, <1>2, <1>3 DEF totalRebalanceNotional

\* getChunkRebalanceNotional takes a target equal to the current ratio for a
\* delever, the calls take it for a lever: there is nothing to trade either way.
LEMMA DirectionAtTarget ==
  ASSUME TypeOK, SettingsValid, HasLeverageRatio,
         netBorrowLimit(collateral) >= borrow, netBorrowLimit(collateral) > 0,
         NEW target \in Nat, NEW size \in Nat
  PROVE  chunkRebalanceNotional(collateral, currentLeverageRatio, target,
                                target > currentLeverageRatio, size)
           = chunkToward(target, size)
<1> DEFINE now == currentLeverageRatio
<1>1. now \in Nat /\ now > 0
  BY RatioAtLeastOne, PreciseUnitAssumption
<1>2. CASE target = now
  <2>1. totalRebalanceNotional(collateral, now, target) = 0
    BY <1>1, <1>2, NothingAtTarget DEF TypeOK
  <2>2. \A isLever \in BOOLEAN :
          chunkRebalanceNotional(collateral, now, target, isLever, size) = 0
    <3>1. TAKE isLever \in BOOLEAN
    <3>2. maxBorrowCollateral(collateral, isLever) \in Nat
      BY CapIsNat
    <3>3. QED
      BY <2>1, <3>2 DEF chunkRebalanceNotional, Least
  <2>3. (target > now) \in BOOLEAN /\ (target >= now) \in BOOLEAN
    BY <1>1
  <2>4. QED
    BY <2>2, <2>3 DEF chunkToward
<1>3. CASE target # now
  <2>1. (target > now) = (target >= now)
    BY <1>1, <1>3
  <2>2. QED
    BY <2>1 DEF chunkToward
<1>4. QED
  BY <1>2, <1>3

\* getChunkRebalanceNotional sizes the call shouldRebalance advises.
LEMMA KeepersSizeTheCall ==
  ASSUME IInv
  PROVE  SizeMatchesAdvice
<1> SUFFICES ASSUME NEW e \in Listed, borrow > 0, HasLeverageRatio,
                    netBorrowLimit(collateral) >= borrow,
                    netBorrowLimit(collateral) > 0
             PROVE  CASE shouldRebalance[e] = "RIPCORD" ->
                      currentLeverageRatio # incentive.incentivizedLeverageRatio =>
                        getChunkRebalanceNotional(e) =
                          chunkToward(methodology.maxLeverageRatio,
                            exchangeSettings[e].incentivizedTwapMaxTradeSize)
                    [] shouldRebalance[e] = "ITERATE_REBALANCE" ->
                      ~isAdvantageousTWAP(currentLeverageRatio) =>
                        getChunkRebalanceNotional(e) =
                          chunkToward(twapLeverageRatio,
                                      exchangeSettings[e].twapMaxTradeSize)
                    [] shouldRebalance[e] = "REBALANCE" ->
                      getChunkRebalanceNotional(e) =
                        chunkToward(newLeverageRatio(currentLeverageRatio),
                                    exchangeSettings[e].twapMaxTradeSize)
                    [] OTHER -> TRUE
  BY DEF SizeMatchesAdvice
<1> DEFINE now == currentLeverageRatio
           advice == shouldRebalanceEnum(e, methodology.minLeverageRatio,
                                         methodology.maxLeverageRatio)
           full == exchangeSettings[e].twapMaxTradeSize
           small == exchangeSettings[e].incentivizedTwapMaxTradeSize
<1>1. TypeOK /\ SettingsValid
  BY DEF IInv
<1>2. now \in Nat
  BY <1>1, RatioAtLeastOne
<1>3. shouldRebalance[e] = advice
  BY DEF shouldRebalance
<1>4. full \in Nat /\ small \in Nat
  BY <1>1 DEF TypeOK, ExchangeSettings, Listed
<1>5. /\ methodology.maxLeverageRatio \in Nat /\ twapLeverageRatio \in Nat
      /\ newLeverageRatio(now) \in Nat /\ incentive.incentivizedLeverageRatio \in Nat
  BY <1>1, <1>2, NewRatioWithinBounds DEF TypeOK, MethodologySettings, IncentiveSettings
<1>6. ASSUME advice = "RIPCORD", now # incentive.incentivizedLeverageRatio
      PROVE  getChunkRebalanceNotional(e) = chunkToward(methodology.maxLeverageRatio, small)
  <2>1. now > incentive.incentivizedLeverageRatio
    BY <1>2, <1>5, <1>6 DEF shouldRebalanceEnum
  <2>2. getChunkRebalanceNotional(e) =
          chunkRebalanceNotional(collateral, now, methodology.maxLeverageRatio,
                                 methodology.maxLeverageRatio > now, small)
    BY <2>1, Zenon DEF getChunkRebalanceNotional
  <2>3. QED
    BY <1>1, <1>4, <1>5, <2>2, DirectionAtTarget
<1>7. ASSUME advice = "ITERATE_REBALANCE"
      PROVE  getChunkRebalanceNotional(e) = chunkToward(twapLeverageRatio, full)
  <2>1. ~(now > incentive.incentivizedLeverageRatio) /\ twapLeverageRatio > 0
    BY <1>2, <1>5, <1>7 DEF shouldRebalanceEnum
  <2>2. getChunkRebalanceNotional(e) =
          chunkRebalanceNotional(collateral, now, twapLeverageRatio,
                                 twapLeverageRatio > now, full)
    BY <2>1, Zenon DEF getChunkRebalanceNotional
  <2>3. QED
    BY <1>1, <1>4, <1>5, <2>2, DirectionAtTarget
<1>8. ASSUME advice = "REBALANCE"
      PROVE  getChunkRebalanceNotional(e) = chunkToward(newLeverageRatio(now), full)
  <2>1. ~(now > incentive.incentivizedLeverageRatio) /\ ~(twapLeverageRatio > 0)
    BY <1>2, <1>5, <1>8 DEF shouldRebalanceEnum
  <2>2. getChunkRebalanceNotional(e) =
          chunkRebalanceNotional(collateral, now, newLeverageRatio(now),
                                 newLeverageRatio(now) > now, full)
    BY <2>1, Zenon DEF getChunkRebalanceNotional
  <2>3. QED
    BY <1>1, <1>4, <1>5, <2>2, DirectionAtTarget
<1> HIDE DEF advice
<1>9. QED
  BY <1>3, <1>6, <1>7, <1>8, Zenon

\* distance is how far apart two ratios are, whichever is larger.
LEMMA DistanceIsDifference ==
  ASSUME NEW now \in Nat, NEW goal \in Nat
  PROVE  /\ distance(now, goal) \in Nat
         /\ distance(now, goal) = IF goal >= now THEN goal - now ELSE now - goal
BY DEF distance

\* The formula of the tests is the contract's total notional.
LEMMA AaveFormulaIsTotal ==
  ASSUME NEW c \in Nat, NEW now \in Nat, NEW goal \in Nat
  PROVE  calculateTotalRebalanceNotionalAave(c, now, goal)
           = totalRebalanceNotional(c, now, goal)
BY DistanceIsDifference, Zenon
   DEF calculateTotalRebalanceNotionalAave, totalRebalanceNotional

\* The collateral priced by the tests is the value the contract computes, when
\* the oracle's price is a whole number of the test's price units.
LEMMA PricesAgree ==
  ASSUME TypeOK, (price * PRECISE_UNIT) % PRICE_SCALE = 0
  PROVE  preciseMul(collateral, preciseDiv(price, PRICE_SCALE))
           = collateralValue(collateral)
<1> DEFINE U == PRECISE_UNIT
           S == PRICE_SCALE
           p == price * U
           K == p \div S
           a == collateral * K
           b == price * collateral
<1>0. U \in Nat \ {0} /\ S \in Nat \ {0} /\ price \in Nat /\ collateral \in Nat
  BY PreciseUnitAssumption, ConstantsAssumption DEF TypeOK
<1>1. p \in Nat /\ p % S = 0 /\ p = price * U
  BY <1>0, ProductIsNat
<1> HIDE DEF p
<1>2. K \in Nat /\ K * S = p
  <2>1. p = S * (p \div S) + (p % S)
    BY <1>0, <1>1
  <2>2. K \in Nat
    BY <1>0, <1>1, DivRoundsDown
  <2>3. QED
    BY <1>0, <1>1, <2>1, <2>2
<1> HIDE DEF K
<1>3. a \in Nat /\ b \in Nat
  BY <1>0, <1>2, ProductIsNat
<1>4. a * S = b * U
  <2>1. a * S = collateral * (K * S)
    BY <1>0, <1>2
  <2>2. collateral * (price * U) = b * U
    BY <1>0
  <2>3. QED
    BY <1>1, <1>2, <2>1, <2>2
<1> HIDE DEF a, b
<1>5. a \div U = b \div S
  BY <1>0, <1>3, <1>4, EqualFractions
<1>6. QED
  BY <1>5 DEF a, b, K, p, U, S, preciseMul, preciseDiv, collateralValue

\* Scaled by one, an amount is what it was.
LEMMA TimesOne == ASSUME NEW b \in Nat PROVE preciseMul(b, PRECISE_UNIT) = b
<1>1. preciseMul(b, PRECISE_UNIT) \in Nat
  BY PreciseUnitAssumption, PreciseMulNat
<1>2. preciseMul(b, PRECISE_UNIT) <= b
  BY PreciseUnitAssumption, PreciseMulOfPart
<1>3. b <= (b * PRECISE_UNIT) \div PRECISE_UNIT
  BY PreciseUnitAssumption, ProductIsNat, DivAtLeast
<1>4. QED
  BY <1>1, <1>2, <1>3 DEF preciseMul

\* The formulas of flexibleLeverage.ts predict the contracts.
LEMMA TestsPredictContracts ==
  ASSUME IInv
  PROVE  ReferenceFormulasAgree
<1> DEFINE now == currentLeverageRatio
           goal == calculateNewLeverageRatio(now, methodology.targetLeverageRatio,
                     methodology.minLeverageRatio, methodology.maxLeverageRatio,
                     methodology.recenteringSpeed)
           cPrice == preciseDiv(price, PRICE_SCALE)
           cap == maxBorrowCollateral(collateral, FALSE)
           aave == calculateTotalRebalanceNotionalAave(collateral, now, goal)
           v3 == calculateTotalRebalanceNotionalAaveV3(collateral, now, goal)
           capV3 == calculateMaxBorrowForDeleverV3(collateral, Lltv, cPrice,
                      PRECISE_UNIT, borrow)
<1> SUFFICES ASSUME ValidLeveragedInfo(1), BorrowCapacityDefined(collateral, FALSE)
             PROVE  /\ goal = newLeverageRatio(now)
                    /\ calculateCollateralRebalanceUnits(now, goal, collateral, Supply)
                         = units(totalToward(goal))
                    /\ distance(v3, totalToward(goal))
                         <= collateral \div PRECISE_UNIT + 1
                    /\ preciseMul(calculateMaxRedeemForDeleverToZero(now, PRECISE_UNIT,
                         collateral, Supply, execution.slippageTolerance), Supply)
                         = deleverToZeroSend(totalToward(PRECISE_UNIT))
                    /\ (price * PRECISE_UNIT) % PRICE_SCALE = 0 =>
                         /\ cap = calculateMaxBorrowForDelever(collateral, Lltv,
                              execution.unutilizedLeveragePercentage, cPrice,
                              PRECISE_UNIT, borrow)
                         /\ cap <= capV3 + 1 + PRECISE_UNIT \div maxBorrow(collateral)
  BY Zenon DEF ReferenceFormulasAgree
<1>1. TypeOK /\ SettingsValid /\ HasLeverageRatio /\ collateral \in Nat /\ borrow \in Nat
  BY DEF IInv, TypeOK, ValidLeveragedInfo
<1>2. now \in Nat /\ now >= PRECISE_UNIT /\ now > 0 /\ PRECISE_UNIT \in Nat
  BY <1>1, RatioAtLeastOne, PreciseUnitAssumption
<1>3. netBorrowLimit(collateral) >= borrow /\ netBorrowLimit(collateral) > 0
  BY DEF BorrowCapacityDefined
<1>4. goal = newLeverageRatio(now)
  <2> DEFINE sum == preciseMul(methodology.targetLeverageRatio,
                               methodology.recenteringSpeed)
                    + preciseMul(PRECISE_UNIT - methodology.recenteringSpeed, now)
  <2>1. /\ methodology.targetLeverageRatio \in Int /\ methodology.recenteringSpeed \in Int
        /\ methodology.maxLeverageRatio \in Int /\ methodology.minLeverageRatio \in Int
        /\ PRECISE_UNIT - methodology.recenteringSpeed \in Int /\ now \in Int
    BY <1>1, <1>2 DEF TypeOK, MethodologySettings
  <2>2. sum \in Int
    <3>1. preciseMul(methodology.targetLeverageRatio, methodology.recenteringSpeed) \in Int
      BY <2>1, PreciseMulInt
    <3>2. preciseMul(PRECISE_UNIT - methodology.recenteringSpeed, now) \in Int
      BY <2>1, PreciseMulInt
    <3>3. QED
      BY <3>1, <3>2
  <2> HIDE DEF sum
  <2>3. Least(sum, methodology.maxLeverageRatio)
          = IF sum < methodology.maxLeverageRatio THEN sum
            ELSE methodology.maxLeverageRatio
    BY <2>1, <2>2 DEF Least
  <2>4. QED
    BY <2>3, Zenon DEF sum, calculateNewLeverageRatio, newLeverageRatio, Greatest
<1>5. goal \in Nat
  BY <1>1, <1>2, <1>4, NewRatioWithinBounds
<1> HIDE DEF goal
<1>6. aave = totalToward(goal)
  BY <1>1, <1>2, <1>5, AaveFormulaIsTotal DEF totalToward
<1>7. calculateCollateralRebalanceUnits(now, goal, collateral, Supply)
        = units(totalToward(goal))
  BY <1>6, Zenon DEF calculateCollateralRebalanceUnits, units
<1>8. distance(v3, totalToward(goal)) <= collateral \div PRECISE_UNIT + 1
  <2> DEFINE diff == distance(now, goal)
             x == preciseDiv(preciseMul(diff, collateral), now)
             y == preciseMul(preciseDiv(diff, now), collateral)
  <2>1. diff \in Nat
    BY <1>2, <1>5, DistanceIsDifference
  <2>2. v3 = x
    BY Zenon DEF calculateTotalRebalanceNotionalAaveV3
  <2>3. totalToward(goal) = y
    BY <1>6, Zenon DEF calculateTotalRebalanceNotionalAave
  <2> HIDE DEF diff
  <2>4. /\ x \in Nat /\ y \in Nat
        /\ x - y <= collateral \div PRECISE_UNIT + 1 /\ y - x <= 1
    BY <1>1, <1>2, <2>1, OrdersOfDivisionAgree
  <2>5. collateral \div PRECISE_UNIT \in Nat
    BY <1>1, PreciseUnitAssumption, DivRoundsDown
  <2> HIDE DEF x, y, v3
  <2>6. QED
    BY <2>2, <2>3, <2>4, <2>5 DEF distance
<1>9. preciseMul(calculateMaxRedeemForDeleverToZero(now, PRECISE_UNIT,
        collateral, Supply, execution.slippageTolerance), Supply)
        = deleverToZeroSend(totalToward(PRECISE_UNIT))
  <2>1. calculateTotalRebalanceNotionalAave(collateral, now, PRECISE_UNIT)
          = totalToward(PRECISE_UNIT)
    BY <1>1, <1>2, AaveFormulaIsTotal DEF totalToward
  <2>2. QED
    BY <2>1, Zenon DEF calculateMaxRedeemForDeleverToZero, deleverToZeroSend,
       deleverSend, units
<1>10. ASSUME (price * PRECISE_UNIT) % PRICE_SCALE = 0
       PROVE  /\ cap = calculateMaxBorrowForDelever(collateral, Lltv,
                         execution.unutilizedLeveragePercentage, cPrice,
                         PRECISE_UNIT, borrow)
              /\ cap <= capV3 + 1 + PRECISE_UNIT \div maxBorrow(collateral)
  <2>1. preciseMul(collateral, cPrice) = collateralValue(collateral)
    BY <1>1, <1>10, PricesAgree
  <2>2. preciseMul(borrow, PRECISE_UNIT) = borrow
    BY <1>1, TimesOne
  <2> HIDE DEF cPrice
  <2>3. cap = preciseDiv(preciseMul(collateral, netBorrowLimit(collateral) - borrow),
                         netBorrowLimit(collateral))
    BY Zenon DEF maxBorrowCollateral
  <2>4. calculateMaxBorrowForDelever(collateral, Lltv,
          execution.unutilizedLeveragePercentage, cPrice, PRECISE_UNIT, borrow)
          = preciseDiv(preciseMul(collateral, netBorrowLimit(collateral) - borrow),
                       netBorrowLimit(collateral))
    BY <2>1, <2>2, Zenon DEF calculateMaxBorrowForDelever, netBorrowLimit, maxBorrow
  <2>5. capV3 = preciseDiv(preciseMul(collateral, maxBorrow(collateral) - borrow),
                           maxBorrow(collateral))
    BY <2>1, <2>2, Zenon DEF calculateMaxBorrowForDeleverV3, maxBorrow
  <2>6. /\ netBorrowLimit(collateral) \in Nat \ {0} /\ maxBorrow(collateral) \in Nat
        /\ borrow <= netBorrowLimit(collateral)
        /\ netBorrowLimit(collateral) <= maxBorrow(collateral)
    BY <1>1, <1>3, BorrowLimits
  <2> HIDE DEF cap, capV3
  <2>7. cap <= capV3 + 1 + PRECISE_UNIT \div maxBorrow(collateral)
    BY <1>1, <2>3, <2>5, <2>6, CapGrowsWithLimit
  <2>8. QED
    BY <2>3, <2>4, <2>7
<1> HIDE DEF cap, capV3, cPrice, v3
<1>11. QED
  BY <1>4, <1>7, <1>8, <1>9, <1>10

\* What keepers and the test-suite compute beforehand is what the calls of
\* MorphoLeverageStrategyExtension trade: getChunkRebalanceNotional although it
\* decides the direction with > and the calls with >=, the formulas of
\* flexibleLeverage.ts although they multiply and divide in another order.
THEOREM SizesAreAsPredicted == Spec => []SizesAsPredicted
<1>1. IInv => SizesAsPredicted
  BY KeepersSizeTheCall, TestsPredictContracts DEF SizesAsPredicted
<1>2. QED
  BY <1>1, Invariance, PTL

(***************************************************************************)
(* Morpho accepts the chunks.                                              *)
(***************************************************************************)
\* Going through per-token units loses tokens, never adds any.
LEMMA DeleverSendAtMost ==
  ASSUME NEW z \in Nat
  PROVE  deleverSend(z) \in Nat /\ deleverSend(z) <= z
<1> DEFINE u == preciseDiv(z, Supply)
<1>1. u \in Nat /\ Supply * u <= z * PRECISE_UNIT /\ Supply \in Nat \ {0}
  BY ConstantsAssumption, PreciseDivRoundsDown
<1> HIDE DEF u
<1>2. (u * Supply) \div PRECISE_UNIT <= z
  <2>1. u * Supply \in Nat /\ u * Supply <= z * PRECISE_UNIT
    BY <1>1, ProductIsNat
  <2>2. QED
    BY <2>1, PreciseUnitAssumption, DivAtMost
<1>3. preciseMul(u, Supply) \in Nat
  BY <1>1, PreciseMulNat
<1>4. QED
  BY <1>2, <1>3 DEF u, deleverSend, units, preciseMul

\* What a lever borrows is worth at most its chunk.
LEMMA LeverSendAtMost ==
  ASSUME TypeOK, NEW k \in Nat, NEW room \in Nat, k * price <= room * PRICE_SCALE
  PROVE  leverSend(k) \in Nat /\ leverSend(k) <= room
<1> DEFINE U == PRECISE_UNIT
           S == PRICE_SCALE
           u == preciseDiv(k, Supply)
           bu == (u * price) \div S
           send == preciseMul(bu, Supply)
<1>0. /\ U \in Nat \ {0} /\ S \in Nat \ {0} /\ Supply \in Nat \ {0} /\ price \in Nat
      /\ k * price <= room * S
  BY PreciseUnitAssumption, ConstantsAssumption DEF TypeOK
<1>1. u \in Nat /\ Supply * u <= k * U
  BY <1>0, PreciseDivRoundsDown
<1> HIDE DEF u
<1>2. u * price \in Nat
  BY <1>0, <1>1, ProductIsNat
<1>3. bu \in Nat /\ bu * S <= u * price
  BY <1>0, <1>2, DivRoundsDown
<1> HIDE DEF bu
<1>4. send \in Nat /\ U * send <= bu * Supply
  BY <1>0, <1>3, PreciseMulRoundsDown
<1>d. send = leverSend(k)
  BY Zenon DEF send, bu, u, S, leverSend, units, calculateBorrowUnits
<1> HIDE DEF send, U, S
<1>5. S * (U * send) <= S * (bu * Supply)
  <2>1. U * send \in Nat /\ bu * Supply \in Nat
    BY <1>0, <1>3, <1>4, ProductIsNat
  <2>2. QED
    BY <1>0, <1>4, <2>1, ProductIsMonotone
<1>6. Supply * (bu * S) <= Supply * (u * price)
  <2>1. bu * S \in Nat
    BY <1>0, <1>3, ProductIsNat
  <2>2. QED
    BY <1>0, <1>2, <1>3, <2>1, ProductIsMonotone
<1>7. price * (Supply * u) <= price * (k * U)
  <2>1. Supply * u \in Nat /\ k * U \in Nat
    BY <1>0, <1>1, ProductIsNat
  <2>2. QED
    BY <1>0, <1>1, <2>1, ProductIsMonotone
<1>8. U * (k * price) <= U * (room * S)
  <2>1. k * price \in Nat /\ room * S \in Nat
    BY <1>0, ProductIsNat
  <2>2. QED
    BY <1>0, <2>1, ProductIsMonotone
<1>9. /\ S * (bu * Supply) = Supply * (bu * S)
      /\ Supply * (u * price) = price * (Supply * u)
      /\ price * (k * U) = U * (k * price)
      /\ U * (room * S) = S * (U * room)
  BY <1>0, <1>1, <1>3
<1>10. S * (U * send) <= S * (U * room)
  <2>1. /\ S * (U * send) \in Nat /\ Supply * (bu * S) \in Nat
        /\ price * (Supply * u) \in Nat /\ U * (k * price) \in Nat
        /\ S * (U * room) \in Nat
    BY <1>0, <1>1, <1>3, <1>4, ProductIsNat
  <2>2. QED
    BY <1>5, <1>6, <1>7, <1>8, <1>9, <2>1
<1>11. U * send <= U * room
  <2>1. U * send \in Int /\ U * room \in Int
    BY <1>0, <1>4
  <2>2. QED
    BY <1>0, <1>10, <2>1, CancelFactor
<1>12. send <= room
  BY <1>0, <1>4, <1>11, CancelFactor
<1>13. QED
  BY <1>4, <1>12, <1>d

\* Morpho accepts that x of the collateral stays, if its part of what Morpho
\* lends against all of it covers the debt and the two roundings.
LEMMA RemainderIsHealthy ==
  ASSUME TypeOK, NEW x \in Nat, collateral > 0,
         PRECISE_UNIT * (maxBorrow(collateral) * x)
           >= collateral * (PRECISE_UNIT * borrow + Lltv)
  PROVE  MorphoHealthy(x, borrow)
<1> DEFINE U == PRECISE_UNIT
           S == PRICE_SCALE
           V == collateralValue(collateral)
           W == collateralValue(x)
           M == maxBorrow(collateral)
           R == maxBorrow(x)
           c == collateral
<1>0. /\ U \in Nat \ {0} /\ S \in Nat \ {0} /\ Lltv \in Nat /\ price \in Nat
      /\ c \in Nat \ {0} /\ borrow \in Nat
  BY PreciseUnitAssumption, ConstantsAssumption DEF TypeOK
<1>1. V \in Nat /\ V * S <= price * c
  BY <1>0, ProductIsNat, DivRoundsDown DEF collateralValue
<1>2. W \in Nat /\ price * x < W * S + S
  BY <1>0, ProductIsNat, DivRoundsDown DEF collateralValue
<1> HIDE DEF V, W
<1>3. M \in Nat /\ U * M <= V * Lltv
  BY <1>0, <1>1, PreciseMulRoundsDown DEF maxBorrow, V
<1>4. R \in Nat /\ W * Lltv < U * R + U
  BY <1>0, <1>2, PreciseMulRoundsDown DEF maxBorrow, W
<1>5. U * (M * x) >= c * (U * borrow + Lltv)
  OBVIOUS
<1> HIDE DEF M, R, U, S, c
<1>6. V * x <= c * (W + 1)
  <2>1. (V * S) * x <= (price * c) * x
    BY <1>0, <1>1, ProductIsNat, ProductIsMonotone
  <2>2. c * (price * x) <= c * (W * S + S)
    <3>1. price * x \in Nat /\ W * S + S \in Nat
      BY <1>0, <1>2, ProductIsNat
    <3>2. price * x <= W * S + S
      BY <1>2, <3>1
    <3>3. QED
      BY <1>0, <3>1, <3>2, ProductIsMonotone
  <2>3. /\ (V * S) * x = S * (V * x) /\ (price * c) * x = c * (price * x)
        /\ c * (W * S + S) = S * (c * (W + 1))
    BY <1>0, <1>1, <1>2
  <2>4. S * (V * x) <= S * (c * (W + 1))
    <3>1. S * (V * x) \in Nat /\ c * (price * x) \in Nat /\ S * (c * (W + 1)) \in Nat
      BY <1>0, <1>1, <1>2, ProductIsNat
    <3>2. QED
      BY <2>1, <2>2, <2>3, <3>1
  <2>5. V * x \in Int /\ c * (W + 1) \in Int
    BY <1>0, <1>1, <1>2
  <2>6. QED
    BY <1>0, <2>4, <2>5, CancelFactor
<1>7. c * (U * borrow + Lltv) <= c * (W * Lltv + Lltv)
  <2>1. Lltv * (V * x) <= Lltv * (c * (W + 1))
    <3>1. V * x \in Nat /\ c * (W + 1) \in Nat
      BY <1>0, <1>1, <1>2, ProductIsNat
    <3>2. QED
      BY <1>0, <1>6, <3>1, ProductIsMonotone
  <2>2. (U * M) * x <= (V * Lltv) * x
    BY <1>0, <1>1, <1>3, ProductIsNat, ProductIsMonotone
  <2>3. /\ (U * M) * x = U * (M * x) /\ (V * Lltv) * x = Lltv * (V * x)
        /\ Lltv * (c * (W + 1)) = c * (W * Lltv + Lltv)
    BY <1>0, <1>1, <1>2, <1>3
  <2>4. /\ U * (M * x) \in Nat /\ Lltv * (V * x) \in Nat
        /\ c * (W * Lltv + Lltv) \in Nat /\ c * (U * borrow + Lltv) \in Nat
    BY <1>0, <1>1, <1>2, <1>3, ProductIsNat
  <2>5. QED
    BY <1>5, <2>1, <2>2, <2>3, <2>4
<1>8. U * borrow <= W * Lltv
  <2>1. /\ U * borrow + Lltv \in Int /\ W * Lltv + Lltv \in Int
        /\ U * borrow \in Nat /\ W * Lltv \in Nat
    BY <1>0, <1>2, ProductIsNat
  <2>2. U * borrow + Lltv <= W * Lltv + Lltv
    BY <1>0, <1>7, <2>1, CancelFactor
  <2>3. QED
    BY <1>0, <2>1, <2>2
<1>9. U * borrow < U * (R + 1)
  <2>1. U * (R + 1) = U * R + U /\ U * R \in Nat /\ W * Lltv \in Nat /\ U * borrow \in Nat
    BY <1>0, <1>2, <1>4, ProductIsNat
  <2>2. QED
    BY <1>0, <1>4, <1>8, <2>1
<1>10. borrow < R + 1
  BY <1>0, <1>4, <1>9, CancelFactor
<1>11. QED
  BY <1>0, <1>4, <1>10 DEF R, MorphoHealthy

\* Withdrawing z, at most the part of the collateral that the debt does not
\* need, leaves enough if the unutilized share is worth a wei.
LEMMA DeleverLeavesEnough ==
  ASSUME TypeOK, SettingsValid, collateral > 0, UnutilizedCovers(0),
         netBorrowLimit(collateral) > 0, NEW x \in Nat,
         collateral * borrow <= netBorrowLimit(collateral) * x
  PROVE  MorphoHealthy(x, borrow)
<1> DEFINE U == PRECISE_UNIT
           ut == execution.unutilizedLeveragePercentage
           w == U - ut
           M == maxBorrow(collateral)
           N == netBorrowLimit(collateral)
           c == collateral
           b == borrow
<1>0. /\ U \in Nat \ {0} /\ Lltv \in Nat /\ c \in Nat \ {0} /\ b \in Nat
      /\ ut \in Nat /\ w \in Nat /\ w + ut = U
  BY PreciseUnitAssumption, ConstantsAssumption
     DEF TypeOK, ExecutionSettings, SettingsValid, validateNonExchangeSettings
<1>1. M \in Nat /\ N \in Nat /\ N > 0 /\ c * b <= N * x
  BY <1>0, BorrowLimits
<1>2. U * N <= M * w
  BY <1>0, <1>1, PreciseMulRoundsDown DEF netBorrowLimit
<1>3. Lltv * w <= b * (ut * U)
  <2>1. b * (ut * U * U - 0 * Lltv * w) >= Lltv * w * U
    BY DEF UnutilizedCovers
  <2> HIDE DEF U, ut, w, b
  <2>2. b * (ut * U * U - 0 * Lltv * w) = (b * (ut * U)) * U
    BY <1>0
  <2>3. b * (ut * U) \in Int /\ Lltv * w \in Int
    BY <1>0
  <2>4. QED
    BY <1>0, <2>1, <2>2, <2>3, CancelFactor
<1> HIDE DEF U, ut, w, M, N, c, b
<1>4. w \in Nat \ {0}
  <2>1. w # 0
    <3>1. U * N \in Nat /\ U * N > 0
      BY <1>0, <1>1
    <3>2. w = 0 => M * w = 0
      BY <1>1
    <3>3. QED
      BY <1>2, <3>1, <3>2
  <2>2. QED
    BY <1>0, <2>1
<1>5. U * (U * (c * b)) <= w * (U * (M * x))
  <2>1. U * (c * b) <= U * (N * x)
    <3>1. c * b \in Nat /\ N * x \in Nat
      BY <1>0, <1>1, ProductIsNat
    <3>2. QED
      BY <1>0, <1>1, <3>1, ProductIsMonotone
  <2>2. (U * N) * x <= (M * w) * x
    BY <1>0, <1>1, <1>2, ProductIsNat, ProductIsMonotone
  <2>3. U * (c * b) <= (M * w) * x
    <3>1. U * (N * x) = (U * N) * x
      BY <1>0, <1>1
    <3>2. U * (c * b) \in Nat /\ (U * N) * x \in Nat /\ (M * w) * x \in Nat
      BY <1>0, <1>1, ProductIsNat
    <3>3. QED
      BY <2>1, <2>2, <3>1, <3>2
  <2>4. U * (U * (c * b)) <= U * ((M * w) * x)
    <3>1. U * (c * b) \in Nat /\ (M * w) * x \in Nat
      BY <1>0, <1>1, ProductIsNat
    <3>2. QED
      BY <1>0, <2>3, <3>1, ProductIsMonotone
  <2>5. U * ((M * w) * x) = w * (U * (M * x))
    BY <1>0, <1>1
  <2>6. QED
    BY <2>4, <2>5
<1>6. w * (c * (U * b + Lltv)) <= U * (U * (c * b))
  <2>1. c * (Lltv * w) <= c * (b * (ut * U))
    <3>1. Lltv * w \in Nat /\ b * (ut * U) \in Nat
      BY <1>0, ProductIsNat
    <3>2. QED
      BY <1>0, <1>3, <3>1, ProductIsMonotone
  <2>2. U * (U * (c * b)) = w * (U * (c * b)) + c * (b * (ut * U))
    <3>1. U * (U * (c * b)) = (w + ut) * (U * (c * b))
      BY <1>0
    <3>2. (w + ut) * (U * (c * b)) = w * (U * (c * b)) + c * (b * (ut * U))
      BY <1>0
    <3>3. QED
      BY <3>1, <3>2
  <2>3. w * (c * (U * b + Lltv)) = w * (U * (c * b)) + c * (Lltv * w)
    BY <1>0
  <2>4. /\ w * (U * (c * b)) \in Nat /\ c * (Lltv * w) \in Nat
        /\ c * (b * (ut * U)) \in Nat
    BY <1>0, ProductIsNat
  <2>5. QED
    BY <2>1, <2>2, <2>3, <2>4
<1>7. w * (c * (U * b + Lltv)) <= w * (U * (M * x))
  <2>1. /\ w * (c * (U * b + Lltv)) \in Nat /\ U * (U * (c * b)) \in Nat
        /\ w * (U * (M * x)) \in Nat
    BY <1>0, <1>1, ProductIsNat
  <2>2. QED
    BY <1>5, <1>6, <2>1
<1>8. c * (U * b + Lltv) <= U * (M * x)
  <2>1. c * (U * b + Lltv) \in Int /\ U * (M * x) \in Int
    BY <1>0, <1>1
  <2>2. QED
    BY <1>4, <1>7, <2>1, CancelFactor
<1>9. U * (M * x) \in Nat /\ c * (U * b + Lltv) \in Nat
  BY <1>0, <1>1, ProductIsNat
<1>10. QED
  BY <1>8, <1>9, RemainderIsHealthy DEF U, M, c, b

\* Deleveraging to a ratio of one withdraws at most the debt's worth: the total
\* toward PRECISE_UNIT, for all its roundings.
LEMMA TotalToZero ==
  ASSUME TypeOK, HasLeverageRatio
  PROVE  /\ totalToward(PRECISE_UNIT) \in Nat
         /\ totalToward(PRECISE_UNIT) * collateralValue(collateral)
              <= collateral * borrow
<1> DEFINE U == PRECISE_UNIT
           V == collateralValue(collateral)
           e == V - borrow
           r == preciseDiv(V, e)
           d == r - U
           q == preciseDiv(d, r)
           t == preciseMul(q, collateral)
           c == collateral
           b == borrow
<1>0. /\ U \in Nat \ {0} /\ V \in Nat /\ b \in Nat /\ c \in Nat
      /\ e \in Nat \ {0} /\ e + b = V
  BY PreciseUnitAssumption, CollateralValueNat DEF TypeOK, HasLeverageRatio
<1>1. r = currentLeverageRatio
  BY Zenon DEF currentLeverageRatio
<1>2. r \in Nat /\ r >= U
  BY <1>1, RatioAtLeastOne
<1>t. totalToward(PRECISE_UNIT) = t
  <2>1. totalToward(PRECISE_UNIT)
          = preciseMul(preciseDiv(IF U >= r THEN U - r ELSE r - U, r), collateral)
    BY <1>1, Zenon DEF totalToward, totalRebalanceNotional
  <2> HIDE DEF r
  <2>2. (IF U >= r THEN U - r ELSE r - U) = d
    BY <1>0, <1>2
  <2>3. QED
    BY <2>1, <2>2
<1> HIDE DEF V, e
<1>3. e * r <= V * U
  BY <1>0, PreciseDivRoundsDown
<1> HIDE DEF r
<1>4. d \in Nat /\ d + U = r /\ r \in Nat \ {0}
  BY <1>0, <1>2
<1> HIDE DEF d
<1>5. q \in Nat /\ r * q <= d * U
  BY <1>4, PreciseDivRoundsDown
<1> HIDE DEF q
<1>6. t \in Nat /\ U * t <= q * c
  BY <1>0, <1>5, PreciseMulRoundsDown
<1> HIDE DEF t, U, c, b
<1>7. d * V <= r * b
  <2>1. (d + U) * (e + b) = r * V /\ (d + U) * (e + b) = r * e + r * b
    BY <1>0, <1>4
  <2>2. r * V = d * V + U * V
    BY <1>0, <1>4
  <2>3. r * e = e * r /\ V * U = U * V
    BY <1>0, <1>4
  <2>4. r * e \in Nat /\ r * b \in Nat /\ d * V \in Nat /\ U * V \in Nat
    BY <1>0, <1>4, ProductIsNat
  <2>5. QED
    BY <1>3, <2>1, <2>2, <2>3, <2>4
<1>8. q * V <= b * U
  <2>1. (r * q) * V <= (d * U) * V
    BY <1>0, <1>4, <1>5, ProductIsNat, ProductIsMonotone
  <2>2. U * (d * V) <= U * (r * b)
    <3>1. d * V \in Nat /\ r * b \in Nat
      BY <1>0, <1>4, ProductIsNat
    <3>2. QED
      BY <1>0, <1>7, <3>1, ProductIsMonotone
  <2>3. /\ (r * q) * V = r * (q * V) /\ (d * U) * V = U * (d * V)
        /\ U * (r * b) = r * (b * U)
    BY <1>0, <1>4, <1>5
  <2>4. r * (q * V) <= r * (b * U)
    <3>1. r * (q * V) \in Nat /\ U * (d * V) \in Nat /\ r * (b * U) \in Nat
      BY <1>0, <1>4, <1>5, ProductIsNat
    <3>2. QED
      BY <2>1, <2>2, <2>3, <3>1
  <2>5. q * V \in Int /\ b * U \in Int
    BY <1>0, <1>5
  <2>6. QED
    BY <1>4, <2>4, <2>5, CancelFactor
<1>9. t * V <= c * b
  <2>1. (U * t) * V <= (q * c) * V
    BY <1>0, <1>5, <1>6, ProductIsNat, ProductIsMonotone
  <2>2. c * (q * V) <= c * (b * U)
    <3>1. q * V \in Nat /\ b * U \in Nat
      BY <1>0, <1>5, ProductIsNat
    <3>2. QED
      BY <1>0, <1>8, <3>1, ProductIsMonotone
  <2>3. /\ (U * t) * V = U * (t * V) /\ (q * c) * V = c * (q * V)
        /\ c * (b * U) = U * (c * b)
    BY <1>0, <1>5, <1>6
  <2>4. U * (t * V) <= U * (c * b)
    <3>1. U * (t * V) \in Nat /\ c * (q * V) \in Nat /\ U * (c * b) \in Nat
      BY <1>0, <1>5, <1>6, ProductIsNat
    <3>2. QED
      BY <2>1, <2>2, <2>3, <3>1
  <2>5. t * V \in Int /\ c * b \in Int
    BY <1>0, <1>6
  <2>6. QED
    BY <1>0, <2>4, <2>5, CancelFactor
<1>10. QED
  BY <1>6, <1>9, <1>t DEF V, c, b

\* The last trade of a disengage, which withdraws the total t and the slippage
\* on it, leaves enough if the unutilized share covers that slippage.
LEMMA LastTradeLeavesEnough ==
  ASSUME TypeOK, SettingsValid, HasLeverageRatio, collateral > 0, borrow > 0,
         UnutilizedCovers(execution.slippageTolerance),
         netBorrowLimit(collateral) > 0,
         NEW t \in Nat, t <= collateral,
         t * collateralValue(collateral) <= collateral * borrow,
         collateral * borrow <= netBorrowLimit(collateral) * (collateral - t),
         NEW send \in Nat,
         PRECISE_UNIT * send <= t * (PRECISE_UNIT + execution.slippageTolerance)
  PROVE  send <= collateral /\ MorphoHealthy(collateral - send, borrow)
<1> DEFINE U == PRECISE_UNIT
           s == execution.slippageTolerance
           ut == execution.unutilizedLeveragePercentage
           w == U - ut
           V == collateralValue(collateral)
           M == maxBorrow(collateral)
           N == netBorrowLimit(collateral)
           c == collateral
           b == borrow
           y == c - t
           g == ut * U * U - s * Lltv * w
<1>0. /\ U \in Nat \ {0} /\ Lltv \in Nat /\ c \in Nat \ {0} /\ b \in Nat \ {0}
      /\ ut \in Nat /\ w \in Nat /\ w + ut = U /\ s \in Nat
  BY PreciseUnitAssumption, ConstantsAssumption
     DEF TypeOK, ExecutionSettings, SettingsValid, validateNonExchangeSettings
<1>1. M \in Nat /\ N \in Nat /\ N > 0 /\ V \in Nat \ {0}
  BY <1>0, BorrowLimits, CollateralValueNat DEF HasLeverageRatio
<1>2. U * N <= M * w
  BY <1>0, <1>1, PreciseMulRoundsDown DEF netBorrowLimit
<1>3. U * M <= V * Lltv
  BY <1>0, <1>1, PreciseMulRoundsDown DEF maxBorrow
<1>4. Lltv * w * U <= b * g
  BY DEF UnutilizedCovers
<1>5. /\ y \in Nat /\ y + t = c /\ t * V <= c * b /\ c * b <= N * y
      /\ U * send <= t * (U + s)
  BY <1>0
<1>g. g = ut * U * U - s * Lltv * w
  OBVIOUS
<1> HIDE DEF U, s, ut, w, V, M, N, c, b, y, g
<1>6. g \in Nat /\ g + s * Lltv * w = ut * U * U
  <2>1. ut * U * U \in Nat /\ s * Lltv * w \in Nat /\ Lltv * w * U \in Nat
    BY <1>0, ProductIsNat
  <2>2. g \in Int /\ g + s * Lltv * w = ut * U * U
    BY <1>g, <2>1
  <2>3. b * g >= 0
    BY <1>0, <1>4, <2>1, <2>2
  <2>4. g >= 0
    BY <1>0, <2>2, <2>3
  <2>5. QED
    BY <2>2, <2>4
<1>7. w \in Nat \ {0}
  <2>1. U * N \in Nat /\ U * N > 0
    BY <1>0, <1>1
  <2>2. w = 0 => M * w = 0
    BY <1>1
  <2>3. QED
    BY <1>0, <1>2, <2>1, <2>2
<1>8. t * V <= N * y
  <2>1. t * V \in Nat /\ c * b \in Nat /\ N * y \in Nat
    BY <1>0, <1>1, <1>5, ProductIsNat
  <2>2. QED
    BY <1>5, <2>1
<1>9. U * (U * N) <= w * (V * Lltv)
  <2>1. U * (U * N) <= U * (M * w)
    BY <1>0, <1>1, <1>2, ProductIsNat, ProductIsMonotone
  <2>2. w * (U * M) <= w * (V * Lltv)
    BY <1>0, <1>1, <1>3, ProductIsNat, ProductIsMonotone
  <2>3. U * (M * w) = w * (U * M)
    BY <1>0, <1>1
  <2>4. U * (U * N) \in Nat /\ w * (U * M) \in Nat /\ w * (V * Lltv) \in Nat
    BY <1>0, <1>1, ProductIsNat
  <2>5. QED
    BY <2>1, <2>2, <2>3, <2>4
<1>10. s * N <= U * V
  <2>1. s * (U * (U * N)) <= s * (w * (V * Lltv))
    BY <1>0, <1>1, <1>9, ProductIsNat, ProductIsMonotone
  <2>2. V * (s * Lltv * w) <= V * (ut * U * U)
    <3>1. s * Lltv * w \in Nat /\ ut * U * U \in Nat
      BY <1>0, ProductIsNat
    <3>2. s * Lltv * w <= ut * U * U
      BY <1>6, <3>1
    <3>3. QED
      BY <1>1, <3>1, <3>2, ProductIsMonotone
  <2>3. ut * (U * (U * V)) <= U * (U * (U * V))
    BY <1>0, <1>1, ProductIsNat, ProductIsMonotone
  <2>4. /\ s * (U * (U * N)) = U * (U * (s * N))
        /\ s * (w * (V * Lltv)) = V * (s * Lltv * w)
        /\ V * (ut * U * U) = ut * (U * (U * V))
    BY <1>0, <1>1
  <2>5. U * (U * (s * N)) <= U * (U * (U * V))
    <3>1. /\ U * (U * (s * N)) \in Nat /\ V * (s * Lltv * w) \in Nat
          /\ ut * (U * (U * V)) \in Nat /\ U * (U * (U * V)) \in Nat
      BY <1>0, <1>1, ProductIsNat
    <3>2. QED
      BY <2>1, <2>2, <2>3, <2>4, <3>1
  <2>6. U * (s * N) <= U * (U * V)
    <3>1. U * (s * N) \in Int /\ U * (U * V) \in Int
      BY <1>0, <1>1
    <3>2. QED
      BY <1>0, <2>5, <3>1, CancelFactor
  <2>7. s * N \in Int /\ U * V \in Int
    BY <1>0, <1>1
  <2>8. QED
    BY <1>0, <2>6, <2>7, CancelFactor
<1>11. s * t <= U * y
  <2>1. s * (t * V) <= s * (N * y)
    BY <1>0, <1>1, <1>5, <1>8, ProductIsNat, ProductIsMonotone
  <2>2. (s * N) * y <= (U * V) * y
    BY <1>0, <1>1, <1>5, <1>10, ProductIsNat, ProductIsMonotone
  <2>3. /\ s * (t * V) = V * (s * t) /\ s * (N * y) = (s * N) * y
        /\ (U * V) * y = V * (U * y)
    BY <1>0, <1>1, <1>5
  <2>4. V * (s * t) <= V * (U * y)
    <3>1. V * (s * t) \in Nat /\ (s * N) * y \in Nat /\ V * (U * y) \in Nat
      BY <1>0, <1>1, <1>5, ProductIsNat
    <3>2. QED
      BY <2>1, <2>2, <2>3, <3>1
  <2>5. s * t \in Int /\ U * y \in Int
    BY <1>0, <1>5
  <2>6. QED
    BY <1>1, <2>4, <2>5, CancelFactor
<1>12. send <= c
  <2>1. t * (U + s) = U * t + s * t /\ U * c = U * y + U * t
    BY <1>0, <1>5
  <2>2. U * send \in Nat /\ U * t \in Nat /\ s * t \in Nat /\ U * y \in Nat
    BY <1>0, <1>5, ProductIsNat
  <2>3. U * send <= U * c
    BY <1>5, <1>11, <2>1, <2>2
  <2>4. QED
    BY <1>0, <2>3, CancelFactor
<1> DEFINE x == c - send
<1>13. x \in Nat /\ U * y <= U * x + s * t
  <2>1. x \in Nat /\ U * x = U * c - U * send
    BY <1>0, <1>12
  <2>2. t * (U + s) = U * t + s * t /\ U * c = U * y + U * t
    BY <1>0, <1>5
  <2>3. /\ U * send \in Nat /\ U * t \in Nat /\ s * t \in Nat /\ U * y \in Nat
        /\ U * c \in Nat
    BY <1>0, <1>5, ProductIsNat
  <2>4. QED
    BY <1>5, <2>1, <2>2, <2>3
<1> HIDE DEF x
<1>14. U * (M * (U * y)) <= U * (M * (U * x)) + s * (Lltv * (N * y))
  <2>1. M * (U * y) <= M * (U * x + s * t)
    <3>1. U * y \in Nat /\ U * x + s * t \in Nat
      BY <1>0, <1>5, <1>13, ProductIsNat
    <3>2. QED
      BY <1>1, <1>13, <3>1, ProductIsMonotone
  <2>2. U * (M * (U * y)) <= U * (M * (U * x + s * t))
    <3>1. M * (U * y) \in Nat /\ M * (U * x + s * t) \in Nat
      BY <1>0, <1>1, <1>5, <1>13, ProductIsNat
    <3>2. QED
      BY <1>0, <2>1, <3>1, ProductIsMonotone
  <2>3. (U * M) * (s * t) <= (V * Lltv) * (s * t)
    BY <1>0, <1>1, <1>3, ProductIsNat, ProductIsMonotone
  <2>4. (s * Lltv) * (t * V) <= (s * Lltv) * (N * y)
    BY <1>0, <1>1, <1>5, <1>8, ProductIsNat, ProductIsMonotone
  <2>5. /\ U * (M * (U * x + s * t)) = U * (M * (U * x)) + (U * M) * (s * t)
        /\ (V * Lltv) * (s * t) = (s * Lltv) * (t * V)
        /\ (s * Lltv) * (N * y) = s * (Lltv * (N * y))
    BY <1>0, <1>1, <1>5, <1>13
  <2>6. /\ U * (M * (U * y)) \in Nat /\ U * (M * (U * x)) \in Nat
        /\ (U * M) * (s * t) \in Nat /\ (s * Lltv) * (t * V) \in Nat
        /\ s * (Lltv * (N * y)) \in Nat
    BY <1>0, <1>1, <1>5, <1>13, ProductIsNat
  <2>7. QED
    BY <2>2, <2>3, <2>4, <2>5, <2>6
<1>15. U * (U * (U * (N * y)))
         <= w * (U * (M * (U * x))) + w * (s * (Lltv * (N * y)))
  <2>1. (U * N) * (U * (U * y)) <= (M * w) * (U * (U * y))
    BY <1>0, <1>1, <1>2, <1>5, ProductIsNat, ProductIsMonotone
  <2>2. w * (U * (M * (U * y)))
          <= w * (U * (M * (U * x)) + s * (Lltv * (N * y)))
    <3>1. U * (M * (U * y)) \in Nat /\ U * (M * (U * x)) + s * (Lltv * (N * y)) \in Nat
      BY <1>0, <1>1, <1>5, <1>13, ProductIsNat
    <3>2. QED
      BY <1>0, <1>14, <3>1, ProductIsMonotone
  <2>3. /\ (U * N) * (U * (U * y)) = U * (U * (U * (N * y)))
        /\ (M * w) * (U * (U * y)) = w * (U * (M * (U * y)))
    BY <1>0, <1>1, <1>5
  <2>4. w * (U * (M * (U * x)) + s * (Lltv * (N * y)))
          = w * (U * (M * (U * x))) + w * (s * (Lltv * (N * y)))
    BY <1>0, <1>1, <1>5, <1>13
  <2>5. /\ U * (U * (U * (N * y))) \in Nat /\ w * (U * (M * (U * y))) \in Nat
        /\ w * (U * (M * (U * x))) + w * (s * (Lltv * (N * y))) \in Nat
    BY <1>0, <1>1, <1>5, <1>13, ProductIsNat
  <2>6. QED
    BY <2>1, <2>2, <2>3, <2>4, <2>5
<1>16. (U * U * w + g) * (N * y) <= w * (U * (M * (U * x)))
  <2>1. U * (U * (U * (N * y))) = (U * U * w + ut * U * U) * (N * y)
    <3>1. U * (U * (U * (N * y))) = (w + ut) * (U * (U * (N * y)))
      BY <1>0
    <3>2. (w + ut) * (U * (U * (N * y))) = (U * U * w + ut * U * U) * (N * y)
      BY <1>0, <1>1, <1>5
    <3>3. QED
      BY <3>1, <3>2
  <2>2. (U * U * w + (g + s * Lltv * w)) * (N * y)
          = (U * U * w + g) * (N * y) + w * (s * (Lltv * (N * y)))
    BY <1>0, <1>1, <1>5, <1>6
  <2>3. /\ (U * U * w + g) * (N * y) \in Nat /\ w * (s * (Lltv * (N * y))) \in Nat
        /\ w * (U * (M * (U * x))) \in Nat
    BY <1>0, <1>1, <1>5, <1>6, <1>13, ProductIsNat
  <2>4. QED
    BY <1>6, <1>15, <2>1, <2>2, <2>3
<1>17. (U * U * w + g) * (c * b) <= (U * U * w + g) * (N * y)
  <2>1. U * U * w + g \in Nat /\ c * b \in Nat /\ N * y \in Nat
    BY <1>0, <1>1, <1>5, <1>6, ProductIsNat
  <2>2. QED
    BY <1>5, <2>1, ProductIsMonotone
<1>18. (w * U) * (c * (U * b + Lltv)) <= (U * U * w + g) * (c * b)
  <2>1. c * (Lltv * w * U) <= c * (b * g)
    <3>1. Lltv * w * U \in Nat /\ b * g \in Nat
      BY <1>0, <1>6, ProductIsNat
    <3>2. QED
      BY <1>0, <1>4, <3>1, ProductIsMonotone
  <2>2. /\ (w * U) * (c * (U * b + Lltv)) = (U * U * w) * (c * b) + c * (Lltv * w * U)
        /\ (U * U * w + g) * (c * b) = (U * U * w) * (c * b) + c * (b * g)
    BY <1>0, <1>6
  <2>3. /\ (U * U * w) * (c * b) \in Nat /\ c * (Lltv * w * U) \in Nat
        /\ c * (b * g) \in Nat
    BY <1>0, <1>6, ProductIsNat
  <2>4. QED
    BY <2>1, <2>2, <2>3
<1>19. c * (U * b + Lltv) <= U * (M * x)
  <2>1. w * (U * (M * (U * x))) = (w * U) * (U * (M * x))
    BY <1>0, <1>1, <1>13
  <2>2. /\ (w * U) * (c * (U * b + Lltv)) \in Nat
        /\ (U * U * w + g) * (c * b) \in Nat /\ (U * U * w + g) * (N * y) \in Nat
        /\ (w * U) * (U * (M * x)) \in Nat
    BY <1>0, <1>1, <1>5, <1>6, <1>13, ProductIsNat
  <2>3. (w * U) * (c * (U * b + Lltv)) <= (w * U) * (U * (M * x))
    BY <1>16, <1>17, <1>18, <2>1, <2>2
  <2>4. c * (U * b + Lltv) \in Int /\ U * (M * x) \in Int /\ w * U \in Nat \ {0}
    BY <1>0, <1>1, <1>7, <1>13
  <2>5. QED
    BY <2>3, <2>4, CancelFactor
<1>20. MorphoHealthy(x, borrow)
  <2>1. U * (M * x) \in Nat /\ c * (U * b + Lltv) \in Nat
    BY <1>0, <1>1, <1>13, ProductIsNat
  <2>2. QED
    BY <1>13, <1>19, <2>1, RemainderIsHealthy DEF U, M, c, b
<1>21. QED
  BY <1>12, <1>20 DEF x, c

\* Every chunk is a natural number no larger than the cap and the total.
LEMMA ChunkWithinCap ==
  ASSUME TypeOK, SettingsValid, HasLeverageRatio, NEW isLever \in BOOLEAN,
         netBorrowLimit(collateral) >= borrow, netBorrowLimit(collateral) > 0,
         NEW target \in Nat, NEW size \in Nat
  PROVE  LET chunk == chunkRebalanceNotional(collateral, currentLeverageRatio,
                                             target, isLever, size)
         IN  chunk \in Nat /\ chunk <= maxBorrowCollateral(collateral, isLever)
<1> DEFINE cap == maxBorrowCollateral(collateral, isLever)
           total == totalRebalanceNotional(collateral, currentLeverageRatio, target)
           now == currentLeverageRatio
           diff == IF target >= now THEN target - now ELSE now - target
<1>1. cap \in Nat
  BY CapIsNat
<1>2. now \in Nat \ {0}
  BY RatioAtLeastOne, PreciseUnitAssumption
<1>3. diff \in Nat
  BY <1>2
<1>4. total = preciseMul(preciseDiv(diff, now), collateral)
  BY Zenon DEF totalRebalanceNotional
<1> HIDE DEF diff, now
<1>5. preciseDiv(diff, now) \in Nat
  BY <1>2, <1>3, PreciseDivRoundsDown
<1>6. total \in Nat
  BY <1>4, <1>5, PreciseMulNat DEF TypeOK
<1> HIDE DEF cap, total
<1>7. Least(Least(cap, total), size) \in Nat /\ Least(Least(cap, total), size) <= cap
  BY <1>1, <1>6 DEF Least
<1>8. QED
  BY <1>7, Zenon DEF cap, total, chunkRebalanceNotional

\* Morpho accepts every chunk.
LEMMA ChunksAreAccepted ==
  ASSUME IInv
  PROVE  MorphoAcceptsChunk
<1> DEFINE targets == {PRECISE_UNIT, methodology.maxLeverageRatio, twapLeverageRatio,
                       newLeverageRatio(currentLeverageRatio)}
           sizes(e) == {exchangeSettings[e].twapMaxTradeSize,
                        exchangeSettings[e].incentivizedTwapMaxTradeSize}
           chunk(target, isLever, size) ==
             chunkRebalanceNotional(collateral, currentLeverageRatio, target,
                                    isLever, size)
           last == deleverToZeroSend(totalToward(PRECISE_UNIT))
           N == netBorrowLimit(collateral)
           c == collateral
           b == borrow
<1> SUFFICES ASSUME ValidLeveragedInfo(1), BorrowCapacityDefined(collateral, FALSE),
                    NEW e \in Listed, NEW target \in targets,
                    NEW size \in sizes(e)
             PROVE  /\ MorphoHealthy(collateral, borrow + leverSend(chunk(target, TRUE, size)))
                    /\ deleverSend(chunk(target, FALSE, size)) <= collateral
                    /\ UnutilizedCovers(0) =>
                         MorphoHealthy(collateral
                                         - deleverSend(chunk(target, FALSE, size)), borrow)
                    /\ (/\ target = PRECISE_UNIT
                        /\ totalToward(target) <= chunk(target, FALSE, size)
                        /\ UnutilizedCovers(execution.slippageTolerance)) =>
                         last <= collateral /\ MorphoHealthy(collateral - last, borrow)
  BY Zenon DEF MorphoAcceptsChunk
<1>1. TypeOK /\ SettingsValid /\ HasLeverageRatio /\ collateral > 0 /\ borrow > 0
  BY DEF IInv, ValidLeveragedInfo
<1>2. N \in Nat \ {0} /\ N >= b /\ b \in Nat /\ c \in Nat /\ N <= maxBorrow(c)
      /\ maxBorrow(c) \in Nat
  BY <1>1, BorrowLimits DEF BorrowCapacityDefined, TypeOK
<1>3. target \in Nat /\ size \in Nat
  <2>1. currentLeverageRatio \in Int
    BY <1>1, RatioAtLeastOne
  <2>2. newLeverageRatio(currentLeverageRatio) \in Nat
    BY <1>1, <2>1, NewRatioWithinBounds
  <2>3. PRECISE_UNIT \in Nat /\ methodology.maxLeverageRatio \in Nat /\ twapLeverageRatio \in Nat
    BY <1>1, PreciseUnitAssumption DEF TypeOK, MethodologySettings
  <2>4. exchangeSettings[e] \in ExchangeSettings
    BY <1>1 DEF TypeOK, Listed
  <2>5. QED
    BY <2>2, <2>3, <2>4 DEF ExchangeSettings
<1> HIDE DEF targets, sizes
<1> DEFINE up == chunk(target, TRUE, size)
           down == chunk(target, FALSE, size)
           room == N - b
<1>c. netBorrowLimit(collateral) >= borrow /\ netBorrowLimit(collateral) > 0
  BY DEF BorrowCapacityDefined
<1>4. up \in Nat /\ up <= maxBorrowCollateral(collateral, TRUE)
  <2>1. TRUE \in BOOLEAN
    OBVIOUS
  <2>2. QED
    BY <1>1, <1>3, <1>c, <2>1, ChunkWithinCap, Zenon
<1>5. down \in Nat /\ down <= maxBorrowCollateral(collateral, FALSE)
  <2>1. FALSE \in BOOLEAN
    OBVIOUS
  <2>2. QED
    BY <1>1, <1>3, <1>c, <2>1, ChunkWithinCap, Zenon
<1>6. maxBorrowCollateral(collateral, TRUE) = (room * PRICE_SCALE) \div price
  BY Zenon DEF maxBorrowCollateral
<1>7. maxBorrowCollateral(collateral, FALSE) = preciseDiv(preciseMul(c, room), N)
  BY Zenon DEF maxBorrowCollateral
<1>8. room \in Nat /\ room + b = N
  BY <1>2
<1> HIDE DEF chunk, up, down, room, N, c, b
<1>9. MorphoHealthy(collateral, borrow + leverSend(up))
  <2> DEFINE k == (room * PRICE_SCALE) \div price
  <2>1. room * PRICE_SCALE \in Nat /\ price \in Nat \ {0}
    BY <1>1, <1>8, ConstantsAssumption, ProductIsNat DEF TypeOK
  <2>2. k \in Nat /\ k * price <= room * PRICE_SCALE
    BY <2>1, DivRoundsDown
  <2>3. up * price <= k * price /\ up * price \in Nat /\ k * price \in Nat
    BY <1>4, <1>6, <2>1, <2>2, ProductIsNat, ProductIsMonotone
  <2>4. up * price <= room * PRICE_SCALE
    BY <2>1, <2>2, <2>3
  <2>5. leverSend(up) \in Nat /\ leverSend(up) <= room
    BY <1>1, <1>4, <1>8, <2>4, LeverSendAtMost
  <2>6. b + leverSend(up) <= maxBorrow(c)
    BY <1>2, <1>8, <2>5
  <2>7. QED
    BY <2>6 DEF MorphoHealthy, b, c
\* What is not needed: N times the cap is at most c times the room.
<1>10. N * down <= c * room /\ N * down \in Nat /\ c * room \in Nat
  <2> DEFINE m == preciseMul(c, room)
             k == preciseDiv(m, N)
  <2>1. m \in Nat /\ PRECISE_UNIT * m <= c * room
    BY <1>2, <1>8, PreciseMulRoundsDown
  <2> HIDE DEF m
  <2>2. k \in Nat /\ N * k <= m * PRECISE_UNIT
    BY <1>2, <2>1, PreciseDivRoundsDown
  <2>3. down <= k
    BY <1>5, <1>7 DEF m
  <2> HIDE DEF k
  <2>4. N * down <= N * k /\ N * down \in Nat /\ N * k \in Nat
    BY <1>2, <1>5, <2>2, <2>3, ProductIsNat, ProductIsMonotone
  <2>5. m * PRECISE_UNIT = PRECISE_UNIT * m /\ PRECISE_UNIT * m \in Nat
    BY <2>1, PreciseUnitAssumption, ProductIsNat
  <2>6. c * room \in Nat
    BY <1>2, <1>8, ProductIsNat
  <2>7. QED
    BY <2>1, <2>2, <2>4, <2>5, <2>6
<1>11. ASSUME NEW z \in Nat, z <= down
       PROVE  z <= c /\ c * b <= N * (c - z)
  <2>1. N * z <= c * room
    <3>1. N * z <= N * down /\ N * z \in Nat
      BY <1>2, <1>5, <1>11, ProductIsNat, ProductIsMonotone
    <3>2. QED
      BY <1>10, <3>1
  <2>2. c * room + c * b = N * c /\ c * b \in Nat /\ N * c \in Nat /\ N * z \in Nat
    <3>1. c * room + c * b = c * (room + b)
      BY <1>2, <1>8
    <3>2. c * (room + b) = N * c
      BY <1>2, <1>8
    <3>3. QED
      BY <1>2, <1>11, <3>1, <3>2, ProductIsNat
  <2>3. N * z <= N * c
    BY <1>10, <2>1, <2>2
  <2>4. z <= c
    BY <1>2, <1>11, <2>3, CancelFactor
  <2>5. N * (c - z) = N * c - N * z
    BY <1>2, <1>11
  <2>6. QED
    BY <1>10, <2>1, <2>2, <2>4, <2>5
<1>12. deleverSend(down) \in Nat /\ deleverSend(down) <= down
  BY <1>5, DeleverSendAtMost
<1>13. deleverSend(down) <= collateral
  BY <1>11, <1>12 DEF c
<1>14. ASSUME UnutilizedCovers(0)
       PROVE  MorphoHealthy(collateral - deleverSend(down), borrow)
  <2>1. c * b <= N * (c - deleverSend(down)) /\ c - deleverSend(down) \in Nat
    BY <1>2, <1>11, <1>12
  <2>2. QED
    BY <1>1, <1>2, <1>14, <2>1, DeleverLeavesEnough DEF c, b, N
<1>15. ASSUME target = PRECISE_UNIT, totalToward(target) <= down,
              UnutilizedCovers(execution.slippageTolerance)
       PROVE  last <= collateral /\ MorphoHealthy(collateral - last, borrow)
  <2> DEFINE t == totalToward(PRECISE_UNIT)
             one == PRECISE_UNIT + execution.slippageTolerance
             z == preciseMul(t, one)
  <2>1. t \in Nat /\ t * collateralValue(collateral) <= collateral * borrow
    BY <1>1, TotalToZero
  <2>2. t <= c /\ c * b <= N * (c - t)
    BY <1>11, <1>15, <2>1
  <2>3. one \in Nat
    BY <1>1, PreciseUnitAssumption DEF TypeOK, ExecutionSettings
  <2>l. last = deleverSend(z)
    BY Zenon DEF deleverToZeroSend
  <2> HIDE DEF t
  <2>4. z \in Nat /\ PRECISE_UNIT * z <= t * one
    BY <2>1, <2>3, PreciseMulRoundsDown
  <2> HIDE DEF z, last
  <2>5. last \in Nat /\ last <= z
    BY <2>4, <2>l, DeleverSendAtMost
  <2>6. PRECISE_UNIT * last <= t * one
    <3>1. PRECISE_UNIT * last <= PRECISE_UNIT * z /\ PRECISE_UNIT * last \in Nat
          /\ PRECISE_UNIT * z \in Nat /\ t * one \in Nat
      BY <2>1, <2>3, <2>4, <2>5, PreciseUnitAssumption, ProductIsNat, ProductIsMonotone
    <3>2. QED
      BY <2>4, <3>1
  <2>7. QED
    BY <1>1, <1>2, <1>15, <2>1, <2>2, <2>5, <2>6, LastTradeLeavesEnough DEF c, b, N
<1>16. QED
  BY <1>9, <1>13, <1>14, <1>15 DEF up, down

\* Morpho's collateral check, applied between the two halves of a trade of
\* MorphoLeverageModule, accepts every chunk the strategy can compute: a lever
\* always, a delever when the unutilized share of the debt is worth a wei, the
\* last trade of disengage() when that share covers the slippage as well.
THEOREM MorphoAcceptsEveryChunk == Spec => []MorphoAcceptsChunk
<1>1. IInv => MorphoAcceptsChunk
  BY ChunksAreAccepted
<1>2. QED
  BY <1>1, Invariance, PTL

(***************************************************************************)
(* The keeper.  Whatever it does are steps of the strategy, so what holds  *)
(* of every behaviour of the strategy holds between a checkUpkeep and its  *)
(* performUpkeep too.                                                      *)
(***************************************************************************)
Advices == {"REBALANCE", "ITERATE_REBALANCE", "RIPCORD"}

\* performData is empty or names a call and an exchange.
PerformDataOK ==
  performData \in {NoData} \union [shouldRebalance : Advices, exchangeName : Exchanges]

\* An upkeep calls the strategy for one of its exchanges.
LEMMA UpkeepIsCall ==
  ASSUME PerformDataOK, performUpkeep
  PROVE  /\ performData.exchangeName \in Exchanges
         /\ \/ rebalance(performData.exchangeName)
            \/ iterateRebalance(performData.exchangeName)
            \/ ripcord(performData.exchangeName)
<1>1. performData # NoData
  BY DEF performUpkeep, NoData
<1>2. QED
  BY <1>1 DEF PerformDataOK, performUpkeep

\* A step of the keeper or beside it is one of the strategy, or none.
LEMMA KeeperStepIsStrategyStep ==
  ASSUME PerformDataOK, [KeeperNext]_kvars
  PROVE  [Next]_vars /\ PerformDataOK'
<1>1. CASE \E e \in Exchanges : checkUpkeep(e)
  <2>1. PICK e \in Exchanges : checkUpkeep(e)
    BY <1>1
  <2>2. customAdvice(e) # "NONE" => customAdvice(e) \in Advices
    BY DEF customAdvice, shouldRebalanceEnum, Advices
  <2>3. QED
    BY <2>1, <2>2 DEF checkUpkeep, PerformDataOK
<1>2. CASE performUpkeep
  <2>1. UNCHANGED performData
    BY <1>2 DEF performUpkeep, keeper
  <2>2. Trade
    BY <1>2, UpkeepIsCall DEF Trade
  <2>3. QED
    BY <2>1, <2>2 DEF Next, PerformDataOK
<1>3. CASE \E l \in LeverageSettingsChoices : setLeverageSettings(l)
  BY <1>3 DEF setLeverageSettings, PerformDataOK
<1>4. CASE StrategyStep
  BY <1>4 DEF StrategyStep, keeper, PerformDataOK
<1>5. CASE UNCHANGED kvars
  BY <1>5 DEF kvars, PerformDataOK
<1>6. QED
  BY <1>1, <1>2, <1>3, <1>4, <1>5 DEF KeeperNext

\* FliRebalanceKeeper and its registry, however late they are, do nothing that
\* callers of MorphoLeverageStrategyExtension could not do by themselves.
THEOREM KeeperIsACaller == KeeperSpec => Spec /\ []PerformDataOK
<1>1. KeeperInit => Init /\ PerformDataOK
  BY DEF KeeperInit, PerformDataOK
<1>2. PerformDataOK /\ [KeeperNext]_kvars => [Next]_vars /\ PerformDataOK'
  BY KeeperStepIsStrategyStep
<1>3. QED
  BY <1>1, <1>2, PTL DEF KeeperSpec, Spec

\* An exchange without a trade size has no settings at all: those stored are
\* validated, those removed deleted as a whole.
RemovedAreDeleted == \A e \in Exchanges : ~Tradable(e) => exchangeSettings[e] = NoExchange

\* Trades, other settings, the market and time leave the exchanges' settings alone.
LEMMA ExchangeSettingsStep ==
  ASSUME [Next]_vars
  PROVE  \/ UNCHANGED exchangeSettings
         \/ \E e \in Exchanges :
              \/ \E s \in ExchangeChoices :
                   addEnabledExchange(e, s) \/ updateEnabledExchange(e, s)
              \/ removeEnabledExchange(e)
<1>1. CASE Trade
  BY <1>1 DEF Trade, engage, rebalance, iterateRebalance, ripcord, exchanges
<1>2. CASE Operate
  BY <1>2 DEF Operate, disengage, setMethodologySettings, setExecutionSettings,
     setIncentiveSettings, setOverrideNoRebalanceInProgress, withdrawEtherBalance,
     exchanges
<1>3. CASE Environment
  BY <1>3 DEF Environment, NewBlock, MarketMove, TransferCollateral, receive, exchanges
<1>4. CASE UNCHANGED vars
  BY <1>4 DEF vars
<1>5. QED
  BY <1>1, <1>2, <1>3, <1>4 DEF Next

\* It stays so.
LEMMA RemovedStayDeleted ==
  ASSUME TypeOK, RemovedAreDeleted, [Next]_vars
  PROVE  RemovedAreDeleted'
<1>1. CASE UNCHANGED exchangeSettings
  BY <1>1 DEF RemovedAreDeleted, Tradable
<1>2. ASSUME NEW e \in Exchanges, NEW s,
             exchangeSettings' = [exchangeSettings EXCEPT ![e] = s],
             s = NoExchange \/ s.twapMaxTradeSize # 0
      PROVE  RemovedAreDeleted'
  <2>1. exchangeSettings \in [Exchanges -> ExchangeSettings]
    BY DEF TypeOK
  <2>2. \A x \in Exchanges : exchangeSettings'[x] = IF x = e THEN s ELSE exchangeSettings[x]
    BY <1>2, <2>1
  <2>3. QED
    BY <1>2, <2>2 DEF RemovedAreDeleted, Tradable
<1>3. QED
  BY <1>1, <1>2, ExchangeSettingsStep
     DEF addEnabledExchange, updateEnabledExchange, removeEnabledExchange,
         validateExchangeSettings

\* A call that goes through is advised in that state, the early iteration aside:
\* its guards imply the conditions of _shouldRebalance, and the exchange it
\* trades on is still listed.
LEMMA CallsAreAdvised ==
  ASSUME IInv, RemovedAreDeleted, NEW e \in Exchanges
  PROVE  /\ rebalance(e) => AdvisedNow(e, "REBALANCE")
         /\ iterateRebalance(e) => AdvisedNow(e, "ITERATE_REBALANCE")
         /\ ripcord(e) => AdvisedNow(e, "RIPCORD")
<1> DEFINE now == currentLeverageRatio
           advice == shouldRebalanceEnum(e, methodology.minLeverageRatio,
                                         methodology.maxLeverageRatio)
           outside == OutsideBounds(now, methodology.minLeverageRatio,
                                    methodology.maxLeverageRatio)
<1>1. TypeOK /\ SettingsValid /\ ListingsCounted
  BY DEF IInv
<1>2. HasLeverageRatio => now \in Int
  BY <1>1, RatioPositive
<1>3. /\ incentive.incentivizedLeverageRatio \in Nat
      /\ incentive.incentivizedTwapCooldownPeriod \in Int
      /\ methodology.rebalanceInterval \in Int /\ execution.twapCooldownPeriod \in Int
      /\ twapLeverageRatio \in Nat /\ globalAge \in Int /\ exchangeAge[e] \in Int
      /\ exchangeSettings[e].twapMaxTradeSize \in Nat
  BY <1>1 DEF TypeOK, MethodologySettings, ExecutionSettings, IncentiveSettings,
     ExchangeSettings, Ages
<1>4. e \in Listed => shouldRebalance[e] = IF HasLeverageRatio THEN advice ELSE "NONE"
  BY DEF shouldRebalance
<1>5. Tradable(e) => e \in Listed
  <2>1. Surplus(e) \in Int /\ Surplus(e) >= 0
    BY <1>1 DEF TypeOK, Surplus, Greatest
  <2>2. Tradable(e) => enabledExchanges[e] = 1 + Surplus(e)
    BY <1>1 DEF ListingsCounted
  <2>3. QED
    BY <2>1, <2>2 DEF Listed
<1>6. ASSUME rebalance(e) PROVE AdvisedNow(e, "REBALANCE")
  <2>1. /\ ValidLeveragedInfo(exchangeSettings[e].twapMaxTradeSize)
        /\ validateNormalRebalance(methodology.rebalanceInterval, globalAge)
        /\ validateNonTWAP
    BY <1>6 DEF rebalance
  <2>2. e \in Listed /\ HasLeverageRatio
    BY <1>3, <1>5, <2>1 DEF ValidLeveragedInfo, Tradable
  <2>3. /\ now < incentive.incentivizedLeverageRatio /\ twapLeverageRatio = 0
        /\ globalAge > methodology.rebalanceInterval \/ outside
    BY <2>1 DEF validateNormalRebalance, validateNonTWAP
  <2>4. advice = "REBALANCE"
    BY <1>2, <1>3, <2>2, <2>3 DEF shouldRebalanceEnum
  <2>5. QED
    BY <1>4, <2>2, <2>4 DEF AdvisedNow
<1>7. ASSUME iterateRebalance(e) PROVE AdvisedNow(e, "ITERATE_REBALANCE")
  <2>1. /\ ValidLeveragedInfo(exchangeSettings[e].twapMaxTradeSize)
        /\ validateNormalRebalance(execution.twapCooldownPeriod, exchangeAge[e])
        /\ validateTWAP
    BY <1>7 DEF iterateRebalance
  <2>2. e \in Listed /\ HasLeverageRatio
    BY <1>3, <1>5, <2>1 DEF ValidLeveragedInfo, Tradable
  <2>3. /\ now < incentive.incentivizedLeverageRatio /\ twapLeverageRatio > 0
        /\ exchangeAge[e] > execution.twapCooldownPeriod \/ outside
    BY <2>1 DEF validateNormalRebalance, validateTWAP
  <2>4. advice = "ITERATE_REBALANCE" \/ (advice = "NONE" /\ outside)
    BY <1>2, <1>3, <2>2, <2>3 DEF shouldRebalanceEnum
  <2>5. QED
    BY <1>4, <2>2, <2>4 DEF AdvisedNow
<1>8. ASSUME ripcord(e) PROVE AdvisedNow(e, "RIPCORD")
  <2>1. /\ ValidLeveragedInfo(exchangeSettings[e].incentivizedTwapMaxTradeSize)
        /\ validateRipcord(exchangeAge[e])
    BY <1>8 DEF ripcord
  <2>2. Tradable(e)
    BY <2>1 DEF ValidLeveragedInfo, RemovedAreDeleted, NoExchange
  <2>3. e \in Listed /\ HasLeverageRatio
    BY <1>5, <2>1, <2>2 DEF ValidLeveragedInfo
  <2>4. /\ now >= incentive.incentivizedLeverageRatio
        /\ incentive.incentivizedTwapCooldownPeriod < exchangeAge[e]
    BY <2>1 DEF validateRipcord
  <2>5. advice = "RIPCORD"
    BY <2>4 DEF shouldRebalanceEnum
  <2>6. QED
    BY <1>4, <2>3, <2>5 DEF AdvisedNow
<1>9. QED
  BY <1>6, <1>7, <1>8

\* Whatever FliRebalanceKeeper.performUpkeep gets through, at whatever delay and
\* however often the registry sends it, is what shouldRebalance advises at that
\* moment, or an iterateRebalance of a position outside the leverage bounds.
THEOREM LateUpkeepsAreHarmless == KeeperSpec => LateUpkeepsAreAdvised
<1>1. KeeperSpec => Spec /\ []PerformDataOK
  BY KeeperIsACaller
<1>2. Spec => []IInv
  BY Invariance
<1>3. Init => RemovedAreDeleted
  BY DEF Init, RemovedAreDeleted, Tradable, validateExchangeSettings
<1>4. IInv /\ RemovedAreDeleted /\ [Next]_vars => RemovedAreDeleted'
  BY RemovedStayDeleted DEF IInv
<1>5. Spec => []RemovedAreDeleted
  BY <1>2, <1>3, <1>4, PTL DEF Spec
<1>6. IInv /\ RemovedAreDeleted /\ PerformDataOK =>
        (performUpkeep => AdvisedNow(performData.exchangeName, performData.shouldRebalance))
  <2> SUFFICES ASSUME IInv, RemovedAreDeleted, PerformDataOK, performUpkeep
               PROVE  AdvisedNow(performData.exchangeName, performData.shouldRebalance)
    OBVIOUS
  <2>1. performData.exchangeName \in Exchanges
    BY UpkeepIsCall
  <2>2. QED
    BY <2>1, CallsAreAdvised DEF performUpkeep
<1>7. QED
  BY <1>1, <1>2, <1>5, <1>6, PTL DEF LateUpkeepsAreAdvised

=============================================================================
