------------------------ MODULE SetTokenUnitsProofs ------------------------
(***************************************************************************)
(* What holds of the units, the streaming fee, the lock and NAV issuance   *)
(* for every rate, price, unit and number of components, and without any   *)
(* bound on time or calls but the ones named.                              *)
(***************************************************************************)
EXTENDS SetTokenUnits, PreciseUnitMathProofs, SumTheorems, TLAPS

\* One more second at a rate.
LEMMA OneMoreSecond ==
  ASSUME NEW t \in Int, NEW last \in Int, NEW rate \in Int
  PROVE  (t + 1 - last) * rate = (t - last) * rate + rate
OBVIOUS

\* What accrueFee would charge now, before the division by a year.
due == IF Charging
       THEN (now - feeState.lastStreamingFeeTimestamp) * feeState.streamingFeePercentage
       ELSE 0

\* A module that charges began to do so in the past.
FeeTypes ==
  /\ now \in Nat /\ owed \in Nat /\ charged \in Nat
  /\ feeState \in [streamingFeePercentage : Nat, lastStreamingFeeTimestamp : Int]
  /\ Charging => feeState.lastStreamingFeeTimestamp \in 0 .. now
  /\ ~Charging => feeState.streamingFeePercentage = 0

FeeInv == FeeTypes /\ charged * ONE_YEAR_IN_SECONDS + due <= owed

LEMMA DueIsNat == ASSUME FeeTypes PROVE due \in Nat
<1>1. CASE ~Charging
  BY <1>1 DEF due
<1>2. CASE Charging
  <2>1. now - feeState.lastStreamingFeeTimestamp \in Nat
    BY <1>2 DEF FeeTypes
  <2> QED
    BY <1>2, <2>1, ProductIsNat DEF due, FeeTypes
<1> QED
  BY <1>1, <1>2

\* takeFee charges no more than is due.
LEMMA TakeFeeCharges ==
  ASSUME FeeInv, Charging, takeFee
  PROVE  charged' \in Nat /\ charged' * ONE_YEAR_IN_SECONDS <= owed
<1> DEFINE year == ONE_YEAR_IN_SECONDS
<1>0. year \in Nat \ {0}
  BY SetTokenUnitsAssumption
<1>1. due \in Nat /\ charged \in Nat /\ owed \in Nat /\ charged * year + due <= owed
  BY DueIsNat DEF FeeInv, FeeTypes
<1>2. charged * year \in Nat
  BY <1>0, <1>1, ProductIsNat
<1>3. CASE charged' = charged
  BY <1>1, <1>2, <1>3
<1>4. CASE charged' = charged + calculateStreamingFee
  <2>1. calculateStreamingFee = due \div year
    BY DEF calculateStreamingFee, due
  <2>2. due \div year \in Nat /\ (due \div year) * year <= due
    BY <1>0, <1>1, DivRoundsDown
  <2> DEFINE fee == due \div year
  <2>3. fee \in Nat /\ fee * year <= due /\ fee * year \in Nat
    BY <1>0, <2>2, ProductIsNat
  <2>4. (charged + fee) * year = charged * year + fee * year
    <3> HIDE DEF fee, year
    <3> QED
      BY <1>0, <1>1, <2>3
  <2>5. charged' = charged + fee
    BY <1>4, <2>1
  <2>6. charged' * year <= owed
    <3> HIDE DEF fee, year
    <3> QED
      BY <1>1, <1>2, <2>3, <2>4, <2>5
  <2> QED
    BY <1>1, <2>3, <2>5, <2>6
<1> QED
  BY <1>3, <1>4 DEF takeFee

\* Of all steps only the fee module's and the passing of time touch the fee.
LEMMA OthersKeepFees ==
  ASSUME [Next]_vars,
         ~accrueFee, ~removeModule, ~Tick,
         \A f \in StreamingFees : ~initialize(f) /\ ~updateStreamingFee(f)
  PROVE  UNCHANGED <<now, owed, charged, feeState>>
<1>1. CASE UNCHANGED vars
  BY <1>1 DEF vars
<1>2. CASE \E q \in Quantities : issue(q) \/ redeem(q)
  BY <1>2 DEF issue, redeem
<1>3. CASE \E s, r \in Components, u \in TradeUnits, x \in Received :
             trade(s, r, u, x) \/ bid(s, r, u, x)
  BY <1>3 DEF trade, bid, exchange
<1>4. CASE StartRebalance
  BY <1>4 DEF StartRebalance, startRebalance
<1>5. CASE NavIssue
  BY <1>5 DEF NavIssue, navIssue
<1>6. CASE NavRedeem
  BY <1>6 DEF NavRedeem, navRedeem
<1>7. CASE Unlock
  BY <1>7 DEF Unlock, unlock
<1> QED
  BY <1>1, <1>2, <1>3, <1>4, <1>5, <1>6, <1>7 DEF Next, Call

\* Whenever the clock of the fee is set to the present, nothing is due.
LEMMA NothingDueYet ==
  ASSUME FeeInv, UNCHANGED <<now, owed>>,
         charged' \in Nat, charged' * ONE_YEAR_IN_SECONDS <= owed,
         feeState' \in [streamingFeePercentage : Nat, lastStreamingFeeTimestamp : Int],
         feeState'.lastStreamingFeeTimestamp = now
  PROVE  FeeInv'
<1>1. FeeTypes'
  BY DEF FeeInv, FeeTypes, Charging, NotCharging
<1>2. due' = 0
  <2>1. (now' - feeState'.lastStreamingFeeTimestamp) = 0
    BY DEF FeeInv, FeeTypes
  <2>2. 0 * feeState'.streamingFeePercentage = 0
    OBVIOUS
  <2> QED
    BY <2>1, <2>2 DEF due
<1>3. charged' * ONE_YEAR_IN_SECONDS \in Nat
  BY SetTokenUnitsAssumption, ProductIsNat
<1>4. (charged * ONE_YEAR_IN_SECONDS + due <= owed)'
  BY <1>2, <1>3
<1> QED
  BY <1>1, <1>4 DEF FeeInv

\* The charges stay within what was owed, step by step.
LEMMA FeeStep == ASSUME FeeInv, [Next]_vars PROVE FeeInv'
<1> DEFINE year == ONE_YEAR_IN_SECONDS
<1>0. year \in Nat \ {0} /\ StreamingFees \subseteq Nat
  BY SetTokenUnitsAssumption
<1>1. /\ due \in Nat /\ charged \in Nat /\ owed \in Nat /\ now \in Nat
      /\ charged * year \in Nat /\ charged * year <= owed
      /\ charged * year + due <= owed
  <2>1. due \in Nat /\ charged \in Nat /\ owed \in Nat /\ now \in Nat
    BY DueIsNat DEF FeeInv, FeeTypes
  <2>2. charged * year \in Nat
    BY <1>0, <2>1, ProductIsNat
  <2>3. charged * year + due <= owed
    BY DEF FeeInv
  <2>4. charged * year <= owed
    <3> HIDE DEF year
    <3> QED
      BY <2>1, <2>2, <2>3
  <2> QED
    BY <2>1, <2>2, <2>3, <2>4
<1>2. CASE accrueFee
  <2>1. charged' \in Nat /\ charged' * year <= owed
    BY <1>2, TakeFeeCharges DEF accrueFee
  <2>2. UNCHANGED <<now, owed>>
        /\ feeState' = [feeState EXCEPT !.lastStreamingFeeTimestamp = now]
    BY <1>2 DEF accrueFee
  <2>3. /\ feeState' \in [streamingFeePercentage : Nat, lastStreamingFeeTimestamp : Int]
        /\ feeState'.lastStreamingFeeTimestamp = now
    BY <1>1, <2>2 DEF FeeInv, FeeTypes
  <2> QED
    BY <2>1, <2>2, <2>3, NothingDueYet
<1>3. ASSUME NEW f \in StreamingFees, updateStreamingFee(f) PROVE FeeInv'
  <2>1. charged' \in Nat /\ charged' * year <= owed
    BY <1>3, TakeFeeCharges DEF updateStreamingFee
  <2>2. UNCHANGED <<now, owed>>
        /\ feeState' = [streamingFeePercentage |-> f, lastStreamingFeeTimestamp |-> now]
    BY <1>3 DEF updateStreamingFee
  <2> QED
    BY <1>0, <1>1, <2>1, <2>2, NothingDueYet
<1>4. ASSUME NEW f \in StreamingFees, initialize(f) PROVE FeeInv'
  <2>1. UNCHANGED <<now, owed, charged>>
        /\ feeState' = [streamingFeePercentage |-> f, lastStreamingFeeTimestamp |-> now]
    BY <1>4 DEF initialize
  <2> QED
    BY <1>0, <1>1, <2>1, NothingDueYet
<1>5. CASE removeModule
  <2>1. UNCHANGED <<now, owed, charged>> /\ feeState' = NotCharging
    BY <1>5 DEF removeModule
  <2>2. FeeTypes'
    BY <1>1, <2>1 DEF FeeTypes, Charging, NotCharging
  <2>3. due' = 0
    BY <2>1 DEF due, Charging
  <2>4. (charged * year + due <= owed)'
    BY <1>1, <2>1, <2>3
  <2> QED
    BY <2>2, <2>4 DEF FeeInv
<1>6. CASE Tick
  <2> DEFINE rate == feeState.streamingFeePercentage
  <2>1. now' = now + 1 /\ owed' = owed + rate /\ UNCHANGED <<charged, feeState>>
    BY <1>6 DEF Tick
  <2>2. rate \in Nat
    BY DEF FeeInv, FeeTypes
  <2>3. FeeTypes'
    BY <1>1, <2>1, <2>2 DEF FeeInv, FeeTypes, Charging
  <2>4. due' = due + rate
    <3>1. CASE Charging
      <4>1. due = (now - feeState.lastStreamingFeeTimestamp) * rate
        BY <3>1 DEF due
      <4>2. Charging'
        BY <2>1, <3>1 DEF Charging, NotCharging
      <4>3. due' = (now' - feeState'.lastStreamingFeeTimestamp)
                     * feeState'.streamingFeePercentage
        BY <4>2 DEF due
      <4>4. now' - feeState'.lastStreamingFeeTimestamp
              = now + 1 - feeState.lastStreamingFeeTimestamp
        BY <1>1, <2>1 DEF FeeInv, FeeTypes
      <4>5. feeState'.streamingFeePercentage = rate
        BY <2>1
      <4>6. due' = (now + 1 - feeState.lastStreamingFeeTimestamp) * rate
        <5> HIDE DEF rate
        <5> QED
          BY <4>3, <4>4, <4>5, Zenon
      <4> QED
        BY <1>1, <2>2, <3>1, <4>1, <4>6, OneMoreSecond DEF FeeInv, FeeTypes
    <3>2. CASE ~Charging
      BY <2>1, <3>2 DEF due, Charging, FeeInv, FeeTypes
    <3> QED
      BY <3>1, <3>2
  <2>5. (charged * year + due <= owed)'
    <3>1. charged' * year = charged * year
      BY <2>1
    <3> HIDE DEF year, rate
    <3> QED
      BY <1>1, <2>1, <2>2, <2>4, <3>1
  <2> QED
    BY <2>3, <2>5 DEF FeeInv
<1>7. CASE UNCHANGED <<now, owed, charged, feeState>>
  BY <1>7 DEF FeeInv, FeeTypes, due, Charging
<1> QED
  BY <1>2, <1>3, <1>4, <1>5, <1>6, <1>7, OthersKeepFees

\* Whatever a manager does with the rate and the module, holders are diluted
\* only at the rates in force while the time passed (StreamingFeeModule).
THEOREM FeesStayWithinOwed == Spec => []FeesWithinOwed
<1>1. Init => FeeInv
  <2> SUFFICES ASSUME Init PROVE FeeInv
    OBVIOUS
  <2>1. FeeTypes
    BY DEF Init, FeeTypes, Charging, NotCharging
  <2>2. due = 0 /\ charged = 0 /\ owed = 0
    BY DEF Init, due, Charging
  <2>3. charged * ONE_YEAR_IN_SECONDS = 0
    BY <2>2, SetTokenUnitsAssumption
  <2> QED
    BY <2>1, <2>2, <2>3 DEF FeeInv
<1>2. FeeInv /\ [Next]_vars => FeeInv'
  BY FeeStep
<1>3. FeeInv => FeesWithinOwed
  BY DEF FeeInv, FeesWithinOwed, due
<1> QED
  BY <1>1, <1>2, <1>3, PTL DEF Spec

(***************************************************************************)
(* The lock.                                                               *)
(***************************************************************************)

\* Under the lock of AuctionRebalanceModuleV1 no other module passes.
LEMMA OthersAreLockedOut ==
  ASSUME locker = Auction
  PROVE  /\ ~whenLockedOnlyLocker("StreamingFeeModule")
         /\ ~whenLockedOnlyLocker("BasicIssuanceModule")
         /\ ~whenLockedOnlyLocker("NAVIssuanceModule")
         /\ ~whenLockedOnlyLocker("TradeModule")
BY DEF whenLockedOnlyLocker, Auction, None

\* While a rebalance holds the lock nobody mints, burns or rescales, and no
\* holdings change after its duration has elapsed (SetToken's
\* whenLockedOnlyLocker before every change of supply, multiplier and tokens).
THEOREM LockIsRespected == Spec => LockRespected
<1> DEFINE Kept == UNCHANGED <<supply, positionMultiplier, balance>>
<1>1. ASSUME [Next]_vars, locker = Auction
      PROVE  /\ supply' = supply /\ positionMultiplier' = positionMultiplier
             /\ balance' # balance => ~isRebalanceDurationElapsed
  <2>1. CASE UNCHANGED vars
    BY <2>1 DEF vars
  <2>2. CASE accrueFee
    BY <1>1, <2>2, OthersAreLockedOut DEF accrueFee, takeFee
  <2>3. CASE removeModule
    BY <2>3 DEF removeModule
  <2>4. ASSUME NEW f \in StreamingFees, initialize(f) \/ updateStreamingFee(f) PROVE Kept
    BY <1>1, <2>4, OthersAreLockedOut DEF initialize, updateStreamingFee, takeFee
  <2>5. ASSUME NEW q \in Quantities, issue(q) \/ redeem(q) PROVE FALSE
    BY <1>1, <2>5, OthersAreLockedOut DEF issue, redeem
  <2>6. ASSUME NEW s \in Components, NEW r \in Components,
               NEW u \in TradeUnits, NEW x \in Received, trade(s, r, u, x)
        PROVE  FALSE
    BY <1>1, <2>6, OthersAreLockedOut DEF trade, exchange
  <2>7. ASSUME NEW s \in Components, NEW r \in Components,
               NEW u \in TradeUnits, NEW x \in Received, bid(s, r, u, x)
        PROVE  /\ supply' = supply /\ positionMultiplier' = positionMultiplier
               /\ ~isRebalanceDurationElapsed
    BY <2>7 DEF bid, exchange
  <2>8. CASE StartRebalance
    BY <2>8 DEF StartRebalance, startRebalance
  <2>9. CASE NavIssue \/ NavRedeem
    BY <1>1, <2>9, OthersAreLockedOut DEF NavIssue, NavRedeem, navIssue, navRedeem
  <2>10. CASE Unlock \/ Tick
    BY <2>10 DEF Unlock, unlock, Tick
  <2> QED
    BY <1>1, <2>1, <2>2, <2>3, <2>4, <2>5, <2>6, <2>7, <2>8, <2>9, <2>10 DEF Next, Call
<1> QED
  BY <1>1, PTL DEF Spec, LockRespected

(***************************************************************************)
(* What each calculation returns, in any state of the right types.         *)
(***************************************************************************)

\* A real unit is a virtual one times the multiplier, rounded down.
LEMMA RealUnitRoundsDown ==
  ASSUME TypeOK, NEW c \in Components
  PROVE  /\ realUnit[c] \in Nat
         /\ PRECISE_UNIT * realUnit[c] <= virtualUnit[c] * positionMultiplier
         /\ virtualUnit[c] * positionMultiplier < PRECISE_UNIT * realUnit[c] + PRECISE_UNIT
<1>1. virtualUnit[c] \in Nat /\ positionMultiplier \in Nat
  BY DEF TypeOK
<1>2. realUnit[c] = preciseMul(virtualUnit[c], positionMultiplier)
  BY DEF realUnit, convertVirtualToRealUnit
<1> QED
  BY <1>1, <1>2, PreciseMulRoundsDown

\* The value of a SetToken, a sum over its components, is a natural.
LEMMA ValuationIsNat == ASSUME TypeOK PROVE calculateSetTokenValuation \in Nat
<1> DEFINE value == [c \in Components |->
                       preciseMul(preciseDiv(realUnit[c], BaseUnits[c]), Price[c])]
<1>1. ASSUME NEW c \in Components PROVE value[c] \in Nat
  <2>1. realUnit[c] \in Nat /\ BaseUnits[c] \in Nat \ {0} /\ Price[c] \in Nat
    BY RealUnitRoundsDown, SetTokenUnitsAssumption
  <2>2. preciseDiv(realUnit[c], BaseUnits[c]) \in Nat
    BY <2>1, PreciseDivRoundsDown
  <2> QED
    BY <2>1, <2>2, PreciseMulRoundsDown
<1>2. IsFiniteSet(Components) /\ DOMAIN value = Components
  BY SetTokenUnitsAssumption
<1>3. SumFunctionOnSet(value, Components) \in Nat
  <2> HIDE DEF value
  <2> QED
    BY <1>1, <1>2, SumIsNat
<1>4. calculateSetTokenValuation = SumFunctionOnSet(value, Components)
  BY <1>2 DEF calculateSetTokenValuation, SumFunction
<1> QED
  BY <1>3, <1>4

\* The fees of a NAV issuance or redemption leave a part of the quantity.
LEMMA NetFlowIsPart ==
  ASSUME NEW q \in Nat
  PROVE  getFees(q).netFlow \in Nat /\ getFees(q).netFlow <= q
<1> DEFINE U == PRECISE_UNIT
           share == preciseMul(ProtocolShare, ManagerFee)
           p == share + ProtocolDirectFee
           m == ManagerFee - share
           a == preciseMul(p, q)
           b == preciseMul(m, q)
<1>0. /\ U \in Nat \ {0} /\ ProtocolShare \in Nat /\ ProtocolShare <= U
      /\ ManagerFee \in Nat /\ ProtocolDirectFee \in Nat
      /\ ManagerFee + ProtocolDirectFee <= U
  BY PreciseUnitAssumption, SetTokenUnitsAssumption
<1>1. share \in Nat /\ share <= ManagerFee
  BY <1>0, PreciseMulOfPart, PreciseMulRoundsDown
<1>2. p \in Nat /\ m \in Nat /\ p + m <= U
  <2> HIDE DEF share, U
  <2> QED
    BY <1>0, <1>1
<1>3. a \in Nat /\ b \in Nat /\ U * a <= p * q /\ U * b <= m * q
  <2> HIDE DEF p, m
  <2> QED
    BY <1>2, PreciseMulRoundsDown
<1>4. a + b <= q
  <2> HIDE DEF p, m, a, b, U
  <2>1. U * (a + b) = U * a + U * b /\ (p + m) * q = p * q + m * q
    BY <1>0, <1>2, <1>3
  <2>2. (p + m) * q <= U * q
    BY <1>0, <1>2, ProductIsMonotone
  <2>3. U * a \in Nat /\ U * b \in Nat /\ p * q \in Nat /\ m * q \in Nat /\ U * q \in Nat
    BY <1>0, <1>2, <1>3, ProductIsNat
  <2>4. U * (a + b) <= U * q
    BY <1>3, <2>1, <2>2, <2>3
  <2> QED
    BY <1>0, <1>3, <2>4, CancelFactor
<1>5. getFees(q).netFlow = q - a - b
  BY DEF getFees
<1> HIDE DEF a, b
<1> QED
  BY <1>3, <1>4, <1>5

\* The premium is kept from the issuer: the quantity minted is a natural, and
\* the value it is divided by is positive.
LEMMA MintIsNat ==
  ASSUME TypeOK, NEW flow \in Nat, preciseMul(supply, calculateSetTokenValuation) > 0
  PROVE  getSetTokenMintQuantity(flow) \in Nat
<1> DEFINE kept == preciseMul(flow, Premium)
           base == BaseUnits[Reserve]
           fees == preciseDiv(flow, base)
           feesAndPremium == preciseDiv(flow - kept, base)
           value == preciseMul(supply, calculateSetTokenValuation)
           numerator == preciseMul(feesAndPremium, supply)
           denominator == value + fees - feesAndPremium
<1>0. /\ base \in Nat \ {0} /\ Premium \in Nat /\ Premium <= PRECISE_UNIT
      /\ supply \in Nat
  BY SetTokenUnitsAssumption, PreciseUnitAssumption DEF TypeOK
<1>1. kept \in Nat /\ kept <= flow
  BY <1>0, PreciseMulRoundsDown, PreciseMulOfPart
<1>2. flow - kept \in Nat /\ flow - kept <= flow
  <2> HIDE DEF kept
  <2> QED
    BY <1>1
<1>3. fees \in Nat /\ feesAndPremium \in Nat /\ feesAndPremium <= fees
  <2> HIDE DEF kept, base
  <2> QED
    BY <1>0, <1>2, PreciseDivRoundsDown, PreciseDivIsMonotone
<1>4. value \in Nat /\ value > 0
  BY <1>0, ValuationIsNat, PreciseMulRoundsDown
<1>5. numerator \in Nat
  <2> HIDE DEF feesAndPremium
  <2> QED
    BY <1>0, <1>3, PreciseMulRoundsDown
<1>6. denominator \in Nat \ {0}
  <2> HIDE DEF value, fees, feesAndPremium
  <2> QED
    BY <1>3, <1>4
<1>7. getSetTokenMintQuantity(flow) = preciseDiv(numerator, denominator)
  BY DEF getSetTokenMintQuantity
<1> HIDE DEF numerator, denominator
<1> QED
  BY <1>5, <1>6, <1>7, PreciseDivRoundsDown

\* What a NAV redemption takes out of the SetToken.
LEMMA RedeemedIsNat ==
  ASSUME TypeOK, NEW q \in Nat
  PROVE  getRedeemReserveQuantity(q) \in Nat
<1> DEFINE value == preciseMul(q, calculateSetTokenValuation)
           reserve == preciseMul(value, BaseUnits[Reserve])
           kept == preciseMulCeil(reserve, Premium)
<1>0. BaseUnits[Reserve] \in Nat /\ Premium \in Nat /\ Premium <= PRECISE_UNIT
  BY SetTokenUnitsAssumption, PreciseUnitAssumption
<1>1. value \in Nat
  BY ValuationIsNat, PreciseMulRoundsDown
<1>2. reserve \in Nat
  <2> HIDE DEF value
  <2> QED
    BY <1>0, <1>1, PreciseMulRoundsDown
<1>3. kept \in Nat /\ kept <= reserve
  <2> HIDE DEF reserve
  <2> QED
    BY <1>0, <1>2, PreciseMulCeilRoundsUp, PreciseMulOfPart
<1>4. getRedeemReserveQuantity(q) = reserve - kept
  BY DEF getRedeemReserveQuantity
<1> HIDE DEF reserve, kept
<1> QED
  BY <1>2, <1>3, <1>4

\* A multiplier that passes _validateNewMultiplier keeps every position.
LEMMA ValidMultiplierKeeps ==
  ASSUME TypeOK, NEW m \in Nat, validateNewMultiplier(m)
  PROVE  /\ m # 0
         /\ \A c \in Components :
              virtualUnit[c] > 0 => convertVirtualToRealUnit(virtualUnit[c], m) > 0
<1>1. PICK u \in HeldUnits(virtualUnit) : convertVirtualToRealUnit(u, m) > 0
  BY DEF validateNewMultiplier
<1>2. u \in Nat
  BY <1>1 DEF HeldUnits, TypeOK
<1>3. m # 0
  <2>1. convertVirtualToRealUnit(u, 0) = 0
    <3>1. u * 0 = 0 /\ 0 \div PRECISE_UNIT = 0
      BY <1>2, PreciseUnitAssumption
    <3> QED
      BY <3>1 DEF convertVirtualToRealUnit, preciseMul
  <2> QED
    BY <1>1, <2>1
<1>4. ASSUME NEW c \in Components, virtualUnit[c] > 0
      PROVE  convertVirtualToRealUnit(virtualUnit[c], m) > 0
  BY <1>4 DEF validateNewMultiplier, HeldUnits
<1> QED
  BY <1>3, <1>4

(***************************************************************************)
(* What the units claim of a component: its virtual unit times the         *)
(* multiplier and the supply, scaled by PRECISE_UNIT twice.                *)
(***************************************************************************)
Scale == positionMultiplier * supply

\* The units claim what the SetToken holds, and at most one real unit more for
\* each SetToken issued.  It bounds the exact claims, so that it survives the
\* roundings of a change of the multiplier, as DeficitBounded itself does not.
ClaimsBacked ==
  \A c \in Components :
    virtualUnit[c] * Scale <= PRECISE_UNIT * (PRECISE_UNIT * balance[c] + issued)

\* A streaming fee inflates the supply by no more than it shrinks the multiplier.
LEMMA FeeShrinksScale ==
  ASSUME NEW m \in Nat, NEW s \in Nat, NEW f \in Nat, f < PRECISE_UNIT
  PROVE  preciseMul(m, PRECISE_UNIT - f) * (s + (f * s) \div (PRECISE_UNIT - f)) <= m * s
<1> DEFINE U == PRECISE_UNIT
           r == U - f
           n == preciseMul(m, r)
           x == (f * s) \div r
<1>0. U \in Nat \ {0} /\ r \in Nat \ {0}
  BY PreciseUnitAssumption
<1>1. n \in Nat /\ U * n <= m * r
  BY <1>0, PreciseMulRoundsDown
<1>2. x \in Nat /\ x * r <= f * s
  <2> HIDE DEF r
  <2> QED
    BY <1>0, ProductIsNat, DivRoundsDown
<1>3. r * (s + x) <= U * s
  <2>1. r * (s + x) = r * s + x * r
    <3> HIDE DEF r, x
    <3> QED
      BY <1>0, <1>2
  <2>2. r * s + f * s = U * s
    <3> HIDE DEF U
    <3> QED
      BY <1>0
  <2>3. r * s \in Nat /\ f * s \in Nat /\ x * r \in Nat
    <3> HIDE DEF r, x
    <3> QED
      BY <1>0, <1>2, ProductIsNat
  <2> HIDE DEF r, x, U
  <2> QED
    BY <1>2, <2>1, <2>2, <2>3
<1> HIDE DEF r, n, x, U
<1>4. (U * n) * (s + x) <= (m * r) * (s + x)
  BY <1>0, <1>1, <1>2, ProductIsNat, ProductIsMonotone
<1>5. m * (r * (s + x)) <= m * (U * s)
  <2>1. r * (s + x) \in Nat /\ U * s \in Nat
    BY <1>0, <1>2, ProductIsNat
  <2> QED
    BY <1>3, <2>1, ProductIsMonotone
<1>6. /\ (U * n) * (s + x) = U * (n * (s + x)) /\ (m * r) * (s + x) = m * (r * (s + x))
      /\ m * (U * s) = U * (m * s)
  BY <1>0, <1>1, <1>2
<1>7. n * (s + x) \in Nat /\ m * s \in Nat /\ m * (r * (s + x)) \in Nat
  BY <1>0, <1>1, <1>2, ProductIsNat
<1>8. U * (n * (s + x)) <= U * (m * s)
  <2>1. U * (n * (s + x)) \in Nat /\ U * (m * s) \in Nat
    BY <1>0, <1>7, ProductIsNat
  <2> QED
    BY <1>4, <1>5, <1>6, <1>7, <2>1
<1>9. n * (s + x) <= m * s
  BY <1>0, <1>7, <1>8, CancelFactor
<1> QED
  BY <1>9 DEF n, x, r, U

\* A unit stored at a multiplier claims at most the tokens it was computed from.
LEMMA StoredUnitClaims ==
  ASSUME NEW x \in Nat, NEW s \in Nat \ {0}, NEW m \in Nat \ {0}
  PROVE  LET v == convertRealToVirtualUnit(preciseDiv(x, s), m)
         IN  v \in Nat /\ v * (m * s) <= PRECISE_UNIT * (PRECISE_UNIT * x)
<1> DEFINE U == PRECISE_UNIT
           real == preciseDiv(x, s)
           v == preciseDiv(real, m)
<1>0. U \in Nat \ {0}
  BY PreciseUnitAssumption
<1>1. real \in Nat /\ s * real <= x * U
  BY PreciseDivRoundsDown
<1>2. v \in Nat /\ m * v <= real * U
  <2> HIDE DEF real
  <2> QED
    BY <1>1, PreciseDivRoundsDown
<1> HIDE DEF real, v, U
<1>3. (m * v) * s <= (real * U) * s
  BY <1>0, <1>1, <1>2, ProductIsNat, ProductIsMonotone
<1>4. U * (s * real) <= U * (x * U)
  <2>1. s * real \in Nat /\ x * U \in Nat
    BY <1>0, <1>1, ProductIsNat
  <2> QED
    BY <1>0, <1>1, <2>1, ProductIsMonotone
<1>5. /\ (m * v) * s = v * (m * s) /\ (real * U) * s = U * (s * real)
      /\ U * (x * U) = U * (U * x)
  BY <1>0, <1>1, <1>2
<1>6. v * (m * s) \in Nat /\ U * (s * real) \in Nat /\ U * (U * x) \in Nat
  BY <1>0, <1>1, <1>2, ProductIsNat
<1>7. v * (m * s) <= U * (U * x)
  BY <1>3, <1>4, <1>5, <1>6
<1> QED
  BY <1>2, <1>7 DEF v, real, U, convertRealToVirtualUnit

\* What the units track of a component is there, up to the bound.
LEMMA TrackedIsBacked ==
  ASSUME TypeOK, ClaimsBacked, NEW c \in Components
  PROVE  /\ realUnit[c] * supply <= PRECISE_UNIT * balance[c] + issued
         /\ preciseMul(realUnit[c], supply) \in Nat
         /\ PRECISE_UNIT * preciseMul(realUnit[c], supply) <= PRECISE_UNIT * balance[c] + issued
<1> DEFINE U == PRECISE_UNIT
           r == realUnit[c]
           v == virtualUnit[c]
           m == positionMultiplier
           s == supply
           held == U * balance[c] + issued
           p == preciseMul(r, s)
<1>0. U \in Nat \ {0} /\ v \in Nat /\ m \in Nat /\ s \in Nat
      /\ balance[c] \in Nat /\ issued \in Nat
  BY PreciseUnitAssumption DEF TypeOK
<1>1. r \in Nat /\ U * r <= v * m
  BY RealUnitRoundsDown
<1>2. v * (m * s) <= U * held
  BY DEF ClaimsBacked, Scale
<1>3. p \in Nat /\ U * p <= r * s
  <2> HIDE DEF r
  <2> QED
    BY <1>0, <1>1, PreciseMulRoundsDown
<1>4. held \in Nat
  <2> HIDE DEF U
  <2> QED
    BY <1>0, ProductIsNat
<1> HIDE DEF U, r, v, m, s, held, p
<1>5. (U * r) * s <= (v * m) * s
  BY <1>0, <1>1, ProductIsNat, ProductIsMonotone
<1>6. (U * r) * s = U * (r * s) /\ (v * m) * s = v * (m * s)
  BY <1>0, <1>1
<1>7. r * s \in Nat /\ U * (r * s) \in Nat /\ v * (m * s) \in Nat /\ U * held \in Nat
      /\ U * p \in Nat
  BY <1>0, <1>1, <1>3, <1>4, ProductIsNat
<1>8. U * (r * s) <= U * held
  BY <1>2, <1>5, <1>6, <1>7
<1>9. r * s <= held
  BY <1>0, <1>4, <1>7, <1>8, CancelFactor
<1>10. U * p <= held
  BY <1>3, <1>4, <1>7, <1>9
<1> QED
  BY <1>3, <1>9, <1>10 DEF U, r, s, held, p

(***************************************************************************)
(* The steps, one lemma for each kind.                                     *)
(***************************************************************************)

\* A position that is there, at a multiplier.
Kept(units, m) ==
  \A c \in Components : units[c] > 0 => convertVirtualToRealUnit(units[c], m) > 0

LEMMA KeptMeansNoneVanishes == NoPositionVanishes <=> Kept(virtualUnit, positionMultiplier)
BY DEF NoPositionVanishes, Kept, realUnit

\* A smaller scale, with the same units and tokens, claims no more.
LEMMA SmallerScaleClaims ==
  ASSUME NEW v \in Nat, NEW a \in Nat, NEW b \in Nat, NEW h \in Nat, a <= b, v * b <= h
  PROVE  v * a <= h
<1>1. v * a <= v * b
  BY ProductIsMonotone
<1>2. v * a \in Nat /\ v * b \in Nat
  BY ProductIsNat
<1> QED
  BY <1>1, <1>2

LEMMA HeldIsNat ==
  ASSUME TypeOK
  PROVE  /\ Scale \in Nat
         /\ \A c \in Components :
              PRECISE_UNIT * (PRECISE_UNIT * balance[c] + issued) \in Nat
<1>1. Scale \in Nat
  BY ProductIsNat DEF TypeOK, Scale
<1>2. ASSUME NEW c \in Components
      PROVE  PRECISE_UNIT * (PRECISE_UNIT * balance[c] + issued) \in Nat
  <2>1. PRECISE_UNIT \in Nat /\ balance[c] \in Nat /\ issued \in Nat
    BY PreciseUnitAssumption DEF TypeOK
  <2>2. PRECISE_UNIT * balance[c] + issued \in Nat
    BY <2>1, ProductIsNat
  <2> QED
    BY <2>1, <2>2, ProductIsNat
<1> QED
  BY <1>1, <1>2

LEMMA TakeFeeStep ==
  ASSUME TypeOK, FeeInv, NoPositionVanishes, Charging, takeFee
  PROVE  /\ supply' \in Nat /\ positionMultiplier' \in Nat \ {0}
         /\ positionMultiplier' * supply' <= Scale
         /\ Kept(virtualUnit, positionMultiplier')
<1> DEFINE f == calculateStreamingFee
           U == PRECISE_UNIT
           x == (f * supply) \div (U - f)
           n == preciseMul(positionMultiplier, U - f)
<1>0. U \in Nat \ {0} /\ supply \in Nat /\ positionMultiplier \in Nat \ {0}
  BY PreciseUnitAssumption DEF TypeOK
<1>1. CASE ~(feeState.streamingFeePercentage > 0)
  <2>1. supply' = supply /\ positionMultiplier' = positionMultiplier
    BY <1>1 DEF takeFee
  <2>2. positionMultiplier' * supply' = Scale /\ Scale \in Nat
    BY <2>1, HeldIsNat DEF Scale
  <2> QED
    BY <1>0, <2>1, <2>2, KeptMeansNoneVanishes
<1>2. CASE feeState.streamingFeePercentage > 0
  <2>1. f < U /\ supply' = supply + mintedFee(calculateStreamingFeeInflation(f))
        /\ validateNewMultiplier(n) /\ positionMultiplier' = n
    BY <1>2 DEF takeFee
  <2>2. f \in Nat
    <3>1. f = due \div ONE_YEAR_IN_SECONDS
      BY DEF calculateStreamingFee, due
    <3>2. due \in Nat /\ ONE_YEAR_IN_SECONDS \in Nat \ {0}
      BY DueIsNat, SetTokenUnitsAssumption DEF FeeInv
    <3> QED
      BY <3>1, <3>2, DivRoundsDown
  <2> HIDE DEF f
  <2>3. U - f \in Nat \ {0}
    BY <1>0, <2>1, <2>2
  <2>4. x \in Nat
    <3>1. f * supply \in Nat
      BY <1>0, <2>2, ProductIsNat
    <3> QED
      BY <2>3, <3>1, DivRoundsDown
  <2>5. mintedFee(calculateStreamingFeeInflation(f)) = x
    <3>1. calculateStreamingFeeInflation(f) = x
      BY DEF calculateStreamingFeeInflation
    <3>2. protocolFeeAmount(x) \in Nat
      <4>1. ProtocolStreamingFee \in Nat
        BY SetTokenUnitsAssumption, PreciseUnitAssumption
      <4> HIDE DEF x
      <4> QED
        BY <2>4, <4>1, PreciseMulRoundsDown DEF protocolFeeAmount
    <3>3. mintedFee(x) = (x - protocolFeeAmount(x)) + protocolFeeAmount(x)
      BY DEF mintedFee
    <3> HIDE DEF x
    <3> QED
      BY <2>4, <3>1, <3>2, <3>3
  <2>6. n \in Nat
    BY <1>0, <2>3, PreciseMulRoundsDown
  <2>7. n * (supply + x) <= Scale
    BY <1>0, <2>1, <2>2, FeeShrinksScale DEF Scale
  <2>8. n # 0 /\ Kept(virtualUnit, n)
    BY <2>1, <2>6, ValidMultiplierKeeps DEF Kept
  <2> HIDE DEF x, n
  <2> QED
    BY <1>0, <2>1, <2>4, <2>5, <2>6, <2>7, <2>8
<1> QED
  BY <1>1, <1>2

\* With the fee taken, whatever becomes of the fee's own state.
LEMMA FeeTakenStep ==
  ASSUME TypeOK, FeeInv, NoPositionVanishes, ClaimsBacked, Charging, takeFee,
         UNCHANGED <<virtualUnit, balance, issued>>
  PROVE  supply' \in Nat /\ positionMultiplier' \in Nat \ {0}
         /\ NoPositionVanishes' /\ ClaimsBacked'
<1>1. /\ supply' \in Nat /\ positionMultiplier' \in Nat \ {0}
      /\ positionMultiplier' * supply' <= Scale
      /\ Kept(virtualUnit, positionMultiplier')
  BY TakeFeeStep
<1>2. NoPositionVanishes'
  BY <1>1 DEF NoPositionVanishes, Kept, realUnit
<1>3. Scale' = positionMultiplier' * supply'
  BY DEF Scale
<1>4. Scale' \in Nat /\ Scale' <= Scale
  BY <1>1, <1>3, ProductIsNat
<1>5. ASSUME NEW c \in Components
      PROVE  virtualUnit[c] * Scale' <= PRECISE_UNIT * (PRECISE_UNIT * balance[c] + issued)
  <2>1. virtualUnit[c] \in Nat
        /\ virtualUnit[c] * Scale <= PRECISE_UNIT * (PRECISE_UNIT * balance[c] + issued)
    BY DEF TypeOK, ClaimsBacked
  <2> QED
    BY <1>4, <2>1, HeldIsNat, SmallerScaleClaims
<1>6. ClaimsBacked'
  BY <1>5 DEF ClaimsBacked
<1> QED
  BY <1>1, <1>2, <1>6

\* BasicIssuanceModule: the issuer pays for the exact claim of what is minted but
\* for one real unit each, and a redeemer is paid no more than is given up.
LEMMA IssuerPays ==
  ASSUME NEW v \in Nat, NEW m \in Nat, NEW s \in Nat, NEW q \in Nat, NEW r \in Nat,
         NEW paid \in Nat, NEW b \in Nat, NEW i \in Nat, NEW U \in Nat \ {0},
         v * m < U * r + U, r * q <= U * paid, v * (m * s) <= U * (U * b + i)
  PROVE  v * (m * (s + q)) <= U * (U * (b + paid) + (i + q))
<1>1. (v * m) * q <= (U * r + U) * q
  BY ProductIsNat, ProductIsMonotone
<1>2. U * (r * q) <= U * (U * paid)
  BY ProductIsNat, ProductIsMonotone
<1>3. /\ v * (m * (s + q)) = v * (m * s) + (v * m) * q
      /\ (U * r + U) * q = U * (r * q) + U * q
      /\ U * (U * (b + paid) + (i + q)) = U * (U * b + i) + U * (U * paid) + U * q
  OBVIOUS
<1>4. /\ v * (m * s) \in Nat /\ (v * m) * q \in Nat /\ U * (r * q) \in Nat /\ U * q \in Nat
      /\ U * (U * b + i) \in Nat /\ U * (U * paid) \in Nat
  BY ProductIsNat
<1> QED
  BY <1>1, <1>2, <1>3, <1>4

LEMMA RedeemerIsPaid ==
  ASSUME NEW v \in Nat, NEW m \in Nat, NEW s \in Nat, NEW q \in Nat, NEW r \in Nat,
         NEW paid \in Nat, NEW b \in Nat, NEW i \in Nat, NEW U \in Nat \ {0},
         q <= s, paid <= b,
         U * r <= v * m, U * paid <= q * r, v * (m * s) <= U * (U * b + i)
  PROVE  v * (m * (s - q)) <= U * (U * (b - paid) + i)
<1>1. (U * r) * q <= (v * m) * q
  BY ProductIsNat, ProductIsMonotone
<1>2. U * (U * paid) <= U * (q * r)
  BY ProductIsNat, ProductIsMonotone
<1>3. /\ v * (m * (s - q)) = v * (m * s) - (v * m) * q
      /\ (U * r) * q = U * (q * r)
      /\ U * (U * (b - paid) + i) = U * (U * b + i) - U * (U * paid)
  OBVIOUS
<1>4. /\ v * (m * s) \in Nat /\ (v * m) * q \in Nat /\ U * (q * r) \in Nat
      /\ U * (U * b + i) \in Nat /\ U * (U * paid) \in Nat
  BY ProductIsNat
<1> QED
  BY <1>1, <1>2, <1>3, <1>4

\* What a step must establish of the units, beside the types of the rest.
Backing ==
  /\ supply \in Nat /\ positionMultiplier \in Nat \ {0}
  /\ virtualUnit \in [Components -> Nat] /\ balance \in [Components -> Nat]
  /\ issued \in Nat
  /\ NoPositionVanishes /\ ClaimsBacked

LEMMA IssueStep ==
  ASSUME TypeOK, Backing, NEW q \in Quantities, issue(q)
  PROVE  Backing'
<1> DEFINE paid(c) == preciseMulCeil(realUnit[c], q)
<1>0. q \in Nat /\ PRECISE_UNIT \in Nat \ {0} /\ supply \in Nat /\ issued \in Nat
      /\ positionMultiplier \in Nat
  BY SetTokenUnitsAssumption, PreciseUnitAssumption DEF TypeOK
<1>1. /\ supply' = supply + q /\ issued' = issued + q
      /\ balance' = [c \in Components |-> balance[c] + paid(c)]
      /\ UNCHANGED <<positionMultiplier, virtualUnit>>
  BY Zenon DEF issue, getRequiredComponentUnitsForIssue
<1>2. ASSUME NEW c \in Components
      PROVE  paid(c) \in Nat /\ realUnit[c] * q <= PRECISE_UNIT * paid(c)
  BY <1>0, RealUnitRoundsDown, PreciseMulCeilRoundsUp
<1> HIDE DEF paid
<1>3. balance' \in [Components -> Nat]
  BY <1>1, <1>2 DEF TypeOK
<1>4. NoPositionVanishes'
  BY <1>1 DEF Backing, NoPositionVanishes, realUnit
<1>5. ASSUME NEW c \in Components
      PROVE  virtualUnit[c] * (positionMultiplier * (supply + q))
               <= PRECISE_UNIT * (PRECISE_UNIT * (balance[c] + paid(c)) + (issued + q))
  <2>1. virtualUnit[c] \in Nat /\ balance[c] \in Nat
    BY DEF TypeOK
  <2>2. virtualUnit[c] * (positionMultiplier * supply)
          <= PRECISE_UNIT * (PRECISE_UNIT * balance[c] + issued)
    BY DEF Backing, ClaimsBacked, Scale
  <2> QED
    BY <1>0, <1>2, <2>1, <2>2, RealUnitRoundsDown, IssuerPays
<1>6. ClaimsBacked'
  <2>1. ASSUME NEW c \in Components
        PROVE  (virtualUnit[c] * Scale
                  <= PRECISE_UNIT * (PRECISE_UNIT * balance[c] + issued))'
    <3>1. balance'[c] = balance[c] + paid(c) /\ Scale' = positionMultiplier * (supply + q)
      BY <1>1 DEF Scale
    <3> QED
      BY <1>1, <1>5, <3>1
  <2> QED
    BY <2>1 DEF ClaimsBacked
<1> QED
  BY <1>0, <1>1, <1>3, <1>4, <1>6 DEF Backing

LEMMA RedeemStep ==
  ASSUME TypeOK, Backing, NEW q \in Quantities, redeem(q)
  PROVE  Backing'
<1> DEFINE paid(c) == preciseMul(q, realUnit[c])
<1>0. q \in Nat /\ PRECISE_UNIT \in Nat \ {0} /\ supply \in Nat /\ issued \in Nat
      /\ positionMultiplier \in Nat
  BY SetTokenUnitsAssumption, PreciseUnitAssumption DEF TypeOK
<1>1. /\ q <= supply /\ supply' = supply - q
      /\ \A c \in Components : paid(c) <= balance[c]
      /\ balance' = [c \in Components |-> balance[c] - paid(c)]
      /\ UNCHANGED <<positionMultiplier, virtualUnit, issued>>
  <2>1. \A c \in Components : componentQuantity(q)[c] = paid(c)
    BY DEF componentQuantity
  <2>2. balance' = [c \in Components |-> balance[c] - componentQuantity(q)[c]]
    BY Zenon DEF redeem
  <2> HIDE DEF paid
  <2>3. balance' = [c \in Components |-> balance[c] - paid(c)]
    BY <2>1, <2>2
  <2> QED
    BY <2>1, <2>3 DEF redeem
<1>2. ASSUME NEW c \in Components
      PROVE  paid(c) \in Nat /\ PRECISE_UNIT * paid(c) <= q * realUnit[c]
  BY <1>0, RealUnitRoundsDown, PreciseMulRoundsDown
<1> HIDE DEF paid
<1>3. balance' \in [Components -> Nat]
  BY <1>1, <1>2 DEF TypeOK
<1>4. NoPositionVanishes'
  BY <1>1 DEF Backing, NoPositionVanishes, realUnit
<1>5. ASSUME NEW c \in Components
      PROVE  virtualUnit[c] * (positionMultiplier * (supply - q))
               <= PRECISE_UNIT * (PRECISE_UNIT * (balance[c] - paid(c)) + issued)
  <2>1. virtualUnit[c] \in Nat /\ balance[c] \in Nat
    BY DEF TypeOK
  <2>2. virtualUnit[c] * (positionMultiplier * supply)
          <= PRECISE_UNIT * (PRECISE_UNIT * balance[c] + issued)
    BY DEF Backing, ClaimsBacked, Scale
  <2> QED
    BY <1>0, <1>1, <1>2, <2>1, <2>2, RealUnitRoundsDown, RedeemerIsPaid
<1>6. ClaimsBacked'
  <2>1. ASSUME NEW c \in Components
        PROVE  (virtualUnit[c] * Scale
                  <= PRECISE_UNIT * (PRECISE_UNIT * balance[c] + issued))'
    <3>1. balance'[c] = balance[c] - paid(c) /\ Scale' = positionMultiplier * (supply - q)
      BY <1>1 DEF Scale
    <3> QED
      BY <1>1, <1>5, <3>1
  <2> QED
    BY <2>1 DEF ClaimsBacked
<1> QED
  BY <1>0, <1>1, <1>3, <1>4, <1>6 DEF Backing

\* An edited position is stored only if it can be read back.
LEMMA ValidConversionKeeps ==
  ASSUME NEW real \in Nat, NEW m \in Nat \ {0}, ConversionValid(real, m),
         convertRealToVirtualUnit(real, m) > 0
  PROVE  convertVirtualToRealUnit(convertRealToVirtualUnit(real, m), m) > 0
<1>1. CASE real = 0
  <2>1. convertRealToVirtualUnit(0, m) = 0
    BY PreciseUnitAssumption DEF convertRealToVirtualUnit, preciseDiv
  <2> QED
    BY <1>1, <2>1
<1>2. CASE real > 0
  BY <1>2, Zenon DEF ConversionValid
<1> QED
  BY <1>1, <1>2

\* A unit computed from tokens that are there is backed by them.
LEMMA UnitFromTokensIsBacked ==
  ASSUME NEW x \in Nat, NEW s \in Nat \ {0}, NEW m \in Nat \ {0},
         NEW b \in Nat, NEW i \in Nat, PRECISE_UNIT * x <= PRECISE_UNIT * b + i
  PROVE  convertRealToVirtualUnit(preciseDiv(x, s), m) * (m * s)
           <= PRECISE_UNIT * (PRECISE_UNIT * b + i)
<1> DEFINE v == convertRealToVirtualUnit(preciseDiv(x, s), m)
           U == PRECISE_UNIT
<1>0. U \in Nat \ {0}
  BY PreciseUnitAssumption
<1>1. v \in Nat /\ v * (m * s) <= U * (U * x)
  BY StoredUnitClaims
<1> HIDE DEF v
<1>2. U * x \in Nat /\ U * b + i \in Nat
  BY <1>0, ProductIsNat
<1>3. U * (U * x) <= U * (U * b + i)
  BY <1>0, <1>2, ProductIsMonotone
<1>4. v * (m * s) \in Nat /\ U * (U * x) \in Nat /\ U * (U * b + i) \in Nat
  BY <1>0, <1>1, <1>2, ProductIsNat
<1>5. v * (m * s) <= U * (U * b + i)
  <2> HIDE DEF U
  <2> QED
    BY <1>1, <1>3, <1>4
<1> QED
  BY <1>5 DEF v, U

\* TradeModule and the bids: an edited position is computed from the tokens left
\* after what no unit accounted for is taken out.
LEMMA ExchangeStep ==
  ASSUME TypeOK, Backing, NEW caller, NEW send \in Components, NEW receive \in Components,
         NEW unit \in TradeUnits, NEW received \in Received,
         exchange(caller, send, receive, unit, received)
  PROVE  Backing'
<1> DEFINE U == PRECISE_UNIT
           m == positionMultiplier
           sent == preciseMul(supply, unit)
           post == [balance EXCEPT ![send] = @ - sent, ![receive] = @ + received]
           edited(c) == calculateDefaultEditPositionUnit(c, post[c])
<1>0. /\ U \in Nat \ {0} /\ m \in Nat \ {0} /\ supply \in Nat /\ issued \in Nat
      /\ unit \in Nat /\ received \in Nat
      /\ virtualUnit \in [Components -> Nat] /\ balance \in [Components -> Nat]
  BY PreciseUnitAssumption, SetTokenUnitsAssumption DEF TypeOK
<1>1. /\ send # receive /\ sent > 0 /\ sent <= balance[send]
      /\ balance' = post /\ virtualUnit' = ExchangedUnits(post)
      /\ UNCHANGED <<supply, positionMultiplier, issued>>
  BY Zenon DEF exchange
<1>2. \A c \in {send, receive} :
        /\ airdroppedAmount(c) >= 0
        /\ post[c] > 0 => /\ post[c] >= airdroppedAmount(c)
                          /\ ConversionValid(edited(c), m)
  BY Zenon DEF exchange
<1>3. sent \in Nat /\ supply # 0
  <2>1. sent \in Nat /\ U * sent <= supply * unit
    BY <1>0, PreciseMulRoundsDown
  <2>2. CASE supply = 0
    <3> HIDE DEF sent, U
    <3>1. supply * unit = 0 /\ U * sent > 0 /\ U * sent \in Nat
      BY <1>0, <1>1, <2>1, <2>2
    <3> QED
      BY <2>1, <3>1
  <2> HIDE DEF sent
  <2> QED
    BY <2>1, <2>2
<1>4. ASSUME NEW c \in Components
      PROVE  post[c] \in Nat /\ (c \notin {send, receive} => post[c] = balance[c])
  <2> HIDE DEF sent
  <2> QED
    BY <1>0, <1>1, <1>3
<1>5. post \in [Components -> Nat]
  <2>1. DOMAIN post = Components /\ post = [c \in Components |-> post[c]]
    <3> HIDE DEF sent
    <3> QED
      BY <1>0
  <2> HIDE DEF post
  <2> QED
    BY <1>4, <2>1
<1> HIDE DEF post, sent
<1>6. ASSUME NEW c \in Components, post[c] # balance[c]
      PROVE  LET v == convertRealToVirtualUnit(edited(c), m)
             IN  /\ v \in Nat
                 /\ v > 0 => convertVirtualToRealUnit(v, m) > 0
                 /\ v * (m * supply) <= U * (U * post[c] + issued)
  <2> DEFINE v == convertRealToVirtualUnit(edited(c), m)
  <2>1. c \in {send, receive} /\ post[c] \in Nat /\ balance[c] \in Nat
    BY <1>0, <1>4, <1>6
  <2>2. CASE post[c] = 0
    <3>1. edited(c) = 0
      BY <2>2 DEF calculateDefaultEditPositionUnit
    <3>2. v = 0
      <4>1. convertRealToVirtualUnit(0, m) = 0
        BY <1>0, PreciseUnitAssumption DEF convertRealToVirtualUnit, preciseDiv
      <4> HIDE DEF edited
      <4> QED
        BY <3>1, <4>1
    <3>3. 0 * (m * supply) = 0 /\ U * (U * post[c] + issued) \in Nat
      <4>1. m * supply \in Nat
        BY <1>0, ProductIsNat
      <4>2. U * post[c] + issued \in Nat
        BY <1>0, <2>1, ProductIsNat
      <4> QED
        BY <1>0, <4>1, <4>2, ProductIsNat
    <3> HIDE DEF v, U
    <3>4. v \in Nat /\ ~(v > 0) /\ v * (m * supply) <= U * (U * post[c] + issued)
      BY <3>2, <3>3
    <3> QED
      BY <3>4 DEF v
  <2>3. CASE post[c] > 0
    <3> DEFINE x == post[c] - airdroppedAmount(c)
    <3>1. airdroppedAmount(c) \in Nat /\ post[c] >= airdroppedAmount(c)
      <4>1. preciseMul(realUnit[c], supply) \in Nat
        BY <1>0, RealUnitRoundsDown, PreciseMulRoundsDown
      <4> QED
        BY <1>2, <2>1, <2>3, <4>1 DEF airdroppedAmount
    <3>2. x \in Nat /\ x <= post[c]
      BY <2>1, <3>1
    <3>3. edited(c) = preciseDiv(x, supply)
      BY <2>3 DEF calculateDefaultEditPositionUnit
    <3>4. preciseDiv(x, supply) \in Nat
      <4> HIDE DEF x
      <4> QED
        BY <1>0, <1>3, <3>2, PreciseDivRoundsDown
    <3>5. U * x <= U * post[c] + issued
      <4> HIDE DEF x, U
      <4>1. U * x <= U * post[c] /\ U * x \in Nat /\ U * post[c] \in Nat
        BY <1>0, <2>1, <3>2, ProductIsNat, ProductIsMonotone
      <4> QED
        BY <1>0, <4>1
    <3>6. v * (m * supply) <= U * (U * post[c] + issued)
      <4>1. convertRealToVirtualUnit(preciseDiv(x, supply), m) * (m * supply)
              <= U * (U * post[c] + issued)
        <5> HIDE DEF x
        <5> QED
          BY <1>0, <1>3, <2>1, <3>2, <3>5, UnitFromTokensIsBacked
      <4> QED
        BY <3>3, <4>1
    <3>7. v \in Nat
      BY <1>0, <3>3, <3>4, PreciseDivRoundsDown DEF convertRealToVirtualUnit
    <3>8. v > 0 => convertVirtualToRealUnit(v, m) > 0
      BY <1>0, <1>2, <2>1, <2>3, <3>3, <3>4, ValidConversionKeeps
    <3> QED
      BY <3>6, <3>7, <3>8
  <2> QED
    BY <2>1, <2>2, <2>3
<1>7. ASSUME NEW c \in Components
      PROVE  virtualUnit'[c] = IF post[c] = balance[c] THEN virtualUnit[c]
                               ELSE convertRealToVirtualUnit(edited(c), m)
  BY <1>1 DEF ExchangedUnits
<1> HIDE DEF edited
<1>8. virtualUnit' \in [Components -> Nat]
  <2>1. \A c \in Components : virtualUnit'[c] \in Nat
    BY <1>0, <1>6, <1>7
  <2>2. virtualUnit' = [c \in Components |-> virtualUnit'[c]]
    BY <1>1 DEF ExchangedUnits
  <2> QED
    BY <2>1, <2>2
<1>9. NoPositionVanishes'
  <2>1. ASSUME NEW c \in Components, virtualUnit'[c] > 0
        PROVE  convertVirtualToRealUnit(virtualUnit'[c], m) > 0
    <3>1. CASE post[c] = balance[c]
      BY <1>7, <2>1, <3>1 DEF Backing, NoPositionVanishes, realUnit
    <3>2. CASE post[c] # balance[c]
      BY <1>6, <1>7, <2>1, <3>2
    <3> QED
      BY <3>1, <3>2
  <2> QED
    BY <1>1, <2>1 DEF NoPositionVanishes, realUnit
<1>10. ClaimsBacked'
  <2>1. ASSUME NEW c \in Components
        PROVE  (virtualUnit[c] * Scale <= U * (U * balance[c] + issued))'
    <3>1. Scale' = m * supply /\ Scale = m * supply /\ balance'[c] = post[c]
          /\ issued' = issued
      BY <1>1 DEF Scale
    <3>2. CASE post[c] = balance[c]
      <4>1. virtualUnit[c] * Scale <= U * (U * balance[c] + issued)
        BY DEF Backing, ClaimsBacked
      <4>2. virtualUnit'[c] = virtualUnit[c] /\ balance'[c] = balance[c] /\ Scale' = Scale
        BY <1>7, <3>1, <3>2
      <4> QED
        BY <3>1, <4>1, <4>2
    <3>3. CASE post[c] # balance[c]
      <4>1. virtualUnit'[c] * (m * supply) <= U * (U * post[c] + issued)
        BY <1>6, <1>7, <3>3
      <4> QED
        BY <3>1, <4>1
    <3> QED
      BY <3>2, <3>3
  <2> QED
    BY <2>1 DEF ClaimsBacked
<1> QED
  BY <1>0, <1>1, <1>5, <1>8, <1>9, <1>10 DEF Backing

\* NAV issuance and redemption: every position is rescaled with the supply, and
\* the reserve's is then stored anew from the tokens it tracks after the flow.
LEMMA NavStep ==
  ASSUME TypeOK, Backing, NEW newSupply \in Nat \ {0}, NEW m \in Nat, NEW x \in Nat,
         NEW tokens \in Nat,
         m = rescaledMultiplier(newSupply), validateNewMultiplier(m),
         PRECISE_UNIT * x <= PRECISE_UNIT * tokens + issued,
         EditedUnit(Reserve, preciseDiv(x, newSupply), m),
         positionMultiplier' = m, supply' = newSupply, issued' = issued,
         balance' = [balance EXCEPT ![Reserve] = tokens]
  PROVE  Backing'
<1> DEFINE U == PRECISE_UNIT
           real == preciseDiv(x, newSupply)
           v == convertRealToVirtualUnit(real, m)
<1>0. /\ U \in Nat \ {0} /\ supply \in Nat /\ issued \in Nat /\ positionMultiplier \in Nat
      /\ virtualUnit \in [Components -> Nat] /\ balance \in [Components -> Nat]
      /\ Reserve \in Components
  BY PreciseUnitAssumption, SetTokenUnitsAssumption DEF TypeOK
<1>1. m # 0 /\ \A c \in Components :
                 virtualUnit[c] > 0 => convertVirtualToRealUnit(virtualUnit[c], m) > 0
  BY ValidMultiplierKeeps
<1>2. ConversionValid(real, m) /\ virtualUnit' = [virtualUnit EXCEPT ![Reserve] = v]
  BY DEF EditedUnit
<1>3. real \in Nat
  BY PreciseDivRoundsDown
<1>4. v \in Nat
  <2> HIDE DEF real
  <2> QED
    BY <1>1, <1>3, PreciseDivRoundsDown DEF convertRealToVirtualUnit
<1>5. v > 0 => convertVirtualToRealUnit(v, m) > 0
  <2> HIDE DEF real
  <2> QED
    BY <1>1, <1>2, <1>3, ValidConversionKeeps
<1>6. v * (m * newSupply) <= U * (U * tokens + issued)
  BY <1>0, <1>1, UnitFromTokensIsBacked
<1>7. m * newSupply \in Nat /\ m * newSupply <= Scale
  <2>1. positionMultiplier * supply \in Nat
    BY <1>0, ProductIsNat
  <2> QED
    BY <2>1, DivRoundsDown, ProductIsNat DEF rescaledMultiplier, Scale
<1> HIDE DEF v, real, U
<1>8. virtualUnit' \in [Components -> Nat] /\ balance' \in [Components -> Nat]
  BY <1>0, <1>2, <1>4
<1>9. NoPositionVanishes'
  <2>1. ASSUME NEW c \in Components, virtualUnit'[c] > 0
        PROVE  convertVirtualToRealUnit(virtualUnit'[c], m) > 0
    <3>1. CASE c = Reserve
      BY <1>0, <1>2, <1>5, <2>1, <3>1
    <3>2. CASE c # Reserve
      BY <1>0, <1>1, <1>2, <2>1, <3>2
    <3> QED
      BY <3>1, <3>2
  <2> QED
    BY <2>1 DEF NoPositionVanishes, realUnit
<1>10. ASSUME NEW c \in Components
       PROVE  virtualUnit'[c] * (m * newSupply) <= U * (U * balance'[c] + issued)
  <2>1. CASE c = Reserve
    <3>1. virtualUnit'[c] = v /\ balance'[c] = tokens
      BY <1>0, <1>2, <2>1
    <3> QED
      BY <1>6, <3>1
  <2>2. CASE c # Reserve
    <3>1. virtualUnit'[c] = virtualUnit[c] /\ balance'[c] = balance[c]
      BY <1>0, <1>2, <2>2
    <3>2. virtualUnit[c] * Scale <= U * (U * balance[c] + issued)
      BY DEF Backing, ClaimsBacked, U
    <3>3. virtualUnit[c] \in Nat /\ Scale \in Nat /\ U * (U * balance[c] + issued) \in Nat
      BY <1>0, HeldIsNat DEF U
    <3>4. virtualUnit[c] * (m * newSupply) <= U * (U * balance[c] + issued)
      BY <1>7, <3>2, <3>3, SmallerScaleClaims
    <3> QED
      BY <3>1, <3>4
  <2> QED
    BY <2>1, <2>2
<1>11. ClaimsBacked'
  <2>1. Scale' = m * newSupply
    BY DEF Scale
  <2> QED
    BY <1>10, <2>1 DEF ClaimsBacked, U
<1> QED
  BY <1>0, <1>1, <1>8, <1>9, <1>11 DEF Backing

LEMMA NavIssueStep ==
  ASSUME TypeOK, Backing, NEW q \in ReserveQuantities, navIssue(q)
  PROVE  Backing'
<1> DEFINE U == PRECISE_UNIT
           flow == getFees(q).netFlow
           newSupply == supply + getSetTokenMintQuantity(flow)
           m == rescaledMultiplier(newSupply)
           tracked == preciseMul(realUnit[Reserve], supply)
           x == tracked + flow
           tokens == balance[Reserve] + flow
<1>0. /\ U \in Nat \ {0} /\ q \in Nat /\ supply \in Nat /\ positionMultiplier \in Nat
      /\ issued \in Nat /\ Reserve \in Components /\ MinSetTokenSupply \in Nat \ {0}
      /\ balance[Reserve] \in Nat
  BY PreciseUnitAssumption, SetTokenUnitsAssumption DEF TypeOK
<1>1. /\ supply >= MinSetTokenSupply
      /\ preciseMul(supply, calculateSetTokenValuation) > 0
      /\ validateNewMultiplier(m) /\ positionMultiplier' = m
      /\ EditedUnit(Reserve, preciseDiv(x, newSupply), m)
      /\ balance' = [balance EXCEPT ![Reserve] = tokens]
      /\ supply' = newSupply /\ issued' = issued
  BY Zenon DEF navIssue, getIssuePositionUnit
<1>2. flow \in Nat
  BY <1>0, NetFlowIsPart
<1>3. newSupply \in Nat \ {0}
  <2>1. getSetTokenMintQuantity(flow) \in Nat
    <3> HIDE DEF flow
    <3> QED
      BY <1>1, <1>2, MintIsNat
  <2> HIDE DEF flow
  <2> QED
    BY <1>0, <1>1, <2>1
<1>4. m \in Nat
  <2> HIDE DEF newSupply
  <2>1. positionMultiplier * supply \in Nat
    BY <1>0, ProductIsNat
  <2> QED
    BY <1>3, <2>1, DivRoundsDown DEF rescaledMultiplier
<1>5. tracked \in Nat /\ U * tracked <= U * balance[Reserve] + issued
  BY <1>0, TrackedIsBacked DEF Backing
<1> HIDE DEF flow, tracked, newSupply, m, U
<1>6. x \in Nat /\ tokens \in Nat
  BY <1>0, <1>2, <1>5
<1>7. U * x <= U * tokens + issued
  <2>1. U * x = U * tracked + U * flow /\ U * tokens = U * balance[Reserve] + U * flow
    BY <1>0, <1>2, <1>5
  <2>2. U * tracked \in Nat /\ U * flow \in Nat /\ U * balance[Reserve] \in Nat
    BY <1>0, <1>2, <1>5, ProductIsNat
  <2> HIDE DEF x, tokens
  <2> QED
    BY <1>0, <1>5, <2>1, <2>2
<1> HIDE DEF x, tokens
<1> QED
  BY <1>1, <1>3, <1>4, <1>6, <1>7, NavStep DEF m, U

LEMMA NavRedeemStep ==
  ASSUME TypeOK, Backing, NEW q \in Quantities, navRedeem(q)
  PROVE  Backing'
<1> DEFINE U == PRECISE_UNIT
           out == getRedeemReserveQuantity(q)
           newSupply == supply - q
           m == rescaledMultiplier(newSupply)
           tracked == preciseMul(realUnit[Reserve], supply)
           x == tracked - out
           tokens == balance[Reserve] - out
<1>0. /\ U \in Nat \ {0} /\ q \in Nat /\ supply \in Nat /\ positionMultiplier \in Nat
      /\ issued \in Nat /\ Reserve \in Components /\ MinSetTokenSupply \in Nat \ {0}
      /\ balance[Reserve] \in Nat
  BY PreciseUnitAssumption, SetTokenUnitsAssumption DEF TypeOK
<1>1. /\ newSupply >= MinSetTokenSupply
      /\ out <= tracked /\ out <= balance[Reserve]
      /\ validateNewMultiplier(m) /\ positionMultiplier' = m
      /\ EditedUnit(Reserve, preciseDiv(x, newSupply), m)
      /\ balance' = [balance EXCEPT ![Reserve] = tokens]
      /\ supply' = newSupply /\ issued' = issued
  BY Zenon DEF navRedeem, getRedeemPositionUnit
<1>2. out \in Nat
  BY <1>0, RedeemedIsNat
<1>3. newSupply \in Nat \ {0}
  BY <1>0, <1>1
<1>4. m \in Nat
  <2> HIDE DEF newSupply
  <2>1. positionMultiplier * supply \in Nat
    BY <1>0, ProductIsNat
  <2> QED
    BY <1>3, <2>1, DivRoundsDown DEF rescaledMultiplier
<1>5. tracked \in Nat /\ U * tracked <= U * balance[Reserve] + issued
  BY <1>0, TrackedIsBacked DEF Backing
<1> HIDE DEF out, tracked, newSupply, m, U
<1>6. x \in Nat /\ tokens \in Nat
  BY <1>0, <1>1, <1>2, <1>5
<1>7. U * x <= U * tokens + issued
  <2>1. U * x = U * tracked - U * out /\ U * tokens = U * balance[Reserve] - U * out
    BY <1>0, <1>2, <1>5
  <2>2. U * tracked \in Nat /\ U * out \in Nat /\ U * balance[Reserve] \in Nat
    BY <1>0, <1>2, <1>5, ProductIsNat
  <2> HIDE DEF x, tokens
  <2> QED
    BY <1>0, <1>5, <2>1, <2>2
<1> HIDE DEF x, tokens
<1> QED
  BY <1>1, <1>3, <1>4, <1>6, <1>7, NavStep DEF m, U

\* No other step touches the units.
LEMMA OthersKeepUnits ==
  ASSUME TypeOK, Backing, UNCHANGED <<supply, positionMultiplier, virtualUnit, balance, issued>>
  PROVE  Backing'
<1>1. realUnit' = realUnit /\ Scale' = Scale
  BY DEF realUnit, Scale
<1> QED
  BY <1>1 DEF Backing, NoPositionVanishes, ClaimsBacked

UnitsInv == TypeOK /\ FeeInv /\ Backing

LEMMA BackingStep == ASSUME UnitsInv, [Next]_vars PROVE Backing'
<1>0. TypeOK /\ FeeInv /\ Backing /\ NoPositionVanishes /\ ClaimsBacked
  BY DEF UnitsInv, Backing
<1>1. ASSUME Charging, takeFee, UNCHANGED <<virtualUnit, balance, issued>> PROVE Backing'
  BY <1>0, <1>1, FeeTakenStep DEF Backing
<1>2. CASE accrueFee
  BY <1>1, <1>2 DEF accrueFee
<1>3. ASSUME NEW f \in StreamingFees, updateStreamingFee(f) PROVE Backing'
  BY <1>1, <1>3 DEF updateStreamingFee
<1>4. ASSUME NEW q \in Quantities, issue(q) \/ redeem(q) PROVE Backing'
  BY <1>0, <1>4, IssueStep, RedeemStep
<1>5. ASSUME NEW s \in Components, NEW r \in Components,
             NEW u \in TradeUnits, NEW x \in Received, trade(s, r, u, x) \/ bid(s, r, u, x)
      PROVE  Backing'
  BY <1>0, <1>5, ExchangeStep DEF trade, bid
<1>6. CASE NavIssue
  BY <1>0, <1>6, NavIssueStep DEF NavIssue
<1>7. CASE NavRedeem
  BY <1>0, <1>7, NavRedeemStep DEF NavRedeem
<1>8. CASE UNCHANGED <<supply, positionMultiplier, virtualUnit, balance, issued>>
  BY <1>0, <1>8, OthersKeepUnits
<1>9. CASE removeModule \/ \E f \in StreamingFees : initialize(f)
  BY <1>8, <1>9 DEF removeModule, initialize
<1>10. CASE StartRebalance \/ Unlock \/ Tick
  BY <1>8, <1>10 DEF StartRebalance, startRebalance, Unlock, unlock, Tick
<1>11. CASE UNCHANGED vars
  BY <1>8, <1>11 DEF vars
<1> QED
  BY <1>2, <1>3, <1>4, <1>5, <1>6, <1>7, <1>9, <1>10, <1>11 DEF Next, Call

\* What is left of TypeOK: the fee's state, the lock and the clock.
LEMMA RestOfTypes ==
  ASSUME UnitsInv, FeeInv', [Next]_vars
  PROVE  /\ Charging' => feeState'.streamingFeePercentage <= MaxStreamingFee
         /\ locker' \in {None, Auction} /\ rebalanceEnd' \in Nat /\ events' \in Nat
<1> DEFINE Typed == /\ Charging' => feeState'.streamingFeePercentage <= MaxStreamingFee
                    /\ locker' \in {None, Auction} /\ rebalanceEnd' \in Nat
<1>0. /\ feeState \in [streamingFeePercentage : Nat, lastStreamingFeeTimestamp : Int]
      /\ Charging => feeState.streamingFeePercentage <= MaxStreamingFee
      /\ locker \in {None, Auction} /\ rebalanceEnd \in Nat /\ now \in Nat /\ events \in Nat
      /\ MaxStreamingFee \in Nat /\ StreamingFees \subseteq Nat /\ Durations \subseteq Nat
  BY SetTokenUnitsAssumption, PreciseUnitAssumption DEF UnitsInv, TypeOK
<1> SUFFICES Typed
  BY <1>0 DEF Next, vars
<1>1. CASE accrueFee
  <2>1. Charging /\ UNCHANGED <<locker, rebalanceEnd>>
        /\ feeState' = [feeState EXCEPT !.lastStreamingFeeTimestamp = now]
    BY <1>1 DEF accrueFee
  <2>2. feeState'.streamingFeePercentage = feeState.streamingFeePercentage
    BY <1>0, <2>1
  <2> QED
    BY <1>0, <2>1, <2>2
<1>2. ASSUME NEW f \in StreamingFees, initialize(f) \/ updateStreamingFee(f) PROVE Typed
  <2>1. f <= MaxStreamingFee /\ UNCHANGED <<locker, rebalanceEnd>>
        /\ feeState' = [streamingFeePercentage |-> f, lastStreamingFeeTimestamp |-> now]
    BY <1>0, <1>2 DEF initialize, updateStreamingFee
  <2> QED
    BY <1>0, <2>1
<1>3. CASE removeModule
  BY <1>0, <1>3 DEF removeModule, Charging
<1>4. CASE StartRebalance
  BY <1>0, <1>4 DEF StartRebalance, startRebalance, Charging
<1>5. CASE Unlock
  BY <1>0, <1>5 DEF Unlock, unlock, Charging
<1>6. CASE UNCHANGED <<feeState, locker, rebalanceEnd>>
  BY <1>0, <1>6 DEF Charging
<1>7. CASE \E q \in Quantities : issue(q) \/ redeem(q)
  BY <1>6, <1>7 DEF issue, redeem
<1>8. CASE \E s, r \in Components, u \in TradeUnits, x \in Received :
             trade(s, r, u, x) \/ bid(s, r, u, x)
  BY <1>6, <1>8 DEF trade, bid, exchange
<1>9. CASE NavIssue \/ NavRedeem
  BY <1>6, <1>9 DEF NavIssue, navIssue, NavRedeem, navRedeem
<1>10. CASE Tick \/ UNCHANGED vars
  BY <1>6, <1>10 DEF Tick, vars
<1> QED
  BY <1>1, <1>2, <1>3, <1>4, <1>5, <1>7, <1>8, <1>9, <1>10 DEF Next, Call

LEMMA UnitsStep == ASSUME UnitsInv, [Next]_vars PROVE UnitsInv'
<1>1. FeeInv'
  BY FeeStep DEF UnitsInv
<1>2. Backing'
  BY BackingStep
<1>3. TypeOK'
  BY <1>1, <1>2, RestOfTypes DEF TypeOK, Backing, FeeInv, FeeTypes
<1> QED
  BY <1>1, <1>2, <1>3 DEF UnitsInv

LEMMA UnitsInit == ASSUME Init PROVE UnitsInv
<1>0. /\ PRECISE_UNIT \in Nat \ {0} /\ InitialUnits \in [Components -> Nat]
      /\ ONE_YEAR_IN_SECONDS \in Nat
  BY PreciseUnitAssumption, SetTokenUnitsAssumption
<1>1. TypeOK
  BY <1>0 DEF Init, TypeOK, Charging, NotCharging
<1>2. FeeInv
  <2>1. FeeTypes /\ due = 0 /\ charged = 0 /\ owed = 0
    BY DEF Init, FeeTypes, due, Charging, NotCharging
  <2>2. 0 * ONE_YEAR_IN_SECONDS = 0
    BY <1>0
  <2> QED
    BY <2>1, <2>2 DEF FeeInv
<1>3. NoPositionVanishes
  <2>1. ASSUME NEW u \in Nat PROVE preciseMul(u, PRECISE_UNIT) = u
    BY <1>0 DEF preciseMul
  <2>2. ASSUME NEW c \in Components PROVE realUnit[c] = virtualUnit[c]
    <3>1. virtualUnit[c] \in Nat /\ positionMultiplier = PRECISE_UNIT
      BY <1>0 DEF Init
    <3> QED
      BY <2>1, <3>1 DEF realUnit, convertVirtualToRealUnit
  <2> QED
    BY <2>2 DEF NoPositionVanishes
<1>4. ClaimsBacked
  <2>1. ASSUME NEW c \in Components
        PROVE  virtualUnit[c] * Scale <= PRECISE_UNIT * (PRECISE_UNIT * balance[c] + issued)
    <3>1. virtualUnit[c] \in Nat /\ Scale = 0 /\ balance[c] = 0 /\ issued = 0
      BY <1>0 DEF Init, Scale
    <3>2. virtualUnit[c] * 0 = 0 /\ PRECISE_UNIT * (PRECISE_UNIT * 0 + 0) = 0
      BY <1>0, <3>1
    <3> QED
      BY <3>1, <3>2
  <2> QED
    BY <2>1 DEF ClaimsBacked
<1> QED
  BY <1>1, <1>2, <1>3, <1>4 DEF UnitsInv, Backing, TypeOK

LEMMA UnitsAlways == Spec => []UnitsInv
<1>1. Init => UnitsInv
  BY UnitsInit
<1>2. UnitsInv /\ [Next]_vars => UnitsInv'
  BY UnitsStep
<1> QED
  BY <1>1, <1>2, PTL DEF Spec

\* Every variable keeps its type: whatever is issued, redeemed, traded and charged,
\* the multiplier of the SetToken stays positive, no unit and no balance goes below
\* zero, and no rate above the maximum is in force.
THEOREM TypeCorrect == Spec => []TypeOK
<1>1. UnitsInv => TypeOK
  BY DEF UnitsInv
<1> QED
  BY <1>1, UnitsAlways, PTL

\* No fee, issuance or trade makes a position disappear: the checks of
\* _convertRealToVirtualUnit and _validateNewMultiplier suffice together.
THEOREM PositionsStay == Spec => []NoPositionVanishes
<1>1. UnitsInv => NoPositionVanishes
  BY DEF UnitsInv, Backing
<1> QED
  BY <1>1, UnitsAlways, PTL

\* The units never claim more than the SetToken holds, but for a base unit for each
\* SetToken that BasicIssuanceModule has issued.
THEOREM DeficitStaysBounded == Spec => []DeficitBounded
<1>1. UnitsInv => DeficitBounded
  BY TrackedIsBacked DEF UnitsInv, Backing, DeficitBounded
<1> QED
  BY <1>1, UnitsAlways, PTL

(***************************************************************************)
(* The formulas of the test-suite.  Each side of a comparison is the exact *)
(* value rounded once or twice, so each is first placed in an interval of  *)
(* the exact value scaled by a power of PRECISE_UNIT.                      *)
(***************************************************************************)

\* A difference of less than one and a quotient is at most one and that
\* quotient rounded down.
LEMMA WithinQuotient ==
  ASSUME NEW d \in Nat \ {0}, NEW n \in Nat, NEW x \in Nat, NEW y \in Nat,
         d * x < d * y + d + n
  PROVE  x <= y + 1 + n \div d
<1> DEFINE k == n \div d
<1>1. k \in Nat /\ n < k * d + d
  BY DivRoundsDown
<1> HIDE DEF k
<1>2. d * (y + 2 + k) = d * y + d + d + k * d
  BY <1>1
<1>3. d * x \in Nat /\ d * y \in Nat /\ k * d \in Nat
  BY <1>1, ProductIsNat
<1>4. d * x < d * (y + 2 + k)
  <2>1. d * x < d * y + d + (k * d + d)
    BY <1>1, <1>3
  <2> QED
    BY <1>2, <1>3, <2>1
<1>5. x < y + 2 + k
  BY <1>1, <1>4, CancelFactor
<1> QED
  BY <1>1, <1>5 DEF k

\* A unit stored at a multiplier and read back is not larger, and what is lost
\* is less than the two roundings; the reference converts in the other order.
LEMMA ConversionLoses ==
  ASSUME NEW u \in Nat, NEW m \in Nat \ {0}
  PROVE  /\ StoredUnit(u, m) \in Nat
         /\ StoredUnit(u, m) <= u
         /\ u <= StoredUnit(u, m) + 1 + m \div PRECISE_UNIT
<1> DEFINE U == PRECISE_UNIT
           a == preciseDiv(u, m)
           s == preciseMul(a, m)
<1>0. U \in Nat \ {0}
  BY PreciseUnitAssumption
<1>1. a \in Nat /\ m * a <= u * U /\ u * U < m * a + m
  BY PreciseDivRoundsDown
<1>2. s \in Nat /\ U * s <= a * m /\ a * m < U * s + U
  <2> HIDE DEF a
  <2> QED
    BY <1>1, PreciseMulRoundsDown
<1>3. StoredUnit(u, m) = s
  BY DEF StoredUnit, convertVirtualToRealUnit, convertRealToVirtualUnit
<1> HIDE DEF a, s, U
<1>4. a * m = m * a /\ u * U = U * u /\ U * s \in Nat /\ m * a \in Nat /\ U * u \in Nat
  BY <1>0, <1>1, <1>2, ProductIsNat
<1>5. U * s <= U * u /\ U * u < U * s + U + m
  BY <1>0, <1>1, <1>2, <1>4
<1>6. s <= u
  BY <1>0, <1>2, <1>5, CancelFactor
<1>7. u <= s + 1 + m \div U
  BY <1>0, <1>2, <1>5, WithinQuotient
<1> QED
  BY <1>2, <1>3, <1>6, <1>7 DEF U

LEMMA ReferenceConversionLoses ==
  ASSUME NEW u \in Nat, NEW m \in Nat \ {0}
  PROVE  /\ preciseDiv(preciseMul(u, m), m) \in Nat
         /\ preciseDiv(preciseMul(u, m), m) <= u
         /\ u <= preciseDiv(preciseMul(u, m), m) + 1 + PRECISE_UNIT \div m
<1> DEFINE U == PRECISE_UNIT
           a == preciseMul(u, m)
           s == preciseDiv(a, m)
<1>0. U \in Nat \ {0}
  BY PreciseUnitAssumption
<1>1. a \in Nat /\ U * a <= u * m /\ u * m < U * a + U
  BY PreciseMulRoundsDown
<1>2. s \in Nat /\ m * s <= a * U /\ a * U < m * s + m
  <2> HIDE DEF a
  <2> QED
    BY <1>1, PreciseDivRoundsDown
<1>3. preciseDiv(preciseMul(u, m), m) = s
  OBVIOUS
<1> HIDE DEF a, s, U
<1>4. a * U = U * a /\ u * m = m * u /\ m * s \in Nat /\ U * a \in Nat /\ m * u \in Nat
  BY <1>0, <1>1, <1>2, ProductIsNat
<1>5. m * s <= m * u /\ m * u < m * s + m + U
  BY <1>0, <1>1, <1>2, <1>4
<1>6. s <= u
  BY <1>0, <1>2, <1>5, CancelFactor
<1>7. u <= s + 1 + U \div m
  BY <1>0, <1>2, <1>5, WithinQuotient
<1> QED
  BY <1>2, <1>3, <1>6, <1>7 DEF U

\* The reference rounds the ratio of the supplies before it multiplies; the
\* contract divides once.
LEMMA RatioRoundedFirst ==
  ASSUME NEW m \in Nat, NEW s \in Nat, NEW n \in Nat \ {0}, NEW k \in Nat,
         n * k <= s * PRECISE_UNIT, s * PRECISE_UNIT < n * k + n
  PROVE  /\ preciseMul(m, k) <= (m * s) \div n
         /\ (m * s) \div n <= preciseMul(m, k) + 1 + m \div PRECISE_UNIT
<1> DEFINE U == PRECISE_UNIT
           e == preciseMul(m, k)
           a == (m * s) \div n
<1>0. U \in Nat \ {0}
  BY PreciseUnitAssumption
<1>1. e \in Nat /\ U * e <= m * k /\ m * k < U * e + U
  BY PreciseMulRoundsDown
<1>2. m * s \in Nat
  BY ProductIsNat
<1>3. a \in Nat /\ a * n <= m * s /\ m * s < a * n + n
  BY <1>2, DivRoundsDown
<1>4. n * k <= s * U /\ s * U < n * k + n
  OBVIOUS
<1> HIDE DEF U
<1>5. e <= a
  <2> HIDE DEF e
  <2>1. m * (n * k) <= m * (s * U)
    BY <1>0, <1>4, ProductIsNat, ProductIsMonotone
  <2>2. (U * e) * n <= (m * k) * n
    BY <1>0, <1>1, ProductIsNat, ProductIsMonotone
  <2>3. /\ (m * k) * n = m * (n * k) /\ m * (s * U) = U * (m * s)
        /\ (U * e) * n = U * (e * n)
    BY <1>0, <1>1
  <2>4. U * (e * n) <= U * (m * s)
    <3>1. U * (e * n) \in Nat /\ m * (n * k) \in Nat /\ U * (m * s) \in Nat
      BY <1>0, <1>1, <1>2, ProductIsNat
    <3> QED
      BY <2>1, <2>2, <2>3, <3>1
  <2>5. e * n <= m * s
    BY <1>0, <1>1, <1>2, <2>4, ProductIsNat, CancelFactor
  <2> QED
    BY <1>1, <1>2, <2>5, DivAtLeast
<1>6. U * a < U * e + U + m
  <2> HIDE DEF a, e
  <2>1. (m * s) * U <= m * (n * k + n)
    <3>1. m * (s * U) <= m * (n * k + n)
      BY <1>0, <1>4, ProductIsNat, ProductIsMonotone
    <3>2. m * (s * U) = (m * s) * U
      BY <1>0
    <3> QED
      BY <3>1, <3>2
  <2>2. m * (n * k + n) = n * (m * k + m)
    OBVIOUS
  <2>3. (a * n) * U <= (m * s) * U
    BY <1>0, <1>2, <1>3, ProductIsNat, ProductIsMonotone
  <2>4. (a * n) * U = n * (U * a)
    BY <1>0, <1>3
  <2>5. /\ n * (U * a) \in Nat /\ (m * s) * U \in Nat /\ n * (m * k + m) \in Nat
        /\ U * a \in Nat /\ m * k + m \in Nat /\ U * e \in Nat /\ m * k \in Nat
    BY <1>0, <1>1, <1>2, <1>3, ProductIsNat
  <2>6. n * (U * a) <= n * (m * k + m)
    BY <2>1, <2>2, <2>3, <2>4, <2>5
  <2>7. U * a <= m * k + m
    BY <2>5, <2>6, CancelFactor
  <2> QED
    BY <1>0, <1>1, <2>5, <2>7
<1>7. a <= e + 1 + m \div U
  <2> HIDE DEF a, e
  <2> QED
    BY <1>0, <1>1, <1>3, <1>6, WithinQuotient
<1> QED
  BY <1>5, <1>7 DEF U

\* A fee taken from the unit and one taken from the multiplier.
LEMMA FeeOnUnitOrMultiplier ==
  ASSUME NEW v \in Nat, NEW m \in Nat, NEW k \in Nat, k <= PRECISE_UNIT
  PROVE  /\ preciseMul(v, preciseMul(m, k)) <= preciseMul(preciseMul(v, m), k) + 1
         /\ preciseMul(preciseMul(v, m), k)
              <= preciseMul(v, preciseMul(m, k)) + 1 + v \div PRECISE_UNIT
<1> DEFINE U == PRECISE_UNIT
           unit == preciseMul(v, m)
           e == preciseMul(unit, k)
           mult == preciseMul(m, k)
           a == preciseMul(v, mult)
<1>0. U \in Nat \ {0} /\ k <= U
  BY PreciseUnitAssumption
<1>1. unit \in Nat /\ U * unit <= v * m /\ v * m < U * unit + U
  BY PreciseMulRoundsDown
<1>2. mult \in Nat /\ U * mult <= m * k /\ m * k < U * mult + U
  BY PreciseMulRoundsDown
<1>3. e \in Nat /\ U * e <= unit * k /\ unit * k < U * e + U
  <2> HIDE DEF unit
  <2> QED
    BY <1>1, PreciseMulRoundsDown
<1>4. a \in Nat /\ U * a <= v * mult /\ v * mult < U * a + U
  <2> HIDE DEF mult
  <2> QED
    BY <1>2, PreciseMulRoundsDown
<1> HIDE DEF unit, mult, e, a, U
<1> DEFINE exact == v * (m * k)
<1>5. exact \in Nat /\ exact = (v * m) * k
  BY ProductIsNat
<1>6. U * (U * a) <= exact /\ exact < U * (U * a) + U * U + v * U
  <2>1. U * (U * a) <= U * (v * mult) /\ U * (v * mult) <= U * (U * a + U - 1)
    <3>1. v * mult <= U * a + U - 1 /\ U * a + U - 1 \in Nat /\ v * mult \in Nat
      BY <1>0, <1>2, <1>4, ProductIsNat
    <3> QED
      BY <1>0, <1>2, <1>4, <3>1, ProductIsNat, ProductIsMonotone
  <2>2. v * (U * mult) <= v * (m * k) /\ v * (m * k) <= v * (U * mult + U)
    BY <1>0, <1>2, ProductIsNat, ProductIsMonotone
  <2>3. /\ v * (U * mult) = U * (v * mult) /\ v * (U * mult + U) = U * (v * mult) + v * U
        /\ U * (U * a + U - 1) = U * (U * a) + U * U - U
    BY <1>0, <1>2, <1>4
  <2>4. /\ U * (U * a) \in Nat /\ U * (v * mult) \in Nat /\ U * U \in Nat /\ v * U \in Nat
    BY <1>0, <1>2, <1>4, ProductIsNat
  <2> QED
    BY <1>0, <1>5, <2>1, <2>2, <2>3, <2>4
<1>7. U * (U * e) <= exact /\ exact < U * (U * e) + U * U + U * U
  <2>1. U * (U * e) <= U * (unit * k) /\ U * (unit * k) <= U * (U * e) + U * U - U
    <3>1. unit * k <= U * e + U - 1
      BY <1>0, <1>1, <1>3, ProductIsNat
    <3>2. U * (unit * k) <= U * (U * e + U - 1)
      BY <1>0, <1>1, <1>3, <3>1, ProductIsNat, ProductIsMonotone
    <3>3. U * (U * e + U - 1) = U * (U * e) + U * U - U
      BY <1>0, <1>3
    <3>4. U * (U * e) <= U * (unit * k)
      BY <1>0, <1>1, <1>3, ProductIsNat, ProductIsMonotone
    <3> QED
      BY <3>2, <3>3, <3>4
  <2>2. (U * unit) * k <= (v * m) * k /\ (v * m) * k <= (U * unit + U) * k
    BY <1>0, <1>1, ProductIsNat, ProductIsMonotone
  <2>3. (U * unit) * k = U * (unit * k) /\ (U * unit + U) * k = U * (unit * k) + U * k
    BY <1>0, <1>1
  <2>4. U * k <= U * U /\ U * k \in Nat /\ U * U \in Nat
    BY <1>0, ProductIsNat, ProductIsMonotone
  <2>5. U * (U * e) \in Nat /\ U * (unit * k) \in Nat
    BY <1>0, <1>1, <1>3, ProductIsNat
  <2> QED
    BY <1>0, <1>5, <2>1, <2>2, <2>3, <2>4, <2>5
<1>8. a <= e + 1
  <2>1. U * (U * a) < (U * U) * (e + 2)
    <3>1. (U * U) * (e + 2) = U * (U * e) + U * U + U * U
      BY <1>0, <1>3
    <3>2. U * (U * a) \in Nat /\ U * (U * e) \in Nat /\ U * U \in Nat
      BY <1>0, <1>3, <1>4, ProductIsNat
    <3> QED
      BY <1>5, <1>6, <1>7, <3>1, <3>2
  <2>2. U * (U * a) = (U * U) * a /\ U * U \in Nat \ {0}
    BY <1>0, <1>4
  <2>3. a < e + 2
    <3> DEFINE V == U * U
    <3> HIDE DEF V
    <3>1. V * a < V * (e + 2) /\ V \in Nat \ {0}
      BY <2>1, <2>2 DEF V
    <3> QED
      BY <1>3, <1>4, <3>1, CancelFactor
  <2> QED
    BY <1>3, <1>4, <2>3
<1>9. e <= a + 1 + v \div U
  <2>1. U * (U * e) < U * (U * a + U + v)
    <3>1. U * (U * a + U + v) = U * (U * a) + U * U + v * U
      BY <1>0, <1>4
    <3>2. U * (U * a) \in Nat /\ U * (U * e) \in Nat /\ U * U \in Nat /\ v * U \in Nat
      BY <1>0, <1>3, <1>4, ProductIsNat
    <3> QED
      BY <1>5, <1>6, <1>7, <3>1, <3>2
  <2>2. U * e < U * a + U + v
    BY <1>0, <1>3, <1>4, <2>1, ProductIsNat, CancelFactor
  <2> QED
    BY <1>0, <1>3, <1>4, <2>2, WithinQuotient
<1> QED
  BY <1>8, <1>9 DEF U, e, a, unit, mult

\* What the fees of the contract and of the reference leave of a quantity, which
\* both round two of them down.
LEMMA FeesRounded ==
  ASSUME NEW q \in Nat
  PROVE  LET rest == PRECISE_UNIT - (ManagerFee + ProtocolDirectFee)
             actual == getFees(q).netFlow
             expected == getExpectedPostFeeQuantity(q)
         IN /\ rest \in Nat /\ rest <= PRECISE_UNIT
            /\ actual \in Nat /\ expected \in Nat
            /\ rest * q <= PRECISE_UNIT * actual
            /\ PRECISE_UNIT * actual < rest * q + 2 * PRECISE_UNIT
            /\ rest * q <= PRECISE_UNIT * expected
            /\ PRECISE_UNIT * expected < rest * q + 2 * PRECISE_UNIT
<1> DEFINE U == PRECISE_UNIT
           share == preciseMul(ProtocolShare, ManagerFee)
           rest == U - (ManagerFee + ProtocolDirectFee)
<1>0. /\ U \in Nat \ {0} /\ ProtocolShare \in Nat /\ ProtocolShare <= U
      /\ ManagerFee \in Nat /\ ProtocolDirectFee \in Nat
      /\ ManagerFee + ProtocolDirectFee <= U
  BY PreciseUnitAssumption, SetTokenUnitsAssumption
<1>1. share \in Nat /\ share <= ManagerFee
  BY <1>0, PreciseMulOfPart, PreciseMulRoundsDown
<1>2. ASSUME NEW x \in Nat, NEW y \in Nat, NEW a \in Nat, NEW b \in Nat,
             x + y = ManagerFee + ProtocolDirectFee,
             U * a <= x * q, x * q < U * a + U, U * b <= y * q, y * q < U * b + U
      PROVE  /\ q - a - b \in Nat
             /\ rest * q <= U * (q - a - b) /\ U * (q - a - b) < rest * q + 2 * U
  <2> HIDE DEF U, share
  <2>1. rest * q = U * q - x * q - y * q
    <3>1. rest = U - (x + y)
      BY <1>2
    <3> HIDE DEF rest
    <3>2. (U - (x + y)) * q = U * q - x * q - y * q
      BY <1>0
    <3> QED
      BY <3>1, <3>2
  <2>2. U * (q - a - b) = U * q - U * a - U * b
    BY <1>0
  <2>3. rest * q \in Nat
    BY <1>0, ProductIsNat
  <2>4. /\ U * q \in Nat /\ x * q \in Nat /\ y * q \in Nat /\ U * a \in Nat
        /\ U * b \in Nat
    BY <1>0, ProductIsNat
  <2>5. rest * q <= U * (q - a - b) /\ U * (q - a - b) < rest * q + 2 * U
    <3> HIDE DEF rest
    <3> QED
      BY <1>0, <1>2, <2>1, <2>2, <2>3, <2>4
  <2>6. U * 0 <= U * (q - a - b)
    <3> HIDE DEF rest
    <3> QED
      BY <1>0, <2>3, <2>5
  <2>7. 0 <= q - a - b
    <3>1. q - a - b \in Int /\ 0 \in Int
      OBVIOUS
    <3> QED
      BY <1>0, <2>6, <3>1, CancelFactor
  <2> QED
    BY <2>5, <2>7
<1>3. rest \in Nat /\ rest <= U
  <2> HIDE DEF U
  <2> QED
    BY <1>0
<1> DEFINE p == share + ProtocolDirectFee
           m == ManagerFee - share
           a1 == preciseMul(p, q)
           b1 == preciseMul(m, q)
           a2 == preciseMul(q, ManagerFee)
           b2 == preciseMul(q, ProtocolDirectFee)
<1>4. p \in Nat /\ m \in Nat /\ p + m = ManagerFee + ProtocolDirectFee
  <2> HIDE DEF share
  <2> QED
    BY <1>0, <1>1
<1>5. /\ a1 \in Nat /\ U * a1 <= p * q /\ p * q < U * a1 + U
      /\ b1 \in Nat /\ U * b1 <= m * q /\ m * q < U * b1 + U
  <2> HIDE DEF p, m
  <2> QED
    BY <1>4, PreciseMulRoundsDown
<1>6. /\ a2 \in Nat /\ U * a2 <= ManagerFee * q /\ ManagerFee * q < U * a2 + U
      /\ b2 \in Nat /\ U * b2 <= ProtocolDirectFee * q
      /\ ProtocolDirectFee * q < U * b2 + U
  <2>1. q * ManagerFee = ManagerFee * q /\ q * ProtocolDirectFee = ProtocolDirectFee * q
    BY <1>0
  <2> QED
    BY <1>0, <2>1, PreciseMulRoundsDown
<1>7. getFees(q).netFlow = q - a1 - b1
  BY DEF getFees
<1>8. getExpectedPostFeeQuantity(q) = q - a2 - b2
  BY DEF getExpectedPostFeeQuantity
<1>9. /\ q - a1 - b1 \in Nat /\ rest * q <= U * (q - a1 - b1)
      /\ U * (q - a1 - b1) < rest * q + 2 * U
  <2> HIDE DEF p, m, a1, b1, rest, U
  <2> QED
    BY <1>2, <1>4, <1>5
<1>10. /\ q - a2 - b2 \in Nat /\ rest * q <= U * (q - a2 - b2)
       /\ U * (q - a2 - b2) < rest * q + 2 * U
  <2> HIDE DEF a2, b2, rest, U
  <2> QED
    BY <1>0, <1>2, <1>6
<1> HIDE DEF a1, b1, a2, b2, p, m, share
<1> QED
  BY <1>3, <1>7, <1>8, <1>9, <1>10

\* What the premium leaves of a quantity, rounded down.
LEMMA PremiumRounded ==
  ASSUME NEW x \in Nat
  PROVE  LET kept == PRECISE_UNIT - Premium
             y == x - preciseMulCeil(x, Premium)
         IN /\ kept \in Nat /\ kept <= PRECISE_UNIT
            /\ y \in Nat
            /\ PRECISE_UNIT * y <= kept * x
            /\ kept * x < PRECISE_UNIT * y + PRECISE_UNIT
<1> DEFINE U == PRECISE_UNIT
           kept == U - Premium
           c == preciseMulCeil(x, Premium)
<1>0. U \in Nat \ {0} /\ Premium \in Nat /\ Premium <= U
  BY PreciseUnitAssumption, SetTokenUnitsAssumption
<1>1. c \in Nat /\ c <= x /\ x * Premium <= U * c /\ U * c < x * Premium + U
  BY <1>0, PreciseMulCeilRoundsUp, PreciseMulOfPart
<1> HIDE DEF c, U
<1>2. kept * x = U * x - x * Premium /\ U * (x - c) = U * x - U * c
  BY <1>0, <1>1
<1>3. U * x \in Nat /\ x * Premium \in Nat /\ U * c \in Nat
  BY <1>0, <1>1, ProductIsNat
<1>4. kept \in Nat /\ kept <= U /\ x - c \in Nat
  BY <1>0, <1>1
<1>5. U * (x - c) <= kept * x /\ kept * x < U * (x - c) + U
  <2> HIDE DEF kept
  <2> QED
    BY <1>0, <1>1, <1>2, <1>3
<1> QED
  BY <1>4, <1>5 DEF c, U

\* A bound scaled by a positive factor.
LEMMA ScaledBelow ==
  ASSUME NEW f \in Nat \ {0}, NEW x \in Nat, NEW y \in Nat, NEW z \in Nat,
         f * x <= z, z < f * (y + 1)
  PROVE  x <= y
<1>1. f * x \in Nat /\ f * (y + 1) \in Nat
  BY ProductIsNat
<1>2. f * x < f * (y + 1)
  BY <1>1
<1>3. x < y + 1
  BY <1>2, CancelFactor
<1> QED
  BY <1>3

\* One and the other order of premium and conversion into the reserve's base
\* units: the exact amount is kept * notional * base over PRECISE_UNIT twice.
LEMMA PremiumThenBase ==
  ASSUME NEW kept \in Nat, kept <= PRECISE_UNIT, NEW notional \in Nat,
         NEW base \in Nat \ {0}, NEW b \in Nat, base <= PRECISE_UNIT * b,
         NEW reserve \in Nat, PRECISE_UNIT * reserve <= notional * base,
         notional * base < PRECISE_UNIT * reserve + PRECISE_UNIT,
         NEW r \in Nat, PRECISE_UNIT * r <= kept * reserve,
         kept * reserve < PRECISE_UNIT * r + PRECISE_UNIT,
         NEW y \in Nat, PRECISE_UNIT * y <= kept * notional,
         kept * notional < PRECISE_UNIT * y + PRECISE_UNIT
  PROVE  LET exact == kept * (notional * base)
             square == PRECISE_UNIT * PRECISE_UNIT
         IN /\ exact \in Nat /\ square \in Nat \ {0}
            /\ square * r <= exact /\ exact < square * (r + 2)
            /\ PRECISE_UNIT * (y * base) <= exact
            /\ exact < PRECISE_UNIT * (y * base) + square * b
<1> DEFINE U == PRECISE_UNIT
           exact == kept * (notional * base)
           square == U * U
<1>0. U \in Nat \ {0}
  BY PreciseUnitAssumption
<1>1. /\ kept <= U /\ base <= U * b
      /\ U * reserve <= notional * base /\ notional * base < U * reserve + U
      /\ U * r <= kept * reserve /\ kept * reserve < U * r + U
      /\ U * y <= kept * notional /\ kept * notional < U * y + U
  OBVIOUS
<1> HIDE DEF U
<1>2. exact \in Nat /\ square \in Nat \ {0}
  BY <1>0, ProductIsNat
<1>3. square * r <= exact
  <2>1. U * (U * r) <= U * (kept * reserve)
    BY <1>0, <1>1, ProductIsNat, ProductIsMonotone
  <2>2. kept * (U * reserve) <= kept * (notional * base)
    BY <1>0, <1>1, ProductIsNat, ProductIsMonotone
  <2>3. U * (U * r) = square * r /\ U * (kept * reserve) = kept * (U * reserve)
    BY <1>0
  <2>4. square * r \in Nat /\ kept * (U * reserve) \in Nat
    BY <1>0, <1>2, ProductIsNat
  <2> HIDE DEF square
  <2> QED
    BY <1>2, <2>1, <2>2, <2>3, <2>4
<1>4. exact < square * (r + 2)
  <2>1. kept * (notional * base) <= kept * (U * reserve + U)
    BY <1>0, <1>1, ProductIsNat, ProductIsMonotone
  <2>2. kept * (U * reserve + U) = U * (kept * reserve) + U * kept
    BY <1>0
  <2>3. U * (kept * reserve + 1) <= U * (U * r + U)
    <3>1. kept * reserve + 1 <= U * r + U /\ kept * reserve + 1 \in Nat /\ U * r + U \in Nat
      BY <1>0, <1>1, ProductIsNat
    <3> QED
      BY <1>0, <3>1, ProductIsMonotone
  <2>4. U * (kept * reserve + 1) = U * (kept * reserve) + U
        /\ U * (U * r + U) = square * r + square
    BY <1>0
  <2>5. U * kept <= square
    BY <1>0, <1>1, ProductIsMonotone
  <2>6. square * (r + 2) = square * r + square + square
    BY <1>2
  <2>7. square * r \in Nat /\ U * (kept * reserve) \in Nat /\ U * kept \in Nat
    BY <1>0, <1>2, ProductIsNat
  <2> HIDE DEF square
  <2> QED
    BY <1>0, <1>2, <2>1, <2>2, <2>3, <2>4, <2>5, <2>6, <2>7
<1>5. U * (y * base) <= exact
  <2>1. (U * y) * base <= (kept * notional) * base
    BY <1>0, <1>1, ProductIsNat, ProductIsMonotone
  <2>2. (U * y) * base = U * (y * base) /\ (kept * notional) * base = exact
    BY <1>0
  <2> HIDE DEF exact
  <2> QED
    BY <2>1, <2>2
<1>6. exact < U * (y * base) + square * b
  <2>1. (kept * notional + 1) * base <= (U * y + U) * base
    <3>1. kept * notional + 1 <= U * y + U /\ kept * notional + 1 \in Nat /\ U * y + U \in Nat
      BY <1>0, <1>1, ProductIsNat
    <3> QED
      BY <3>1, ProductIsMonotone
  <2>2. /\ (kept * notional + 1) * base = exact + base
        /\ (U * y + U) * base = U * (y * base) + U * base
    BY <1>0
  <2>3. U * base <= U * (U * b)
    BY <1>0, <1>1, ProductIsNat, ProductIsMonotone
  <2>4. U * (U * b) = square * b
    BY <1>0
  <2>5. U * (y * base) \in Nat /\ U * base \in Nat /\ square * b \in Nat
    BY <1>0, <1>2, ProductIsNat
  <2> HIDE DEF exact, square
  <2> QED
    BY <1>2, <2>1, <2>2, <2>3, <2>4, <2>5
<1> QED
  BY <1>2, <1>3, <1>4, <1>5, <1>6 DEF U

\* So the two amounts of the reserve, before fees, are this close.
LEMMA ReservesClose ==
  ASSUME NEW exact \in Nat, NEW amount \in Nat, NEW b \in Nat,
         NEW r \in Nat, (PRECISE_UNIT * PRECISE_UNIT) * r <= exact,
         exact < (PRECISE_UNIT * PRECISE_UNIT) * (r + 2),
         PRECISE_UNIT * amount <= exact,
         exact < PRECISE_UNIT * amount + (PRECISE_UNIT * PRECISE_UNIT) * b,
         NEW s \in Nat, PRECISE_UNIT * s <= amount, amount < PRECISE_UNIT * s + PRECISE_UNIT
  PROVE  s <= r + 1 /\ r <= s + b
<1> DEFINE U == PRECISE_UNIT
           square == U * U
<1>0. U \in Nat \ {0}
  BY PreciseUnitAssumption
<1>1. /\ square * r <= exact /\ exact < square * (r + 2)
      /\ U * amount <= exact /\ exact < U * amount + square * b
      /\ U * s <= amount /\ amount < U * s + U
  OBVIOUS
<1> HIDE DEF U
<1>2. square \in Nat \ {0}
  BY <1>0, ProductIsNat
<1>3. square * s <= exact
  <2>1. U * (U * s) <= U * amount
    BY <1>0, <1>1, ProductIsNat, ProductIsMonotone
  <2>2. U * (U * s) = square * s
    BY <1>0
  <2>3. square * s \in Nat /\ U * amount \in Nat
    BY <1>0, <1>2, ProductIsNat
  <2> HIDE DEF square
  <2> QED
    BY <1>1, <2>1, <2>2, <2>3
<1>4. exact < square * ((s + b) + 1)
  <2>1. U * amount <= U * (U * s + U)
    BY <1>0, <1>1, ProductIsNat, ProductIsMonotone
  <2>2. U * (U * s + U) = square * s + square
    BY <1>0
  <2>3. square * ((s + b) + 1) = square * s + square + square * b
    BY <1>2
  <2>4. square * s \in Nat /\ U * amount \in Nat /\ square * b \in Nat
    BY <1>0, <1>2, ProductIsNat
  <2> HIDE DEF square
  <2> QED
    BY <1>1, <1>2, <2>1, <2>2, <2>3, <2>4
<1> HIDE DEF square
<1>5. s <= r + 1
  <2>1. exact < square * ((r + 1) + 1)
    <3>1. r + 2 = (r + 1) + 1
      OBVIOUS
    <3> QED
      BY <1>1, <3>1
  <2> QED
    BY <1>2, <1>3, <2>1, ScaledBelow
<1>6. r <= s + b
  BY <1>1, <1>2, <1>4, ScaledBelow
<1> QED
  BY <1>5, <1>6

\* And what the redeemer is paid, after fees.
LEMMA PaymentsClose ==
  ASSUME NEW exact \in Nat, NEW base \in Nat \ {0}, NEW b \in Nat,
         base <= PRECISE_UNIT * b,
         NEW rest \in Nat, rest <= PRECISE_UNIT,
         NEW r \in Nat, (PRECISE_UNIT * PRECISE_UNIT) * r <= exact,
         exact < (PRECISE_UNIT * PRECISE_UNIT) * (r + 2),
         NEW y \in Nat, PRECISE_UNIT * (y * base) <= exact,
         exact < PRECISE_UNIT * (y * base) + (PRECISE_UNIT * PRECISE_UNIT) * b,
         NEW p \in Nat, rest * r <= PRECISE_UNIT * p,
         PRECISE_UNIT * p < rest * r + 2 * PRECISE_UNIT,
         NEW f \in Nat, rest * y <= PRECISE_UNIT * f,
         PRECISE_UNIT * f < rest * y + 2 * PRECISE_UNIT,
         NEW x \in Nat, PRECISE_UNIT * x <= f * base,
         f * base < PRECISE_UNIT * x + PRECISE_UNIT
  PROVE  p <= x + 2 + b /\ x <= p + 1 + 2 * b
<1> DEFINE U == PRECISE_UNIT
           square == U * U
           cube == square * U
           whole == rest * exact
<1>0. U \in Nat \ {0}
  BY PreciseUnitAssumption
<1>1. /\ base <= U * b /\ rest <= U
      /\ square * r <= exact /\ exact < square * (r + 2)
      /\ U * (y * base) <= exact /\ exact < U * (y * base) + square * b
      /\ rest * r <= U * p /\ U * p < rest * r + 2 * U
      /\ rest * y <= U * f /\ U * f < rest * y + 2 * U
      /\ U * x <= f * base /\ f * base < U * x + U
  OBVIOUS
<1> HIDE DEF U
<1>2. square \in Nat \ {0}
  BY <1>0, ProductIsNat
<1>3. cube \in Nat \ {0} /\ whole \in Nat
  <2> HIDE DEF square
  <2> QED
    BY <1>0, <1>2, ProductIsNat
<1>4. cube * p < whole + 2 * cube
  <2>1. square * (U * p + 1) <= square * (rest * r + 2 * U)
    <3>1. U * p + 1 <= rest * r + 2 * U /\ U * p + 1 \in Nat /\ rest * r + 2 * U \in Nat
      BY <1>0, <1>1, ProductIsNat
    <3> HIDE DEF square
    <3> QED
      BY <1>2, <3>1, ProductIsMonotone
  <2>2. rest * (square * r) <= whole
    <3> HIDE DEF square
    <3> QED
      BY <1>1, <1>2, ProductIsNat, ProductIsMonotone
  <2> HIDE DEF square, whole
  <2>3. /\ square * (U * p + 1) = cube * p + square
        /\ square * (rest * r + 2 * U) = rest * (square * r) + 2 * cube
    BY <1>0, <1>2
  <2>4. rest * (square * r) \in Nat /\ cube * p \in Nat
    BY <1>2, <1>3, ProductIsNat
  <2> HIDE DEF cube
  <2> QED
    BY <1>2, <1>3, <2>1, <2>2, <2>3, <2>4
<1>5. whole <= cube * p + 2 * cube
  <2> HIDE DEF square
  <2>1. whole <= rest * (square * (r + 2))
    <3>1. square * (r + 2) \in Nat /\ exact <= square * (r + 2)
      BY <1>1, <1>2, ProductIsNat
    <3> QED
      BY <3>1, ProductIsMonotone
  <2>2. rest * (square * (r + 2)) = square * (rest * r) + 2 * (square * rest)
    BY <1>2
  <2>3. square * (rest * r) <= square * (U * p) /\ square * rest <= square * U
    BY <1>0, <1>1, <1>2, ProductIsNat, ProductIsMonotone
  <2>4. square * (U * p) = cube * p
    BY <1>0, <1>2
  <2>5. square * (rest * r) \in Nat /\ square * rest \in Nat /\ cube * p \in Nat
    BY <1>2, <1>3, ProductIsNat
  <2>6. square * rest <= cube
    BY <2>3
  <2> HIDE DEF cube, whole
  <2> QED
    BY <1>3, <2>1, <2>2, <2>3, <2>4, <2>5, <2>6
<1>6. cube * x < whole + (2 * b) * cube
  <2>1. square * (U * x) <= square * (f * base)
    <3> HIDE DEF square
    <3> QED
      BY <1>0, <1>1, <1>2, ProductIsNat, ProductIsMonotone
  <2>2. square * (U * x) = cube * x /\ square * (f * base) = (U * f) * (U * base)
    BY <1>0
  <2>3. (U * f + 1) * (U * base) <= (rest * y + 2 * U) * (U * base)
    <3>1. U * f + 1 <= rest * y + 2 * U /\ U * f + 1 \in Nat /\ rest * y + 2 * U \in Nat
          /\ U * base \in Nat
      BY <1>0, <1>1, ProductIsNat
    <3> QED
      BY <3>1, ProductIsMonotone
  <2>4. /\ (U * f + 1) * (U * base) = (U * f) * (U * base) + U * base
        /\ (rest * y + 2 * U) * (U * base) = rest * (U * (y * base)) + 2 * (square * base)
    BY <1>0
  <2>5. rest * (U * (y * base)) <= whole
    BY <1>0, <1>1, ProductIsNat, ProductIsMonotone
  <2> HIDE DEF square, whole
  <2>6. square * base <= square * (U * b)
    BY <1>0, <1>1, <1>2, ProductIsNat, ProductIsMonotone
  <2>7. square * (U * b) = b * cube /\ (2 * b) * cube = 2 * (b * cube)
    BY <1>0, <1>2
  <2> HIDE DEF cube
  <2>8. /\ cube * x \in Nat /\ (U * f) * (U * base) \in Nat /\ U * base \in Nat \ {0}
        /\ rest * (U * (y * base)) \in Nat /\ square * base \in Nat /\ b * cube \in Nat
        /\ (2 * b) * cube \in Nat
    BY <1>0, <1>2, <1>3, ProductIsNat
  <2>9. cube * x <= (U * f) * (U * base)
    BY <2>1, <2>2
  <2>10. (U * f) * (U * base) < rest * (U * (y * base)) + 2 * (square * base)
    BY <2>3, <2>4, <2>8
  <2>11. square * base <= b * cube
    BY <2>6, <2>7
  <2> QED
    BY <1>3, <2>5, <2>7, <2>8, <2>9, <2>10, <2>11
<1>7. whole < cube * x + cube + b * cube
  <2>1. whole <= rest * (U * (y * base) + square * b)
    <3> HIDE DEF square
    <3>1. U * (y * base) + square * b \in Nat /\ exact <= U * (y * base) + square * b
      BY <1>0, <1>1, <1>2, ProductIsNat
    <3> QED
      BY <3>1, ProductIsMonotone
  <2>2. rest * (U * (y * base) + square * b) = (rest * y) * (U * base) + (square * b) * rest
    BY <1>0
  <2>3. (rest * y) * (U * base) <= (U * f) * (U * base)
    BY <1>0, <1>1, ProductIsNat, ProductIsMonotone
  <2>4. (U * f) * (U * base) = square * (f * base)
    BY <1>0
  <2> HIDE DEF square, whole
  <2>5. (square * b) * rest <= (square * b) * U
    BY <1>0, <1>1, <1>2, ProductIsNat, ProductIsMonotone
  <2>6. (square * b) * U = b * cube
    BY <1>0, <1>2
  <2>7. square * (f * base + 1) <= square * (U * x + U)
    <3>1. f * base + 1 <= U * x + U /\ f * base + 1 \in Nat /\ U * x + U \in Nat
      BY <1>0, <1>1, ProductIsNat
    <3> QED
      BY <1>2, <3>1, ProductIsMonotone
  <2>8. /\ square * (f * base + 1) = square * (f * base) + square
        /\ square * (U * x + U) = cube * x + cube
    BY <1>0, <1>2
  <2> HIDE DEF cube
  <2>9. /\ (rest * y) * (U * base) \in Nat /\ (square * b) * rest \in Nat
        /\ square * (f * base) \in Nat /\ b * cube \in Nat /\ cube * x \in Nat
    BY <1>0, <1>2, <1>3, ProductIsNat
  <2>10. (rest * y) * (U * base) <= square * (f * base)
    BY <2>3, <2>4
  <2>11. (square * b) * rest <= b * cube
    BY <2>5, <2>6
  <2>12. square * (f * base) < cube * x + cube
    BY <1>2, <1>3, <2>7, <2>8, <2>9
  <2>13. whole <= (rest * y) * (U * base) + (square * b) * rest
    BY <2>1, <2>2
  <2> QED
    BY <1>3, <2>9, <2>10, <2>11, <2>12, <2>13
<1> HIDE DEF cube, whole
<1>8. cube * p \in Nat /\ cube * x \in Nat /\ b * cube \in Nat /\ (2 * b) * cube \in Nat
  BY <1>3, ProductIsNat
<1>9. p < x + 3 + b
  <2>1. cube * (x + 3 + b) = cube * x + cube + b * cube + 2 * cube
    BY <1>3
  <2>2. cube * p < cube * (x + 3 + b)
    BY <1>3, <1>4, <1>7, <1>8, <2>1
  <2> QED
    BY <1>3, <2>2, CancelFactor
<1>10. x < p + 2 + 2 * b
  <2>1. cube * (p + 2 + 2 * b) = cube * p + 2 * cube + (2 * b) * cube
    BY <1>3
  <2>2. cube * x < cube * (p + 2 + 2 * b)
    BY <1>3, <1>5, <1>6, <1>8, <2>1
  <2> QED
    BY <1>3, <2>2, CancelFactor
<1> QED
  BY <1>9, <1>10

\* Amounts that are close make units that are close.
LEMMA UnitsOfCloseAmounts ==
  ASSUME NEW n \in Nat \ {0}, NEW x \in Nat, NEW y \in Nat, NEW t \in Nat, x <= y + t
  PROVE  preciseDiv(x, n) <= preciseDiv(y, n) + t * (1 + PRECISE_UNIT \div n)
<1> DEFINE U == PRECISE_UNIT
           dx == preciseDiv(x, n)
           dy == preciseDiv(y, n)
           k == U \div n
<1>0. U \in Nat \ {0}
  BY PreciseUnitAssumption
<1>1. /\ dx \in Nat /\ n * dx <= x * U
      /\ dy \in Nat /\ y * U < n * dy + n
  BY PreciseDivRoundsDown
<1>2. k \in Nat /\ U < k * n + n
  BY <1>0, DivRoundsDown
<1> HIDE DEF U, dx, dy, k
<1>3. x * U <= (y + t) * U
  BY <1>0, ProductIsMonotone
<1>4. t * U <= t * (k * n + n)
  <2>1. k * n + n \in Nat /\ U <= k * n + n
    BY <1>0, <1>2, ProductIsNat
  <2> QED
    BY <1>0, <2>1, ProductIsMonotone
<1>5. /\ (y + t) * U = y * U + t * U
      /\ t * (k * n + n) = n * (t * (1 + k))
      /\ n * (dy + 1 + t * (1 + k)) = n * dy + n + n * (t * (1 + k))
  BY <1>0, <1>1, <1>2
<1>6. /\ n * dx \in Nat /\ x * U \in Nat /\ y * U \in Nat /\ t * U \in Nat
      /\ n * dy \in Nat /\ n * (t * (1 + k)) \in Nat /\ t * (1 + k) \in Nat
  BY <1>0, <1>1, <1>2, ProductIsNat
<1>7. n * dx < n * (dy + 1 + t * (1 + k))
  BY <1>1, <1>3, <1>4, <1>5, <1>6
<1>8. dx < dy + 1 + t * (1 + k)
  BY <1>1, <1>6, <1>7, CancelFactor
<1>9. dx <= dy + t * (1 + k)
  BY <1>1, <1>6, <1>8
<1> QED
  BY <1>9 DEF U, dx, dy, k

\* accrueFee and what feeModuleUtils.ts expects of it.
LEMMA FeePreview == ASSUME TypeOK, FeeTypes PROVE FeePreviewClose
<1> DEFINE fee == calculateStreamingFee
<1>0. PRECISE_UNIT \in Nat \ {0} /\ ONE_YEAR_IN_SECONDS \in Nat \ {0}
      /\ ProtocolStreamingFee \in Nat /\ ProtocolStreamingFee <= PRECISE_UNIT
      /\ supply \in Nat /\ positionMultiplier \in Nat
      /\ virtualUnit \in [Components -> Nat]
  BY PreciseUnitAssumption, SetTokenUnitsAssumption DEF TypeOK
<1> SUFFICES ASSUME Charging, fee < PRECISE_UNIT
             PROVE  /\ fee = getStreamingFee(feeState.lastStreamingFeeTimestamp, now,
                                             feeState.streamingFeePercentage)
                    /\ mintedFee(calculateStreamingFeeInflation(fee))
                         = getStreamingFeeInflationAmount(fee, supply)
                    /\ \A c \in Components :
                         LET expected == getPostFeePositionUnits(realUnit, fee)
                             actual == convertVirtualToRealUnit(virtualUnit[c],
                                         preciseMul(positionMultiplier, PRECISE_UNIT - fee))
                         IN /\ actual <= expected[c] + 1
                            /\ expected[c] <= actual + 1 + virtualUnit[c] \div PRECISE_UNIT
  BY Zenon DEF FeePreviewClose
<1>1. fee = getStreamingFee(feeState.lastStreamingFeeTimestamp, now,
                            feeState.streamingFeePercentage)
  BY DEF calculateStreamingFee, getStreamingFee
<1>2. fee \in Nat
  <2>1. due \in Nat /\ due = (now - feeState.lastStreamingFeeTimestamp)
                               * feeState.streamingFeePercentage
    BY DueIsNat DEF due
  <2>2. fee = due \div ONE_YEAR_IN_SECONDS
    BY <2>1 DEF calculateStreamingFee
  <2> QED
    BY <1>0, <2>1, <2>2, DivRoundsDown
<1> HIDE DEF fee
<1>3. PRECISE_UNIT - fee \in Nat \ {0} /\ PRECISE_UNIT - fee <= PRECISE_UNIT
  BY <1>0, <1>2
<1>4. mintedFee(calculateStreamingFeeInflation(fee)) = getStreamingFeeInflationAmount(fee, supply)
  <2> DEFINE x == (fee * supply) \div (PRECISE_UNIT - fee)
             p == preciseMul(x, ProtocolStreamingFee)
  <2>1. x \in Nat
    <3>1. fee * supply \in Nat
      BY <1>0, <1>2, ProductIsNat
    <3> QED
      BY <1>3, <3>1, DivRoundsDown
  <2>2. /\ calculateStreamingFeeInflation(fee) = x
        /\ getStreamingFeeInflationAmount(fee, supply) = x
    BY DEF calculateStreamingFeeInflation, getStreamingFeeInflationAmount
  <2> HIDE DEF x
  <2>3. p \in Nat
    BY <1>0, <2>1, PreciseMulRoundsDown
  <2>4. mintedFee(x) = (x - p) + p
    BY DEF mintedFee, protocolFeeAmount
  <2> HIDE DEF p
  <2> QED
    BY <2>1, <2>2, <2>3, <2>4
<1>5. ASSUME NEW c \in Components
      PROVE  LET expected == getPostFeePositionUnits(realUnit, fee)
                 actual == convertVirtualToRealUnit(virtualUnit[c],
                             preciseMul(positionMultiplier, PRECISE_UNIT - fee))
             IN /\ actual <= expected[c] + 1
                /\ expected[c] <= actual + 1 + virtualUnit[c] \div PRECISE_UNIT
  <2> DEFINE k == PRECISE_UNIT - fee
             v == virtualUnit[c]
  <2>1. v \in Nat
    BY <1>0
  <2>2. realUnit[c] = preciseMul(v, positionMultiplier) /\ DOMAIN realUnit = Components
    BY DEF realUnit, convertVirtualToRealUnit
  <2>3. getPostFeePositionUnits(realUnit, fee)[c]
          = preciseMul(preciseMul(v, positionMultiplier), k)
    <3> HIDE DEF v
    <3> QED
      BY <2>2 DEF getPostFeePositionUnits
  <2>4. convertVirtualToRealUnit(v, preciseMul(positionMultiplier, k))
          = preciseMul(v, preciseMul(positionMultiplier, k))
    BY DEF convertVirtualToRealUnit
  <2>5. k \in Nat /\ k <= PRECISE_UNIT
    BY <1>3
  <2> HIDE DEF v, k
  <2>6. /\ preciseMul(v, preciseMul(positionMultiplier, k))
             <= preciseMul(preciseMul(v, positionMultiplier), k) + 1
        /\ preciseMul(preciseMul(v, positionMultiplier), k)
             <= preciseMul(v, preciseMul(positionMultiplier, k)) + 1 + v \div PRECISE_UNIT
    BY <1>0, <2>1, <2>5, FeeOnUnitOrMultiplier
  <2>7. /\ convertVirtualToRealUnit(v, preciseMul(positionMultiplier, k))
             <= getPostFeePositionUnits(realUnit, fee)[c] + 1
        /\ getPostFeePositionUnits(realUnit, fee)[c]
             <= convertVirtualToRealUnit(v, preciseMul(positionMultiplier, k))
                  + 1 + v \div PRECISE_UNIT
    BY <2>3, <2>4, <2>6
  <2> QED
    BY <2>7, Zenon DEF v, k
<1> QED
  BY <1>1, <1>4, <1>5

\* The multiplier of a NAV issuance and redemption, and the references'.
LEMMA IssueMultiplierPreview ==
  ASSUME TypeOK, NEW n \in Nat \ {0}, supply <= n
  PROVE  LET expected == getExpectedIssuePositionMultiplier(positionMultiplier, supply, n)
         IN /\ expected <= rescaledMultiplier(n)
            /\ rescaledMultiplier(n) <= expected + 1 + positionMultiplier \div PRECISE_UNIT
<1> DEFINE U == PRECISE_UNIT
           c == preciseDivCeil(n - supply, n)
           k == U - c
<1>0. U \in Nat \ {0} /\ supply \in Nat /\ positionMultiplier \in Nat
  BY PreciseUnitAssumption DEF TypeOK
<1>1. n - supply \in Nat
  BY <1>0
<1>2. c \in Nat /\ (n - supply) * U <= n * c /\ n * c < (n - supply) * U + n
  BY <1>1, PreciseDivCeilRoundsUp
<1> HIDE DEF c, U
<1>3. (n - supply) * U = n * U - supply * U /\ n * k = n * U - n * c
      /\ n * (U + 1) = n * U + n
  BY <1>0, <1>2
<1>4. n * U \in Nat /\ supply * U \in Nat /\ n * c \in Nat
  BY <1>0, <1>2, ProductIsNat
<1>5. n * k <= supply * U /\ supply * U < n * k + n /\ n * c < n * (U + 1)
  <2> HIDE DEF k
  <2> QED
    BY <1>2, <1>3, <1>4
<1>6. k \in Nat
  <2>1. c < U + 1
    BY <1>0, <1>2, <1>5, CancelFactor
  <2> QED
    BY <1>0, <1>2, <2>1
<1> HIDE DEF k
<1>7. /\ preciseMul(positionMultiplier, k) <= (positionMultiplier * supply) \div n
      /\ (positionMultiplier * supply) \div n
           <= preciseMul(positionMultiplier, k) + 1 + positionMultiplier \div PRECISE_UNIT
  BY <1>0, <1>5, <1>6, RatioRoundedFirst DEF U
<1>8. /\ getExpectedIssuePositionMultiplier(positionMultiplier, supply, n)
           = preciseMul(positionMultiplier, k)
      /\ rescaledMultiplier(n) = (positionMultiplier * supply) \div n
  BY DEF getExpectedIssuePositionMultiplier, rescaledMultiplier, k, c, U
<1> QED
  BY <1>7, <1>8

LEMMA RedeemMultiplierPreview ==
  ASSUME TypeOK, NEW n \in Nat \ {0}, n <= supply
  PROVE  LET expected == getExpectedRedeemPositionMultiplier(positionMultiplier, supply, n)
         IN /\ expected <= rescaledMultiplier(n)
            /\ rescaledMultiplier(n) <= expected + 1 + positionMultiplier \div PRECISE_UNIT
            /\ rescaledMultiplier(n) \in Nat \ {0}
<1> DEFINE U == PRECISE_UNIT
           d == preciseDiv(supply - n, n)
           k == U + d
           m == positionMultiplier
<1>0. U \in Nat \ {0} /\ supply \in Nat /\ m \in Nat \ {0}
  BY PreciseUnitAssumption DEF TypeOK
<1>1. supply - n \in Nat
  BY <1>0
<1>2. d \in Nat /\ n * d <= (supply - n) * U /\ (supply - n) * U < n * d + n
  BY <1>1, PreciseDivRoundsDown
<1> HIDE DEF d, U
<1>3. (supply - n) * U = supply * U - n * U /\ n * k = n * U + n * d
  BY <1>0, <1>2
<1>4. n * U \in Nat /\ supply * U \in Nat /\ n * d \in Nat
  BY <1>0, <1>2, ProductIsNat
<1>5. n * k <= supply * U /\ supply * U < n * k + n
  <2> HIDE DEF k
  <2> QED
    BY <1>2, <1>3, <1>4
<1>6. k \in Nat
  BY <1>0, <1>2
<1> HIDE DEF k, m
<1>7. /\ preciseMul(m, k) <= (m * supply) \div n
      /\ (m * supply) \div n <= preciseMul(m, k) + 1 + m \div PRECISE_UNIT
  BY <1>0, <1>5, <1>6, RatioRoundedFirst DEF U
<1>8. /\ getExpectedRedeemPositionMultiplier(m, supply, n) = preciseMul(m, k)
      /\ rescaledMultiplier(n) = (m * supply) \div n
  BY DEF getExpectedRedeemPositionMultiplier, rescaledMultiplier, k, d, U, m
<1>9. (m * supply) \div n \in Nat /\ m <= (m * supply) \div n
  <2>1. m * supply \in Nat /\ m * n <= m * supply
    BY <1>0, ProductIsNat, ProductIsMonotone
  <2> QED
    BY <1>0, <2>1, DivAtLeast, DivRoundsDown
<1> QED
  BY <1>0, <1>7, <1>8, <1>9 DEF m

\* A NAV issuance and what navIssuanceModuleUtils.ts expects of it.
LEMMA IssuePreview == ASSUME TypeOK PROVE IssuePreviewClose
<1> SUFFICES ASSUME NEW q \in ReserveQuantities, supply >= MinSetTokenSupply,
                    calculateSetTokenValuation * supply >= PRECISE_UNIT
             PROVE  LET flow == getFees(q).netFlow
                        minted == getSetTokenMintQuantity(flow)
                        expected == getExpectedIssuePositionMultiplier(positionMultiplier,
                                      supply, supply + minted)
                        actual == rescaledMultiplier(supply + minted)
                    IN /\ flow - getExpectedPostFeeQuantity(q) \in -1 .. 1
                       /\ flow = getExpectedPostFeeQuantity(q)
                            => minted = getExpectedSetTokenIssueQuantity(q)
                       /\ expected <= actual
                       /\ actual <= expected + 1 + positionMultiplier \div PRECISE_UNIT
                       /\ flow = getExpectedPostFeeQuantity(q) /\ actual > 0
                            => UnitsClose(
                                 getExpectedIssuePositionUnit(q, supply + minted, actual),
                                 StoredUnit(getIssuePositionUnit(flow, supply + minted),
                                            actual), actual, 0)
  BY Zenon DEF IssuePreviewClose
<1> DEFINE U == PRECISE_UNIT
           flow == getFees(q).netFlow
           left == getExpectedPostFeeQuantity(q)
           minted == getSetTokenMintQuantity(flow)
           n == supply + minted
           actual == rescaledMultiplier(n)
           value == calculateSetTokenValuation
<1>0. /\ U \in Nat \ {0} /\ supply \in Nat \ {0} /\ positionMultiplier \in Nat
      /\ q \in Nat /\ value \in Nat
  BY PreciseUnitAssumption, SetTokenUnitsAssumption, ValuationIsNat DEF TypeOK
<1>1. flow \in Nat /\ left \in Nat /\ flow - left \in -1 .. 1
  <2> DEFINE rest == U - (ManagerFee + ProtocolDirectFee)
  <2>1. /\ rest \in Nat /\ flow \in Nat /\ left \in Nat
        /\ rest * q <= U * flow /\ U * flow < rest * q + 2 * U
        /\ rest * q <= U * left /\ U * left < rest * q + 2 * U
    BY <1>0, FeesRounded
  <2> HIDE DEF rest, flow, left, U
  <2>2. U * (left + 2) = U * left + 2 * U /\ U * (flow + 2) = U * flow + 2 * U
    BY <1>0, <2>1
  <2>3. rest * q \in Nat /\ U * left \in Nat /\ U * flow \in Nat
    BY <1>0, <2>1, ProductIsNat
  <2>4. U * flow < U * (left + 2) /\ U * left < U * (flow + 2)
    BY <1>0, <2>1, <2>2, <2>3
  <2>5. flow < left + 2 /\ left < flow + 2
    BY <1>0, <2>1, <2>4, CancelFactor
  <2> QED
    BY <2>1, <2>5
<1>2. minted \in Nat
  <2>1. 1 * U <= supply * value /\ supply * value \in Nat
    <3>1. value * supply = supply * value /\ value * supply \in Nat
      BY <1>0, ProductIsNat
    <3> QED
      BY <1>0, <3>1
  <2>2. 1 <= preciseMul(supply, value) /\ preciseMul(supply, value) \in Nat
    <3> HIDE DEF value
    <3> QED
      BY <1>0, <2>1, DivAtLeast, DivRoundsDown DEF preciseMul, U
  <2>3. preciseMul(supply, calculateSetTokenValuation) > 0
    BY <2>2
  <2> HIDE DEF flow
  <2> QED
    BY <1>1, <2>3, MintIsNat
<1>3. flow = left => minted = getExpectedSetTokenIssueQuantity(q)
  <2> HIDE DEF flow
  <2> QED
    BY DEF getSetTokenMintQuantity, getExpectedSetTokenIssueQuantity, left
<1> HIDE DEF flow, minted, left, value
<1>4. n \in Nat \ {0} /\ supply <= n
  BY <1>0, <1>2
<1> HIDE DEF n
<1>5. /\ getExpectedIssuePositionMultiplier(positionMultiplier, supply, n) <= actual
      /\ actual <= getExpectedIssuePositionMultiplier(positionMultiplier, supply, n)
                     + 1 + positionMultiplier \div U
  BY <1>4, IssueMultiplierPreview
<1>6. ASSUME flow = left, actual > 0
      PROVE  UnitsClose(getExpectedIssuePositionUnit(q, n, actual),
                        StoredUnit(getIssuePositionUnit(flow, n), actual), actual, 0)
  <2> DEFINE held == preciseMul(realUnit[Reserve], supply)
             u == preciseDiv(held + flow, n)
             e == preciseDiv(preciseMul(u, actual), actual)
             a == StoredUnit(u, actual)
  <2>1. realUnit[Reserve] \in Nat
    BY RealUnitRoundsDown, SetTokenUnitsAssumption
  <2>2. held \in Nat
    BY <1>0, <2>1, PreciseMulRoundsDown
  <2>3. preciseMul(supply, realUnit[Reserve]) = held
    <3>1. supply * realUnit[Reserve] = realUnit[Reserve] * supply
      BY <1>0, <2>1
    <3> QED
      BY <3>1 DEF preciseMul
  <2>4. u \in Nat
    <3> HIDE DEF held
    <3>1. held + flow \in Nat
      BY <1>1, <2>2
    <3> QED
      BY <1>4, <3>1, PreciseDivRoundsDown
  <2>5. /\ getIssuePositionUnit(flow, n) = u
        /\ getExpectedIssuePositionUnit(q, n, actual) = e
    <3>1. getExpectedPostFeeQuantity(q) = flow
      BY <1>6 DEF left
    <3> HIDE DEF held
    <3>2. getIssuePositionUnit(flow, n) = u
      BY DEF getIssuePositionUnit, held
    <3>3. getExpectedIssuePositionUnit(q, n, actual) = e
      BY <2>3, <3>1 DEF getExpectedIssuePositionUnit
    <3> QED
      BY <3>2, <3>3
  <2>6. actual \in Nat \ {0}
    <3>1. positionMultiplier * supply \in Nat
      BY <1>0, ProductIsNat
    <3> QED
      BY <1>4, <1>6, <3>1, DivRoundsDown DEF rescaledMultiplier
  <2> HIDE DEF u, actual
  <2>7. e \in Nat /\ e <= u /\ u <= e + 1 + U \div actual
    BY <2>4, <2>6, ReferenceConversionLoses
  <2>8. a \in Nat /\ a <= u /\ u <= a + 1 + actual \div U
    BY <2>4, <2>6, ConversionLoses
  <2>9. U \div actual \in Nat /\ actual \div U \in Nat
    BY <1>0, <2>6, DivRoundsDown
  <2> HIDE DEF e, a
  <2>10. e <= a + 1 + actual \div U + 0 /\ a <= e + 1 + U \div actual + 0
    <3> DEFINE x == U \div actual
               y == actual \div U
    <3> HIDE DEF x, y
    <3>1. x \in Nat /\ y \in Nat /\ u <= e + 1 + x /\ u <= a + 1 + y
      BY <2>7, <2>8, <2>9 DEF x, y
    <3>2. e <= a + 1 + y + 0 /\ a <= e + 1 + x + 0
      BY <2>4, <2>7, <2>8, <3>1
    <3> QED
      BY <3>2 DEF x, y
  <2>11. UnitsClose(e, a, actual, 0)
    BY <2>10 DEF UnitsClose, U
  <2> QED
    BY <2>5, <2>11 DEF a
<1> QED
  BY <1>1, <1>3, <1>5, <1>6 DEF flow, left, minted, n

\* A NAV redemption and what navIssuanceModuleUtils.ts expects of it.
LEMMA RedeemAmountsPreview ==
  ASSUME TypeOK, NEW q \in Nat
  PROVE  LET notional == preciseMul(calculateSetTokenValuation, q)
             r == getRedeemReserveQuantity(q)
             s == preciseMul(notional - preciseMulCeil(notional, Premium), BaseUnits[Reserve])
             paid == getFees(r).netFlow
             coarse == preciseMulCeil(BaseUnits[Reserve], 1)
         IN /\ r \in Nat /\ s \in Nat /\ coarse \in Nat \ {0}
            /\ s <= r + 1 /\ r <= s + coarse
            /\ paid <= getExpectedReserveRedeemQuantity(q) + 2 + coarse
            /\ getExpectedReserveRedeemQuantity(q) <= paid + 1 + 2 * coarse
<1> DEFINE U == PRECISE_UNIT
           value == calculateSetTokenValuation
           base == BaseUnits[Reserve]
           b == preciseMulCeil(base, 1)
           notional == preciseMul(value, q)
           reserve == preciseMul(notional, base)
           r == reserve - preciseMulCeil(reserve, Premium)
           y == notional - preciseMulCeil(notional, Premium)
           s == preciseMul(y, base)
           kept == U - Premium
           rest == U - (ManagerFee + ProtocolDirectFee)
           p == getFees(r).netFlow
           f == getExpectedPostFeeQuantity(y)
           x == preciseMul(f, base)
           exact == kept * (notional * base)
<1>0. U \in Nat \ {0} /\ base \in Nat \ {0} /\ value \in Nat
  BY PreciseUnitAssumption, SetTokenUnitsAssumption, ValuationIsNat
<1>1. b \in Nat \ {0} /\ base <= U * b
  <2>1. 1 \in Nat /\ base * 1 = base
    BY <1>0
  <2>2. b \in Nat /\ base * 1 <= U * b
    BY <1>0, <2>1, PreciseMulCeilRoundsUp
  <2> HIDE DEF b, base, U
  <2>3. b # 0
    <3> SUFFICES ASSUME b = 0 PROVE FALSE
      OBVIOUS
    <3>1. U * b = 0
      BY <1>0
    <3> QED
      BY <1>0, <2>1, <2>2, <3>1
  <2> QED
    BY <2>1, <2>2, <2>3
<1>2. notional \in Nat
  BY <1>0, PreciseMulRoundsDown
<1>3. reserve \in Nat /\ U * reserve <= notional * base /\ notional * base < U * reserve + U
  <2> HIDE DEF notional, base
  <2> QED
    BY <1>0, <1>2, PreciseMulRoundsDown
<1>4. getRedeemReserveQuantity(q) = r
  <2>1. q * value = value * q
    BY <1>0
  <2>2. preciseMul(q, value) = notional
    BY <2>1 DEF preciseMul
  <2> HIDE DEF notional, base
  <2> QED
    BY <2>2 DEF getRedeemReserveQuantity, base
<1>5. kept \in Nat /\ kept <= U /\ r \in Nat /\ U * r <= kept * reserve
      /\ kept * reserve < U * r + U
  <2> HIDE DEF reserve
  <2> QED
    BY <1>3, PremiumRounded
<1>6. y \in Nat /\ U * y <= kept * notional /\ kept * notional < U * y + U
  <2> HIDE DEF notional
  <2> QED
    BY <1>2, PremiumRounded
<1>7. s \in Nat /\ U * s <= y * base /\ y * base < U * s + U
  <2> HIDE DEF y, base
  <2> QED
    BY <1>0, <1>6, PreciseMulRoundsDown
<1>8. /\ rest \in Nat /\ rest <= U /\ p \in Nat
      /\ rest * r <= U * p /\ U * p < rest * r + 2 * U
  <2> HIDE DEF r
  <2> QED
    BY <1>5, FeesRounded
<1>9. f \in Nat /\ rest * y <= U * f /\ U * f < rest * y + 2 * U
  <2> HIDE DEF y
  <2> QED
    BY <1>6, FeesRounded
<1>10. x \in Nat /\ U * x <= f * base /\ f * base < U * x + U
  <2> HIDE DEF f, base
  <2> QED
    BY <1>0, <1>9, PreciseMulRoundsDown
<1>11. getExpectedReserveRedeemQuantity(q) = x
  BY DEF getExpectedReserveRedeemQuantity
<1> HIDE DEF value, base, b, notional, reserve, r, y, s, kept, rest, p, f, x
<1>12. /\ exact \in Nat
       /\ (U * U) * r <= exact /\ exact < (U * U) * (r + 2)
       /\ U * (y * base) <= exact /\ exact < U * (y * base) + (U * U) * b
  BY <1>0, <1>1, <1>2, <1>3, <1>5, <1>6, PremiumThenBase
<1> HIDE DEF exact
<1>13. s <= r + 1 /\ r <= s + b
  <2>1. y * base \in Nat
    BY <1>0, <1>6, ProductIsNat
  <2> QED
    BY <1>1, <1>5, <1>7, <1>12, <2>1, ReservesClose
<1>14. p <= x + 2 + b /\ x <= p + 1 + 2 * b
  BY <1>0, <1>1, <1>5, <1>6, <1>8, <1>9, <1>10, <1>12, PaymentsClose
<1> QED
  BY <1>1, <1>4, <1>5, <1>7, <1>11, <1>13, <1>14 DEF p, s, y, b, notional, value, base

LEMMA RedeemPreview == ASSUME TypeOK PROVE RedeemPreviewClose
<1> SUFFICES ASSUME NEW q \in Quantities, supply - q >= MinSetTokenSupply
             PROVE  LET actual == rescaledMultiplier(supply - q)
                        expected == getExpectedRedeemPositionMultiplier(positionMultiplier,
                                      supply, supply - q)
                        r == getRedeemReserveQuantity(q)
                        paid == getFees(r).netFlow
                        coarse == preciseMulCeil(BaseUnits[Reserve], 1)
                    IN /\ expected <= actual
                       /\ actual <= expected + 1 + positionMultiplier \div PRECISE_UNIT
                       /\ paid <= getExpectedReserveRedeemQuantity(q) + 2 + coarse
                       /\ getExpectedReserveRedeemQuantity(q) <= paid + 1 + 2 * coarse
                       /\ r + 1 <= preciseMul(realUnit[Reserve], supply)
                            => UnitsClose(
                                 getExpectedRedeemPositionUnit(q, supply - q, actual),
                                 StoredUnit(getRedeemPositionUnit(r, supply - q), actual),
                                 actual, coarse * (1 + PRECISE_UNIT \div (supply - q)))
  BY Zenon DEF RedeemPreviewClose
<1> DEFINE U == PRECISE_UNIT
           n == supply - q
           actual == rescaledMultiplier(n)
           notional == preciseMul(calculateSetTokenValuation, q)
           r == getRedeemReserveQuantity(q)
           s == preciseMul(notional - preciseMulCeil(notional, Premium), BaseUnits[Reserve])
           b == preciseMulCeil(BaseUnits[Reserve], 1)
<1>0. U \in Nat \ {0} /\ supply \in Nat /\ q \in Nat \ {0} /\ MinSetTokenSupply \in Nat \ {0}
  BY PreciseUnitAssumption, SetTokenUnitsAssumption DEF TypeOK
<1>1. n \in Nat \ {0} /\ n <= supply
  BY <1>0
<1>2. /\ r \in Nat /\ s \in Nat /\ b \in Nat \ {0} /\ s <= r + 1 /\ r <= s + b
      /\ getFees(r).netFlow <= getExpectedReserveRedeemQuantity(q) + 2 + b
      /\ getExpectedReserveRedeemQuantity(q) <= getFees(r).netFlow + 1 + 2 * b
  BY <1>0, RedeemAmountsPreview
<1> HIDE DEF n
<1>3. /\ getExpectedRedeemPositionMultiplier(positionMultiplier, supply, n) <= actual
      /\ actual <= getExpectedRedeemPositionMultiplier(positionMultiplier, supply, n)
                     + 1 + positionMultiplier \div U
      /\ actual \in Nat \ {0}
  BY <1>1, RedeemMultiplierPreview
<1> HIDE DEF r, b, actual
<1>4. ASSUME r + 1 <= preciseMul(realUnit[Reserve], supply)
      PROVE  UnitsClose(getExpectedRedeemPositionUnit(q, n, actual),
                        StoredUnit(getRedeemPositionUnit(r, n), actual), actual,
                        b * (1 + U \div n))
  <2> DEFINE held == preciseMul(realUnit[Reserve], supply)
             u == preciseDiv(held - r, n)
             v == preciseDiv(held - s, n)
             e == preciseDiv(preciseMul(v, actual), actual)
             a == StoredUnit(u, actual)
             k == U \div n
             slack == b * (1 + k)
  <2>1. realUnit[Reserve] \in Nat
    BY RealUnitRoundsDown, SetTokenUnitsAssumption
  <2>2. held \in Nat
    BY <1>0, <2>1, PreciseMulRoundsDown
  <2>3. preciseMul(supply, realUnit[Reserve]) = held
    <3>1. supply * realUnit[Reserve] = realUnit[Reserve] * supply
      BY <1>0, <2>1
    <3> QED
      BY <3>1 DEF preciseMul
  <2>4. getRedeemPositionUnit(r, n) = u
    BY DEF getRedeemPositionUnit
  <2>5. getExpectedRedeemPositionUnit(q, n, actual) = e
    <3> HIDE DEF held
    <3> QED
      BY <2>3 DEF getExpectedRedeemPositionUnit
  <2> HIDE DEF held, s
  <2>6. /\ held - r \in Nat /\ held - s \in Nat
        /\ held - r <= (held - s) + 1 /\ held - s <= (held - r) + b
    <3>1. r + 1 <= held
      BY <1>4 DEF held
    <3> QED
      BY <1>2, <2>2, <3>1
  <2>7. u \in Nat /\ v \in Nat
    BY <1>1, <2>6, PreciseDivRoundsDown
  <2>8. k \in Nat
    BY <1>0, <1>1, DivRoundsDown
  <2>9. u <= v + 1 * (1 + k) /\ v <= u + slack
    BY <1>1, <1>2, <2>6, UnitsOfCloseAmounts
  <2> HIDE DEF u, v, k
  <2>10. slack \in Nat /\ 1 * (1 + k) <= slack
    <3>1. 1 + k \in Nat /\ 1 <= b /\ b \in Nat
      BY <1>2, <2>8
    <3> QED
      BY <3>1, ProductIsNat, ProductIsMonotone
  <2>11. e \in Nat /\ e <= v /\ v <= e + 1 + U \div actual
    BY <1>3, <2>7, ReferenceConversionLoses
  <2>12. a \in Nat /\ a <= u /\ u <= a + 1 + actual \div U
    BY <1>3, <2>7, ConversionLoses
  <2>13. U \div actual \in Nat /\ actual \div U \in Nat
    BY <1>0, <1>3, DivRoundsDown
  <2> HIDE DEF e, a, slack
  <2>14. e <= a + 1 + actual \div U + slack /\ a <= e + 1 + U \div actual + slack
    <3> DEFINE x == U \div actual
               y == actual \div U
               t == 1 * (1 + k)
    <3>1. t \in Nat
      BY <2>8
    <3> HIDE DEF x, y, t
    <3>2. /\ x \in Nat /\ y \in Nat /\ v <= e + 1 + x /\ u <= a + 1 + y
          /\ u <= v + t /\ t <= slack
      BY <2>9, <2>10, <2>11, <2>12, <2>13 DEF x, y, t
    <3>3. e <= a + 1 + y + slack /\ a <= e + 1 + x + slack
      BY <2>7, <2>9, <2>10, <2>11, <2>12, <3>1, <3>2
    <3> QED
      BY <3>3 DEF x, y
  <2>15. UnitsClose(e, a, actual, slack)
    BY <2>14 DEF UnitsClose, U
  <2> QED
    BY <2>4, <2>5, <2>15 DEF a, slack, k
<1> QED
  BY <1>2, <1>3, <1>4 DEF n, r, b, actual

(***************************************************************************)
(* What feeModuleUtils.ts and navIssuanceModuleUtils.ts compute for        *)
(* accrueFee, NAV issuance and NAV redemption stays as close to the        *)
(* contracts as ReferenceFormulasClose says, for every scale, price, rate, *)
(* number of decimals and quantity.  It needs the types (a multiplier that *)
(* is never zero among them) and that a fee began to run in the past.      *)
(***************************************************************************)
THEOREM ReferencesStayClose == Spec => []ReferenceFormulasClose
<1>1. UnitsInv => ReferenceFormulasClose
  <2> SUFFICES ASSUME UnitsInv PROVE ReferenceFormulasClose
    OBVIOUS
  <2>1. TypeOK /\ FeeTypes
    BY DEF UnitsInv, FeeInv
  <2> QED
    BY <2>1, FeePreview, IssuePreview, RedeemPreview DEF ReferenceFormulasClose
<1> QED
  BY <1>1, UnitsAlways, PTL

(***************************************************************************)
(* Issuing against the reserve and redeeming at once.                      *)
(***************************************************************************)

\* The value of so many base units of a component.
LEMMA ValueRoundsDown ==
  ASSUME NEW x \in Nat, NEW base \in Nat \ {0}, NEW p \in Nat \ {0}
  PROVE  LET w == preciseMul(preciseDiv(x, base), p)
         IN /\ w \in Nat
            /\ base * w <= x * p
            /\ (x * p) * PRECISE_UNIT <= base * (PRECISE_UNIT * w + PRECISE_UNIT + p)
<1> DEFINE U == PRECISE_UNIT
           a == preciseDiv(x, base)
           w == preciseMul(a, p)
<1>0. U \in Nat \ {0}
  BY PreciseUnitAssumption
<1>1. a \in Nat /\ base * a <= x * U /\ x * U < base * a + base
  BY PreciseDivRoundsDown
<1>2. w \in Nat /\ U * w <= a * p /\ a * p < U * w + U
  <2> HIDE DEF a
  <2> QED
    BY <1>1, PreciseMulRoundsDown
<1> HIDE DEF a, w, U
<1>3. base * w <= x * p
  <2>1. base * (U * w) <= base * (a * p)
    BY <1>0, <1>1, <1>2, ProductIsNat, ProductIsMonotone
  <2>2. (base * a) * p <= (x * U) * p
    BY <1>0, <1>1, ProductIsNat, ProductIsMonotone
  <2>3. base * (a * p) = (base * a) * p /\ (x * U) * p = U * (x * p)
        /\ base * (U * w) = U * (base * w)
    BY <1>0, <1>1, <1>2
  <2>4. U * (base * w) \in Nat /\ (base * a) * p \in Nat /\ U * (x * p) \in Nat
        /\ base * w \in Nat /\ x * p \in Nat
    BY <1>0, <1>1, <1>2, ProductIsNat
  <2>5. U * (base * w) <= U * (x * p)
    BY <2>1, <2>2, <2>3, <2>4
  <2> QED
    BY <1>0, <2>4, <2>5, CancelFactor
<1>4. (x * p) * U <= base * (U * w + U + p)
  <2>1. (x * U) * p <= (base * a + base) * p
    BY <1>0, <1>1, ProductIsNat, ProductIsMonotone
  <2>2. base * (a * p + p) <= base * (U * w + U + p)
    <3>1. a * p + p <= U * w + U + p /\ a * p + p \in Nat /\ U * w + U + p \in Nat
      BY <1>0, <1>1, <1>2, ProductIsNat
    <3> QED
      BY <3>1, ProductIsMonotone
  <2>3. (x * U) * p = (x * p) * U /\ (base * a + base) * p = base * (a * p + p)
    BY <1>0, <1>1
  <2>4. (x * p) * U \in Nat /\ base * (a * p + p) \in Nat /\ base * (U * w + U + p) \in Nat
    BY <1>0, <1>1, <1>2, ProductIsNat
  <2> QED
    BY <2>1, <2>2, <2>3, <2>4
<1> QED
  BY <1>2, <1>3, <1>4 DEF w, a, U

\* A component the issuance does not touch: the multiplier falls as the supply
\* grows, and its unit and its value were rounded down before.
LEMMA OthersKeepValue ==
  ASSUME NEW v \in Nat, NEW m \in Nat, NEW n \in Nat, NEW s \in Nat, NEW t \in Nat,
         n * t <= m * s,
         NEW base \in Nat \ {0}, NEW p \in Nat \ {0}
  PROVE  LET before == preciseMul(preciseDiv(preciseMul(v, m), base), p)
             after == preciseMul(preciseDiv(preciseMul(v, n), base), p)
             hidden == 1 + preciseMulCeil(p, 1) + (p - 1) \div base + 1
         IN /\ before \in Nat /\ after \in Nat /\ hidden \in Nat
            /\ after * t <= (before + hidden) * s
<1> DEFINE U == PRECISE_UNIT
           x == preciseMul(v, m)
           y == preciseMul(v, n)
           w == preciseMul(preciseDiv(x, base), p)
           z == preciseMul(preciseDiv(y, base), p)
           cu == preciseMulCeil(p, 1)
           cb == (p - 1) \div base + 1
<1>0. U \in Nat \ {0}
  BY PreciseUnitAssumption
<1>1. x \in Nat /\ v * m < U * x + U /\ y \in Nat /\ U * y <= v * n
  BY PreciseMulRoundsDown
<1>2. w \in Nat /\ (x * p) * U <= base * (U * w + U + p)
  <2> HIDE DEF x
  <2> QED
    BY <1>1, ValueRoundsDown
<1>3. z \in Nat /\ base * z <= y * p
  <2> HIDE DEF y
  <2> QED
    BY <1>1, ValueRoundsDown
<1>4. cu \in Nat /\ p <= U * cu
  <2>1. 1 \in Nat /\ p * 1 = p
    OBVIOUS
  <2> QED
    BY <2>1, PreciseMulCeilRoundsUp
<1>5. cb \in Nat /\ p <= cb * base
  <2> DEFINE d == (p - 1) \div base
  <2>1. p - 1 \in Nat
    OBVIOUS
  <2>2. d \in Nat /\ p - 1 < d * base + base
    BY <2>1, DivRoundsDown
  <2> HIDE DEF d
  <2>3. (d + 1) * base = d * base + base /\ d * base \in Nat
    BY <2>2, ProductIsNat
  <2>4. d + 1 \in Nat /\ p <= (d + 1) * base
    BY <2>2, <2>3
  <2> QED
    BY <2>4 DEF d
<1> HIDE DEF U, x, y, w, z, cu, cb
<1>6. y * t <= (x + 1) * s
  <2>1. (U * y) * t <= (v * n) * t
    BY <1>0, <1>1, ProductIsNat, ProductIsMonotone
  <2>2. v * (n * t) <= v * (m * s)
    BY ProductIsNat, ProductIsMonotone
  <2>3. (v * m) * s <= (U * x + U) * s
    BY <1>0, <1>1, ProductIsNat, ProductIsMonotone
  <2>4. /\ (v * n) * t = v * (n * t) /\ v * (m * s) = (v * m) * s
        /\ (U * y) * t = U * (y * t) /\ (U * x + U) * s = U * ((x + 1) * s)
    BY <1>0, <1>1
  <2>5. /\ U * (y * t) \in Nat /\ v * (n * t) \in Nat /\ (v * m) * s \in Nat
        /\ U * ((x + 1) * s) \in Nat /\ y * t \in Nat /\ (x + 1) * s \in Nat
    BY <1>0, <1>1, ProductIsNat
  <2>6. U * (y * t) <= U * ((x + 1) * s)
    BY <2>1, <2>2, <2>3, <2>4, <2>5
  <2> QED
    BY <1>0, <2>5, <2>6, CancelFactor
<1> DEFINE total == w + (1 + cu + cb)
<1>7. (x + 1) * p <= base * total
  <2>1. base * p <= base * (U * cu) /\ U * p <= U * (cb * base)
    BY <1>0, <1>4, <1>5, ProductIsNat, ProductIsMonotone
  <2>2. /\ ((x + 1) * p) * U = (x * p) * U + U * p
        /\ base * (U * w + U + p) = base * (U * w + U) + base * p
        /\ (base * total) * U = base * (U * w + U) + base * (U * cu) + U * (cb * base)
    BY <1>0, <1>1, <1>2, <1>4, <1>5
  <2>3. /\ (x * p) * U \in Nat /\ U * p \in Nat /\ base * p \in Nat
        /\ base * (U * w + U) \in Nat /\ base * (U * cu) \in Nat /\ U * (cb * base) \in Nat
    BY <1>0, <1>1, <1>2, <1>4, <1>5, ProductIsNat
  <2>4. ((x + 1) * p) * U <= (base * total) * U
    <3> HIDE DEF total
    <3> QED
      BY <1>2, <2>1, <2>2, <2>3
  <2>5. (x + 1) * p \in Nat /\ base * total \in Nat
    BY <1>1, <1>2, <1>4, <1>5, ProductIsNat
  <2> HIDE DEF total
  <2> QED
    BY <1>0, <2>4, <2>5, CancelFactor
<1>8. z * t <= total * s
  <2>1. (base * z) * t <= (y * p) * t
    BY <1>1, <1>3, ProductIsNat, ProductIsMonotone
  <2>2. (y * t) * p <= ((x + 1) * s) * p
    BY <1>1, <1>6, ProductIsNat, ProductIsMonotone
  <2>3. total \in Nat
    BY <1>2, <1>4, <1>5
  <2> HIDE DEF total
  <2>4. ((x + 1) * p) * s <= (base * total) * s
    BY <1>1, <1>7, <2>3, ProductIsNat, ProductIsMonotone
  <2>5. /\ (y * p) * t = (y * t) * p /\ ((x + 1) * s) * p = ((x + 1) * p) * s
        /\ (base * z) * t = base * (z * t) /\ (base * total) * s = base * (total * s)
    BY <1>1, <1>3, <2>3
  <2>6. /\ base * (z * t) \in Nat /\ (y * t) * p \in Nat /\ ((x + 1) * p) * s \in Nat
        /\ base * (total * s) \in Nat /\ z * t \in Nat /\ total * s \in Nat
    BY <1>1, <1>3, <2>3, ProductIsNat
  <2>7. base * (z * t) <= base * (total * s)
    BY <2>1, <2>2, <2>4, <2>5, <2>6
  <2> QED
    BY <2>6, <2>7, CancelFactor
<1>9. 1 + cu + (p - 1) \div base + 1 = 1 + cu + cb
  <2> DEFINE d == (p - 1) \div base
  <2>1. p - 1 \in Nat
    OBVIOUS
  <2>2. d \in Nat
    BY <2>1, DivRoundsDown
  <2> HIDE DEF d
  <2>3. 1 + cu + d + 1 = 1 + cu + (d + 1)
    BY <1>4, <2>2
  <2> QED
    BY <2>3 DEF d, cb
<1>10. 1 + cu + cb \in Nat
  BY <1>4, <1>5
<1> QED
  BY <1>2, <1>3, <1>8, <1>9, <1>10 DEF x, y, w, z, cu

\* The reserve, whose unit is computed anew from what it tracked and the flow.
LEMMA ReserveGainsFlow ==
  ASSUME NEW x \in Nat, NEW y \in Nat, NEW s \in Nat, NEW t \in Nat \ {0}, NEW flow \in Nat,
         y <= preciseDiv(preciseMul(x, s) + flow, t), NEW base \in Nat \ {0}
  PROVE  LET before == preciseMul(preciseDiv(x, base), PRECISE_UNIT)
             after == preciseMul(preciseDiv(y, base), PRECISE_UNIT)
         IN /\ before \in Nat /\ after \in Nat
            /\ base * (after * t)
                 <= base * ((before + 1) * s) + flow * (PRECISE_UNIT * PRECISE_UNIT)
<1> DEFINE U == PRECISE_UNIT
           a == preciseDiv(x, base)
           w == preciseMul(a, U)
           z == preciseMul(preciseDiv(y, base), U)
           held == preciseMul(x, s)
           u == preciseDiv(held + flow, t)
<1>0. U \in Nat \ {0}
  BY PreciseUnitAssumption
<1>1. a \in Nat /\ x * U < base * a + base
  BY PreciseDivRoundsDown
<1>2. w \in Nat /\ U * w <= a * U /\ a * U < U * w + U
  <2> HIDE DEF a
  <2> QED
    BY <1>0, <1>1, PreciseMulRoundsDown
<1>3. z \in Nat /\ base * z <= y * U
  BY <1>0, ValueRoundsDown
<1>4. held \in Nat /\ U * held <= x * s
  BY PreciseMulRoundsDown
<1>5. u \in Nat /\ t * u <= (held + flow) * U /\ y <= u
  <2> HIDE DEF held
  <2>1. held + flow \in Nat
    BY <1>4
  <2> QED
    BY <2>1, PreciseDivRoundsDown DEF held
<1> HIDE DEF U, a, w, z, held, u
<1>6. a <= w
  <2>1. U * a < U * (w + 1)
    <3>1. a * U = U * a /\ U * (w + 1) = U * w + U
      BY <1>0, <1>1, <1>2
    <3> QED
      BY <1>2, <3>1
  <2>2. a < w + 1
    BY <1>0, <1>1, <1>2, <2>1, CancelFactor
  <2> QED
    BY <1>1, <1>2, <2>2
<1>7. x * U <= base * (w + 1)
  <2>1. base * (a + 1) <= base * (w + 1)
    BY <1>1, <1>2, <1>6, ProductIsMonotone
  <2>2. base * (a + 1) = base * a + base
    BY <1>1
  <2>3. x * U \in Nat /\ base * (w + 1) \in Nat /\ base * a \in Nat
    BY <1>0, <1>1, <1>2, ProductIsNat
  <2> QED
    BY <1>1, <2>1, <2>2, <2>3
<1>8. y * t <= x * s + flow * U
  <2>1. y * t <= u * t
    BY <1>5, ProductIsMonotone
  <2>2. u * t = t * u /\ (held + flow) * U = U * held + flow * U
    BY <1>0, <1>4, <1>5
  <2>3. /\ y * t \in Nat /\ t * u \in Nat /\ U * held \in Nat /\ flow * U \in Nat
        /\ x * s \in Nat
    BY <1>0, <1>4, <1>5, ProductIsNat
  <2> QED
    BY <1>4, <1>5, <2>1, <2>2, <2>3
<1>9. base * (z * t) <= base * ((w + 1) * s) + flow * (U * U)
  <2>1. (base * z) * t <= (y * U) * t
    BY <1>0, <1>3, ProductIsNat, ProductIsMonotone
  <2>2. (y * t) * U <= (x * s + flow * U) * U
    BY <1>0, <1>8, ProductIsNat, ProductIsMonotone
  <2>3. (x * U) * s <= (base * (w + 1)) * s
    BY <1>0, <1>2, <1>7, ProductIsNat, ProductIsMonotone
  <2>4. /\ (base * z) * t = base * (z * t) /\ (y * U) * t = (y * t) * U
        /\ (x * s + flow * U) * U = (x * U) * s + flow * (U * U)
        /\ (base * (w + 1)) * s = base * ((w + 1) * s)
    BY <1>0, <1>2, <1>3
  <2>5. /\ base * (z * t) \in Nat /\ (y * t) * U \in Nat /\ (x * U) * s \in Nat
        /\ flow * (U * U) \in Nat /\ base * ((w + 1) * s) \in Nat
    BY <1>0, <1>2, <1>3, ProductIsNat
  <2> QED
    BY <2>1, <2>2, <2>3, <2>4, <2>5
<1> QED
  BY <1>2, <1>3, <1>9 DEF w, a, z, U, held, u

\* What is minted is at most the flow over the value of a SetToken: the premium
\* only adds to the denominator.
LEMMA MintIsWorthTheFlow ==
  ASSUME TypeOK, NEW flow \in Nat, preciseMul(supply, calculateSetTokenValuation) > 0
  PROVE  LET n == getSetTokenMintQuantity(flow)
             base == BaseUnits[Reserve]
         IN /\ n \in Nat
            /\ base * (n * (supply * calculateSetTokenValuation))
                 <= (flow * supply) * (PRECISE_UNIT * PRECISE_UNIT) + base * (n * PRECISE_UNIT)
<1> DEFINE U == PRECISE_UNIT
           kept == preciseMul(flow, Premium)
           base == BaseUnits[Reserve]
           fees == preciseDiv(flow, base)
           f == preciseDiv(flow - kept, base)
           V == calculateSetTokenValuation
           T == preciseMul(supply, V)
           numerator == preciseMul(f, supply)
           D == T + fees - f
           n == preciseDiv(numerator, D)
<1>0. /\ U \in Nat \ {0} /\ base \in Nat \ {0} /\ Premium \in Nat /\ Premium <= U
      /\ supply \in Nat
  BY SetTokenUnitsAssumption, PreciseUnitAssumption DEF TypeOK
<1>1. kept \in Nat /\ kept <= flow
  BY <1>0, PreciseMulRoundsDown, PreciseMulOfPart
<1>2. flow - kept \in Nat /\ flow - kept <= flow
  <2> HIDE DEF kept
  <2> QED
    BY <1>1
<1>3. fees \in Nat /\ f \in Nat /\ f <= fees /\ base * f <= (flow - kept) * U
  <2> HIDE DEF kept, base
  <2> QED
    BY <1>0, <1>2, PreciseDivRoundsDown, PreciseDivIsMonotone
<1>4. V \in Nat
  BY ValuationIsNat
<1>5. T \in Nat /\ T > 0 /\ supply * V < U * T + U
  <2> HIDE DEF V
  <2>1. T \in Nat /\ supply * V < U * T + U
    BY <1>0, <1>4, PreciseMulRoundsDown
  <2> QED
    BY <2>1 DEF V
<1>6. numerator \in Nat /\ U * numerator <= f * supply
  <2> HIDE DEF f
  <2> QED
    BY <1>0, <1>3, PreciseMulRoundsDown
<1>7. D \in Nat \ {0} /\ T <= D
  <2> HIDE DEF T, fees, f
  <2> QED
    BY <1>3, <1>5
<1>8. getSetTokenMintQuantity(flow) = n
  BY DEF getSetTokenMintQuantity
<1>9. n \in Nat /\ D * n <= numerator * U
  <2> HIDE DEF numerator, D
  <2> QED
    BY <1>6, <1>7, PreciseDivRoundsDown
<1> HIDE DEF U, kept, base, fees, f, V, T, numerator, D, n
<1>10. T * n <= f * supply
  <2>1. T * n <= D * n
    BY <1>5, <1>7, <1>9, ProductIsMonotone
  <2>2. numerator * U = U * numerator
    BY <1>0, <1>6
  <2>3. T * n \in Nat /\ D * n \in Nat /\ U * numerator \in Nat /\ f * supply \in Nat
    BY <1>0, <1>3, <1>5, <1>6, <1>7, <1>9, ProductIsNat
  <2> QED
    BY <1>6, <1>9, <2>1, <2>2, <2>3
<1>11. n * (supply * V) <= U * (f * supply) + n * U
  <2>1. n * (supply * V) <= n * (U * T + U)
    BY <1>0, <1>4, <1>5, <1>9, ProductIsNat, ProductIsMonotone
  <2>2. n * (U * T + U) = U * (T * n) + n * U
    BY <1>0, <1>5, <1>9
  <2>3. U * (T * n) <= U * (f * supply)
    BY <1>0, <1>3, <1>5, <1>9, <1>10, ProductIsNat, ProductIsMonotone
  <2>4. /\ n * (supply * V) \in Nat /\ U * (T * n) \in Nat /\ U * (f * supply) \in Nat
        /\ n * U \in Nat
    BY <1>0, <1>3, <1>4, <1>5, <1>9, ProductIsNat
  <2> QED
    BY <2>1, <2>2, <2>3, <2>4
<1>12. base * f <= flow * U
  <2>1. (flow - kept) * U <= flow * U
    BY <1>0, <1>2, ProductIsMonotone
  <2>2. base * f \in Nat /\ (flow - kept) * U \in Nat /\ flow * U \in Nat
    BY <1>0, <1>2, <1>3, ProductIsNat
  <2> QED
    BY <1>3, <2>1, <2>2
<1>13. base * (n * (supply * V)) <= (flow * supply) * (U * U) + base * (n * U)
  <2>1. base * (n * (supply * V)) <= base * (U * (f * supply) + n * U)
    BY <1>0, <1>3, <1>4, <1>9, <1>11, ProductIsNat, ProductIsMonotone
  <2>2. (base * f) * (U * supply) <= (flow * U) * (U * supply)
    BY <1>0, <1>3, <1>12, ProductIsNat, ProductIsMonotone
  <2>3. /\ base * (U * (f * supply) + n * U) = (base * f) * (U * supply) + base * (n * U)
        /\ (flow * U) * (U * supply) = (flow * supply) * (U * U)
    BY <1>0, <1>3, <1>9
  <2>4. /\ base * (n * (supply * V)) \in Nat /\ (base * f) * (U * supply) \in Nat
        /\ base * (n * U) \in Nat /\ (flow * supply) * (U * U) \in Nat
    BY <1>0, <1>3, <1>4, <1>9, ProductIsNat
  <2> QED
    BY <2>1, <2>2, <2>3, <2>4
<1> QED
  BY <1>8, <1>9, <1>13 DEF base, V, U

HiddenTotal == SumFunction([c \in Components |-> HiddenValue(c)])

\* The value of all SetTokens after a NAV issuance is at most their value before,
\* what the roundings hid of it, and the flow.
LEMMA ValueAfterIssue ==
  ASSUME TypeOK, NEW q \in ReserveQuantities, navIssue(q)
  PROVE  LET flow == getFees(q).netFlow
             n == getSetTokenMintQuantity(flow)
             base == BaseUnits[Reserve]
         IN /\ n \in Nat /\ supply' = supply + n /\ supply' \in Nat \ {0}
            /\ balance'[Reserve] = balance[Reserve] + flow
            /\ preciseMul(supply, calculateSetTokenValuation) > 0
            /\ HiddenTotal \in Nat /\ calculateSetTokenValuation' \in Nat
            /\ base * (calculateSetTokenValuation' * supply')
                 <= base * ((calculateSetTokenValuation + HiddenTotal) * supply)
                      + flow * (PRECISE_UNIT * PRECISE_UNIT)
<1> DEFINE U == PRECISE_UNIT
           flow == getFees(q).netFlow
           n == getSetTokenMintQuantity(flow)
           t == supply + n
           m == rescaledMultiplier(t)
           unit == getIssuePositionUnit(flow, t)
           base == BaseUnits[Reserve]
           w == [c \in Components |-> preciseMul(preciseDiv(realUnit[c], BaseUnits[c]), Price[c])]
           z == [c \in Components |-> preciseMul(preciseDiv(realUnit'[c], BaseUnits[c]), Price[c])]
           h == [c \in Components |-> HiddenValue(c)]
           wh == [c \in Components |-> w[c] + h[c]]
           others == Components \ {Reserve}
           sum(f) == SumFunctionOnSet(f, Components)
           rest(f) == SumFunctionOnSet(f, others)
<1>0. /\ U \in Nat \ {0} /\ supply \in Nat /\ positionMultiplier \in Nat /\ q \in Nat
      /\ virtualUnit \in [Components -> Nat] /\ Reserve \in Components
      /\ balance \in [Components -> Nat]
      /\ BaseUnits \in [Components -> Nat \ {0}] /\ Price \in [Components -> Nat \ {0}]
      /\ Price[Reserve] = U /\ IsFiniteSet(Components) /\ MinSetTokenSupply \in Nat \ {0}
  BY PreciseUnitAssumption, SetTokenUnitsAssumption DEF TypeOK
<1>1. /\ supply >= MinSetTokenSupply
      /\ preciseMul(supply, calculateSetTokenValuation) > 0
      /\ validateNewMultiplier(m) /\ positionMultiplier' = m
      /\ EditedUnit(Reserve, unit, m)
      /\ balance' = [balance EXCEPT ![Reserve] = @ + flow]
      /\ supply' = t
  BY Zenon DEF navIssue
<1>2. flow \in Nat
  BY <1>0, NetFlowIsPart
<1>3. n \in Nat
  <2> HIDE DEF flow
  <2> QED
    BY <1>1, <1>2, MintIsNat
<1>4. t \in Nat \ {0}
  <2> HIDE DEF n
  <2> QED
    BY <1>0, <1>1, <1>3
<1>5. m \in Nat /\ m * t <= positionMultiplier * supply
  <2> HIDE DEF t
  <2>1. positionMultiplier * supply \in Nat
    BY <1>0, ProductIsNat
  <2> QED
    BY <1>4, <2>1, DivRoundsDown DEF rescaledMultiplier
<1>6. m # 0
  BY <1>1, <1>5, ValidMultiplierKeeps
<1>7. balance'[Reserve] = balance[Reserve] + flow
  BY <1>0, <1>1
<1> HIDE DEF flow, n
<1>8. ASSUME NEW c \in Components
      PROVE  realUnit[c] \in Nat /\ realUnit[c] = preciseMul(virtualUnit[c], positionMultiplier)
  BY <1>8, RealUnitRoundsDown DEF realUnit, convertVirtualToRealUnit
<1>9. ASSUME NEW c \in others
      PROVE  /\ w[c] \in Nat /\ z[c] \in Nat /\ h[c] \in Nat
             /\ z[c] * t <= (w[c] + h[c]) * supply
  <2>1. c \in Components /\ c # Reserve
    OBVIOUS
  <2>2. virtualUnit'[c] = virtualUnit[c]
    BY <1>0, <1>1, <2>1 DEF EditedUnit
  <2>3. realUnit'[c] = preciseMul(virtualUnit[c], m)
    BY <1>1, <2>1, <2>2 DEF realUnit, convertVirtualToRealUnit
  <2>4. /\ virtualUnit[c] \in Nat /\ BaseUnits[c] \in Nat \ {0} /\ Price[c] \in Nat \ {0}
    BY <1>0, <2>1
  <2>5. /\ w[c] = preciseMul(preciseDiv(preciseMul(virtualUnit[c], positionMultiplier),
                                        BaseUnits[c]), Price[c])
        /\ z[c] = preciseMul(preciseDiv(preciseMul(virtualUnit[c], m), BaseUnits[c]), Price[c])
    BY <1>8, <2>1, <2>3
  <2>6. h[c] = 1 + preciseMulCeil(Price[c], 1) + (Price[c] - 1) \div BaseUnits[c] + 1
    BY <2>1 DEF HiddenValue
  <2> DEFINE v == virtualUnit[c]
             bc == BaseUnits[c]
             p == Price[c]
             old == positionMultiplier
             before == preciseMul(preciseDiv(preciseMul(v, old), bc), p)
             after == preciseMul(preciseDiv(preciseMul(v, m), bc), p)
             hidden == 1 + preciseMulCeil(p, 1) + (p - 1) \div bc + 1
  <2>7. v \in Nat /\ bc \in Nat \ {0} /\ p \in Nat \ {0} /\ old \in Nat /\ t \in Nat
        /\ m \in Nat /\ m * t <= old * supply /\ supply \in Nat
    BY <1>0, <1>4, <1>5, <2>4
  <2>8. w[c] = before /\ z[c] = after /\ h[c] = hidden
    BY <2>5, <2>6
  <2> HIDE DEF w, z, h, m, t, v, bc, p, old
  <2>9. before \in Nat /\ after \in Nat /\ hidden \in Nat
        /\ after * t <= (before + hidden) * supply
    BY <2>7, OthersKeepValue
  <2> HIDE DEF before, after, hidden
  <2> QED
    BY <2>8, <2>9
<1>10. /\ w[Reserve] \in Nat /\ z[Reserve] \in Nat /\ h[Reserve] = 1
       /\ base * (z[Reserve] * t) <= base * ((w[Reserve] + 1) * supply) + flow * (U * U)
  <2> DEFINE x == realUnit[Reserve]
             y == StoredUnit(unit, m)
  <2>1. x \in Nat
    BY <1>0, <1>8
  <2>2. unit = preciseDiv(preciseMul(x, supply) + flow, t)
    BY DEF getIssuePositionUnit
  <2>3. unit \in Nat
    <3> HIDE DEF x, t
    <3>1. preciseMul(x, supply) \in Nat
      BY <1>0, <2>1, PreciseMulRoundsDown
    <3>2. preciseMul(x, supply) + flow \in Nat
      BY <1>2, <3>1
    <3> QED
      BY <1>4, <2>2, <3>2, PreciseDivRoundsDown
  <2>4. y \in Nat /\ y <= unit
    <3> HIDE DEF unit, m
    <3> QED
      BY <1>5, <1>6, <2>3, ConversionLoses
  <2>5. realUnit'[Reserve] = y
    BY <1>0, <1>1 DEF realUnit, EditedUnit, StoredUnit
  <2>6. /\ w[Reserve] = preciseMul(preciseDiv(x, base), U)
        /\ z[Reserve] = preciseMul(preciseDiv(y, base), U)
    <3> HIDE DEF y
    <3> QED
      BY <1>0, <2>5
  <2>7. h[Reserve] = 1 /\ base \in Nat \ {0}
    BY <1>0 DEF HiddenValue
  <2> HIDE DEF w, z, h, x, y, base, t, unit
  <2>8. y <= preciseDiv(preciseMul(x, supply) + flow, t)
    BY <2>2, <2>4
  <2> DEFINE before == preciseMul(preciseDiv(x, base), U)
             after == preciseMul(preciseDiv(y, base), U)
  <2>9. /\ before \in Nat /\ after \in Nat
        /\ base * (after * t) <= base * ((before + 1) * supply) + flow * (U * U)
    BY <1>0, <1>2, <1>4, <2>1, <2>4, <2>7, <2>8, ReserveGainsFlow
  <2>10. w[Reserve] = before /\ z[Reserve] = after
    BY <2>6
  <2> HIDE DEF before, after
  <2> QED
    BY <2>7, <2>9, <2>10
<1>11. \A c \in Components : w[c] \in Nat /\ z[c] \in Nat /\ h[c] \in Nat
                             /\ wh[c] \in Nat /\ wh[c] = w[c] + h[c]
  <2>1. ASSUME NEW c \in Components PROVE w[c] \in Nat /\ z[c] \in Nat /\ h[c] \in Nat
    <3>1. CASE c = Reserve
      <4> HIDE DEF w, z, h
      <4> QED
        BY <1>10, <3>1
    <3>2. CASE c # Reserve
      BY <1>9, <3>2
    <3> QED
      BY <3>1, <3>2
  <2> HIDE DEF w, z, h
  <2> QED
    BY <2>1
<1>12. /\ calculateSetTokenValuation = sum(w) /\ HiddenTotal = sum(h)
       /\ calculateSetTokenValuation' = sum(z)
  <2>1. DOMAIN w = Components /\ DOMAIN z = Components /\ DOMAIN h = Components
    OBVIOUS
  <2>2. calculateSetTokenValuation = sum(w)
    BY <2>1 DEF calculateSetTokenValuation, SumFunction
  <2>3. calculateSetTokenValuation' = sum(z)
    BY <2>1 DEF calculateSetTokenValuation, SumFunction
  <2>4. HiddenTotal = sum(h)
    BY <2>1 DEF HiddenTotal, SumFunction
  <2> QED
    BY <2>2, <2>3, <2>4
<1>13. IsFiniteSet(others)
  BY <1>0, FS_Subset
<1> HIDE DEF w, z, h, wh
<1>14. /\ sum(w) = rest(w) + w[Reserve] /\ sum(z) = rest(z) + z[Reserve]
       /\ sum(h) = rest(h) + h[Reserve]
  BY <1>0, <1>11, SumWithout
<1>15. /\ rest(w) \in Nat /\ rest(z) \in Nat /\ rest(h) \in Nat /\ sum(w) \in Nat
       /\ sum(z) \in Nat /\ sum(h) \in Nat /\ rest(wh) = rest(w) + rest(h)
  <2>1. rest(w) \in Nat /\ rest(z) \in Nat /\ rest(h) \in Nat
    BY <1>11, <1>13, SumIsNat
  <2>2. sum(w) \in Nat /\ sum(z) \in Nat /\ sum(h) \in Nat
    BY <1>0, <1>11, SumIsNat
  <2>3. \A c \in others : w[c] \in Nat /\ h[c] \in Nat /\ wh[c] = w[c] + h[c]
    BY <1>11
  <2>4. rest(wh) = rest(w) + rest(h)
    <3> HIDE DEF others
    <3> QED
      BY <1>13, <2>3, SumOfSums
  <2> QED
    BY <2>1, <2>2, <2>4
<1>16. rest(z) * t <= rest(wh) * supply
  <2>1. \A c \in others : wh[c] \in Nat /\ z[c] \in Nat /\ z[c] * t <= wh[c] * supply
    BY <1>9, <1>11
  <2>2. t \in Nat /\ supply \in Nat
    BY <1>0, <1>4
  <2> HIDE DEF others, t
  <2> QED
    BY <1>13, <2>1, <2>2, SumIsScaled
<1> DEFINE W == rest(w)
           Z == rest(z)
           H == rest(h)
           wr == w[Reserve]
           zr == z[Reserve]
<1>17. /\ W \in Nat /\ Z \in Nat /\ H \in Nat /\ wr \in Nat /\ zr \in Nat
       /\ sum(w) = W + wr /\ sum(z) = Z + zr /\ sum(h) = H + 1
       /\ Z * t <= (W + H) * supply
       /\ base * (zr * t) <= base * ((wr + 1) * supply) + flow * (U * U)
       /\ base \in Nat \ {0}
  BY <1>0, <1>10, <1>14, <1>15, <1>16
<1>18. /\ sum(h) \in Nat /\ sum(z) \in Nat
       /\ base * (sum(z) * t) <= base * ((sum(w) + sum(h)) * supply) + flow * (U * U)
  <2> HIDE DEF W, Z, H, wr, zr, sum, base, t, U
  <2>1. base * (Z * t) <= base * ((W + H) * supply)
    BY <1>0, <1>4, <1>17, ProductIsNat, ProductIsMonotone
  <2>2. /\ base * ((Z + zr) * t) = base * (Z * t) + base * (zr * t)
        /\ base * ((W + wr + (H + 1)) * supply)
             = base * ((W + H) * supply) + base * ((wr + 1) * supply)
    BY <1>0, <1>4, <1>17
  <2>3. /\ base * (Z * t) \in Nat /\ base * (zr * t) \in Nat /\ flow * (U * U) \in Nat
        /\ base * ((W + H) * supply) \in Nat /\ base * ((wr + 1) * supply) \in Nat
    BY <1>0, <1>2, <1>4, <1>17, ProductIsNat
  <2>4. base * ((Z + zr) * t) <= base * ((W + wr + (H + 1)) * supply) + flow * (U * U)
    BY <1>17, <2>1, <2>2, <2>3
  <2> QED
    BY <1>17, <2>4
<1> QED
  BY <1>1, <1>3, <1>4, <1>7, <1>12, <1>18 DEF flow, n

LEMMA RoundTripStep ==
  ASSUME TypeOK, NEW q \in ReserveQuantities, navIssue(q),
         NEW minted \in Nat, supply' = supply + minted
  PROVE  getRedeemReserveQuantity(minted)'
           <= balance'[Reserve] - balance[Reserve] + RoundTripDust(minted)
<1> DEFINE U == PRECISE_UNIT
           square == U * U
           flow == getFees(q).netFlow
           n == getSetTokenMintQuantity(flow)
           base == BaseUnits[Reserve]
           s == supply
           t == supply'
           V == calculateSetTokenValuation
           V2 == calculateSetTokenValuation'
           E == HiddenTotal
           X == (n * (U + s * E)) \div t + 1
           value == preciseMul(n, V2)
           reserve == preciseMul(value, base)
           kept == preciseMulCeil(reserve, Premium)
<1>0. /\ U \in Nat \ {0} /\ s \in Nat /\ q \in Nat /\ base \in Nat \ {0}
      /\ Premium \in Nat /\ Premium <= U /\ Reserve \in Components
      /\ balance[Reserve] \in Nat
  BY PreciseUnitAssumption, SetTokenUnitsAssumption DEF TypeOK
<1>1. /\ n \in Nat /\ t = s + n /\ t \in Nat \ {0}
      /\ balance'[Reserve] = balance[Reserve] + flow
      /\ preciseMul(supply, calculateSetTokenValuation) > 0
      /\ E \in Nat /\ V2 \in Nat
      /\ base * (V2 * t) <= base * ((V + E) * s) + flow * square
  BY ValueAfterIssue
<1>2. flow \in Nat /\ V \in Nat
  BY <1>0, NetFlowIsPart, ValuationIsNat
<1>3. base * (n * (s * V)) <= (flow * s) * square + base * (n * U)
  <2> HIDE DEF flow
  <2> QED
    BY <1>1, <1>2, MintIsWorthTheFlow
<1>4. minted = n
  <2> HIDE DEF n, flow, base, V, V2, E, U
  <2>1. s \in Nat /\ n \in Nat /\ s + minted = s + n
    BY <1>0, <1>1
  <2> HIDE DEF s
  <2> QED
    BY <2>1
<1>5. getRedeemReserveQuantity(minted)' = reserve - kept
  <2> HIDE DEF n
  <2> QED
    BY <1>4 DEF getRedeemReserveQuantity
<1>6. RoundTripDust(minted) = (X * base) \div square
  <2> HIDE DEF n
  <2> QED
    BY <1>1, <1>4 DEF RoundTripDust, HiddenTotal
<1>7. n * (U + s * E) \in Nat
  <2> HIDE DEF n, E, s, U
  <2> QED
    BY <1>0, <1>1, ProductIsNat
<1>8. X \in Nat /\ n * (U + s * E) <= X * t
  <2> DEFINE d == (n * (U + s * E)) \div t
             p == n * (U + s * E)
  <2> HIDE DEF p, t
  <2>1. p \div t \in Nat /\ p < (p \div t) * t + t
    BY <1>1, <1>7, DivRoundsDown DEF p
  <2>2. d = p \div t
    BY DEF p
  <2> HIDE DEF d
  <2>3. d \in Nat /\ p < d * t + t
    BY <2>1, <2>2
  <2>4. (d + 1) * t = d * t + t /\ d * t \in Nat
    BY <1>1, <2>3, ProductIsNat
  <2>5. d + 1 \in Nat /\ p <= (d + 1) * t
    BY <1>1, <1>7, <2>3, <2>4 DEF p
  <2> QED
    BY <2>5 DEF d, p
<1>9. value \in Nat /\ U * value <= n * V2
  <2> HIDE DEF n, V2
  <2> QED
    BY <1>1, PreciseMulRoundsDown
<1>10. reserve \in Nat /\ U * reserve <= value * base
  <2> HIDE DEF value, base
  <2> QED
    BY <1>0, <1>9, PreciseMulRoundsDown
<1>11. kept \in Nat /\ kept <= reserve
  <2> HIDE DEF reserve
  <2> QED
    BY <1>0, <1>10, PreciseMulCeilRoundsUp, PreciseMulOfPart
<1>12. square \in Nat \ {0}
  BY <1>0, ProductIsNat
<1>13. square * reserve <= base * (n * V2)
  <2> HIDE DEF U, value, reserve, base, n, V2
  <2>1. U * (U * reserve) <= U * (value * base)
    BY <1>0, <1>9, <1>10, ProductIsNat, ProductIsMonotone
  <2>2. base * (U * value) <= base * (n * V2)
    BY <1>0, <1>1, <1>9, ProductIsNat, ProductIsMonotone
  <2>3. U * (U * reserve) = square * reserve /\ U * (value * base) = base * (U * value)
    BY <1>0, <1>9, <1>10
  <2>4. square * reserve \in Nat /\ base * (U * value) \in Nat /\ base * (n * V2) \in Nat
    BY <1>0, <1>1, <1>9, <1>10, <1>12, ProductIsNat
  <2> HIDE DEF square
  <2> QED
    BY <2>1, <2>2, <2>3, <2>4
<1> HIDE DEF U, square, flow, n, base, s, t, V, V2, E, X, value, reserve, kept
<1>14. base * (n * V2) <= flow * square + base * X
  <2>1. n * (base * (V2 * t)) <= n * (base * ((V + E) * s) + flow * square)
    <3> DEFINE y == base * (V2 * t)
               z == base * ((V + E) * s) + flow * square
    <3>1. y \in Nat /\ z \in Nat
      BY <1>0, <1>1, <1>2, <1>12, ProductIsNat
    <3>2. y <= z
      BY <1>1
    <3> HIDE DEF y, z
    <3>3. n * y <= n * z
      BY <1>1, <3>1, <3>2, ProductIsMonotone
    <3> QED
      BY <3>3 DEF y, z
  <2>2. base * (n * (U + s * E)) <= base * (X * t)
    BY <1>0, <1>1, <1>7, <1>8, ProductIsNat, ProductIsMonotone
  <2>3. n * (base * ((V + E) * s) + flow * square)
          = base * (n * (s * V)) + base * (n * (s * E)) + (flow * n) * square
    BY <1>0, <1>1, <1>2, <1>12
  <2>4. base * (n * (U + s * E)) = base * (n * U) + base * (n * (s * E))
    BY <1>0, <1>1
  <2>5. (flow * s) * square + (flow * n) * square = t * (flow * square)
    BY <1>0, <1>1, <1>2, <1>12
  <2>6. n * (base * (V2 * t)) = t * (base * (n * V2)) /\ base * (X * t) = t * (base * X)
    BY <1>0, <1>1, <1>8
  <2>7. /\ base * (n * (s * V)) \in Nat /\ base * (n * (s * E)) \in Nat
        /\ base * (n * U) \in Nat /\ (flow * s) * square \in Nat
        /\ (flow * n) * square \in Nat
        /\ t * (base * (n * V2)) \in Nat /\ t * (base * X) \in Nat
        /\ t * (flow * square) \in Nat
    BY <1>0, <1>1, <1>2, <1>8, <1>12, ProductIsNat
  <2>8. t * (base * (n * V2)) <= t * (flow * square) + t * (base * X)
    BY <1>3, <2>1, <2>2, <2>3, <2>4, <2>5, <2>6, <2>7
  <2>9. t * (flow * square) + t * (base * X) = t * (flow * square + base * X)
    BY <1>0, <1>1, <1>2, <1>8, <1>12
  <2>10. base * (n * V2) \in Nat /\ flow * square + base * X \in Nat
    BY <1>0, <1>1, <1>2, <1>8, <1>12, ProductIsNat
  <2> QED
    BY <1>1, <2>8, <2>9, <2>10, CancelFactor
<1>15. reserve <= flow + (X * base) \div square
  <2> DEFINE y == X * base
             d == y \div square
  <2>1. y \in Nat /\ base * X = y
    BY <1>0, <1>8, ProductIsNat
  <2>2. d \in Nat /\ y < d * square + square
    <3> HIDE DEF y
    <3> QED
      BY <1>12, <2>1, DivRoundsDown
  <2> HIDE DEF d, y
  <2>3. square * reserve <= flow * square + y
    <3>1. square * reserve \in Nat /\ base * (n * V2) \in Nat /\ flow * square \in Nat
      BY <1>0, <1>1, <1>2, <1>10, <1>12, ProductIsNat
    <3> QED
      BY <1>13, <1>14, <2>1, <3>1
  <2>4. square * ((flow + d) + 1) = flow * square + (d * square + square)
    BY <1>2, <1>12, <2>2
  <2>5. flow * square + y \in Nat /\ flow * square + y < square * ((flow + d) + 1)
    <3>1. flow * square \in Nat /\ d * square \in Nat
      BY <1>2, <1>12, <2>2, ProductIsNat
    <3> QED
      BY <1>12, <2>1, <2>2, <2>4, <3>1
  <2>6. reserve <= flow + d
    <3>1. flow + d \in Nat
      BY <1>2, <2>2
    <3> QED
      BY <1>10, <1>12, <2>3, <2>5, <3>1, ScaledBelow
  <2> QED
    BY <2>6 DEF d, y
<1>16. (X * base) \div square \in Nat
  BY <1>0, <1>8, <1>12, ProductIsNat, DivRoundsDown
<1> DEFINE dust == (X * base) \div square
<1>17. dust \in Nat /\ reserve <= flow + dust /\ RoundTripDust(minted) = dust
  BY <1>6, <1>15, <1>16
<1> HIDE DEF dust
<1>18. balance'[Reserve] - balance[Reserve] = flow
  BY <1>0, <1>1, <1>2
<1>19. reserve - kept <= flow + dust
  BY <1>2, <1>10, <1>11, <1>17
<1> QED
  BY <1>5, <1>17, <1>18, <1>19

(***************************************************************************)
(* Nobody profits from a NAV issuance followed by a redemption, beyond     *)
(* RoundTripDust, for every premium, fee, price and number of components.  *)
(* The value of all SetTokens grows by the flow and by what the roundings  *)
(* hid of it (ValueAfterIssue), and what is minted is at most the flow     *)
(* over the value of a SetToken (MintIsWorthTheFlow).                      *)
(***************************************************************************)
THEOREM RoundTripsDoNotProfit == Spec => NoRoundTripProfit
<1>1. UnitsInv /\ [Next]_vars =>
        [NavIssue =>
           \A minted \in 0 .. MaxSupply :
             supply' = supply + minted =>
               getRedeemReserveQuantity(minted)'
                 <= balance'[Reserve] - balance[Reserve] + RoundTripDust(minted)]_vars
  <2> SUFFICES ASSUME UnitsInv, NavIssue, NEW minted \in 0 .. MaxSupply,
                      supply' = supply + minted
               PROVE  getRedeemReserveQuantity(minted)'
                        <= balance'[Reserve] - balance[Reserve] + RoundTripDust(minted)
    OBVIOUS
  <2>1. TypeOK /\ minted \in Nat
    BY SetTokenUnitsAssumption DEF UnitsInv
  <2>2. PICK q \in ReserveQuantities : navIssue(q)
    BY DEF NavIssue
  <2> QED
    BY <2>1, <2>2, RoundTripStep
<1> QED
  BY <1>1, UnitsAlways, PTL DEF Spec, NoRoundTripProfit

=============================================================================
