--------------------------- MODULE SetTokenUnits ---------------------------
(***************************************************************************)
(* The position multiplier of a SetToken and the modules that move it:     *)
(* StreamingFeeModule, which inflates the supply, and                      *)
(* CustomOracleNAVIssuanceModule, which issues and redeems against one     *)
(* reserve asset.  BasicIssuanceModule issues and redeems every component, *)
(* TradeModule and the bids of AuctionRebalanceModuleV1 exchange           *)
(* components, and a rebalance may lock the SetToken.  The expected values *)
(* the test-suite computes (feeModuleUtils.ts, navIssuanceModuleUtils.ts)  *)
(* are stated next to the contracts' own.                                  *)
(*                                                                         *)
(* A SetToken stores virtual units; a real unit is a virtual one times the *)
(* multiplier, and every conversion rounds down.  A transaction is one     *)
(* action; a revert is a disabled action.                                  *)
(***************************************************************************)
EXTENDS PreciseUnitMath, FiniteSets, Functions

CONSTANTS
  Components, Reserve,      \* the components, and the one NAV issuance takes
  InitialUnits,             \* component -> unit at creation
  BaseUnits, Price,         \* component -> 10^decimals, price in the reserve
  ONE_YEAR_IN_SECONDS,
  StreamingFees,            \* the rates a manager may set
  MaxStreamingFee, ProtocolStreamingFee,
  ManagerFee, ProtocolDirectFee, ProtocolShare,   \* of NAV issuance
  Premium, MinSetTokenSupply, MAX_POSITION_MULTIPLIER,
  Quantities, ReserveQuantities,
  TradeUnits, Received,     \* unit sent in a trade, what it brings
  Durations,                \* of a rebalance
  MaxSupply, MaxTime, MaxEvents

VARIABLES
  supply, positionMultiplier,
  virtualUnit,              \* component -> virtual unit of the default position
  balance,                  \* component -> tokens the SetToken holds
  feeState,                 \* [streamingFeePercentage, lastStreamingFeeTimestamp], or NotCharging
  locker, rebalanceEnd,     \* who holds the lock; when the rebalance has elapsed
  now,                      \* block.timestamp
  events,                   \* calls so far, bounded by MaxEvents
  issued, owed, charged     \* history: SetTokens issued, fee earned and fee taken

vars == <<supply, positionMultiplier, virtualUnit, balance, feeState, locker,
          rebalanceEnd, now, events, issued, owed, charged>>

NotCharging == [streamingFeePercentage |-> 0, lastStreamingFeeTimestamp |-> -1]
None == "none"
Auction == "AuctionRebalanceModuleV1"

ASSUME SetTokenUnitsAssumption ==
  /\ Reserve \in Components /\ IsFiniteSet(Components)
  /\ InitialUnits \in [Components -> Nat \ {0}]
  /\ BaseUnits \in [Components -> Nat \ {0}] /\ Price \in [Components -> Nat \ {0}]
  /\ Price[Reserve] = PRECISE_UNIT
  /\ ONE_YEAR_IN_SECONDS \in Nat \ {0}
  /\ MaxStreamingFee \in 0 .. PRECISE_UNIT - 1 /\ StreamingFees \subseteq Nat
  /\ ProtocolStreamingFee \in 0 .. PRECISE_UNIT
  /\ ManagerFee \in Nat /\ ProtocolDirectFee \in Nat
  /\ ManagerFee + ProtocolDirectFee <= PRECISE_UNIT
  /\ ProtocolShare \in 0 .. PRECISE_UNIT /\ Premium \in 0 .. PRECISE_UNIT - 1
  /\ MinSetTokenSupply \in Nat \ {0} /\ MAX_POSITION_MULTIPLIER \in Nat
  /\ Quantities \subseteq Nat \ {0} /\ ReserveQuantities \subseteq Nat \ {0}
  /\ TradeUnits \subseteq Nat \ {0} /\ Received \subseteq Nat \ {0}
  /\ Durations \subseteq Nat
  /\ MaxSupply \in Nat /\ MaxTime \in Nat /\ MaxEvents \in Nat

(***************************************************************************)
(* SetToken: conversions and the lock.                                     *)
(***************************************************************************)
convertVirtualToRealUnit(virtual, multiplier) == preciseMul(virtual, multiplier)

realUnit == [c \in Components |->
               convertVirtualToRealUnit(virtualUnit[c], positionMultiplier)]

convertRealToVirtualUnit(real, multiplier) == preciseDiv(real, multiplier)

\* A real unit that would be forgotten by the conversion is refused.
ConversionValid(real, multiplier) ==
  real > 0 =>
    LET virtual == convertRealToVirtualUnit(real, multiplier)
    IN virtual > 0 /\ convertVirtualToRealUnit(virtual, multiplier) > 0

HeldUnits(units) == {units[c] : c \in {d \in Components : units[d] > 0}}

\* looks at the reserve's position only
validateNewMultiplier_first(newMultiplier) ==
  virtualUnit[Reserve] > 0
    => convertVirtualToRealUnit(virtualUnit[Reserve], newMultiplier) > 0

\* Every position, hence the smallest, keeps a positive unit.  With no position
\* at all the minimum does not fit int256 and the conversion of it reverts.
validateNewMultiplier(newMultiplier) ==
  /\ HeldUnits(virtualUnit) # {}
  /\ \A u \in HeldUnits(virtualUnit) : convertVirtualToRealUnit(u, newMultiplier) > 0

whenLockedOnlyLocker_any(caller) == caller # None

whenLockedOnlyLocker(caller) == locker \in {None, caller}

\* editDefaultPosition of one component, at the multiplier the call has set
EditedUnit(c, real, multiplier) ==
  /\ ConversionValid(real, multiplier)
  /\ virtualUnit' = [virtualUnit EXCEPT ![c] = convertRealToVirtualUnit(real, multiplier)]

(***************************************************************************)
(* StreamingFeeModule.                                                     *)
(***************************************************************************)
calculateStreamingFee ==
  ((now - feeState.lastStreamingFeeTimestamp) * feeState.streamingFeePercentage)
    \div ONE_YEAR_IN_SECONDS

calculateStreamingFeeInflation(fee) == (fee * supply) \div (PRECISE_UNIT - fee)

protocolFeeAmount(feeQuantity) == preciseMul(feeQuantity, ProtocolStreamingFee)

\* _mintManagerAndProtocolFee: both mints add to the supply
mintedFee(feeQuantity) ==
  (feeQuantity - protocolFeeAmount(feeQuantity)) + protocolFeeAmount(feeQuantity)

Charging == feeState # NotCharging

\* The supply is read before the mint and the multiplier after it.  SafeMath
\* refuses a fee of the whole supply or more.
takeFee ==
  LET fee == calculateStreamingFee
      newMultiplier == preciseMul(positionMultiplier, PRECISE_UNIT - fee)
  IN IF feeState.streamingFeePercentage > 0
     THEN /\ fee < PRECISE_UNIT
          /\ whenLockedOnlyLocker("StreamingFeeModule")
          /\ supply' = supply + mintedFee(calculateStreamingFeeInflation(fee))
          /\ supply' <= MaxSupply
          /\ validateNewMultiplier(newMultiplier)
          /\ positionMultiplier' = newMultiplier
          /\ charged' = charged + fee
     ELSE UNCHANGED <<supply, positionMultiplier, charged>>

accrueFee ==
  /\ Charging
  /\ takeFee
  /\ feeState' = [feeState EXCEPT !.lastStreamingFeeTimestamp = now]
  /\ UNCHANGED <<virtualUnit, balance, locker, rebalanceEnd, now, issued, owed>>

\* any rate is accepted
initialize_anyFee(fee) ==
  /\ ~Charging /\ locker = None
  /\ feeState' = [streamingFeePercentage |-> fee, lastStreamingFeeTimestamp |-> now]
  /\ UNCHANGED <<supply, positionMultiplier, virtualUnit, balance, locker, rebalanceEnd,
                 now, issued, owed, charged>>

initialize(fee) ==
  /\ ~Charging /\ locker = None
  /\ fee <= MaxStreamingFee
  /\ feeState' = [streamingFeePercentage |-> fee, lastStreamingFeeTimestamp |-> now]
  /\ UNCHANGED <<supply, positionMultiplier, virtualUnit, balance, locker, rebalanceEnd,
                 now, issued, owed, charged>>

\* the SetToken refuses to remove a module while it is locked
removeModule ==
  /\ Charging /\ locker = None
  /\ feeState' = NotCharging
  /\ UNCHANGED <<supply, positionMultiplier, virtualUnit, balance, locker, rebalanceEnd,
                 now, issued, owed, charged>>

\* the new rate applies to time that has already passed
updateStreamingFee_retroactive(newFee) ==
  /\ Charging /\ newFee < MaxStreamingFee
  /\ feeState' = [feeState EXCEPT !.streamingFeePercentage = newFee]
  /\ UNCHANGED <<supply, positionMultiplier, virtualUnit, balance, locker, rebalanceEnd,
                 now, issued, owed, charged>>

\* the fee due so far is taken at the current rate
updateStreamingFee(newFee) ==
  /\ Charging /\ newFee < MaxStreamingFee
  /\ takeFee
  /\ feeState' = [streamingFeePercentage |-> newFee, lastStreamingFeeTimestamp |-> now]
  /\ UNCHANGED <<virtualUnit, balance, locker, rebalanceEnd, now, issued, owed>>

(***************************************************************************)
(* BasicIssuanceModule.                                                    *)
(***************************************************************************)
getRequiredComponentUnitsForIssue(quantity) ==
  [c \in Components |-> preciseMulCeil(realUnit[c], quantity)]

issue(quantity) ==
  /\ whenLockedOnlyLocker("BasicIssuanceModule")
  /\ supply + quantity <= MaxSupply
  /\ supply' = supply + quantity
  /\ issued' = issued + quantity
  /\ balance' = [c \in Components |->
                   balance[c] + getRequiredComponentUnitsForIssue(quantity)[c]]
  /\ UNCHANGED <<positionMultiplier, virtualUnit, feeState, locker, rebalanceEnd, now,
                 owed, charged>>

\* what a redeemer is paid, rounded down
componentQuantity(quantity) ==
  [c \in Components |-> preciseMul(quantity, realUnit[c])]

redeem(quantity) ==
  /\ whenLockedOnlyLocker("BasicIssuanceModule")
  /\ quantity <= supply
  /\ \A c \in Components : componentQuantity(quantity)[c] <= balance[c]
  /\ supply' = supply - quantity
  /\ balance' = [c \in Components |-> balance[c] - componentQuantity(quantity)[c]]
  /\ UNCHANGED <<positionMultiplier, virtualUnit, feeState, locker, rebalanceEnd, now,
                 issued, owed, charged>>

(***************************************************************************)
(* TradeModule and the bids of an auction: Position reads the balances     *)
(* left by the exchange, and keeps tokens no unit accounts for out of the  *)
(* new unit.  It reverts when the units already claim more than there is.  *)
(***************************************************************************)
airdroppedAmount(c) == balance[c] - preciseMul(realUnit[c], supply)

calculateDefaultEditPositionUnit(c, post) ==
  IF post > 0 THEN preciseDiv(post - airdroppedAmount(c), supply) ELSE 0

ExchangedUnits(balances) ==
  [c \in Components |-> IF balances[c] = balance[c] THEN virtualUnit[c]
     ELSE convertRealToVirtualUnit(calculateDefaultEditPositionUnit(c, balances[c]),
                                   positionMultiplier)]

exchange(caller, send, receive, unit, received) ==
  LET sent == preciseMul(supply, unit)
      balances == [balance EXCEPT ![send] = @ - sent, ![receive] = @ + received]
  IN /\ whenLockedOnlyLocker(caller)
     /\ send # receive
     /\ sent > 0 /\ unit <= realUnit[send] /\ sent <= balance[send]
     /\ \A c \in {send, receive} :
          /\ airdroppedAmount(c) >= 0
          /\ balances[c] > 0 => balances[c] >= airdroppedAmount(c)
          /\ balances[c] > 0 =>
               ConversionValid(calculateDefaultEditPositionUnit(c, balances[c]),
                               positionMultiplier)
     /\ balance' = balances
     /\ virtualUnit' = ExchangedUnits(balances)
     /\ UNCHANGED <<supply, positionMultiplier, feeState, locker, rebalanceEnd, now,
                    issued, owed, charged>>

trade(send, receive, unit, received) ==
  exchange("TradeModule", send, receive, unit, received)

(***************************************************************************)
(* AuctionRebalanceModuleV1, as far as the lock goes.                      *)
(***************************************************************************)
startRebalance(shouldLock, duration) ==
  /\ now + duration <= MaxTime
  /\ shouldLock => locker \in {None, Auction}
  /\ locker' = IF shouldLock THEN Auction ELSE locker
  /\ rebalanceEnd' = now + duration
  /\ UNCHANGED <<supply, positionMultiplier, virtualUnit, balance, feeState, now, issued,
                 owed, charged>>

isRebalanceDurationElapsed == rebalanceEnd <= now

bid(send, receive, unit, received) ==
  /\ ~isRebalanceDurationElapsed
  /\ exchange(Auction, send, receive, unit, received)

\* unlocks only while the rebalance is in progress
unlock_early(targetsMet) ==
  /\ ~isRebalanceDurationElapsed /\ targetsMet
  /\ locker = Auction
  /\ locker' = None
  /\ rebalanceEnd' = now
  /\ UNCHANGED <<supply, positionMultiplier, virtualUnit, balance, feeState, now,
                 issued, owed, charged>>

\* Anyone may unlock once the duration has elapsed; sooner, when every target is
\* met, which ends the rebalance.
unlock(targetsMet) ==
  /\ isRebalanceDurationElapsed \/ targetsMet
  /\ locker = Auction
  /\ locker' = None
  /\ rebalanceEnd' = IF targetsMet /\ ~isRebalanceDurationElapsed THEN now ELSE rebalanceEnd
  /\ UNCHANGED <<supply, positionMultiplier, virtualUnit, balance, feeState, now,
                 issued, owed, charged>>

(***************************************************************************)
(* CustomOracleNAVIssuanceModule.  The Ether variants of issue and redeem  *)
(* differ only in who wraps the reserve.  The value of a SetToken is the   *)
(* SetValuer's, with the reserve as the master quote asset.                *)
(***************************************************************************)
\* reads the virtual units
calculateSetTokenValuation_virtual ==
  SumFunction([c \in Components |->
                 preciseMul(preciseDiv(virtualUnit[c], BaseUnits[c]), Price[c])])

calculateSetTokenValuation ==
  SumFunction([c \in Components |->
                 preciseMul(preciseDiv(realUnit[c], BaseUnits[c]), Price[c])])

\* of a quantity of the reserve: what the protocol, the manager and the SetToken get
getFees(quantity) ==
  LET protocolShare == preciseMul(ProtocolShare, ManagerFee)
      protocolFees == preciseMul(protocolShare + ProtocolDirectFee, quantity)
      managerFee == preciseMul(ManagerFee - protocolShare, quantity)
  IN [protocolFees |-> protocolFees, managerFee |-> managerFee,
      netFlow |-> quantity - protocolFees - managerFee]

\* the issuer is paid the premium instead of paying it
getSetTokenMintQuantity_premium(netFlow) ==
  LET netFees == preciseDiv(netFlow, BaseUnits[Reserve])
      netFeesAndPremium == preciseDiv(netFlow + preciseMul(netFlow, Premium),
                                      BaseUnits[Reserve])
  IN preciseDiv(preciseMul(netFeesAndPremium, supply),
                preciseMul(supply, calculateSetTokenValuation))

getSetTokenMintQuantity(netFlow) ==
  LET netFees == preciseDiv(netFlow, BaseUnits[Reserve])
      netFeesAndPremium == preciseDiv(netFlow - preciseMul(netFlow, Premium),
                                      BaseUnits[Reserve])
  IN preciseDiv(preciseMul(netFeesAndPremium, supply),
                preciseMul(supply, calculateSetTokenValuation) + netFees - netFeesAndPremium)

\* of _getIssuePositionMultiplier and _getRedeemPositionMultiplier
rescaledMultiplier(newSupply) == (positionMultiplier * supply) \div newSupply

getIssuePositionUnit(netFlow, newSupply) ==
  preciseDiv(preciseMul(realUnit[Reserve], supply) + netFlow, newSupply)

\* Multiplier first, then the reserve's unit at that multiplier, then the mint.
navIssue(quantity) ==
  LET netFlow == getFees(quantity).netFlow
      newSupply == supply + getSetTokenMintQuantity(netFlow)
      multiplier == rescaledMultiplier(newSupply)
      unit == getIssuePositionUnit(netFlow, newSupply)
  IN /\ supply >= MinSetTokenSupply
     /\ preciseMul(supply, calculateSetTokenValuation) > 0
     /\ whenLockedOnlyLocker("NAVIssuanceModule")
     /\ newSupply <= MaxSupply
     /\ validateNewMultiplier(multiplier)
     /\ positionMultiplier' = multiplier
     /\ EditedUnit(Reserve, unit, multiplier)
     /\ balance' = [balance EXCEPT ![Reserve] = @ + netFlow]
     /\ supply' = newSupply
     /\ UNCHANGED <<feeState, locker, rebalanceEnd, now, issued, owed, charged>>

getRedeemReserveQuantity(quantity) ==
  LET reserve == preciseMul(preciseMul(quantity, calculateSetTokenValuation),
                            BaseUnits[Reserve])
  IN reserve - preciseMulCeil(reserve, Premium)

getRedeemPositionUnit(outflow, newSupply) ==
  preciseDiv(preciseMul(realUnit[Reserve], supply) - outflow, newSupply)

\* the fees paid out of the SetToken are forgotten
navRedeem_net(quantity) ==
  LET outflow == getRedeemReserveQuantity(quantity)
      newSupply == supply - quantity
      multiplier == rescaledMultiplier(newSupply)
      unit == getRedeemPositionUnit(getFees(outflow).netFlow, newSupply)
  IN /\ quantity <= supply /\ newSupply >= MinSetTokenSupply
     /\ multiplier <= MAX_POSITION_MULTIPLIER
     /\ outflow <= preciseMul(realUnit[Reserve], supply)
     /\ outflow <= balance[Reserve]
     /\ whenLockedOnlyLocker("NAVIssuanceModule")
     /\ validateNewMultiplier(multiplier)
     /\ positionMultiplier' = multiplier
     /\ EditedUnit(Reserve, unit, multiplier)
     /\ balance' = [balance EXCEPT ![Reserve] = @ - outflow]
     /\ supply' = newSupply
     /\ UNCHANGED <<feeState, locker, rebalanceEnd, now, issued, owed, charged>>

\* The outflow is what the redeemer and both fee recipients receive.
navRedeem(quantity) ==
  LET outflow == getRedeemReserveQuantity(quantity)
      newSupply == supply - quantity
      multiplier == rescaledMultiplier(newSupply)
      unit == getRedeemPositionUnit(outflow, newSupply)
  IN /\ quantity <= supply /\ newSupply >= MinSetTokenSupply
     /\ multiplier <= MAX_POSITION_MULTIPLIER
     /\ outflow <= preciseMul(realUnit[Reserve], supply)
     /\ outflow <= balance[Reserve]
     /\ whenLockedOnlyLocker("NAVIssuanceModule")
     /\ validateNewMultiplier(multiplier)
     /\ positionMultiplier' = multiplier
     /\ EditedUnit(Reserve, unit, multiplier)
     /\ balance' = [balance EXCEPT ![Reserve] = @ - outflow]
     /\ supply' = newSupply
     /\ UNCHANGED <<feeState, locker, rebalanceEnd, now, issued, owed, charged>>

\* a second passes, in which the rate in force earns its share of a year
Tick ==
  /\ now < MaxTime
  /\ now' = now + 1
  /\ owed' = owed + feeState.streamingFeePercentage
  /\ UNCHANGED <<supply, positionMultiplier, virtualUnit, balance, feeState, locker,
                 rebalanceEnd, issued, charged>>

(***************************************************************************)
(* What the test-suite expects of these contracts.                         *)
(***************************************************************************)
getStreamingFee(previous, recent, rate) ==
  ((recent - previous) * rate) \div ONE_YEAR_IN_SECONDS

getStreamingFeeInflationAmount(inflation, totalSupply) ==
  (inflation * totalSupply) \div (PRECISE_UNIT - inflation)

getPostFeePositionUnits(units, inflation) ==
  [c \in DOMAIN units |-> preciseMul(units[c], PRECISE_UNIT - inflation)]

getExpectedPostFeeQuantity(quantity) ==
  quantity - preciseMul(quantity, ManagerFee) - preciseMul(quantity, ProtocolDirectFee)

getExpectedSetTokenIssueQuantity(quantity) ==
  LET subFees == getExpectedPostFeeQuantity(quantity)
      normalized == preciseDiv(subFees, BaseUnits[Reserve])
      normalizedSubPremium == preciseDiv(subFees - preciseMul(subFees, Premium),
                                         BaseUnits[Reserve])
  IN preciseDiv(preciseMul(normalizedSubPremium, supply),
                preciseMul(supply, calculateSetTokenValuation)
                  + normalized - normalizedSubPremium)

\* the inflation is rounded up first, where the contract divides once
getExpectedIssuePositionMultiplier(previous, previousSupply, currentSupply) ==
  preciseMul(previous,
             PRECISE_UNIT - preciseDivCeil(currentSupply - previousSupply, currentSupply))

getExpectedRedeemPositionMultiplier(previous, previousSupply, currentSupply) ==
  preciseMul(previous,
             PRECISE_UNIT + preciseDiv(previousSupply - currentSupply, currentSupply))

\* into the reserve's decimals last, where the contract converts first
getExpectedReserveRedeemQuantity(quantity) ==
  LET notional == preciseMul(calculateSetTokenValuation, quantity)
  IN preciseMul(getExpectedPostFeeQuantity(notional - preciseMulCeil(notional, Premium)),
                BaseUnits[Reserve])

\* "Adjust for rounding on the contracts": a unit times the multiplier and back,
\* where the contract divides by the multiplier first
getExpectedIssuePositionUnit(quantity, currentSupply, multiplier) ==
  LET unit == preciseDiv(preciseMul(supply, realUnit[Reserve])
                           + getExpectedPostFeeQuantity(quantity), currentSupply)
  IN preciseDiv(preciseMul(unit, multiplier), multiplier)

getExpectedRedeemPositionUnit(quantity, currentSupply, multiplier) ==
  LET notional == preciseMul(calculateSetTokenValuation, quantity)
      reserve == preciseMul(notional - preciseMulCeil(notional, Premium),
                            BaseUnits[Reserve])
      unit == preciseDiv(preciseMul(supply, realUnit[Reserve]) - reserve, currentSupply)
  IN preciseDiv(preciseMul(unit, multiplier), multiplier)

Init ==
  /\ supply = 0 /\ positionMultiplier = PRECISE_UNIT
  /\ virtualUnit = InitialUnits
  /\ balance = [c \in Components |-> 0]
  /\ feeState = NotCharging
  /\ locker = None /\ rebalanceEnd = 0
  /\ now = 0 /\ events = 0
  /\ issued = 0 /\ owed = 0 /\ charged = 0

StartRebalance == \E l \in BOOLEAN, d \in Durations : startRebalance(l, d)
Unlock == \E met \in BOOLEAN : unlock(met)
NavIssue == \E q \in ReserveQuantities : navIssue(q)
NavRedeem == \E q \in Quantities : navRedeem(q)

Call ==
  \/ accrueFee
  \/ removeModule
  \/ \E f \in StreamingFees : initialize(f) \/ updateStreamingFee(f)
  \/ \E q \in Quantities : issue(q) \/ redeem(q)
  \/ \E s, r \in Components, u \in TradeUnits, x \in Received :
       trade(s, r, u, x) \/ bid(s, r, u, x)
  \/ StartRebalance
  \/ NavIssue
  \/ NavRedeem

Next ==
  \/ Call /\ events < MaxEvents /\ events' = events + 1
  \/ (Unlock \/ Tick) /\ UNCHANGED events

Spec == Init /\ [][Next]_vars

\* Time passes, and unlock is open to everyone.
FairSpec == Spec /\ WF_vars(Tick /\ UNCHANGED events)
                  /\ WF_vars(unlock(FALSE) /\ UNCHANGED events)

-----------------------------------------------------------------------------
\* Types.  No fee, rescaling or redemption takes the multiplier to zero or a
\* unit or a balance below it.
TypeOK ==
  /\ supply \in Nat /\ positionMultiplier \in Nat \ {0}
  /\ virtualUnit \in [Components -> Nat] /\ balance \in [Components -> Nat]
  /\ feeState \in [streamingFeePercentage : Nat, lastStreamingFeeTimestamp : Int]
  /\ Charging => feeState.streamingFeePercentage <= MaxStreamingFee
  /\ locker \in {None, Auction} /\ rebalanceEnd \in Nat
  /\ now \in Nat /\ events \in Nat
  /\ issued \in Nat /\ owed \in Nat /\ charged \in Nat

(***************************************************************************)
(* No sequence of fees, issuances and trades makes a position disappear:   *)
(* a component with a virtual unit has a real one.  Every conversion of    *)
(* SetToken rounds down, and the checks of _convertRealToVirtualUnit and   *)
(* _validateNewMultiplier are at different times and multipliers.          *)
(***************************************************************************)
NoPositionVanishes ==
  \A c \in Components : virtualUnit[c] > 0 => realUnit[c] > 0

(***************************************************************************)
(* The units never claim more than the SetToken holds, but for one base    *)
(* unit of the component for each SetToken ever issued by                  *)
(* BasicIssuanceModule: an issuer pays the unit rounded down, and a later  *)
(* fee may round the other way, so that "full collateralization" (the      *)
(* comment on accrueFee) holds up to that unit.  Fees, NAV issuance,       *)
(* redemptions and trades never add to the shortfall.                      *)
(***************************************************************************)
DeficitBounded ==
  \A c \in Components :
    realUnit[c] * supply <= PRECISE_UNIT * balance[c] + issued

(***************************************************************************)
(* Holders are diluted only at the rates in force while the time passed:   *)
(* what accrueFee and updateStreamingFee have charged, and would charge    *)
(* now, is within what each second earned at the rate of that second.  No  *)
(* change of the rate, removal or new initialization is retroactive.       *)
(***************************************************************************)
FeesWithinOwed ==
  charged * ONE_YEAR_IN_SECONDS
    + (IF Charging
       THEN (now - feeState.lastStreamingFeeTimestamp) * feeState.streamingFeePercentage
       ELSE 0)
    <= owed

(***************************************************************************)
(* getStreamingFee and getStreamingFeeInflationAmount of feeModuleUtils    *)
(* are what accrueFee computes, and getPostFeePositionUnits is above the   *)
(* unit it leaves by at most one, and one more per PRECISE_UNIT of virtual *)
(* unit: the contract rounds the multiplier, the reference the unit.       *)
(***************************************************************************)
FeePreviewClose ==
  LET fee == calculateStreamingFee
      expected == getPostFeePositionUnits(realUnit, fee)
      actual == [c \in Components |->
                   convertVirtualToRealUnit(virtualUnit[c],
                     preciseMul(positionMultiplier, PRECISE_UNIT - fee))]
  IN Charging /\ fee < PRECISE_UNIT =>
       /\ fee = getStreamingFee(feeState.lastStreamingFeeTimestamp, now,
                                feeState.streamingFeePercentage)
       /\ mintedFee(calculateStreamingFeeInflation(fee))
            = getStreamingFeeInflationAmount(fee, supply)
       /\ \A c \in Components :
            /\ actual[c] <= expected[c] + 1
            /\ expected[c] <= actual[c] + 1 + virtualUnit[c] \div PRECISE_UNIT

\* A unit as it is read back after it was stored at a multiplier, and how far
\* the reference may be from it.
StoredUnit(unit, multiplier) ==
  convertVirtualToRealUnit(convertRealToVirtualUnit(unit, multiplier), multiplier)

UnitsClose(expected, actual, multiplier, slack) ==
  /\ expected <= actual + 1 + multiplier \div PRECISE_UNIT + slack
  /\ actual <= expected + 1 + PRECISE_UNIT \div multiplier + slack

(***************************************************************************)
(* The quantity getExpectedSetTokenIssueQuantity and the multiplier        *)
(* getExpectedIssuePositionMultiplier predict for a NAV issuance:  the     *)
(* quantity differs only by the rounding of the manager's and the          *)
(* protocol's fee, and the multiplier is never above the contract's and    *)
(* at most one, and one more per PRECISE_UNIT, below it.  The reserve's    *)
(* unit, which getExpectedIssuePositionUnit converts in the other order,   *)
(* is within the loss of the two conversions.                              *)
(***************************************************************************)
IssuePreviewClose ==
  \A q \in ReserveQuantities :
    LET minted == getSetTokenMintQuantity(getFees(q).netFlow)
        expected == getExpectedIssuePositionMultiplier(positionMultiplier, supply,
                                                       supply + minted)
        actual == rescaledMultiplier(supply + minted)
    IN supply >= MinSetTokenSupply /\ calculateSetTokenValuation * supply >= PRECISE_UNIT =>
         /\ getFees(q).netFlow - getExpectedPostFeeQuantity(q) \in -1 .. 1
         /\ getFees(q).netFlow = getExpectedPostFeeQuantity(q)
              => minted = getExpectedSetTokenIssueQuantity(q)
         /\ expected <= actual
         /\ actual <= expected + 1 + positionMultiplier \div PRECISE_UNIT
         /\ getFees(q).netFlow = getExpectedPostFeeQuantity(q) /\ actual > 0
              => UnitsClose(getExpectedIssuePositionUnit(q, supply + minted, actual),
                            StoredUnit(getIssuePositionUnit(getFees(q).netFlow,
                                                            supply + minted), actual),
                            actual, 0)

(***************************************************************************)
(* The same for a NAV redemption.  The reference converts into the         *)
(* reserve's decimals last and the contract first, so the prediction may   *)
(* be off by the roundings in between, three base units for a reserve of   *)
(* at most 18 decimals (coarse is then one), and the unit by what they     *)
(* come to per SetToken.                                                   *)
(***************************************************************************)
RedeemPreviewClose ==
  \A q \in Quantities :
    LET actual == rescaledMultiplier(supply - q)
        expected == getExpectedRedeemPositionMultiplier(positionMultiplier, supply,
                                                        supply - q)
        paid == getFees(getRedeemReserveQuantity(q)).netFlow
        coarse == preciseMulCeil(BaseUnits[Reserve], 1)
    IN supply - q >= MinSetTokenSupply =>
         /\ expected <= actual
         /\ actual <= expected + 1 + positionMultiplier \div PRECISE_UNIT
         /\ paid <= getExpectedReserveRedeemQuantity(q) + 2 + coarse
         /\ getExpectedReserveRedeemQuantity(q) <= paid + 1 + 2 * coarse
         /\ getRedeemReserveQuantity(q) + 1 <= preciseMul(realUnit[Reserve], supply)
              => UnitsClose(getExpectedRedeemPositionUnit(q, supply - q, actual),
                            StoredUnit(getRedeemPositionUnit(getRedeemReserveQuantity(q),
                                                             supply - q), actual),
                            actual, coarse * (1 + PRECISE_UNIT \div (supply - q)))

(***************************************************************************)
(* What the test-suite computes for accrueFee, NAV issuance and NAV        *)
(* redemption (feeModuleUtils.ts, navIssuanceModuleUtils.ts) stays this    *)
(* close to the contracts in every state that fees, issuances and trades   *)
(* lead to, and not only at the round numbers of the tests.                *)
(***************************************************************************)
ReferenceFormulasClose == FeePreviewClose /\ IssuePreviewClose /\ RedeemPreviewClose

\* What the value of a SetToken may leave out of a component: the quotient and
\* the product are rounded down, and so is the unit, except that the reserve's
\* is the one the flow of a NAV issuance is added to.
HiddenValue(c) ==
  IF c = Reserve THEN 1
  ELSE 1 + preciseMulCeil(Price[c], 1) + (Price[c] - 1) \div BaseUnits[c] + 1

\* the same for so many SetTokens minted, in the reserve
RoundTripDust(minted) ==
  LET hidden == SumFunction([c \in Components |-> HiddenValue(c)])
      ofMinted == (minted * (PRECISE_UNIT + supply * hidden)) \div (supply + minted) + 1
  IN (ofMinted * BaseUnits[Reserve]) \div (PRECISE_UNIT * PRECISE_UNIT)

(***************************************************************************)
(* Nobody profits from issuing against the reserve and redeeming at once:  *)
(* right after a NAV issuance the SetTokens it minted are worth no more    *)
(* than the reserve it brought in, whatever the premium and the fees, but  *)
(* for the roundings of value and units: a component whose unit is rounded *)
(* down may keep its unit although the supply has grown, and one base unit *)
(* of a token of few decimals can be worth more than the fees.             *)
(***************************************************************************)
NoRoundTripProfit ==
  [][NavIssue =>
       \A minted \in 0 .. MaxSupply :
         supply' = supply + minted =>
           getRedeemReserveQuantity(minted)'
             <= balance'[Reserve] - balance[Reserve] + RoundTripDust(minted)]_vars

(***************************************************************************)
(* While AuctionRebalanceModuleV1 holds the lock nobody mints, burns or    *)
(* rescales, and once the rebalance's duration has elapsed, the lock not   *)
(* yet given back, no holdings change either.                              *)
(***************************************************************************)
LockRespected ==
  [][locker = Auction =>
       /\ supply' = supply /\ positionMultiplier' = positionMultiplier
       /\ balance' # balance => ~isRebalanceDurationElapsed]_vars

(***************************************************************************)
(* The lock is given back, unless the manager starts rebalances for ever:  *)
(* the module that holds it cannot be removed while it does, and the end   *)
(* of the duration opens unlock to everyone.                               *)
(***************************************************************************)
LockReleased ==
  <>[][~StartRebalance]_vars => (locker = Auction ~> locker = None)

=============================================================================
