-------------------------- MODULE RebalanceKeeper --------------------------
(***************************************************************************)
(* The Chainlink keeper of a leverage strategy, FliRebalanceKeeper: it     *)
(* reads the strategy's advice off-chain (checkUpkeep) and a registry      *)
(* later sends what was read back to performUpkeep, which makes the call.  *)
(* Between the two anything may happen, other keepers' calls included; the *)
(* registry may be late, send the same data again after a reorganization,  *)
(* or not at all.                                                          *)
(*                                                                         *)
(* exchangeIndex, which the owner moves at will and every removal shifts,  *)
(* is a choice of any listed exchange.                                     *)
(***************************************************************************)
EXTENDS LeverageStrategy

CONSTANT LeverageSettingsChoices  \* custom leverage bounds the owner may set

VARIABLES
  leverageSettings,       \* custom leverage bounds
  performData,            \* what the last checkUpkeep returned
  outdated                \* history: has what the advice rests on changed since?

keeper == <<leverageSettings, performData>>
kvars == <<vars, leverageSettings, performData, outdated>>

LeverageSettings == [customMinLeverageRatio : Nat, customMaxLeverageRatio : Nat]

ASSUME LeverageSettingsAssumption == LeverageSettingsChoices \subseteq LeverageSettings

\* Empty performData: there has been no upkeep to perform.
NoData == [shouldRebalance |-> "NONE"]

\* What a call depends on, time apart.
basis == <<price, collateral, borrow, settings, exchangeSettings, enabledExchanges,
           twapLeverageRatio>>

RecordChange == outdated' = (outdated \/ basis' # basis)

\* shouldRebalanceWithBounds reverts unless the custom bounds are the wider ones.
ValidCustomBounds ==
  /\ leverageSettings.customMinLeverageRatio <= methodology.minLeverageRatio
  /\ leverageSettings.customMaxLeverageRatio >= methodology.maxLeverageRatio

customAdvice(e) ==
  shouldRebalanceEnum(e, leverageSettings.customMinLeverageRatio,
                      leverageSettings.customMaxLeverageRatio)

\* Mutant: the custom bounds need not contain the strategy's.
checkUpkeep_anyBounds(e) ==
  /\ HasLeverageRatio
  /\ e \in Listed
  /\ customAdvice(e) # "NONE"
  /\ performData' = [shouldRebalance |-> customAdvice(e), exchangeName |-> e]
  /\ outdated' = FALSE
  /\ UNCHANGED <<vars, leverageSettings>>

checkUpkeep(e) ==
  /\ ValidCustomBounds
  /\ HasLeverageRatio
  /\ e \in Listed
  /\ customAdvice(e) # "NONE"
  /\ performData' = [shouldRebalance |-> customAdvice(e), exchangeName |-> e]
  /\ outdated' = FALSE
  /\ UNCHANGED <<vars, leverageSettings>>

\* The data stays with the registry, which may send it again.
performUpkeep ==
  /\ \/ /\ performData.shouldRebalance = "REBALANCE"
        /\ rebalance(performData.exchangeName)
     \/ /\ performData.shouldRebalance = "ITERATE_REBALANCE"
        /\ iterateRebalance(performData.exchangeName)
     \/ /\ performData.shouldRebalance = "RIPCORD"
        /\ ripcord(performData.exchangeName)
  /\ RecordChange
  /\ UNCHANGED keeper

setLeverageSettings(l) ==
  /\ leverageSettings' = l
  /\ UNCHANGED <<vars, performData, outdated>>

KeeperInit ==
  /\ Init
  /\ leverageSettings \in LeverageSettingsChoices
  /\ performData = NoData
  /\ outdated = FALSE

\* The other callers, the market, time.
StrategyStep == Next /\ RecordChange /\ UNCHANGED keeper

KeeperNext ==
  \/ \E e \in Exchanges : checkUpkeep(e)
  \/ performUpkeep
  \/ \E l \in LeverageSettingsChoices : setLeverageSettings(l)
  \/ StrategyStep

KeeperSpec == KeeperInit /\ [][KeeperNext]_kvars

(***************************************************************************)
(* Properties.                                                             *)
(***************************************************************************)
\* The call that is advised now, or an iterateRebalance before its cooldown has
\* passed: outside the leverage bounds _validateNormalRebalance waives the
\* cooldown, _shouldRebalance does not.
AdvisedNow(e, call) ==
  /\ e \in Listed /\ HasLeverageRatio
  /\ \/ shouldRebalance[e] = call
     \/ /\ call = "ITERATE_REBALANCE" /\ shouldRebalance[e] = "NONE"
        /\ OutsideBounds(currentLeverageRatio, methodology.minLeverageRatio,
                         methodology.maxLeverageRatio)

\* However late or often the registry sends what checkUpkeep returned, and
\* whatever was traded, set, added or removed in between, performUpkeep goes
\* through only if the strategy gives the same advice again at that moment, the
\* early iterateRebalance aside: a stale or repeated upkeep reverts.
LateUpkeepsAreAdvised ==
  [][performUpkeep =>
       AdvisedNow(performData.exchangeName, performData.shouldRebalance)]_kvars

\* Delay alone does no harm: as long as only time has passed since checkUpkeep,
\* with whichever custom bounds it was read, the call goes through, if it was
\* possible for the reasons shouldRebalance does not look at.
DelayedUpkeepSucceeds ==
  (~outdated /\ performData # NoData
   /\ CallPossible(performData.exchangeName, performData.shouldRebalance)) =>
     ENABLED performUpkeep

=============================================================================
