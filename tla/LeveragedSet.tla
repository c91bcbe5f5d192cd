---------------------------- MODULE LeveragedSet ----------------------------
(***************************************************************************)
(* The accounting of one leveraged SetToken: the position units kept by    *)
(* SetToken, issuance and redemption by DebtIssuanceModule (V2, and V3     *)
(* when TransferBuffer > 0), MorphoLeverageModule (MLM), which keeps the   *)
(* external units in step with the position on Morpho, and the coming and  *)
(* going of these modules.                                                 *)
(*                                                                         *)
(* A transaction is one action; a revert is a disabled action.  The        *)
(* position multiplier is one (no streaming fee has been taken), the       *)
(* SetToken is allowed on MLM, and its manager makes every call that needs *)
(* one.  A component is listed exactly when one of its units is not zero,  *)
(* so the list itself is left out.                                         *)
(***************************************************************************)
EXTENDS PreciseUnitMath, FiniteSets

CONSTANTS
  IssuanceModules,        \* the issuance modules enabled on the controller
  DefaultIssuanceModule,  \* the one MLM requires
  MLM,                    \* the leverage module
  VIRTUAL_SHARES,         \* of Morpho's share arithmetic
  PRICE_SCALE, Lltv,      \* of the Morpho market
  InitialMarket,          \* what others have borrowed: [assets, shares]
  InitialUnit,            \* collateral per SetToken at creation
  Prices,
  Quantities,             \* SetTokens issued or redeemed in one call
  TradeUnits,             \* units the manager passes to lever() and delever()
  Received,               \* what a DEX pays over the oracle price, possibly negative
  InterestAmounts,        \* interest the market accrues at once
  Donations,              \* tokens sent to the SetToken
  ManagerIssueFee, ManagerRedeemFee, TradeFee,
  TransferBuffer,         \* tokenTransferBuffer of DebtIssuanceModuleV3
  ManagerChangesModules,  \* are modules added and removed after deployment?
  MaxSupply, MaxEvents

VARIABLES
  supply,                 \* setToken.totalSupply()
  defaultUnit,            \* component -> default position unit
  externalUnit,           \* component -> MLM's external position unit
  balance,                \* component -> tokens held by the SetToken
  morpho,                 \* the SetToken's position on Morpho and the market's totals
  price,
  moduleState,            \* NONE, PENDING or INITIALIZED
  isModuleHook,           \* issuance modules MLM is registered with
  marketParams,           \* has MLM market parameters for this SetToken?
  events

accounting == <<supply, defaultUnit, externalUnit, balance, morpho>>
modules == <<moduleState, isModuleHook, marketParams>>
vars == <<supply, defaultUnit, externalUnit, balance, morpho, price, moduleState,
          isModuleHook, marketParams, events>>

Components == {"collateralToken", "loanToken"}
Modules == IssuanceModules \union {MLM}

ASSUME LeveragedSetAssumption ==
  /\ DefaultIssuanceModule \in IssuanceModules /\ MLM \notin IssuanceModules
  /\ VIRTUAL_SHARES \in Nat \ {0} /\ PRICE_SCALE \in Nat \ {0} /\ Lltv \in Nat
  /\ InitialMarket \in [assets : Nat, shares : Nat]
  /\ InitialUnit \in Nat \ {0} /\ Prices \subseteq Nat \ {0}
  /\ Quantities \subseteq Nat \ {0} /\ TradeUnits \subseteq Nat \ {0}
  /\ Received \subseteq Int
  /\ InterestAmounts \subseteq Nat \ {0} /\ Donations \subseteq Nat \ {0}
  /\ ManagerIssueFee \in 0 .. PRECISE_UNIT /\ ManagerRedeemFee \in 0 .. PRECISE_UNIT
  /\ TradeFee \in 0 .. PRECISE_UNIT
  /\ ManagerChangesModules \in BOOLEAN
  /\ TransferBuffer \in Nat /\ MaxSupply \in Nat /\ MaxEvents \in Nat

(***************************************************************************)
(* Morpho: debt is kept in shares of the market's total, with one virtual  *)
(* asset and VIRTUAL_SHARES virtual shares, and rounds against the         *)
(* borrower.  The totals include the interest up to now, which is what     *)
(* expectedMarketBalances computes.                                        *)
(***************************************************************************)
ceilDiv(a, b) == (a + b - 1) \div b

toAssetsUp(mo, shares) ==
  ceilDiv(shares * (mo.totalBorrowAssets + 1), mo.totalBorrowShares + VIRTUAL_SHARES)
toSharesDown(mo, assets) ==
  (assets * (mo.totalBorrowShares + VIRTUAL_SHARES)) \div (mo.totalBorrowAssets + 1)
toSharesUp(mo, assets) ==
  ceilDiv(assets * (mo.totalBorrowShares + VIRTUAL_SHARES), mo.totalBorrowAssets + 1)

borrowBalance(mo) == toAssetsUp(mo, mo.borrowShares)

maxBorrow(mo) == preciseMul((mo.collateral * price) \div PRICE_SCALE, Lltv)

MorphoHealthy(mo) == mo.borrowShares = 0 \/ borrowBalance(mo) <= maxBorrow(mo)

SuppliedCollateral(mo, assets) == [mo EXCEPT !.collateral = @ + assets]

WithdrawnCollateral(mo, assets) == [mo EXCEPT !.collateral = @ - assets]

Borrowed(mo, assets) ==
  [mo EXCEPT !.borrowShares = @ + toSharesUp(mo, assets),
             !.totalBorrowShares = @ + toSharesUp(mo, assets),
             !.totalBorrowAssets = @ + assets]

Repaid(mo, assets, shares) ==
  [mo EXCEPT !.borrowShares = @ - shares,
             !.totalBorrowShares = @ - shares,
             !.totalBorrowAssets = IF @ >= assets THEN @ - assets ELSE 0]

\* Morpho refuses an amount of zero, more than there is, and an unhealthy result.
CanWithdraw(mo, assets) ==
  assets \in 1 .. mo.collateral /\ MorphoHealthy(WithdrawnCollateral(mo, assets))
CanBorrow(mo, assets) == assets > 0 /\ MorphoHealthy(Borrowed(mo, assets))
CanRepay(mo, assets) == assets > 0 /\ toSharesDown(mo, assets) <= mo.borrowShares

(***************************************************************************)
(* MLM's view of the position, in units per SetToken.                      *)
(***************************************************************************)
NoUnits == [c \in Components |-> 0]

\* _getCollateralAndBorrowPositions, written by _sync
syncedUnits(sets, mo) ==
  IF sets = 0 THEN NoUnits
  ELSE [c \in Components |->
          IF c = "collateralToken" THEN preciseDiv(mo.collateral, sets)
          ELSE - preciseDivCeil(borrowBalance(mo), sets)]

LeverageModuleReady == moduleState[MLM] = "INITIALIZED" /\ marketParams

\* sync() may be called by anyone.
sync ==
  /\ LeverageModuleReady
  /\ externalUnit' = syncedUnits(supply, morpho)
  /\ UNCHANGED <<supply, defaultUnit, balance, morpho, price, modules>>

\* Deposits the whole balance; the collateral's default position is removed.
enterCollateralPosition ==
  /\ LeverageModuleReady
  /\ balance["collateralToken"] > 0
  /\ morpho' = SuppliedCollateral(morpho, balance["collateralToken"])
  /\ balance' = [balance EXCEPT !["collateralToken"] = 0]
  /\ defaultUnit' = [defaultUnit EXCEPT !["collateralToken"] = 0]
  /\ externalUnit' = syncedUnits(supply, morpho')
  /\ UNCHANGED <<supply, price, modules>>

afterTradeFee(received) == received - preciseMul(received, TradeFee)

lever(borrowUnits, received) ==
  LET send == preciseMul(borrowUnits, supply)
      deposit == afterTradeFee(received)
  IN  /\ LeverageModuleReady
      /\ CanBorrow(morpho, send)
      /\ deposit > 0
      /\ morpho' = SuppliedCollateral(Borrowed(morpho, send), deposit)
      /\ externalUnit' = syncedUnits(supply, morpho')
      /\ UNCHANGED <<supply, defaultUnit, balance, price, modules>>

delever(redeemUnits, received) ==
  LET send == preciseMul(redeemUnits, supply)
      repay == afterTradeFee(received)
  IN  /\ LeverageModuleReady
      /\ CanWithdraw(morpho, send)
      /\ CanRepay(WithdrawnCollateral(morpho, send), repay)
      /\ morpho' = Repaid(WithdrawnCollateral(morpho, send), repay,
                          toSharesDown(morpho, repay))
      /\ externalUnit' = syncedUnits(supply, morpho')
      /\ UNCHANGED <<supply, defaultUnit, balance, price, modules>>

\* Mutant: rounds up.
calculateDefaultEditPositionUnit_up(pre, post, unit) ==
  preciseDivCeil(post - (pre - preciseMul(unit, supply)), supply)

\* What was in the SetToken without being tracked stays untracked.
calculateDefaultEditPositionUnit(pre, post, unit) ==
  preciseDiv(post - (pre - preciseMul(unit, supply)), supply)

\* Mutant: the minimum is not enforced.
enoughReceived_unchecked(received, minimum) == TRUE

\* _executeTrade reverts below the minimum.  (In lever and delever the manager
\* chooses the minimum, so any amount may come back.)
enoughReceived(received, minimum) == received >= minimum

\* Repays by shares; what the trade brings beyond the debt becomes equity.
deleverToZeroBorrowBalance(redeemUnits, received) ==
  LET send == preciseMul(redeemUnits, supply)
      debt == borrowBalance(morpho)
      pre == balance["loanToken"]
      post == pre + received - debt
  IN  /\ LeverageModuleReady
      /\ morpho.borrowShares > 0
      /\ CanWithdraw(morpho, send)
      /\ enoughReceived(received, debt)
      /\ morpho' = Repaid(WithdrawnCollateral(morpho, send), debt, morpho.borrowShares)
      /\ balance' = [balance EXCEPT !["loanToken"] = post]
      /\ defaultUnit' =
           IF post = pre THEN defaultUnit
           ELSE [defaultUnit EXCEPT !["loanToken"] =
                   calculateDefaultEditPositionUnit(pre, post, @)]
      /\ externalUnit' = syncedUnits(supply, morpho')
      /\ UNCHANGED <<supply, price, modules>>

(***************************************************************************)
(* Issuance and redemption.  A registered leverage module is called first  *)
(* and syncs; otherwise the stored units are used.                         *)
(***************************************************************************)
\* Mutant: the module hooks are not called.
unitsAfterModuleHook_stale(m) == externalUnit

unitsAfterModuleHook(m) ==
  IF isModuleHook[m] THEN syncedUnits(supply, morpho) ELSE externalUnit

equityUnit(units, c) == defaultUnit[c] + (IF units[c] > 0 THEN units[c] ELSE 0)
debtUnit(units, c) == IF units[c] < 0 THEN - units[c] ELSE 0

quantityWithFees(q) == q + preciseMul(ManagerIssueFee, q)
quantityNetFees(q) == q - preciseMul(ManagerRedeemFee, q)

\* The component hooks of MLM are called for components with an external position
\* and do nothing for an equity that is not the market's collateral; for a debt
\* they revert unless it is the market's loan token.
EquityHookActs(units) == units["collateralToken"] # 0 /\ marketParams
DebtHookAccepts == marketParams

\* Mutant: demands more than the default positions need.
validateCollateralizationPostTransferOut_strict(c, held, sets) ==
  held > preciseMulCeil(sets, defaultUnit[c])

validateCollateralizationPostTransferOut(c, held, sets) ==
  held >= preciseMulCeil(sets, defaultUnit[c])

validateCollateralizationPostTransferInPreHook(c, held, sets, quantity) ==
  held >= preciseMulCeil(sets, defaultUnit[c]) + quantity

\* What comes in is rounded up and what goes out down.
requiredIn(unit, quantity) == preciseMulCeil(unit, quantity)
requiredOut(unit, quantity) == preciseMul(unit, quantity)

\* _resolveEquityPositions of V3: TransferBuffer is added to what comes in and kept
\* from what goes out.
equityTransferIn(quantity) == IF quantity > 0 THEN quantity + TransferBuffer ELSE 0
equityTransferOut(quantity) == IF quantity > 0 THEN quantity - TransferBuffer ELSE 0

\* _resolveDebtPositions, issuing: borrow and hand out.
DebtCanBeTaken(mo, debt, held, sets) ==
  debt > 0 =>
    /\ DebtHookAccepts
    /\ CanBorrow(mo, debt)
    /\ validateCollateralizationPostTransferOut("loanToken", held, sets)

\* _resolveDebtPositions, redeeming: take in and repay.
DebtCanBeRepaid(debtIn, repay, held) ==
  debtIn > 0 =>
    /\ validateCollateralizationPostTransferInPreHook("loanToken", held, supply, debtIn)
    /\ DebtHookAccepts
    /\ CanRepay(morpho, repay)

\* Equity is transferred in and deposited, then debt is taken and handed out.
issue(m, q) ==
  LET total == quantityWithFees(q)
      units == unitsAfterModuleHook(m)
      equityIn(c) == requiredIn(equityUnit(units, c), total)
      deposit == IF EquityHookActs(units)
                   THEN preciseMul(units["collateralToken"], total) ELSE 0
      debtOut == requiredOut(debtUnit(units, "loanToken"), total)
      deposited == SuppliedCollateral(morpho, deposit)
      held == [c \in Components |-> balance[c] + equityTransferIn(equityIn(c))]
  IN  /\ moduleState[m] = "INITIALIZED"
      /\ isModuleHook[m] => LeverageModuleReady
      /\ EquityHookActs(units) => deposit > 0
      /\ \A c \in Components : equityIn(c) > 0 =>
           validateCollateralizationPostTransferInPreHook(c, held[c], supply, equityIn(c))
      /\ DebtCanBeTaken(deposited, debtOut, held["loanToken"], supply + total)
      /\ morpho' = IF debtOut > 0 THEN Borrowed(deposited, debtOut) ELSE deposited
      /\ balance' = [held EXCEPT !["collateralToken"] = @ - deposit]
      /\ externalUnit' = units
      /\ supply' = supply + total
      /\ UNCHANGED <<defaultUnit, price, modules>>

\* Debt is transferred in and repaid, then equity is withdrawn and handed out.  The
\* debt transferred in is rounded up, the repayment down.
redeem(m, q) ==
  LET net == quantityNetFees(q)
      units == unitsAfterModuleHook(m)
      debt == debtUnit(units, "loanToken")
      debtIn == requiredIn(debt, net)
      repay == preciseMul(debt, net)
      repaid == IF debtIn > 0
                  THEN Repaid(morpho, repay, toSharesDown(morpho, repay)) ELSE morpho
      equityOut(c) == requiredOut(equityUnit(units, c), net)
      withdraws == EquityHookActs(units) /\ equityOut("collateralToken") > 0
      withdrawal == IF withdraws
                      THEN preciseMul(units["collateralToken"], net) ELSE 0
      received == [c \in Components |->
                     IF c = "loanToken" THEN balance[c] + debtIn
                     ELSE balance[c] + withdrawal]
      sent == [c \in Components |-> equityTransferOut(equityOut(c))]
      held == [c \in Components |->
                 received[c] - sent[c] - (IF c = "loanToken" THEN repay ELSE 0)]
  IN  /\ moduleState[m] = "INITIALIZED"
      /\ isModuleHook[m] => LeverageModuleReady
      /\ q <= supply
      /\ DebtCanBeRepaid(debtIn, repay, received["loanToken"])
      /\ withdraws => CanWithdraw(repaid, withdrawal)
      /\ \A c \in Components : equityOut(c) > 0 =>
           /\ sent[c] \in 0 .. received[c]
           /\ validateCollateralizationPostTransferOut(c, held[c], supply - net)
      /\ morpho' = WithdrawnCollateral(repaid, withdrawal)
      /\ balance' = held
      /\ externalUnit' = units
      /\ supply' = supply - net
      /\ UNCHANGED <<defaultUnit, price, modules>>

(***************************************************************************)
(* The modules of the SetToken.                                            *)
(***************************************************************************)
addModule(x) ==
  /\ moduleState[x] = "NONE"
  /\ moduleState' = [moduleState EXCEPT ![x] = "PENDING"]
  /\ UNCHANGED <<accounting, price, isModuleHook, marketParams>>

removePendingModule(x) ==
  /\ moduleState[x] = "PENDING"
  /\ moduleState' = [moduleState EXCEPT ![x] = "NONE"]
  /\ UNCHANGED <<accounting, price, isModuleHook, marketParams>>

\* DebtIssuanceModule.initialize
initializeIssuance(m) ==
  /\ moduleState[m] = "PENDING"
  /\ moduleState' = [moduleState EXCEPT ![m] = "INITIALIZED"]
  /\ UNCHANGED <<accounting, price, isModuleHook, marketParams>>

\* MLM.initialize registers with every initialized issuance module.
initialize ==
  /\ moduleState[MLM] = "PENDING"
  /\ moduleState[DefaultIssuanceModule] = "INITIALIZED"
  /\ moduleState' = [moduleState EXCEPT ![MLM] = "INITIALIZED"]
  /\ isModuleHook' =
       [m \in IssuanceModules |-> isModuleHook[m] \/ moduleState[m] = "INITIALIZED"]
  /\ marketParams' = TRUE
  /\ UNCHANGED <<accounting, price>>

registerToModule(m) ==
  /\ moduleState[MLM] = "INITIALIZED"
  /\ moduleState[m] = "INITIALIZED"
  /\ ~ isModuleHook[m]
  /\ isModuleHook' = [isModuleHook EXCEPT ![m] = TRUE]
  /\ UNCHANGED <<accounting, price, moduleState, marketParams>>

\* Mutant: stays registered with the issuance modules.
removeModule_registered ==
  /\ LeverageModuleReady
  /\ externalUnit' = syncedUnits(supply, morpho)
  /\ marketParams' = FALSE
  /\ moduleState' = [moduleState EXCEPT ![MLM] = "NONE"]
  /\ UNCHANGED <<supply, defaultUnit, balance, morpho, price, isModuleHook>>

\* SetToken.removeModule(MLM): syncs, forgets the market and unregisters; the
\* external positions stay on the SetToken.
removeModule ==
  /\ LeverageModuleReady
  /\ externalUnit' = syncedUnits(supply, morpho)
  /\ marketParams' = FALSE
  /\ isModuleHook' =
       [m \in IssuanceModules |-> isModuleHook[m] /\ moduleState[m] # "INITIALIZED"]
  /\ moduleState' = [moduleState EXCEPT ![MLM] = "NONE"]
  /\ UNCHANGED <<supply, defaultUnit, balance, morpho, price>>

\* SetToken.removeModule of an issuance module
removeIssuance(m) ==
  /\ moduleState[m] = "INITIALIZED"
  /\ ~ isModuleHook[m]
  /\ moduleState' = [moduleState EXCEPT ![m] = "NONE"]
  /\ UNCHANGED <<accounting, price, isModuleHook, marketParams>>

(***************************************************************************)
(* The environment: interest, prices and token transfers.                  *)
(***************************************************************************)
AccrueInterest(amount) ==
  /\ morpho.totalBorrowAssets > 0
  /\ morpho' = [morpho EXCEPT !.totalBorrowAssets = @ + amount]
  /\ UNCHANGED <<supply, defaultUnit, externalUnit, balance, price, modules>>

PriceMove(p) ==
  /\ p # price
  /\ price' = p
  /\ UNCHANGED <<accounting, modules>>

Donate(c, amount) ==
  /\ balance' = [balance EXCEPT ![c] = @ + amount]
  /\ UNCHANGED <<supply, defaultUnit, externalUnit, morpho, price, modules>>

(***************************************************************************)
(* The specification.                                                      *)
(***************************************************************************)
Init ==
  /\ supply = 0
  /\ defaultUnit = [NoUnits EXCEPT !["collateralToken"] = InitialUnit]
  /\ externalUnit = NoUnits
  /\ balance = NoUnits
  /\ morpho = [collateral |-> 0, borrowShares |-> 0,
               totalBorrowAssets |-> InitialMarket.assets,
               totalBorrowShares |-> InitialMarket.shares]
  /\ price \in Prices
  /\ moduleState = [x \in Modules |->
                      IF x \in {DefaultIssuanceModule, MLM} THEN "PENDING" ELSE "NONE"]
  /\ isModuleHook = [m \in IssuanceModules |-> FALSE]
  /\ marketParams = FALSE
  /\ events = 0

\* What is counted against MaxEvents.
Event == events < MaxEvents /\ events' = events + 1

Issuance == \E m \in IssuanceModules, q \in Quantities :
  (supply + quantityWithFees(q) <= MaxSupply /\ issue(m, q)) \/ redeem(m, q)

Trade == \E u \in TradeUnits, r \in Received :
  LET sold == preciseMul(u, supply)
  IN  \/ lever(u, (sold * PRICE_SCALE) \div price + r)
      \/ delever(u, (sold * price) \div PRICE_SCALE + r)
      \/ deleverToZeroBorrowBalance(u, (sold * price) \div PRICE_SCALE + r)

Environment ==
  \/ \E amount \in InterestAmounts : AccrueInterest(amount)
  \/ \E p \in Prices : PriceMove(p)
  \/ \E c \in Components, amount \in Donations : Donate(c, amount)

SetUp == initialize \/ \E m \in IssuanceModules : initializeIssuance(m)

Manage ==
  /\ ManagerChangesModules
  /\ \/ removeModule
     \/ \E x \in Modules : addModule(x) \/ removePendingModule(x)
     \/ \E m \in IssuanceModules : registerToModule(m) \/ removeIssuance(m)

Next ==
  \/ Event /\ (Issuance \/ Trade \/ Environment)
  \/ (SetUp \/ Manage \/ sync \/ enterCollateralPosition) /\ UNCHANGED events

Spec == Init /\ [][Next]_vars

(***************************************************************************)
(* Properties.                                                             *)
(***************************************************************************)
\* Every variable has its type: collateral units are never negative, loan units
\* never positive, and no balance or share count goes below zero.
TypeOK ==
  /\ supply \in Nat
  /\ defaultUnit \in [Components -> Nat]
  /\ externalUnit \in [Components -> Int]
  /\ externalUnit["collateralToken"] >= 0 /\ externalUnit["loanToken"] <= 0
  /\ balance \in [Components -> Nat]
  /\ morpho \in [collateral : Nat, borrowShares : Nat,
                 totalBorrowAssets : Nat, totalBorrowShares : Nat]
  /\ price \in Prices
  /\ moduleState \in [Modules -> {"NONE", "PENDING", "INITIALIZED"}]
  /\ isModuleHook \in [IssuanceModules -> BOOLEAN]
  /\ marketParams \in BOOLEAN
  /\ events \in 0 .. MaxEvents

\* The tokens in the SetToken cover its default positions, whatever mix of issues,
\* redemptions, trades and donations led there.
DefaultPositionsBacked ==
  \A c \in Components : preciseMulCeil(supply, defaultUnit[c]) <= balance[c]

\* An issuance module calls the leverage module's hook only while both are
\* initialized and the market is known; otherwise issue() and redeem() would revert
\* for everyone.
HooksAreLive ==
  \A m \in IssuanceModules :
    isModuleHook[m] => moduleState[m] = "INITIALIZED" /\ LeverageModuleReady

\* What rounding may cost the other holders when n SetTokens change hands: a unit
\* is rounded to one wei per SetToken, and debt to a share, worth sharePrice wei.
sharePrice(mo) ==
  ceilDiv(mo.totalBorrowAssets + 1, mo.totalBorrowShares + VIRTUAL_SHARES)
Dust(n) == ceilDiv(n, PRECISE_UNIT) + sharePrice(morpho)

\* Issuance and redemption through a module that MLM is registered with leave the
\* other holders, per SetToken, with the collateral on Morpho they had and the debt
\* they had, up to Dust, although interest accrues between the syncs.
HoldersKeepBacking ==
  [][ \A m \in IssuanceModules, q \in Quantities :
        LET moved == IF supply' >= supply THEN supply' - supply ELSE supply - supply'
        IN  (supply > 0 /\ isModuleHook[m] /\ (issue(m, q) \/ redeem(m, q))) =>
              /\ (morpho'.collateral + Dust(moved)) * supply >= morpho.collateral * supply'
              /\ (borrowBalance(morpho') - Dust(moved)) * supply <=
                   borrowBalance(morpho) * supply' ]_vars

\* The share of q SetTokens in a balance is at least one wei, or there is none.
HasShare(q, unit) == unit > 0 => preciseMul(unit, q) > 0

\* A holder can redeem, with Morpho's checks and the checks for default positions,
\* as long as another whole SetToken remains, the margin on Morpho exceeds the
\* rounding, q's share of the debt and of the collateral is not less than a wei
\* (Morpho refuses to repay or withdraw nothing), and q's share of the debt, whose
\* unit is rounded up, does not come to the whole debt.
HoldersCanRedeem ==
  \A m \in IssuanceModules, q \in Quantities :
    LET units == syncedUnits(supply, morpho)
        margin == maxBorrow(morpho) - borrowBalance(morpho) - Dust(q)
    IN  (/\ isModuleHook[m]
         /\ q + PRECISE_UNIT <= supply
         /\ margin * (supply - q) >= Dust(q) * supply
         /\ HasShare(q, units["collateralToken"]) /\ HasShare(q, - units["loanToken"])
         /\ \/ morpho.borrowShares = 0
            \/ preciseMul(- units["loanToken"], q) < borrowBalance(morpho))
          => ENABLED redeem(m, q)

=============================================================================
