------------------------- MODULE LeveragedSetProofs -------------------------
(***************************************************************************)
(* What holds of the modules of a leveraged SetToken for any number of     *)
(* issuance modules, any market and any amounts.                           *)
(***************************************************************************)
EXTENDS LeveragedSet, PreciseUnitMathProofs, TLAPS

\* The variables of the module life cycle have their types.
ModulesTypeOK ==
  /\ moduleState \in [Modules -> {"NONE", "PENDING", "INITIALIZED"}]
  /\ isModuleHook \in [IssuanceModules -> BOOLEAN]
  /\ marketParams \in BOOLEAN

\* HooksAreLive is inductive together with: the market is known exactly while the
\* leverage module is initialized.  Without the second conjunct registerToModule(),
\* which checks only that MLM is initialized, could register it without a market.
ModulesInv ==
  /\ ModulesTypeOK
  /\ HooksAreLive
  /\ marketParams <=> moduleState[MLM] = "INITIALIZED"

\* Issuance, redemption, trades, syncs and the environment leave the modules alone.
LEMMA OthersKeepModules ==
  ASSUME Issuance \/ Trade \/ Environment \/ sync \/ enterCollateralPosition
  PROVE  UNCHANGED <<moduleState, isModuleHook, marketParams>>
<1>1. CASE Issuance
  <2>1. PICK m \in IssuanceModules, q \in Quantities : issue(m, q) \/ redeem(m, q)
    BY <1>1 DEF Issuance
  <2>2. issue(m, q) => UNCHANGED modules
    BY Zenon DEF issue
  <2>3. redeem(m, q) => UNCHANGED modules
    BY Zenon DEF redeem
  <2>4. QED
    BY <2>1, <2>2, <2>3 DEF modules
<1>2. CASE Trade
  BY <1>2, Zenon DEF Trade, lever, delever, deleverToZeroBorrowBalance, modules
<1>3. CASE Environment
  BY <1>3, Zenon DEF Environment, AccrueInterest, PriceMove, Donate, modules
<1>4. CASE sync \/ enterCollateralPosition
  BY <1>4, Zenon DEF sync, enterCollateralPosition, modules
<1>5. QED
  BY <1>1, <1>2, <1>3, <1>4

\* Adding, initializing, registering and removing modules keeps the invariant.
LEMMA ModuleStep ==
  ASSUME ModulesInv, SetUp \/ Manage
  PROVE  ModulesInv'
<1> USE DEF ModulesInv, ModulesTypeOK, HooksAreLive, LeverageModuleReady
<1>0. MLM \in Modules /\ MLM \notin IssuanceModules
      /\ \A m \in IssuanceModules : m \in Modules /\ m # MLM
  BY LeveragedSetAssumption DEF Modules
<1>1. CASE initialize
  BY <1>0, <1>1 DEF initialize
<1>2. ASSUME NEW m \in IssuanceModules, initializeIssuance(m)
      PROVE  ModulesInv'
  BY <1>0, <1>2 DEF initializeIssuance
<1>3. CASE removeModule
  BY <1>0, <1>3 DEF removeModule
<1>4. ASSUME NEW x \in Modules, addModule(x)
      PROVE  ModulesInv'
  BY <1>0, <1>4 DEF addModule
<1>5. ASSUME NEW x \in Modules, removePendingModule(x)
      PROVE  ModulesInv'
  BY <1>0, <1>5 DEF removePendingModule
<1>6. ASSUME NEW m \in IssuanceModules, registerToModule(m)
      PROVE  ModulesInv'
  BY <1>0, <1>6 DEF registerToModule
<1>7. ASSUME NEW m \in IssuanceModules, removeIssuance(m)
      PROVE  ModulesInv'
  BY <1>0, <1>7 DEF removeIssuance
<1>8. QED
  BY <1>1, <1>2, <1>3, <1>4, <1>5, <1>6, <1>7 DEF SetUp, Manage

\* Whatever modules the manager adds and removes, and in whatever order, an issuance
\* module that calls MLM's hook is initialized, MLM is initialized and has a market:
\* moduleIssueHook and moduleRedeemHook never revert.
THEOREM HooksStayLive == Spec => []HooksAreLive
<1>1. Init => ModulesInv
  BY LeveragedSetAssumption
     DEF Init, ModulesInv, ModulesTypeOK, HooksAreLive, Modules
<1>2. ModulesInv /\ [Next]_vars => ModulesInv'
  <2> SUFFICES ASSUME ModulesInv, [Next]_vars
               PROVE  ModulesInv'
    OBVIOUS
  <2>1. CASE SetUp \/ Manage
    BY <2>1, ModuleStep
  <2>2. CASE Issuance \/ Trade \/ Environment \/ sync \/ enterCollateralPosition
    BY <2>2, OthersKeepModules
       DEF ModulesInv, ModulesTypeOK, HooksAreLive, LeverageModuleReady
  <2>3. CASE UNCHANGED vars
    BY <2>3 DEF vars, ModulesInv, ModulesTypeOK, HooksAreLive, LeverageModuleReady
  <2>4. QED
    BY <2>1, <2>2, <2>3 DEF Next
<1>3. ModulesInv => HooksAreLive
  BY DEF ModulesInv
<1>4. QED
  BY <1>1, <1>2, <1>3, PTL DEF Spec

(***************************************************************************)
(* The position on Morpho.                                                 *)
(***************************************************************************)
Markets == [collateral : Nat, borrowShares : Nat,
            totalBorrowAssets : Nat, totalBorrowShares : Nat]

\* The SetToken's shares are part of the market's total, so that repaying them
\* never takes the total below zero.
MarketOK(mo) == mo \in Markets /\ mo.borrowShares <= mo.totalBorrowShares

LEMMA CeilDivIsNat == ASSUME NEW a \in Nat, NEW b \in Nat \ {0} PROVE ceilDiv(a, b) \in Nat
<1>1. a + b - 1 \in Nat
  OBVIOUS
<1> QED
  BY <1>1, DivRoundsDown DEF ceilDiv

LEMMA SharesAreNat ==
  ASSUME NEW mo, MarketOK(mo), NEW assets \in Nat
  PROVE  /\ toSharesUp(mo, assets) \in Nat /\ toSharesDown(mo, assets) \in Nat
         /\ borrowBalance(mo) \in Nat
<1>1. /\ mo.totalBorrowShares + VIRTUAL_SHARES \in Nat \ {0}
      /\ mo.totalBorrowAssets + 1 \in Nat \ {0} /\ mo.borrowShares \in Nat
  BY LeveragedSetAssumption DEF MarketOK, Markets
<1>2. /\ assets * (mo.totalBorrowShares + VIRTUAL_SHARES) \in Nat
      /\ mo.borrowShares * (mo.totalBorrowAssets + 1) \in Nat
  BY <1>1, ProductIsNat
<1>3. toSharesUp(mo, assets) \in Nat
  BY <1>1, <1>2, CeilDivIsNat DEF toSharesUp
<1>4. toSharesDown(mo, assets) \in Nat
  BY <1>1, <1>2, DivRoundsDown DEF toSharesDown
<1>5. borrowBalance(mo) \in Nat
  BY <1>1, <1>2, CeilDivIsNat DEF borrowBalance, toAssetsUp
<1> QED
  BY <1>3, <1>4, <1>5

LEMMA CollateralMoves ==
  ASSUME NEW mo, MarketOK(mo), NEW assets \in Nat
  PROVE  /\ MarketOK(SuppliedCollateral(mo, assets))
         /\ assets <= mo.collateral => MarketOK(WithdrawnCollateral(mo, assets))
BY DEF MarketOK, Markets, SuppliedCollateral, WithdrawnCollateral

LEMMA DebtMoves ==
  ASSUME NEW mo, MarketOK(mo), NEW assets \in Nat, NEW shares \in Nat
  PROVE  /\ MarketOK(Borrowed(mo, assets))
         /\ shares <= mo.borrowShares => MarketOK(Repaid(mo, assets, shares))
<1> DEFINE n == toSharesUp(mo, assets)
<1>0. /\ mo \in Markets /\ mo.borrowShares \in Nat /\ mo.totalBorrowShares \in Nat
      /\ mo.totalBorrowAssets \in Nat /\ mo.borrowShares <= mo.totalBorrowShares
  BY DEF MarketOK, Markets
<1>1. n \in Nat
  BY SharesAreNat
<1>2. MarketOK(Borrowed(mo, assets))
  <2> DEFINE b == [mo EXCEPT !.borrowShares = @ + n, !.totalBorrowShares = @ + n,
                             !.totalBorrowAssets = @ + assets]
  <2>1. Borrowed(mo, assets) = b
    BY DEF Borrowed
  <2> HIDE DEF n
  <2>0. /\ mo.borrowShares + n \in Nat /\ mo.totalBorrowShares + n \in Nat
        /\ mo.totalBorrowAssets + assets \in Nat
    BY <1>0, <1>1
  <2>2. /\ b \in Markets /\ b.borrowShares = mo.borrowShares + n
        /\ b.totalBorrowShares = mo.totalBorrowShares + n
    BY <1>0, <2>0 DEF Markets
  <2> HIDE DEF b
  <2> QED
    BY <1>0, <1>1, <2>1, <2>2 DEF MarketOK
<1>3. ASSUME shares <= mo.borrowShares PROVE MarketOK(Repaid(mo, assets, shares))
  <2> DEFINE left == IF mo.totalBorrowAssets >= assets
                       THEN mo.totalBorrowAssets - assets ELSE 0
             b == [mo EXCEPT !.borrowShares = @ - shares, !.totalBorrowShares = @ - shares,
                             !.totalBorrowAssets = left]
  <2>1. Repaid(mo, assets, shares) = b
    BY <1>0 DEF Repaid, Markets
  <2>2. /\ left \in Nat /\ mo.borrowShares - shares \in Nat
        /\ mo.totalBorrowShares - shares \in Nat
    BY <1>0, <1>3
  <2> HIDE DEF left
  <2>3. /\ b \in Markets /\ b.borrowShares = mo.borrowShares - shares
        /\ b.totalBorrowShares = mo.totalBorrowShares - shares
    BY <1>0, <2>2 DEF Markets
  <2> HIDE DEF b
  <2> QED
    BY <1>0, <2>1, <2>3 DEF MarketOK
<1> QED
  BY <1>2, <1>3

\* Units as MLM writes them: collateral is equity, the loan is debt.
UnitsOK(units) ==
  /\ units \in [Components -> Int]
  /\ units["collateralToken"] \in Nat /\ - units["loanToken"] \in Nat

LEMMA SyncedUnitsOK ==
  ASSUME NEW mo, MarketOK(mo), NEW sets \in Nat
  PROVE  UnitsOK(syncedUnits(sets, mo))
<1>1. CASE sets = 0
  BY <1>1 DEF syncedUnits, NoUnits, UnitsOK, Components
<1>2. CASE sets # 0
  <2> DEFINE c == preciseDiv(mo.collateral, sets)
             d == preciseDivCeil(borrowBalance(mo), sets)
  <2>1. borrowBalance(mo) \in Nat /\ mo.collateral \in Nat
    BY SharesAreNat DEF MarketOK, Markets
  <2>2. c \in Nat /\ d \in Nat
    BY <1>2, <2>1, PreciseDivRoundsDown, PreciseDivCeilRoundsUp
  <2>3. syncedUnits(sets, mo) =
          [x \in Components |-> IF x = "collateralToken" THEN c ELSE - d]
    BY <1>2 DEF syncedUnits
  <2> HIDE DEF c, d
  <2> QED
    BY <2>2, <2>3 DEF UnitsOK, Components
<1> QED
  BY <1>1, <1>2

(***************************************************************************)
(* The accounting, step by step.                                           *)
(***************************************************************************)
\* Types and backing of everything that issuance and trades touch.
AccountingOK ==
  /\ supply \in Nat
  /\ defaultUnit \in [Components -> Nat] /\ balance \in [Components -> Nat]
  /\ UnitsOK(externalUnit)
  /\ MarketOK(morpho)
  /\ DefaultPositionsBacked

LEMMA LeverStep ==
  ASSUME AccountingOK, price \in Prices, NEW u \in TradeUnits, NEW received \in Int,
         lever(u, received)
  PROVE  AccountingOK'
<1> DEFINE send == preciseMul(u, supply)
           deposit == afterTradeFee(received)
<1>0. u \in Nat /\ supply \in Nat /\ MarketOK(morpho) /\ PRECISE_UNIT \in Nat \ {0}
      /\ TradeFee \in Nat
  BY LeveragedSetAssumption, PreciseUnitAssumption DEF AccountingOK
<1>1. /\ deposit > 0 /\ morpho' = SuppliedCollateral(Borrowed(morpho, send), deposit)
      /\ externalUnit' = syncedUnits(supply, morpho')
      /\ UNCHANGED <<supply, defaultUnit, balance>>
  BY Zenon DEF lever
<1>2. send \in Nat
  BY <1>0, PreciseMulRoundsDown
<1>3. deposit \in Nat
  <2>1. preciseMul(received, TradeFee) \in Int
    BY <1>0 DEF preciseMul
  <2> QED
    BY <1>1, <2>1 DEF afterTradeFee
<1> HIDE DEF send, deposit
<1>4. MarketOK(morpho')
  BY <1>0, <1>1, <1>2, <1>3, DebtMoves, CollateralMoves
<1>5. UnitsOK(externalUnit')
  BY <1>0, <1>1, <1>4, SyncedUnitsOK
<1> QED
  BY <1>1, <1>4, <1>5 DEF AccountingOK, DefaultPositionsBacked

LEMMA DeleverStep ==
  ASSUME AccountingOK, price \in Prices, NEW u \in TradeUnits, NEW received \in Int,
         delever(u, received)
  PROVE  AccountingOK'
<1> DEFINE send == preciseMul(u, supply)
           repay == afterTradeFee(received)
           shares == toSharesDown(morpho, repay)
           withdrawn == WithdrawnCollateral(morpho, send)
<1>0. u \in Nat /\ supply \in Nat /\ MarketOK(morpho) /\ PRECISE_UNIT \in Nat \ {0}
      /\ TradeFee \in Nat
  BY LeveragedSetAssumption, PreciseUnitAssumption DEF AccountingOK
<1>1. /\ CanWithdraw(morpho, send) /\ CanRepay(withdrawn, repay)
      /\ morpho' = Repaid(withdrawn, repay, shares)
      /\ externalUnit' = syncedUnits(supply, morpho')
      /\ UNCHANGED <<supply, defaultUnit, balance>>
  BY Zenon DEF delever
<1>2. send \in Nat /\ send <= morpho.collateral
  BY <1>0, <1>1, PreciseMulRoundsDown DEF CanWithdraw, MarketOK, Markets
<1>3. repay \in Nat
  <2>1. preciseMul(received, TradeFee) \in Int
    BY <1>0 DEF preciseMul
  <2> QED
    BY <1>1, <2>1 DEF afterTradeFee, CanRepay
<1>4. /\ MarketOK(withdrawn) /\ withdrawn.borrowShares = morpho.borrowShares
      /\ toSharesDown(withdrawn, repay) = shares
  <2> HIDE DEF send, repay
  <2>1. MarketOK(withdrawn)
    BY <1>0, <1>2, CollateralMoves
  <2>2. /\ withdrawn.borrowShares = morpho.borrowShares
        /\ withdrawn.totalBorrowShares = morpho.totalBorrowShares
        /\ withdrawn.totalBorrowAssets = morpho.totalBorrowAssets
    BY <1>0 DEF WithdrawnCollateral, MarketOK, Markets
  <2> QED
    BY <2>1, <2>2, Zenon DEF toSharesDown
<1>5. shares \in Nat /\ shares <= withdrawn.borrowShares
  <2> HIDE DEF send, repay, withdrawn
  <2> QED
    BY <1>0, <1>1, <1>3, <1>4, SharesAreNat DEF CanRepay
<1> HIDE DEF repay, shares, withdrawn
<1>6. MarketOK(morpho')
  BY <1>1, <1>3, <1>4, <1>5, DebtMoves
<1>7. UnitsOK(externalUnit')
  BY <1>0, <1>1, <1>6, SyncedUnitsOK
<1> QED
  BY <1>1, <1>6, <1>7 DEF AccountingOK, DefaultPositionsBacked

\* The surplus of the last trade becomes a default position, rounded down and with
\* what was untracked before left out: it is covered by the tokens.
LEMMA SurplusIsBacked ==
  ASSUME NEW s \in Nat \ {0}, NEW unit \in Nat, NEW pre \in Nat, NEW post \in Nat,
         post >= pre, preciseMulCeil(s, unit) <= pre
  PROVE  LET new == preciseDiv(post - (pre - preciseMul(unit, s)), s)
         IN  new \in Nat /\ preciseMulCeil(s, new) <= post
<1> DEFINE tracked == preciseMul(unit, s)
           x == post - (pre - tracked)
           new == preciseDiv(x, s)
<1>0. PRECISE_UNIT \in Nat \ {0}
  BY PreciseUnitAssumption
<1>1. tracked \in Nat /\ tracked <= pre
  <2>1. preciseMulCeil(s, unit) \in Nat
    BY PreciseMulCeilRoundsUp
  <2>2. tracked = preciseMul(s, unit)
    BY DEF preciseMul
  <2>3. preciseMul(s, unit) <= preciseMulCeil(s, unit) /\ preciseMul(s, unit) \in Nat
    BY PreciseMulIsMonotone, PreciseMulRoundsDown
  <2> QED
    BY <2>1, <2>2, <2>3
<1> HIDE DEF tracked
<1>2. x \in Nat /\ x <= post
  BY <1>1
<1> HIDE DEF x
<1>3. new \in Nat /\ s * new <= x * PRECISE_UNIT
  BY <1>2, PreciseDivRoundsDown
<1> HIDE DEF new
<1>4. s * new <= PRECISE_UNIT * x
  BY <1>0, <1>2, <1>3
<1>5. preciseMulCeil(s, new) <= x /\ preciseMulCeil(s, new) \in Nat
  BY <1>2, <1>3, <1>4, PreciseMulCeilIsLeast, PreciseMulCeilRoundsUp
<1>6. new \in Nat /\ preciseMulCeil(s, new) <= post
  BY <1>2, <1>3, <1>5
<1> QED
  BY <1>6 DEF new, x, tracked

LEMMA DeleverToZeroStep ==
  ASSUME AccountingOK, price \in Prices, NEW u \in TradeUnits, NEW received \in Int,
         deleverToZeroBorrowBalance(u, received)
  PROVE  AccountingOK'
<1> DEFINE send == preciseMul(u, supply)
           debt == borrowBalance(morpho)
           pre == balance["loanToken"]
           post == pre + received - debt
           withdrawn == WithdrawnCollateral(morpho, send)
           unit == defaultUnit["loanToken"]
           new == calculateDefaultEditPositionUnit(pre, post, unit)
<1>0. /\ u \in Nat /\ supply \in Nat /\ MarketOK(morpho) /\ PRECISE_UNIT \in Nat \ {0}
      /\ "loanToken" \in Components /\ unit \in Nat /\ pre \in Nat
      /\ defaultUnit \in [Components -> Nat] /\ balance \in [Components -> Nat]
      /\ morpho.borrowShares \in Nat
  BY LeveragedSetAssumption, PreciseUnitAssumption
     DEF AccountingOK, Components, MarketOK, Markets
<1>1. /\ CanWithdraw(morpho, send) /\ received >= debt
      /\ morpho' = Repaid(withdrawn, debt, morpho.borrowShares)
      /\ balance' = [balance EXCEPT !["loanToken"] = post]
      /\ defaultUnit' = IF post = pre THEN defaultUnit
                        ELSE [defaultUnit EXCEPT !["loanToken"] = new]
      /\ externalUnit' = syncedUnits(supply, morpho')
      /\ supply' = supply
  BY Zenon DEF deleverToZeroBorrowBalance, enoughReceived
<1>2. send \in Nat /\ send <= morpho.collateral /\ supply # 0
  <2>1. send \in 1 .. morpho.collateral /\ morpho.collateral \in Nat
    BY <1>0, <1>1 DEF CanWithdraw, MarketOK, Markets
  <2>2. send \in Nat /\ PRECISE_UNIT * send <= u * supply
    BY <1>0, PreciseMulRoundsDown
  <2> HIDE DEF send
  <2>3. supply # 0
    <3>1. PRECISE_UNIT * send \in Nat \ {0}
      BY <1>0, <2>1
    <3> QED
      BY <1>0, <2>2, <3>1
  <2> QED
    BY <2>1, <2>2, <2>3
<1>3. debt \in Nat
  BY <1>0, SharesAreNat
<1>4. post \in Nat /\ post >= pre
  <2> HIDE DEF debt, pre
  <2> QED
    BY <1>0, <1>1, <1>3
<1>5. MarketOK(morpho')
  <2> HIDE DEF send, debt
  <2>1. MarketOK(withdrawn) /\ withdrawn.borrowShares = morpho.borrowShares
    BY <1>0, <1>2, CollateralMoves DEF WithdrawnCollateral, MarketOK, Markets
  <2>2. morpho.borrowShares <= withdrawn.borrowShares
    BY <1>0, <2>1
  <2> QED
    BY <1>0, <1>1, <1>3, <2>1, <2>2, DebtMoves
<1>6. UnitsOK(externalUnit')
  BY <1>0, <1>1, <1>5, SyncedUnitsOK
<1>7. new \in Nat /\ preciseMulCeil(supply, new) <= post
      /\ preciseMulCeil(supply, unit) <= pre
  <2>1. preciseMulCeil(supply, unit) <= pre
    BY <1>0 DEF AccountingOK, DefaultPositionsBacked
  <2> HIDE DEF pre, post, unit
  <2> QED
    BY <1>0, <1>2, <1>4, <2>1, SurplusIsBacked DEF calculateDefaultEditPositionUnit
<1> HIDE DEF post, new
<1>8. balance' \in [Components -> Nat] /\ defaultUnit' \in [Components -> Nat]
  BY <1>0, <1>1, <1>4, <1>7
<1>9. DefaultPositionsBacked'
  <2>1. ASSUME NEW c \in Components PROVE preciseMulCeil(supply, defaultUnit'[c]) <= balance'[c]
    <3>1. CASE c # "loanToken"
      <4>1. balance'[c] = balance[c] /\ defaultUnit'[c] = defaultUnit[c]
        BY <1>0, <1>1, <3>1
      <4> QED
        BY <4>1 DEF AccountingOK, DefaultPositionsBacked
    <3>2. CASE c = "loanToken"
      <4>1. balance'[c] = post
        BY <1>0, <1>1, <3>2
      <4>2. CASE post = pre
        BY <1>1, <1>7, <3>2, <4>1, <4>2
      <4>3. CASE post # pre
        BY <1>0, <1>1, <1>7, <3>2, <4>1, <4>3
      <4> QED
        BY <4>2, <4>3
    <3> QED
      BY <3>1, <3>2
  <2> QED
    BY <1>1, <2>1 DEF DefaultPositionsBacked
<1> QED
  BY <1>0, <1>1, <1>5, <1>6, <1>8, <1>9 DEF AccountingOK

LEMMA HookUnitsOK ==
  ASSUME AccountingOK, NEW m \in IssuanceModules
  PROVE  UnitsOK(unitsAfterModuleHook(m))
BY SyncedUnitsOK DEF AccountingOK, unitsAfterModuleHook

\* The equity unit of the collateral is its default unit and the one on Morpho;
\* the loan token has no equity on Morpho.
LEMMA EquityUnits ==
  ASSUME AccountingOK, NEW units, UnitsOK(units)
  PROVE  /\ equityUnit(units, "collateralToken")
              = defaultUnit["collateralToken"] + units["collateralToken"]
         /\ equityUnit(units, "loanToken") = defaultUnit["loanToken"]
         /\ \A c \in Components : equityUnit(units, c) \in Nat
         /\ debtUnit(units, "loanToken") \in Nat
BY DEF AccountingOK, UnitsOK, equityUnit, debtUnit, Components

\* An issuer pays in enough for the default position and for the deposit on Morpho
\* together: rounding the one up and the other down never takes from the others.
LEMMA DepositLeavesEnough ==
  ASSUME NEW s \in Nat, NEW t \in Nat, NEW d \in Nat, NEW e \in Nat, NEW held \in Nat,
         held >= preciseMulCeil(s, d) + preciseMulCeil(d + e, t)
  PROVE  /\ held - preciseMul(e, t) \in Nat
         /\ preciseMulCeil(s + t, d) <= held - preciseMul(e, t)
<1> DEFINE U == PRECISE_UNIT
           a == preciseMulCeil(s, d)
           b == preciseMulCeil(d + e, t)
           f == preciseMul(e, t)
           x == held - f
<1>0. U \in Nat \ {0}
  BY PreciseUnitAssumption
<1>1. a \in Nat /\ s * d <= U * a
  BY PreciseMulCeilRoundsUp
<1>2. b \in Nat /\ (d + e) * t <= U * b
  <2>1. d + e \in Nat
    OBVIOUS
  <2> QED
    BY <2>1, PreciseMulCeilRoundsUp
<1>3. f \in Nat /\ U * f <= e * t
  BY PreciseMulRoundsDown
<1>4. held >= a + b
  OBVIOUS
<1>5. f <= b
  <2> HIDE DEF U, b, f
  <2>1. (d + e) * t = d * t + e * t
    OBVIOUS
  <2>2. d * t \in Nat /\ e * t \in Nat /\ U * b \in Nat /\ U * f \in Nat
    BY <1>0, <1>2, <1>3, ProductIsNat
  <2>3. U * f <= U * b
    BY <1>2, <1>3, <2>1, <2>2
  <2> QED
    BY <1>0, <1>2, <1>3, <2>3, CancelFactor
<1>6. x \in Nat /\ a + b - f <= x
  <2> HIDE DEF a, b, f
  <2> QED
    BY <1>1, <1>2, <1>3, <1>4, <1>5
<1>7. (s + t) * d <= U * x
  <2> HIDE DEF a, b, f, x, U
  <2>1. (s + t) * d = s * d + d * t /\ (d + e) * t = d * t + e * t
    OBVIOUS
  <2>2. U * (a + b - f) = U * a + U * b - U * f
    BY <1>0, <1>1, <1>2, <1>3
  <2>3. /\ s * d \in Nat /\ d * t \in Nat /\ e * t \in Nat
        /\ U * a \in Nat /\ U * b \in Nat /\ U * f \in Nat
    BY <1>0, <1>1, <1>2, <1>3, ProductIsNat
  <2>4. U * (a + b - f) <= U * x /\ U * x \in Nat
    BY <1>0, <1>1, <1>2, <1>3, <1>5, <1>6, ProductIsNat, ProductIsMonotone
  <2> QED
    BY <1>1, <1>2, <1>3, <2>1, <2>2, <2>3, <2>4
<1>8. preciseMulCeil(s + t, d) <= x
  <2> HIDE DEF x
  <2> QED
    BY <1>6, <1>7, PreciseMulCeilIsLeast
<1> QED
  BY <1>6, <1>8

\* With no equity to pay in, there is no default position.
LEMMA NoEquityNoDefault ==
  ASSUME NEW d \in Nat, NEW e \in Nat, NEW t \in Nat \ {0}, preciseMulCeil(d + e, t) = 0
  PROVE  d = 0 /\ e = 0
<1>1. (d + e) * t <= PRECISE_UNIT * 0
  <2>1. d + e \in Nat /\ t \in Nat
    OBVIOUS
  <2> QED
    BY <2>1, PreciseMulCeilRoundsUp
<1>2. (d + e) * t = d * t + e * t /\ d * t \in Nat /\ e * t \in Nat
  BY ProductIsNat
<1>3. d * t = 0 /\ e * t = 0
  BY <1>1, <1>2, PreciseUnitAssumption
<1> QED
  BY <1>3

LEMMA IssueStep ==
  ASSUME AccountingOK, NEW m \in IssuanceModules, NEW q \in Quantities, issue(m, q)
  PROVE  AccountingOK'
<1> DEFINE t == quantityWithFees(q)
           units == unitsAfterModuleHook(m)
           equityIn(c) == requiredIn(equityUnit(units, c), t)
           deposit == IF EquityHookActs(units)
                        THEN preciseMul(units["collateralToken"], t) ELSE 0
           debtOut == requiredOut(debtUnit(units, "loanToken"), t)
           deposited == SuppliedCollateral(morpho, deposit)
           held == [c \in Components |-> balance[c] + equityTransferIn(equityIn(c))]
<1>0. /\ q \in Nat \ {0} /\ supply \in Nat /\ MarketOK(morpho) /\ PRECISE_UNIT \in Nat \ {0}
      /\ defaultUnit \in [Components -> Nat] /\ balance \in [Components -> Nat]
      /\ ManagerIssueFee \in Nat /\ TransferBuffer \in Nat
      /\ Components = {"collateralToken", "loanToken"}
  BY LeveragedSetAssumption, PreciseUnitAssumption DEF AccountingOK, Components
<1>1. /\ \A c \in Components : equityIn(c) > 0 =>
           validateCollateralizationPostTransferInPreHook(c, held[c], supply, equityIn(c))
      /\ morpho' = IF debtOut > 0 THEN Borrowed(deposited, debtOut) ELSE deposited
      /\ balance' = [held EXCEPT !["collateralToken"] = @ - deposit]
      /\ externalUnit' = units /\ supply' = supply + t /\ defaultUnit' = defaultUnit
  BY Zenon DEF issue
<1>2. t \in Nat \ {0}
  <2>1. preciseMul(ManagerIssueFee, q) \in Nat
    BY <1>0, PreciseMulRoundsDown
  <2> QED
    BY <1>0, <2>1 DEF quantityWithFees
<1>3. UnitsOK(units)
  BY HookUnitsOK
<1> HIDE DEF t, units
<1>4. /\ equityUnit(units, "collateralToken")
           = defaultUnit["collateralToken"] + units["collateralToken"]
      /\ equityUnit(units, "loanToken") = defaultUnit["loanToken"]
      /\ \A c \in Components : equityUnit(units, c) \in Nat
      /\ debtUnit(units, "loanToken") \in Nat
  BY <1>3, EquityUnits
<1>5. units["collateralToken"] \in Nat /\ deposit \in Nat /\ debtOut \in Nat
  BY <1>2, <1>3, <1>4, PreciseMulRoundsDown DEF UnitsOK, requiredOut
<1>6. ASSUME NEW c \in Components PROVE equityIn(c) \in Nat
  BY <1>2, <1>4, PreciseMulCeilRoundsUp DEF requiredIn
<1>7. ASSUME NEW c \in Components
      PROVE  held[c] \in Nat /\ held[c] >= equityIn(c)
             /\ (equityIn(c) > 0 =>
                   held[c] >= preciseMulCeil(supply, defaultUnit[c]) + equityIn(c))
  <2> HIDE DEF equityIn
  <2> QED
    BY <1>0, <1>1, <1>6
       DEF equityTransferIn, validateCollateralizationPostTransferInPreHook
<1>8. MarketOK(morpho')
  <2> HIDE DEF deposit, debtOut
  <2>1. MarketOK(deposited)
    BY <1>0, <1>5, CollateralMoves
  <2> QED
    BY <1>1, <1>5, <2>1, DebtMoves
<1> HIDE DEF debtOut, deposited, held
<1>9. DOMAIN held = Components /\ held = [c \in Components |-> held[c]]
  BY DEF held
<1>10. /\ balance'["loanToken"] = held["loanToken"]
       /\ balance'["collateralToken"] = held["collateralToken"] - deposit
       /\ balance' = [c \in Components |-> balance'[c]]
  <2> HIDE DEF deposit
  <2> QED
    BY <1>0, <1>1, <1>9
<1>11. /\ balance'["loanToken"] \in Nat
       /\ preciseMulCeil(supply + t, defaultUnit["loanToken"]) <= balance'["loanToken"]
  <2> DEFINE d == defaultUnit["loanToken"]
  <2>1. d \in Nat /\ held["loanToken"] \in Nat /\ equityIn("loanToken") \in Nat
    BY <1>0, <1>6, <1>7
  <2>2. equityIn("loanToken") = preciseMulCeil(d + 0, t)
    BY <1>4, <2>1 DEF requiredIn
  <2> HIDE DEF equityIn, d
  <2>3. CASE equityIn("loanToken") > 0
    <3>1. held["loanToken"] >= preciseMulCeil(supply, d) + preciseMulCeil(d + 0, t)
      BY <1>0, <1>7, <2>2, <2>3 DEF d
    <3>2. preciseMul(0, t) = 0
      BY <1>0, <1>2 DEF preciseMul
    <3>3. preciseMulCeil(supply + t, d) <= held["loanToken"] - preciseMul(0, t)
      BY <1>0, <1>2, <2>1, <3>1, DepositLeavesEnough
    <3> QED
      BY <1>10, <2>1, <3>2, <3>3 DEF d
  <2>4. CASE equityIn("loanToken") = 0
    <3>1. d = 0
      BY <1>2, <2>1, <2>2, <2>4, NoEquityNoDefault
    <3>2. preciseMulCeil(supply + t, 0) = 0
      BY DEF preciseMulCeil
    <3> QED
      BY <1>10, <2>1, <3>1, <3>2 DEF d
  <2> QED
    BY <2>1, <2>3, <2>4
<1>12. /\ balance'["collateralToken"] \in Nat
       /\ preciseMulCeil(supply + t, defaultUnit["collateralToken"])
            <= balance'["collateralToken"]
  <2> DEFINE c == "collateralToken"
             d == defaultUnit[c]
             e == units[c]
             f == preciseMul(e, t)
  <2>1. c \in Components /\ d \in Nat /\ e \in Nat /\ held[c] \in Nat /\ equityIn(c) \in Nat
    BY <1>0, <1>5, <1>6, <1>7
  <2>2. equityIn(c) = preciseMulCeil(d + e, t)
    BY <1>4 DEF requiredIn
  <2>3. f \in Nat /\ (deposit = f \/ deposit = 0)
    BY <1>2, <2>1, PreciseMulRoundsDown
  <2> HIDE DEF equityIn, d, e, f, deposit, c
  <2>4. CASE equityIn(c) > 0
    <3>1. held[c] >= preciseMulCeil(supply, d) + preciseMulCeil(d + e, t)
      BY <1>7, <2>1, <2>2, <2>4 DEF d
    <3>2. held[c] - f \in Nat /\ preciseMulCeil(supply + t, d) <= held[c] - f
      BY <1>0, <1>2, <2>1, <3>1, DepositLeavesEnough DEF f
    <3>3. preciseMulCeil(supply + t, d) \in Nat
      <4>1. supply + t \in Nat
        BY <1>0, <1>2
      <4> QED
        BY <2>1, <4>1, PreciseMulCeilRoundsUp
    <3>4. held[c] - deposit \in Nat /\ preciseMulCeil(supply + t, d) <= held[c] - deposit
      BY <2>1, <2>3, <3>2, <3>3
    <3> QED
      BY <1>10, <3>4 DEF c, d
  <2>5. CASE equityIn(c) = 0
    <3>1. d = 0 /\ e = 0
      BY <1>2, <2>1, <2>2, <2>5, NoEquityNoDefault
    <3>2. preciseMulCeil(supply + t, 0) = 0
      BY DEF preciseMulCeil
    <3>3. f = 0
      BY <1>0, <1>2, <3>1 DEF f, preciseMul
    <3> QED
      BY <1>10, <2>1, <2>3, <3>1, <3>2, <3>3 DEF c, d
  <2> QED
    BY <2>1, <2>4, <2>5
<1>13. balance' \in [Components -> Nat]
  BY <1>0, <1>10, <1>11, <1>12
<1>14. DefaultPositionsBacked'
  BY <1>0, <1>1, <1>11, <1>12 DEF DefaultPositionsBacked
<1> QED
  BY <1>0, <1>1, <1>2, <1>3, <1>8, <1>13, <1>14 DEF AccountingOK

\* What a redemption leaves of a component: the check after the transfer covers it,
\* and where nothing is transferred nothing has left.
LEMMA RedeemStep ==
  ASSUME AccountingOK, NEW m \in IssuanceModules, NEW q \in Quantities, redeem(m, q)
  PROVE  AccountingOK'
<1> DEFINE net == quantityNetFees(q)
           units == unitsAfterModuleHook(m)
           debt == debtUnit(units, "loanToken")
           debtIn == requiredIn(debt, net)
           repay == preciseMul(debt, net)
           shares == toSharesDown(morpho, repay)
           repaid == IF debtIn > 0 THEN Repaid(morpho, repay, shares) ELSE morpho
           equityOut(c) == requiredOut(equityUnit(units, c), net)
           withdraws == EquityHookActs(units) /\ equityOut("collateralToken") > 0
           withdrawal == IF withdraws
                           THEN preciseMul(units["collateralToken"], net) ELSE 0
           paid(c) == IF c = "loanToken" THEN balance[c] + debtIn ELSE balance[c] + withdrawal
           out(c) == IF c = "loanToken" THEN repay ELSE 0
           received == [c \in Components |->
                          IF c = "loanToken" THEN balance[c] + debtIn
                          ELSE balance[c] + withdrawal]
           sent == [c \in Components |-> equityTransferOut(equityOut(c))]
           held == [c \in Components |->
                      received[c] - sent[c] - (IF c = "loanToken" THEN repay ELSE 0)]
           left == supply - net
<1>0. /\ q \in Nat \ {0} /\ supply \in Nat /\ MarketOK(morpho) /\ PRECISE_UNIT \in Nat \ {0}
      /\ defaultUnit \in [Components -> Nat] /\ balance \in [Components -> Nat]
      /\ ManagerRedeemFee \in Nat /\ ManagerRedeemFee <= PRECISE_UNIT
      /\ TransferBuffer \in Nat /\ Components = {"collateralToken", "loanToken"}
  BY LeveragedSetAssumption, PreciseUnitAssumption DEF AccountingOK, Components
<1>1. /\ q <= supply
      /\ DebtCanBeRepaid(debtIn, repay, received["loanToken"])
      /\ withdraws => CanWithdraw(repaid, withdrawal)
      /\ \A c \in Components : equityOut(c) > 0 =>
           /\ sent[c] \in 0 .. received[c]
           /\ validateCollateralizationPostTransferOut(c, held[c], left)
      /\ morpho' = WithdrawnCollateral(repaid, withdrawal)
      /\ balance' = held
      /\ externalUnit' = units /\ supply' = left /\ defaultUnit' = defaultUnit
  BY Zenon DEF redeem
<1>2. net \in Nat /\ net <= q /\ left \in Nat /\ left <= supply
  <2>1. preciseMul(ManagerRedeemFee, q) \in Nat /\ preciseMul(ManagerRedeemFee, q) <= q
    BY <1>0, PreciseMulRoundsDown, PreciseMulOfPart
  <2> QED
    BY <1>0, <1>1, <2>1 DEF quantityNetFees
<1>3. UnitsOK(units)
  BY HookUnitsOK
<1> HIDE DEF net, units, left
<1>4. /\ \A c \in Components : equityUnit(units, c) \in Nat
      /\ debt \in Nat /\ units["collateralToken"] \in Nat
  BY <1>3, EquityUnits DEF UnitsOK
<1> HIDE DEF debt
<1>5. debtIn \in Nat /\ repay \in Nat /\ repay <= debtIn
  <2>1. debt <= debt
    BY <1>4
  <2>2. preciseMul(debt, net) <= preciseMulCeil(debt, net)
    BY <1>2, <1>4, <2>1, PreciseMulIsMonotone
  <2> QED
    BY <1>2, <1>4, <2>2, PreciseMulRoundsDown, PreciseMulCeilRoundsUp DEF requiredIn
<1>6. withdrawal \in Nat
  BY <1>2, <1>4, PreciseMulRoundsDown
<1>7. ASSUME NEW c \in Components PROVE equityOut(c) \in Nat
  BY <1>2, <1>4, PreciseMulRoundsDown DEF requiredOut
<1>8. shares \in Nat
  BY <1>0, <1>5, SharesAreNat
<1>9. debtIn > 0 => shares <= morpho.borrowShares
  BY <1>1, Zenon DEF DebtCanBeRepaid, CanRepay
<1> HIDE DEF debtIn, repay, shares, withdrawal, equityOut
<1>10. MarketOK(repaid)
  BY <1>0, <1>5, <1>8, <1>9, DebtMoves
<1>11. withdrawal <= repaid.collateral
  <2>1. repaid.collateral \in Nat
    BY <1>10 DEF MarketOK, Markets
  <2>2. CASE withdraws
    <3>1. withdrawal \in 1 .. repaid.collateral
      BY <1>1, <2>2 DEF CanWithdraw
    <3> HIDE DEF repaid
    <3> QED
      BY <2>1, <3>1
  <2>3. CASE ~ withdraws
    <3>1. withdrawal = 0
      BY <2>3 DEF withdrawal
    <3> HIDE DEF repaid
    <3> QED
      BY <2>1, <3>1
  <2> QED
    BY <2>2, <2>3
<1> HIDE DEF repaid
<1>12. MarketOK(morpho')
  BY <1>1, <1>6, <1>10, <1>11, CollateralMoves
<1>13. ASSUME NEW c \in Components
       PROVE  held[c] \in Nat /\ preciseMulCeil(left, defaultUnit[c]) <= held[c]
  <2> DEFINE need == preciseMulCeil(left, defaultUnit[c])
             had == preciseMulCeil(supply, defaultUnit[c])
             eq == equityOut(c)
  <2>1. need \in Nat /\ had \in Nat /\ need <= had /\ had <= balance[c]
    BY <1>0, <1>2, PreciseMulCeilRoundsUp, PreciseMulIsMonotone
       DEF AccountingOK, DefaultPositionsBacked
  <2>2. balance[c] \in Nat /\ eq \in Nat
    BY <1>0, <1>7
  <2>3. held[c] = paid(c) - equityTransferOut(eq) - out(c)
    BY <1>0
  <2>4. paid(c) \in Nat /\ out(c) \in Nat /\ paid(c) - out(c) >= balance[c]
    BY <1>5, <1>6, <2>2
  <2>5. equityTransferOut(eq) \in Int /\ (eq = 0 => equityTransferOut(eq) = 0)
    BY <1>0, <2>2 DEF equityTransferOut
  <2>6. eq > 0 => held[c] >= need
    BY <1>1 DEF validateCollateralizationPostTransferOut
  <2> HIDE DEF need, had, eq, paid, out, held
  <2> QED
    BY <2>1, <2>2, <2>3, <2>4, <2>5, <2>6 DEF need
<1>14. balance' \in [Components -> Nat]
  <2>1. held = [c \in Components |-> held[c]]
    OBVIOUS
  <2> HIDE DEF held
  <2> QED
    BY <1>1, <1>13, <2>1
<1>15. DefaultPositionsBacked'
  <2> HIDE DEF held
  <2> QED
    BY <1>1, <1>13 DEF DefaultPositionsBacked
<1> HIDE DEF held
<1> QED
  BY <1>0, <1>1, <1>2, <1>3, <1>12, <1>14, <1>15 DEF AccountingOK

\* The trades of the manager, at the oracle's price and what the DEX adds to it.
LEMMA TradeStep ==
  ASSUME AccountingOK, price \in Prices, Trade
  PROVE  AccountingOK'
<1>1. PICK u \in TradeUnits, r \in Received :
        LET sold == preciseMul(u, supply)
        IN  \/ lever(u, (sold * PRICE_SCALE) \div price + r)
            \/ delever(u, (sold * price) \div PRICE_SCALE + r)
            \/ deleverToZeroBorrowBalance(u, (sold * price) \div PRICE_SCALE + r)
  BY Zenon DEF Trade
<1> DEFINE sold == preciseMul(u, supply)
           bought == (sold * PRICE_SCALE) \div price + r
           freed == (sold * price) \div PRICE_SCALE + r
<1>2. lever(u, bought) \/ delever(u, freed) \/ deleverToZeroBorrowBalance(u, freed)
  BY <1>1, Zenon
<1>3. sold \in Nat
  BY LeveragedSetAssumption, PreciseMulRoundsDown DEF AccountingOK
<1> HIDE DEF sold
<1>4. price \in Nat \ {0} /\ PRICE_SCALE \in Nat \ {0} /\ r \in Int
  BY LeveragedSetAssumption
<1>5. sold * PRICE_SCALE \in Nat /\ sold * price \in Nat
  BY <1>3, <1>4, ProductIsNat
<1>6. (sold * PRICE_SCALE) \div price \in Nat /\ (sold * price) \div PRICE_SCALE \in Nat
  BY <1>4, <1>5, DivRoundsDown
<1>7. bought \in Int /\ freed \in Int
  BY <1>4, <1>6
<1> HIDE DEF bought, freed
<1> QED
  BY <1>2, <1>7, LeverStep, DeleverStep, DeleverToZeroStep

LEMMA IssuanceStep ==
  ASSUME AccountingOK, Issuance
  PROVE  AccountingOK'
<1>1. PICK m \in IssuanceModules, q \in Quantities : issue(m, q) \/ redeem(m, q)
  BY Zenon DEF Issuance
<1> QED
  BY <1>1, IssueStep, RedeemStep

LEMMA EnvironmentStep ==
  ASSUME AccountingOK, price \in Prices, Environment
  PROVE  AccountingOK' /\ price' \in Prices
<1>1. ASSUME NEW amount \in InterestAmounts, AccrueInterest(amount)
      PROVE  AccountingOK' /\ price' \in Prices
  <2>1. amount \in Nat
    BY LeveragedSetAssumption
  <2>2. MarketOK(morpho')
    BY <1>1, <2>1 DEF AccountingOK, AccrueInterest, MarketOK, Markets
  <2> QED
    BY <1>1, <2>2 DEF AccrueInterest, AccountingOK, DefaultPositionsBacked
<1>2. ASSUME NEW p \in Prices, PriceMove(p)
      PROVE  AccountingOK' /\ price' \in Prices
  BY <1>2 DEF PriceMove, accounting, AccountingOK, DefaultPositionsBacked
<1>3. ASSUME NEW c \in Components, NEW amount \in Donations, Donate(c, amount)
      PROVE  AccountingOK' /\ price' \in Prices
  <2>1. amount \in Nat /\ supply \in Nat /\ balance \in [Components -> Nat]
        /\ defaultUnit \in [Components -> Nat]
        /\ balance' = [balance EXCEPT ![c] = @ + amount]
        /\ UNCHANGED <<supply, defaultUnit, externalUnit, morpho, price>>
    BY <1>3, LeveragedSetAssumption DEF Donate, AccountingOK
  <2>2. balance' \in [Components -> Nat]
    BY <2>1
  <2>3. ASSUME NEW x \in Components
        PROVE  preciseMulCeil(supply, defaultUnit[x]) <= balance'[x]
    <3>1. preciseMulCeil(supply, defaultUnit[x]) \in Nat
      BY <2>1, PreciseMulCeilRoundsUp
    <3>2. preciseMulCeil(supply, defaultUnit[x]) <= balance[x]
      BY DEF AccountingOK, DefaultPositionsBacked
    <3>3. balance'[x] \in Nat /\ balance[x] \in Nat /\ balance[x] <= balance'[x]
      BY <2>1
    <3> QED
      BY <3>1, <3>2, <3>3
  <2>4. DefaultPositionsBacked'
    BY <2>1, <2>3 DEF DefaultPositionsBacked
  <2> QED
    BY <2>1, <2>2, <2>4 DEF AccountingOK
<1> QED
  BY <1>1, <1>2, <1>3, Zenon DEF Environment

\* The deposit takes every collateral token and the default position with it.
LEMMA EnterStep ==
  ASSUME AccountingOK, enterCollateralPosition
  PROVE  AccountingOK'
<1>1. /\ morpho' = SuppliedCollateral(morpho, balance["collateralToken"])
      /\ balance' = [balance EXCEPT !["collateralToken"] = 0]
      /\ defaultUnit' = [defaultUnit EXCEPT !["collateralToken"] = 0]
      /\ externalUnit' = syncedUnits(supply, morpho') /\ supply' = supply
  BY Zenon DEF enterCollateralPosition
<1>2. /\ supply \in Nat /\ MarketOK(morpho) /\ balance["collateralToken"] \in Nat
      /\ defaultUnit \in [Components -> Nat] /\ balance \in [Components -> Nat]
  BY DEF AccountingOK, Components
<1>3. MarketOK(morpho')
  BY <1>1, <1>2, CollateralMoves
<1>4. UnitsOK(externalUnit')
  BY <1>1, <1>2, <1>3, SyncedUnitsOK
<1>5. balance' \in [Components -> Nat] /\ defaultUnit' \in [Components -> Nat]
  BY <1>1, <1>2
<1>6. ASSUME NEW c \in Components PROVE preciseMulCeil(supply, defaultUnit'[c]) <= balance'[c]
  <2>1. CASE c = "collateralToken"
    BY <1>1, <1>2, <2>1 DEF preciseMulCeil
  <2>2. CASE c # "collateralToken"
    <3>1. balance'[c] = balance[c] /\ defaultUnit'[c] = defaultUnit[c]
      BY <1>1, <1>2, <2>2
    <3> QED
      BY <3>1 DEF AccountingOK, DefaultPositionsBacked
  <2> QED
    BY <2>1, <2>2
<1>7. DefaultPositionsBacked'
  BY <1>1, <1>6 DEF DefaultPositionsBacked
<1> QED
  BY <1>1, <1>2, <1>3, <1>4, <1>5, <1>7 DEF AccountingOK

\* Where only the modules change, at most the external units are synced.
LEMMA SyncStep ==
  ASSUME AccountingOK,
         \/ UNCHANGED <<supply, defaultUnit, externalUnit, balance, morpho>>
         \/ /\ externalUnit' = syncedUnits(supply, morpho)
            /\ UNCHANGED <<supply, defaultUnit, balance, morpho>>
  PROVE  AccountingOK'
<1>1. UnitsOK(externalUnit')
  BY SyncedUnitsOK DEF AccountingOK
<1> QED
  BY <1>1 DEF AccountingOK, DefaultPositionsBacked

LEMMA ModuleCallsSync ==
  ASSUME SetUp \/ Manage \/ sync
  PROVE  /\ \/ UNCHANGED <<supply, defaultUnit, externalUnit, balance, morpho>>
            \/ /\ externalUnit' = syncedUnits(supply, morpho)
               /\ UNCHANGED <<supply, defaultUnit, balance, morpho>>
         /\ price' = price
<1>1. CASE SetUp
  BY <1>1, Zenon DEF SetUp, initialize, initializeIssuance, accounting
<1>2. CASE Manage
  <2>1. CASE removeModule
    BY <2>1, Zenon DEF removeModule
  <2>2. CASE \E x \in Modules : addModule(x) \/ removePendingModule(x)
    BY <2>2, Zenon DEF addModule, removePendingModule, accounting
  <2>3. CASE \E m \in IssuanceModules : registerToModule(m) \/ removeIssuance(m)
    BY <2>3, Zenon DEF registerToModule, removeIssuance, accounting
  <2> QED
    BY <1>2, <2>1, <2>2, <2>3, Zenon DEF Manage
<1>3. CASE sync
  BY <1>3, Zenon DEF sync
<1> QED
  BY <1>1, <1>2, <1>3

LEMMA PriceUntouched ==
  ASSUME Issuance \/ Trade \/ enterCollateralPosition
  PROVE  price' = price
<1>1. CASE Issuance
  <2>1. PICK m \in IssuanceModules, q \in Quantities : issue(m, q) \/ redeem(m, q)
    BY <1>1, Zenon DEF Issuance
  <2>2. issue(m, q) => price' = price
    BY Zenon DEF issue
  <2>3. redeem(m, q) => price' = price
    BY Zenon DEF redeem
  <2> QED
    BY <2>1, <2>2, <2>3
<1>2. CASE Trade
  BY <1>2, Zenon DEF Trade, lever, delever, deleverToZeroBorrowBalance
<1>3. CASE enterCollateralPosition
  BY <1>3, Zenon DEF enterCollateralPosition
<1> QED
  BY <1>1, <1>2, <1>3

(***************************************************************************)
(* The theorems.                                                           *)
(***************************************************************************)
\* The inductive invariant.  TypeOK alone is not inductive: that a repayment leaves
\* the market's total shares non-negative needs MarketOK, and that a balance stays
\* non-negative after a deposit needs the backing of the default positions.
LeveragedSetInv ==
  /\ AccountingOK
  /\ price \in Prices /\ events \in 0 .. MaxEvents
  /\ ModulesInv

LEMMA InvInitially == Init => LeveragedSetInv
<1> SUFFICES ASSUME Init PROVE LeveragedSetInv
  OBVIOUS
<1>1. ModulesInv
  BY LeveragedSetAssumption
     DEF Init, ModulesInv, ModulesTypeOK, HooksAreLive, Modules
<1>2. MarketOK(morpho)
  BY LeveragedSetAssumption DEF Init, MarketOK, Markets
<1>3. /\ supply = 0 /\ defaultUnit \in [Components -> Nat] /\ balance \in [Components -> Nat]
      /\ UnitsOK(externalUnit) /\ \A c \in Components : balance[c] = 0
  BY LeveragedSetAssumption DEF Init, NoUnits, Components, UnitsOK
<1>4. DefaultPositionsBacked
  BY <1>3 DEF DefaultPositionsBacked, preciseMulCeil
<1>5. price \in Prices /\ events \in 0 .. MaxEvents
  BY LeveragedSetAssumption DEF Init
<1> QED
  BY <1>1, <1>2, <1>3, <1>4, <1>5 DEF LeveragedSetInv, AccountingOK

LEMMA InvPreserved == LeveragedSetInv /\ [Next]_vars => LeveragedSetInv'
<1> SUFFICES ASSUME LeveragedSetInv, [Next]_vars PROVE LeveragedSetInv'
  OBVIOUS
<1>0. AccountingOK /\ price \in Prices /\ events \in 0 .. MaxEvents /\ ModulesInv
      /\ MaxEvents \in Nat
  BY LeveragedSetAssumption DEF LeveragedSetInv
<1>1. CASE Event /\ (Issuance \/ Trade \/ Environment)
  <2>1. AccountingOK' /\ price' \in Prices
    BY <1>0, <1>1, IssuanceStep, TradeStep, EnvironmentStep, PriceUntouched
  <2>2. events' \in 0 .. MaxEvents
    BY <1>0, <1>1 DEF Event
  <2>3. ModulesInv'
    BY <1>0, <1>1, OthersKeepModules
       DEF ModulesInv, ModulesTypeOK, HooksAreLive, LeverageModuleReady
  <2> QED
    BY <2>1, <2>2, <2>3 DEF LeveragedSetInv
<1>2. CASE (SetUp \/ Manage \/ sync) /\ UNCHANGED events
  <2>1. AccountingOK' /\ price' \in Prices
    BY <1>0, <1>2, ModuleCallsSync, SyncStep
  <2>2. ModulesInv'
    BY <1>0, <1>2, ModuleStep, OthersKeepModules
       DEF ModulesInv, ModulesTypeOK, HooksAreLive, LeverageModuleReady
  <2> QED
    BY <1>0, <1>2, <2>1, <2>2 DEF LeveragedSetInv
<1>3. CASE enterCollateralPosition /\ UNCHANGED events
  <2>1. AccountingOK' /\ price' \in Prices
    BY <1>0, <1>3, EnterStep, PriceUntouched
  <2>2. ModulesInv'
    BY <1>0, <1>3, OthersKeepModules
       DEF ModulesInv, ModulesTypeOK, HooksAreLive, LeverageModuleReady
  <2> QED
    BY <1>0, <1>3, <2>1, <2>2 DEF LeveragedSetInv
<1>4. CASE UNCHANGED vars
  <2>1. AccountingOK'
    BY <1>0, <1>4, SyncStep DEF vars
  <2> QED
    BY <1>0, <1>4, <2>1 DEF vars, LeveragedSetInv, ModulesInv, ModulesTypeOK, HooksAreLive,
                            LeverageModuleReady
<1> QED
  BY <1>1, <1>2, <1>3, <1>4 DEF Next

\* Every variable keeps its type for every market, price and amount: in particular
\* no balance, no share count and no total of the market is ever asked to go below
\* zero, where SafeMath would revert.
THEOREM TypeCorrect == Spec => []TypeOK
<1>1. LeveragedSetInv => TypeOK
  BY DEF LeveragedSetInv, AccountingOK, UnitsOK, MarketOK, Markets, ModulesInv,
         ModulesTypeOK, TypeOK, Components
<1> QED
  BY <1>1, InvInitially, InvPreserved, PTL DEF Spec

\* The tokens in the SetToken always cover its default positions, whichever issuance
\* modules, fees, transfer buffer and trades are used: each rounding of issue(),
\* redeem() and of the surplus of deleverToZeroBorrowBalance() is on the safe side.
THEOREM DefaultsStayBacked == Spec => []DefaultPositionsBacked
<1>1. LeveragedSetInv => DefaultPositionsBacked
  BY DEF LeveragedSetInv, AccountingOK
<1> QED
  BY <1>1, InvInitially, InvPreserved, PTL DEF Spec

(***************************************************************************)
(* Issuance and redemption keep what the other holders of a leveraged      *)
(* SetToken have on Morpho, for every market, supply and amount.           *)
(*                                                                         *)
(* The argument: borrowing x adds at most x and the price of a share to    *)
(* the debt, repaying x removes at least x less that price (Morpho rounds  *)
(* shares, never the total); and the x that the modules compute from the   *)
(* synced unit is the quantity's share of the position up to a wei per     *)
(* SetToken.                                                               *)
(***************************************************************************)

(***************************************************************************)
(* Shares and assets of the market.                                        *)
(***************************************************************************)
LEMMA CeilDivRoundsUp ==
  ASSUME NEW a \in Nat, NEW b \in Nat \ {0}
  PROVE  ceilDiv(a, b) \in Nat /\ a <= b * ceilDiv(a, b) /\ b * ceilDiv(a, b) < a + b
<1> DEFINE z == a + b - 1
           d == z \div b
<1>1. z \in Nat
  OBVIOUS
<1> HIDE DEF z
<1>2. d \in Nat /\ d * b <= z /\ z < d * b + b
  BY <1>1, DivRoundsDown
<1> HIDE DEF d
<1>3. d * b = b * d /\ b * d \in Nat
  BY <1>2
<1>4. a <= b * d /\ b * d < a + b
  BY <1>2, <1>3 DEF z
<1> QED
  BY <1>2, <1>4 DEF ceilDiv, d, z

LEMMA CeilDivAtMost ==
  ASSUME NEW a \in Nat, NEW b \in Nat \ {0}, NEW y \in Int, a <= b * y
  PROVE  ceilDiv(a, b) <= y
<1> DEFINE c == ceilDiv(a, b)
<1>1. c \in Nat /\ b * c < a + b
  BY CeilDivRoundsUp
<1> HIDE DEF c
<1>2. b * c < b * (y + 1)
  <2>1. b * (y + 1) = b * y + b /\ b * y \in Int /\ b * c \in Int
    BY <1>1
  <2> QED
    BY <1>1, <2>1
<1>3. c < y + 1
  BY <1>1, <1>2, CancelFactor
<1> QED
  BY <1>1, <1>3 DEF c

\* Borrowing x: the debt grows by x and at most the price of one share, although
\* the shares are rounded up and the totals change.
LEMMA BorrowAdds ==
  ASSUME NEW b \in Nat, NEW T \in Nat \ {0}, NEW a \in Nat \ {0}, NEW x \in Nat
  PROVE  LET n == ceilDiv(x * T, a)
         IN  ceilDiv((b + n) * (a + x), T + n)
               <= ceilDiv(b * a, T) + x + ceilDiv(a, T)
<1> DEFINE n == ceilDiv(x * T, a)
           B == ceilDiv(b * a, T)
           p == ceilDiv(a, T)
<1>1. x * T \in Nat /\ b * a \in Nat
  BY ProductIsNat
<1>2. n \in Nat /\ x * T <= a * n /\ a * n < x * T + a
  BY <1>1, CeilDivRoundsUp
<1>3. B \in Nat /\ b * a <= T * B
  BY <1>1, CeilDivRoundsUp
<1>4. p \in Nat /\ a <= T * p
  BY CeilDivRoundsUp
<1> HIDE DEF n, B, p
<1>5. b * x <= B * n
  <2>1. b * (x * T) <= b * (a * n)
    BY <1>1, <1>2, ProductIsNat, ProductIsMonotone
  <2>2. (b * a) * n <= (T * B) * n
    BY <1>1, <1>2, <1>3, ProductIsNat, ProductIsMonotone
  <2>3. /\ b * (x * T) = T * (b * x) /\ b * (a * n) = (b * a) * n
        /\ (T * B) * n = T * (B * n)
    BY <1>2, <1>3
  <2>4. b * x \in Nat /\ B * n \in Nat
    BY <1>2, <1>3, ProductIsNat
  <2>5. /\ T * (b * x) \in Nat /\ T * (B * n) \in Nat /\ (b * a) * n \in Nat
    BY <1>1, <1>2, <2>4, ProductIsNat
  <2>6. T * (b * x) <= T * (B * n)
    BY <2>1, <2>2, <2>3, <2>5
  <2> QED
    BY <2>4, <2>6, CancelFactor
<1>6. (b + n) * (a + x) <= (T + n) * (B + x + p)
  <2>1. (b + n) * (a + x) = b * a + b * x + a * n + n * x
    BY <1>2
  <2>2. (T + n) * (B + x + p) = T * B + x * T + T * p + B * n + n * x + n * p
    BY <1>2, <1>3, <1>4
  <2>3. /\ b * x \in Nat /\ B * n \in Nat /\ n * x \in Nat /\ n * p \in Nat
        /\ T * B \in Nat /\ T * p \in Nat /\ a * n \in Nat
    BY <1>2, <1>3, <1>4, ProductIsNat
  <2> QED
    BY <1>1, <1>2, <1>3, <1>4, <1>5, <2>1, <2>2, <2>3
<1>7. (b + n) * (a + x) \in Nat /\ T + n \in Nat \ {0} /\ B + x + p \in Int
  <2>1. b + n \in Nat /\ a + x \in Nat
    BY <1>2
  <2> QED
    BY <1>2, <1>3, <1>4, <2>1, ProductIsNat
<1>8. ceilDiv((b + n) * (a + x), T + n) <= B + x + p
  BY <1>6, <1>7, CeilDivAtMost
<1> QED
  BY <1>8 DEF n, B, p

\* Repaying x: the debt falls by x less at most the price of one share.
LEMMA RepayRemoves ==
  ASSUME NEW b \in Nat, NEW T \in Nat \ {0}, NEW a \in Nat \ {0}, NEW x \in Nat, x < a,
         (x * T) \div a <= b, b < T
  PROVE  LET n == (x * T) \div a
         IN  ceilDiv((b - n) * (a - x), T - n)
               <= ceilDiv(b * a, T) - x + ceilDiv(a, T)
<1> DEFINE n == (x * T) \div a
           B == ceilDiv(b * a, T)
           p == ceilDiv(a, T)
           y == B - x + p
<1>1. x * T \in Nat /\ b * a \in Nat
  BY ProductIsNat
<1>2. n \in Nat /\ n * a <= x * T /\ x * T < n * a + a /\ n <= b
  BY <1>1, DivRoundsDown
<1>3. B \in Nat /\ b * a <= T * B
  BY <1>1, CeilDivRoundsUp
<1>4. p \in Nat /\ a <= T * p
  BY CeilDivRoundsUp
<1> HIDE DEF n, B, p
<1> DEFINE r == b - n
           f == a - x
           w == T - n
<1>5. r \in Nat /\ f \in Nat /\ w \in Nat \ {0} /\ y \in Int
  BY <1>2, <1>3, <1>4
<1>6. r * a <= T * y
  <2>1. r * a = b * a - n * a
    BY <1>2
  <2>2. T * y = T * B - x * T + T * p
    BY <1>3, <1>4
  <2>3. n * a \in Nat /\ T * B \in Nat /\ T * p \in Nat
    BY <1>2, <1>3, <1>4, ProductIsNat
  <2> HIDE DEF r, y
  <2> QED
    BY <1>1, <1>2, <1>3, <1>4, <2>1, <2>2, <2>3
<1>7. T * f <= a * w
  <2>1. T * f = a * T - x * T /\ a * w = a * T - n * a
    BY <1>2
  <2>2. a * T \in Nat /\ n * a \in Nat
    BY <1>2, ProductIsNat
  <2> HIDE DEF f, w
  <2> QED
    BY <1>1, <1>2, <2>1, <2>2
<1> HIDE DEF r, f, w, y
<1>8. r * f \in Nat /\ T * f \in Nat /\ a * w \in Nat /\ r * a \in Nat
  BY <1>5, ProductIsNat
<1>9. r * (T * f) <= r * (a * w)
  BY <1>5, <1>7, <1>8, ProductIsMonotone
<1>10. w * (r * a) <= w * (T * y)
  <2>1. T * y \in Int
    BY <1>5
  <2>2. T * y \in Nat
    BY <1>6, <1>8, <2>1
  <2> QED
    BY <1>5, <1>6, <1>8, <2>2, ProductIsMonotone
<1>11. T * (r * f) <= T * (w * y)
  <2>1. /\ r * (T * f) = T * (r * f) /\ r * (a * w) = w * (r * a)
        /\ w * (T * y) = T * (w * y)
    BY <1>5
  <2>2. /\ T * (r * f) \in Int /\ w * (r * a) \in Int /\ T * (w * y) \in Int
    BY <1>5
  <2> QED
    BY <1>9, <1>10, <2>1, <2>2
<1>12. r * f <= w * y
  <2>1. w * y \in Int
    BY <1>5
  <2> QED
    BY <1>8, <1>11, <2>1, CancelFactor
<1>13. ceilDiv(r * f, w) <= y
  BY <1>5, <1>8, <1>12, CeilDivAtMost
<1> QED
  BY <1>13 DEF r, f, w, y, n, B, p

(***************************************************************************)
(* The share of a quantity in the position.                                *)
(***************************************************************************)
\* What an issuer borrows is at most the share of n SetTokens in the debt and the
\* rounding of the unit; what an issuer deposits is no less than their share.
LEMMA ShareAtIssue ==
  ASSUME NEW s \in Nat \ {0}, NEW n \in Nat, NEW C \in Nat, NEW B \in Nat
  PROVE  LET k == ceilDiv(n, PRECISE_UNIT)
         IN  /\ s * preciseMul(preciseDivCeil(B, s), n) <= B * n + s * k
             /\ C * n <= s * (preciseMul(preciseDiv(C, s), n) + k + 1)
<1> DEFINE U == PRECISE_UNIT
           k == ceilDiv(n, U)
           d == preciseDivCeil(B, s)
           x == preciseMul(d, n)
           c == preciseDiv(C, s)
           f == preciseMul(c, n)
<1>0. U \in Nat \ {0}
  BY PreciseUnitAssumption
<1>1. k \in Nat /\ n <= U * k
  BY <1>0, CeilDivRoundsUp
<1>2. d \in Nat /\ s * d < B * U + s
  BY PreciseDivCeilRoundsUp
<1>3. c \in Nat /\ C * U < s * c + s
  BY PreciseDivRoundsDown
<1> HIDE DEF c, d
<1>4. x \in Nat /\ U * x <= d * n
  BY <1>2, PreciseMulRoundsDown
<1>5. f \in Nat /\ c * n < U * f + U
  BY <1>3, PreciseMulRoundsDown
<1> HIDE DEF U, k, x, f
<1>6. s * x <= B * n + s * k
  <2>1. s * (U * x) <= s * (d * n)
    BY <1>0, <1>2, <1>4, ProductIsNat, ProductIsMonotone
  <2>2. n * (s * d) <= n * (B * U + s)
    <3>1. B * U \in Nat /\ s * d \in Nat
      BY <1>0, <1>2, ProductIsNat
    <3>2. B * U + s \in Nat /\ s * d <= B * U + s
      BY <1>2, <3>1
    <3> QED
      BY <3>1, <3>2, ProductIsMonotone
  <2>3. s * n <= s * (U * k)
    BY <1>0, <1>1, ProductIsNat, ProductIsMonotone
  <2>4. /\ s * (U * x) = U * (s * x) /\ s * (d * n) = n * (s * d)
        /\ n * (B * U + s) = U * (B * n) + s * n /\ s * (U * k) = U * (s * k)
        /\ U * (B * n + s * k) = U * (B * n) + U * (s * k)
    BY <1>0, <1>1, <1>2, <1>4
  <2>5. B * n \in Nat /\ s * k \in Nat /\ s * x \in Nat /\ s * n \in Nat /\ d * n \in Nat
    BY <1>1, <1>2, <1>4, ProductIsNat
  <2>6. /\ U * (s * x) \in Nat /\ U * (B * n) \in Nat /\ U * (s * k) \in Nat
        /\ s * (d * n) \in Nat
    BY <1>0, <2>5, ProductIsNat
  <2>7. U * (s * x) <= U * (B * n + s * k)
    BY <2>1, <2>2, <2>3, <2>4, <2>5, <2>6
  <2>8. B * n + s * k \in Int
    BY <2>5
  <2> QED
    BY <1>0, <2>5, <2>7, <2>8, CancelFactor
<1>7. C * n <= s * (f + k + 1)
  <2>1. n * (C * U) <= n * (s * c + s)
    <3>1. C * U \in Nat /\ s * c \in Nat
      BY <1>0, <1>3, ProductIsNat
    <3>2. s * c + s \in Nat /\ C * U <= s * c + s
      BY <1>3, <3>1
    <3> QED
      BY <3>1, <3>2, ProductIsMonotone
  <2>2. s * (c * n) <= s * (U * f + U)
    <3>1. U * f \in Nat /\ c * n \in Nat
      BY <1>0, <1>3, <1>5, ProductIsNat
    <3>2. U * f + U \in Nat /\ c * n <= U * f + U
      BY <1>0, <1>5, <3>1
    <3> QED
      BY <3>1, <3>2, ProductIsMonotone
  <2>3. s * n <= s * (U * k)
    BY <1>0, <1>1, ProductIsNat, ProductIsMonotone
  <2>4. /\ n * (C * U) = U * (C * n) /\ n * (s * c + s) = s * (c * n) + s * n
        /\ s * (U * f + U) = U * (s * f) + U * s /\ s * (U * k) = U * (s * k)
        /\ s * (f + k + 1) = s * f + s * k + s
        /\ U * (s * f + s * k + s) = U * (s * f) + U * (s * k) + U * s
    BY <1>0, <1>1, <1>3, <1>5
  <2>5. C * n \in Nat /\ s * f \in Nat /\ s * k \in Nat /\ c * n \in Nat /\ s * n \in Nat
    BY <1>1, <1>3, <1>5, ProductIsNat
  <2>6. /\ U * (C * n) \in Nat /\ U * (s * f) \in Nat /\ U * (s * k) \in Nat
        /\ U * s \in Nat /\ s * (c * n) \in Nat
    BY <1>0, <2>5, ProductIsNat
  <2>7. U * (C * n) <= U * (s * f + s * k + s)
    BY <2>1, <2>2, <2>3, <2>4, <2>5, <2>6
  <2>8. s * f + s * k + s \in Int
    BY <2>5
  <2>9. C * n <= s * f + s * k + s
    BY <1>0, <2>5, <2>7, <2>8, CancelFactor
  <2> QED
    BY <2>4, <2>9
<1> QED
  BY <1>6, <1>7 DEF k, d, x, c, f, U

\* What a redeemer repays is no less than the share of n SetTokens in the debt, up
\* to a wei; what a redeemer withdraws is no more than their share.
LEMMA ShareAtRedeem ==
  ASSUME NEW s \in Nat \ {0}, NEW n \in Nat, NEW C \in Nat, NEW B \in Nat
  PROVE  /\ B * n <= s * (preciseMul(preciseDivCeil(B, s), n) + 1)
         /\ s * preciseMul(preciseDiv(C, s), n) <= C * n
<1> DEFINE U == PRECISE_UNIT
           d == preciseDivCeil(B, s)
           x == preciseMul(d, n)
           c == preciseDiv(C, s)
           f == preciseMul(c, n)
<1>0. U \in Nat \ {0}
  BY PreciseUnitAssumption
<1>2. d \in Nat /\ B * U <= s * d
  BY PreciseDivCeilRoundsUp
<1>3. c \in Nat /\ s * c <= C * U
  BY PreciseDivRoundsDown
<1> HIDE DEF c, d
<1>4. x \in Nat /\ d * n < U * x + U
  BY <1>2, PreciseMulRoundsDown
<1>5. f \in Nat /\ U * f <= c * n
  BY <1>3, PreciseMulRoundsDown
<1> HIDE DEF U, x, f
<1>6. B * n <= s * (x + 1)
  <2>1. n * (B * U) <= n * (s * d)
    BY <1>0, <1>2, ProductIsNat, ProductIsMonotone
  <2>2. s * (d * n) <= s * (U * x + U)
    <3>1. U * x \in Nat /\ d * n \in Nat
      BY <1>0, <1>2, <1>4, ProductIsNat
    <3>2. U * x + U \in Nat /\ d * n <= U * x + U
      BY <1>0, <1>4, <3>1
    <3> QED
      BY <3>1, <3>2, ProductIsMonotone
  <2>3. /\ n * (B * U) = U * (B * n) /\ n * (s * d) = s * (d * n)
        /\ s * (U * x + U) = U * (s * (x + 1))
    BY <1>0, <1>2, <1>4
  <2>4. x + 1 \in Nat /\ B * n \in Nat /\ d * n \in Nat
    BY <1>2, <1>4, ProductIsNat
  <2>5. s * (x + 1) \in Nat /\ s * (d * n) \in Nat /\ U * (B * n) \in Nat
    BY <1>0, <2>4, ProductIsNat
  <2>6. U * (s * (x + 1)) \in Nat
    BY <1>0, <2>5, ProductIsNat
  <2>7. U * (B * n) <= U * (s * (x + 1))
    BY <2>1, <2>2, <2>3, <2>5, <2>6
  <2> QED
    BY <1>0, <2>4, <2>5, <2>7, CancelFactor
<1>7. s * f <= C * n
  <2>1. s * (U * f) <= s * (c * n)
    BY <1>0, <1>3, <1>5, ProductIsNat, ProductIsMonotone
  <2>2. n * (s * c) <= n * (C * U)
    BY <1>0, <1>3, ProductIsNat, ProductIsMonotone
  <2>3. /\ s * (U * f) = U * (s * f) /\ s * (c * n) = n * (s * c)
        /\ n * (C * U) = U * (C * n)
    BY <1>0, <1>3, <1>5
  <2>4. s * f \in Nat /\ C * n \in Nat /\ c * n \in Nat
    BY <1>3, <1>5, ProductIsNat
  <2>5. U * (s * f) \in Nat /\ U * (C * n) \in Nat /\ s * (c * n) \in Nat
    BY <1>0, <2>4, ProductIsNat
  <2>6. U * (s * f) <= U * (C * n)
    BY <2>1, <2>2, <2>3, <2>5
  <2> QED
    BY <1>0, <2>4, <2>6, CancelFactor
<1> QED
  BY <1>6, <1>7 DEF d, x, c, f, U

(***************************************************************************)
(* The steps.                                                              *)
(***************************************************************************)
LEMMA SharePriceIsPositive ==
  ASSUME NEW mo, MarketOK(mo)
  PROVE  sharePrice(mo) \in Nat \ {0}
<1> DEFINE a == mo.totalBorrowAssets + 1
           T == mo.totalBorrowShares + VIRTUAL_SHARES
           p == ceilDiv(a, T)
<1>1. a \in Nat \ {0} /\ T \in Nat \ {0}
  BY LeveragedSetAssumption DEF MarketOK, Markets
<1> HIDE DEF a, T
<1>2. p \in Nat /\ a <= T * p
  BY <1>1, CeilDivRoundsUp
<1> HIDE DEF p
<1>3. p # 0
  BY <1>1, <1>2
<1> QED
  BY <1>2, <1>3 DEF sharePrice, p, a, T

LEMMA DebtAfterBorrow ==
  ASSUME NEW mo, MarketOK(mo), NEW x \in Nat
  PROVE  borrowBalance(Borrowed(mo, x)) <= borrowBalance(mo) + x + sharePrice(mo)
<1> DEFINE a == mo.totalBorrowAssets + 1
           T == mo.totalBorrowShares + VIRTUAL_SHARES
           b == mo.borrowShares
           n == ceilDiv(x * T, a)
           B == Borrowed(mo, x)
<1>1. /\ mo \in Markets /\ b \in Nat /\ a \in Nat \ {0} /\ T \in Nat \ {0}
      /\ mo.totalBorrowAssets \in Nat /\ mo.totalBorrowShares \in Nat /\ VIRTUAL_SHARES \in Nat
  BY LeveragedSetAssumption DEF MarketOK, Markets
<1>2. n \in Nat /\ toSharesUp(mo, x) = n
  BY SharesAreNat DEF toSharesUp
<1>3. /\ B.borrowShares = b + n
      /\ B.totalBorrowShares = mo.totalBorrowShares + n
      /\ B.totalBorrowAssets = mo.totalBorrowAssets + x
  <2> HIDE DEF n
  <2> QED
    BY <1>1, <1>2 DEF Borrowed, Markets
<1> HIDE DEF n, B
<1>4. B.totalBorrowAssets + 1 = a + x /\ B.totalBorrowShares + VIRTUAL_SHARES = T + n
  BY <1>1, <1>2, <1>3
<1>5. borrowBalance(B) = ceilDiv((b + n) * (a + x), T + n)
  BY <1>3, <1>4 DEF borrowBalance, toAssetsUp
<1>6. borrowBalance(mo) = ceilDiv(b * a, T) /\ sharePrice(mo) = ceilDiv(a, T)
  BY DEF borrowBalance, toAssetsUp, sharePrice
<1> HIDE DEF a, T, b
<1>7. ceilDiv((b + n) * (a + x), T + n) <= ceilDiv(b * a, T) + x + ceilDiv(a, T)
  BY <1>1, BorrowAdds DEF n
<1> QED
  BY <1>5, <1>6, <1>7 DEF B

LEMMA DebtAfterRepay ==
  ASSUME NEW mo, MarketOK(mo), NEW x \in Nat, toSharesDown(mo, x) <= mo.borrowShares
  PROVE  borrowBalance(Repaid(mo, x, toSharesDown(mo, x)))
           <= borrowBalance(mo) - x + sharePrice(mo)
<1> DEFINE a == mo.totalBorrowAssets + 1
           T == mo.totalBorrowShares + VIRTUAL_SHARES
           b == mo.borrowShares
           n == (x * T) \div a
           R == Repaid(mo, x, n)
<1>1. /\ mo \in Markets /\ b \in Nat /\ a \in Nat \ {0} /\ T \in Nat \ {0}
      /\ mo.totalBorrowAssets \in Nat /\ mo.totalBorrowShares \in Nat
      /\ VIRTUAL_SHARES \in Nat \ {0} /\ b <= mo.totalBorrowShares
  BY LeveragedSetAssumption DEF MarketOK, Markets
<1>2. n \in Nat /\ toSharesDown(mo, x) = n /\ n <= b /\ b < T
  <2>1. toSharesDown(mo, x) = n
    BY DEF toSharesDown
  <2>2. toSharesDown(mo, x) \in Nat
    BY SharesAreNat
  <2> HIDE DEF n
  <2> QED
    BY <1>1, <2>1, <2>2
<1>3. x < a
  <2> SUFFICES ASSUME ~ (x < a) PROVE FALSE
    OBVIOUS
  <2> HIDE DEF a, T, b, n
  <2>1. a <= x
    BY <1>1
  <2>2. T * a <= x * T /\ x * T \in Nat
    <3>1. a * T <= x * T /\ a * T = T * a
      BY <1>1, <2>1, ProductIsMonotone
    <3> QED
      BY <1>1, <3>1, ProductIsNat
  <2>3. T <= n
    BY <1>1, <2>2, DivAtLeast DEF n
  <2> QED
    BY <1>1, <1>2, <2>3
<1>4. /\ R.borrowShares = b - n
      /\ R.totalBorrowShares = mo.totalBorrowShares - n
      /\ R.totalBorrowAssets = mo.totalBorrowAssets - x
  <2>1. mo.totalBorrowAssets >= x
    BY <1>1, <1>3
  <2> HIDE DEF n
  <2> QED
    BY <1>1, <1>2, <2>1 DEF Repaid, Markets
<1> HIDE DEF n, R
<1>5. R.totalBorrowAssets + 1 = a - x /\ R.totalBorrowShares + VIRTUAL_SHARES = T - n
  BY <1>1, <1>2, <1>4
<1>6. borrowBalance(R) = ceilDiv((b - n) * (a - x), T - n)
  BY <1>4, <1>5 DEF borrowBalance, toAssetsUp
<1>7. borrowBalance(mo) = ceilDiv(b * a, T) /\ sharePrice(mo) = ceilDiv(a, T)
  BY DEF borrowBalance, toAssetsUp, sharePrice
<1> HIDE DEF a, T, b
<1>8. ceilDiv((b - n) * (a - x), T - n) <= ceilDiv(b * a, T) - x + ceilDiv(a, T)
  BY <1>1, <1>2, <1>3, RepayRemoves DEF n
<1> QED
  BY <1>2, <1>6, <1>7, <1>8 DEF R

\* The units that MLM writes when its hook is called.
LEMMA HookUnits ==
  ASSUME LeveragedSetInv, supply > 0, NEW m \in IssuanceModules, isModuleHook[m]
  PROVE  LET units == unitsAfterModuleHook(m)
         IN  /\ units["collateralToken"] = preciseDiv(morpho.collateral, supply)
             /\ debtUnit(units, "loanToken") = preciseDivCeil(borrowBalance(morpho), supply)
             /\ marketParams
<1>0. supply \in Nat \ {0} /\ MarketOK(morpho) /\ morpho.collateral \in Nat /\ marketParams
  BY DEF LeveragedSetInv, AccountingOK, MarketOK, Markets, ModulesInv, HooksAreLive,
         LeverageModuleReady
<1> DEFINE units == unitsAfterModuleHook(m)
           d == preciseDivCeil(borrowBalance(morpho), supply)
<1>1. d \in Nat
  BY <1>0, SharesAreNat, PreciseDivCeilRoundsUp
<1>2. /\ units["collateralToken"] = preciseDiv(morpho.collateral, supply)
      /\ units["loanToken"] = - d
  BY <1>0 DEF unitsAfterModuleHook, syncedUnits, Components
<1> HIDE DEF d, units
<1>3. debtUnit(units, "loanToken") = d
  BY <1>1, <1>2 DEF debtUnit
<1> QED
  BY <1>0, <1>2, <1>3 DEF d, units

\* Supplying and withdrawing collateral leaves the debt alone.
LEMMA CollateralKeepsDebt ==
  ASSUME NEW mo, MarketOK(mo), NEW x \in Nat
  PROVE  LET S == SuppliedCollateral(mo, x)
             W == WithdrawnCollateral(mo, x)
         IN  /\ borrowBalance(S) = borrowBalance(mo) /\ sharePrice(S) = sharePrice(mo)
             /\ borrowBalance(W) = borrowBalance(mo)
             /\ S.collateral = mo.collateral + x /\ W.collateral = mo.collateral - x
<1> DEFINE S == SuppliedCollateral(mo, x)
           W == WithdrawnCollateral(mo, x)
<1>1. /\ S.borrowShares = mo.borrowShares /\ S.totalBorrowShares = mo.totalBorrowShares
      /\ S.totalBorrowAssets = mo.totalBorrowAssets
      /\ W.borrowShares = mo.borrowShares /\ W.totalBorrowShares = mo.totalBorrowShares
      /\ W.totalBorrowAssets = mo.totalBorrowAssets
      /\ S.collateral = mo.collateral + x /\ W.collateral = mo.collateral - x
  BY DEF SuppliedCollateral, WithdrawnCollateral, MarketOK, Markets
<1> HIDE DEF S, W
<1>2. borrowBalance(S) = borrowBalance(mo) /\ sharePrice(S) = sharePrice(mo)
      /\ borrowBalance(W) = borrowBalance(mo)
  BY <1>1, Zenon DEF borrowBalance, toAssetsUp, sharePrice
<1> QED
  BY <1>1, <1>2 DEF S, W

LEMMA IssueKeepsBacking ==
  ASSUME LeveragedSetInv, supply > 0, NEW m \in IssuanceModules, NEW q \in Quantities,
         isModuleHook[m], issue(m, q)
  PROVE  /\ supply' >= supply
         /\ (morpho'.collateral + Dust(supply' - supply)) * supply
              >= morpho.collateral * supply'
         /\ (borrowBalance(morpho') - Dust(supply' - supply)) * supply
              <= borrowBalance(morpho) * supply'
<1> DEFINE t == quantityWithFees(q)
           units == unitsAfterModuleHook(m)
           s == supply
           C == morpho.collateral
           B == borrowBalance(morpho)
           f == preciseMul(preciseDiv(C, s), t)
           x == preciseMul(preciseDivCeil(B, s), t)
           k == ceilDiv(t, PRECISE_UNIT)
           p == sharePrice(morpho)
           deposited == SuppliedCollateral(morpho, f)
           Bn == borrowBalance(morpho')
<1>0. /\ q \in Nat \ {0} /\ s \in Nat \ {0} /\ MarketOK(morpho) /\ C \in Nat
      /\ PRECISE_UNIT \in Nat \ {0} /\ ManagerIssueFee \in Nat
  BY LeveragedSetAssumption, PreciseUnitAssumption
     DEF LeveragedSetInv, AccountingOK, MarketOK, Markets
<1>1. t \in Nat
  <2>1. preciseMul(ManagerIssueFee, q) \in Nat
    BY <1>0, PreciseMulRoundsDown
  <2> QED
    BY <1>0, <2>1 DEF quantityWithFees
<1>2. /\ morpho' = LET dep == IF EquityHookActs(units)
                                THEN preciseMul(units["collateralToken"], t) ELSE 0
                       out == requiredOut(debtUnit(units, "loanToken"), t)
                       mid == SuppliedCollateral(morpho, dep)
                   IN  IF out > 0 THEN Borrowed(mid, out) ELSE mid
      /\ supply' = s + t
  BY Zenon DEF issue
<1>3. /\ units["collateralToken"] = preciseDiv(C, s)
      /\ debtUnit(units, "loanToken") = preciseDivCeil(B, s)
      /\ marketParams
  BY HookUnits
<1>4. B \in Nat /\ p \in Nat \ {0}
  BY <1>0, SharesAreNat, SharePriceIsPositive
<1>5. preciseDiv(C, s) \in Nat /\ preciseDivCeil(B, s) \in Nat
  BY <1>0, <1>4, PreciseDivRoundsDown, PreciseDivCeilRoundsUp
<1>6. f \in Nat /\ x \in Nat /\ k \in Nat
  BY <1>0, <1>1, <1>5, PreciseMulRoundsDown, CeilDivRoundsUp
<1> HIDE DEF t, units, s
<1>7. (IF EquityHookActs(units) THEN preciseMul(units["collateralToken"], t) ELSE 0) = f
  <2>1. preciseMul(0, t) = 0
    BY <1>0, <1>1 DEF preciseMul
  <2> QED
    BY <1>3, <2>1 DEF EquityHookActs
<1>8. morpho' = IF x > 0 THEN Borrowed(deposited, x) ELSE deposited
  BY <1>2, <1>3, <1>7, Zenon DEF requiredOut
<1> HIDE DEF B, C, f, x, k, p
<1>9. /\ MarketOK(deposited) /\ borrowBalance(deposited) = B /\ sharePrice(deposited) = p
      /\ deposited.collateral = C + f
  BY <1>0, <1>6, CollateralMoves, CollateralKeepsDebt DEF B, C, p
<1> HIDE DEF deposited
<1>10. /\ morpho'.collateral = C + f
       /\ Bn \in Nat /\ Bn <= B + x + p
  <2>1. CASE x > 0
    <3>1. morpho' = Borrowed(deposited, x)
      BY <1>8, <2>1
    <3>2. MarketOK(morpho')
      BY <1>6, <1>9, <3>1, DebtMoves
    <3>3. morpho'.collateral = C + f
      BY <1>9, <3>1 DEF Borrowed, MarketOK, Markets
    <3> QED
      BY <1>6, <1>9, <3>1, <3>2, <3>3, SharesAreNat, DebtAfterBorrow
  <2>2. CASE x = 0
    <3>1. morpho' = deposited
      BY <1>8, <2>2
    <3> QED
      BY <1>4, <1>6, <1>9, <2>2, <3>1
  <2> QED
    BY <1>6, <2>1, <2>2
<1>11. s * x <= B * t + s * k /\ C * t <= s * (f + k + 1)
  BY <1>0, <1>1, <1>4, ShareAtIssue DEF f, x, k
<1>12. Dust(supply' - supply) = k + p
  <2>1. supply' - supply = t
    BY <1>0, <1>1, <1>2 DEF s
  <2> QED
    BY <2>1 DEF Dust, k, p
<1> HIDE DEF Bn
<1>13. (C + f + (k + p)) * s >= C * (s + t)
  <2>1. /\ (C + f + (k + p)) * s = C * s + s * f + s * k + s * p
        /\ C * (s + t) = C * s + C * t /\ s * (f + k + 1) = s * f + s * k + s
    BY <1>0, <1>1, <1>4, <1>6
  <2>2. /\ C * s \in Nat /\ s * f \in Nat /\ s * k \in Nat /\ s * p \in Nat /\ C * t \in Nat
    BY <1>0, <1>1, <1>4, <1>6, ProductIsNat
  <2>3. s * 1 <= s * p
    BY <1>0, <1>4, ProductIsMonotone
  <2> QED
    BY <1>0, <1>11, <2>1, <2>2, <2>3
<1>14. (Bn - (k + p)) * s <= B * (s + t)
  <2>1. s * Bn <= s * (B + x + p)
    <3>1. B + x + p \in Nat
      BY <1>4, <1>6
    <3> QED
      BY <1>0, <1>10, <3>1, ProductIsMonotone
  <2>2. /\ (Bn - (k + p)) * s = s * Bn - s * k - s * p
        /\ s * (B + x + p) = B * s + s * x + s * p
        /\ B * (s + t) = B * s + B * t
    BY <1>0, <1>1, <1>4, <1>6, <1>10
  <2>3. /\ s * Bn \in Nat /\ s * k \in Nat /\ s * p \in Nat /\ B * s \in Nat
        /\ s * x \in Nat /\ B * t \in Nat
    BY <1>0, <1>1, <1>4, <1>6, <1>10, ProductIsNat
  <2> QED
    BY <1>11, <2>1, <2>2, <2>3
<1>15. supply' >= supply
  BY <1>0, <1>1, <1>2 DEF s
<1> QED
  BY <1>2, <1>10, <1>12, <1>13, <1>14, <1>15 DEF Bn, B, C, s

LEMMA RedeemKeepsBacking ==
  ASSUME LeveragedSetInv, supply > 0, NEW m \in IssuanceModules, NEW q \in Quantities,
         isModuleHook[m], redeem(m, q)
  PROVE  /\ supply' <= supply
         /\ (morpho'.collateral + Dust(supply - supply')) * supply
              >= morpho.collateral * supply'
         /\ (borrowBalance(morpho') - Dust(supply - supply')) * supply
              <= borrowBalance(morpho) * supply'
<1> DEFINE t == quantityNetFees(q)
           units == unitsAfterModuleHook(m)
           s == supply
           C == morpho.collateral
           B == borrowBalance(morpho)
           f == preciseMul(preciseDiv(C, s), t)
           x == preciseMul(preciseDivCeil(B, s), t)
           debtIn == preciseMulCeil(preciseDivCeil(B, s), t)
           k == ceilDiv(t, PRECISE_UNIT)
           p == sharePrice(morpho)
           withdraws == EquityHookActs(units)
                        /\ requiredOut(equityUnit(units, "collateralToken"), t) > 0
           w == IF withdraws THEN preciseMul(units["collateralToken"], t) ELSE 0
           repaid == IF debtIn > 0 THEN Repaid(morpho, x, toSharesDown(morpho, x))
                     ELSE morpho
           Bn == borrowBalance(morpho')
<1>0. /\ q \in Nat \ {0} /\ s \in Nat \ {0} /\ MarketOK(morpho) /\ C \in Nat
      /\ PRECISE_UNIT \in Nat \ {0} /\ ManagerRedeemFee \in Nat
      /\ ManagerRedeemFee <= PRECISE_UNIT
  BY LeveragedSetAssumption, PreciseUnitAssumption
     DEF LeveragedSetInv, AccountingOK, MarketOK, Markets
<1>1. /\ units["collateralToken"] = preciseDiv(C, s)
      /\ debtUnit(units, "loanToken") = preciseDivCeil(B, s)
  BY HookUnits
<1>2. /\ q <= s /\ supply' = s - t
      /\ debtIn > 0 => CanRepay(morpho, x)
      /\ morpho' = WithdrawnCollateral(repaid, w)
  <2> DEFINE debt == debtUnit(units, "loanToken")
  <2>1. /\ q <= s /\ supply' = s - t
        /\ \E held : DebtCanBeRepaid(requiredIn(debt, t), preciseMul(debt, t), held)
        /\ morpho' = WithdrawnCollateral(
                       IF requiredIn(debt, t) > 0
                         THEN Repaid(morpho, preciseMul(debt, t),
                                     toSharesDown(morpho, preciseMul(debt, t)))
                         ELSE morpho, w)
    BY Zenon DEF redeem
  <2> QED
    BY <1>1, <2>1, Zenon DEF requiredIn, DebtCanBeRepaid
<1>3. t \in Nat /\ t <= q
  <2>1. preciseMul(ManagerRedeemFee, q) \in Nat /\ preciseMul(ManagerRedeemFee, q) <= q
    BY <1>0, PreciseMulRoundsDown, PreciseMulOfPart
  <2> QED
    BY <1>0, <2>1 DEF quantityNetFees
<1>4. B \in Nat /\ p \in Nat \ {0}
  BY <1>0, SharesAreNat, SharePriceIsPositive
<1>5. preciseDiv(C, s) \in Nat /\ preciseDivCeil(B, s) \in Nat
  BY <1>0, <1>4, PreciseDivRoundsDown, PreciseDivCeilRoundsUp
<1>6. f \in Nat /\ x \in Nat /\ debtIn \in Nat
  BY <1>3, <1>5, PreciseMulRoundsDown, PreciseMulCeilRoundsUp
<1>7. k \in Nat /\ t <= PRECISE_UNIT * k
  BY <1>0, <1>3, CeilDivRoundsUp
<1>8. w = f \/ w = 0
  BY <1>1, Zenon
<1>9. x > 0 => debtIn > 0 /\ t > 0
  <2>1. preciseDivCeil(B, s) <= preciseDivCeil(B, s)
    BY <1>5
  <2>2. x <= debtIn
    BY <1>3, <1>5, <2>1, PreciseMulIsMonotone
  <2>3. t = 0 => x = 0
    BY <1>0, <1>5 DEF preciseMul
  <2> HIDE DEF x, debtIn, t
  <2> QED
    BY <1>3, <1>6, <2>2, <2>3
<1>10. debtIn > 0 => t > 0
  <2>1. t = 0 => debtIn = 0
    BY DEF preciseMulCeil
  <2> HIDE DEF debtIn, t
  <2> QED
    BY <1>3, <1>6, <2>1
<1> HIDE DEF t, units, s, B, C, f, x, debtIn, k, p, w
<1>11. /\ repaid.collateral = C /\ MarketOK(repaid)
       /\ borrowBalance(repaid) \in Nat
       /\ debtIn > 0 => borrowBalance(repaid) <= B - x + p
       /\ debtIn = 0 => borrowBalance(repaid) = B
  <2>1. CASE debtIn > 0
    <3>1. toSharesDown(morpho, x) <= morpho.borrowShares
      BY <1>2, <2>1 DEF CanRepay
    <3>2. toSharesDown(morpho, x) \in Nat
      BY <1>0, <1>6, SharesAreNat
    <3>3. repaid = Repaid(morpho, x, toSharesDown(morpho, x))
      BY <2>1
    <3>4. MarketOK(repaid)
      BY <1>0, <1>6, <3>1, <3>2, <3>3, DebtMoves
    <3>5. repaid.collateral = C
      BY <1>0, <3>3 DEF Repaid, MarketOK, Markets, C
    <3>6. borrowBalance(repaid) <= B - x + p
      BY <1>0, <1>6, <3>1, <3>3, DebtAfterRepay DEF B, p
    <3>7. borrowBalance(repaid) \in Nat
      BY <1>6, <3>4, SharesAreNat
    <3> QED
      BY <1>6, <2>1, <3>4, <3>5, <3>6, <3>7
  <2>2. CASE debtIn = 0
    <3>1. repaid = morpho
      BY <2>2
    <3> QED
      BY <1>0, <1>4, <2>2, <3>1 DEF B, C
  <2> QED
    BY <1>6, <2>1, <2>2
<1> HIDE DEF repaid
<1>12. w \in Nat
  BY <1>6, <1>8
<1>13. /\ morpho'.collateral = C - w
       /\ Bn \in Nat
       /\ Bn = borrowBalance(repaid)
  BY <1>2, <1>11, <1>12, CollateralKeepsDebt
<1>14. B * t <= s * (x + 1) /\ s * f <= C * t
  BY <1>0, <1>3, <1>4, ShareAtRedeem DEF f, x
<1>15. supply - supply' = t /\ supply' <= supply
  BY <1>0, <1>2, <1>3 DEF s
<1>16. Dust(supply - supply') = k + p
  BY <1>15 DEF Dust, k, p
<1> HIDE DEF Bn
<1>17. (C - w + (k + p)) * s >= C * (s - t)
  <2>1. /\ (C - w + (k + p)) * s = C * s - s * w + s * k + s * p
        /\ C * (s - t) = C * s - C * t
    BY <1>0, <1>3, <1>4, <1>7, <1>12
  <2>2. /\ C * s \in Nat /\ s * w \in Nat /\ s * k \in Nat /\ s * p \in Nat
        /\ C * t \in Nat /\ s * f \in Nat
    BY <1>0, <1>3, <1>4, <1>6, <1>7, <1>12, ProductIsNat
  <2>3. s * w <= C * t
    <3>1. CASE w = f
      BY <1>14, <3>1
    <3>2. CASE w = 0
      BY <1>0, <2>2, <3>2
    <3> QED
      BY <1>8, <3>1, <3>2
  <2> QED
    BY <2>1, <2>2, <2>3
<1>18. (Bn - (k + p)) * s <= B * (s - t)
  <2>1. Bn - (k + p) <= B - (x + 1)
    <3>1. CASE debtIn > 0
      <4>1. k # 0
        BY <1>0, <1>3, <1>7, <1>10, <3>1
      <4> QED
        BY <1>4, <1>6, <1>7, <1>11, <1>13, <3>1, <4>1
    <3>2. CASE debtIn = 0
      <4>1. x = 0
        BY <1>6, <1>9, <3>2
      <4> QED
        BY <1>4, <1>7, <1>11, <1>13, <3>2, <4>1
    <3> QED
      BY <1>6, <3>1, <3>2
  <2>2. (Bn - (k + p)) * s <= (B - (x + 1)) * s
    <3> DEFINE g == Bn - (k + p)
               h == B - (x + 1)
    <3>1. g \in Int /\ h \in Int /\ g <= h
      BY <1>4, <1>6, <1>7, <1>13, <2>1
    <3> HIDE DEF g, h
    <3>2. g * s <= h * s
      BY <1>0, <3>1
    <3> QED
      BY <3>2 DEF g, h
  <2>3. (B - (x + 1)) * s = B * s - s * (x + 1) /\ B * (s - t) = B * s - B * t
    BY <1>0, <1>3, <1>4, <1>6
  <2>4. /\ B * s \in Int /\ s * (x + 1) \in Int /\ B * t \in Int
        /\ (Bn - (k + p)) * s \in Int
    BY <1>0, <1>3, <1>4, <1>6, <1>7, <1>13
  <2> QED
    BY <1>14, <2>2, <2>3, <2>4
<1> QED
  BY <1>2, <1>13, <1>15, <1>16, <1>17, <1>18 DEF Bn, B, C, s

\* For every market, supply and amount: an issue or a redemption through a module
\* that calls MLM's hook leaves the other holders with their share of the collateral
\* and of the debt, up to a wei for each whole SetToken that changes hands and the
\* price of one borrow share.
THEOREM HoldersAreKeptWhole == Spec => HoldersKeepBacking
<1> DEFINE Kept ==
      \A m \in IssuanceModules, q \in Quantities :
        LET moved == IF supply' >= supply THEN supply' - supply ELSE supply - supply'
        IN  (supply > 0 /\ isModuleHook[m] /\ (issue(m, q) \/ redeem(m, q))) =>
              /\ (morpho'.collateral + Dust(moved)) * supply >= morpho.collateral * supply'
              /\ (borrowBalance(morpho') - Dust(moved)) * supply <=
                   borrowBalance(morpho) * supply'
<1>1. ASSUME LeveragedSetInv, [Next]_vars PROVE [Kept]_vars
  <2> SUFFICES ASSUME NEW m \in IssuanceModules, NEW q \in Quantities,
                      supply > 0, isModuleHook[m], issue(m, q) \/ redeem(m, q)
               PROVE  LET moved == IF supply' >= supply THEN supply' - supply
                                   ELSE supply - supply'
                      IN  /\ (morpho'.collateral + Dust(moved)) * supply
                               >= morpho.collateral * supply'
                          /\ (borrowBalance(morpho') - Dust(moved)) * supply <=
                               borrowBalance(morpho) * supply'
    OBVIOUS
  <2>1. CASE issue(m, q)
    BY <1>1, <2>1, IssueKeepsBacking
  <2>2. CASE redeem(m, q)
    <3>1. /\ supply' <= supply
          /\ (morpho'.collateral + Dust(supply - supply')) * supply
               >= morpho.collateral * supply'
          /\ (borrowBalance(morpho') - Dust(supply - supply')) * supply
               <= borrowBalance(morpho) * supply'
      BY <1>1, <2>2, RedeemKeepsBacking
    <3>2. supply \in Nat /\ supply' \in Nat
      <4>1. LeveragedSetInv'
        BY <1>1, InvPreserved
      <4> QED
        BY <1>1, <4>1 DEF LeveragedSetInv, AccountingOK
    <3>3. (IF supply' >= supply THEN supply' - supply ELSE supply - supply') = supply - supply'
      BY <3>1, <3>2
    <3> QED
      BY <3>1, <3>3
  <2> QED
    BY <2>1, <2>2
<1> QED
  BY <1>1, InvInitially, InvPreserved, PTL DEF Spec, HoldersKeepBacking

=============================================================================
