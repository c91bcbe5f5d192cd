----------------------------- MODULE Deployment -----------------------------
(***************************************************************************)
(* The deployment helpers of utils/deploys, through which every test and   *)
(* script of both repositories creates its contracts, and the constructors *)
(* they call.                                                              *)
(*                                                                         *)
(* A helper deployX(...) passes its parameters to X's constructor by       *)
(* position.  Nearly all of them are of type Address, so neither           *)
(* TypeScript nor Solidity notices two that are exchanged; what either     *)
(* side means is in the names alone.  The tables have the names of both    *)
(* sides as they are written there, except that a leading underscore and   *)
(* the suffix Address are dropped: helper and constructor often call one   *)
(* thing by two names, and nothing here says that they are the same.  A    *)
(* helper's struct literal is the value "struct", a constant "literal".    *)
(* StandardTokenMock, which two helpers of index-coop-smart-contracts      *)
(* deploy, is as deployTokenMock calls it.                                 *)
(***************************************************************************)
EXTENDS Sequences, FiniteSets, TLC

-----------------------------------------------------------------------------
(***************************************************************************)
(* What the helpers pass, by file of utils/deploys.                        *)
(***************************************************************************)
(* deployExtensions.ts *)
FeeExtensions ==
  [FeeSplitExtension |-> <<"manager", "streamingFeeModule",
     "debtIssuanceModule", "operatorFeeSplit", "operatorFeeRecipient">>,
   PrtFeeSplitExtension |-> <<"manager", "streamingFeeModule",
     "debtIssuanceModule", "operatorFeeSplit", "operatorFeeRecipient",
     "prt">>,
   StreamingFeeSplitExtension |-> <<"manager", "streamingFeeModule",
     "operatorFeeSplit", "operatorFeeRecipient">>,
   GovernanceExtension |-> <<"manager", "governanceModule">>,
   GIMExtension |-> <<"manager", "generalIndexModule">>,
   FlexibleLeverageStrategyExtension |-> <<"manager", "contractSettings",
     "methdologySettings", "executionSettings", "incentiveSettings",
     "exchangeNames", "exchangeSettings">>,
   ExchangeIssuance |-> <<"weth", "uniFactory", "uniRouter", "sushiFactory",
     "sushiRouter", "setController", "basicIssuanceModule">>,
   ExchangeIssuanceV2 |-> <<"weth", "quickSwapFactory", "quickSwapRouter",
     "sushiFactory", "sushiRouter", "setController", "basicIssuanceModule">>]

LeveragedFlashMints ==
  [DEXAdapter |-> <<>>, DEXAdapterV2 |-> <<>>,
   ExchangeIssuanceLeveraged |-> <<"weth", "quickRouter", "sushiRouter",
     "uniV3Router", "uniswapV3Quoter", "setController",
     "basicIssuanceModule", "aaveLeveragedModule", "aaveAddressProvider",
     "curveCalculator", "curveAddressProvider">>,
   FlashMintLeveragedExtended |-> <<"struct", "setController",
     "basicIssuanceModule", "aaveLeveragedModule", "aaveAddressProvider",
     "BalancerV2Vault">>,
   FlashMintLeveraged |-> <<"struct", "setController", "basicIssuanceModule",
     "aaveLeveragedModule", "aaveAddressProvider", "BalancerV2Vault">>]

HyEthFlashMints ==
  [FlashMintHyETHV2 |-> <<"struct", "setController", "debtIssuanceModule",
     "stETH", "curveStEthEthPool">>,
   FlashMintHyETH |-> <<"struct", "setController", "debtIssuanceModule",
     "stETH", "curveStEthEthPool">>,
   FlashMintLeveragedForCompound |-> <<"struct", "setController",
     "basicIssuanceModule", "aaveLeveragedModule", "aaveAddressProvider",
     "cEther">>,
   ExchangeIssuanceZeroEx |-> <<"weth", "setController", "swapTarget">>]

DexFlashMints ==
  [FlashMintDex |-> <<"setController", "indexController", "struct">>,
   FlashMintNAV |-> <<"indexController", "navIssuanceModule", "struct">>,
   FlashMintNotional |-> <<"weth", "setController", "wrappedfCashFactory",
     "notionalTradeModule", "quickRouter", "sushiRouter", "uniV3Router",
     "uniV3Quoter", "curveAddressProvider", "curveCalculator",
     "decodedIdGasLimit">>,
   FlashMintPerp |-> <<"uniV3Router", "uniV3Quoter",
     "slippageIssuanceModule", "usdc">>,
   AirdropExtension |-> <<"manager", "airdropModule">>,
   AuctionRebalanceExtension |-> <<"manager", "auctionModule">>]

LeverageExtensions ==
  [StakeWiseReinvestmentExtension |-> <<"manager", "airdropModule",
     "tradeModule", "settings">>,
   AaveLeverageStrategyExtension |-> <<"manager", "contractSettings",
     "methdologySettings", "executionSettings", "incentiveSettings",
     "exchangeNames", "exchangeSettings">>,
   AaveV3LeverageStrategyExtension |-> <<"manager", "contractSettings",
     "methdologySettings", "executionSettings", "incentiveSettings",
     "exchangeNames", "exchangeSettings", "lendingPoolAddressesProvider">>,
   MorphoLeverageStrategyExtension |-> <<"manager", "contractSettings",
     "methdologySettings", "executionSettings", "incentiveSettings",
     "exchangeNames", "exchangeSettings">>,
   WrapExtension |-> <<"manager", "wrapModule">>,
   TargetWeightWrapExtension |-> <<"manager", "wrapModule", "setValuer",
     "isAnyoneAllowedToRebalance">>,
   MigrationExtension |-> <<"manager", "underlyingToken", "aaveToken",
     "wrappedSetToken", "tradeModule", "issuanceModule",
     "nonfungiblePositionManager", "addressProvider", "morpho", "balancer">>]

RebalanceExtensions ==
  [FlashMintWrapped |-> <<"struct", "setController", "issuanceModule",
     "wrapModule">>,
   FixedRebalanceExtension |-> <<"manager", "setToken",
     "notionalTradeModule", "notionalV2", "wrappedfCashFactory",
     "underlyingToken", "assetToken", "maturities", "allocations",
     "minPositions">>,
   OptimisticAuctionRebalanceExtensionV1 |-> <<"struct">>]

(* deployGlobalExtensions.ts, deployFactories.ts, deployHooks.ts,
   deployKeepers.ts *)
GlobalExtensions ==
  [GlobalBatchTradeExtension |-> <<"managerCore", "tradeModule",
     "integrations">>,
   GlobalClaimExtension |-> <<"managerCore", "airdropModule", "claimModule",
     "integrationRegistry">>,
   GlobalIssuanceExtension |-> <<"managerCore", "basicIssuanceModule">>,
   GlobalStreamingFeeSplitExtension |-> <<"managerCore",
     "streamingFeeModule">>,
   GlobalTradeExtension |-> <<"managerCore", "tradeModule">>,
   GlobalWrapExtension |-> <<"managerCore", "wrapModule">>,
   GlobalAuctionRebalanceExtension |-> <<"managerCore", "auctionModule">>,
   GlobalOptimisticAuctionRebalanceExtension |-> <<"struct">>]

Factories ==
  [DelegatedManagerFactory |-> <<"managerCore", "controller",
     "setTokenFactory">>]

Hooks ==
  [SupplyCapIssuanceHook |-> <<"initialOwner", "supplyCap">>,
   SupplyCapAllowedCallerIssuanceHook |-> <<"initialOwner", "supplyCap">>,
   AirdropIssuanceHook |-> <<"airdropModule">>]

Keepers ==
  [FliRebalanceKeeper |-> <<"fliExtension", "registry", "exchangeIndex",
     "leverageSettings">>]

(* deployManager.ts, deployManagerCore.ts, deployStaking.ts,
   deployToken.ts, deployViewers.ts *)
Managers ==
  [ICManager |-> <<"set", "indexModule", "feeModule", "operator",
     "methodologist", "coopFeeSplit">>,
   BaseManager |-> <<"set", "operator", "methodologist">>,
   BaseManagerV2 |-> <<"set", "operator", "methodologist">>,
   DelegatedManager |-> <<"setToken", "factory", "methodologist",
     "extensions", "operators", "allowedAssets", "useAssetAllowlist">>]

ManagerCores ==
  [ManagerCore |-> <<>>]

Staking ==
  [StakingRewardsV2 |-> <<"owner", "rewardToken", "stakingToken",
     "duration">>]

Tokens ==
  [IndexToken |-> <<"initialAccount">>,
   MerkleDistributor |-> <<"token", "merkleRoot">>,
   Vesting |-> <<"token", "recipient", "vestingAmount", "vestingBegin",
     "vestingCliff", "vestingEnd">>,
   OtcEscrow |-> <<"beneficiary", "indexGov", "vestingStart", "vestingCliff",
     "vestingEnd", "usdcAmount", "indexAmount", "usdc", "index">>,
   FTCVesting |-> <<"index", "recipient", "treasury", "vestingAmount",
     "vestingBegin", "vestingCliff", "vestingEnd">>,
   IndexPowah |-> <<"owner", "indexToken", "uniPair", "sushiPair",
     "masterChef", "masterChefId", "farms", "vesting">>,
   Prt |-> <<"name", "symbol", "setToken", "distributor", "totalSupply">>]

Viewers ==
  [FLIRebalanceViewer |-> <<"fliStrategyExtension", "uniswapV3Quoter",
     "uniswapV2Router", "uniswapV3Name", "uniswapV2Name">>,
   SetTokenRateViewer |-> <<"setToken", "component">>]

(* deploySetV2.ts: the copies of the protocol's contracts *)
SetCore ==
  [Controller |-> <<"feeRecipient">>, SetTokenCreator |-> <<"controller">>,
   Compound |-> <<>>,
   SetToken |-> <<"components", "units", "modules", "controller", "manager",
     "name", "symbol">>,
   BasicIssuanceModule |-> <<"controller">>, ContractCallerMock |-> <<>>,
   ComptrollerMock |-> <<"comp", "compAmount", "cToken">>,
   DebtIssuanceModule |-> <<"controller">>,
   DebtIssuanceModuleV2 |-> <<"controller">>,
   StreamingFeeModule |-> <<"controller">>,
   SingleIndexModule |-> <<"controller", "weth", "uniswapRouter",
     "sushiswapRouter", "balancerProxy">>,
   GeneralIndexModule |-> <<"controller", "weth">>, WETH9 |-> <<>>,
   IntegrationRegistry |-> <<"controller">>,
   CompoundLeverageModule |-> <<"controller", "compToken", "comptroller",
     "cEther", "weth">>,
   GovernanceModule |-> <<"controller">>,
   UniswapV2ExchangeAdapter |-> <<"router">>,
   StandardTokenMock |-> <<"initialAccount", "initialBalance", "name",
     "symbol", "decimals">>]

SetLeverage ==
  [AaveV2 |-> <<>>, AaveV3 |-> <<>>, Morpho |-> <<>>,
   AaveLeverageModule |-> <<"controller", "lendingPoolAddressesProvider",
     "protocolDataProvider">>,
   AaveV3LeverageModule |-> <<"controller", "lendingPoolAddressesProvider">>,
   MorphoLeverageModule |-> <<"controller", "morpho">>,
   AirdropModule |-> <<"controller">>,
   AuctionRebalanceModuleV1 |-> <<"controller">>,
   WrapModule |-> <<"controller", "weth">>,
   WrapModuleV2 |-> <<"controller", "weth">>,
   SlippageIssuanceModule |-> <<"controller">>,
   CompoundWrapV2Adapter |-> <<>>, ConstantPriceAdapter |-> <<>>,
   ClaimAdapterMock |-> <<>>, WrapV2AdapterMock |-> <<>>,
   ClaimModule |-> <<"controller">>, TradeModule |-> <<"controller">>]

SetOracles ==
  [CustomOracleNavIssuanceModule |-> <<"controller", "weth">>,
   DebtIssuanceModuleV3 |-> <<"controller", "tokenTransferBuffer">>,
   ERC4626Oracle |-> <<"vault", "underlyingFullUnit", "dataDescription">>,
   OracleMock |-> <<"initialValue">>,
   PreciseUnitOracle |-> <<"dataDescription">>,
   RebasingComponentModule |-> <<"controller">>,
   PriceOracle |-> <<"controller", "masterQuoteAsset", "adapters",
     "assetOnes", "assetTwos", "oracles">>,
   SetValuer |-> <<"controller">>, CompoundV3WrapV2Adapter |-> <<"comet">>,
   AaveV2WrapV2Adapter |-> <<"lendingPool">>,
   AaveV3WrapV2Adapter |-> <<"pool">>, ERC4626WrapV2Adapter |-> <<>>]

(* index-protocol: deployModules.ts *)
Modules ==
  [BasicIssuanceModule |-> <<"controller">>,
   IssuanceModule |-> <<"controller">>,
   DebtIssuanceModule |-> <<"controller">>,
   DebtIssuanceModuleV2 |-> <<"controller">>,
   DebtIssuanceModuleV3 |-> <<"controller", "tokenTransferBuffer">>,
   SlippageIssuanceModule |-> <<"controller">>,
   AmmModule |-> <<"controller">>, StreamingFeeModule |-> <<"controller">>,
   AirdropModule |-> <<"controller">>, TradeModule |-> <<"controller">>,
   WrapModule |-> <<"controller", "weth">>, ClaimModule |-> <<"controller">>,
   StakingModule |-> <<"controller">>,
   RebasingComponentModule |-> <<"controller">>,
   CustomOracleNavIssuanceModule |-> <<"controller", "weth">>,
   SingleIndexModule |-> <<"controller", "weth", "uniswapRouter",
     "sushiswapRouter", "balancerProxy">>,
   GeneralIndexModule |-> <<"controller", "weth">>,
   GovernanceModule |-> <<"controller">>]

LeverageModules ==
  [CompoundLeverageModule |-> <<"controller", "compToken", "comptroller",
     "cEth", "weth">>,
   AaveLeverageModule |-> <<"controller", "lendingPoolAddressesProvider">>,
   AaveV3LeverageModule |-> <<"controller", "lendingPoolAddressesProvider">>,
   MorphoLeverageModule |-> <<"controller", "morpho">>,
   NotionalTradeModule |-> <<"controller", "wrappedfCashFactory", "weth",
     "notionalV2", "decodedIdGasLimit">>,
   WrapModuleV2 |-> <<"controller", "weth">>,
   PerpV2LeverageModuleV2 |-> <<"controller", "perpVault", "perpQuoter",
     "perpMarketRegistry", "maxPerpPositionsPerSet">>,
   PerpV2BasisTradingModule |-> <<"controller", "perpVault", "perpQuoter",
     "perpMarketRegistry", "maxPerpPositionsPerSet">>,
   AuctionRebalanceModuleV1 |-> <<"controller">>]

(* deployAdapters.ts *)
ExchangeAdapters ==
  [KyberExchangeAdapter |-> <<"kyberNetworkProxy">>,
   OneInchExchangeAdapter |-> <<"approve", "exchange",
     "swapFunctionSignature">>,
   UniswapV2AmmAdapter |-> <<"uniswapV2Router">>,
   UniswapV2ExchangeAdapter |-> <<"uniswapV2Router">>,
   UniswapV2TransferFeeExchangeAdapter |-> <<"uniswapV2Router">>,
   UniswapV2ExchangeAdapterV2 |-> <<"uniswapV2Router">>,
   UniswapV2IndexExchangeAdapter |-> <<"uniswapV2Router">>,
   AaveGovernanceV2Adapter |-> <<"aaveGovernanceV2", "aaveToken">>,
   CompClaimAdapter |-> <<"comptroller">>,
   BalancerV1IndexExchangeAdapter |-> <<"balancerProxy">>,
   BalancerV2ExchangeAdapter |-> <<"vault">>,
   CompoundLikeGovernanceAdapter |-> <<"governanceAlpha", "governanceToken">>,
   CompoundBravoGovernanceAdapter |-> <<"governorBravo", "governanceToken">>,
   CurveStakingAdapter |-> <<"gaugeController">>,
   RgtMigrationWrapAdapter |-> <<"pegExchanger">>,
   UniswapPairPriceAdapter |-> <<"controller", "uniswapFactory",
     "uniswapPools">>,
   UniswapV3IndexExchangeAdapter |-> <<"router">>,
   ZeroExApiAdapter |-> <<"zeroEx", "weth">>]

WrapAdapters ==
  [SnapshotGovernanceAdapter |-> <<"delegateRegistry">>,
   SynthetixExchangeAdapter |-> <<"synthetixExchanger">>,
   UniswapV3ExchangeAdapter |-> <<"swapRouter">>,
   UniswapV3ExchangeAdapterV2 |-> <<"swapRouter">>,
   UniswapV3ExchangeAdapterV3 |-> <<"swapRouter">>,
   KyberV3IndexExchangeAdapter |-> <<"dmmRouter", "dmmFactory">>,
   CompoundWrapV2Adapter |-> <<>>, CompoundV3WrapV2Adapter |-> <<"comet">>,
   YearnWrapV2Adapter |-> <<>>, AaveV2WrapV2Adapter |-> <<"lendingPool">>,
   AaveV3WrapV2Adapter |-> <<"pool">>, ERC4626WrapV2Adapter |-> <<>>,
   ERC4626ExchangeAdapter |-> <<"vault">>,
   CurveExchangeAdapter |-> <<"tokenA", "tokenB", "tokenAIndex",
     "tokenbBIndex", "exchange">>,
   CurveStEthExchangeAdapter |-> <<"weth", "steth", "exchange">>,
   ConstantPriceAdapter |-> <<>>, BoundedStepwiseLinearPriceAdapter |-> <<>>,
   BoundedStepwiseLogarithmicPriceAdapter |-> <<>>,
   BoundedStepwiseExponentialPriceAdapter |-> <<>>]

(* deployCoreContracts.ts, deployLibraries.ts, deployOracles.ts,
   deployProduct.ts, deployViewers.ts *)
CoreContracts ==
  [Controller |-> <<"feeRecipient">>, SetTokenCreator |-> <<"controller">>,
   SetToken |-> <<"components", "units", "modules", "controller", "manager",
     "name", "symbol">>,
   PriceOracle |-> <<"controller", "masterQuoteAsset", "adapters",
     "assetOnes", "assetTwos", "oracles">>,
   IntegrationRegistry |-> <<"controller">>, SetValuer |-> <<"controller">>]

Libraries ==
  [Compound |-> <<>>, AaveV2 |-> <<>>, AaveV3 |-> <<>>, Morpho |-> <<>>,
   PerpV2 |-> <<>>, PositionV2 |-> <<>>, PerpV2LibraryV2 |-> <<>>,
   PerpV2Positions |-> <<>>]

Oracles ==
  [CTokenOracle |-> <<"cToken", "underlyingOracle", "cTokenFullUnit",
     "underlyingFullUnit", "dataDescription">>,
   YearnVaultOracle |-> <<"vault", "underlyingOracle", "underlyingFullUnit",
     "dataDescription">>,
   ERC4626Oracle |-> <<"vault", "dataDescription">>,
   PreciseUnitOracle |-> <<"dataDescription">>]

Products ==
  [AssetLimitHook |-> <<"assets", "limits">>,
   AMMSplitter |-> <<"uniRouter", "sushiRouter", "uniFactory",
     "sushiFactory">>,
   BridgedSetToken |-> <<"name", "symbol">>]

ProtocolViewers ==
  [ProtocolViewer |-> <<>>,
   PerpV2LeverageModuleViewer |-> <<"perpModule", "perpAccountBalance",
     "perpClearingHouseConfig", "vQuoteToken">>]

(* deployMocks.ts of index-coop-smart-contracts *)
CoopMocks ==
  [BaseExtensionMock |-> <<"manager">>,
   BaseGlobalExtensionMock |-> <<"managerCore", "module">>,
   GovernanceAdapterMock |-> <<"initialProposal">>,
   MutualUpgradeMock |-> <<"owner", "methodologist">>,
   FlexibleLeverageStrategyExtensionMock |-> <<"manager", "leverageRatio",
     "exchangeName">>,
   WrapAdapterMock |-> <<"owner", "initAmount">>,
   WrappedfCashMock |-> <<"assetToken", "underlyingToken", "weth">>,
   ModuleMock |-> <<"controller">>,
   MutualUpgradeV2Mock |-> <<"owner", "methodologist">>]
    @@ [c \in {"TradeAdapterMock", "BatchTradeAdapterMock",
               "ChainlinkAggregatorV3Mock", "MasterChefMock",
               "StringArrayUtilsMock", "FLIStrategyExtensionMock",
               "WrapV2AdapterMock", "ZeroExExchangeProxyMock",
               "WrappedfCashFactoryMock", "NotionalTradeModuleMock",
               "AaveV2LendingPoolMock"} |-> <<>>]

StrategyMocks ==
  [FlashMintLeveragedCompMock |-> <<"struct", "setController",
     "basicIssuanceModule", "aaveLeveragedModule", "aaveAddressProvider",
     "cEther">>,
   ManagerMock |-> <<"setToken">>,
   PrtStakingPoolMock |-> <<"setToken", "prt", "feeSplitExtension">>]
    @@ [c \in {"OptimisticOracleV3Mock"} |-> <<>>]

(* deployMocks.ts of index-protocol *)
ModuleMocks ==
  [NAVIssuanceCaller |-> <<"navIssuanceModule">>,
   KyberNetworkProxyMock |-> <<"mockWeth">>,
   ModuleBaseMock |-> <<"controller">>, ModuleBaseV2Mock |-> <<"controller">>,
   GodModeMock |-> <<"controller">>, DebtModuleMock |-> <<"controller">>,
   GovernanceAdapterMock |-> <<"initialProposalId">>,
   CurveStableswapMock |-> <<"coins">>,
   OneInchExchangeMock |-> <<"sendToken", "receiveToken", "sendQuantity",
     "receiveQuantity">>,
   ZeroExMock |-> <<"sendToken", "receiveToken", "sendQuantity",
     "receiveQuantity">>,
   OracleMock |-> <<"initialValue">>, YearnVaultMock |-> <<"pricePerShare">>,
   OracleAdapterMock |-> <<"asset", "dummyPrice">>]
    @@ [c \in {"ExplicitERC20Mock", "InvokeMock", "ManagerIssuanceHookMock",
               "ModuleIssuanceHookMock", "NAVIssuanceHookMock",
               "AddressArrayUtilsMock", "Uint256ArrayUtilsMock"} |-> <<>>]

TokenMocks ==
  [StakingAdapterMock |-> <<"stakingAsset">>,
   StandardTokenMock |-> <<"initialAccount", "initialBalance", "name",
     "symbol", "decimals">>,
   ERC20NoReturnMock |-> <<"initialAccount", "initialBalance", "name",
     "symbol", "decimals">>,
   ERC20ReturnFalseMock |-> <<"name", "symbol", "decimals">>,
   StandardTokenWithFeeMock |-> <<"initialAccount", "initialBalance", "name",
     "symbol", "fee">>,
   StandardTokenWithRoundingErrorMock |-> <<"initialAccount",
     "initialBalance", "error", "name", "symbol", "decimals">>,
   AmmAdapterMock |-> <<"underlyingTokens">>,
   AaveLendingPoolMock |-> <<"aaveLendingPoolCore">>]
    @@ [c \in {"PositionMock", "PositionV2Mock", "PreciseUnitMathMock",
               "ResourceIdentifierMock", "TradeAdapterMock",
               "WrapAdapterMock", "AaveLendingPoolCoreMock"} |-> <<>>]

LibraryMocks ==
  [SetTokenAccessibleMock |-> <<"controller">>,
   ComptrollerMock |-> <<"comp", "compAmount", "cToken">>,
   SynthMock |-> <<"initialAccount", "initialBalance", "name", "symbol",
     "literal", "currencyKey">>,
   SynthetixExchangerMock |-> <<"sUsd", "sEth", "sBtc", "currencyKeys.sUsd",
     "currencyKeys.sEth", "currencyKeys.sBtc", "rates.usd.eth",
     "rates.eth.usd", "rates.usd.btc", "rates.btc.usd">>]
    @@ [c \in {"AaveV2Mock", "PerpV2Mock", "PerpV2LibraryV2Mock",
               "PerpV2PositionsMock", "UniswapV3MathMock",
               "UnitConversionUtilsMock", "ClaimAdapterMock",
               "GaugeControllerMock", "ContractCallerMock",
               "DebtIssuanceMock", "CompoundMock"} |-> <<>>]

VaultMocks ==
  [ERC4626ConverterMock |-> <<"asset", "decimals", "pricePerShare">>,
   ERC4626Mock |-> <<"name", "symbol", "asset">>,
   YearnStrategyMock |-> <<"vault">>,
   ChainlinkAggregatorMock |-> <<"decimals">>,
   TribePegExchangerMock |-> <<"rgt", "tribe">>,
   WrappedfCashMock |-> <<"assetToken", "underlyingToken", "weth", "isEth">>]
    @@ [c \in {"CustomSetValuerMock", "ForceFunderMock",
               "WrapV2AdapterMock", "StringArrayUtilsMock",
               "BytesArrayUtilsMock", "WrappedfCashFactoryMock",
               "NotionalV2Mock"} |-> <<>>]

-----------------------------------------------------------------------------
(***************************************************************************)
(* What the constructors take: the parameters, in their order, of every    *)
(* contract whose constructor has more than one (a single value cannot be  *)
(* at the wrong place).  A protocol contract that deploySetV2 deploys too  *)
(* is listed once, among the SetConstructors.                              *)
(***************************************************************************)
ExtensionConstructors ==
  [FeeSplitExtension |-> <<"manager", "streamingFeeModule", "issuanceModule",
     "operatorFeeSplit", "operatorFeeRecipient">>,
   PrtFeeSplitExtension |-> <<"manager", "streamingFeeModule",
     "issuanceModule", "operatorFeeSplit", "operatorFeeRecipient", "prt">>,
   StreamingFeeSplitExtension |-> <<"manager", "streamingFeeModule",
     "operatorFeeSplit", "operatorFeeRecipient">>,
   GovernanceExtension |-> <<"manager", "governanceModule">>,
   GIMExtension |-> <<"manager", "generalIndexModule">>,
   FlexibleLeverageStrategyExtension |-> <<"manager", "strategy",
     "methodology", "execution", "incentive", "exchangeNames",
     "exchangeSettings">>,
   ExchangeIssuance |-> <<"weth", "uniFactory", "uniRouter", "sushiFactory",
     "sushiRouter", "setController", "basicIssuanceModule">>,
   ExchangeIssuanceV2 |-> <<"weth", "uniFactory", "uniRouter",
     "sushiFactory", "sushiRouter", "setController", "basicIssuanceModule">>,
   ExchangeIssuanceLeveraged |-> <<"weth", "quickRouter", "sushiRouter",
     "uniV3Router", "uniV3Quoter", "setController", "debtIssuanceModule",
     "aaveLeverageModule", "aaveAddressProvider", "curveAddressProvider",
     "curveCalculator">>,
   FlashMintLeveragedExtended |-> <<"addresses", "setController",
     "debtIssuanceModule", "aaveLeverageModule", "aaveV3Pool", "vault">>,
   FlashMintLeveraged |-> <<"addresses", "setController",
     "debtIssuanceModule", "aaveLeverageModule", "aaveV3Pool", "vault">>,
   FlashMintHyETHV2 |-> <<"dexAddresses", "setController", "issuanceModule",
     "stETH", "stEthETHPool">>,
   FlashMintHyETH |-> <<"dexAddresses", "setController", "issuanceModule",
     "stETH", "stEthETHPool">>,
   FlashMintLeveragedForCompound |-> <<"dexAddresses", "setController",
     "debtIssuanceModule", "compoundLeverageModule", "aaveAddressProvider",
     "cEther">>,
   ExchangeIssuanceZeroEx |-> <<"weth", "setController", "swapTarget">>,
   FlashMintDex |-> <<"setController", "indexController", "dexAddresses">>,
   FlashMintNAV |-> <<"setController", "navIssuanceModule", "dexAddresses">>,
   FlashMintNotional |-> <<"weth", "setController", "wrappedfCashFactory",
     "notionalTradeModule", "quickRouter", "sushiRouter", "uniV3Router",
     "uniV3Quoter", "curveAddressProvider", "curveCalculator",
     "decodedIdGasLimit">>,
   FlashMintPerp |-> <<"uniV3Router", "uniV3Quoter",
     "slippageIssuanceModule", "usdc">>,
   AirdropExtension |-> <<"manager", "airdropModule">>,
   AuctionRebalanceExtension |-> <<"manager", "auctionModule">>,
   StakeWiseReinvestmentExtension |-> <<"manager", "airdropModule",
     "tradeModule", "settings">>,
   AaveLeverageStrategyExtension |-> <<"manager", "strategy", "methodology",
     "execution", "incentive", "exchangeNames", "exchangeSettings">>,
   AaveV3LeverageStrategyExtension |-> <<"manager", "strategy",
     "methodology", "execution", "incentive", "exchangeNames",
     "exchangeSettings", "lendingPoolAddressesProvider">>,
   MorphoLeverageStrategyExtension |-> <<"manager", "strategy",
     "methodology", "execution", "incentive", "exchangeNames",
     "exchangeSettings">>,
   WrapExtension |-> <<"manager", "wrapModule">>,
   TargetWeightWrapExtension |-> <<"manager", "wrapModule", "setValuer",
     "isRebalanceOpen">>,
   MigrationExtension |-> <<"manager", "underlyingToken", "aaveToken",
     "wrappedSetToken", "tradeModule", "issuanceModule",
     "nonfungiblePositionManager", "addressProvider", "morpho", "balancer">>,
   FlashMintWrapped |-> <<"dexAddresses", "setController", "issuanceModule",
     "wrapModule">>,
   FixedRebalanceExtension |-> <<"manager", "setToken",
     "notionalTradeModule", "notionalProxy", "wrappedfCashFactory",
     "underlyingToken", "assetToken", "maturities", "allocations",
     "minPositions">>,
   GlobalBatchTradeExtension |-> <<"managerCore", "tradeModule",
     "integrations">>,
   GlobalClaimExtension |-> <<"managerCore", "airdropModule", "claimModule",
     "integrationRegistry">>,
   GlobalIssuanceExtension |-> <<"managerCore", "issuanceModule">>,
   GlobalStreamingFeeSplitExtension |-> <<"managerCore",
     "streamingFeeModule">>,
   GlobalTradeExtension |-> <<"managerCore", "tradeModule">>,
   GlobalWrapExtension |-> <<"managerCore", "wrapModule">>,
   GlobalAuctionRebalanceExtension |-> <<"managerCore", "auctionModule">>]

ManagerConstructors ==
  [DelegatedManagerFactory |-> <<"managerCore", "controller",
     "setTokenFactory">>,
   SupplyCapIssuanceHook |-> <<"initialOwner", "supplyCap">>,
   SupplyCapAllowedCallerIssuanceHook |-> <<"initialOwner", "supplyCap">>,
   FliRebalanceKeeper |-> <<"fliExtension", "registry", "exchangeIndex",
     "leverageSettings">>,
   ICManager |-> <<"setToken", "indexModule", "feeModule", "operator",
     "methodologist", "operatorFeeSplit">>,
   BaseManager |-> <<"setToken", "operator", "methodologist">>,
   BaseManagerV2 |-> <<"setToken", "operator", "methodologist">>,
   DelegatedManager |-> <<"setToken", "factory", "methodologist",
     "extensions", "operators", "allowedAssets", "useAssetAllowlist">>,
   StakingRewardsV2 |-> <<"rewardsDistribution", "rewardsToken",
     "stakingToken", "rewardsDuration">>,
   MerkleDistributor |-> <<"token", "merkleRoot">>,
   Vesting |-> <<"index", "recipient", "vestingAmount", "vestingBegin",
     "vestingCliff", "vestingEnd">>,
   OtcEscrow |-> <<"beneficiary", "indexGov", "vestingStart", "vestingCliff",
     "vestingEnd", "usdcAmount", "indexAmount", "usdc", "index">>,
   FTCVesting |-> <<"index", "recipient", "treasury", "vestingAmount",
     "vestingBegin", "vestingCliff", "vestingEnd">>,
   IndexPowah |-> <<"owner", "indexToken", "uniPair", "sushiPair",
     "masterChef", "masterChefId", "farms", "vesting">>,
   Prt |-> <<"name", "symbol", "setToken", "distributor", "totalSupply">>,
   FLIRebalanceViewer |-> <<"fliStrategyExtension", "uniswapV3Quoter",
     "uniswapV2Router", "uniswapV3ExchangeName", "uniswapV2ExchangeName">>,
   SetTokenRateViewer |-> <<"setToken", "component">>]

SetConstructors ==
  [SetToken |-> <<"components", "units", "modules", "controller", "manager",
     "name", "symbol">>,
   ComptrollerMock |-> <<"comp", "compAmount", "collateralCToken">>,
   SingleIndexModule |-> <<"controller", "weth", "uniswapRouter",
     "sushiswapRouter", "balancerProxy">>,
   GeneralIndexModule |-> <<"controller", "weth">>,
   CompoundLeverageModule |-> <<"controller", "compToken", "comptroller",
     "cEther", "weth">>,
   StandardTokenMock |-> <<"initialAccount", "initialBalance", "name",
     "symbol", "decimals">>,
   AaveLeverageModule |-> <<"controller", "lendingPoolAddressesProvider",
     "protocolDataProvider">>,
   AaveV3LeverageModule |-> <<"controller", "poolAddressesProvider">>,
   MorphoLeverageModule |-> <<"controller", "morpho">>,
   WrapModule |-> <<"controller", "weth">>,
   WrapModuleV2 |-> <<"controller", "weth">>,
   CustomOracleNavIssuanceModule |-> <<"controller", "weth">>,
   DebtIssuanceModuleV3 |-> <<"controller", "tokenTransferBuffer">>,
   ERC4626Oracle |-> <<"vault", "underlyingFullUnit", "dataDescription">>,
   PriceOracle |-> <<"controller", "masterQuoteAsset", "adapters",
     "assetOnes", "assetTwos", "oracles">>]

ProtocolConstructors ==
  [AaveLeverageModule |-> <<"controller", "lendingPoolAddressesProvider">>,
   NotionalTradeModule |-> <<"controller", "wrappedfCashFactory", "weth",
     "notionalV2", "decodedIdGasLimit">>,
   PerpV2LeverageModuleV2 |-> <<"controller", "perpVault", "perpQuoter",
     "perpMarketRegistry", "maxPerpPositionsPerSet">>,
   PerpV2BasisTradingModule |-> <<"controller", "perpVault", "perpQuoter",
     "perpMarketRegistry", "maxPerpPositionsPerSet">>,
   OneInchExchangeAdapter |-> <<"oneInchApproval", "oneInchExchange",
     "oneInchFunctionSignature">>,
   AaveGovernanceV2Adapter |-> <<"aaveGovernanceV2", "aaveToken">>,
   CompoundLikeGovernanceAdapter |-> <<"governorAlpha", "governanceToken">>,
   CompoundBravoGovernanceAdapter |-> <<"governorBravo", "governanceToken">>,
   UniswapPairPriceAdapter |-> <<"controller", "uniswapFactory",
     "uniswapPools">>,
   ZeroExApiAdapter |-> <<"zeroEx", "weth">>,
   KyberV3IndexExchangeAdapter |-> <<"dmmRouter", "dmmFactory">>,
   CurveExchangeAdapter |-> <<"tokenA", "tokenB", "tokenAIndex",
     "tokenBIndex", "stableswap">>,
   CurveStEthExchangeAdapter |-> <<"weth", "stETH", "stableswap">>,
   CTokenOracle |-> <<"cToken", "underlyingOracle", "cTokenFullUnit",
     "underlyingFullUnit", "dataDescription">>,
   YearnVaultOracle |-> <<"vault", "underlyingOracle", "underlyingFullUnit",
     "dataDescription">>,
   ERC4626Oracle |-> <<"vault", "dataDescription">>,
   AssetLimitHook |-> <<"assets", "limits">>,
   AMMSplitter |-> <<"uniRouter", "sushiRouter", "uniFactory",
     "sushiFactory">>,
   BridgedSetToken |-> <<"name", "symbol">>,
   PerpV2LeverageModuleViewer |-> <<"perpModule", "perpAccountBalance",
     "perpClearingHouseConfig", "vQuoteToken">>]

CoopMockConstructors ==
  [BaseGlobalExtensionMock |-> <<"managerCore", "module">>,
   MutualUpgradeMock |-> <<"owner", "methodologist">>,
   FlexibleLeverageStrategyExtensionMock |-> <<"manager",
     "currentLeverageRatio", "exchangeName">>,
   WrapAdapterMock |-> <<"owner", "initAmount">>,
   WrappedfCashMock |-> <<"assetToken", "underlyingToken", "weth">>,
   MutualUpgradeV2Mock |-> <<"owner", "methodologist">>,
   FlashMintLeveragedCompMock |-> <<"dexAddresses", "setController",
     "debtIssuanceModule", "compoundLeverageModule", "aaveAddressProvider",
     "cEther">>,
   PrtStakingPoolMock |-> <<"rewardToken", "stakeToken", "distributor">>]

ProtocolMockConstructors ==
  [OneInchExchangeMock |-> <<"mockSendToken", "mockReceiveToken",
     "mockSendAmount", "mockReceiveAmount">>,
   ZeroExMock |-> <<"mockSendToken", "mockReceiveToken", "mockSendAmount",
     "mockReceiveAmount">>,
   OracleAdapterMock |-> <<"asset", "dummyPrice">>,
   StandardTokenMock |-> <<"initialAccount", "initialBalance", "name",
     "symbol", "decimals">>,
   ERC20NoReturnMock |-> <<"initialAccount", "initialBalance", "name",
     "symbol", "decimals">>,
   ERC20ReturnFalseMock |-> <<"name", "symbol", "decimals">>,
   StandardTokenWithFeeMock |-> <<"initialAccount", "initialBalance", "name",
     "symbol", "fee">>,
   StandardTokenWithRoundingErrorMock |-> <<"initialAccount",
     "initialBalance", "err", "name", "symbol", "unnamed">>,
   ComptrollerMock |-> <<"comp", "compAmount", "collateralCToken">>,
   SynthMock |-> <<"initialAccount", "initialBalance", "name", "symbol",
     "decimals", "currencyKey">>,
   SynthetixExchangerMock |-> <<"sUsd", "sEth", "sBtc", "sUsdCurrencyKey",
     "sEthCurrencyKey", "sBtcCurrencyKey", "usdPerEthRate", "ethsPerUsdRate",
     "usdPerBtcRate", "btcPerUsdRate">>,
   ERC4626ConverterMock |-> <<"asset", "decimals", "pricePerShare">>,
   ERC4626Mock |-> <<"name", "symbol", "asset">>,
   TribePegExchangerMock |-> <<"rgt", "tribe">>,
   WrappedfCashMock |-> <<"assetToken", "underlyingToken", "weth", "isEth">>]

-----------------------------------------------------------------------------
(***************************************************************************)
(* Libraries.  A contract that calls an external library has a placeholder *)
(* in its bytecode, which convertLibraryNameToLinkId derives from the      *)
(* library's qualified name; the helper, or the test that calls it,        *)
(* deploys the libraries first and hands over their addresses under that   *)
(* id.                                                                     *)
(***************************************************************************)
DEXAdapterLinks ==
  [c \in {"ExchangeIssuanceLeveraged", "FlashMintLeveragedExtended",
          "FlashMintLeveraged", "FlashMintLeveragedForCompound",
          "FlashMintNotional", "FlashMintWrapped"} |-> <<"DEXAdapter">>]
    @@ [c \in {"FlashMintHyETHV2", "FlashMintHyETH", "FlashMintDex",
               "FlashMintNAV"} |-> <<"DEXAdapterV2">>]

SetLinks ==
  [CompoundLeverageModule |-> <<"Compound">>,
   CompoundWrapV2Adapter |-> <<"Compound">>,
   AaveLeverageModule |-> <<"AaveV2">>, AaveV3LeverageModule |-> <<"AaveV3">>,
   MorphoLeverageModule |-> <<"Morpho">>]

PerpLinks ==
  [c \in {"PerpV2LeverageModuleV2", "PerpV2BasisTradingModule"} |->
     <<"PositionV2", "PerpV2LibraryV2", "PerpV2Positions">>]

\* The library each mock exercises; the pool's two are Aave's own.
MockLinks ==
  [FlashMintLeveragedCompMock |-> <<"DEXAdapter">>,
   AaveV2LendingPoolMock |-> <<"ValidationLogic", "ReserveLogic">>,
   PositionV2Mock |-> <<"PositionV2">>, AaveV2Mock |-> <<"AaveV2">>,
   PerpV2Mock |-> <<"PerpV2">>, CompoundMock |-> <<"Compound">>,
   PerpV2LibraryV2Mock |-> <<"PerpV2LibraryV2">>,
   PerpV2PositionsMock |-> <<"PerpV2Positions">>]

-----------------------------------------------------------------------------
(***************************************************************************)
(* The helpers of a repository and what one call of them is.               *)
(***************************************************************************)
Passed ==
  [coop |-> FeeExtensions @@ LeveragedFlashMints @@ HyEthFlashMints
              @@ DexFlashMints @@ LeverageExtensions @@ RebalanceExtensions
              @@ GlobalExtensions @@ Factories @@ Hooks @@ Keepers @@ Managers
              @@ ManagerCores @@ Staking @@ Tokens @@ Viewers @@ SetCore
              @@ SetLeverage @@ SetOracles @@ CoopMocks @@ StrategyMocks,
   protocol |-> Modules @@ LeverageModules @@ ExchangeAdapters @@ WrapAdapters
                  @@ CoreContracts @@ Libraries @@ Oracles @@ Products
                  @@ ProtocolViewers @@ ModuleMocks @@ TokenMocks
                  @@ LibraryMocks @@ VaultMocks]

Declared ==
  [coop |-> ExtensionConstructors @@ ManagerConstructors @@ SetConstructors
              @@ CoopMockConstructors,
   protocol |-> ProtocolConstructors @@ ProtocolMockConstructors
                  @@ SetConstructors]

Linked == DEXAdapterLinks @@ SetLinks @@ PerpLinks @@ MockLinks

AllHelpers ==
  UNION {{[repo |-> r, contract |-> c] : c \in DOMAIN Passed[r]} :
           r \in {"coop", "protocol"}}

\* The values a helper hands over, the parameters that take them, and the
\* libraries the contract is linked with.
arguments(h) == Passed[h.repo][h.contract]

parameters(h) ==
  IF h.contract \in DOMAIN Declared[h.repo]
  THEN Declared[h.repo][h.contract] ELSE <<>>

libraries(h) ==
  IF h.contract \in DOMAIN Linked THEN Linked[h.contract] ELSE <<>>

=============================================================================
