-------------------------- MODULE ExchangeIssuance --------------------------
(***************************************************************************)
(* Issuing and redeeming a SetToken through Uniswap and Sushiswap:         *)
(* ExchangeIssuance.sol, and the functions of exchangeIssuanceUtils.ts     *)
(* that tell a user beforehand what it will cost or bring.                 *)
(*                                                                         *)
(* A quote reads the pools one await at a time, and others trade between   *)
(* two reads and before the transaction is mined; the transaction itself   *)
(* is one action and a revert is a disabled action.  A pool pairs WETH     *)
(* with another token.                                                     *)
(***************************************************************************)
EXTENDS PreciseUnitMath, FiniteSets, SequencesExt

CONSTANTS
  WETH,
  Components,        \* the components of the SetToken, as a sequence
  Unit,              \* component -> default position unit
  Tokens,            \* the tokens with pools, one of which a user may pay with
  InitialPools,      \* exchange -> token -> [weth, token], or NoPool
  FEE, FEE_SCALE,    \* 997 and 1000 in the Uniswap library
  SetAmounts,        \* SetTokens a user asks for, or redeems
  Inputs,            \* WETH or tokens a user spends
  Slippages,         \* what a user adds to or takes from a quote
  SwapAmounts,       \* others' trades
  MAX_UINT_256,      \* stands for an absent price; above every amount
  MaxBalance,        \* what the user owns of each token
  MaxTrades, MaxCalls

VARIABLES
  pools,
  quote,             \* the quote being computed
  held,              \* token -> what is left in ExchangeIssuance
  outcome,           \* of the last transaction
  trades, calls

vars == <<pools, quote, held, outcome, trades, calls>>

\* a pool has liquidity on both sides
NoPool == [weth |-> 0, token |-> 0]
Pools == [weth : Nat \ {0}, token : Nat \ {0}] \union {NoPool}

Uniswap == "Uniswap"
Sushiswap == "Sushiswap"
Exchanges == {Uniswap, Sushiswap}

ASSUME ExchangeIssuanceAssumption ==
  /\ WETH \notin Tokens /\ WETH \notin Exchanges
  /\ Components \in Seq(Tokens \union {WETH}) /\ Components # <<>>
  /\ IsInjective(Components)
  /\ Unit \in [ToSet(Components) -> Nat \ {0}]
  /\ InitialPools \in [Exchanges -> [Tokens -> Pools]]
  /\ FEE \in 1 .. FEE_SCALE /\ FEE_SCALE \in Nat /\ MAX_UINT_256 \in Nat \ {0}
  /\ SetAmounts \subseteq Nat \ {0} /\ Inputs \subseteq Nat \ {0}
  /\ Slippages \subseteq Nat /\ SwapAmounts \subseteq Nat \ {0}
  /\ MaxBalance \in Nat /\ MaxTrades \in Nat /\ MaxCalls \in Nat

(***************************************************************************)
(* The pools (UniSushiV2Library and the routers).                          *)
(***************************************************************************)
getAmountOut(amountIn, reserveIn, reserveOut) ==
  (amountIn * FEE * reserveOut) \div (reserveIn * FEE_SCALE + amountIn * FEE)

getAmountIn(amountOut, reserveIn, reserveOut) ==
  (reserveIn * amountOut * FEE_SCALE) \div ((reserveOut - amountOut) * FEE) + 1

HasPair(p, e, token) == p[e][token] # NoPool

\* WETH in or out of a pool, the token the other way
BuyCost(p, e, token, amount) == getAmountIn(amount, p[e][token].weth, p[e][token].token)
BuyAmount(p, e, token, weth) == getAmountOut(weth, p[e][token].weth, p[e][token].token)
SellAmount(p, e, token, amount) == getAmountOut(amount, p[e][token].token, p[e][token].weth)

boughtFrom(pool, weth, amount) ==
  [weth |-> pool.weth + weth, token |-> pool.token - amount]
soldTo(pool, amount, weth) ==
  [weth |-> pool.weth - weth, token |-> pool.token + amount]

Bought(p, e, token, weth, amount) == [p EXCEPT ![e][token] = boughtFrom(@, weth, amount)]
Sold(p, e, token, amount, weth) == [p EXCEPT ![e][token] = soldTo(@, amount, weth)]

OverComponents(f(_)) == [i \in DOMAIN Components |-> f(Components[i])]
IndexOf(token) == CHOOSE i \in DOMAIN Components : Components[i] = token

(***************************************************************************)
(* ExchangeIssuance.  The exchange a component is bought or sold on is     *)
(* chosen by the contract; each component has pools of its own, so the     *)
(* swaps of one transaction do not change one another's prices.            *)
(***************************************************************************)
\* an exchange whose reserve is too small is passed over
minIn(p, e, token, amount) ==
  IF HasPair(p, e, token) /\ p[e][token].token > amount
  THEN BuyCost(p, e, token, amount) ELSE MAX_UINT_256

getMinTokenForExactToken(p, token, amount) ==
  IF token = WETH THEN [eth |-> amount, exchange |-> WETH]
  ELSE LET uni == minIn(p, Uniswap, token, amount)
           sushi == minIn(p, Sushiswap, token, amount)
       IN IF uni <= sushi THEN [eth |-> uni, exchange |-> Uniswap]
          ELSE [eth |-> sushi, exchange |-> Sushiswap]

maxOut(p, e, token, amount) ==
  IF HasPair(p, e, token) THEN SellAmount(p, e, token, amount) ELSE 0

getMaxTokenForExactToken(p, token, amount) ==
  IF token = WETH THEN [eth |-> amount, exchange |-> WETH]
  ELSE LET uni == maxOut(p, Uniswap, token, amount)
           sushi == maxOut(p, Sushiswap, token, amount)
       IN IF uni >= sushi THEN [eth |-> uni, exchange |-> Uniswap]
          ELSE [eth |-> sushi, exchange |-> Sushiswap]

getAmountETHForIssuance(p, amountSet) ==
  OverComponents(LAMBDA c :
    LET amount == preciseMulCeil(Unit[c], amountSet)
        best == getMinTokenForExactToken(p, c, amount)
    IN [eth |-> best.eth, exchange |-> best.exchange, amount |-> amount])

getAmountETHForRedemption(p, amountSet) ==
  OverComponents(LAMBDA c :
    LET amount == preciseMul(Unit[c], amountSet)
        best == getMaxTokenForExactToken(p, c, amount)
    IN [eth |-> best.eth, exchange |-> best.exchange, amount |-> amount])

EthOf(orders) == SumFunction([i \in DOMAIN orders |-> orders[i].eth])

\* ILLIQUID_SET_COMPONENT
LiquidIn(orders) == \A i \in DOMAIN orders : orders[i].eth < MAX_UINT_256
LiquidOut(orders) == \A i \in DOMAIN orders : orders[i].exchange # WETH => orders[i].eth > 0

\* the order that goes to the pool of a token on e, if there is one
IsOrdered(orders, e, token) ==
  token \in ToSet(Components) /\ orders[IndexOf(token)].exchange = e

afterBuys(p, orders) ==
  [e \in Exchanges |-> [t \in Tokens |->
     IF IsOrdered(orders, e, t)
     THEN boughtFrom(p[e][t], orders[IndexOf(t)].eth, orders[IndexOf(t)].amount)
     ELSE p[e][t]]]

afterSells(p, orders) ==
  [e \in Exchanges |-> [t \in Tokens |->
     IF IsOrdered(orders, e, t)
     THEN soldTo(p[e][t], orders[IndexOf(t)].amount, orders[IndexOf(t)].eth)
     ELSE p[e][t]]]

\* the WETH a payment is worth, and the pools after it has been swapped
inWETH(p, token, amount) ==
  LET best == getMaxTokenForExactToken(p, token, amount)
  IN IF token = WETH THEN [eth |-> amount, pools |-> p]
     ELSE [eth |-> best.eth, pools |-> Sold(p, best.exchange, token, amount, best.eth)]

Finished(kind, limit, result) == [kind |-> kind, limit |-> limit, result |-> result]

\* What stays in ExchangeIssuance: the WETH not spent, and what was bought of a
\* component beyond what BasicIssuanceModule.issue pulls.
settled(weth, orders, amountSet) ==
  [t \in DOMAIN held |->
     held[t] + (IF t = WETH THEN weth ELSE 0)
     + SumFunction([i \in DOMAIN orders |->
              IF Components[i] = t
              THEN orders[i].amount - preciseMulCeil(Unit[t], amountSet) ELSE 0])]

\* the limit is not looked at
issueExactSetFromToken_unlimited(token, amountSet, maxInput) ==
  LET input == inWETH(pools, token, maxInput)
      orders == getAmountETHForIssuance(input.pools, amountSet)
  IN /\ input.eth > 0 /\ LiquidIn(orders)
     /\ pools' = afterBuys(input.pools, orders)
     /\ held' = settled(0, orders, amountSet)
     /\ outcome' = Finished("issueExact", input.eth, EthOf(orders))

\* what was not spent is not sent back
issueExactSetFromToken_norefund(token, amountSet, maxInput) ==
  LET input == inWETH(pools, token, maxInput)
      orders == getAmountETHForIssuance(input.pools, amountSet)
  IN /\ input.eth > 0 /\ LiquidIn(orders)
     /\ EthOf(orders) <= input.eth
     /\ pools' = afterBuys(input.pools, orders)
     /\ held' = settled(input.eth - EthOf(orders), orders, amountSet)
     /\ outcome' = Finished("issueExact", input.eth, EthOf(orders))

\* The payment is swapped first, the cost looked up after, and the rest refunded.
issueExactSetFromToken(token, amountSet, maxInput) ==
  LET input == inWETH(pools, token, maxInput)
      orders == getAmountETHForIssuance(input.pools, amountSet)
      refund == input.eth - EthOf(orders)
  IN /\ input.eth > 0 /\ LiquidIn(orders)
     /\ EthOf(orders) <= input.eth
     /\ pools' = afterBuys(input.pools, orders)
     /\ held' = settled(input.eth - EthOf(orders) - refund, orders, amountSet)
     /\ outcome' = Finished("issueExact", input.eth, EthOf(orders))

\* The payment is shared out as the components of one whole SetToken cost, each on
\* the exchange that is cheapest for one whole SetToken.
scaledOrders(p, unitOrders, eth) ==
  [i \in DOMAIN unitOrders |->
     LET u == unitOrders[i]
         share == (u.eth * eth) \div EthOf(unitOrders)
     IN [eth |-> share, exchange |-> u.exchange,
         amount |-> IF u.exchange = WETH THEN share
                    ELSE BuyAmount(p, u.exchange, Components[i], share)]]

getSetIssueAmountForETH(p, eth) ==
  LET unitOrders == getAmountETHForIssuance(p, PRECISE_UNIT)
      orders == scaledOrders(p, unitOrders, eth)
  IN [orders |-> orders,
      amount |-> Min({preciseDiv(orders[i].amount, unitOrders[i].amount) :
                        i \in DOMAIN orders})]

issueSetForExactToken(token, amountInput, minSetReceive) ==
  LET input == inWETH(pools, token, amountInput)
      set == getSetIssueAmountForETH(input.pools, input.eth)
  IN /\ input.eth > 0
     /\ LiquidIn(getAmountETHForIssuance(input.pools, PRECISE_UNIT))
     /\ \A i \in DOMAIN set.orders : set.orders[i].eth > 0
     /\ set.amount > minSetReceive
     /\ pools' = afterBuys(input.pools, set.orders)
     /\ held' = settled(input.eth - EthOf(set.orders), set.orders, set.amount)
     /\ outcome' = Finished("issueFor", minSetReceive, set.amount)

\* the WETH sold for the output token, on pools p
bestBuy(p, token, weth) ==
  LET out(e) == IF HasPair(p, e, token) THEN BuyAmount(p, e, token, weth) ELSE 0
  IN IF out(Uniswap) >= out(Sushiswap)
     THEN [amount |-> out(Uniswap), exchange |-> Uniswap]
     ELSE [amount |-> out(Sushiswap), exchange |-> Sushiswap]

\* The output is looked up before the components are sold, on the exchange that is
\* best then, and it is that amount the minimum is compared with; the swap itself
\* comes after the sales, which may have moved the same pool.
redeemExactSetForToken(token, amountSet, minOutput) ==
  LET orders == getAmountETHForRedemption(pools, amountSet)
      eth == EthOf(orders)
      best == bestBuy(pools, token, eth)
      sold == afterSells(pools, orders)
      output == BuyAmount(sold, best.exchange, token, eth)
  IN /\ LiquidOut(orders)
     /\ \/ /\ token = WETH
           /\ eth > minOutput
           /\ pools' = sold
           /\ outcome' = Finished("redeem", minOutput, eth)
        \/ /\ token # WETH
           /\ best.amount > minOutput
           /\ pools' = Bought(sold, best.exchange, token, eth, output)
           /\ outcome' = Finished("redeem", minOutput, output)
     /\ UNCHANGED held

(***************************************************************************)
(* The quotes.  Every price is one call to a router, awaited before the    *)
(* next: reads is the sequence of the answers so far.  A component's price *)
(* is read on Uniswap, then on Sushiswap.  A call to a router reverts when *)
(* the pool is too small, and the quote then throws.                       *)
(***************************************************************************)
Kinds == {"issueExact", "refund", "issueFor", "redeem"}
NoQuote == [kind |-> "none"]

\* the components with a price, in the order of the components
PricedAt == {i \in DOMAIN Components : Components[i] # WETH}
placeOf(i) == Cardinality({j \in PricedAt : j <= i})
Priced == [n \in 1 .. Cardinality(PricedAt) |->
             Components[CHOOSE i \in PricedAt : placeOf(i) = n]]
PairReads == 2 * Len(Priced)

\* which reads a kind of quote makes: before, over and after the components
ReadsBefore(q) == IF q.kind = "issueFor" /\ q.token # WETH THEN 1 ELSE 0
ReadsOver(q) == IF q.kind = "issueFor" THEN 2 * PairReads ELSE PairReads
ReadsAfter(q) ==
  IF q.token = WETH \/ q.kind = "issueFor" THEN 0
  ELSE IF q.kind = "issueExact" THEN 2 ELSE 1
Answered(q) == Len(q.reads) = ReadsBefore(q) + ReadsOver(q) + ReadsAfter(q)

\* the dearer exchange is taken
cheaper_dearer(uni, sushi) == IF sushi < uni THEN uni ELSE sushi
cheaper(uni, sushi) == IF sushi < uni THEN sushi ELSE uni
larger(uni, sushi) == IF sushi > uni THEN sushi ELSE uni

\* the two prices of the j-th priced component, in the pass that starts after read n
PairOf(q, n, c) ==
  LET j == CHOOSE i \in DOMAIN Priced : Priced[i] = c
  IN <<q.reads[n + 2 * j - 1], q.reads[n + 2 * j]>>

\* getInputAmountBestPrice, getIssueExactSetFromETH: the sum over the components
getInputAmountBestPrice(q, c, amount) ==
  IF c = WETH THEN amount
  ELSE cheaper(PairOf(q, ReadsBefore(q), c)[1], PairOf(q, ReadsBefore(q), c)[2])

componentAmount(q, c) == (q.amount * Unit[c]) \div PRECISE_UNIT

getIssueExactSetFromETH(q) ==
  SumFunction(OverComponents(LAMBDA c : getInputAmountBestPrice(q, c, componentAmount(q, c))))

getRedeemExactSetForETH(q) ==
  SumFunction(OverComponents(LAMBDA c :
        IF c = WETH THEN componentAmount(q, c)
        ELSE larger(PairOf(q, 0, c)[1], PairOf(q, 0, c)[2])))

\* getIssueSetForExactETH: a pass for the cost of one whole SetToken, which shares
\* the payment out, and a pass for what each share buys
ethInput(q) == IF q.token = WETH THEN q.amount ELSE q.reads[1]
scaledEth(q, c) ==
  LET unitEth(d) == getInputAmountBestPrice(q, d, Unit[d])
  IN (unitEth(c) * ethInput(q)) \div SumFunction(OverComponents(unitEth))
getIssueSetForExactETH(q) ==
  Min({ LET bought == PairOf(q, ReadsBefore(q) + PairReads, c)
            out == IF c = WETH THEN scaledEth(q, c) ELSE larger(bought[1], bought[2])
        IN preciseDiv(out, Unit[c]) : c \in ToSet(Components) })

\* What a router is asked next: which way the price goes, where, and for how much.
Ask(way, exchange, token, amount) ==
  [way |-> way, exchange |-> exchange, token |-> token, amount |-> amount, checked |-> TRUE]

\* The payment is priced on Uniswap alone, without asking whether there is a pair.
AskUniswap(way, token, amount) ==
  [Ask(way, Uniswap, token, amount) EXCEPT !.checked = FALSE]

ExchangeAt(k) == IF k % 2 = 0 THEN Uniswap ELSE Sushiswap

nextRead(q) ==
  LET k == Len(q.reads) - ReadsBefore(q)
      c == Priced[(k % PairReads) \div 2 + 1]
      e == ExchangeAt(k)
  IN IF k < 0 THEN AskUniswap("sell", q.token, q.amount)
     ELSE IF k < ReadsOver(q)
     THEN CASE q.kind \in {"issueExact", "refund"} ->
                 Ask("buyExact", e, c, componentAmount(q, c))
            [] q.kind = "redeem" -> Ask("sell", e, c, componentAmount(q, c))
            [] q.kind = "issueFor" /\ k < PairReads -> Ask("buyExact", e, c, Unit[c])
            [] OTHER -> Ask("buy", e, c, scaledEth(q, c))
     ELSE CASE q.kind = "issueExact" ->
                 Ask("sellFor", e, q.token, getIssueExactSetFromETH(q))
            [] q.kind = "refund" -> AskUniswap("sell", q.token, q.paid)
            [] OTHER -> AskUniswap("buy", q.token, getRedeemExactSetForETH(q))

\* a router's error, and its answer; where there is no pair the router is not asked
throws(ask) ==
  LET pool == pools[ask.exchange][ask.token]
      paired == HasPair(pools, ask.exchange, ask.token)
  IN \/ ~paired /\ ~ask.checked
     \/ paired /\ ask.amount = 0
     \/ paired /\ ask.way = "buyExact" /\ ask.amount >= pool.token
     \/ paired /\ ask.way = "sellFor" /\ ask.amount >= pool.weth

answer(ask) ==
  LET pool == pools[ask.exchange][ask.token]
  IN IF ~HasPair(pools, ask.exchange, ask.token)
     THEN IF ask.way \in {"buyExact", "sellFor"} THEN MAX_UINT_256 ELSE 0
     ELSE CASE ask.way = "buyExact" -> getAmountIn(ask.amount, pool.weth, pool.token)
            [] ask.way = "sellFor" -> getAmountIn(ask.amount, pool.token, pool.weth)
            [] ask.way = "buy" -> getAmountOut(ask.amount, pool.weth, pool.token)
            [] OTHER -> getAmountOut(ask.amount, pool.token, pool.weth)

lastRead(q) == q.reads[Len(q.reads)]

getIssueExactSetFromToken(q) ==
  IF q.token = WETH THEN getIssueExactSetFromETH(q)
  ELSE cheaper(q.reads[Len(q.reads) - 1], lastRead(q))

getIssueExactSetFromTokenRefund(q) ==
  (IF q.token = WETH THEN q.paid ELSE lastRead(q)) - getIssueExactSetFromETH(q)

getRedeemExactSetForToken(q) ==
  IF q.token = WETH THEN getRedeemExactSetForETH(q) ELSE lastRead(q)

result(q) ==
  CASE q.kind = "issueFor" -> getIssueSetForExactETH(q)
    [] q.kind = "redeem" -> getRedeemExactSetForToken(q)
    [] q.kind = "issueExact" -> getIssueExactSetFromToken(q)
    [] OTHER -> getIssueExactSetFromTokenRefund(q)

(***************************************************************************)
(* Actions.                                                                *)
(***************************************************************************)
requestQuote(kind, token, amount, paid) ==
  /\ quote = NoQuote
  /\ calls < MaxCalls
  /\ quote' = [kind |-> kind, token |-> token, amount |-> amount, paid |-> paid,
               reads |-> <<>>, since |-> trades]
  /\ calls' = calls + 1
  /\ UNCHANGED <<pools, held, outcome, trades>>

read ==
  /\ quote # NoQuote /\ ~Answered(quote)
  /\ quote' = IF throws(nextRead(quote)) THEN NoQuote
              ELSE [quote EXCEPT !.reads = Append(@, answer(nextRead(quote)))]
  /\ UNCHANGED <<pools, held, outcome, trades, calls>>

\* The user sends the transaction with what the quote said, give or take a slippage.
submit(slippage) ==
  /\ quote # NoQuote /\ Answered(quote)
  /\ \/ /\ quote.kind = "issueExact"
        /\ result(quote) + slippage <= MaxBalance
        /\ issueExactSetFromToken(quote.token, quote.amount, result(quote) + slippage)
     \/ /\ quote.kind = "refund"
        /\ issueExactSetFromToken(quote.token, quote.amount, quote.paid)
     \/ /\ quote.kind = "issueFor" /\ result(quote) >= slippage
        /\ issueSetForExactToken(quote.token, quote.amount, result(quote) - slippage)
     \/ /\ quote.kind = "redeem" /\ result(quote) >= slippage
        /\ redeemExactSetForToken(quote.token, quote.amount, result(quote) - slippage)
  /\ quote' = NoQuote
  /\ UNCHANGED <<trades, calls>>

\* a transaction that reverts, or is never sent
discard ==
  /\ quote # NoQuote /\ Answered(quote)
  /\ quote' = NoQuote
  /\ UNCHANGED <<pools, held, outcome, trades, calls>>

othersTrade(e, token, amount) ==
  /\ trades < MaxTrades
  /\ HasPair(pools, e, token)
  /\ \/ LET out == BuyAmount(pools, e, token, amount)
        IN out > 0 /\ pools' = Bought(pools, e, token, amount, out)
     \/ LET out == SellAmount(pools, e, token, amount)
        IN out > 0 /\ pools' = Sold(pools, e, token, amount, out)
  /\ trades' = trades + 1
  /\ UNCHANGED <<quote, held, outcome, calls>>

Init ==
  /\ pools = InitialPools
  /\ quote = NoQuote
  /\ held = [t \in Tokens \union {WETH} |-> 0]
  /\ outcome = Finished("none", 0, 0)
  /\ trades = 0
  /\ calls = 0

Next ==
  \/ \E kind \in {"issueExact", "redeem"}, token \in Tokens \union {WETH}, s \in SetAmounts :
       requestQuote(kind, token, s, 0)
  \/ \E token \in Tokens \union {WETH}, s \in SetAmounts, paid \in Inputs :
       requestQuote("refund", token, s, paid)
  \/ \E token \in Tokens \union {WETH}, amount \in Inputs : requestQuote("issueFor", token, amount, 0)
  \/ read
  \/ \E slippage \in Slippages : submit(slippage)
  \/ discard
  \/ \E e \in Exchanges, token \in Tokens, amount \in SwapAmounts : othersTrade(e, token, amount)

Spec == Init /\ [][Next]_vars

(***************************************************************************)
(* Properties.                                                             *)
(***************************************************************************)
\* Whatever others trade between the reads of a quote and the transaction, a user
\* never pays more than offered and never receives less than asked for
\* (issueExactSetFromToken, issueSetForExactToken, redeemExactSetForToken).  The
\* amount received is what the last swap brings, which is made on other pools than
\* the ones the contract compared with the minimum.
UserProtected ==
  \/ outcome.kind = "none"
  \/ outcome.kind = "issueExact" /\ outcome.result <= outcome.limit
  \/ outcome.kind \in {"issueFor", "redeem"} /\ outcome.result > outcome.limit

\* No call is paid out of what earlier calls left behind in ExchangeIssuance, which
\* never looks at its balances: what is bought of each component covers what
\* BasicIssuanceModule.issue pulls.  Only issueSetForExactToken leaves anything behind.
ResidueUntouched ==
  [][/\ \A t \in DOMAIN held : held'[t] >= held[t]
     /\ outcome'.kind # "issueFor" => held' = held]_vars

\* A quote nobody has traded against since it was begun brackets what the contract
\* does (exchangeIssuanceUtils.ts against ExchangeIssuance.sol): the cost of an exact
\* issuance is never overestimated, as the quote rounds each component down and the
\* contract up; a redemption for WETH is exact and one for a token not overestimated;
\* and an issuance for exact WETH is not underestimated, as the second pass of the
\* quote chooses the exchange anew.
FreshQuoteBrackets ==
  quote # NoQuote /\ Answered(quote) /\ quote.since = trades =>
    LET issuance == getAmountETHForIssuance(pools, quote.amount)
        redemption == getAmountETHForRedemption(pools, quote.amount)
    IN CASE quote.kind \in {"issueExact", "refund"} ->
              LiquidIn(issuance) => getIssueExactSetFromETH(quote) <= EthOf(issuance)
         [] quote.kind = "redeem" ->
              LiquidOut(redemption) =>
                IF quote.token = WETH THEN result(quote) = EthOf(redemption)
                ELSE result(quote) <= bestBuy(pools, quote.token, EthOf(redemption)).amount
         [] OTHER ->
              quote.token = WETH /\ LiquidIn(getAmountETHForIssuance(pools, PRECISE_UNIT)) =>
                result(quote) >= getSetIssueAmountForETH(pools, quote.amount).amount

=============================================================================
