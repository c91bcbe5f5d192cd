----------------------- MODULE ExchangeIssuanceProofs -----------------------
(***************************************************************************)
(* What ExchangeIssuance promises its users, for any number of components, *)
(* any pools and any trades by others between a quote and its use.         *)
(***************************************************************************)
EXTENDS ExchangeIssuance, PreciseUnitMathProofs, SumTheorems

(***************************************************************************)
(* The constant-product formulas.                                          *)
(***************************************************************************)
LEMMA FeesTyped == FEE \in Nat \ {0} /\ FEE_SCALE \in Nat \ {0}
BY ExchangeIssuanceAssumption

\* A swap never empties a pool.
LEMMA AmountOutBelowReserve ==
  ASSUME NEW x \in Nat, NEW i \in Nat \ {0}, NEW o \in Nat \ {0}
  PROVE  getAmountOut(x, i, o) \in Nat /\ getAmountOut(x, i, o) < o
<1> DEFINE a == x * FEE
           d == i * FEE_SCALE + a
           out == (a * o) \div d
<1>1. a \in Nat /\ i * FEE_SCALE \in Nat \ {0}
  BY FeesTyped
<1> HIDE DEF a
<1>2. d \in Nat \ {0} /\ a < d /\ a * o \in Nat
  BY <1>1
<1> HIDE DEF d
<1>3. out \in Nat /\ out * d <= a * o
  BY <1>2, DivRoundsDown
<1>4. ASSUME out >= o PROVE FALSE
  <2> HIDE DEF out
  <2>1. o * d <= out * d
    BY <1>2, <1>3, <1>4, ProductIsMonotone
  <2>2. o * d \in Nat /\ out * d \in Nat
    BY <1>2, <1>3, ProductIsNat
  <2>3. o * d <= a * o /\ a * o = o * a
    BY <1>1, <1>2, <1>3, <2>1, <2>2
  <2>4. d <= a
    BY <1>1, <1>2, <2>3, CancelFactor
  <2> QED
    BY <1>1, <1>2, <2>4
<1>5. getAmountOut(x, i, o) = out
  BY DEF getAmountOut, out, d, a
<1> HIDE DEF out
<1> QED
  BY <1>3, <1>4, <1>5

\* What is received grows when the pool has less of what is paid and more of
\* what is bought.
LEMMA AmountOutGrows ==
  ASSUME NEW x \in Nat, NEW i \in Nat \ {0}, NEW j \in Nat \ {0}, j <= i,
         NEW o \in Nat \ {0}, NEW r \in Nat \ {0}, o <= r
  PROVE  getAmountOut(x, i, o) <= getAmountOut(x, j, r)
<1> DEFINE a == x * FEE
           d == i * FEE_SCALE + a
           e == j * FEE_SCALE + a
           out == (a * o) \div d
<1>1. a \in Nat /\ FEE_SCALE \in Nat \ {0}
  BY FeesTyped
<1> HIDE DEF a
<1>2. /\ i * FEE_SCALE \in Nat \ {0} /\ j * FEE_SCALE \in Nat \ {0}
      /\ j * FEE_SCALE <= i * FEE_SCALE
  BY <1>1, ProductIsMonotone
<1>3. d \in Nat \ {0} /\ e \in Nat \ {0} /\ e <= d
  BY <1>1, <1>2
<1> HIDE DEF d, e
<1>4. a * o \in Nat /\ a * r \in Nat /\ a * o <= a * r
  BY <1>1, ProductIsMonotone
<1>5. out \in Nat /\ out * d <= a * o
  BY <1>3, <1>4, DivRoundsDown
<1> HIDE DEF out
<1>6. out * e <= a * r
  <2>1. out * e <= out * d /\ out * e \in Nat /\ out * d \in Nat
    BY <1>3, <1>5, ProductIsMonotone
  <2> QED
    BY <1>4, <1>5, <2>1
<1>7. out <= (a * r) \div e
  BY <1>3, <1>4, <1>5, <1>6, DivAtLeast
<1> QED
  BY <1>7 DEF getAmountOut, out, d, e, a

\* The price of an amount that a pool has is positive, and grows with the amount.
LEMMA AmountInGrows ==
  ASSUME NEW i \in Nat \ {0}, NEW o \in Nat \ {0}, NEW x \in Nat, NEW y \in Nat, x <= y, y < o
  PROVE  /\ getAmountIn(x, i, o) \in Nat \ {0}
         /\ getAmountIn(x, i, o) <= getAmountIn(y, i, o)
<1> DEFINE n == i * x * FEE_SCALE
           m == i * y * FEE_SCALE
           d == (o - x) * FEE
           e == (o - y) * FEE
<1>0. FEE \in Nat \ {0} /\ FEE_SCALE \in Nat \ {0}
  BY FeesTyped
<1>1. n \in Nat /\ m \in Nat /\ n <= m
  <2>1. i * x \in Nat /\ i * y \in Nat /\ i * x <= i * y
    BY ProductIsMonotone
  <2> QED
    BY <1>0, <2>1, ProductIsMonotone
<1>2. d \in Nat \ {0} /\ e \in Nat \ {0} /\ e <= d
  <2>1. o - x \in Nat \ {0} /\ o - y \in Nat \ {0} /\ o - y <= o - x
    OBVIOUS
  <2> QED
    BY <1>0, <2>1, ProductIsMonotone
<1>3. getAmountIn(x, i, o) = n \div d + 1 /\ getAmountIn(y, i, o) = m \div e + 1
  BY DEF getAmountIn
<1> HIDE DEF n, m, d, e
<1> DEFINE q == n \div d
<1>4. q \in Nat /\ q * d <= n /\ m \div e \in Nat
  BY <1>1, <1>2, DivRoundsDown
<1> HIDE DEF q
<1>5. q * e <= m
  <2>1. q * e <= q * d /\ q * e \in Nat /\ q * d \in Nat
    BY <1>2, <1>4, ProductIsMonotone
  <2> QED
    BY <1>1, <1>4, <2>1
<1>6. q <= m \div e
  BY <1>1, <1>2, <1>4, <1>5, DivAtLeast
<1> QED
  BY <1>3, <1>4, <1>6 DEF q

(***************************************************************************)
(* The components.                                                         *)
(***************************************************************************)
Places == DOMAIN Components

LEMMA ComponentsTyped ==
  /\ Places = 1 .. Len(Components) /\ Len(Components) \in Nat \ {0}
  /\ IsFiniteSet(Places) /\ Places # {}
  /\ \A i \in Places : /\ Components[i] \in Tokens \union {WETH}
                       /\ Components[i] \in ToSet(Components)
                       /\ Unit[Components[i]] \in Nat \ {0}
                       /\ IndexOf(Components[i]) = i
<1>1. Components \in Seq(Tokens \union {WETH}) /\ Components # <<>>
  BY ExchangeIssuanceAssumption
<1>2. Places = 1 .. Len(Components) /\ Len(Components) \in Nat \ {0}
  BY <1>1 DEF Places
<1>3. IsFiniteSet(Places) /\ Places # {}
  <2>1. 1 \in Int /\ Len(Components) \in Int /\ 1 \in 1 .. Len(Components)
    BY <1>2
  <2>2. IsFiniteSet(1 .. Len(Components))
    BY <2>1, FS_Interval
  <2> QED
    BY <1>2, <2>1, <2>2
<1>4. ASSUME NEW i \in Places
      PROVE  /\ Components[i] \in Tokens \union {WETH}
             /\ Components[i] \in ToSet(Components)
             /\ Unit[Components[i]] \in Nat \ {0}
             /\ IndexOf(Components[i]) = i
  <2>1. Components[i] \in Tokens \union {WETH}
    BY <1>1 DEF Places
  <2>2. Components[i] \in ToSet(Components)
    BY DEF ToSet, Places
  <2>3. Unit[Components[i]] \in Nat \ {0}
    BY <2>2, ExchangeIssuanceAssumption
  <2>4. \A k \in DOMAIN Components : Components[k] = Components[i] => k = i
    BY ExchangeIssuanceAssumption DEF IsInjective, Places
  <2>5. IndexOf(Components[i]) = i
    BY <2>4 DEF IndexOf, Places
  <2> QED
    BY <2>1, <2>2, <2>3, <2>5
<1> QED
  BY <1>2, <1>3, <1>4

\* A component is at its index.
LEMMA IndexOfComponent ==
  ASSUME NEW t \in ToSet(Components)
  PROVE  IndexOf(t) \in Places /\ Components[IndexOf(t)] = t
<1>1. \E i \in DOMAIN Components : Components[i] = t
  BY DEF ToSet
<1> QED
  BY <1>1 DEF IndexOf, Places

(***************************************************************************)
(* The orders of a transaction.                                            *)
(***************************************************************************)
PoolsOK(p) == p \in [Exchanges -> [Tokens -> Pools]]

LEMMA PoolTyped ==
  ASSUME NEW p, PoolsOK(p), NEW e \in Exchanges, NEW t \in Tokens
  PROVE  /\ HasPair(p, e, t) => p[e][t].weth \in Nat \ {0} /\ p[e][t].token \in Nat \ {0}
         /\ ~HasPair(p, e, t) => p[e][t].weth = 0 /\ p[e][t].token = 0
BY DEF PoolsOK, Pools, HasPair, NoPool

LEMMA ExchangesAreTwo ==
  Uniswap \in Exchanges /\ Sushiswap \in Exchanges /\ WETH \notin Exchanges
BY ExchangeIssuanceAssumption DEF Exchanges

\* What a pool has can be bought, and has a price.
LEMMA BuyCostTyped ==
  ASSUME NEW p, NEW e, NEW t, NEW x \in Nat, p[e][t].token > x,
         p[e][t].weth \in Nat \ {0}, p[e][t].token \in Nat \ {0}
  PROVE  BuyCost(p, e, t, x) \in Nat \ {0}
<1> DEFINE i == p[e][t].weth
           o == p[e][t].token
<1>1. i \in Nat \ {0} /\ o \in Nat \ {0} /\ x <= x /\ x < o
  OBVIOUS
<1> HIDE DEF i, o
<1>2. getAmountIn(x, i, o) \in Nat \ {0}
  BY <1>1, AmountInGrows
<1> QED
  BY <1>2 DEF BuyCost, i, o

\* An order to buy: the WETH it needs, and where.
LEMMA BuyOrderTyped ==
  ASSUME NEW p, PoolsOK(p), NEW t \in Tokens \union {WETH}, NEW x \in Nat
  PROVE  LET o == getMinTokenForExactToken(p, t, x)
         IN /\ o.eth \in Nat
            /\ t = WETH => o.exchange = WETH /\ o.eth = x
            /\ t # WETH => o.exchange \in Exchanges /\ o.eth > 0
            /\ t # WETH /\ o.eth < MAX_UINT_256 =>
                 /\ HasPair(p, o.exchange, t) /\ p[o.exchange][t].token > x
<1>1. CASE t = WETH
  BY <1>1 DEF getMinTokenForExactToken
<1>2. CASE t # WETH
  <2>0. t \in Tokens
    BY <1>2
  <2>1. ASSUME NEW e \in Exchanges
        PROVE  /\ minIn(p, e, t, x) \in Nat \ {0}
               /\ minIn(p, e, t, x) < MAX_UINT_256 => HasPair(p, e, t) /\ p[e][t].token > x
    <3>1. CASE HasPair(p, e, t) /\ p[e][t].token > x
      <4>1. p[e][t].weth \in Nat \ {0} /\ p[e][t].token \in Nat \ {0}
        BY <2>0, <3>1, PoolTyped
      <4>2. BuyCost(p, e, t, x) \in Nat \ {0}
        BY <3>1, <4>1, BuyCostTyped
      <4> QED
        BY <3>1, <4>2 DEF minIn
    <3>2. CASE ~(HasPair(p, e, t) /\ p[e][t].token > x)
      <4>1. minIn(p, e, t, x) = MAX_UINT_256
        BY <3>2 DEF minIn
      <4> QED
        BY <4>1, ExchangeIssuanceAssumption
    <3> QED
      BY <3>1, <3>2
  <2> QED
    BY <1>2, <2>1, ExchangesAreTwo DEF getMinTokenForExactToken
<1> QED
  BY <1>1, <1>2

\* An order to sell: the WETH it brings, and where.
LEMMA SellOrderTyped ==
  ASSUME NEW p, PoolsOK(p), NEW t \in Tokens \union {WETH}, NEW x \in Nat
  PROVE  LET o == getMaxTokenForExactToken(p, t, x)
         IN /\ o.eth \in Nat
            /\ t = WETH => o.exchange = WETH /\ o.eth = x
            /\ t # WETH => o.exchange \in Exchanges
            /\ t # WETH /\ o.eth > 0 =>
                 HasPair(p, o.exchange, t) /\ o.eth < p[o.exchange][t].weth
<1>1. CASE t = WETH
  BY <1>1 DEF getMaxTokenForExactToken
<1>2. CASE t # WETH
  <2>0. t \in Tokens
    BY <1>2
  <2>1. ASSUME NEW e \in Exchanges
        PROVE  /\ maxOut(p, e, t, x) \in Nat
               /\ maxOut(p, e, t, x) > 0 => HasPair(p, e, t) /\ maxOut(p, e, t, x) < p[e][t].weth
    <3>1. CASE HasPair(p, e, t)
      <4>1. p[e][t].weth \in Nat \ {0} /\ p[e][t].token \in Nat \ {0}
        BY <2>0, <3>1, PoolTyped
      <4>2. SellAmount(p, e, t, x) \in Nat /\ SellAmount(p, e, t, x) < p[e][t].weth
        BY <4>1, AmountOutBelowReserve DEF SellAmount
      <4> QED
        BY <3>1, <4>2 DEF maxOut
    <3>2. CASE ~HasPair(p, e, t)
      BY <3>2 DEF maxOut
    <3> QED
      BY <3>1, <3>2
  <2> QED
    BY <1>2, <2>1, ExchangesAreTwo DEF getMaxTokenForExactToken
<1> QED
  BY <1>1, <1>2

\* A swap leaves every pool with liquidity on both sides.
LEMMA SoldKeepsPools ==
  ASSUME NEW p, PoolsOK(p), NEW e \in Exchanges, NEW t \in Tokens, HasPair(p, e, t),
         NEW x \in Nat, NEW w \in Nat, w < p[e][t].weth
  PROVE  PoolsOK(Sold(p, e, t, x, w))
<1>1. p[e][t].weth \in Nat \ {0} /\ p[e][t].token \in Nat \ {0}
  BY PoolTyped
<1>2. soldTo(p[e][t], x, w) \in Pools
  BY <1>1 DEF soldTo, Pools
<1> QED
  BY <1>2 DEF Sold, PoolsOK

LEMMA BoughtKeepsPools ==
  ASSUME NEW p, PoolsOK(p), NEW e \in Exchanges, NEW t \in Tokens, HasPair(p, e, t),
         NEW x \in Nat, NEW w \in Nat, x < p[e][t].token
  PROVE  PoolsOK(Bought(p, e, t, w, x))
<1>1. p[e][t].weth \in Nat \ {0} /\ p[e][t].token \in Nat \ {0}
  BY PoolTyped
<1>2. boughtFrom(p[e][t], w, x) \in Pools
  BY <1>1 DEF boughtFrom, Pools
<1> QED
  BY <1>2 DEF Bought, PoolsOK

\* The WETH a payment is worth, and the pools after it.
LEMMA PaymentTyped ==
  ASSUME NEW p, PoolsOK(p), NEW t \in Tokens \union {WETH}, NEW x \in Nat,
         inWETH(p, t, x).eth > 0
  PROVE  inWETH(p, t, x).eth \in Nat \ {0} /\ PoolsOK(inWETH(p, t, x).pools)
<1> DEFINE o == getMaxTokenForExactToken(p, t, x)
<1>1. CASE t = WETH
  BY <1>1 DEF inWETH
<1>2. CASE t # WETH
  <2>1. o.eth > 0
    BY <1>2 DEF inWETH
  <2>2. /\ o.eth \in Nat /\ o.exchange \in Exchanges /\ t \in Tokens
        /\ HasPair(p, o.exchange, t) /\ o.eth < p[o.exchange][t].weth
    BY <1>2, <2>1, SellOrderTyped
  <2>3. PoolsOK(Sold(p, o.exchange, t, x, o.eth))
    BY <2>2, SoldKeepsPools
  <2> QED
    BY <1>2, <2>1, <2>2, <2>3 DEF inWETH
<1> QED
  BY <1>1, <1>2

\* What is rounded up or down of a component is a natural number.
LEMMA AmountsTyped ==
  ASSUME NEW c \in ToSet(Components), NEW s \in Nat
  PROVE  /\ Unit[c] \in Nat \ {0}
         /\ preciseMulCeil(Unit[c], s) \in Nat /\ preciseMul(Unit[c], s) \in Nat
         /\ preciseMul(Unit[c], s) <= preciseMulCeil(Unit[c], s)
<1>1. Unit[c] \in Nat \ {0}
  BY ExchangeIssuanceAssumption
<1> DEFINE u == Unit[c]
<1>2. u \in Nat /\ u <= u
  BY <1>1
<1> HIDE DEF u
<1>3. preciseMulCeil(u, s) \in Nat /\ preciseMul(u, s) \in Nat
  BY <1>2, PreciseMulCeilRoundsUp, PreciseMulRoundsDown
<1>4. preciseMul(u, s) <= preciseMulCeil(u, s)
  BY <1>2, PreciseMulIsMonotone
<1> QED
  BY <1>1, <1>3, <1>4 DEF u

\* The orders of an issuance.
LEMMA IssuanceOrders ==
  ASSUME NEW p, NEW s
  PROVE  LET orders == getAmountETHForIssuance(p, s)
         IN /\ DOMAIN orders = Places
            /\ \A i \in Places :
                 LET best == getMinTokenForExactToken(p, Components[i], orders[i].amount)
                 IN /\ orders[i].amount = preciseMulCeil(Unit[Components[i]], s)
                    /\ orders[i].eth = best.eth /\ orders[i].exchange = best.exchange
BY DEF getAmountETHForIssuance, OverComponents, Places

LEMMA RedemptionOrders ==
  ASSUME NEW p, NEW s
  PROVE  LET orders == getAmountETHForRedemption(p, s)
         IN /\ DOMAIN orders = Places
            /\ \A i \in Places :
                 LET best == getMaxTokenForExactToken(p, Components[i], orders[i].amount)
                 IN /\ orders[i].amount = preciseMul(Unit[Components[i]], s)
                    /\ orders[i].eth = best.eth /\ orders[i].exchange = best.exchange
BY DEF getAmountETHForRedemption, OverComponents, Places

\* The orders of a transaction that can be filled: each component is bought where
\* there is more of it.
Fillable(p, orders) ==
  /\ DOMAIN orders = Places
  /\ \A i \in Places : orders[i].eth \in Nat /\ orders[i].amount \in Nat
  /\ \A i \in Places : Components[i] # WETH =>
       LET e == orders[i].exchange
       IN e \in Exchanges /\ HasPair(p, e, Components[i]) /\ orders[i].amount < p[e][Components[i]].token

LEMMA BuysKeepPools ==
  ASSUME NEW p, PoolsOK(p), NEW orders, Fillable(p, orders)
  PROVE  PoolsOK(afterBuys(p, orders))
<1>1. ASSUME NEW e \in Exchanges, NEW t \in Tokens
      PROVE  afterBuys(p, orders)[e][t] \in Pools
  <2>1. CASE IsOrdered(orders, e, t)
    <3> DEFINE i == IndexOf(t)
               x == orders[i].amount
               w == orders[i].eth
    <3>1. i \in Places /\ Components[i] = t /\ orders[i].exchange = e
      BY <2>1, IndexOfComponent DEF IsOrdered
    <3>2. t # WETH
      BY ExchangeIssuanceAssumption
    <3> HIDE DEF i
    <3>3. w \in Nat /\ x \in Nat /\ HasPair(p, e, t) /\ x < p[e][t].token
      BY <3>1, <3>2 DEF Fillable
    <3> HIDE DEF x, w
    <3>4. p[e][t].weth \in Nat \ {0} /\ p[e][t].token \in Nat \ {0}
      BY <3>3, PoolTyped
    <3>5. boughtFrom(p[e][t], w, x) \in Pools
      BY <3>3, <3>4 DEF boughtFrom, Pools
    <3> QED
      BY <2>1, <3>5 DEF afterBuys, i, x, w
  <2>2. CASE ~IsOrdered(orders, e, t)
    BY <2>2 DEF afterBuys, PoolsOK
  <2> QED
    BY <2>1, <2>2
<1> QED
  BY <1>1 DEF PoolsOK, afterBuys

\* A liquid issuance can be filled.
LEMMA IssuanceIsFillable ==
  ASSUME NEW p, PoolsOK(p), NEW s \in Nat, LiquidIn(getAmountETHForIssuance(p, s))
  PROVE  Fillable(p, getAmountETHForIssuance(p, s))
<1> DEFINE orders == getAmountETHForIssuance(p, s)
<1>1. DOMAIN orders = Places
  BY IssuanceOrders
<1>2. ASSUME NEW i \in Places
      PROVE  /\ orders[i].eth \in Nat /\ orders[i].amount \in Nat
             /\ Components[i] # WETH =>
                  LET e == orders[i].exchange
                  IN /\ e \in Exchanges /\ HasPair(p, e, Components[i])
                     /\ orders[i].amount < p[e][Components[i]].token
  <2> DEFINE c == Components[i]
             x == orders[i].amount
             best == getMinTokenForExactToken(p, c, x)
  <2>1. c \in Tokens \union {WETH} /\ c \in ToSet(Components)
    BY ComponentsTyped
  <2>2. x = preciseMulCeil(Unit[c], s) /\ orders[i].eth = best.eth /\ orders[i].exchange = best.exchange
    BY IssuanceOrders
  <2>3. best.eth < MAX_UINT_256
    BY <1>1, <2>2 DEF LiquidIn
  <2>4. x \in Nat
    BY <2>1, <2>2, AmountsTyped
  <2> HIDE DEF orders, c, x
  <2>5. /\ best.eth \in Nat
        /\ c # WETH => /\ best.exchange \in Exchanges /\ HasPair(p, best.exchange, c)
                       /\ p[best.exchange][c].token > x
    BY <2>1, <2>3, <2>4, BuyOrderTyped
  <2>6. ASSUME c # WETH PROVE p[best.exchange][c].token \in Nat
    <3>1. c \in Tokens
      BY <2>1, <2>6
    <3> QED
      BY <2>5, <2>6, <3>1, PoolTyped
  <2> HIDE DEF best
  <2>7. c # WETH => x < p[best.exchange][c].token
    BY <2>4, <2>5, <2>6
  <2> QED
    BY <2>2, <2>4, <2>5, <2>7 DEF c, x
<1> QED
  BY <1>1, <1>2 DEF Fillable

\* The sales of a redemption leave every pool with liquidity, less WETH and more
\* of the component.
LEMMA SalesKeepPools ==
  ASSUME NEW p, PoolsOK(p), NEW s \in Nat, LiquidOut(getAmountETHForRedemption(p, s))
  PROVE  LET sold == afterSells(p, getAmountETHForRedemption(p, s))
         IN /\ PoolsOK(sold)
            /\ \A e \in Exchanges, t \in Tokens :
                 /\ HasPair(p, e, t) = HasPair(sold, e, t)
                 /\ sold[e][t].weth <= p[e][t].weth /\ p[e][t].token <= sold[e][t].token
<1> DEFINE orders == getAmountETHForRedemption(p, s)
           sold == afterSells(p, orders)
<1>1. ASSUME NEW e \in Exchanges, NEW t \in Tokens
      PROVE  /\ sold[e][t] \in Pools
             /\ HasPair(p, e, t) = HasPair(sold, e, t)
             /\ sold[e][t].weth <= p[e][t].weth /\ p[e][t].token <= sold[e][t].token
  <2>0. t # WETH /\ e # WETH /\ p[e][t] \in Pools
    BY ExchangeIssuanceAssumption DEF PoolsOK
  <2>1. CASE IsOrdered(orders, e, t)
    <3> DEFINE i == IndexOf(t)
               x == orders[i].amount
               w == orders[i].eth
    <3>1. i \in Places /\ Components[i] = t /\ orders[i].exchange = e /\ t \in ToSet(Components)
      BY <2>1, IndexOfComponent DEF IsOrdered
    <3>2. /\ x = preciseMul(Unit[t], s) /\ w = getMaxTokenForExactToken(p, t, x).eth
          /\ e = getMaxTokenForExactToken(p, t, x).exchange
      BY <3>1, RedemptionOrders
    <3>3. w > 0
      BY <2>0, <3>1, RedemptionOrders DEF LiquidOut
    <3>4. x \in Nat
      BY <3>1, <3>2, AmountsTyped
    <3>5. sold[e][t] = soldTo(p[e][t], x, w)
      BY <2>1 DEF afterSells
    <3> HIDE DEF x, w, i, sold, orders
    <3>6. HasPair(p, e, t) /\ w < p[e][t].weth /\ w \in Nat
      BY <2>0, <3>2, <3>3, <3>4, SellOrderTyped
    <3>7. p[e][t].weth \in Nat \ {0} /\ p[e][t].token \in Nat \ {0}
      BY <3>6, PoolTyped
    <3>8. sold[e][t] = [weth |-> p[e][t].weth - w, token |-> p[e][t].token + x]
      BY <3>5 DEF soldTo
    <3>9. p[e][t].weth - w \in Nat \ {0} /\ p[e][t].token + x \in Nat \ {0}
      BY <3>3, <3>4, <3>6, <3>7
    <3> QED
      BY <3>4, <3>6, <3>7, <3>8, <3>9 DEF Pools, HasPair, NoPool
  <2>2. CASE ~IsOrdered(orders, e, t)
    <3>1. sold[e][t] = p[e][t]
      BY <2>2 DEF afterSells
    <3>2. p[e][t].weth \in Nat /\ p[e][t].token \in Nat
      BY <2>0 DEF Pools, NoPool
    <3> HIDE DEF sold
    <3> QED
      BY <2>0, <3>1, <3>2 DEF HasPair
  <2> QED
    BY <2>1, <2>2
<1>2. PoolsOK(sold)
  BY <1>1 DEF PoolsOK, afterSells
<1> HIDE DEF sold
<1> QED
  BY <1>1, <1>2 DEF sold

(***************************************************************************)
(* The components with a price.                                            *)
(***************************************************************************)
\* Every place from the first to the last is taken by one component.
LEMMA PlacesAreTaken ==
  /\ IsFiniteSet(PricedAt) /\ Cardinality(PricedAt) \in Nat
  /\ \A i \in PricedAt : placeOf(i) \in 1 .. Cardinality(PricedAt)
  /\ \A i, j \in PricedAt : placeOf(i) = placeOf(j) => i = j
  /\ \A n \in 1 .. Cardinality(PricedAt) : \E i \in PricedAt : placeOf(i) = n
<1> DEFINE N == Cardinality(PricedAt)
           upTo(i) == {j \in PricedAt : j <= i}
           f == [i \in PricedAt |-> placeOf(i)]
<1>1. PricedAt \subseteq Places /\ PricedAt \subseteq Nat
  BY ComponentsTyped DEF PricedAt, Places
<1>2. IsFiniteSet(PricedAt) /\ N \in Nat
  BY <1>1, ComponentsTyped, FS_Subset, FS_CardinalityType
<1>3. ASSUME NEW i \in PricedAt
      PROVE  /\ IsFiniteSet(upTo(i)) /\ placeOf(i) = Cardinality(upTo(i))
             /\ placeOf(i) \in 1 .. N
  <2>1. upTo(i) \in SUBSET PricedAt /\ i \in upTo(i)
    BY <1>1
  <2>2. IsFiniteSet(upTo(i)) /\ Cardinality(upTo(i)) <= N
    BY <1>2, <2>1, FS_Subset
  <2>3. Cardinality(upTo(i)) \in Nat /\ Cardinality(upTo(i)) # 0
    <3> HIDE DEF upTo
    <3> QED
      BY <2>1, <2>2, FS_CardinalityType, FS_EmptySet
  <2>4. placeOf(i) = Cardinality(upTo(i))
    BY DEF placeOf
  <2> HIDE DEF upTo, N
  <2> QED
    BY <1>2, <2>2, <2>3, <2>4
<1>4. ASSUME NEW i \in PricedAt, NEW j \in PricedAt, placeOf(i) = placeOf(j), i <= j
      PROVE  i = j
  <2>1. upTo(i) \in SUBSET upTo(j)
    <3>1. ASSUME NEW k \in PricedAt, k <= i PROVE k <= j
      BY <1>1, <1>4, <3>1
    <3> QED
      BY <3>1
  <2>2. j \in upTo(j)
    BY <1>1
  <2>3. upTo(i) = upTo(j)
    <3>1. IsFiniteSet(upTo(j)) /\ Cardinality(upTo(i)) = Cardinality(upTo(j))
      BY <1>3, <1>4
    <3> HIDE DEF upTo
    <3> QED
      BY <2>1, <3>1, FS_Subset
  <2>4. j <= i
    BY <2>2, <2>3
  <2> QED
    BY <1>1, <1>4, <2>4
<1>5. ASSUME NEW i \in PricedAt, NEW j \in PricedAt, placeOf(i) = placeOf(j) PROVE i = j
  <2>1. i <= j \/ j <= i
    BY <1>1
  <2> QED
    BY <1>4, <1>5, <2>1
<1>6. f \in Injection(PricedAt, 1 .. N)
  BY <1>3, <1>5 DEF Injection, IsInjective
<1>7. f \in Surjection(PricedAt, 1 .. N)
  <2>1. IsFiniteSet(1 .. N) /\ Cardinality(1 .. N) = N
    <3>1. 1 \in Int /\ N \in Int
      BY <1>2
    <3>2. /\ IsFiniteSet(1 .. N)
          /\ Cardinality(1 .. N) = IF 1 > N THEN 0 ELSE N - 1 + 1
      BY <3>1, FS_Interval
    <3> HIDE DEF N
    <3> QED
      BY <1>2, <3>2
  <2> HIDE DEF f
  <2> QED
    BY <1>2, <1>6, <2>1, FS_Injection
<1>8. \A n \in 1 .. N : \E i \in PricedAt : f[i] = n
  BY <1>7 DEF Surjection
<1> QED
  BY <1>2, <1>3, <1>5, <1>8

LEMMA PricedTyped ==
  /\ Len(Priced) \in Nat /\ DOMAIN Priced = 1 .. Len(Priced)
  /\ \A n \in 1 .. Len(Priced) :
       Priced[n] \in Tokens /\ Priced[n] \in ToSet(Components) /\ Priced[n] # WETH
  /\ \A c \in ToSet(Components) : c # WETH => \E n \in 1 .. Len(Priced) : Priced[n] = c
<1> DEFINE N == Cardinality(PricedAt)
           at(n) == CHOOSE i \in PricedAt : placeOf(i) = n
<1>1. N \in Nat
  BY PlacesAreTaken
<1>2. ASSUME NEW n \in 1 .. N PROVE at(n) \in PricedAt /\ placeOf(at(n)) = n
  BY PlacesAreTaken
<1>3. Priced = [n \in 1 .. N |-> Components[at(n)]]
  BY DEF Priced
<1> HIDE DEF N, at
<1>4. Len(Priced) = N /\ DOMAIN Priced = 1 .. N
  BY <1>1, <1>3
<1>5. ASSUME NEW n \in 1 .. N
      PROVE  Priced[n] \in Tokens /\ Priced[n] \in ToSet(Components) /\ Priced[n] # WETH
  <2>1. at(n) \in Places /\ Components[at(n)] # WETH
    BY <1>2 DEF PricedAt, Places
  <2> QED
    BY <1>3, <2>1, ComponentsTyped
<1>6. ASSUME NEW c \in ToSet(Components), c # WETH
      PROVE  \E n \in 1 .. N : Priced[n] = c
  <2> DEFINE i == IndexOf(c)
  <2>1. i \in PricedAt /\ Components[i] = c
    BY <1>6, IndexOfComponent DEF PricedAt, Places
  <2> HIDE DEF i
  <2>2. placeOf(i) \in 1 .. N
    BY <2>1, PlacesAreTaken DEF N
  <2>3. at(placeOf(i)) = i
    BY <1>2, <2>1, <2>2, PlacesAreTaken
  <2> QED
    BY <1>3, <2>1, <2>2, <2>3
<1> QED
  BY <1>1, <1>4, <1>5, <1>6

(***************************************************************************)
(* The quotes.                                                             *)
(***************************************************************************)
QuoteRecord == [kind : Kinds, token : Tokens \union {WETH}, amount : Nat, paid : Nat,
                reads : Seq(Nat), since : Nat]

\* the prices of one whole SetToken are positive
FirstPass(q) ==
  q.kind = "issueFor" =>
    \A n \in ReadsBefore(q) + 1 .. ReadsBefore(q) + PairReads :
      n <= Len(q.reads) => q.reads[n] > 0

QuoteOK(q) == q \in QuoteRecord /\ FirstPass(q)

ReadsOf(q) == ReadsBefore(q) + ReadsOver(q) + ReadsAfter(q)

LEMMA ReadCounts ==
  ASSUME NEW q, q \in QuoteRecord
  PROVE  /\ PairReads \in Nat /\ Len(Priced) \in Nat /\ PairReads = 2 * Len(Priced)
         /\ ReadsBefore(q) \in Nat /\ ReadsOver(q) \in Nat /\ ReadsAfter(q) \in Nat
         /\ ReadsOver(q) >= PairReads
         /\ q.kind # "issueFor" => ReadsBefore(q) = 0 /\ ReadsOver(q) = PairReads
         /\ q.kind = "issueFor" => ReadsOver(q) = PairReads + PairReads /\ ReadsAfter(q) = 0
         /\ q.token = WETH => ReadsBefore(q) = 0 /\ ReadsAfter(q) = 0
         /\ q.token # WETH /\ q.kind = "issueFor" => ReadsBefore(q) = 1
         /\ q.token # WETH /\ q.kind = "issueExact" => ReadsAfter(q) = 2
         /\ q.token # WETH /\ q.kind \in {"refund", "redeem"} => ReadsAfter(q) = 1
<1>1. Len(Priced) \in Nat
  BY PricedTyped
<1>2. PairReads \in Nat /\ PairReads = 2 * Len(Priced)
  BY <1>1 DEF PairReads
<1>3. q.kind \in Kinds
  BY DEF QuoteRecord
<1> QED
  BY <1>1, <1>2, <1>3 DEF ReadsBefore, ReadsOver, ReadsAfter, Kinds

\* where the prices of a component are
placeIn(c) == CHOOSE i \in DOMAIN Priced : Priced[i] = c

LEMMA PlaceInTyped ==
  ASSUME NEW c \in ToSet(Components), c # WETH
  PROVE  placeIn(c) \in 1 .. Len(Priced) /\ Priced[placeIn(c)] = c
BY PricedTyped DEF placeIn

LEMMA PairIsRead ==
  ASSUME NEW q, q \in QuoteRecord, NEW n \in Nat, n + PairReads <= Len(q.reads),
         NEW c \in ToSet(Components), c # WETH
  PROVE  LET j == placeIn(c)
         IN /\ n + 2 * j - 1 \in n + 1 .. n + PairReads /\ n + 2 * j \in n + 1 .. n + PairReads
            /\ PairOf(q, n, c)[1] = q.reads[n + 2 * j - 1] /\ q.reads[n + 2 * j - 1] \in Nat
            /\ PairOf(q, n, c)[2] = q.reads[n + 2 * j] /\ q.reads[n + 2 * j] \in Nat
<1> DEFINE j == placeIn(c)
<1>1. j \in 1 .. Len(Priced)
  BY PlaceInTyped
<1>2. PairOf(q, n, c) = <<q.reads[n + 2 * j - 1], q.reads[n + 2 * j]>>
  BY DEF PairOf, placeIn
<1> HIDE DEF j
<1>3. Len(Priced) \in Nat /\ PairReads = 2 * Len(Priced) /\ PairReads \in Nat
  BY ReadCounts
<1>4. /\ n + 2 * j - 1 \in n + 1 .. n + PairReads
      /\ n + 2 * j \in n + 1 .. n + PairReads
  BY <1>1, <1>3
<1>5. q.reads \in Seq(Nat) /\ Len(q.reads) \in Nat
  BY DEF QuoteRecord
<1>6. \A m \in n + 1 .. n + PairReads : m \in 1 .. Len(q.reads)
  BY <1>3, <1>5
<1>7. \A m \in n + 1 .. n + PairReads : q.reads[m] \in Nat
  BY <1>5, <1>6
<1> QED
  BY <1>2, <1>4, <1>7 DEF j

\* The two prices of a component are numbers.
LEMMA PairTyped ==
  ASSUME NEW q, q \in QuoteRecord, NEW n \in Nat, n + PairReads <= Len(q.reads),
         NEW c \in ToSet(Components), c # WETH
  PROVE  PairOf(q, n, c)[1] \in Nat /\ PairOf(q, n, c)[2] \in Nat
<1> DEFINE j == placeIn(c)
<1>1. /\ PairOf(q, n, c)[1] = q.reads[n + 2 * j - 1] /\ q.reads[n + 2 * j - 1] \in Nat
      /\ PairOf(q, n, c)[2] = q.reads[n + 2 * j] /\ q.reads[n + 2 * j] \in Nat
  BY PairIsRead, Zenon
<1> QED
  BY <1>1, Zenon

\* A price read, and what a component adds to a sum of prices.
LEMMA BestPriceTyped ==
  ASSUME NEW q, QuoteOK(q), ReadsBefore(q) + PairReads <= Len(q.reads),
         NEW c \in ToSet(Components), NEW x \in Nat
  PROVE  /\ getInputAmountBestPrice(q, c, x) \in Nat
         /\ q.kind = "issueFor" /\ x > 0 => getInputAmountBestPrice(q, c, x) > 0
<1>0. q \in QuoteRecord /\ FirstPass(q) /\ ReadsBefore(q) \in Nat
  BY ReadCounts DEF QuoteOK
<1>1. CASE c = WETH
  BY <1>1 DEF getInputAmountBestPrice
<1>2. CASE c # WETH
  <2> DEFINE n == ReadsBefore(q)
             a == q.reads[n + 2 * placeIn(c) - 1]
             b == q.reads[n + 2 * placeIn(c)]
  <2>1. /\ n + 2 * placeIn(c) - 1 \in n + 1 .. n + PairReads
        /\ n + 2 * placeIn(c) \in n + 1 .. n + PairReads
        /\ PairOf(q, n, c)[1] = a /\ a \in Nat /\ PairOf(q, n, c)[2] = b /\ b \in Nat
    BY <1>0, <1>2, PairIsRead
  <2>2. getInputAmountBestPrice(q, c, x) = cheaper(a, b)
    BY <1>2, <2>1 DEF getInputAmountBestPrice
  <2>3. q.kind = "issueFor" => a > 0 /\ b > 0
    <3>1. q.reads \in Seq(Nat) /\ PairReads \in Nat
      BY <1>0, ReadCounts DEF QuoteRecord
    <3>2. \A m \in n + 1 .. n + PairReads : m <= Len(q.reads)
      BY <1>0, <3>1
    <3> HIDE DEF n
    <3> QED
      BY <1>0, <2>1, <3>2 DEF FirstPass, n
  <2> HIDE DEF a, b
  <2> QED
    BY <2>1, <2>2, <2>3 DEF cheaper
<1> QED
  BY <1>1, <1>2

LEMMA ComponentAmountTyped ==
  ASSUME NEW q, q \in QuoteRecord, NEW c \in ToSet(Components)
  PROVE  /\ componentAmount(q, c) \in Nat
         /\ componentAmount(q, c) = preciseMul(Unit[c], q.amount)
         /\ componentAmount(q, c) <= preciseMulCeil(Unit[c], q.amount)
<1> DEFINE a == q.amount
           u == Unit[c]
<1>1. a \in Nat /\ u \in Nat
  BY AmountsTyped, ExchangeIssuanceAssumption DEF QuoteRecord
<1>2. componentAmount(q, c) = preciseMul(u, a)
  <2>1. a * u = u * a
    BY <1>1
  <2> QED
    BY <2>1 DEF componentAmount, preciseMul
<1>3. preciseMul(u, a) \in Nat /\ preciseMul(u, a) <= preciseMulCeil(u, a)
  BY <1>1, AmountsTyped
<1> QED
  BY <1>2, <1>3

\* The sums over the components.
costs(q) == [i \in Places |-> getInputAmountBestPrice(q, Components[i], componentAmount(q, Components[i]))]
unitCosts(q) == [i \in Places |-> getInputAmountBestPrice(q, Components[i], Unit[Components[i]])]
proceeds(q, c) ==
  IF c = WETH THEN componentAmount(q, c) ELSE larger(PairOf(q, 0, c)[1], PairOf(q, 0, c)[2])
allProceeds(q) == [i \in Places |-> proceeds(q, Components[i])]

LEMMA SumsOverComponents ==
  ASSUME NEW q
  PROVE  /\ getIssueExactSetFromETH(q) = SumFunctionOnSet(costs(q), Places)
         /\ getRedeemExactSetForETH(q) = SumFunctionOnSet(allProceeds(q), Places)
         /\ \A c : scaledEth(q, c) = (getInputAmountBestPrice(q, c, Unit[c]) * ethInput(q))
                                       \div SumFunctionOnSet(unitCosts(q), Places)
<1>1. getIssueExactSetFromETH(q) = SumFunctionOnSet(costs(q), Places)
  BY DEF getIssueExactSetFromETH, SumFunction, OverComponents, costs, Places
<1>2. getRedeemExactSetForETH(q) = SumFunctionOnSet(allProceeds(q), Places)
  BY DEF getRedeemExactSetForETH, SumFunction, OverComponents, allProceeds, proceeds, Places
<1>3. ASSUME NEW c
      PROVE  scaledEth(q, c) = (getInputAmountBestPrice(q, c, Unit[c]) * ethInput(q))
                                 \div SumFunctionOnSet(unitCosts(q), Places)
  BY DEF scaledEth, SumFunction, OverComponents, unitCosts, Places
<1> QED
  BY <1>1, <1>2, <1>3

LEMMA CostTyped ==
  ASSUME NEW q, QuoteOK(q), ReadsBefore(q) + PairReads <= Len(q.reads)
  PROVE  /\ \A i \in Places : costs(q)[i] \in Nat /\ unitCosts(q)[i] \in Nat
         /\ q.kind = "issueFor" => \A i \in Places : unitCosts(q)[i] > 0
         /\ getIssueExactSetFromETH(q) \in Nat
         /\ SumFunctionOnSet(unitCosts(q), Places) \in Nat
         /\ q.kind = "issueFor" => SumFunctionOnSet(unitCosts(q), Places) > 0
<1>1. ASSUME NEW i \in Places
      PROVE  /\ costs(q)[i] \in Nat /\ unitCosts(q)[i] \in Nat
             /\ q.kind = "issueFor" => unitCosts(q)[i] > 0
  <2> DEFINE c == Components[i]
             a == componentAmount(q, c)
             u == Unit[c]
  <2>1. c \in ToSet(Components) /\ u \in Nat \ {0}
    BY ComponentsTyped
  <2>2. a \in Nat /\ u > 0
    BY <2>1, ComponentAmountTyped DEF QuoteOK
  <2>3. costs(q)[i] = getInputAmountBestPrice(q, c, a) /\ unitCosts(q)[i] = getInputAmountBestPrice(q, c, u)
    BY DEF costs, unitCosts
  <2> HIDE DEF c, a, u
  <2> QED
    BY <2>1, <2>2, <2>3, BestPriceTyped
<1>2. getIssueExactSetFromETH(q) \in Nat /\ SumFunctionOnSet(unitCosts(q), Places) \in Nat
  BY <1>1, SumIsNat, ComponentsTyped, SumsOverComponents
<1>3. ASSUME q.kind = "issueFor" PROVE SumFunctionOnSet(unitCosts(q), Places) > 0
  <2>1. PICK i \in Places : TRUE
    BY ComponentsTyped
  <2>2. unitCosts(q)[i] > 0 /\ unitCosts(q)[i] \in Nat
    BY <1>1, <1>3
  <2>3. unitCosts(q)[i] <= SumFunctionOnSet(unitCosts(q), Places)
    BY <1>1, PartOfSum, ComponentsTyped
  <2> QED
    BY <1>2, <2>2, <2>3
<1> QED
  BY <1>1, <1>2, <1>3

LEMMA ProceedsTyped ==
  ASSUME NEW q, QuoteOK(q), PairReads <= Len(q.reads)
  PROVE  /\ \A i \in Places : allProceeds(q)[i] \in Nat
         /\ getRedeemExactSetForETH(q) \in Nat
<1>0. q \in QuoteRecord
  BY DEF QuoteOK
<1>1. ASSUME NEW i \in Places PROVE allProceeds(q)[i] \in Nat
  <2> DEFINE c == Components[i]
  <2>1. c \in ToSet(Components)
    BY ComponentsTyped
  <2>2. allProceeds(q)[i] = proceeds(q, c)
    BY DEF allProceeds
  <2>3. CASE c = WETH
    BY <1>0, <2>1, <2>2, <2>3, ComponentAmountTyped DEF proceeds
  <2>4. CASE c # WETH
    <3>1. 0 \in Nat /\ 0 + PairReads <= Len(q.reads)
      BY <1>0, ReadCounts
    <3>2. PairOf(q, 0, c)[1] \in Nat /\ PairOf(q, 0, c)[2] \in Nat
      BY <1>0, <2>1, <2>4, <3>1, PairIsRead
    <3> QED
      BY <2>2, <2>4, <3>2 DEF proceeds, larger
  <2> QED
    BY <2>3, <2>4
<1>2. getRedeemExactSetForETH(q) \in Nat
  BY <1>1, SumIsNat, ComponentsTyped, SumsOverComponents
<1> QED
  BY <1>1, <1>2

LEMMA ScaledEthTyped ==
  ASSUME NEW q, QuoteOK(q), q.kind = "issueFor", ReadsBefore(q) + PairReads <= Len(q.reads),
         NEW c \in ToSet(Components)
  PROVE  scaledEth(q, c) \in Nat
<1> DEFINE u == getInputAmountBestPrice(q, c, Unit[c])
           E == ethInput(q)
           T == SumFunctionOnSet(unitCosts(q), Places)
<1>1. T \in Nat \ {0}
  BY CostTyped
<1>2. u \in Nat
  <2>1. Unit[c] \in Nat
    BY ExchangeIssuanceAssumption
  <2> QED
    BY <2>1, BestPriceTyped
<1>3. E \in Nat
  <2>0. q \in QuoteRecord /\ q.reads \in Seq(Nat) /\ q.amount \in Nat
    BY DEF QuoteOK, QuoteRecord
  <2>1. CASE q.token = WETH
    BY <2>0, <2>1 DEF ethInput
  <2>2. CASE q.token # WETH
    <3>1. ReadsBefore(q) = 1 /\ PairReads \in Nat
      BY <2>0, <2>2, ReadCounts
    <3>2. 1 \in 1 .. Len(q.reads)
      BY <2>0, <3>1
    <3> QED
      BY <2>0, <2>2, <3>2 DEF ethInput
  <2> QED
    BY <2>1, <2>2
<1>4. scaledEth(q, c) = (u * E) \div T
  BY SumsOverComponents
<1> HIDE DEF u, E, T
<1>5. u * E \in Nat
  BY <1>2, <1>3, ProductIsNat
<1> QED
  BY <1>1, <1>4, <1>5, DivRoundsDown

(***************************************************************************)
(* What the routers are asked, and their answers.                          *)
(***************************************************************************)
\* the question after m reads
componentAt(q, m) == Priced[((m - ReadsBefore(q)) % PairReads) \div 2 + 1]
askOver(q, m) ==
  LET c == componentAt(q, m)
      e == ExchangeAt(m - ReadsBefore(q))
  IN CASE q.kind \in {"issueExact", "refund"} -> Ask("buyExact", e, c, componentAmount(q, c))
       [] q.kind = "redeem" -> Ask("sell", e, c, componentAmount(q, c))
       [] q.kind = "issueFor" /\ m - ReadsBefore(q) < PairReads -> Ask("buyExact", e, c, Unit[c])
       [] OTHER -> Ask("buy", e, c, scaledEth(q, c))
askAfter(q, m) ==
  CASE q.kind = "issueExact" ->
         Ask("sellFor", ExchangeAt(m - ReadsBefore(q)), q.token, getIssueExactSetFromETH(q))
    [] q.kind = "refund" -> AskUniswap("sell", q.token, q.paid)
    [] OTHER -> AskUniswap("buy", q.token, getRedeemExactSetForETH(q))
askAt(q, m) ==
  IF m - ReadsBefore(q) < 0 THEN AskUniswap("sell", q.token, q.amount)
  ELSE IF m - ReadsBefore(q) < ReadsOver(q) THEN askOver(q, m) ELSE askAfter(q, m)

LEMMA NextReadIsAskAt ==
  ASSUME NEW q
  PROVE  nextRead(q) = askAt(q, Len(q.reads))
BY Zenon DEF nextRead, askAt, askOver, askAfter, componentAt

AskOK(a) == /\ a.way \in {"buyExact", "sellFor", "buy", "sell"}
            /\ a.exchange \in Exchanges /\ a.token \in Tokens /\ a.amount \in Nat

LEMMA AskIsOK ==
  ASSUME NEW way \in {"buyExact", "sellFor", "buy", "sell"}, NEW e \in Exchanges,
         NEW t \in Tokens, NEW x \in Nat
  PROVE  AskOK(Ask(way, e, t, x)) /\ AskOK(AskUniswap(way, t, x))
BY ExchangesAreTwo DEF AskOK, Ask, AskUniswap

\* A component whose price is read is one of the SetToken.
LEMMA ComponentAtTyped ==
  ASSUME NEW q, q \in QuoteRecord, NEW m \in Nat, m >= ReadsBefore(q),
         m < ReadsBefore(q) + ReadsOver(q)
  PROVE  /\ componentAt(q, m) \in Tokens /\ componentAt(q, m) \in ToSet(Components)
         /\ ExchangeAt(m - ReadsBefore(q)) \in Exchanges
<1> DEFINE k == m - ReadsBefore(q)
           L == Len(Priced)
<1>0. /\ L \in Nat /\ PairReads = 2 * L /\ ReadsBefore(q) \in Nat /\ ReadsOver(q) \in Nat
      /\ ReadsOver(q) = PairReads \/ ReadsOver(q) = PairReads + PairReads
  BY ReadCounts
<1>1. k \in Nat /\ PairReads \in Nat \ {0} /\ PairReads = 2 * L
  BY <1>0
<1> HIDE DEF k, L
<1>2. k % PairReads \in 0 .. PairReads - 1
  BY <1>1
<1>3. (k % PairReads) \div 2 + 1 \in 1 .. L
  <2> DEFINE r == k % PairReads
  <2>1. r \in Nat /\ r < 2 * L
    BY <1>0, <1>1, <1>2
  <2> HIDE DEF r
  <2>2. r \div 2 + 1 \in 1 .. L
    BY <1>0, <2>1
  <2> QED
    BY <2>2 DEF r
<1>4. ExchangeAt(k) \in Exchanges
  BY ExchangesAreTwo DEF ExchangeAt
<1> QED
  BY <1>3, <1>4, PricedTyped DEF componentAt, k, L

LEMMA AskTyped ==
  ASSUME NEW q, QuoteOK(q), NEW m \in Nat, m < ReadsOf(q), m <= Len(q.reads)
  PROVE  /\ AskOK(askAt(q, m))
         /\ q.kind = "issueFor" /\ m + 1 \in ReadsBefore(q) + 1 .. ReadsBefore(q) + PairReads =>
              askAt(q, m).way = "buyExact"
<1> DEFINE b == ReadsBefore(q)
           ask == askAt(q, m)
<1>0. /\ q \in QuoteRecord /\ q.kind \in Kinds /\ q.token \in Tokens \union {WETH}
      /\ q.amount \in Nat /\ q.paid \in Nat /\ q.reads \in Seq(Nat) /\ Len(q.reads) \in Nat
  BY DEF QuoteOK, QuoteRecord
<1>1. /\ b \in Nat /\ ReadsOver(q) \in Nat /\ ReadsAfter(q) \in Nat /\ PairReads \in Nat
      /\ ReadsOver(q) >= PairReads /\ m < b + ReadsOver(q) + ReadsAfter(q)
      /\ q.token = WETH => b = 0 /\ ReadsAfter(q) = 0
      /\ q.kind # "issueFor" => b = 0 /\ ReadsOver(q) = PairReads
      /\ q.kind = "issueFor" => ReadsAfter(q) = 0 /\ ReadsOver(q) = PairReads + PairReads
  BY <1>0, ReadCounts DEF ReadsOf
<1>2. CASE m < b
  <2>1. q.token \in Tokens
    BY <1>0, <1>1, <1>2
  <2>2. ask = AskUniswap("sell", q.token, q.amount) /\ ~(m + 1 >= b + 1)
    BY <1>1, <1>2 DEF askAt
  <2> QED
    BY <1>0, <1>1, <2>1, <2>2, AskIsOK, ExchangesAreTwo
<1>3. CASE m >= b /\ m < b + ReadsOver(q)
  <2> DEFINE c == componentAt(q, m)
             e == ExchangeAt(m - b)
  <2>1. c \in Tokens /\ c \in ToSet(Components) /\ e \in Exchanges
    BY <1>0, <1>3, ComponentAtTyped
  <2>2. ask = askOver(q, m)
    BY <1>1, <1>3 DEF askAt
  <2>3. componentAmount(q, c) \in Nat /\ Unit[c] \in Nat
    BY <1>0, <2>1, ComponentAmountTyped, ExchangeIssuanceAssumption
  <2>4. CASE q.kind \in {"issueExact", "refund"}
    <3>1. ask = Ask("buyExact", e, c, componentAmount(q, c))
      BY <2>2, <2>4 DEF askOver
    <3> QED
      BY <2>1, <2>3, <2>4, <3>1, AskIsOK
  <2>5. CASE q.kind = "redeem"
    <3>1. ask = Ask("sell", e, c, componentAmount(q, c))
      BY <2>2, <2>5 DEF askOver
    <3> QED
      BY <2>1, <2>3, <2>5, <3>1, AskIsOK
  <2>6. CASE q.kind = "issueFor" /\ m - b < PairReads
    <3>1. ask = Ask("buyExact", e, c, Unit[c])
      BY <2>2, <2>6 DEF askOver
    <3>2. ask.way = "buyExact"
      BY <3>1 DEF Ask
    <3> QED
      BY <2>1, <2>3, <3>1, <3>2, AskIsOK
  <2>7. CASE q.kind = "issueFor" /\ ~(m - b < PairReads)
    <3>1. ask = Ask("buy", e, c, scaledEth(q, c))
      BY <2>2, <2>7 DEF askOver
    <3>2. b + PairReads <= Len(q.reads)
      BY <1>0, <1>1, <2>7
    <3>3. scaledEth(q, c) \in Nat
      BY <2>1, <2>7, <3>2, ScaledEthTyped
    <3>4. ~(m + 1 <= b + PairReads)
      BY <1>1, <2>7
    <3> QED
      BY <1>1, <2>1, <3>1, <3>3, <3>4, AskIsOK
  <2> QED
    BY <1>0, <2>4, <2>5, <2>6, <2>7 DEF Kinds
<1>4. CASE m >= b + ReadsOver(q)
  <2>1. ReadsAfter(q) # 0
    BY <1>1, <1>4
  <2>2. q.token \in Tokens /\ q.kind # "issueFor" /\ b = 0
    BY <1>0, <1>1, <2>1
  <2>3. ask = askAfter(q, m) /\ PairReads <= Len(q.reads) /\ b + PairReads <= Len(q.reads)
    BY <1>0, <1>1, <1>4, <2>2 DEF askAt
  <2>4. ExchangeAt(m - b) \in Exchanges
    BY ExchangesAreTwo DEF ExchangeAt
  <2>5. getIssueExactSetFromETH(q) \in Nat /\ getRedeemExactSetForETH(q) \in Nat
    BY <2>3, CostTyped, ProceedsTyped
  <2>6. AskOK(askAfter(q, m))
    BY <1>0, <2>2, <2>4, <2>5, AskIsOK DEF askAfter, Kinds
  <2> QED
    BY <2>2, <2>3, <2>6
<1> QED
  BY <1>1, <1>2, <1>3, <1>4

\* A router's answer is a natural number, and the price of an exact amount positive.
LEMMA AnswerTyped ==
  ASSUME NEW a, AskOK(a), PoolsOK(pools), ~throws(a)
  PROVE  answer(a) \in Nat /\ (a.way = "buyExact" => answer(a) > 0)
<1> DEFINE pool == pools[a.exchange][a.token]
           w == pool.weth
           t == pool.token
           x == a.amount
<1>0. /\ a.exchange \in Exchanges /\ a.token \in Tokens /\ x \in Nat
      /\ a.way \in {"buyExact", "sellFor", "buy", "sell"}
  BY DEF AskOK
<1>1. CASE ~HasPair(pools, a.exchange, a.token)
  BY <1>1, ExchangeIssuanceAssumption DEF answer
<1>2. CASE HasPair(pools, a.exchange, a.token)
  <2>1. w \in Nat \ {0} /\ t \in Nat \ {0}
    BY <1>0, <1>2, PoolTyped
  <2>2. /\ a.way = "buyExact" => ~(x >= t)
        /\ a.way = "sellFor" => ~(x >= w)
    BY <1>2 DEF throws
  <2>3. CASE a.way = "buyExact"
    <3>1. answer(a) = getAmountIn(x, w, t)
      BY <1>2, <2>3 DEF answer
    <3> HIDE DEF x, w, t
    <3> QED
      BY <1>0, <2>1, <2>2, <2>3, <3>1, AmountInGrows
  <2>4. CASE a.way = "sellFor"
    <3>1. answer(a) = getAmountIn(x, t, w)
      BY <1>2, <2>4 DEF answer
    <3> HIDE DEF x, w, t
    <3> QED
      BY <1>0, <2>1, <2>2, <2>4, <3>1, AmountInGrows
  <2>5. CASE a.way = "buy"
    <3>1. answer(a) = getAmountOut(x, w, t)
      BY <1>2, <2>5 DEF answer
    <3> HIDE DEF x, w, t
    <3> QED
      BY <1>0, <2>1, <2>5, <3>1, AmountOutBelowReserve
  <2>6. CASE a.way = "sell"
    <3>1. answer(a) = getAmountOut(x, t, w)
      BY <1>2, <2>6 DEF answer
    <3> HIDE DEF x, w, t
    <3> QED
      BY <1>0, <2>1, <2>6, <3>1, AmountOutBelowReserve
  <2> QED
    BY <1>0, <2>3, <2>4, <2>5, <2>6
<1> QED
  BY <1>1, <1>2

LEMMA MinOfNaturals ==
  ASSUME NEW S \in SUBSET Nat, S # {}
  PROVE  Min(S) \in S /\ \A y \in S : Min(S) <= y
<1>1. \E m \in S : \A y \in S : m <= y
  BY LeastNatural
<1> QED
  BY <1>1 DEF Min

\* What the second pass of an issuance for an exact payment finds.
secondPass(q, c) ==
  LET bought == PairOf(q, ReadsBefore(q) + PairReads, c)
  IN IF c = WETH THEN scaledEth(q, c) ELSE larger(bought[1], bought[2])

LEMMA SecondPassTyped ==
  ASSUME NEW q, QuoteOK(q), q.kind = "issueFor",
         ReadsBefore(q) + PairReads + PairReads <= Len(q.reads), NEW c \in ToSet(Components)
  PROVE  secondPass(q, c) \in Nat /\ preciseDiv(secondPass(q, c), Unit[c]) \in Nat
<1> DEFINE n == ReadsBefore(q) + PairReads
<1>0. q \in QuoteRecord /\ Len(q.reads) \in Nat
  BY DEF QuoteOK, QuoteRecord
<1>1. /\ q \in QuoteRecord /\ ReadsBefore(q) \in Nat /\ PairReads \in Nat /\ n \in Nat
      /\ Len(q.reads) \in Nat /\ n <= Len(q.reads)
  <2>1. ReadsBefore(q) \in Nat /\ PairReads \in Nat
    BY <1>0, ReadCounts
  <2> QED
    BY <1>0, <2>1
<1>2. secondPass(q, c) \in Nat
  <2>1. CASE c = WETH
    BY <1>1, <2>1, ScaledEthTyped DEF secondPass
  <2>2. CASE c # WETH
    <3>1. PairOf(q, n, c)[1] \in Nat /\ PairOf(q, n, c)[2] \in Nat
      <4>1. n + PairReads <= Len(q.reads)
        OBVIOUS
      <4> HIDE DEF n
      <4> QED
        BY <1>1, <2>2, <4>1, PairTyped, Zenon
    <3> QED
      BY <2>2, <3>1 DEF secondPass, larger
  <2> QED
    BY <2>1, <2>2
<1>3. Unit[c] \in Nat \ {0}
  BY ExchangeIssuanceAssumption
<1> QED
  BY <1>2, <1>3, PreciseDivRoundsDown

LEMMA IssueForIsMin ==
  ASSUME NEW q
  PROVE  getIssueSetForExactETH(q) = Min({preciseDiv(secondPass(q, c), Unit[c]) : c \in ToSet(Components)})
BY Zenon DEF getIssueSetForExactETH, secondPass

LEMMA IssueForTyped ==
  ASSUME NEW q, QuoteOK(q), q.kind = "issueFor",
         ReadsBefore(q) + PairReads + PairReads <= Len(q.reads)
  PROVE  LET amounts == {preciseDiv(secondPass(q, c), Unit[c]) : c \in ToSet(Components)}
         IN /\ getIssueSetForExactETH(q) \in amounts /\ getIssueSetForExactETH(q) \in Nat
            /\ \A y \in amounts : getIssueSetForExactETH(q) <= y
<1> DEFINE amounts == {preciseDiv(secondPass(q, c), Unit[c]) : c \in ToSet(Components)}
<1>1. amounts \in SUBSET Nat
  BY SecondPassTyped
<1>2. amounts # {}
  <2>1. PICK i \in Places : TRUE
    BY ComponentsTyped
  <2>2. Components[i] \in ToSet(Components)
    BY ComponentsTyped
  <2> QED
    BY <2>2
<1>3. getIssueSetForExactETH(q) = Min(amounts)
  BY IssueForIsMin
<1> HIDE DEF amounts
<1>4. /\ getIssueSetForExactETH(q) \in amounts
      /\ \A y \in amounts : getIssueSetForExactETH(q) <= y
  BY <1>1, <1>2, <1>3, MinOfNaturals
<1> QED
  BY <1>1, <1>4 DEF amounts

\* A quote that has been answered has a result.
LEMMA ResultTyped ==
  ASSUME NEW q, QuoteOK(q), Answered(q), q.kind # "refund"
  PROVE  result(q) \in Nat
<1> DEFINE len == Len(q.reads)
<1>0. q \in QuoteRecord /\ q.kind \in Kinds /\ q.reads \in Seq(Nat) /\ len \in Nat
  BY DEF QuoteOK, QuoteRecord
<1>1. /\ len = ReadsBefore(q) + ReadsOver(q) + ReadsAfter(q)
      /\ ReadsBefore(q) \in Nat /\ ReadsOver(q) \in Nat /\ ReadsAfter(q) \in Nat
      /\ PairReads \in Nat
      /\ q.kind # "issueFor" => ReadsBefore(q) = 0 /\ ReadsOver(q) = PairReads
      /\ q.kind = "issueFor" => ReadsOver(q) = PairReads + PairReads /\ ReadsAfter(q) = 0
      /\ q.token # WETH /\ q.kind = "issueExact" => ReadsAfter(q) = 2
      /\ q.token # WETH /\ q.kind = "redeem" => ReadsAfter(q) = 1
  BY <1>0, ReadCounts DEF Answered
<1>2. CASE q.kind = "issueFor"
  <2>1. ReadsBefore(q) + PairReads + PairReads <= Len(q.reads)
    BY <1>0, <1>1, <1>2
  <2> QED
    BY <1>2, <2>1, IssueForTyped DEF result
<1>3. CASE q.kind = "redeem"
  <2>1. result(q) = getRedeemExactSetForToken(q) /\ PairReads <= Len(q.reads)
    BY <1>1, <1>3 DEF result
  <2>2. getRedeemExactSetForETH(q) \in Nat
    BY <2>1, ProceedsTyped
  <2>3. q.token # WETH => lastRead(q) \in Nat
    BY <1>0, <1>1, <1>3 DEF lastRead
  <2> QED
    BY <2>1, <2>2, <2>3 DEF getRedeemExactSetForToken
<1>4. CASE q.kind = "issueExact"
  <2>1. result(q) = getIssueExactSetFromToken(q) /\ ReadsBefore(q) + PairReads <= Len(q.reads)
    BY <1>1, <1>4 DEF result
  <2>2. getIssueExactSetFromETH(q) \in Nat
    BY <2>1, CostTyped
  <2>3. q.token # WETH => lastRead(q) \in Nat /\ q.reads[Len(q.reads) - 1] \in Nat
    BY <1>0, <1>1, <1>4 DEF lastRead
  <2> QED
    BY <2>1, <2>2, <2>3 DEF getIssueExactSetFromToken, cheaper
<1> QED
  BY <1>0, <1>2, <1>3, <1>4 DEF Kinds

(***************************************************************************)
(* What a transaction leaves in ExchangeIssuance.                          *)
(***************************************************************************)
HeldOK == held \in [Tokens \union {WETH} -> Nat]

\* If each component was bought for what is pulled, nothing is taken from what was
\* there; if exactly that and all WETH was spent or sent back, nothing is left.
LEMMA SettledGrows ==
  ASSUME HeldOK, NEW w \in Nat, NEW orders, DOMAIN orders = Places, NEW s \in Nat,
         \A i \in Places : /\ orders[i].amount \in Nat
                           /\ preciseMulCeil(Unit[Components[i]], s) <= orders[i].amount
  PROVE  /\ settled(w, orders, s) \in [Tokens \union {WETH} -> Nat]
         /\ \A t \in DOMAIN held : settled(w, orders, s)[t] >= held[t]
         /\ /\ w = 0
            /\ \A i \in Places : orders[i].amount = preciseMulCeil(Unit[Components[i]], s)
            => settled(w, orders, s) = held
<1> DEFINE extra(t) == [i \in Places |->
                          IF Components[i] = t
                          THEN orders[i].amount - preciseMulCeil(Unit[t], s) ELSE 0]
           more(t) == SumFunctionOnSet(extra(t), Places)
           Mine == Tokens \union {WETH}
           rest == settled(w, orders, s)
<1>1. DOMAIN held = Mine /\ \A t \in Mine : held[t] \in Nat
  BY DEF HeldOK
<1>2. rest = [t \in Mine |-> held[t] + (IF t = WETH THEN w ELSE 0) + more(t)]
  BY <1>1 DEF settled, SumFunction
<1>3. ASSUME NEW t \in Mine PROVE \A i \in Places : extra(t)[i] \in Nat
  <2> TAKE i \in Places
  <2>1. CASE Components[i] = t
    <3> DEFINE m == preciseMulCeil(Unit[t], s)
    <3>1. m \in Nat
      BY <2>1, ComponentsTyped, AmountsTyped
    <3>2. extra(t)[i] = orders[i].amount - m /\ m <= orders[i].amount /\ orders[i].amount \in Nat
      BY <2>1
    <3> HIDE DEF m, extra
    <3> QED
      BY <3>1, <3>2
  <2>2. CASE Components[i] # t
    BY <2>2
  <2> QED
    BY <2>1, <2>2
<1>4. ASSUME NEW t \in Mine PROVE more(t) \in Nat
  <2> HIDE DEF extra
  <2> QED
    BY <1>3, SumIsNat, ComponentsTyped
<1>5. ASSUME w = 0, NEW t \in Mine,
             \A i \in Places : orders[i].amount = preciseMulCeil(Unit[Components[i]], s)
      PROVE  more(t) = 0
  <2>1. ASSUME NEW i \in Places PROVE extra(t)[i] = 0
    <3>1. CASE Components[i] = t
      <4> DEFINE m == preciseMulCeil(Unit[t], s)
      <4>1. m \in Nat
        BY <3>1, ComponentsTyped, AmountsTyped
      <4>2. extra(t)[i] = m - m
        BY <1>5, <3>1
      <4> HIDE DEF m, extra
      <4> QED
        BY <4>1, <4>2
    <3>2. CASE Components[i] # t
      BY <3>2
    <3> QED
      BY <3>1, <3>2
  <2> HIDE DEF extra
  <2> QED
    BY <2>1, SumOfZeros, ComponentsTyped
<1> HIDE DEF more, rest, Mine
<1>6. rest \in [Mine -> Nat] /\ \A t \in Mine : rest[t] >= held[t]
  BY <1>1, <1>2, <1>4
<1>7. ASSUME w = 0, \A i \in Places : orders[i].amount = preciseMulCeil(Unit[Components[i]], s)
      PROVE  rest = held
  <2>1. \A t \in Mine : rest[t] = held[t]
    BY <1>1, <1>2, <1>5, <1>7
  <2>2. rest \in [Mine -> Nat] /\ held \in [Mine -> Nat]
    BY <1>6 DEF HeldOK, Mine
  <2> QED
    BY <2>1, <2>2
<1> QED
  BY <1>1, <1>6, <1>7 DEF rest, Mine

\* One whole SetToken takes a unit of each component.
LEMMA WholeUnit ==
  ASSUME NEW u \in Nat
  PROVE  preciseMulCeil(u, PRECISE_UNIT) = u
<1> DEFINE U == PRECISE_UNIT
           m == preciseMulCeil(u, U)
<1>1. U \in Nat \ {0} /\ u * U <= U * u
  BY PreciseUnitAssumption
<1>2. m \in Nat /\ u * U <= U * m
  BY <1>1, PreciseMulCeilRoundsUp
<1>3. m <= u
  BY <1>1, PreciseMulCeilIsLeast
<1>4. u <= m
  <2>1. U * u <= U * m
    BY <1>1, <1>2
  <2> HIDE DEF m, U
  <2> QED
    BY <1>1, <1>2, <2>1, CancelFactor
<1> HIDE DEF m
<1> QED
  BY <1>2, <1>3, <1>4 DEF m

LEMMA UnitOrders ==
  ASSUME NEW p, PoolsOK(p), LiquidIn(getAmountETHForIssuance(p, PRECISE_UNIT))
  PROVE  LET unitOrders == getAmountETHForIssuance(p, PRECISE_UNIT)
         IN /\ Fillable(p, unitOrders)
            /\ \A i \in Places :
                 /\ unitOrders[i].eth \in Nat \ {0}
                 /\ unitOrders[i].amount = Unit[Components[i]]
                 /\ unitOrders[i].exchange = WETH <=> Components[i] = WETH
            /\ EthOf(unitOrders) \in Nat \ {0}
<1> DEFINE U == PRECISE_UNIT
           orders == getAmountETHForIssuance(p, U)
           f == [i \in Places |-> orders[i].eth]
<1>0. U \in Nat
  BY PreciseUnitAssumption
<1>1. Fillable(p, orders) /\ DOMAIN orders = Places
  BY <1>0, IssuanceIsFillable, IssuanceOrders
<1>2. ASSUME NEW i \in Places
      PROVE  /\ orders[i].eth \in Nat \ {0} /\ orders[i].amount = Unit[Components[i]]
             /\ orders[i].exchange = WETH <=> Components[i] = WETH
  <2> DEFINE c == Components[i]
             x == orders[i].amount
             best == getMinTokenForExactToken(p, c, x)
  <2>1. c \in Tokens \union {WETH} /\ Unit[c] \in Nat \ {0}
    BY ComponentsTyped
  <2>2. x = preciseMulCeil(Unit[c], U) /\ orders[i].eth = best.eth /\ orders[i].exchange = best.exchange
    BY IssuanceOrders
  <2>3. x = Unit[c] /\ x \in Nat \ {0}
    BY <2>1, <2>2, WholeUnit
  <2> HIDE DEF orders, x, c
  <2>4. /\ best.eth \in Nat \ {0}
        /\ best.exchange = WETH <=> c = WETH
    BY <2>1, <2>3, BuyOrderTyped, ExchangesAreTwo
  <2> QED
    BY <2>2, <2>3, <2>4 DEF c, x
<1>3. EthOf(orders) = SumFunctionOnSet(f, Places)
  BY <1>1 DEF EthOf, SumFunction
<1>4. \A i \in Places : f[i] \in Nat \ {0}
  BY <1>2
<1> HIDE DEF f
<1>5. SumFunctionOnSet(f, Places) \in Nat \ {0}
  <2>1. PICK i \in Places : TRUE
    BY ComponentsTyped
  <2>2. SumFunctionOnSet(f, Places) \in Nat
    BY <1>4, SumIsNat, ComponentsTyped
  <2>3. f[i] <= SumFunctionOnSet(f, Places)
    BY <1>4, PartOfSum, ComponentsTyped
  <2> QED
    BY <1>4, <2>2, <2>3
<1> QED
  BY <1>1, <1>2, <1>3, <1>5

\* The shares of a payment do not exceed it, each can be filled, and what they buy
\* covers the SetTokens issued.
LEMMA ScaledOrders ==
  ASSUME NEW p, PoolsOK(p), LiquidIn(getAmountETHForIssuance(p, PRECISE_UNIT)), NEW eth \in Nat
  PROVE  LET set == getSetIssueAmountForETH(p, eth)
         IN /\ Fillable(p, set.orders)
            /\ EthOf(set.orders) \in Nat /\ EthOf(set.orders) <= eth
            /\ set.amount \in Nat
            /\ \A i \in Places :
                 preciseMulCeil(Unit[Components[i]], set.amount) <= set.orders[i].amount
            /\ \A i \in Places : set.amount <= preciseDiv(set.orders[i].amount, Unit[Components[i]])
            /\ \E i \in Places : set.amount = preciseDiv(set.orders[i].amount, Unit[Components[i]])
<1> DEFINE units == getAmountETHForIssuance(p, PRECISE_UNIT)
           T == EthOf(units)
           set == getSetIssueAmountForETH(p, eth)
           orders == scaledOrders(p, units, eth)
           f == [i \in Places |-> units[i].eth]
           g == [i \in Places |-> orders[i].eth]
           parts == {preciseDiv(orders[i].amount, units[i].amount) : i \in Places}
<1>1. /\ Fillable(p, units) /\ DOMAIN units = Places /\ T \in Nat \ {0}
      /\ \A i \in Places : /\ units[i].eth \in Nat \ {0}
                           /\ units[i].amount = Unit[Components[i]]
                           /\ units[i].exchange = WETH <=> Components[i] = WETH
  BY UnitOrders, IssuanceOrders
<1>2. T = SumFunctionOnSet(f, Places)
  BY <1>1 DEF EthOf, SumFunction
<1> HIDE DEF units, T
<1>3. /\ DOMAIN orders = Places
      /\ \A i \in Places :
           /\ orders[i].eth = (units[i].eth * eth) \div T /\ orders[i].exchange = units[i].exchange
           /\ orders[i].amount = IF units[i].exchange = WETH THEN orders[i].eth
                                 ELSE BuyAmount(p, units[i].exchange, Components[i], orders[i].eth)
  BY <1>1 DEF scaledOrders, T
<1>4. set.orders = orders /\ set.amount = Min(parts)
  BY <1>3 DEF getSetIssueAmountForETH, units
<1>5. EthOf(orders) = SumFunctionOnSet(g, Places)
  BY <1>3 DEF EthOf, SumFunction
<1> HIDE DEF orders, set
<1>6. ASSUME NEW i \in Places
      PROVE  /\ orders[i].eth \in Nat /\ orders[i].eth * T <= units[i].eth * eth
             /\ orders[i].amount \in Nat
             /\ Components[i] # WETH =>
                  LET e == orders[i].exchange
                  IN /\ e \in Exchanges /\ HasPair(p, e, Components[i])
                     /\ orders[i].amount < p[e][Components[i]].token
  <2> DEFINE a == units[i].eth * eth
             c == Components[i]
             x == orders[i].eth
             e == units[i].exchange
  <2>1. a \in Nat
    BY <1>1, ProductIsNat
  <2>2. x = a \div T
    BY <1>3
  <2> HIDE DEF a
  <2>3. x \in Nat /\ x * T <= a
    BY <1>1, <2>1, <2>2, DivRoundsDown
  <2>4. CASE c = WETH
    BY <1>1, <1>3, <2>3, <2>4 DEF a
  <2>5. CASE c # WETH
    <3>1. e \in Exchanges /\ HasPair(p, e, c) /\ orders[i].exchange = e
      BY <1>1, <1>3, <2>5 DEF Fillable
    <3>2. c \in Tokens
      BY <2>5, ComponentsTyped
    <3>3. orders[i].amount = getAmountOut(x, p[e][c].weth, p[e][c].token)
      BY <1>1, <1>3, <2>5 DEF BuyAmount
    <3> HIDE DEF c, e, x
    <3>4. p[e][c].weth \in Nat \ {0} /\ p[e][c].token \in Nat \ {0}
      BY <3>1, <3>2, PoolTyped
    <3>5. orders[i].amount \in Nat /\ orders[i].amount < p[e][c].token
      BY <2>3, <3>3, <3>4, AmountOutBelowReserve
    <3> QED
      BY <2>3, <3>1, <3>5 DEF a, c, e, x
  <2> QED
    BY <2>4, <2>5
<1>7. Fillable(p, orders)
  BY <1>3, <1>6 DEF Fillable
<1>8. EthOf(orders) \in Nat /\ EthOf(orders) <= eth
  <2> DEFINE G == SumFunctionOnSet(g, Places)
  <2>1. \A i \in Places : f[i] \in Nat /\ g[i] \in Nat /\ g[i] * T <= f[i] * eth
    BY <1>1, <1>6
  <2> HIDE DEF f, g
  <2>2. G \in Nat
    BY <2>1, SumIsNat, ComponentsTyped
  <2>3. G * T <= T * eth
    BY <1>1, <1>2, <2>1, SumIsScaled, ComponentsTyped
  <2>4. G \in Int /\ T \in Nat \ {0} /\ G * T <= eth * T
    <3> HIDE DEF G
    <3> QED
      BY <1>1, <2>2, <2>3
  <2>5. G <= eth
    <3> HIDE DEF G
    <3> QED
      BY <2>4, CancelFactor
  <2> QED
    BY <1>5, <2>2, <2>5
<1>9. /\ parts \in SUBSET Nat /\ parts # {}
      /\ parts = {preciseDiv(orders[i].amount, Unit[Components[i]]) : i \in Places}
  <2>1. ASSUME NEW i \in Places
        PROVE  /\ preciseDiv(orders[i].amount, units[i].amount) \in Nat
               /\ units[i].amount = Unit[Components[i]]
    BY <1>1, <1>6, ComponentsTyped, PreciseDivRoundsDown
  <2>2. parts \in SUBSET Nat
    BY <2>1
  <2>3. parts # {}
    BY ComponentsTyped
  <2>4. parts = {preciseDiv(orders[i].amount, Unit[Components[i]]) : i \in Places}
    BY <2>1, Zenon
  <2> QED
    BY <2>2, <2>3, <2>4
<1> HIDE DEF parts
<1>10. set.amount \in parts /\ \A y \in parts : set.amount <= y
  BY <1>4, <1>9, MinOfNaturals
<1>11. set.amount \in Nat
  BY <1>9, <1>10
<1>12. ASSUME NEW i \in Places
       PROVE  preciseMulCeil(Unit[Components[i]], set.amount) <= orders[i].amount
  <2> DEFINE u == Unit[Components[i]]
             n == set.amount
             x == orders[i].amount
             d == preciseDiv(x, u)
             U == PRECISE_UNIT
  <2>1. u \in Nat \ {0} /\ x \in Nat /\ n \in Nat /\ U \in Nat \ {0}
    BY <1>6, <1>11, ComponentsTyped, PreciseUnitAssumption
  <2>2. n <= d
    BY <1>9, <1>10
  <2> HIDE DEF u, n, x, U
  <2>3. d \in Nat /\ u * d <= x * U
    BY <2>1, PreciseDivRoundsDown DEF U
  <2> HIDE DEF d
  <2>4. u * n <= u * d /\ u * n \in Nat /\ u * d \in Nat /\ x * U \in Nat /\ x * U = U * x
    BY <2>1, <2>2, <2>3, ProductIsMonotone, ProductIsNat
  <2>5. u * n <= U * x
    BY <2>3, <2>4
  <2>6. preciseMulCeil(u, n) <= x
    BY <2>1, <2>5, PreciseMulCeilIsLeast DEF U
  <2> QED
    BY <2>6 DEF u, n, x
<1> QED
  BY <1>4, <1>7, <1>8, <1>9, <1>10, <1>11, <1>12 DEF set

(***************************************************************************)
(* The transactions.                                                       *)
(***************************************************************************)
LEMMA EthTyped ==
  ASSUME NEW orders, DOMAIN orders = Places, \A i \in Places : orders[i].eth \in Nat
  PROVE  /\ EthOf(orders) = SumFunctionOnSet([i \in Places |-> orders[i].eth], Places)
         /\ EthOf(orders) \in Nat
<1> DEFINE f == [i \in Places |-> orders[i].eth]
<1>1. EthOf(orders) = SumFunctionOnSet(f, Places)
  BY DEF EthOf, SumFunction
<1>2. \A i \in Places : f[i] \in Nat
  OBVIOUS
<1> HIDE DEF f
<1>3. SumFunctionOnSet(f, Places) \in Nat
  BY <1>2, SumIsNat, ComponentsTyped
<1> QED
  BY <1>1, <1>3 DEF f

OutcomeOK(o) == o \in [kind : {"none", "issueExact", "issueFor", "redeem"}, limit : Nat, result : Nat]

\* what a transaction keeps, and the invariant it establishes
Kept == /\ PoolsOK(pools') /\ HeldOK' /\ OutcomeOK(outcome') /\ UserProtected'
        /\ \A t \in DOMAIN held : held'[t] >= held[t]
        /\ outcome'.kind # "issueFor" => held' = held

\* An issuance of an exact amount pays no more than offered, and refunds the rest.
LEMMA IssueExactKeeps ==
  ASSUME PoolsOK(pools), HeldOK, NEW t \in Tokens \union {WETH}, NEW s \in Nat, NEW x \in Nat,
         issueExactSetFromToken(t, s, x)
  PROVE  Kept
<1> DEFINE input == inWETH(pools, t, x)
           p == input.pools
           orders == getAmountETHForIssuance(p, s)
           E == input.eth
           T == EthOf(orders)
<1>1. /\ E > 0 /\ LiquidIn(orders) /\ T <= E
      /\ pools' = afterBuys(p, orders)
      /\ held' = settled(E - T - (E - T), orders, s)
      /\ outcome' = Finished("issueExact", E, T)
  BY Zenon DEF issueExactSetFromToken
<1>2. E \in Nat /\ PoolsOK(p)
  BY <1>1, PaymentTyped
<1> HIDE DEF p, E
<1>3. Fillable(p, orders) /\ DOMAIN orders = Places
  BY <1>1, <1>2, IssuanceIsFillable, IssuanceOrders
<1>4. \A i \in Places : /\ orders[i].amount = preciseMulCeil(Unit[Components[i]], s)
                        /\ orders[i].amount \in Nat /\ orders[i].eth \in Nat
                        /\ preciseMulCeil(Unit[Components[i]], s) <= orders[i].amount
  BY <1>3, IssuanceOrders DEF Fillable
<1> HIDE DEF orders
<1>5. T \in Nat
  BY <1>3, <1>4, EthTyped
<1> HIDE DEF T
<1>6. PoolsOK(pools')
  BY <1>1, <1>2, <1>3, BuysKeepPools
<1>7. held' = held
  <2>1. E - T - (E - T) = 0
    BY <1>2, <1>5
  <2>2. held' = settled(0, orders, s)
    BY <1>1, <2>1
  <2>3. settled(0, orders, s) = held
    BY <1>3, <1>4, SettledGrows
  <2> QED
    BY <2>2, <2>3
<1>8. \A y \in DOMAIN held : held[y] >= held[y]
  BY DEF HeldOK
<1>9. OutcomeOK(outcome') /\ UserProtected'
  BY <1>1, <1>2, <1>5 DEF OutcomeOK, UserProtected, Finished
<1> QED
  BY <1>6, <1>7, <1>8, <1>9 DEF Kept, HeldOK

\* An issuance for an exact payment issues more than the minimum.
LEMMA IssueForKeeps ==
  ASSUME PoolsOK(pools), HeldOK, NEW t \in Tokens \union {WETH}, NEW x \in Nat, NEW min \in Nat,
         issueSetForExactToken(t, x, min)
  PROVE  Kept
<1> DEFINE input == inWETH(pools, t, x)
           p == input.pools
           E == input.eth
           set == getSetIssueAmountForETH(p, E)
           T == EthOf(set.orders)
<1>1. /\ E > 0 /\ LiquidIn(getAmountETHForIssuance(p, PRECISE_UNIT))
      /\ set.amount > min
      /\ pools' = afterBuys(p, set.orders)
      /\ held' = settled(E - T, set.orders, set.amount)
      /\ outcome' = Finished("issueFor", min, set.amount)
  BY Zenon DEF issueSetForExactToken
<1>2. E \in Nat /\ PoolsOK(p)
  BY <1>1, PaymentTyped
<1> HIDE DEF p, E
<1>3. /\ Fillable(p, set.orders) /\ T \in Nat /\ T <= E /\ set.amount \in Nat
      /\ \A i \in Places : preciseMulCeil(Unit[Components[i]], set.amount) <= set.orders[i].amount
  BY <1>1, <1>2, ScaledOrders
<1> HIDE DEF set, T
<1>4. PoolsOK(pools')
  BY <1>1, <1>2, <1>3, BuysKeepPools
<1>5. E - T \in Nat
  BY <1>2, <1>3
<1>6. /\ DOMAIN set.orders = Places
      /\ \A i \in Places :
           /\ set.orders[i].amount \in Nat
           /\ preciseMulCeil(Unit[Components[i]], set.amount) <= set.orders[i].amount
  BY <1>3 DEF Fillable
<1>7. held' \in [Tokens \union {WETH} -> Nat] /\ \A y \in DOMAIN held : held'[y] >= held[y]
  BY <1>1, <1>3, <1>5, <1>6, SettledGrows
<1>8. OutcomeOK(outcome') /\ UserProtected'
  BY <1>1, <1>3 DEF OutcomeOK, UserProtected, Finished
<1>9. outcome'.kind = "issueFor"
  BY <1>1 DEF Finished
<1> QED
  BY <1>4, <1>7, <1>8, <1>9 DEF Kept, HeldOK

\* A redemption brings more than the minimum: the sales before the last swap leave
\* the pools with less WETH and more of the token, so the swap brings at least what
\* was looked up before them.
LEMMA RedeemKeeps ==
  ASSUME PoolsOK(pools), HeldOK, NEW t \in Tokens \union {WETH}, NEW s \in Nat, NEW min \in Nat,
         redeemExactSetForToken(t, s, min)
  PROVE  Kept
<1> DEFINE orders == getAmountETHForRedemption(pools, s)
           T == EthOf(orders)
           best == bestBuy(pools, t, T)
           sold == afterSells(pools, orders)
           e == best.exchange
           output == BuyAmount(sold, e, t, T)
<1>1. /\ LiquidOut(orders)
      /\ \/ /\ t = WETH /\ T > min /\ pools' = sold
            /\ outcome' = Finished("redeem", min, T)
         \/ /\ t # WETH /\ best.amount > min
            /\ pools' = Bought(sold, e, t, T, output)
            /\ outcome' = Finished("redeem", min, output)
      /\ held' = held
  BY Zenon DEF redeemExactSetForToken
<1>2. /\ PoolsOK(sold)
      /\ \A x \in Exchanges, y \in Tokens :
           /\ HasPair(pools, x, y) = HasPair(sold, x, y)
           /\ sold[x][y].weth <= pools[x][y].weth /\ pools[x][y].token <= sold[x][y].token
  BY <1>1, SalesKeepPools
<1> HIDE DEF sold
<1>3. DOMAIN orders = Places /\ \A i \in Places : orders[i].eth \in Nat
  <2>1. ASSUME NEW i \in Places PROVE orders[i].eth \in Nat
    <3> DEFINE c == Components[i]
               x == orders[i].amount
    <3>1. x = preciseMul(Unit[c], s) /\ orders[i].eth = getMaxTokenForExactToken(pools, c, x).eth
      BY RedemptionOrders
    <3>2. c \in Tokens \union {WETH} /\ c \in ToSet(Components)
      BY ComponentsTyped
    <3>3. x \in Nat
      BY <3>1, <3>2, AmountsTyped
    <3> HIDE DEF c, x
    <3> QED
      BY <3>1, <3>2, <3>3, SellOrderTyped
  <2> QED
    BY <2>1, RedemptionOrders
<1> HIDE DEF orders
<1>4. T \in Nat
  BY <1>3, EthTyped
<1> HIDE DEF T
<1>5. HeldOK' /\ \A y \in DOMAIN held : held'[y] >= held[y]
  BY <1>1 DEF HeldOK
<1>6. CASE t = WETH
  BY <1>1, <1>2, <1>4, <1>5, <1>6 DEF Kept, OutcomeOK, UserProtected, Finished
<1>7. CASE t # WETH
  <2>0. /\ t \in Tokens /\ best.amount > min /\ pools' = Bought(sold, e, t, T, output)
        /\ outcome' = Finished("redeem", min, output)
    BY <1>1, <1>7
  <2>1. /\ e \in Exchanges
        /\ best.amount = IF HasPair(pools, e, t) THEN BuyAmount(pools, e, t, T) ELSE 0
    BY ExchangesAreTwo DEF bestBuy
  <2>2. HasPair(pools, e, t)
    BY <2>0, <2>1
  <2>3. best.amount = getAmountOut(T, pools[e][t].weth, pools[e][t].token)
    BY <2>1, <2>2 DEF BuyAmount
  <2>4. output = getAmountOut(T, sold[e][t].weth, sold[e][t].token)
    BY DEF BuyAmount
  <2> HIDE DEF best, e, output
  <2>5. /\ pools[e][t].weth \in Nat \ {0} /\ pools[e][t].token \in Nat \ {0}
        /\ sold[e][t].weth \in Nat \ {0} /\ sold[e][t].token \in Nat \ {0}
        /\ sold[e][t].weth <= pools[e][t].weth /\ pools[e][t].token <= sold[e][t].token
        /\ HasPair(sold, e, t)
    BY <1>2, <2>0, <2>1, <2>2, PoolTyped
  <2>6. best.amount <= output /\ best.amount \in Nat /\ output \in Nat /\ output < sold[e][t].token
    <3> DEFINE i == pools[e][t].weth
               j == sold[e][t].weth
               o == pools[e][t].token
               r == sold[e][t].token
    <3>1. /\ i \in Nat \ {0} /\ j \in Nat \ {0} /\ j <= i
          /\ o \in Nat \ {0} /\ r \in Nat \ {0} /\ o <= r
      BY <2>5
    <3>2. best.amount = getAmountOut(T, i, o) /\ output = getAmountOut(T, j, r)
      BY <2>3, <2>4
    <3> HIDE DEF i, j, o, r
    <3>3. best.amount <= output
      BY <1>4, <3>1, <3>2, AmountOutGrows
    <3>4. best.amount \in Nat /\ output \in Nat /\ output < r
      BY <1>4, <3>1, <3>2, AmountOutBelowReserve
    <3> QED
      BY <3>3, <3>4 DEF r
  <2>7. PoolsOK(pools')
    BY <1>2, <1>4, <2>0, <2>1, <2>5, <2>6, BoughtKeepsPools
  <2>8. output > min
    BY <2>0, <2>6
  <2>9. OutcomeOK(outcome') /\ UserProtected'
    BY <2>0, <2>6, <2>8 DEF OutcomeOK, UserProtected, Finished
  <2> QED
    BY <1>1, <1>5, <2>7, <2>9 DEF Kept
<1> QED
  BY <1>6, <1>7

(***************************************************************************)
(* The invariant.                                                          *)
(***************************************************************************)
QuoteIn(q) == QuoteOK(q) /\ Len(q.reads) <= ReadsOf(q)

Inv == /\ PoolsOK(pools) /\ HeldOK /\ OutcomeOK(outcome) /\ UserProtected
       /\ trades \in Nat /\ calls \in Nat
       /\ quote = NoQuote \/ (QuoteIn(quote) /\ quote.since <= trades)

\* a quote with one more answer
WithRead(q, n) == [q EXCEPT !.reads = Append(@, n)]

LEMMA WithReadTyped ==
  ASSUME NEW q, q \in QuoteRecord, NEW n \in Nat
  PROVE  LET r == WithRead(q, n)
         IN /\ r \in QuoteRecord /\ r.kind = q.kind /\ r.token = q.token
            /\ r.amount = q.amount /\ r.paid = q.paid /\ r.since = q.since
            /\ Len(r.reads) = Len(q.reads) + 1
            /\ Len(q.reads) \in Nat
            /\ \A m \in 1 .. Len(q.reads) : r.reads[m] = q.reads[m]
            /\ r.reads[Len(q.reads) + 1] = n
            /\ ReadsBefore(r) = ReadsBefore(q) /\ ReadsOver(r) = ReadsOver(q)
            /\ ReadsAfter(r) = ReadsAfter(q) /\ ReadsOf(r) = ReadsOf(q)
<1> DEFINE r == WithRead(q, n)
           s == q.reads
<1>1. s \in Seq(Nat) /\ Len(s) \in Nat
  BY DEF QuoteRecord
<1>2. /\ r.kind = q.kind /\ r.token = q.token /\ r.amount = q.amount /\ r.paid = q.paid
      /\ r.since = q.since /\ r.reads = Append(s, n)
  BY DEF WithRead, QuoteRecord
<1>3. Append(s, n) \in Seq(Nat)
  BY <1>1
<1>4. r \in QuoteRecord
  BY <1>3 DEF WithRead, QuoteRecord
<1> HIDE DEF r, s
<1>5. /\ Len(r.reads) = Len(s) + 1 /\ r.reads[Len(s) + 1] = n
      /\ \A m \in 1 .. Len(s) : r.reads[m] = s[m]
  BY <1>1, <1>2
<1>6. /\ ReadsBefore(r) = ReadsBefore(q) /\ ReadsOver(r) = ReadsOver(q)
      /\ ReadsAfter(r) = ReadsAfter(q) /\ ReadsOf(r) = ReadsOf(q)
  BY <1>2 DEF ReadsBefore, ReadsOver, ReadsAfter, ReadsOf
<1> QED
  BY <1>1, <1>2, <1>4, <1>5, <1>6 DEF r, s

LEMMA ReadKeepsQuote ==
  ASSUME NEW q, QuoteIn(q), ~Answered(q), PoolsOK(pools), ~throws(nextRead(q))
  PROVE  answer(nextRead(q)) \in Nat /\ QuoteIn(WithRead(q, answer(nextRead(q))))
<1> DEFINE m == Len(q.reads)
           ask == askAt(q, m)
           n == answer(ask)
           r == WithRead(q, n)
           b == ReadsBefore(q)
<1>0. q \in QuoteRecord /\ QuoteOK(q) /\ FirstPass(q) /\ m \in Nat
  BY DEF QuoteIn, QuoteOK, QuoteRecord
<1>1. ReadsOf(q) \in Nat /\ m < ReadsOf(q) /\ b \in Nat /\ PairReads \in Nat
  <2>1. ReadsOf(q) \in Nat /\ b \in Nat /\ PairReads \in Nat
    BY <1>0, ReadCounts DEF ReadsOf
  <2>2. m <= ReadsOf(q) /\ m # ReadsOf(q)
    BY DEF QuoteIn, Answered, ReadsOf
  <2> QED
    BY <1>0, <2>1, <2>2
<1>2. nextRead(q) = ask
  BY NextReadIsAskAt
<1>3. /\ AskOK(ask)
      /\ q.kind = "issueFor" /\ m + 1 \in b + 1 .. b + PairReads => ask.way = "buyExact"
  <2>1. m <= Len(q.reads)
    BY <1>0
  <2> QED
    BY <1>0, <1>1, <2>1, AskTyped
<1>4. n \in Nat /\ (ask.way = "buyExact" => n > 0)
  BY <1>2, <1>3, AnswerTyped
<1> HIDE DEF ask, n
<1>5. /\ r \in QuoteRecord /\ r.kind = q.kind /\ Len(r.reads) = m + 1
      /\ \A k \in 1 .. m : r.reads[k] = q.reads[k]
      /\ r.reads[m + 1] = n
      /\ ReadsBefore(r) = b /\ ReadsOf(r) = ReadsOf(q)
  BY <1>0, <1>4, WithReadTyped
<1> HIDE DEF r, m, b
<1>6. FirstPass(r)
  <2> SUFFICES ASSUME q.kind = "issueFor", NEW k \in b + 1 .. b + PairReads, k <= m + 1
               PROVE  r.reads[k] > 0
    BY <1>5 DEF FirstPass
  <2>1. CASE k = m + 1
    BY <1>3, <1>4, <1>5, <2>1
  <2>2. CASE k # m + 1
    <3>1. k \in 1 .. m
      BY <1>0, <1>1, <2>2
    <3>2. q.reads[k] > 0
      BY <1>0, <3>1 DEF FirstPass, m, b
    <3> QED
      BY <1>5, <3>1, <3>2
  <2> QED
    BY <2>1, <2>2
<1>7. Len(r.reads) <= ReadsOf(r)
  BY <1>0, <1>1, <1>5
<1> QED
  BY <1>2, <1>4, <1>5, <1>6, <1>7 DEF QuoteIn, QuoteOK, n, r

LEMMA InitInv == Init => Inv
<1> SUFFICES ASSUME Init PROVE Inv
  OBVIOUS
<1>1. PoolsOK(pools)
  BY ExchangeIssuanceAssumption DEF Init, PoolsOK
<1>2. HeldOK
  BY DEF Init, HeldOK
<1>3. OutcomeOK(outcome) /\ UserProtected
  BY DEF Init, OutcomeOK, UserProtected, Finished
<1> QED
  BY <1>1, <1>2, <1>3 DEF Init, Inv

LEMMA RequestQuoteInv ==
  ASSUME Inv, NEW kind \in Kinds, NEW t \in Tokens \union {WETH}, NEW x \in Nat, NEW paid \in Nat,
         requestQuote(kind, t, x, paid)
  PROVE  Inv' /\ held' = held
<1> DEFINE q == [kind |-> kind, token |-> t, amount |-> x, paid |-> paid,
                 reads |-> <<>>, since |-> trades]
<1>1. /\ quote' = q /\ calls' = calls + 1 /\ pools' = pools /\ held' = held
      /\ outcome' = outcome /\ trades' = trades
  BY DEF requestQuote
<1>2. trades \in Nat /\ calls \in Nat
  BY DEF Inv
<1>3. q \in QuoteRecord
  BY <1>2 DEF QuoteRecord
<1>4. Len(q.reads) = 0 /\ q.since = trades
  OBVIOUS
<1> HIDE DEF q
<1>5. FirstPass(q) /\ Len(q.reads) <= ReadsOf(q)
  <2>1. ReadsBefore(q) \in Nat /\ ReadsOf(q) \in Nat
    BY <1>3, ReadCounts DEF ReadsOf
  <2>2. \A n \in ReadsBefore(q) + 1 .. ReadsBefore(q) + PairReads : ~(n <= 0)
    BY <2>1
  <2> QED
    BY <1>4, <2>1, <2>2 DEF FirstPass
<1>6. QuoteIn(quote') /\ quote'.since <= trades'
  BY <1>1, <1>2, <1>3, <1>4, <1>5 DEF QuoteIn, QuoteOK
<1>7. calls' \in Nat
  BY <1>1, <1>2
<1> QED
  BY <1>1, <1>6, <1>7 DEF Inv, HeldOK, UserProtected

LEMMA ReadInv ==
  ASSUME Inv, read
  PROVE  Inv' /\ held' = held
<1>1. /\ quote # NoQuote /\ ~Answered(quote) /\ pools' = pools /\ held' = held
      /\ outcome' = outcome /\ trades' = trades /\ calls' = calls
  BY DEF read
<1>2. QuoteIn(quote) /\ quote.since <= trades /\ PoolsOK(pools)
  BY <1>1 DEF Inv
<1>3. quote' = NoQuote \/ (QuoteIn(quote') /\ quote'.since <= trades')
  <2>1. CASE throws(nextRead(quote))
    BY <2>1 DEF read
  <2>2. CASE ~throws(nextRead(quote))
    <3> DEFINE n == answer(nextRead(quote))
    <3>1. quote' = WithRead(quote, n)
      BY <2>2 DEF read, WithRead
    <3>2. n \in Nat /\ QuoteIn(WithRead(quote, n))
      BY <1>1, <1>2, <2>2, ReadKeepsQuote
    <3>3. WithRead(quote, n).since = quote.since
      BY <1>2, <3>2, WithReadTyped DEF QuoteIn, QuoteOK
    <3> QED
      BY <1>1, <1>2, <3>1, <3>2, <3>3
  <2> QED
    BY <2>1, <2>2
<1> QED
  BY <1>1, <1>3 DEF Inv, HeldOK, UserProtected

LEMMA SubmitInv ==
  ASSUME Inv, NEW slippage \in Slippages, submit(slippage)
  PROVE  Inv' /\ Kept
<1> DEFINE r == result(quote)
<1>1. /\ quote # NoQuote /\ Answered(quote) /\ quote' = NoQuote
      /\ trades' = trades /\ calls' = calls
  BY DEF submit
<1>2. /\ QuoteOK(quote) /\ quote.token \in Tokens \union {WETH}
      /\ quote.amount \in Nat /\ quote.paid \in Nat
  BY <1>1 DEF Inv, QuoteIn, QuoteOK, QuoteRecord
<1>3. PoolsOK(pools) /\ HeldOK /\ slippage \in Nat
  BY ExchangeIssuanceAssumption DEF Inv
<1>4. quote.kind # "refund" => r \in Nat
  BY <1>1, <1>2, ResultTyped
<1>5. Kept
  <2>1. CASE quote.kind = "issueExact" /\ issueExactSetFromToken(quote.token, quote.amount, r + slippage)
    <3>1. r + slippage \in Nat
      BY <1>3, <1>4, <2>1
    <3> HIDE DEF r
    <3> QED
      BY <1>2, <1>3, <2>1, <3>1, IssueExactKeeps
  <2>2. CASE issueExactSetFromToken(quote.token, quote.amount, quote.paid)
    BY <1>2, <1>3, <2>2, IssueExactKeeps
  <2>3. CASE /\ quote.kind = "issueFor" /\ r >= slippage
             /\ issueSetForExactToken(quote.token, quote.amount, r - slippage)
    <3>1. r - slippage \in Nat
      BY <1>3, <1>4, <2>3
    <3> HIDE DEF r
    <3> QED
      BY <1>2, <1>3, <2>3, <3>1, IssueForKeeps
  <2>4. CASE /\ quote.kind = "redeem" /\ r >= slippage
             /\ redeemExactSetForToken(quote.token, quote.amount, r - slippage)
    <3>1. r - slippage \in Nat
      BY <1>3, <1>4, <2>4
    <3> HIDE DEF r
    <3> QED
      BY <1>2, <1>3, <2>4, <3>1, RedeemKeeps
  <2> QED
    BY <2>1, <2>2, <2>3, <2>4 DEF submit
<1> QED
  BY <1>1, <1>5 DEF Kept, Inv

LEMMA OthersTradeInv ==
  ASSUME Inv, NEW e \in Exchanges, NEW t \in Tokens, NEW x \in SwapAmounts, othersTrade(e, t, x)
  PROVE  Inv' /\ held' = held
<1>1. /\ HasPair(pools, e, t) /\ trades' = trades + 1 /\ quote' = quote /\ held' = held
      /\ outcome' = outcome /\ calls' = calls
  BY DEF othersTrade
<1>2. PoolsOK(pools) /\ x \in Nat /\ trades \in Nat
  BY ExchangeIssuanceAssumption DEF Inv
<1> DEFINE w == pools[e][t].weth
           o == pools[e][t].token
<1>3. w \in Nat \ {0} /\ o \in Nat \ {0}
  BY <1>1, <1>2, PoolTyped
<1>4. /\ BuyAmount(pools, e, t, x) \in Nat /\ BuyAmount(pools, e, t, x) < o
      /\ SellAmount(pools, e, t, x) \in Nat /\ SellAmount(pools, e, t, x) < w
  BY <1>2, <1>3, AmountOutBelowReserve DEF BuyAmount, SellAmount
<1>5. PoolsOK(Bought(pools, e, t, x, BuyAmount(pools, e, t, x)))
  BY <1>1, <1>2, <1>4, BoughtKeepsPools
<1>6. PoolsOK(Sold(pools, e, t, x, SellAmount(pools, e, t, x)))
  BY <1>1, <1>2, <1>4, SoldKeepsPools
<1>7. PoolsOK(pools')
  BY <1>5, <1>6 DEF othersTrade
<1>8. ASSUME quote # NoQuote PROVE QuoteIn(quote) /\ quote.since <= trades + 1
  <2>1. QuoteIn(quote) /\ quote.since <= trades /\ quote.since \in Nat
    BY <1>8 DEF Inv, QuoteIn, QuoteOK, QuoteRecord
  <2> QED
    BY <1>2, <2>1
<1>9. trades' \in Nat
  BY <1>1, <1>2
<1> QED
  BY <1>1, <1>7, <1>8, <1>9 DEF Inv, HeldOK, UserProtected

\* What a step may do to what is held.
Residue == /\ \A t \in DOMAIN held : held'[t] >= held[t]
           /\ outcome'.kind # "issueFor" => held' = held

LEMMA StepInv ==
  ASSUME Inv, [Next]_vars
  PROVE  Inv' /\ [Residue]_vars
<1>0. held' = held => Residue
  BY DEF Inv, HeldOK, Residue
<1>1. ASSUME NEW kind \in {"issueExact", "redeem"}, NEW t \in Tokens \union {WETH},
             NEW s \in SetAmounts, requestQuote(kind, t, s, 0)
      PROVE  Inv' /\ held' = held
  BY <1>1, RequestQuoteInv, ExchangeIssuanceAssumption DEF Kinds
<1>2. ASSUME NEW t \in Tokens \union {WETH}, NEW s \in SetAmounts, NEW paid \in Inputs,
             requestQuote("refund", t, s, paid)
      PROVE  Inv' /\ held' = held
  BY <1>2, RequestQuoteInv, ExchangeIssuanceAssumption DEF Kinds
<1>3. ASSUME NEW t \in Tokens \union {WETH}, NEW x \in Inputs, requestQuote("issueFor", t, x, 0)
      PROVE  Inv' /\ held' = held
  BY <1>3, RequestQuoteInv, ExchangeIssuanceAssumption DEF Kinds
<1>4. CASE read
  BY <1>0, <1>4, ReadInv
<1>5. ASSUME NEW slippage \in Slippages, submit(slippage) PROVE Inv' /\ Residue
  BY <1>5, SubmitInv DEF Kept, Residue
<1>6. CASE discard
  BY <1>0, <1>6 DEF discard, Inv, HeldOK, UserProtected
<1>7. ASSUME NEW e \in Exchanges, NEW t \in Tokens, NEW x \in SwapAmounts, othersTrade(e, t, x)
      PROVE  Inv' /\ held' = held
  BY <1>7, OthersTradeInv
<1>8. CASE UNCHANGED vars
  BY <1>8 DEF vars, Inv, HeldOK, UserProtected
<1> QED
  BY <1>0, <1>1, <1>2, <1>3, <1>4, <1>5, <1>6, <1>7, <1>8 DEF Next

(***************************************************************************)
(* The inductive invariant: whoever trades in between, every pool keeps    *)
(* liquidity on both sides, the contract holds no negative amount, what a  *)
(* finished call reports respects the user's limit, and every answer the   *)
(* quote has read is a number, positive where it is divided by.            *)
(***************************************************************************)
THEOREM InvHolds == Spec => []Inv
<1>1. Inv /\ [Next]_vars => Inv'
  BY StepInv
<1> QED
  BY <1>1, InitInv, PTL DEF Spec

\* For any components, any pools and any trades by others between the reads of a
\* quote and its transaction: a user never pays more than offered and never receives
\* less than asked for, although the last swap of a redemption is made on other
\* pools than the ones the contract compared with the minimum.
THEOREM UserIsProtected == Spec => []UserProtected
<1>1. Inv => UserProtected
  BY DEF Inv
<1> QED
  BY <1>1, InvHolds, PTL

\* No call of ExchangeIssuance is paid out of what earlier calls left behind: what
\* is bought of each component covers what BasicIssuanceModule.issue pulls, and the
\* shares of a payment, rounded down, never exceed it.
THEOREM ResidueIsUntouched == Spec => ResidueUntouched
<1>1. Inv /\ [Next]_vars => [Residue]_vars
  BY StepInv
<1>2. Spec => [][Residue]_vars
  BY <1>1, InvHolds, PTL DEF Spec
<1> QED
  BY <1>2 DEF ResidueUntouched, Residue

(***************************************************************************)
(* A quote nobody has traded against.                                      *)
(***************************************************************************)
\* a router's error and its answer, on pools p
throwsAt(p, ask) ==
  \/ ~HasPair(p, ask.exchange, ask.token) /\ ~ask.checked
  \/ HasPair(p, ask.exchange, ask.token) /\ ask.amount = 0
  \/ /\ HasPair(p, ask.exchange, ask.token) /\ ask.way = "buyExact"
     /\ ask.amount >= p[ask.exchange][ask.token].token
  \/ /\ HasPair(p, ask.exchange, ask.token) /\ ask.way = "sellFor"
     /\ ask.amount >= p[ask.exchange][ask.token].weth

answerAt(p, ask) ==
  LET pool == p[ask.exchange][ask.token]
  IN IF ~HasPair(p, ask.exchange, ask.token)
     THEN IF ask.way \in {"buyExact", "sellFor"} THEN MAX_UINT_256 ELSE 0
     ELSE CASE ask.way = "buyExact" -> getAmountIn(ask.amount, pool.weth, pool.token)
            [] ask.way = "sellFor" -> getAmountIn(ask.amount, pool.token, pool.weth)
            [] ask.way = "buy" -> getAmountOut(ask.amount, pool.weth, pool.token)
            [] OTHER -> getAmountOut(ask.amount, pool.token, pool.weth)

LEMMA RoutersOnPools ==
  ASSUME NEW a
  PROVE  throws(a) = throwsAt(pools, a) /\ answer(a) = answerAt(pools, a)
<1>1. throws(a) = throwsAt(pools, a)
  BY DEF throws, throwsAt
<1>2. answer(a) = answerAt(pools, a)
  BY Zenon DEF answer, answerAt
<1> QED
  BY <1>1, <1>2

\* every read is what the router says on pools p
FreshReads(p, q) ==
  \A m \in Nat : m < Len(q.reads) =>
    ~throwsAt(p, askAt(q, m)) /\ q.reads[m + 1] = answerAt(p, askAt(q, m))

Fresh == quote # NoQuote /\ quote.since = trades => FreshReads(pools, quote)

\* What was asked does not change when more is read.
LEMMA PairIsStable ==
  ASSUME NEW q, q \in QuoteRecord, NEW x \in Nat, NEW n \in Nat, n + PairReads <= Len(q.reads),
         NEW c \in ToSet(Components), c # WETH
  PROVE  /\ PairOf(WithRead(q, x), n, c)[1] = PairOf(q, n, c)[1]
         /\ PairOf(WithRead(q, x), n, c)[2] = PairOf(q, n, c)[2]
<1> DEFINE r == WithRead(q, x)
           j == placeIn(c)
<1>1. /\ r \in QuoteRecord /\ Len(r.reads) = Len(q.reads) + 1 /\ Len(q.reads) \in Nat
      /\ \A m \in 1 .. Len(q.reads) : r.reads[m] = q.reads[m]
  BY WithReadTyped
<1> HIDE DEF r, j
<1>2. PairReads \in Nat
  BY ReadCounts
<1>3. n + PairReads <= Len(r.reads)
  BY <1>1, <1>2
<1>4. /\ n + 2 * j - 1 \in n + 1 .. n + PairReads /\ n + 2 * j \in n + 1 .. n + PairReads
      /\ PairOf(q, n, c)[1] = q.reads[n + 2 * j - 1] /\ PairOf(q, n, c)[2] = q.reads[n + 2 * j]
  BY PairIsRead DEF j
<1>5. PairOf(r, n, c)[1] = r.reads[n + 2 * j - 1] /\ PairOf(r, n, c)[2] = r.reads[n + 2 * j]
  BY <1>1, <1>3, PairIsRead DEF j
<1>6. \A m \in n + 1 .. n + PairReads : m \in 1 .. Len(q.reads)
  BY <1>1, <1>2
<1>7. \A m \in n + 1 .. n + PairReads : r.reads[m] = q.reads[m]
  BY <1>1, <1>6
<1> QED
  BY <1>4, <1>5, <1>7 DEF r

LEMMA SumsAreStable ==
  ASSUME NEW q, q \in QuoteRecord, NEW x \in Nat
  PROVE  /\ \A c : componentAmount(WithRead(q, x), c) = componentAmount(q, c)
         /\ ReadsBefore(q) + PairReads <= Len(q.reads) =>
              /\ getIssueExactSetFromETH(WithRead(q, x)) = getIssueExactSetFromETH(q)
              /\ q.kind = "issueFor" =>
                   \A c \in ToSet(Components) : scaledEth(WithRead(q, x), c) = scaledEth(q, c)
         /\ PairReads <= Len(q.reads) =>
              getRedeemExactSetForETH(WithRead(q, x)) = getRedeemExactSetForETH(q)
<1> DEFINE r == WithRead(q, x)
           b == ReadsBefore(q)
<1>0. /\ r.kind = q.kind /\ r.token = q.token /\ r.amount = q.amount
      /\ ReadsBefore(r) = b /\ Len(q.reads) \in Nat
      /\ \A m \in 1 .. Len(q.reads) : r.reads[m] = q.reads[m]
  BY WithReadTyped
<1>1. \A c : componentAmount(r, c) = componentAmount(q, c)
  BY <1>0 DEF componentAmount
<1>2. b \in Nat /\ PairReads \in Nat
  BY ReadCounts
<1>3. ASSUME b + PairReads <= Len(q.reads)
      PROVE  /\ getIssueExactSetFromETH(r) = getIssueExactSetFromETH(q)
             /\ q.kind = "issueFor" => \A c \in ToSet(Components) : scaledEth(r, c) = scaledEth(q, c)
  <2>1. ASSUME NEW c \in ToSet(Components), NEW y
        PROVE  getInputAmountBestPrice(r, c, y) = getInputAmountBestPrice(q, c, y)
    <3>1. CASE c = WETH
      BY <3>1 DEF getInputAmountBestPrice
    <3>2. CASE c # WETH
      <4>1. PairOf(r, b, c)[1] = PairOf(q, b, c)[1] /\ PairOf(r, b, c)[2] = PairOf(q, b, c)[2]
        BY <1>2, <1>3, <3>2, PairIsStable
      <4> QED
        BY <1>0, <4>1 DEF getInputAmountBestPrice
    <3> QED
      BY <3>1, <3>2
  <2> HIDE DEF r
  <2>2. \A i \in Places : Components[i] \in ToSet(Components)
    BY ComponentsTyped
  <2>3. costs(r) = costs(q) /\ unitCosts(r) = unitCosts(q)
    BY <1>1, <2>1, <2>2 DEF costs, unitCosts
  <2>4. ASSUME q.kind = "issueFor" PROVE ethInput(r) = ethInput(q)
    <3>1. CASE q.token = WETH
      BY <1>0, <3>1 DEF ethInput
    <3>2. CASE q.token # WETH
      <4>1. b = 1
        BY <2>4, <3>2, ReadCounts
      <4>2. 1 \in 1 .. Len(q.reads)
        BY <1>0, <1>2, <1>3, <4>1
      <4> QED
        BY <1>0, <3>2, <4>2 DEF ethInput
    <3> QED
      BY <3>1, <3>2
  <2> QED
    BY <2>1, <2>3, <2>4, SumsOverComponents
<1>4. ASSUME PairReads <= Len(q.reads)
      PROVE  getRedeemExactSetForETH(r) = getRedeemExactSetForETH(q)
  <2>1. ASSUME NEW c \in ToSet(Components) PROVE proceeds(r, c) = proceeds(q, c)
    <3>1. CASE c = WETH
      BY <1>1, <3>1 DEF proceeds
    <3>2. CASE c # WETH
      <4>1. 0 \in Nat /\ 0 + PairReads <= Len(q.reads)
        BY <1>2, <1>4
      <4>2. PairOf(r, 0, c)[1] = PairOf(q, 0, c)[1] /\ PairOf(r, 0, c)[2] = PairOf(q, 0, c)[2]
        BY <3>2, <4>1, PairIsStable
      <4> QED
        BY <3>2, <4>2 DEF proceeds
    <3> QED
      BY <3>1, <3>2
  <2> HIDE DEF r
  <2>2. allProceeds(r) = allProceeds(q)
    BY <2>1, ComponentsTyped DEF allProceeds
  <2> QED
    BY <2>2, SumsOverComponents
<1> QED
  BY <1>1, <1>3, <1>4

LEMMA AskIsStable ==
  ASSUME NEW q, q \in QuoteRecord, NEW x \in Nat, NEW m \in Nat, m <= Len(q.reads), m < ReadsOf(q)
  PROVE  askAt(WithRead(q, x), m) = askAt(q, m)
<1> DEFINE r == WithRead(q, x)
           b == ReadsBefore(q)
<1>0. /\ r.kind = q.kind /\ r.token = q.token /\ r.amount = q.amount /\ r.paid = q.paid
      /\ ReadsBefore(r) = b /\ ReadsOver(r) = ReadsOver(q) /\ Len(q.reads) \in Nat
      /\ q.kind \in Kinds
  BY WithReadTyped DEF QuoteRecord
<1>1. /\ b \in Nat /\ ReadsOver(q) \in Nat /\ PairReads \in Nat /\ ReadsOver(q) >= PairReads
      /\ q.kind # "issueFor" => b = 0 /\ ReadsOver(q) = PairReads
  BY ReadCounts
<1>2. componentAt(r, m) = componentAt(q, m)
  BY <1>0 DEF componentAt
<1>3. \A c : componentAmount(r, c) = componentAmount(q, c)
  BY SumsAreStable
<1>4. CASE m - b < 0
  BY <1>0, <1>4 DEF askAt
<1>5. CASE m - b >= 0 /\ m - b < ReadsOver(q)
  <2> DEFINE c == componentAt(q, m)
  <2>1. c \in ToSet(Components)
    <3>1. m >= ReadsBefore(q) /\ m < ReadsBefore(q) + ReadsOver(q)
      BY <1>1, <1>5
    <3> QED
      BY <3>1, ComponentAtTyped
  <2>2. ASSUME q.kind = "issueFor", ~(m - b < PairReads)
        PROVE  scaledEth(r, c) = scaledEth(q, c)
    <3>1. b + PairReads <= Len(q.reads)
      BY <1>0, <1>1, <2>2
    <3> QED
      BY <2>1, <2>2, <3>1, SumsAreStable
  <2>3. askOver(r, m) = askOver(q, m)
    <3> HIDE DEF r
    <3>1. CASE q.kind \in {"issueExact", "refund"}
      BY <1>0, <1>2, <1>3, <3>1 DEF askOver
    <3>2. CASE q.kind = "redeem"
      BY <1>0, <1>2, <1>3, <3>2 DEF askOver
    <3>3. CASE q.kind = "issueFor" /\ m - b < PairReads
      BY <1>0, <1>2, <3>3 DEF askOver
    <3>4. CASE q.kind = "issueFor" /\ ~(m - b < PairReads)
      BY <1>0, <1>2, <2>2, <3>4 DEF askOver
    <3> QED
      BY <1>0, <3>1, <3>2, <3>3, <3>4 DEF Kinds
  <2> HIDE DEF r
  <2> QED
    BY <1>0, <1>1, <1>5, <2>3 DEF askAt, r
<1>6. CASE m - b >= ReadsOver(q)
  <2>1. b + PairReads <= Len(q.reads) /\ PairReads <= Len(q.reads)
    BY <1>0, <1>1, <1>6
  <2>2. /\ getIssueExactSetFromETH(r) = getIssueExactSetFromETH(q)
        /\ getRedeemExactSetForETH(r) = getRedeemExactSetForETH(q)
    BY <2>1, SumsAreStable
  <2> HIDE DEF r
  <2>3. askAfter(r, m) = askAfter(q, m)
    BY <1>0, <2>2 DEF askAfter
  <2> QED
    BY <1>0, <1>1, <1>6, <2>3 DEF askAt, r
<1> QED
  BY <1>0, <1>1, <1>4, <1>5, <1>6

LEMMA StepFresh ==
  ASSUME Inv, Fresh, [Next]_vars
  PROVE  Fresh'
<1> SUFFICES ASSUME quote' # NoQuote, quote'.since = trades'
             PROVE  FreshReads(pools', quote')
  BY DEF Fresh
<1>1. ASSUME NEW kind, NEW t, NEW x, NEW paid, requestQuote(kind, t, x, paid)
      PROVE  FreshReads(pools', quote')
  <2>1. Len(quote'.reads) = 0
    BY <1>1 DEF requestQuote
  <2> QED
    BY <2>1 DEF FreshReads
<1>2. CASE read
  <2> DEFINE len == Len(quote.reads)
             a == nextRead(quote)
             x == answer(a)
  <2>1. /\ quote # NoQuote /\ ~Answered(quote) /\ pools' = pools /\ trades' = trades
        /\ ~throws(a) /\ quote' = WithRead(quote, x)
    BY <1>2 DEF read, WithRead
  <2>2. QuoteIn(quote) /\ quote \in QuoteRecord /\ len \in Nat /\ PoolsOK(pools)
    BY <2>1 DEF Inv, QuoteIn, QuoteOK, QuoteRecord
  <2>3. x \in Nat
    BY <2>1, <2>2, ReadKeepsQuote
  <2>4. /\ quote'.since = quote.since /\ Len(quote'.reads) = len + 1
        /\ \A m \in 1 .. len : quote'.reads[m] = quote.reads[m]
        /\ quote'.reads[len + 1] = x
    BY <2>1, <2>2, <2>3, WithReadTyped
  <2>5. FreshReads(pools, quote)
    BY <2>1, <2>4 DEF Fresh
  <2>6. len < ReadsOf(quote) /\ ReadsOf(quote) \in Nat
    <3>1. ReadsOf(quote) \in Nat
      BY <2>2, ReadCounts DEF ReadsOf
    <3>2. len <= ReadsOf(quote) /\ len # ReadsOf(quote)
      BY <2>1, <2>2 DEF QuoteIn, Answered, ReadsOf
    <3> QED
      BY <2>2, <3>1, <3>2
  <2>7. a = askAt(quote, len) /\ ~throwsAt(pools, a) /\ x = answerAt(pools, a)
    BY <2>1, NextReadIsAskAt, RoutersOnPools
  <2> SUFFICES ASSUME NEW m \in Nat, m < len + 1
               PROVE  /\ ~throwsAt(pools, askAt(quote', m))
                      /\ quote'.reads[m + 1] = answerAt(pools, askAt(quote', m))
    BY <2>1, <2>4 DEF FreshReads
  <2> HIDE DEF x, a
  <2>8. m <= len /\ m < ReadsOf(quote)
    BY <2>2, <2>6
  <2>9. askAt(quote', m) = askAt(quote, m)
    BY <2>1, <2>2, <2>3, <2>8, AskIsStable
  <2>10. CASE m = len
    BY <2>4, <2>7, <2>9, <2>10
  <2>11. CASE m # len
    <3>1. m < len /\ m + 1 \in 1 .. len
      BY <2>2, <2>8, <2>11
    <3> QED
      BY <2>4, <2>5, <2>9, <3>1 DEF FreshReads
  <2> QED
    BY <2>10, <2>11
<1>3. ASSUME NEW slippage \in Slippages, submit(slippage) PROVE FALSE
  BY <1>3 DEF submit
<1>4. CASE discard
  BY <1>4 DEF discard
<1>5. ASSUME NEW e \in Exchanges, NEW t \in Tokens, NEW x \in SwapAmounts, othersTrade(e, t, x)
      PROVE  FALSE
  <2>1. quote' = quote /\ trades' = trades + 1
    BY <1>5 DEF othersTrade
  <2>2. quote.since <= trades /\ trades \in Nat /\ quote.since \in Nat
    BY <2>1 DEF Inv, QuoteIn, QuoteOK, QuoteRecord
  <2> QED
    BY <2>1, <2>2
<1>6. CASE UNCHANGED vars
  BY <1>6 DEF vars, Fresh
<1> QED
  BY <1>1, <1>2, <1>3, <1>4, <1>5, <1>6 DEF Next

\* The prices of the routers and of the contract.
LEMMA ExactPrice ==
  ASSUME NEW p, NEW e \in Exchanges, NEW c \in Tokens, NEW x \in Nat, PoolsOK(p),
         ~throwsAt(p, Ask("buyExact", e, c, x))
  PROVE  answerAt(p, Ask("buyExact", e, c, x)) = minIn(p, e, c, x)
<1> DEFINE a == Ask("buyExact", e, c, x)
<1>1. a.exchange = e /\ a.token = c /\ a.amount = x /\ a.way = "buyExact"
  BY DEF Ask
<1> HIDE DEF a
<1>2. CASE HasPair(p, e, c)
  <2>1. p[e][c].token \in Nat
    BY <1>2, PoolTyped
  <2>2. ~(x >= p[e][c].token)
    BY <1>1, <1>2 DEF throwsAt, a
  <2>3. p[e][c].token > x
    BY <2>1, <2>2
  <2>4. answerAt(p, a) = getAmountIn(x, p[e][c].weth, p[e][c].token)
    BY <1>1, <1>2 DEF answerAt
  <2> QED
    BY <1>2, <2>3, <2>4 DEF minIn, BuyCost, a
<1>3. CASE ~HasPair(p, e, c)
  BY <1>1, <1>3 DEF answerAt, minIn, a
<1> QED
  BY <1>2, <1>3

\* what WETH buys of a token on an exchange
buyOut(p, e, t, w) == IF HasPair(p, e, t) THEN BuyAmount(p, e, t, w) ELSE 0

LEMMA OtherPrices ==
  ASSUME NEW p, NEW e, NEW c, NEW x
  PROVE  /\ answerAt(p, Ask("sell", e, c, x)) = maxOut(p, e, c, x)
         /\ answerAt(p, Ask("buy", e, c, x)) = buyOut(p, e, c, x)
<1>1. answerAt(p, Ask("sell", e, c, x)) = maxOut(p, e, c, x)
  BY DEF answerAt, Ask, maxOut, SellAmount
<1>2. answerAt(p, Ask("buy", e, c, x)) = buyOut(p, e, c, x)
  BY DEF answerAt, Ask, buyOut, BuyAmount
<1> QED
  BY <1>1, <1>2

\* the questions a pass over the components asks of Uniswap and of Sushiswap
PairAsked(p, q, off, c) ==
  LET b == ReadsBefore(q)
  IN \E k \in Nat, l \in Nat :
       /\ off <= k /\ k < off + PairReads /\ off <= l /\ l < off + PairReads
       /\ componentAt(q, b + k) = c /\ componentAt(q, b + l) = c
       /\ (b + k) - b = k /\ ExchangeAt(k) = Uniswap
       /\ (b + l) - b = l /\ ExchangeAt(l) = Sushiswap
       /\ ~throwsAt(p, askOver(q, b + k)) /\ ~throwsAt(p, askOver(q, b + l))
       /\ PairOf(q, b + off, c)[1] = answerAt(p, askOver(q, b + k))
       /\ PairOf(q, b + off, c)[2] = answerAt(p, askOver(q, b + l))

\* A place within a pass, also of the second pass.
LEMMA RemainderOfPlace ==
  ASSUME NEW P \in Nat, NEW y \in Nat, y < P
  PROVE  y % P = y /\ (P + y) % P = y
OBVIOUS

\* The prices of a component in a fresh quote are the answers to these questions.
LEMMA PairAnswers ==
  ASSUME NEW p, NEW q, q \in QuoteRecord, FreshReads(p, q), NEW off \in {0, PairReads},
         off + PairReads <= ReadsOver(q), ReadsBefore(q) + off + PairReads <= Len(q.reads),
         NEW c \in ToSet(Components), c # WETH
  PROVE  PairAsked(p, q, off, c)
<1> DEFINE b == ReadsBefore(q)
           j == placeIn(c)
           P == PairReads
           n == b + off
           k == off + 2 * j - 2
           l == off + 2 * j - 1
<1>0. /\ b \in Nat /\ ReadsOver(q) \in Nat /\ P \in Nat /\ Len(Priced) \in Nat
      /\ P = 2 * Len(Priced) /\ Len(q.reads) \in Nat /\ off \in Nat /\ n \in Nat
      /\ n + P <= Len(q.reads)
  <2>1. /\ b \in Nat /\ ReadsOver(q) \in Nat /\ P \in Nat /\ Len(Priced) \in Nat
        /\ P = 2 * Len(Priced)
    BY ReadCounts
  <2>2. Len(q.reads) \in Nat
    BY DEF QuoteRecord
  <2>3. off \in Nat /\ n \in Nat
    BY <2>1
  <2> QED
    BY <2>1, <2>2, <2>3
<1>1. j \in 1 .. Len(Priced) /\ Priced[j] = c
  BY PlaceInTyped
<1>2. PairOf(q, n, c)[1] = q.reads[n + 2 * j - 1] /\ PairOf(q, n, c)[2] = q.reads[n + 2 * j]
  <2> HIDE DEF n
  <2>1. PairOf(q, n, c) = <<q.reads[n + 2 * j - 1], q.reads[n + 2 * j]>>
    BY DEF PairOf, placeIn
  <2> HIDE DEF j
  <2> QED
    BY <2>1
<1>3. off = 0 \/ off = P
  OBVIOUS
<1> HIDE DEF b, j, P, n
<1>4. /\ k \in Nat /\ l \in Nat /\ off <= k /\ k < off + P /\ off <= l /\ l < off + P
      /\ (b + k) - b = k /\ (b + l) - b = l
  BY <1>0, <1>1
<1>5. k % P = 2 * j - 2 /\ l % P = 2 * j - 1
  <2> DEFINE y == 2 * j - 2
             z == 2 * j - 1
  <2>1. y \in Nat /\ z \in Nat /\ y < P /\ z < P
    BY <1>0, <1>1
  <2>2. k = off + y /\ l = off + z
    BY <1>0, <1>1
  <2> HIDE DEF y, z, k, l
  <2>3. CASE off = 0
    <3>1. y % P = y /\ z % P = z
      BY <1>0, <2>1, RemainderOfPlace
    <3>2. k = y /\ l = z
      BY <2>1, <2>2, <2>3
    <3> QED
      BY <3>1, <3>2 DEF y, z
  <2>4. CASE off = P
    <3>1. (P + y) % P = y /\ (P + z) % P = z
      BY <1>0, <2>1, RemainderOfPlace
    <3> QED
      BY <2>2, <2>4, <3>1 DEF y, z
  <2> QED
    BY <1>3, <2>3, <2>4
<1>6. (2 * j - 2) \div 2 + 1 = j /\ (2 * j - 1) \div 2 + 1 = j
  BY <1>0, <1>1
<1>7. k % 2 = 0 /\ l % 2 = 1
  BY <1>0, <1>1, <1>3
<1> HIDE DEF k, l
<1>8. componentAt(q, b + k) = c /\ componentAt(q, b + l) = c
  <2>1. /\ componentAt(q, b + k) = Priced[(((b + k) - b) % P) \div 2 + 1]
        /\ componentAt(q, b + l) = Priced[(((b + l) - b) % P) \div 2 + 1]
    BY Zenon DEF componentAt, b, P
  <2> QED
    BY <1>1, <1>4, <1>5, <1>6, <2>1
<1>9. ExchangeAt(k) = Uniswap /\ ExchangeAt(l) = Sushiswap
  BY <1>7 DEF ExchangeAt
<1>10. /\ b + k \in Nat /\ b + k < Len(q.reads) /\ b + k + 1 = n + 2 * j - 1
       /\ b + l \in Nat /\ b + l < Len(q.reads) /\ b + l + 1 = n + 2 * j
  BY <1>0, <1>1, <1>4 DEF k, l, n
<1>11. askAt(q, b + k) = askOver(q, b + k) /\ askAt(q, b + l) = askOver(q, b + l)
  <2>1. k < ReadsOver(q) /\ l < ReadsOver(q)
    BY <1>0, <1>4 DEF P
  <2>2. ~(k < 0) /\ ~(l < 0)
    BY <1>4
  <2>3. ASSUME NEW y \in Nat, ~(y < 0), y < ReadsOver(q), (b + y) - b = y
        PROVE  askAt(q, b + y) = askOver(q, b + y)
    <3>1. askAt(q, b + y) =
            IF (b + y) - b < 0 THEN AskUniswap("sell", q.token, q.amount)
            ELSE IF (b + y) - b < ReadsOver(q) THEN askOver(q, b + y) ELSE askAfter(q, b + y)
      BY Zenon DEF askAt, b
    <3> QED
      BY <2>3, <3>1
  <2> QED
    BY <1>4, <2>1, <2>2, <2>3
<1>12. /\ ~throwsAt(p, askOver(q, b + k)) /\ PairOf(q, n, c)[1] = answerAt(p, askOver(q, b + k))
       /\ ~throwsAt(p, askOver(q, b + l)) /\ PairOf(q, n, c)[2] = answerAt(p, askOver(q, b + l))
  BY <1>2, <1>10, <1>11 DEF FreshReads
<1> QED
  BY <1>4, <1>8, <1>9, <1>12 DEF PairAsked, b, n, P

\* The two prices of a component, by the kind of quote.
LEMMA FirstPassPrices ==
  ASSUME NEW p, PoolsOK(p), NEW q, q \in QuoteRecord, FreshReads(p, q), q.kind # "redeem",
         ReadsBefore(q) + PairReads <= Len(q.reads), NEW c \in ToSet(Components), c # WETH
  PROVE  LET x == IF q.kind = "issueFor" THEN Unit[c] ELSE componentAmount(q, c)
         IN /\ PairOf(q, ReadsBefore(q), c)[1] = minIn(p, Uniswap, c, x)
            /\ PairOf(q, ReadsBefore(q), c)[2] = minIn(p, Sushiswap, c, x)
<1> DEFINE b == ReadsBefore(q)
           x == IF q.kind = "issueFor" THEN Unit[c] ELSE componentAmount(q, c)
<1>0. /\ b \in Nat /\ PairReads \in Nat /\ ReadsOver(q) \in Nat /\ ReadsOver(q) >= PairReads
      /\ q.kind \in Kinds
  BY ReadCounts DEF QuoteRecord
<1>1. c \in Tokens /\ x \in Nat
  BY ComponentAmountTyped, ExchangeIssuanceAssumption, IndexOfComponent, ComponentsTyped
<1>2. /\ 0 \in {0, PairReads} /\ 0 + PairReads <= ReadsOver(q)
      /\ b + 0 + PairReads <= Len(q.reads) /\ b + 0 = b /\ 0 + PairReads = PairReads
  BY <1>0
<1>3. PICK k \in Nat, l \in Nat :
        /\ k < PairReads /\ l < PairReads
        /\ componentAt(q, b + k) = c /\ componentAt(q, b + l) = c
        /\ (b + k) - b = k /\ ExchangeAt(k) = Uniswap
        /\ (b + l) - b = l /\ ExchangeAt(l) = Sushiswap
        /\ ~throwsAt(p, askOver(q, b + k)) /\ ~throwsAt(p, askOver(q, b + l))
        /\ PairOf(q, b, c)[1] = answerAt(p, askOver(q, b + k))
        /\ PairOf(q, b, c)[2] = answerAt(p, askOver(q, b + l))
  <2>1. PairAsked(p, q, 0, c)
    BY <1>2, PairAnswers
  <2> QED
    BY <1>2, <2>1 DEF PairAsked
<1>4. ASSUME NEW y \in Nat, y < PairReads, componentAt(q, b + y) = c, (b + y) - b = y
      PROVE  askOver(q, b + y) = Ask("buyExact", ExchangeAt(y), c, x)
  <2>1. CASE q.kind \in {"issueExact", "refund"}
    BY <1>4, <2>1 DEF askOver
  <2>2. CASE q.kind = "issueFor"
    BY <1>4, <2>2 DEF askOver
  <2> QED
    BY <1>0, <2>1, <2>2 DEF Kinds
<1> HIDE DEF b, x
<1>5. /\ askOver(q, b + k) = Ask("buyExact", Uniswap, c, x)
      /\ askOver(q, b + l) = Ask("buyExact", Sushiswap, c, x)
  BY <1>3, <1>4
<1>6. PairOf(q, b, c)[1] = minIn(p, Uniswap, c, x) /\ PairOf(q, b, c)[2] = minIn(p, Sushiswap, c, x)
  BY <1>1, <1>3, <1>5, ExactPrice, ExchangesAreTwo
<1> QED
  BY <1>6 DEF b, x

LEMMA RedeemPrices ==
  ASSUME NEW p, PoolsOK(p), NEW q, q \in QuoteRecord, FreshReads(p, q), q.kind = "redeem",
         PairReads <= Len(q.reads), NEW c \in ToSet(Components), c # WETH
  PROVE  /\ PairOf(q, 0, c)[1] = maxOut(p, Uniswap, c, componentAmount(q, c))
         /\ PairOf(q, 0, c)[2] = maxOut(p, Sushiswap, c, componentAmount(q, c))
<1> DEFINE b == ReadsBefore(q)
<1>0. b = 0 /\ PairReads \in Nat /\ ReadsOver(q) = PairReads
  BY ReadCounts
<1>1. /\ 0 \in {0, PairReads} /\ 0 + PairReads <= ReadsOver(q)
      /\ b + 0 + PairReads <= Len(q.reads) /\ b + 0 = 0
  BY <1>0
<1>2. PICK k \in Nat, l \in Nat :
        /\ componentAt(q, b + k) = c /\ componentAt(q, b + l) = c
        /\ (b + k) - b = k /\ ExchangeAt(k) = Uniswap
        /\ (b + l) - b = l /\ ExchangeAt(l) = Sushiswap
        /\ PairOf(q, b + 0, c)[1] = answerAt(p, askOver(q, b + k))
        /\ PairOf(q, b + 0, c)[2] = answerAt(p, askOver(q, b + l))
  <2>1. PairAsked(p, q, 0, c)
    BY <1>1, PairAnswers
  <2> QED
    BY <2>1 DEF PairAsked
<1>3. ASSUME NEW y \in Nat, componentAt(q, b + y) = c, (b + y) - b = y
      PROVE  askOver(q, b + y) = Ask("sell", ExchangeAt(y), c, componentAmount(q, c))
  BY <1>3 DEF askOver
<1> HIDE DEF b
<1>4. /\ askOver(q, b + k) = Ask("sell", Uniswap, c, componentAmount(q, c))
      /\ askOver(q, b + l) = Ask("sell", Sushiswap, c, componentAmount(q, c))
  BY <1>2, <1>3
<1> QED
  BY <1>1, <1>2, <1>4, OtherPrices

LEMMA SecondPassPrices ==
  ASSUME NEW p, PoolsOK(p), NEW q, q \in QuoteRecord, FreshReads(p, q), q.kind = "issueFor",
         ReadsBefore(q) + PairReads + PairReads <= Len(q.reads),
         NEW c \in ToSet(Components), c # WETH
  PROVE  LET n == ReadsBefore(q) + PairReads
         IN /\ PairOf(q, n, c)[1] = buyOut(p, Uniswap, c, scaledEth(q, c))
            /\ PairOf(q, n, c)[2] = buyOut(p, Sushiswap, c, scaledEth(q, c))
<1> DEFINE b == ReadsBefore(q)
           P == PairReads
<1>0. b \in Nat /\ P \in Nat /\ ReadsOver(q) = P + P
  BY ReadCounts
<1>1. P \in {0, P} /\ P + P <= ReadsOver(q)
  BY <1>0
<1>2. PICK k \in Nat, l \in Nat :
        /\ P <= k /\ P <= l
        /\ componentAt(q, b + k) = c /\ componentAt(q, b + l) = c
        /\ (b + k) - b = k /\ ExchangeAt(k) = Uniswap
        /\ (b + l) - b = l /\ ExchangeAt(l) = Sushiswap
        /\ PairOf(q, b + P, c)[1] = answerAt(p, askOver(q, b + k))
        /\ PairOf(q, b + P, c)[2] = answerAt(p, askOver(q, b + l))
  <2>1. PairAsked(p, q, P, c)
    BY <1>1, PairAnswers
  <2> QED
    BY <2>1, Zenon DEF PairAsked
<1>3. ASSUME NEW y \in Nat, P <= y, componentAt(q, b + y) = c, (b + y) - b = y
      PROVE  askOver(q, b + y) = Ask("buy", ExchangeAt(y), c, scaledEth(q, c))
  <2>1. ~(y < P)
    BY <1>0, <1>3
  <2> QED
    BY <1>3, <2>1 DEF askOver
<1> HIDE DEF b, P
<1>4. /\ askOver(q, b + k) = Ask("buy", Uniswap, c, scaledEth(q, c))
      /\ askOver(q, b + l) = Ask("buy", Sushiswap, c, scaledEth(q, c))
  BY <1>2, <1>3
<1>5. /\ PairOf(q, b + P, c)[1] = buyOut(p, Uniswap, c, scaledEth(q, c))
      /\ PairOf(q, b + P, c)[2] = buyOut(p, Sushiswap, c, scaledEth(q, c))
  BY <1>2, <1>4, OtherPrices
<1> QED
  BY <1>5 DEF b, P

\* The contract's choice between the exchanges is the quote's.
LEMMA ChoicesAgree ==
  ASSUME NEW p, PoolsOK(p), NEW c \in Tokens, NEW x \in Nat
  PROVE  /\ cheaper(minIn(p, Uniswap, c, x), minIn(p, Sushiswap, c, x))
              = getMinTokenForExactToken(p, c, x).eth
         /\ larger(maxOut(p, Uniswap, c, x), maxOut(p, Sushiswap, c, x))
              = getMaxTokenForExactToken(p, c, x).eth
<1>0. c # WETH
  BY ExchangeIssuanceAssumption
<1>1. ASSUME NEW e \in Exchanges PROVE minIn(p, e, c, x) \in Nat /\ maxOut(p, e, c, x) \in Nat
  <2>1. CASE ~HasPair(p, e, c)
    BY <2>1, ExchangeIssuanceAssumption DEF minIn, maxOut
  <2>2. CASE HasPair(p, e, c)
    <3> DEFINE w == p[e][c].weth
               t == p[e][c].token
    <3>1. w \in Nat \ {0} /\ t \in Nat \ {0}
      BY <2>2, PoolTyped
    <3> HIDE DEF w, t
    <3>2. t > x => getAmountIn(x, w, t) \in Nat
      BY <3>1, AmountInGrows
    <3>3. getAmountOut(x, t, w) \in Nat
      BY <3>1, AmountOutBelowReserve
    <3> QED
      BY <2>2, <3>2, <3>3, ExchangeIssuanceAssumption
         DEF minIn, maxOut, BuyCost, SellAmount, w, t
  <2> QED
    BY <2>1, <2>2
<1> QED
  BY <1>0, <1>1, ExchangesAreTwo
     DEF cheaper, larger, getMinTokenForExactToken, getMaxTokenForExactToken

\* Less of a token costs no more, where there is enough of it.
LEMMA BestPriceGrows ==
  ASSUME NEW p, PoolsOK(p), NEW c \in Tokens, NEW x \in Nat, NEW y \in Nat, x <= y,
         getMinTokenForExactToken(p, c, y).eth < MAX_UINT_256
  PROVE  getMinTokenForExactToken(p, c, x).eth <= getMinTokenForExactToken(p, c, y).eth
<1> DEFINE best == getMinTokenForExactToken(p, c, y)
           e == best.exchange
           w == p[e][c].weth
           t == p[e][c].token
<1>0. c # WETH /\ c \in Tokens \union {WETH}
  BY ExchangeIssuanceAssumption
<1>1. /\ e \in Exchanges /\ HasPair(p, e, c) /\ t > y
  BY <1>0, BuyOrderTyped
<1>2. w \in Nat \ {0} /\ t \in Nat \ {0}
  BY <1>1, PoolTyped
<1>3. best.eth = getAmountIn(y, w, t)
  <2>1. best.eth = minIn(p, e, c, y)
    BY <1>0 DEF getMinTokenForExactToken
  <2> QED
    BY <1>1, <2>1 DEF minIn, BuyCost
<1>4. minIn(p, e, c, x) = getAmountIn(x, w, t)
  <2>1. t > x
    BY <1>1, <1>2
  <2> QED
    BY <1>1, <2>1 DEF minIn, BuyCost
<1>5. getAmountIn(x, w, t) <= getAmountIn(y, w, t)
  <2> HIDE DEF w, t
  <2> QED
    BY <1>1, <1>2, AmountInGrows
<1>6. ASSUME NEW d \in Exchanges PROVE minIn(p, d, c, x) \in Nat
  <2>1. CASE HasPair(p, d, c) /\ p[d][c].token > x
    <3>1. p[d][c].weth \in Nat \ {0} /\ p[d][c].token \in Nat \ {0}
      BY <2>1, PoolTyped
    <3>2. BuyCost(p, d, c, x) \in Nat
      BY <2>1, <3>1, BuyCostTyped
    <3> QED
      BY <2>1, <3>2 DEF minIn
  <2>2. CASE ~(HasPair(p, d, c) /\ p[d][c].token > x)
    BY <2>2, ExchangeIssuanceAssumption DEF minIn
  <2> QED
    BY <2>1, <2>2
<1>7. getMinTokenForExactToken(p, c, x).eth <= minIn(p, e, c, x)
  <2> HIDE DEF e
  <2> QED
    BY <1>0, <1>1, <1>6 DEF getMinTokenForExactToken, Exchanges
<1>8. /\ best.eth \in Nat /\ getMinTokenForExactToken(p, c, x).eth \in Nat
  BY <1>0, BuyOrderTyped
<1> HIDE DEF best
<1>9. getMinTokenForExactToken(p, c, x).eth <= best.eth
  BY <1>1, <1>3, <1>4, <1>5, <1>6, <1>7, <1>8
<1> QED
  BY <1>9 DEF best

\* The cost of an exact issuance is never overestimated.
LEMMA IssueExactBracket ==
  ASSUME NEW p, PoolsOK(p), NEW q, QuoteOK(q), FreshReads(p, q), q.kind \in {"issueExact", "refund"},
         ReadsBefore(q) + PairReads <= Len(q.reads),
         LiquidIn(getAmountETHForIssuance(p, q.amount))
  PROVE  getIssueExactSetFromETH(q) <= EthOf(getAmountETHForIssuance(p, q.amount))
<1> DEFINE orders == getAmountETHForIssuance(p, q.amount)
           f == [i \in Places |-> orders[i].eth]
           g == costs(q)
<1>0. q \in QuoteRecord /\ q.amount \in Nat
  BY DEF QuoteOK, QuoteRecord
<1>1. Fillable(p, orders) /\ DOMAIN orders = Places
  BY <1>0, IssuanceIsFillable, IssuanceOrders
<1>2. \A i \in Places : orders[i].eth \in Nat /\ orders[i].eth < MAX_UINT_256
  BY <1>1 DEF Fillable, LiquidIn
<1>3. ASSUME NEW i \in Places PROVE g[i] \in Nat /\ g[i] <= f[i]
  <2> DEFINE c == Components[i]
             x == componentAmount(q, c)
             y == orders[i].amount
  <2>1. c \in Tokens \union {WETH} /\ c \in ToSet(Components)
    BY ComponentsTyped
  <2>2. y = preciseMulCeil(Unit[c], q.amount) /\ orders[i].eth = getMinTokenForExactToken(p, c, y).eth
    BY IssuanceOrders
  <2>3. x \in Nat /\ y \in Nat /\ x <= y
    BY <1>0, <2>1, <2>2, ComponentAmountTyped, AmountsTyped
  <2>4. g[i] = getInputAmountBestPrice(q, c, x) /\ g[i] \in Nat
    <3>1. g[i] \in Nat
      BY CostTyped
    <3> QED
      BY <3>1 DEF costs
  <2>5. f[i] = orders[i].eth /\ orders[i].eth < MAX_UINT_256
    BY <1>2
  <2> HIDE DEF x, y, c, f, g, orders
  <2>6. CASE c = WETH
    BY <2>2, <2>3, <2>4, <2>5, <2>6 DEF getInputAmountBestPrice, getMinTokenForExactToken
  <2>7. CASE c # WETH
    <3>0. c \in Tokens
      BY <2>1, <2>7
    <3>1. /\ PairOf(q, ReadsBefore(q), c)[1] = minIn(p, Uniswap, c, x)
          /\ PairOf(q, ReadsBefore(q), c)[2] = minIn(p, Sushiswap, c, x)
      <4>1. q.kind # "redeem" /\ q.kind # "issueFor"
        OBVIOUS
      <4> QED
        BY <1>0, <2>1, <2>7, <4>1, FirstPassPrices DEF x
    <3>2. g[i] = getMinTokenForExactToken(p, c, x).eth
      BY <2>3, <2>4, <2>7, <3>0, <3>1, ChoicesAgree DEF getInputAmountBestPrice
    <3> QED
      BY <2>2, <2>3, <2>4, <2>5, <3>0, <3>2, BestPriceGrows
  <2> QED
    BY <2>6, <2>7
<1>4. EthOf(orders) = SumFunctionOnSet(f, Places)
  BY <1>1, <1>2, EthTyped
<1>5. \A i \in Places : f[i] \in Nat
  BY <1>2
<1> HIDE DEF f, g
<1>6. SumFunctionOnSet(g, Places) <= SumFunctionOnSet(f, Places)
  BY <1>3, <1>5, SumIsMonotone, ComponentsTyped
<1> QED
  BY <1>4, <1>6, SumsOverComponents DEF g

\* The proceeds of a redemption are exact.
LEMMA RedeemBracket ==
  ASSUME NEW p, PoolsOK(p), NEW q, QuoteOK(q), FreshReads(p, q), q.kind = "redeem",
         PairReads <= Len(q.reads)
  PROVE  getRedeemExactSetForETH(q) = EthOf(getAmountETHForRedemption(p, q.amount))
<1> DEFINE orders == getAmountETHForRedemption(p, q.amount)
           f == [i \in Places |-> orders[i].eth]
           g == allProceeds(q)
<1>0. q \in QuoteRecord
  BY DEF QuoteOK
<1>1. ASSUME NEW i \in Places PROVE g[i] \in Nat /\ f[i] = g[i]
  <2> DEFINE c == Components[i]
             x == componentAmount(q, c)
  <2>1. c \in Tokens \union {WETH} /\ c \in ToSet(Components)
    BY ComponentsTyped
  <2>2. x \in Nat /\ x = preciseMul(Unit[c], q.amount)
    BY <1>0, <2>1, ComponentAmountTyped
  <2>3. f[i] = getMaxTokenForExactToken(p, c, x).eth
    BY <2>2, RedemptionOrders
  <2>4. g[i] = proceeds(q, c) /\ g[i] \in Nat
    <3>1. g[i] \in Nat
      BY ProceedsTyped
    <3> QED
      BY <3>1 DEF allProceeds
  <2> HIDE DEF c, x, f, g
  <2>5. CASE c = WETH
    BY <2>3, <2>4, <2>5 DEF proceeds, getMaxTokenForExactToken, x
  <2>6. CASE c # WETH
    <3>0. c \in Tokens
      BY <2>1, <2>6
    <3>1. /\ PairOf(q, 0, c)[1] = maxOut(p, Uniswap, c, x)
          /\ PairOf(q, 0, c)[2] = maxOut(p, Sushiswap, c, x)
      BY <1>0, <2>1, <2>6, RedeemPrices DEF x
    <3> QED
      BY <2>2, <2>3, <2>4, <2>6, <3>0, <3>1, ChoicesAgree DEF proceeds
  <2> QED
    BY <2>5, <2>6
<1>2. EthOf(orders) = SumFunctionOnSet(f, Places)
  <2>1. DOMAIN orders = Places
    BY RedemptionOrders
  <2> QED
    BY <2>1 DEF EthOf, SumFunction
<1> HIDE DEF f, g
<1>3. SumFunctionOnSet(f, Places) = SumFunctionOnSet(g, Places)
  BY <1>1, SumOfEquals, ComponentsTyped
<1> QED
  BY <1>2, <1>3, SumsOverComponents DEF g

\* An issuance for exact WETH is not underestimated: the quote shares the payment out
\* as the contract does, and its second pass takes the better exchange for each share.
LEMMA IssueForBracket ==
  ASSUME NEW p, PoolsOK(p), NEW q, QuoteOK(q), FreshReads(p, q), q.kind = "issueFor",
         q.token = WETH, ReadsBefore(q) + PairReads + PairReads <= Len(q.reads),
         LiquidIn(getAmountETHForIssuance(p, PRECISE_UNIT))
  PROVE  getIssueSetForExactETH(q) >= getSetIssueAmountForETH(p, q.amount).amount
<1> DEFINE units == getAmountETHForIssuance(p, PRECISE_UNIT)
           T == EthOf(units)
           eth == q.amount
           set == getSetIssueAmountForETH(p, eth)
           f == [i \in Places |-> units[i].eth]
           g == unitCosts(q)
<1>0. /\ q \in QuoteRecord /\ eth \in Nat /\ Len(q.reads) \in Nat
  BY DEF QuoteOK, QuoteRecord
<1>1. ReadsBefore(q) \in Nat /\ PairReads \in Nat /\ ReadsBefore(q) + PairReads <= Len(q.reads)
  <2>1. ReadsBefore(q) \in Nat /\ PairReads \in Nat
    BY <1>0, ReadCounts
  <2> QED
    BY <1>0, <2>1
<1>2. /\ Fillable(p, units) /\ DOMAIN units = Places
      /\ \A i \in Places : /\ units[i].eth \in Nat \ {0}
                           /\ units[i].amount = Unit[Components[i]]
                           /\ units[i].exchange = WETH <=> Components[i] = WETH
  BY UnitOrders, IssuanceOrders
<1>3. ASSUME NEW i \in Places PROVE g[i] = units[i].eth /\ g[i] \in Nat
  <2> DEFINE c == Components[i]
             u == Unit[c]
  <2>1. c \in Tokens \union {WETH} /\ c \in ToSet(Components) /\ u \in Nat
    BY ComponentsTyped
  <2>2. units[i].eth = getMinTokenForExactToken(p, c, u).eth
    BY <1>2, IssuanceOrders
  <2>3. g[i] = getInputAmountBestPrice(q, c, u)
    BY DEF unitCosts
  <2> HIDE DEF c, u, g, units
  <2>4. CASE c = WETH
    BY <2>1, <2>2, <2>3, <2>4 DEF getInputAmountBestPrice, getMinTokenForExactToken
  <2>5. CASE c # WETH
    <3>0. c \in Tokens
      BY <2>1, <2>5
    <3>1. /\ PairOf(q, ReadsBefore(q), c)[1] = minIn(p, Uniswap, c, u)
          /\ PairOf(q, ReadsBefore(q), c)[2] = minIn(p, Sushiswap, c, u)
      BY <1>0, <1>1, <2>1, <2>5, FirstPassPrices DEF u
    <3>2. g[i] = getMinTokenForExactToken(p, c, u).eth
      BY <2>1, <2>3, <2>5, <3>0, <3>1, ChoicesAgree DEF getInputAmountBestPrice
    <3> QED
      BY <1>2, <2>2, <3>2
  <2> QED
    BY <1>2, <2>4, <2>5
<1>4. T = SumFunctionOnSet(g, Places)
  <2>1. T = SumFunctionOnSet(f, Places)
    BY <1>2 DEF EthOf, SumFunction
  <2>2. \A i \in Places : f[i] \in Nat /\ g[i] = f[i]
    BY <1>3
  <2> HIDE DEF f, g
  <2> QED
    BY <2>1, <2>2, SumOfEquals, ComponentsTyped
<1>5. /\ \A i \in Places : set.amount <= preciseDiv(set.orders[i].amount, Unit[Components[i]])
      /\ set.amount \in Nat /\ Fillable(p, set.orders)
  BY <1>0, ScaledOrders
<1>6. ASSUME NEW i \in Places
      PROVE  /\ set.orders[i].eth = (units[i].eth * eth) \div T
             /\ set.orders[i].amount =
                  IF units[i].exchange = WETH THEN set.orders[i].eth
                  ELSE BuyAmount(p, units[i].exchange, Components[i], set.orders[i].eth)
  BY <1>2 DEF getSetIssueAmountForETH, scaledOrders
<1>7. PICK c \in ToSet(Components) : getIssueSetForExactETH(q) = preciseDiv(secondPass(q, c), Unit[c])
  BY IssueForTyped
<1> DEFINE i == IndexOf(c)
           share == set.orders[i].eth
           x == set.orders[i].amount
           e == units[i].exchange
<1>8. i \in Places /\ Components[i] = c
  BY IndexOfComponent
<1>9. scaledEth(q, c) = share
  <2>1. ethInput(q) = eth
    BY DEF ethInput
  <2>2. getInputAmountBestPrice(q, c, Unit[c]) = units[i].eth
    BY <1>3, <1>8 DEF unitCosts
  <2> QED
    BY <1>4, <1>6, <1>8, <2>1, <2>2, SumsOverComponents
<1>10. /\ x = IF e = WETH THEN share ELSE BuyAmount(p, e, c, share)
       /\ e = WETH <=> c = WETH
       /\ c # WETH => e \in Exchanges /\ HasPair(p, e, c)
       /\ x \in Nat /\ share \in Nat /\ set.amount <= preciseDiv(x, Unit[c])
  BY <1>2, <1>5, <1>6, <1>8 DEF Fillable
<1> HIDE DEF set, units, T, share, x, e, i
<1>11. secondPass(q, c) \in Nat /\ x <= secondPass(q, c)
  <2>0. secondPass(q, c) \in Nat
    BY SecondPassTyped
  <2>1. CASE c = WETH
    BY <1>9, <1>10, <2>0, <2>1 DEF secondPass
  <2>2. CASE c # WETH
    <3> DEFINE a == buyOut(p, Uniswap, c, share)
               s == buyOut(p, Sushiswap, c, share)
               n == ReadsBefore(q) + PairReads
    <3>1. PairOf(q, n, c)[1] = a /\ PairOf(q, n, c)[2] = s
      BY <1>0, <1>9, <2>2, SecondPassPrices
    <3>2. a \in Nat /\ s \in Nat
      <4>1. n \in Nat /\ n + PairReads <= Len(q.reads)
        BY <1>1
      <4>2. PairOf(q, n, c)[1] \in Nat /\ PairOf(q, n, c)[2] \in Nat
        <5> HIDE DEF n
        <5> QED
          BY <1>0, <2>2, <4>1, PairIsRead
      <4> QED
        BY <3>1, <4>2
    <3>3. x = a \/ x = s
      BY <1>10, <2>2 DEF buyOut, Exchanges
    <3>4. secondPass(q, c) = larger(a, s)
      BY <2>2, <3>1 DEF secondPass
    <3> HIDE DEF a, s
    <3> QED
      BY <3>2, <3>3, <3>4 DEF larger
  <2> QED
    BY <2>1, <2>2
<1>12. Unit[c] \in Nat \ {0}
  BY ExchangeIssuanceAssumption
<1>13. preciseDiv(x, Unit[c]) <= preciseDiv(secondPass(q, c), Unit[c])
  BY <1>10, <1>11, <1>12, PreciseDivIsMonotone
<1>14. preciseDiv(x, Unit[c]) \in Nat /\ preciseDiv(secondPass(q, c), Unit[c]) \in Nat
  BY <1>10, <1>11, <1>12, PreciseDivRoundsDown
<1>15. set.amount <= preciseDiv(secondPass(q, c), Unit[c])
  BY <1>5, <1>10, <1>13, <1>14
<1>16. getIssueSetForExactETH(q) >= set.amount
  BY <1>5, <1>7, <1>14, <1>15
<1> QED
  BY <1>16 DEF set

\* A redemption for a token is not overestimated: the quote asks Uniswap alone.
LEMMA RedeemForTokenBracket ==
  ASSUME NEW p, PoolsOK(p), NEW q, QuoteOK(q), Answered(q), FreshReads(p, q),
         q.kind = "redeem", q.token # WETH
  PROVE  lastRead(q) <= bestBuy(p, q.token, EthOf(getAmountETHForRedemption(p, q.amount))).amount
<1> DEFINE t == q.token
           w == getRedeemExactSetForETH(q)
           m == PairReads
           a == AskUniswap("buy", t, w)
           uni == buyOut(p, Uniswap, t, w)
           sushi == buyOut(p, Sushiswap, t, w)
<1>0. q \in QuoteRecord /\ t \in Tokens /\ Len(q.reads) \in Nat
  BY DEF QuoteOK, QuoteRecord
<1>1. /\ m \in Nat /\ ReadsBefore(q) = 0 /\ ReadsOver(q) = m /\ ReadsAfter(q) = 1
      /\ Len(q.reads) = m + 1
  BY <1>0, ReadCounts DEF Answered
<1>2. askAt(q, m) = a
  <2>1. m - 0 = m /\ ~(m < 0) /\ ~(m < m)
    BY <1>1
  <2> QED
    BY <1>1, <2>1 DEF askAt, askAfter
<1>3. ~throwsAt(p, a) /\ lastRead(q) = answerAt(p, a)
  <2>1. m < Len(q.reads)
    BY <1>1
  <2> HIDE DEF a
  <2> QED
    BY <1>1, <1>2, <2>1 DEF FreshReads, lastRead
<1>4. a.exchange = Uniswap /\ a.token = t /\ a.amount = w /\ a.way = "buy" /\ ~a.checked
  BY DEF AskUniswap, Ask
<1> HIDE DEF a
<1>5. lastRead(q) = uni
  <2>1. HasPair(p, Uniswap, t)
    BY <1>3, <1>4 DEF throwsAt
  <2> QED
    BY <1>3, <1>4, <2>1 DEF answerAt, buyOut, BuyAmount
<1>6. w \in Nat /\ w = EthOf(getAmountETHForRedemption(p, q.amount))
  <2>1. PairReads <= Len(q.reads)
    BY <1>1
  <2> QED
    BY <2>1, ProceedsTyped, RedeemBracket
<1> HIDE DEF w
<1>7. ASSUME NEW e \in Exchanges PROVE buyOut(p, e, t, w) \in Nat
  <2>1. CASE HasPair(p, e, t)
    <3> DEFINE i == p[e][t].weth
               o == p[e][t].token
    <3>1. i \in Nat \ {0} /\ o \in Nat \ {0}
      BY <1>0, <2>1, PoolTyped
    <3>2. buyOut(p, e, t, w) = getAmountOut(w, i, o)
      BY <2>1 DEF buyOut, BuyAmount
    <3> HIDE DEF i, o
    <3> QED
      BY <1>6, <3>1, <3>2, AmountOutBelowReserve
  <2>2. CASE ~HasPair(p, e, t)
    BY <2>2 DEF buyOut
  <2> QED
    BY <2>1, <2>2
<1>8. uni \in Nat /\ sushi \in Nat
  BY <1>7, ExchangesAreTwo
<1>9. bestBuy(p, t, w).amount = IF uni >= sushi THEN uni ELSE sushi
  BY DEF bestBuy, buyOut
<1> HIDE DEF uni, sushi
<1>10. uni <= bestBuy(p, t, w).amount
  BY <1>8, <1>9
<1> QED
  BY <1>5, <1>6, <1>10

LEMMA FreshBrackets ==
  ASSUME Inv, Fresh
  PROVE  FreshQuoteBrackets
<1> DEFINE q == quote
<1> SUFFICES ASSUME q # NoQuote, Answered(q), q.since = trades
             PROVE  FreshQuoteBrackets
  BY DEF FreshQuoteBrackets
<1>1. QuoteOK(q) /\ PoolsOK(pools) /\ FreshReads(pools, q)
  BY DEF Inv, Fresh, QuoteIn
<1>2. q \in QuoteRecord /\ Len(q.reads) \in Nat /\ q.kind \in Kinds
  BY <1>1 DEF QuoteOK, QuoteRecord
<1>3. /\ Len(q.reads) = ReadsBefore(q) + ReadsOver(q) + ReadsAfter(q)
      /\ ReadsBefore(q) \in Nat /\ ReadsOver(q) \in Nat /\ ReadsAfter(q) \in Nat
      /\ PairReads \in Nat /\ ReadsOver(q) >= PairReads
      /\ q.kind = "issueFor" => ReadsOver(q) = PairReads + PairReads
  BY <1>2, ReadCounts DEF Answered
<1>4. ReadsBefore(q) + PairReads <= Len(q.reads) /\ PairReads <= Len(q.reads)
  BY <1>3
<1>5. CASE q.kind \in {"issueExact", "refund"}
  <2>1. LiquidIn(getAmountETHForIssuance(pools, q.amount)) =>
          getIssueExactSetFromETH(q) <= EthOf(getAmountETHForIssuance(pools, q.amount))
    BY <1>1, <1>4, <1>5, IssueExactBracket
  <2> QED
    BY <1>5, <2>1 DEF FreshQuoteBrackets
<1>6. CASE q.kind = "redeem"
  <2> DEFINE E == EthOf(getAmountETHForRedemption(pools, q.amount))
  <2>1. q.token = WETH => result(q) = E
    <3>1. getRedeemExactSetForETH(q) = E
      BY <1>1, <1>4, <1>6, RedeemBracket
    <3> QED
      BY <1>6, <3>1 DEF result, getRedeemExactSetForToken
  <2>2. q.token # WETH => result(q) <= bestBuy(pools, q.token, E).amount
    <3>1. q.token # WETH => lastRead(q) <= bestBuy(pools, q.token, E).amount
      BY <1>1, <1>6, RedeemForTokenBracket
    <3> HIDE DEF E
    <3> QED
      BY <1>6, <3>1 DEF result, getRedeemExactSetForToken
  <2> QED
    BY <1>6, <2>1, <2>2 DEF FreshQuoteBrackets
<1>7. CASE q.kind = "issueFor"
  <2>1. ReadsBefore(q) + PairReads + PairReads <= Len(q.reads)
    BY <1>3, <1>7
  <2>2. q.token = WETH /\ LiquidIn(getAmountETHForIssuance(pools, PRECISE_UNIT)) =>
          getIssueSetForExactETH(q) >= getSetIssueAmountForETH(pools, q.amount).amount
    BY <1>1, <1>7, <2>1, IssueForBracket
  <2>3. result(q) = getIssueSetForExactETH(q)
    BY <1>7 DEF result
  <2> QED
    BY <1>7, <2>2, <2>3 DEF FreshQuoteBrackets
<1> QED
  BY <1>2, <1>5, <1>6, <1>7 DEF Kinds

\* A quote nobody has traded against since it was begun brackets what the contract
\* does, however the reads of the quote interleave with the trades before it and
\* however many components there are: the cost of an exact issuance is never
\* overestimated, a redemption for WETH is exact and one for a token not
\* overestimated, and an issuance for exact WETH is not underestimated.
THEOREM FreshQuoteIsABracket == Spec => []FreshQuoteBrackets
<1>1. Init => Inv /\ Fresh
  BY InitInv DEF Init, Fresh
<1>2. (Inv /\ Fresh) /\ [Next]_vars => (Inv /\ Fresh)'
  BY StepInv, StepFresh
<1>3. Inv /\ Fresh => FreshQuoteBrackets
  BY FreshBrackets
<1> QED
  BY <1>1, <1>2, <1>3, PTL DEF Spec

=============================================================================
