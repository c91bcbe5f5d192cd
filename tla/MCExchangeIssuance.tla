------------------------ MODULE MCExchangeIssuance ------------------------
(* Two components and WETH itself in the SetToken; dpi trades on both     *)
(* exchanges, yfi on Sushiswap only.                                      *)
EXTENDS ExchangeIssuance

CONSTANTS weth, dpi, yfi

MCComponents == <<dpi, weth, yfi>>
MCUnit == (dpi :> 50) @@ (weth :> 7) @@ (yfi :> 130)
MCPools ==
  [e \in Exchanges |->
     IF e = Uniswap
     THEN (dpi :> [weth |-> 400, token |-> 900]) @@ (yfi :> NoPool)
     ELSE (dpi :> [weth |-> 300, token |-> 640]) @@ (yfi :> [weth |-> 500, token |-> 2000])]

============================================================================
