-------------------------- MODULE MCSetTokenUnits --------------------------
(***************************************************************************)
(* The instance of SetTokenUnits that TLC checks: a reserve with fewer     *)
(* decimals than the scale, a second component that trades, and one so     *)
(* small that a fee can make it vanish.                                    *)
(***************************************************************************)
EXTENDS SetTokenUnits

ThreeComponents == {"usdc", "weth", "dust"}
Of(usdc, weth, dust) ==
  [c \in ThreeComponents |-> IF c = "usdc" THEN usdc ELSE IF c = "weth" THEN weth ELSE dust]

Units == Of(70, 121, 2)
Bases == Of(50, 100, 100)
Prices == Of(100, 150, 100)

=============================================================================
