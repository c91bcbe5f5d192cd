---------------------------- MODULE MCTestHarness ----------------------------
(***************************************************************************)
(* The instance of TestHarness that TLC checks: the shapes of the          *)
(* repositories' spec files (caches three deep with siblings, snapshots    *)
(* with beforeEach blocks below, before, after and around them, a fork),   *)
(* each with a helper that links three libraries, one or none; every file  *)
(* of three blocks with up to two hooks each that is well                  *)
(* nested; and every deployment helper in a small file.                    *)
(***************************************************************************)
EXTENDS TestHarness

\* As morphoLeverageStrategyExtension.spec.ts and exchangeIssuanceV2.spec.ts.
Caches ==
  <<Block(0, <<"cache">>, 1), Block(1, <<"cache", "each">>, 2),
    Block(1, <<"cache">>, 1), Block(3, <<"cache", "each">>, 2),
    Block(3, <<"each">>, 1), Block(1, <<"each">>, 1)>>

\* As baseManager.spec.ts and merkleDistributor.spec.ts.
Snaps ==
  <<Block(0, <<"before", "snap">>, 1), Block(1, <<"each">>, 2),
    Block(1, <<"before", "each">>, 1), Block(1, <<"each", "snap">>, 2),
    Block(1, <<>>, 1)>>

\* As controller.spec.ts.
EachFirst == <<Block(0, <<"each", "snap">>, 2), Block(1, <<"each">>, 1)>>

\* As the integration tests that fork a network.
Forked ==
  <<Block(0, <<"fork", "before", "cache">>, 1), Block(1, <<"cache">>, 2),
    Block(1, <<"cache", "snap">>, 2)>>

Small == <<Block(0, <<"cache">>, 1)>>

ThreeBlocks ==
  LET kinds == {"before", "cache", "snap", "each"}
  IN {f \in {<<Block(0, a, 1), Block(1, b, 1), Block(p, c, 2)>> :
               a \in BoundedSeq(kinds, 2), b \in BoundedSeq(kinds, 2),
               c \in BoundedSeq(kinds, 2), p \in 1 .. 2} : WellNested(f)}

Shapes == {Caches, Snaps, EachFirst, Forked}
SomeFiles == Shapes \union ThreeBlocks \union {Small}

OneLibrary == [repo |-> "coop", contract |-> "MorphoLeverageModule"]

SomeHelpers ==
  {OneLibrary, [repo |-> "coop", contract |-> "BaseManagerV2"],
   [repo |-> "protocol", contract |-> "PerpV2BasisTradingModule"]}

SomeCalls ==
  [file : Shapes, helper : SomeHelpers]
    \union [file : ThreeBlocks, helper : {OneLibrary}]
    \union [file : {Small}, helper : AllHelpers]

=============================================================================
