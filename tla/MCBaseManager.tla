--------------------------- MODULE MCBaseManager ---------------------------
(***************************************************************************)
(* Instances of BaseManager for TLC: the operator, the methodologist and a *)
(* third account; either role may go to the third account or to the first *)
(* operator, who may thus come back.                                       *)
(***************************************************************************)
EXTENDS BaseManager

CONSTANTS op, meth, next, m1, m2, e1

MCAccounts == {op, meth, next}
MCSuccessors == {op, next}
MCModules == {m1, m2}
MCInitialModules == {m1}
MCExtensions == {e1}
=============================================================================
