---------------------------- MODULE Entitlements ----------------------------
(***************************************************************************)
(* What an airdrop promises: every entry of a list is paid to its account  *)
(* exactly once, and nothing else is paid.                                 *)
(***************************************************************************)
EXTENDS Naturals

CONSTANTS
  Accounts,
  Entries     \* the entries a list may hold: records with an account and an amount

VARIABLES
  owed,       \* the entries not yet paid
  paid        \* account -> tokens received

vars == <<owed, paid>>

Init ==
  /\ owed = {}
  /\ paid = [a \in Accounts |-> 0]

\* A list becomes an obligation once, before anything is paid.
Promise ==
  /\ owed = {} /\ \A a \in Accounts : paid[a] = 0
  /\ owed' # {} /\ owed' \subseteq Entries
  /\ UNCHANGED paid

Pay(e) ==
  /\ e \in owed
  /\ owed' = owed \ {e}
  /\ paid' = [paid EXCEPT ![e.account] = @ + e.amount]

Next == Promise \/ \E e \in Entries : Pay(e)

Spec == Init /\ [][Next]_vars

FairSpec == Spec /\ WF_vars(\E e \in Entries : Pay(e))

=============================================================================
