--------------------------- MODULE MCMerkleAirdrop ---------------------------
(***************************************************************************)
(* The instance of MerkleAirdrop that TLC checks: every list of up to two  *)
(* entries, the faulty ones included, and lists of three, four and five,   *)
(* so that layers have an odd number of elements at the bottom and higher  *)
(* up.  With two bits a word, the indices fill three words.  The last list *)
(* names one account twice, in two spellings.                              *)
(***************************************************************************)
EXTENDS MerkleAirdrop

Strings == 1 .. 5
\* 5 is another spelling of the address 4.
Accounted == [a \in Strings |-> IF a = 5 THEN 4 ELSE a]
Line(a, x) == [address |-> a, earnings |-> x]

SomeLists ==
  LET lines == {Line(a, x) : a \in {2, 4}, x \in 0 .. 2}
  IN BoundedSeq(lines, 2)
       \union {<<Line(3, 1), Line(1, 2), Line(2, 1)>>,
               <<Line(4, 2), Line(2, 2), Line(1, 1), Line(3, 1)>>,
               <<Line(5, 1), Line(1, 1), Line(3, 2), Line(2, 2), Line(4, 1)>>}

=============================================================================
