---------------------------- MODULE MerkleAirdrop ----------------------------
(***************************************************************************)
(* An airdrop from the list of earnings to the last claim.  Off chain,     *)
(* parseBalanceMap turns the list into claims with Merkle proofs           *)
(* (merkleUtils: parseBalanceMap.ts, balanceTree.ts, merkleTree.ts); on    *)
(* chain, MerkleDistributor.sol is deployed with the root, funded, and     *)
(* pays whoever brings a valid proof, once per index.                      *)
(*                                                                         *)
(* A hash is the term it was computed from, so hashes do not collide; how  *)
(* the hashes of the leaves compare, which decides their place in the      *)
(* tree, is any order.  A pair is hashed in sorted order, hence as a set.  *)
(* An address is a string: two strings may spell one account.              *)
(***************************************************************************)
EXTENDS Naturals, FiniteSets, SequencesExt

CONSTANTS
  Addresses,       \* address strings, numbered in sorting order
  AccountOf,       \* address string -> account
  Lists,           \* the lists of [address, earnings] that may be parsed
  WordSize,        \* bits in a word of claimedBitMap, 256 in the code
  Amounts          \* amounts a caller of claim may name

VARIABLES
  balances,        \* the list being parsed
  phase,           \* "parsing", "thrown", "published", "deployed" or "funded"
  info,            \* the published MerkleDistributorInfo
  held,            \* tokens the distributor holds
  claimedBitMap,   \* word index -> the bits set
  received         \* account -> tokens received

vars == <<balances, phase, info, held, claimedBitMap, received>>

Accounts == {AccountOf[a] : a \in Addresses}

ASSUME MerkleAirdropAssumption ==
  /\ Addresses \subseteq Nat /\ IsFiniteSet(Addresses)
  /\ Amounts \subseteq Nat \ {0} /\ WordSize \in Nat \ {0}
  /\ AccountOf \in [Addresses -> Accounts]
  /\ \A l \in Lists : l \in Seq([address : Addresses, earnings : Amounts \union {0}])

(***************************************************************************)
(* MerkleTree.                                                             *)
(***************************************************************************)
\* combinedHash: an element without a pair moves up as it is
NoPair == <<"none">>

combinedHash(first, second) ==
  IF second = NoPair THEN first ELSE <<"hash", {first, second}>>

ElementAt(layer, idx) == IF idx < Len(layer) THEN layer[idx + 1] ELSE NoPair

getNextLayer(layer) ==
  [k \in 1 .. (Len(layer) + 1) \div 2 |->
     combinedHash(ElementAt(layer, 2 * k - 2), ElementAt(layer, 2 * k - 1))]

\* Once a layer is the root alone, so is every later one; there are never more
\* layers than elements.
getLayers(elements) ==
  LET layer[n \in 0 .. Len(elements)] ==
        IF n = 0 THEN elements ELSE getNextLayer(layer[n - 1])
  IN layer

getRoot(elements) == getLayers(elements)[Len(elements)][1]

getPairElement(idx, layer) == ElementAt(layer, IF idx % 2 = 0 THEN idx + 1 ELSE idx - 1)

\* an element without a pair adds nothing to the proof
push(proof, pairElement) ==
  IF pairElement = NoPair THEN proof ELSE Append(proof, pairElement)

getProof(elements, idx) ==
  FoldLeft(push, <<>>, [n \in 1 .. Len(elements) + 1 |->
             getPairElement(idx \div 2^(n - 1), getLayers(elements)[n - 1])])

(***************************************************************************)
(* BalanceTree.                                                            *)
(***************************************************************************)
toNode(index, account, amount) == <<"leaf", index, account, amount>>

\* also MerkleProof.verify of the distributor, which sorts each pair in the same way
verifyProof(node, proof, root) == FoldLeft(combinedHash, node, proof) = root

(***************************************************************************)
(* parseBalanceMap.                                                        *)
(***************************************************************************)
ListedAddresses(list) == {list[k].address : k \in DOMAIN list}

\* The place of an address in sortedAddresses: as many sort before it.
sortedAddresses(list) ==
  [a \in ListedAddresses(list) |-> Cardinality({b \in ListedAddresses(list) : b < a})]

amountOf(list, address) ==
  list[CHOOSE k \in DOMAIN list : list[k].address = address].earnings

\* The checks are made entry by entry, and MerkleTree refuses an empty list.
Parses(list) ==
  /\ list # <<>>
  /\ \A j, k \in DOMAIN list : list[j].address = list[k].address => j = k
  /\ \A k \in DOMAIN list : list[k].earnings > 0

Entry(index, account, amount) == [index |-> index, account |-> account, amount |-> amount]

\* the entries of the listed addresses, each with its sorted position as the index
EntriesOf(list) ==
  {Entry(sortedAddresses(list)[a], AccountOf[a], amountOf(list, a)) :
     a \in ListedAddresses(list)}

LeafOf(e) == toNode(e.index, e.account, e.amount)

\* MerkleDistributorInfo: the root, the total and a proof for every entry
NoInfo == [merkleRoot |-> NoPair, tokenTotal |-> 0, claims |-> <<>>]

InfoOf(entries, leaves) ==
  [merkleRoot |-> getRoot(leaves),
   tokenTotal |-> SumFunction([e \in entries |-> e.amount]),
   claims |-> [e \in entries |->
                 getProof(leaves, (CHOOSE i \in DOMAIN leaves : leaves[i] = LeafOf(e)) - 1)]]

\* the leaves are sorted by their hashes, in any order
parseBalanceMap ==
  /\ phase = "parsing"
  /\ IF Parses(balances)
     THEN LET entries == EntriesOf(balances)
          IN /\ phase' = "published"
             /\ \E leaves \in SetToSeqs({LeafOf(e) : e \in entries}) :
                  info' = InfoOf(entries, leaves)
     ELSE phase' = "thrown" /\ UNCHANGED info
  /\ UNCHANGED <<balances, held, claimedBitMap, received>>

(***************************************************************************)
(* MerkleDistributor.                                                      *)
(***************************************************************************)
deploy ==
  /\ phase = "published"
  /\ phase' = "deployed"
  /\ UNCHANGED <<balances, info, held, claimedBitMap, received>>

\* The tokens arrive after the deployment, so early claims fail.
fund ==
  /\ phase = "deployed"
  /\ phase' = "funded"
  /\ held' = held + info.tokenTotal
  /\ UNCHANGED <<balances, info, claimedBitMap, received>>

isClaimed(index) == index % WordSize \in claimedBitMap[index \div WordSize]

setClaimed(index) ==
  [claimedBitMap EXCEPT ![index \div WordSize] = @ \union {index % WordSize}]

\* a transfer that fails is not noticed
claim_unchecked(index, account, amount, proof) ==
  /\ phase \in {"deployed", "funded"}
  /\ ~isClaimed(index)
  /\ verifyProof(toNode(index, account, amount), proof, info.merkleRoot)
  /\ claimedBitMap' = setClaimed(index)
  /\ held' = IF amount <= held THEN held - amount ELSE held
  /\ received' = IF amount <= held THEN [received EXCEPT ![account] = @ + amount] ELSE received
  /\ UNCHANGED <<balances, phase, info>>

claim(index, account, amount, proof) ==
  /\ phase \in {"deployed", "funded"}
  /\ ~isClaimed(index)
  /\ verifyProof(toNode(index, account, amount), proof, info.merkleRoot)
  /\ amount <= held
  /\ claimedBitMap' = setClaimed(index)
  /\ held' = held - amount
  /\ received' = [received EXCEPT ![account] = @ + amount]
  /\ UNCHANGED <<balances, phase, info>>

\* the claim as published for a listed address
claimListed(e) == claim(e.index, e.account, e.amount, info.claims[e])

Indices == 0 .. Cardinality(Addresses) - 1
Entries == DOMAIN info.claims
KnownProofs == {info.claims[e] : e \in Entries} \union {<<>>}

\* Anyone may name any entry, with any proof that was published or the empty
\* one (claim takes any bytes32[]).
Claim ==
  /\ phase \in {"deployed", "funded"}
  /\ \E i \in Indices, a \in Accounts, x \in Amounts, p \in KnownProofs : claim(i, a, x, p)

Init ==
  /\ balances \in Lists
  /\ phase = "parsing" /\ info = NoInfo
  /\ held = 0
  /\ claimedBitMap = [w \in 0 .. Cardinality(Addresses) \div WordSize |-> {}]
  /\ received = [a \in Accounts |-> 0]

Next == parseBalanceMap \/ deploy \/ fund \/ Claim

Spec == Init /\ [][Next]_vars

\* The tokens are sent, and each listed account goes on trying to claim.
FairSpec ==
  /\ Spec
  /\ WF_vars(parseBalanceMap) /\ WF_vars(deploy) /\ WF_vars(fund)
  /\ WF_vars(\E e \in Entries : claimListed(e))

-----------------------------------------------------------------------------
Unclaimed == {e \in Entries : ~isClaimed(e.index)}

Airdrop == INSTANCE Entitlements WITH
  Entries <- [index : Indices, account : Accounts, amount : Amounts],
  owed <- Unclaimed, paid <- received

(***************************************************************************)
(* The tree, the proofs, the bitmap and the transfers together implement   *)
(* the promise of Entitlements: every entry of a published list is paid to *)
(* its account once, nothing else is paid, and in the end all of it is.    *)
(* The end needs every published proof to lead to the root: no leaf is     *)
(* lost where a layer has an odd number of elements, and the sides agree   *)
(* with the sorting of pairs.                                              *)
(***************************************************************************)
ImplementsEntitlements == Airdrop!FairSpec

=============================================================================
