------------------------------- MODULE Merkle --------------------------------
(***************************************************************************)
(* The state root and the account proofs of internal/state/merkle.go: a    *)
(* binary tree over the accounts a store holds, sorted by address, in      *)
(* which the last node of an odd level is paired with itself.              *)
(*                                                                         *)
(* A digest is the tagged tuple of what was hashed (SHA-256 is ideal, and  *)
(* the prefixes EAST_LEAF, EAST_NODE and EAST_EMPTY keep the three kinds   *)
(* apart).  A store is a function from the addresses it has a key for to   *)
(* accounts; indices count from 0 as in the code, sequences from 1.        *)
(***************************************************************************)
EXTENDS Ledger, SequencesExt, Filters

CONSTANT AddressOrder   \* all addresses, in the byte order of their lower case
ASSUME AddressesOrdered ==
    AddressOrder \in Seq(Accounts) /\ IsInjective(AddressOrder) /\ Range(AddressOrder) = Accounts

Zero == [balance |-> 0, staked |-> 0, pending |-> 0, nonce |-> 0]
GetAccount(store, addr) == IF addr \in DOMAIN store THEN store[addr] ELSE Zero

LeafHash(addr, acc) == <<"leaf", addr, acc.balance, acc.staked, acc.pending, acc.nonce>>
EmptyLeaf == <<"empty">>
ParentHash(left, right) == <<"node", left, right>>

\* The addresses in the store, sorted.
LoadSortedLeaves(store) ==
    Kept(AddressOrder, {i \in DOMAIN AddressOrder : AddressOrder[i] \in DOMAIN store})

\* The node i of a level is paired with its right neighbour, the last of an odd level
\* with itself.
Pair(level, i) ==
    ParentHash(level[2*i - 1], IF 2*i <= Len(level) THEN level[2*i] ELSE level[2*i - 1])

\* A level without a partner for its last node drops it.
NextLevelDropsOdd(level) ==
    [i \in 1..Max({1, Len(level) \div 2}) |-> Pair(level, i)]

NextLevel(level) ==
    [i \in 1..((Len(level) + 1) \div 2) |-> Pair(level, i)]

\* The leaves and the levels above them.
Levels(leafHashes) ==
    LET level[k \in 0..Len(leafHashes)] ==
            IF k > 0 THEN NextLevel(level[k - 1])
            ELSE IF leafHashes = <<>> THEN <<EmptyLeaf>> ELSE leafHashes
    IN level

\* They end with the first level of one node, the root.
BuildMerkleLayers(leafHashes) ==
    LET level == Levels(leafHashes)
        top   == Min({k \in 0..Len(leafHashes) : Len(level[k]) = 1})
    IN [k \in 1..top + 1 |-> level[k - 1]]

Leaf(store, addr) == LeafHash(addr, store[addr])
LeafHashes(store, leaves) == [i \in DOMAIN leaves |-> Leaf(store, leaves[i])]

ComputeMerkleStateRoot(store) ==
    Last(BuildMerkleLayers(LeafHashes(store, LoadSortedLeaves(store))))[1]

\* At the end of an odd level there is no sibling, and the left one is taken.
SiblingPrevious(level, index) ==
    IF index % 2 = 1 \/ index + 1 >= Len(level) THEN index - 1 ELSE index + 1

\* The index of the node that index is hashed with.
Sibling(level, index) ==
    LET flipped == IF index % 2 = 0 THEN index + 1 ELSE index - 1 IN
    IF flipped >= Len(level) THEN index ELSE flipped

\* The index of a node of each layer above the leaf.
IndexAt(idx, n) ==
    LET index[k \in 1..n] == IF k = 1 THEN idx ELSE index[k - 1] \div 2 IN index

(***************************************************************************)
(* ProveAccountMerkle.  A missing account gets the root and LeafIndex -1,  *)
(* except that in an empty tree its index is 0.                            *)
(***************************************************************************)
ProveAccount(store, addr) ==
    LET leaves == LoadSortedLeaves(store)
        layers == BuildMerkleLayers(LeafHashes(store, leaves))
        idx    == IF addr \in DOMAIN store
                  THEN (CHOOSE i \in DOMAIN leaves : leaves[i] = addr) - 1
                  ELSE IF leaves = <<>> THEN 0 ELSE -1
        steps  == IF addr \in DOMAIN store THEN 1..(Len(layers) - 1) ELSE {}
        at     == IndexAt(idx, Len(layers))
        sib(k) == Sibling(layers[k], at[k])
        acc    == GetAccount(store, addr)
    IN [address   |-> addr, account |-> acc, leafHash |-> LeafHash(addr, acc),
        leafIndex |-> idx, leafCount |-> Len(leaves),
        path      |-> [k \in steps |-> layers[k][sib(k) + 1]],
        sides     |-> [k \in steps |-> IF sib(k) < at[k] THEN "L" ELSE "R"],
        stateRoot |-> Last(layers)[1]]

\* The digests on the way from a leaf along a path.
Digests(leaf, path, sides) ==
    LET digest[k \in 0..Len(path)] ==
            IF k = 0 THEN leaf
            ELSE IF sides[k] = "L" THEN ParentHash(path[k], digest[k - 1])
                                   ELSE ParentHash(digest[k - 1], path[k])
    IN digest

\* The one the path leads to.
Walk(leaf, path, sides) == Digests(leaf, path, sides)[Len(path)]

\* VerifyMerkleProof of a proof whose digests decode.
VerifyMerkleProof(p) ==
    /\ p.leafIndex >= 0
    /\ p.leafHash = LeafHash(p.address, p.account)
    /\ Len(p.path) = Len(p.sides)
    /\ Range(p.sides) \subseteq {"L", "R"}
    /\ Walk(p.leafHash, p.path, p.sides) = p.stateRoot
-----------------------------------------------------------------------------
\* The stores that hold some of the accounts, in the state the ledger is in.
Stores == {Restrict(ledger.acc, present) : present \in SUBSET Accounts}

(***************************************************************************)
(* ProveAccount and VerifyMerkleProof agree on trees of every size: the    *)
(* proof of an account in the store verifies, that of a missing one does   *)
(* not, and along no path the store hands out does an account verify that  *)
(* differs from the stored one in its address or in any field.             *)
(***************************************************************************)
ProofsVerify == \A store \in Stores : \A addr \in Accounts :
    LET p == ProveAccount(store, addr)
        Claims(q, acc) == [p EXCEPT !.address = q, !.account = acc, !.leafHash = LeafHash(q, acc)]
    IN /\ VerifyMerkleProof(p) <=> addr \in DOMAIN store
       /\ \A q \in Accounts : \A acc \in {ledger.acc[q], p.account, Zero} :
            VerifyMerkleProof(Claims(q, acc)) => q \in DOMAIN store /\ store[q] = acc

(***************************************************************************)
(* The state root of a header tells stores apart: the accounts as they     *)
(* were at the start and as they are now, and any two selections of them,  *)
(* have the same root only if they are equal, although an odd node is      *)
(* hashed with itself.                                                     *)
(***************************************************************************)
RootDetermines ==
    LET all == Stores \cup {StartAccounts} IN
    Cardinality({ComputeMerkleStateRoot(store) : store \in all}) = Cardinality(all)
=============================================================================
