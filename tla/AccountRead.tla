----------------------------- MODULE AccountRead -----------------------------
(***************************************************************************)
(* Reading an account from an untrusted peer:                              *)
(* crates/mina-verify/src/account_read.rs and account.rs.                  *)
(*                                                                         *)
(* A ledger is a binary Merkle tree.  A read takes one answer per level of *)
(* the tree and one for the leaf, keeps the sibling off the path at each   *)
(* level, and folds the account with the siblings up to a root that a      *)
(* verified block commits to.  The two loops of the code are loops here:   *)
(* one step per level, then one step per height.                           *)
(*                                                                         *)
(* An address is the sequence of turns from the root, 0 for left and 1 for *)
(* right.  Hashes are terms: hashing is taken to be free of collisions.    *)
(***************************************************************************)
EXTENDS Integers, SequencesExt

CONSTANTS
  Depth,         \* the depth argument (LEDGER_DEPTH in production)
  Ledger,        \* the ledgers that exist
  content,       \* content[l][x]: the account at leaf x of ledger l
  node,          \* node[l][x]: the hash at address x of ledger l
  Empty,         \* the account of a leaf that was never written
  BadHash,       \* a LedgerHash that is no field element
  Undecodable,   \* an account whose binprot does not convert
  None,
  Block,         \* verified blocks
  Index,         \* the indices read
  AnswerLists,   \* the lists of answers a peer may give
  Claims         \* [account, path]: inclusion proofs from an untrusted source

hash(a) == <<"account", a>>
hash_node(height, left, right) == <<"node", height, left, right>>

Address == UNION {[1 .. n -> {0, 1}] : n \in 0 .. Depth}
Leaf == [1 .. Depth -> {0, 1}]

ASSUME DepthAssumption == Depth \in Nat

ASSUME NoneAssumption == None # "Ok"

\* mina-tree's ledgers: each node hashes its two children at its height.
ASSUME LedgerAssumption ==
  \A l \in Ledger : \A x \in Address :
    node[l][x] = IF x \in Leaf THEN hash(content[l][x])
                 ELSE hash_node(Depth - 1 - Len(x),
                                node[l][Append(x, 0)], node[l][Append(x, 1)])

\* A claim's path is a list of siblings, each with the side we are on.
ASSUME ClaimAssumption ==
  \A c \in Claims : /\ c.path \in Seq({c.path[k] : k \in DOMAIN c.path})
                    /\ \A k \in DOMAIN c.path : c.path[k].side \in {0, 1}

\* A ledger that exists is made of field elements and of accounts that decode.
ASSUME HonestAssumption ==
  \A l \in Ledger :
    /\ \A x \in Address : node[l][x] # BadHash
    /\ \A x \in Leaf : content[l][x] \notin {None, Undecodable}

VARIABLES
  pc,        \* "idle", "walk", "fold" or "done"
  root,      \* the hash to fold to
  index,     \* the index read, None for verify_account_inclusion
  answers,   \* the peer's answers
  path,      \* root_to_leaf while walking, the Merkle path while folding
  account,   \* the account read or claimed
  accum,     \* the running hash of implied_root
  height,    \* how many elements of path are folded
  turns,     \* history: the address of the account below what is folded
  result     \* None, "Ok" (or true), "NotIncluded" (or false), an error

vars == <<pc, root, index, answers, path, account, accum, height, turns, result>>

Init ==
  /\ pc = "idle"
  /\ root = None
  /\ index = None
  /\ answers = <<>>
  /\ path = <<>>
  /\ account = None
  /\ accum = None
  /\ height = 0
  /\ turns = <<>>
  /\ result = None

-----------------------------------------------------------------------------
(* The query plan.                                                         *)

bit(i, n) == IF (i \div 2^n) % 2 = 1 THEN 1 ELSE 0

\* Address::from_index(index >> (Depth - level), level) keeps level bits.
node_addr(i, level) == [k \in 1 .. level |-> bit(i, Depth - k)]

LeafAddr(i) == node_addr(i, Depth)

sync_ledger_queries(i) ==
  [k \in 1 .. Depth + 1 |->
     [what |-> IF k <= Depth THEN "ChildHashes" ELSE "Contents",
      addr |-> node_addr(i, k - 1)]]

ChildHashesAre(l, r) == [type |-> "ChildHashesAre", left |-> l, right |-> r]
ContentsAre(list) == [type |-> "ContentsAre", accounts |-> list]

\* A peer that answers from ledger l.
serve(l, query) ==
  IF query.what = "ChildHashes"
    THEN ChildHashesAre(node[l][Append(query.addr, 0)],
                        node[l][Append(query.addr, 1)])
    ELSE ContentsAre(IF content[l][query.addr] = Empty THEN <<>>
                     ELSE <<content[l][query.addr]>>)

Served(l, i) == [k \in 1 .. Depth + 1 |-> serve(l, sync_ledger_queries(i)[k])]

-----------------------------------------------------------------------------
(* The roots a block commits to.                                           *)

ledger_root(b) == IF b.staged = BadHash THEN None ELSE b.staged
staking_epoch_ledger_hash(b) == b.staking
next_epoch_ledger_hash(b) == b.next

-----------------------------------------------------------------------------
(* account_with_path and verify_account_at_root.                           *)

Finish(outcome) == pc' = "done" /\ result' = outcome

\* The length check comes before any answer is looked at.
StartRead(b) ==
  /\ pc = "idle"
  /\ root' \in {staking_epoch_ledger_hash(b), next_epoch_ledger_hash(b)}
  /\ index' \in Index
  /\ answers' \in AnswerLists
  /\ \/ Len(answers') # Depth + 1 /\ Finish("AnswerCountMismatch")
     \/ Len(answers') = Depth + 1 /\ pc' = "walk" /\ UNCHANGED result
  /\ UNCHANGED <<path, account, accum, height, turns>>

\* Flawed variant: the turns are taken from the lowest bit on.
goes_right_lsb(i, level) == bit(i, level) = 1

goes_right(i, level) == bit(i, Depth - level - 1) = 1

\* Flawed variant: the child on the path is taken for the sibling.
Sibling_on_path(answer, right) == IF right THEN answer.right ELSE answer.left

\* The child off the path; the one on it is not looked at.
Sibling(answer, right) == IF right THEN answer.left ELSE answer.right

Walk ==
  LET level == Len(path)
      answer == answers[level + 1]
      right == goes_right(index, level)
  IN  /\ pc = "walk"
      /\ level < Depth
      /\ \/ /\ answer.type # "ChildHashesAre"
            /\ Finish("NotChildHashes")
            /\ UNCHANGED path
         \/ /\ answer.type = "ChildHashesAre"
            /\ Sibling(answer, right) = BadHash
            /\ Finish("BadHash")
            /\ UNCHANGED path
         \/ /\ answer.type = "ChildHashesAre"
            /\ Sibling(answer, right) # BadHash
            /\ path' = Append(path, [side |-> IF right THEN 1 ELSE 0,
                                     hash |-> Sibling(answer, right)])
            /\ UNCHANGED <<pc, result>>
      /\ UNCHANGED <<root, index, answers, account, accum, height, turns>>

\* The fold starts at the leaf: path is turned round before.
BeginFold(a, leaf_to_root) ==
  /\ pc' = "fold"
  /\ account' = a
  /\ path' = leaf_to_root
  /\ accum' = hash(a)
  /\ UNCHANGED <<height, turns, result>>

\* The first account of the leaf's answer, None if there is none.
First(answer) ==
  IF answer.type = "ContentsAre" /\ answer.accounts # <<>>
    THEN Head(answer.accounts) ELSE None

ReadContents ==
  LET a == First(answers[Depth + 1])
      Fails(error) == /\ Finish(error)
                      /\ UNCHANGED <<path, account, accum, height, turns>>
  IN  /\ pc = "walk"
      /\ Len(path) = Depth
      /\ \/ a = None /\ Fails("NotContents")
         \/ a = Undecodable /\ Fails("BadAccount")
         \/ a \notin {None, Undecodable} /\ root = BadHash /\ Fails("BadHash")
         \/ /\ a \notin {None, Undecodable}
            /\ root # BadHash
            /\ BeginFold(a, Reverse(path))
      /\ UNCHANGED <<root, index, answers>>

-----------------------------------------------------------------------------
(* verify_account_inclusion: any account, and a path of any length.        *)

StartInclusion(b, claim) ==
  /\ pc = "idle"
  /\ root' = ledger_root(b)
  /\ \/ /\ ledger_root(b) = None
        /\ Finish("NotIncluded")
        /\ UNCHANGED <<path, account, accum, height, turns>>
     \/ ledger_root(b) # None /\ BeginFold(claim.account, claim.path)
  /\ UNCHANGED <<index, answers>>

-----------------------------------------------------------------------------
(* implied_root, then the comparison.                                      *)

\* Flawed variant: the sibling is put on our own side.
Combine_swapped(h, acc, step) ==
  IF step.side = 0 THEN hash_node(h, step.hash, acc)
  ELSE hash_node(h, acc, step.hash)

\* Side 0 is MerklePath::Left(right), side 1 is MerklePath::Right(left).
Combine(h, acc, step) ==
  IF step.side = 0 THEN hash_node(h, acc, step.hash)
  ELSE hash_node(h, step.hash, acc)

Fold ==
  /\ pc = "fold"
  /\ height < Len(path)
  /\ accum' = Combine(height, accum, path[height + 1])
  /\ turns' = <<path[height + 1].side>> \o turns
  /\ height' = height + 1
  /\ UNCHANGED <<pc, root, index, answers, path, account, result>>

Compare ==
  /\ pc = "fold"
  /\ height = Len(path)
  /\ Finish(IF accum = root THEN "Ok" ELSE "NotIncluded")
  /\ UNCHANGED <<root, index, answers, path, account, accum, height, turns>>

Next ==
  \/ \E b \in Block : StartRead(b)
  \/ Walk
  \/ ReadContents
  \/ \E b \in Block, c \in Claims : StartInclusion(b, c)
  \/ Fold
  \/ Compare

Spec == Init /\ [][Next]_vars

-----------------------------------------------------------------------------
(* Properties.                                                             *)

\* An accepted read is true: whatever the peer answered, the account returned
\* is the one at the index in every ledger that has the root the block commits
\* to.  An index beyond the ledger is read as its low Depth bits.
ReadSound ==
  result = "Ok" /\ index # None =>
    \A l \in Ledger : node[l][<<>>] = root =>
      content[l][LeafAddr(index)] = account

\* A peer that holds the ledger is never refused: if the answers are those of
\* the ledger with this root, to the queries in their order, and the leaf is
\* filled, the read ends in Ok.
ReadComplete ==
  result # None /\ index # None =>
    \A l \in Ledger :
      /\ node[l][<<>>] = root
      /\ answers = Served(l, index)
      /\ content[l][LeafAddr(index)] # Empty
      => result = "Ok"

\* verify_account_inclusion accepts a claim only if its path has the length of
\* the tree and leads to that very account in the block's ledger: neither a
\* shorter nor a longer path, nor one with its sides exchanged, will do.
InclusionSound ==
  result = "Ok" /\ index = None =>
    \A l \in Ledger : node[l][<<>>] = root =>
      /\ Len(path) = Depth
      /\ content[l][[k \in 1 .. Depth |-> path[Depth + 1 - k].side]] = account
=============================================================================
