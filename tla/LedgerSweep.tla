----------------------------- MODULE LedgerSweep -----------------------------
(***************************************************************************)
(* Sweeping a ledger for the map from public keys to leaf indices:         *)
(* crates/mina-verify/src/account_read.rs, sweep_base_index,               *)
(* ledger_sweep_queries and pubkey_index_pairs.                            *)
(*                                                                         *)
(* Leaves are filled in order and never emptied.  The consumer sweeps in   *)
(* rounds while the ledger grows, each round from some leaf it has reached *)
(* to the number of accounts it believes there are.  One What_contents     *)
(* query returns the accounts of a subtree, a batch.                       *)
(***************************************************************************)
EXTENDS Integers, Sequences, FiniteSetsExt

CONSTANTS
  SubtreeHeight,   \* CONTENTS_SUBTREE_HEIGHT (5 in production)
  SweepDepth,      \* the depth the consumer passes (LEDGER_DEPTH, 35)
  Capacity,        \* the accounts that will ever be created
  owner,           \* owner[i]: the public key of the account at index i
  Refused          \* an answer other than ContentsAre, or with an account
                   \* that does not decode

batch == 2^SubtreeHeight

\* The nodes at depth subtree_depth = depth - CONTENTS_SUBTREE_HEIGHT.
subtrees == 2^(SweepDepth - SubtreeHeight)

\* The depth is at least a subtree's height, or the subtraction of the two
\* usize values underflows, and the ledger has room for every account.  What
\* is said of batch and subtrees follows from the rest; it is there because
\* the prover has no theory of powers.
ASSUME SweepAssumption ==
  /\ SubtreeHeight \in Nat
  /\ SweepDepth \in Nat
  /\ SweepDepth >= SubtreeHeight
  /\ Capacity \in Nat
  /\ batch \in Nat \ {0}
  /\ subtrees \in Nat \ {0}
  /\ Capacity <= subtrees * batch

VARIABLES
  num_accounts,   \* leaves filled so far
  pairs,          \* the <<public key, index>> pairs collected
  swept           \* the consumer has swept all indices below this

sweep_vars == <<num_accounts, pairs, swept>>

SweepInit ==
  /\ num_accounts = 0
  /\ pairs = {}
  /\ swept = 0

-----------------------------------------------------------------------------

\* Flawed variant: the start is not rounded to its subtree.
sweep_base_index_exact(start) == start

sweep_base_index(start) == (start \div batch) * batch

\* Address::from_index(AccountIndex(s), subtree_depth): the address keeps the
\* subtree_depth low bits of s.  It stands for the node it leads to, numbered
\* from the left.
from_index(s) == s % subtrees

\* Flawed variant: the last, partly filled subtree is left out.
ledger_sweep_queries_floor(start, num) ==
  LET first == start \div batch
      end == num \div batch
  IN  [k \in 1 .. end - first |-> from_index(first + k - 1)]

\* The subtrees asked for, one query each, in index order.
ledger_sweep_queries(start, num) ==
  LET first == start \div batch
      end == (num + batch - 1) \div batch
  IN  [k \in 1 .. end - first |-> from_index(first + k - 1)]

\* What an honest peer returns for subtree s: the public keys of its filled
\* leaves.  The map is only a hint, so nothing is claimed of it when a peer
\* lies; that such a hint forges no balance is ReadSound of AccountRead.
Contents(s) ==
  [j \in 1 .. Min({batch, num_accounts - s * batch}) |-> owner[s * batch + j - 1]]

\* One answer per query, in the same order; the j-th account of the s-th
\* answer is at base + s * batch + j.
Pairs(answers, base) ==
  UNION {{<<answers[s][j], base + (s - 1) * batch + (j - 1)>> :
            j \in DOMAIN answers[s]} : s \in DOMAIN answers}

\* One such answer makes the call fail, with no pair at all.
pubkey_index_pairs(answers, base) ==
  IF \E s \in DOMAIN answers : answers[s] = Refused THEN Refused
  ELSE Pairs(answers, base)

\* The network creates an account.
CreateAccount ==
  /\ num_accounts < Capacity
  /\ num_accounts' = num_accounts + 1
  /\ UNCHANGED <<pairs, swept>>

\* One round of the consumer, which is outside the crate.  num may be out of
\* date, start may lie before the tail, and the peer may refuse some queries;
\* after an error the consumer starts over.
Sweep(start, num) ==
  LET queries == ledger_sweep_queries(start, num)
  IN  \E refused \in SUBSET DOMAIN queries :
        LET answers == [k \in DOMAIN queries |->
                          IF k \in refused THEN Refused ELSE Contents(queries[k])]
            found == pubkey_index_pairs(answers, sweep_base_index(start))
        IN  /\ found # Refused
            /\ pairs' = pairs \cup found
            /\ swept' = Max({num, swept})
            /\ UNCHANGED num_accounts

SweepNext ==
  \/ CreateAccount
  \/ \E start \in 0 .. swept, num \in 0 .. num_accounts : Sweep(start, num)

-----------------------------------------------------------------------------

\* Every pair is right: it names the owner of a filled leaf, although rounds
\* start in the middle of a subtree and the last subtree is partly filled.
PairsRight ==
  \A p \in pairs : p[2] \in 0 .. num_accounts - 1 /\ p[1] = owner[p[2]]

\* No leaf below what was swept is missing from the map, at whatever boundary
\* the rounds met while the ledger grew.
NothingSkipped == \A i \in 0 .. swept - 1 : <<owner[i], i>> \in pairs
=============================================================================
