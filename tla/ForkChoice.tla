----------------------------- MODULE ForkChoice -----------------------------
(***************************************************************************)
(* Verified tips and the Ouroboros Samasika fork choice over them:         *)
(* crates/mina-verify/src/fork_choice.rs.                                  *)
(*                                                                         *)
(* A VerifiedTip is identified with its state hash.  A Pickles proof       *)
(* attests the whole history of a block, so a verified block determines    *)
(* its chain back to genesis, whether or not those blocks were delivered:  *)
(* chain[b] is that chain, chain[b][h] its block of height h.              *)
(*                                                                         *)
(* The rule itself, consensus_take, belongs to the mina-core crate.  It is *)
(* modelled from how this repository calls and describes it: over a short  *)
(* range the longer chain wins, over a long range the denser one, and ties *)
(* go on to VRF output and state hash, which are one strict order (rank)   *)
(* here because no two blocks share a state hash.                          *)
(***************************************************************************)
EXTENDS Naturals, Sequences

CONSTANTS
  None,        \* Rust's Option::None
  Block,       \* state hashes of the blocks whose proof verifies
  chain,       \* [Block -> Seq(Block)]: the blocks from genesis to b
  density,     \* [Block -> Nat]: sub-window density of b's consensus state
  rank,        \* [Block -> Nat]: VRF output, then state hash
  shortRange   \* pairs of tips that fork off within the same range

ASSUME BlockAssumption ==
  /\ None \notin Block
  /\ chain \in [Block -> Seq(Block)]
  /\ density \in [Block -> Nat]
  /\ rank \in [Block -> Nat]

\* The order of VRF outputs and state hashes is strict.
ASSUME RankAssumption ==
  \A a, b \in Block : rank[a] = rank[b] => a = b

\* is_short_range_fork does not depend on the order of its arguments.
ASSUME RangeAssumption ==
  \A a, b \in Block : <<a, b>> \in shortRange => <<b, a>> \in shortRange

\* A chain ends with its block, contains the chains of its blocks, and starts
\* at the one genesis of the network whose verification key accepted it.
ASSUME ChainAssumption ==
  /\ \A b \in Block : /\ Len(chain[b]) >= 1
                      /\ chain[b][Len(chain[b])] = b
  /\ \A b \in Block : \A h \in 1 .. Len(chain[b]) :
       /\ Len(chain[chain[b][h]]) = h
       /\ \A i \in 1 .. h : chain[chain[b][h]][i] = chain[b][i]
  /\ \A a, b \in Block : chain[a][1] = chain[b][1]

-----------------------------------------------------------------------------
(* VerifiedTip's accessors.                                                *)

height(b) == Len(chain[b])

previous_state_hash(b) ==
  IF height(b) = 1 THEN None ELSE chain[b][height(b) - 1]

-----------------------------------------------------------------------------
(* mina-core's rule.                                                       *)

is_short_range_fork(a, b) == <<a, b>> \in shortRange

Longer(tip, candidate) ==
  \/ height(tip) < height(candidate)
  \/ height(tip) = height(candidate) /\ rank[tip] < rank[candidate]

consensus_take(tip, candidate) ==
  IF is_short_range_fork(tip, candidate)
    THEN Longer(tip, candidate)
    ELSE \/ density[tip] < density[candidate]
         \/ density[tip] = density[candidate] /\ Longer(tip, candidate)

-----------------------------------------------------------------------------
(* fork_choice.rs.                                                         *)

prefers_candidate(tip, candidate) == consensus_take(tip, candidate)

\* Comparison of the tips two sources report.
compare_tips(a, b) ==
  IF a = b
    THEN [kind |-> "Same"]
    ELSE [kind |-> "Diverged",
          canonical_is_b |-> prefers_candidate(a, b),
          range |-> IF is_short_range_fork(a, b) THEN "Short" ELSE "Long"]

-----------------------------------------------------------------------------
(* Vocabulary of the properties: the block tree itself, independent of any *)
(* window over it.                                                         *)

Ancestors(b) == {chain[b][h] : h \in 1 .. height(b)}   \* b included

IsLowestCommonAncestor(c, a, b) ==
  /\ c \in Ancestors(a) \cap Ancestors(b)
  /\ \A d \in Ancestors(a) \cap Ancestors(b) : height(d) <= height(c)

\* Every pair of tips is compared by the short-range rule: the situation of a
\* monitor following a live network.
AllShortRange == \A a, b \in Block : is_short_range_fork(a, b)

\* A child is preferred to its parent, which the monitor's direct-extension
\* path takes for granted.
ChildPreferred ==
  \A b \in Block : height(b) > 1 => consensus_take(previous_state_hash(b), b)
=============================================================================
