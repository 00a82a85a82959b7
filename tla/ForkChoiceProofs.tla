-------------------------- MODULE ForkChoiceProofs --------------------------
(***************************************************************************)
(* Order facts about consensus_take, for every set of blocks.              *)
(***************************************************************************)
EXTENDS ForkChoice, TLAPS

\* A chain has at least one block and its length is its height.
LEMMA HeightType == \A b \in Block : height(b) \in Nat /\ height(b) >= 1
BY BlockAssumption, ChainAssumption DEF height

\* Fork choice never prefers two different tips to each other.
LEMMA TakeAsymmetric ==
  \A a, b \in Block : consensus_take(a, b) => ~consensus_take(b, a)
BY HeightType, BlockAssumption, RangeAssumption
   DEF consensus_take, is_short_range_fork, Longer

\* Of two different tips fork choice prefers one.
LEMMA TakeTotal ==
  \A a, b \in Block : a # b => consensus_take(a, b) \/ consensus_take(b, a)
BY HeightType, BlockAssumption, RankAssumption, RangeAssumption
   DEF consensus_take, is_short_range_fork, Longer

\* Among three tips in short range of each other the preference is transitive.
LEMMA TakeTransitive ==
  \A a, b, c \in Block :
    /\ is_short_range_fork(a, b) /\ is_short_range_fork(b, c) /\ is_short_range_fork(a, c)
    /\ consensus_take(a, b) /\ consensus_take(b, c)
    => consensus_take(a, c)
BY HeightType, BlockAssumption DEF consensus_take, Longer

\* A maximum compared with one more tip: the winner is the maximum of all.
LEMMA RunningMaximum ==
  ASSUME AllShortRange,
         NEW S, S \subseteq Block, NEW m \in S,
         \A x \in S \ {m} : consensus_take(x, m),
         NEW b \in Block, NEW w, w = IF consensus_take(m, b) THEN b ELSE m
  PROVE  /\ w \in S \cup {b}
         /\ \A x \in (S \cup {b}) \ {w} : consensus_take(x, w)
<1>1. CASE consensus_take(m, b)
  BY <1>1, TakeTransitive DEF AllShortRange
<1>2. CASE ~consensus_take(m, b)
  BY <1>2, TakeTotal
<1> QED
  BY <1>1, <1>2
=============================================================================
