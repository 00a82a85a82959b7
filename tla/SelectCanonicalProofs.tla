----------------------- MODULE SelectCanonicalProofs -----------------------
(***************************************************************************)
(* The result of select_canonical for lists of any length.                 *)
(***************************************************************************)
EXTENDS SelectCanonical, ForkChoiceProofs, TLAPS

\* The loop has looked at the tips before index i, and best is one of them.
LoopInv ==
  /\ tips \in Seq(Block)
  /\ i \in Nat /\ i >= 2
  /\ tips = <<>> => best_i = None /\ pc = "done"
  /\ tips # <<>> => best_i \in 1 .. Len(tips) /\ best_i < i /\ i <= Len(tips) + 1
  /\ pc \in {"loop", "done"}
  /\ pc = "done" => i > Len(tips)

\* No tip from best on, of those looked at, is preferred to the best.
LaterInv ==
  tips # <<>> => \A j \in best_i .. i - 1 : ~prefers_candidate(tips[best_i], tips[j])

\* The best wins against the other tips looked at, and is the first of its kind.
ShortInv ==
  tips # <<>> /\ ShortRangeList =>
    /\ \A j \in 1 .. i - 1 : tips[j] = tips[best_i] \/ prefers_candidate(tips[j], tips[best_i])
    /\ \A j \in 1 .. best_i - 1 : tips[j] # tips[best_i]

\* The invariants of the loop hold before its first comparison.
LEMMA LoopInit == SelectInit => LoopInv /\ LaterInv /\ ShortInv
<1> SUFFICES ASSUME SelectInit PROVE LoopInv /\ LaterInv /\ ShortInv
  OBVIOUS
<1>1. PICK n \in 0 .. MaxTips : tips \in [1 .. n -> Block]
  BY DEF SelectInit
<1>2. tips \in Seq(Block) /\ Len(tips) = n /\ n \in Nat
  BY <1>1, MaxTipsAssumption
<1>3. tips # <<>> => n >= 1
  BY <1>2
<1>4. LoopInv
  BY <1>2, <1>3 DEF SelectInit, LoopInv
<1>5. CASE tips = <<>>
  BY <1>4, <1>5 DEF SelectInit, LaterInv, ShortInv
<1>6. CASE tips # <<>>
  <2>1. best_i = 1 /\ i = 2 /\ tips[1] \in Block
    BY <1>2, <1>3, <1>6 DEF SelectInit
  <2>2. ~prefers_candidate(tips[1], tips[1])
    BY <2>1, TakeAsymmetric DEF prefers_candidate
  <2>3. LaterInv
    BY <2>1, <2>2 DEF LaterInv
  <2>4. ShortInv
    BY <2>1 DEF ShortInv
  <2> QED
    BY <1>4, <2>3, <2>4
<1> QED
  BY <1>5, <1>6

\* In a step that compares, the list is not empty and all is typed.
LEMMA CompareTyped ==
  ASSUME LoopInv, Compare
  PROVE  /\ tips # <<>> /\ best_i \in 1 .. Len(tips) /\ best_i < i
         /\ Len(tips) \in Nat /\ i \in 1 .. Len(tips)
         /\ \A j \in 1 .. Len(tips) : tips[j] \in Block
         /\ tips' = tips /\ i' = i + 1 /\ pc' = pc
         /\ best_i' = IF prefers_candidate(tips[best_i], tips[i]) THEN i ELSE best_i
BY DEF LoopInv, Compare

\* A step of the loop keeps its indices within the list.
LEMMA LoopStep ==
  ASSUME LoopInv, [SelectNext]_select_vars
  PROVE  LoopInv'
<1>1. CASE Compare
  <2>1. pc = "loop"
    BY <1>1 DEF Compare
  <2> QED
    BY <1>1, <2>1, CompareTyped DEF LoopInv
<1>2. CASE Return
  BY <1>2 DEF Return, LoopInv
<1>3. CASE UNCHANGED select_vars
  BY <1>3 DEF select_vars, LoopInv
<1> QED
  BY <1>1, <1>2, <1>3 DEF SelectNext

\* A step of the loop keeps the tips after the best from being preferred.
LEMMA LaterStep ==
  ASSUME LoopInv, LaterInv, [SelectNext]_select_vars
  PROVE  LaterInv'
<1>1. CASE Compare
  <2>1. CASE prefers_candidate(tips[best_i], tips[i])
    <3>1. best_i' = i /\ i' = i + 1 /\ tips' = tips /\ i \in Nat /\ tips[i] \in Block
      BY <1>1, <2>1, CompareTyped
    <3>2. ~prefers_candidate(tips[i], tips[i])
      BY <3>1, TakeAsymmetric DEF prefers_candidate
    <3> QED
      BY <3>1, <3>2 DEF LaterInv
  <2>2. CASE ~prefers_candidate(tips[best_i], tips[i])
    BY <1>1, <2>2, CompareTyped DEF LaterInv
  <2> QED
    BY <2>1, <2>2
<1>2. CASE Return
  BY <1>2 DEF Return, LaterInv
<1>3. CASE UNCHANGED select_vars
  BY <1>3 DEF select_vars, LaterInv
<1> QED
  BY <1>1, <1>2, <1>3 DEF SelectNext

\* Within short range, a step keeps the best ahead of all tips looked at.
LEMMA ShortStep ==
  ASSUME LoopInv, ShortInv, [SelectNext]_select_vars
  PROVE  ShortInv'
<1>1. CASE Compare
  <2> SUFFICES ASSUME ShortRangeList PROVE ShortInv'
    BY <1>1, CompareTyped DEF ShortInv, ShortRangeList
  <2> USE <1>1, CompareTyped
  <2>1. /\ \A j \in 1 .. i - 1 : tips[j] = tips[best_i] \/ consensus_take(tips[j], tips[best_i])
        /\ \A j \in 1 .. best_i - 1 : tips[j] # tips[best_i]
    BY DEF ShortInv, prefers_candidate
  <2>2. CASE consensus_take(tips[best_i], tips[i])
    <3>1. best_i' = i /\ i' = i + 1 /\ tips' = tips
      BY <2>2 DEF prefers_candidate
    <3>2. ASSUME NEW j \in 1 .. i - 1 PROVE consensus_take(tips[j], tips[i])
      <4>1. tips[j] \in Block /\ tips[best_i] \in Block /\ tips[i] \in Block
        OBVIOUS
      <4> QED
        BY <2>1, <2>2, <4>1, TakeTransitive DEF ShortRangeList
    <3>3. \A j \in 1 .. i - 1 : tips[j] # tips[i]
      BY <3>2, TakeAsymmetric
    <3> QED
      BY <3>1, <3>2, <3>3 DEF ShortInv, prefers_candidate
  <2>3. CASE ~consensus_take(tips[best_i], tips[i])
    <3>1. best_i' = best_i /\ i' = i + 1 /\ tips' = tips
      BY <2>3 DEF prefers_candidate
    <3>2. tips[i] = tips[best_i] \/ consensus_take(tips[i], tips[best_i])
      BY <2>3, TakeTotal
    <3> QED
      BY <2>1, <2>3, <3>1, <3>2 DEF ShortInv, prefers_candidate
  <2> QED
    BY <2>2, <2>3
<1>2. CASE Return
  BY <1>2 DEF Return, ShortInv, ShortRangeList
<1>3. CASE UNCHANGED select_vars
  BY <1>3 DEF select_vars, ShortInv, ShortRangeList
<1> QED
  BY <1>1, <1>2, <1>3 DEF SelectNext

\* Whatever fork choice prefers, and with it whatever the ranges of the tips:
\* no tip listed after the one returned is preferred to it.
THEOREM LaterTipsLose == SelectSpec => []NoLaterTipPreferred
<1>1. LoopInv /\ LaterInv => NoLaterTipPreferred
  BY DEF LoopInv, LaterInv, NoLaterTipPreferred
<1>2. LoopInv /\ LaterInv /\ [SelectNext]_select_vars => (LoopInv /\ LaterInv)'
  BY LoopStep, LaterStep
<1> QED
  BY <1>1, <1>2, LoopInit, PTL DEF SelectSpec

\* Within short range select_canonical returns the canonical tip of a list of
\* any length, and its first occurrence: which source is listed first decides
\* only between sources that agree.
THEOREM WinnerCorrect == SelectSpec => [](WinnerIsCanonical /\ FirstSourceWins)
<1>1. LoopInv /\ ShortInv => WinnerIsCanonical /\ FirstSourceWins
  <2> SUFFICES ASSUME LoopInv, ShortInv, pc = "done", tips # <<>>, ShortRangeList
               PROVE  WinnerIsCanonical /\ FirstSourceWins
    BY Zenon DEF WinnerIsCanonical, FirstSourceWins
  <2>1. /\ best_i \in 1 .. Len(tips) /\ i = Len(tips) + 1 /\ Len(tips) \in Nat
        /\ \A j \in 1 .. Len(tips) : tips[j] \in Block
    BY DEF LoopInv
  <2>2. FirstSourceWins
    BY DEF ShortInv, FirstSourceWins
  <2>3. ASSUME NEW j \in 1 .. Len(tips)
        PROVE  tips[j] = tips[best_i] \/ ~prefers_candidate(tips[best_i], tips[j])
    <3>1. tips[j] = tips[best_i] \/ prefers_candidate(tips[j], tips[best_i])
      BY <2>1 DEF ShortInv
    <3> QED
      BY <2>1, <3>1, TakeAsymmetric DEF prefers_candidate
  <2>4. WinnerIsCanonical
    <3> SUFFICES ASSUME NEW j \in 1 .. Len(tips), tips[j] # tips[best_i]
                 PROVE  compare_tips(tips[best_i], tips[j]) \in
                          [kind : {"Diverged"}, canonical_is_b : {FALSE},
                           range : {"Short", "Long"}]
      BY Zenon DEF WinnerIsCanonical, compare_tips
    <3>1. prefers_candidate(tips[best_i], tips[j]) = FALSE
      BY <2>3 DEF prefers_candidate, consensus_take, Longer, is_short_range_fork
    <3> HIDE DEF prefers_candidate
    <3> QED
      BY <3>1, Zenon DEF compare_tips
  <2> QED
    BY <2>2, <2>4
<1>2. LoopInv /\ ShortInv /\ [SelectNext]_select_vars => (LoopInv /\ ShortInv)'
  BY LoopStep, ShortStep
<1> QED
  BY <1>1, <1>2, LoopInit, PTL DEF SelectSpec
=============================================================================
