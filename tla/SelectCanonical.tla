-------------------------- MODULE SelectCanonical --------------------------
(***************************************************************************)
(* select_canonical, the choice among the tips several sources report:     *)
(* crates/mina-verify/src/fork_choice.rs.  The loop is a state machine so  *)
(* that its result can be proved for lists of any length.  Indices start   *)
(* at 1 here and at 0 in the code.                                         *)
(***************************************************************************)
EXTENDS ForkChoice

CONSTANT MaxTips   \* bound on the length of the list

ASSUME MaxTipsAssumption == MaxTips \in Nat

VARIABLES
  tips,     \* the argument
  i,        \* the next index to compare
  best_i,   \* index of the best tip so far, the result once done
  pc        \* "loop" or "done"

select_vars == <<tips, i, best_i, pc>>

SelectInit ==
  /\ tips \in UNION {[1 .. n -> Block] : n \in 0 .. MaxTips}
  /\ i = 2
  /\ best_i = IF tips = <<>> THEN None ELSE 1
  /\ pc = IF tips = <<>> THEN "done" ELSE "loop"

\* Flawed variant: the arguments of the comparison are swapped.
Compare_swapped ==
  /\ pc = "loop" /\ i <= Len(tips)
  /\ best_i' = IF prefers_candidate(tips[i], tips[best_i]) THEN i ELSE best_i
  /\ i' = i + 1
  /\ UNCHANGED <<tips, pc>>

\* Flawed variant: a tip in long range of the best is passed over.
Compare_short_only ==
  /\ pc = "loop" /\ i <= Len(tips)
  /\ best_i' = IF /\ is_short_range_fork(tips[best_i], tips[i])
                  /\ prefers_candidate(tips[best_i], tips[i])
               THEN i ELSE best_i
  /\ i' = i + 1
  /\ UNCHANGED <<tips, pc>>

Compare ==
  /\ pc = "loop" /\ i <= Len(tips)
  /\ best_i' = IF prefers_candidate(tips[best_i], tips[i]) THEN i ELSE best_i
  /\ i' = i + 1
  /\ UNCHANGED <<tips, pc>>

Return ==
  /\ pc = "loop" /\ i > Len(tips)
  /\ pc' = "done"
  /\ UNCHANGED <<tips, i, best_i>>

SelectNext == Compare \/ Return

SelectSpec == SelectInit /\ [][SelectNext]_select_vars

-----------------------------------------------------------------------------

\* All tips of the list are in short range of each other.
ShortRangeList ==
  \A j, k \in 1 .. Len(tips) : is_short_range_fork(tips[j], tips[k])

\* Within short range the winner is canonical against every tip of the list, as
\* compare_tips judges the pair, so the sources may be listed in any order.
WinnerIsCanonical ==
  pc = "done" /\ tips # <<>> /\ ShortRangeList =>
    \A j \in 1 .. Len(tips) :
      compare_tips(tips[best_i], tips[j]) \in
        {[kind |-> "Same"]} \cup
        [kind : {"Diverged"}, canonical_is_b : {FALSE}, range : {"Short", "Long"}]

\* When several sources report the winning tip, the first of them is returned,
\* within short range.  Across a long range the winner may come round again.
FirstSourceWins ==
  pc = "done" /\ tips # <<>> /\ ShortRangeList => \A j \in 1 .. best_i - 1 : tips[j] # tips[best_i]

\* Whatever the range, no tip listed after the winner is preferred to it.
NoLaterTipPreferred ==
  pc = "done" /\ tips # <<>> =>
    \A j \in best_i .. Len(tips) : ~prefers_candidate(tips[best_i], tips[j])
=============================================================================
