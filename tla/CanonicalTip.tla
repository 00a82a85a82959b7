---------------------------- MODULE CanonicalTip ----------------------------
(***************************************************************************)
(* What the chain monitor promises about its best tip, with no window at   *)
(* all: the best is the running winner of the fork choice over the tips    *)
(* offered, in the order they were offered.  A tip offered before may be   *)
(* ignored or compared once more; a new one is always compared.            *)
(***************************************************************************)
EXTENDS ForkChoice

VARIABLES
  seen,   \* the tips offered so far
  best    \* the canonical tip, or None

Init == seen = {} /\ best = None

Offer(b) ==
  /\ seen' = seen \cup {b}
  /\ best' = IF best = None THEN b
             ELSE IF consensus_take(best, b) THEN b ELSE best

Ignore(b) == b \in seen /\ UNCHANGED <<seen, best>>

Next == \E b \in Block : Offer(b) \/ Ignore(b)

Spec == Init /\ [][Next]_<<seen, best>>

-----------------------------------------------------------------------------

\* The shape of the state: there is a best as soon as a tip was offered.
TypeOK ==
  /\ seen \subseteq Block
  /\ best \in Block \cup {None}
  /\ best = None <=> seen = {}

\* Once a tip has been offered, the best is one of the tips offered and wins
\* against each of the others, whatever the order they came in: the verdict
\* of the running comparison in ChainMonitor::ingest depends only on the set
\* of blocks.  This is what makes two monitors of the same network agree.
BestIsMaximum ==
  best # None =>
    /\ best \in seen
    /\ \A b \in seen \ {best} : consensus_take(b, best)
=============================================================================
