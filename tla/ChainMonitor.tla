---------------------------- MODULE ChainMonitor ----------------------------
(***************************************************************************)
(* The windowed chain monitor: crates/mina-verify/src/monitor.rs.          *)
(*                                                                         *)
(* The monitor keeps a bounded window of verified blocks and the best tip  *)
(* among all it was given.  ingest adds one tip, evicts, moves the best    *)
(* and classifies the tip against the previous best.  A Node is determined *)
(* by its key (ForkChoice), so the HashMap is the set of its keys.         *)
(***************************************************************************)
EXTENDS ForkChoice, FiniteSets, FiniteSetsExt

CONSTANT requested   \* the argument of ChainMonitor::new

ASSUME RequestedAssumption == requested \in Nat

VARIABLES
  nodes,      \* keys of the window
  order,      \* the same keys, oldest first (a VecDeque)
  best,       \* key of the canonical tip, or None
  last,       \* the last call: its tip, the best it found, what it returned
  panicked,   \* an expect in ingest failed
  seen,       \* history: every tip ever ingested
  recent      \* history: the last capacity - 1 keys inserted, oldest first

vars == <<nodes, order, best, last, panicked, seen, recent>>

capacity == IF requested >= 1 THEN requested ELSE 1

Kinds == {"Genesis", "Duplicate", "Extend", "Reorg", "Behind", "Fork",
          "Unlinked"}

\* Ingest, together with the arguments it answers.  common and depth are None
\* where a variant has no such field; Reorg's from is the best found.
Calls == [tip : Block, from : Block \cup {None}, kind : Kinds,
          common : Block \cup {None}, depth : Nat \cup {None}]

Init ==
  /\ nodes = {}
  /\ order = <<>>
  /\ best = None
  /\ last = None
  /\ panicked = FALSE
  /\ seen = {}
  /\ recent = <<>>

-----------------------------------------------------------------------------
(* insert.  The window before the call holds at most capacity keys         *)
(* (WindowBounded), so the while loop runs once if at all; the keys of     *)
(* order are distinct (OrderTracksNodes), so the inner loop rotates the    *)
(* best at most once before it meets a key to evict.                       *)

Keep(b) == [nodes |-> nodes \cup {b}, order |-> Append(order, b)]

\* Flawed variant: the oldest block goes, be it the best.
insert_evict_any(b) ==
  LET pushed == Append(order, b) IN
  IF Cardinality(nodes \cup {b}) <= capacity THEN Keep(b)
  ELSE [nodes |-> (nodes \cup {b}) \ {Head(pushed)}, order |-> Tail(pushed)]

\* Flawed variant: the bound is tested before the insertion.
insert_late(b) ==
  LET pushed == Append(order, b)
      turned == IF Head(pushed) = best THEN Append(Tail(pushed), best) ELSE pushed
  IN  IF Cardinality(nodes) <= capacity THEN Keep(b)
      ELSE [nodes |-> (nodes \cup {b}) \ {Head(turned)}, order |-> Tail(turned)]

\* Flawed variant: the newest block goes (pop_back for pop_front).
insert_pop_back(b) ==
  IF Cardinality(nodes \cup {b}) <= capacity THEN Keep(b)
  ELSE [nodes |-> nodes, order |-> order]

insert(b) ==
  LET pushed == Append(order, b)
      turned == IF Head(pushed) = best THEN Append(Tail(pushed), best) ELSE pushed
      onlyBest == Head(pushed) = best /\ Len(turned) <= 1
  IN  IF Cardinality(nodes \cup {b}) <= capacity \/ onlyBest
        THEN [nodes |-> nodes \cup {b},
              order |-> IF onlyBest THEN turned ELSE pushed]
        ELSE [nodes |-> (nodes \cup {b}) \ {Head(turned)},
              order |-> Tail(turned)]

-----------------------------------------------------------------------------
(* common_ancestor.  The first loop walks the higher block down to the     *)
(* height of the lower and looks up every block on the way, the last       *)
(* included; the second looks up each pair it steps down from, and not the *)
(* block at which the two walks meet.                                      *)

Lower(a, b) == IF height(a) < height(b) THEN height(a) ELSE height(b)

\* The height at which the two walks meet.
Meeting(a, b) == Max({h \in 1 .. Lower(a, b) : chain[a][h] = chain[b][h]})

\* Flawed variant: the first loop walks only from a, so that a higher b is
\* never brought down.
common_ancestor_one_sided(window_nodes, a, b) ==
  IF /\ height(a) >= height(b)
     /\ \A x \in {a, b} : \A h \in (Meeting(a, b) + 1) .. height(x) : chain[x][h] \in window_nodes
    THEN chain[a][Meeting(a, b)] ELSE None

\* Flawed variant: only the first loop minds a missing block.
common_ancestor_lenient(window_nodes, a, b) ==
  IF \A x \in {a, b} : \A h \in Lower(a, b) .. height(x) : chain[x][h] \in window_nodes
    THEN chain[a][Meeting(a, b)] ELSE None

common_ancestor(window_nodes, a, b) ==
  LET Walked(x) ==
        /\ \A h \in Lower(a, b) .. height(x) : chain[x][h] \in window_nodes
        /\ \A h \in (Meeting(a, b) + 1) .. Lower(a, b) : chain[x][h] \in window_nodes
  IN  IF Walked(a) /\ Walked(b) THEN chain[a][Meeting(a, b)] ELSE None

-----------------------------------------------------------------------------
(* ingest, one disjunct per way out of it.                                 *)

Inserted(b) ==
  /\ nodes' = insert(b).nodes
  /\ order' = insert(b).order
  /\ recent' = IF Len(recent) + 1 < capacity THEN Append(recent, b)
               ELSE Tail(Append(recent, b))

Returned(b, kind, common, depth) ==
  last' = [tip |-> b, from |-> best, kind |-> kind,
           common |-> common, depth |-> depth]

IngestDuplicate(b) ==
  /\ b \in nodes
  /\ Returned(b, "Duplicate", None, None)
  /\ UNCHANGED <<nodes, order, best, panicked, recent>>

IngestGenesis(b) ==
  /\ b \notin nodes
  /\ Inserted(b)
  /\ best = None
  /\ best' = b
  /\ Returned(b, "Genesis", None, None)
  /\ UNCHANGED panicked

\* Flawed variant: a child of any block of the window is taken to extend the best.
IngestChild_any_parent(b) ==
  /\ b \notin nodes
  /\ Inserted(b)
  /\ best # None
  /\ previous_state_hash(b) \in nodes
  /\ best' = b
  /\ Returned(b, "Extend", None, None)
  /\ UNCHANGED panicked

IngestChild(b) ==
  /\ b \notin nodes
  /\ Inserted(b)
  /\ best # None
  /\ previous_state_hash(b) = best
  /\ best' = b
  /\ Returned(b, "Extend", None, None)
  /\ UNCHANGED panicked

\* Neither the first block nor a child of the best.
Competes(b) ==
  /\ b \notin nodes
  /\ best # None
  /\ previous_state_hash(b) # best

\* nodes.get(..).expect("best is in window"), .expect("just inserted")
BothInWindow(b) == {best, b} \subseteq insert(b).nodes

IngestPanic(b) ==
  /\ Competes(b)
  /\ ~BothInWindow(b)
  /\ Inserted(b)
  /\ panicked' = TRUE
  /\ UNCHANGED <<best, last>>

Divergence(b) == common_ancestor(insert(b).nodes, b, best)

\* Flawed variant: the operands of the subtraction are swapped.
RollbackDepth_swapped(b) ==
  IF Divergence(b) \in insert(b).nodes
    THEN height(Divergence(b)) - height(best) ELSE None

\* Flawed variant: the blocks of the new branch are counted.
RollbackDepth_new_branch(b) ==
  IF Divergence(b) \in insert(b).nodes
    THEN height(b) - height(Divergence(b)) ELSE None

RollbackDepth(b) ==
  IF Divergence(b) \in insert(b).nodes
    THEN IF height(best) >= height(Divergence(b))
           THEN height(best) - height(Divergence(b)) ELSE 0
    ELSE None

\* Flawed variant: any resolved ancestry counts as an extension.
IngestBetter_any_link(b) ==
  /\ Competes(b)
  /\ BothInWindow(b)
  /\ consensus_take(best, b)
  /\ Inserted(b)
  /\ best' = b
  /\ \/ Divergence(b) # None /\ Returned(b, "Extend", None, None)
     \/ Divergence(b) = None /\ Returned(b, "Reorg", None, None)
  /\ UNCHANGED panicked

\* Flawed variant: the better tip is reported and not adopted.
IngestBetter_keep_best(b) ==
  /\ Competes(b)
  /\ BothInWindow(b)
  /\ consensus_take(best, b)
  /\ Inserted(b)
  /\ Returned(b, "Reorg", Divergence(b), RollbackDepth(b))
  /\ UNCHANGED <<best, panicked>>

IngestBetter(b) ==
  /\ Competes(b)
  /\ BothInWindow(b)
  /\ consensus_take(best, b)
  /\ Inserted(b)
  /\ best' = b
  /\ \/ Divergence(b) = best /\ Returned(b, "Extend", None, None)
     \/ Divergence(b) # best /\ Returned(b, "Reorg", Divergence(b), RollbackDepth(b))
  /\ UNCHANGED panicked

IngestWorse(b) ==
  /\ Competes(b)
  /\ BothInWindow(b)
  /\ ~consensus_take(best, b)
  /\ Inserted(b)
  /\ \/ Divergence(b) = b /\ Returned(b, "Behind", None, None)
     \/ Divergence(b) \notin {b, None} /\ Returned(b, "Fork", Divergence(b), None)
     \/ Divergence(b) = None /\ Returned(b, "Unlinked", None, None)
  /\ UNCHANGED <<best, panicked>>

ingest(b) ==
  /\ ~panicked
  /\ seen' = seen \cup {b}
  /\ \/ IngestDuplicate(b)
     \/ IngestGenesis(b)
     \/ IngestChild(b)
     \/ IngestPanic(b)
     \/ IngestBetter(b)
     \/ IngestWorse(b)

Next == \E b \in Block : ingest(b)

Spec == Init /\ [][Next]_vars

\* ChainMonitor::best, and through it best_height.
best_hash == IF best \in nodes THEN best ELSE None

-----------------------------------------------------------------------------
(* Properties.                                                             *)

\* The shape of the monitor's state and of what ingest returned.  A depth is a
\* natural number although it comes from a subtraction.
TypeOK ==
  /\ nodes \subseteq Block
  /\ order \in Seq(Block)
  /\ best \in Block \cup {None}
  /\ last \in Calls \cup {None}
  /\ panicked \in BOOLEAN
  /\ seen \subseteq Block
  /\ recent \in Seq(Block)

\* s is a listing of S without repetition.
Lists(s, S) ==
  /\ S = {s[i] : i \in 1 .. Len(s)}
  /\ \A i, j \in 1 .. Len(s) : s[i] = s[j] => i = j

\* The eviction queue lists each block of the window exactly once: no block of
\* the HashMap is beyond the reach of insert's pop_front.
OrderTracksNodes == Lists(order, nodes)

\* The window never holds more than capacity blocks after an ingest.
WindowBounded == Cardinality(nodes) <= capacity

\* Map and queue of the window agree, and it stays within its bound.
WindowIsSound == OrderTracksNodes /\ WindowBounded

\* "the current best is never evicted": whatever is ingested, the best tip is
\* in the window, so best() and best_height() report it.
BestNeverEvicted == best # None => best_hash = best

\* The window is made of recent blocks: the last capacity - 1 blocks inserted
\* are all in it, although insert moves the best to the back of the queue,
\* where it outlives younger blocks once it is no longer the best.
RecentRetained == \A i \in 1 .. Len(recent) : recent[i] \in nodes

\* The expects in ingest never fail.
NeverPanics == ~panicked

\* Extend: the new best descends from the best it replaces.
ExtendIsDescendant ==
  last # None /\ last.kind = "Extend" =>
    /\ best = last.tip
    /\ last.from \in Ancestors(last.tip) \ {last.tip}

\* Reorg with a common ancestor: it is the lowest one in the block tree, the
\* old best is not on the new chain, and the depth, when given, is the number
\* of blocks of the old chain that are rolled back.
ReorgIsExact ==
  last # None /\ last.kind = "Reorg" /\ last.common # None =>
    /\ IsLowestCommonAncestor(last.common, last.tip, last.from)
    /\ last.common # last.from
    /\ last.depth # None =>
         last.depth = Cardinality(Ancestors(last.from) \ Ancestors(last.tip))

\* Fork: the tip is off the best chain and the ancestor is the lowest common one.
ForkIsExact ==
  last # None /\ last.kind = "Fork" =>
    /\ last.tip \notin Ancestors(best)
    /\ IsLowestCommonAncestor(last.common, last.tip, best)

\* Behind: the tip is already on the best chain, below the best.
BehindIsAncestor ==
  last # None /\ last.kind = "Behind" => last.tip \in Ancestors(best) \ {best}

\* What ingest reports of a tip holds in the block tree, whatever the window
\* has dropped: a consumer may act on each verdict.
VerdictsExact ==
  ExtendIsDescendant /\ ReorgIsExact /\ ForkIsExact /\ BehindIsAncestor

\* Ancestry is left unresolved (Unlinked, or a Reorg without ancestor) only if
\* a block of the fork is really missing from the window: the fork point, or a
\* block above it on either branch.
UnresolvedHasGap ==
  last # None /\ last.kind \in {"Unlinked", "Reorg"} /\ last.common = None =>
    \E x \in {last.tip, last.from} :
      \E h \in Meeting(last.tip, last.from) .. height(x) : chain[x][h] \notin nodes

\* "A divergence whose common ancestor has fallen out of the window is reported
\* as Unlinked rather than guessed at" (monitor.rs): the ancestor that a Reorg
\* or a Fork names, once ingested, is still in the window.
AncestorInWindow ==
  last # None /\ last.common \in seen => last.common \in nodes

\* "ancestry of a fork resolves from the window with no extra fetch": when the
\* ancestry is resolved, every block of the two branches above the fork point,
\* which a consumer has to roll back or apply, is in the window.
NoExtraFetch ==
  last # None /\ (last.kind \in {"Extend", "Behind"} \/ last.common # None) =>
    /\ Ancestors(last.tip) \ Ancestors(last.from) \subseteq nodes
    /\ Ancestors(last.from) \ Ancestors(last.tip) \subseteq nodes

\* A tip that lost once is never adopted again, even when it was evicted and
\* delivered a second time (it is then no Duplicate).  True in short range, where
\* BestIsCanonical implies it; across a long range the preference has cycles and
\* an old tip can win again.
NoReadoption == [][best' # best => best' \notin seen]_vars

\* The bounded window decides exactly as the unbounded comparison would.
Canon == INSTANCE CanonicalTip
ImplementsCanonicalTip == Canon!Spec

\* The best is the maximum of every tip ever ingested, evicted ones included.
BestIsCanonical == Canon!BestIsMaximum

\* The same for a window of one block, up to the panic that ends the run.
CanonicalUntilPanic == ~panicked => Canon!BestIsMaximum
=============================================================================
