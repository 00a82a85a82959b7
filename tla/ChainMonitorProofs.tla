------------------------- MODULE ChainMonitorProofs -------------------------
(***************************************************************************)
(* Proofs about ChainMonitor for every block tree, every fork choice input *)
(* and every window of at least two blocks.                                *)
(***************************************************************************)
EXTENDS ChainMonitor, ForkChoiceProofs, FiniteSetTheorems, SequenceTheorems, TLAPS

-----------------------------------------------------------------------------
(* Listings.                                                               *)

\* Appending a new element to a listing.
LEMMA ListsAppend ==
  ASSUME NEW S, NEW T, S \subseteq T, NEW s \in Seq(T), Lists(s, S),
         NEW e \in T, e \notin S
  PROVE  /\ Append(s, e) \in Seq(T)
         /\ Len(Append(s, e)) = Len(s) + 1
         /\ Lists(Append(s, e), S \cup {e})
<1> DEFINE r == Append(s, e)
<1>1. /\ r \in Seq(T) /\ Len(r) = Len(s) + 1 /\ Len(s) \in Nat
      /\ \A i \in 1 .. Len(s) : r[i] = s[i] /\ s[i] \in S
      /\ r[Len(s) + 1] = e
  BY DEF Lists
<1>2. S \cup {e} = {r[i] : i \in 1 .. Len(r)}
  <2>1. ASSUME NEW x \in S PROVE \E i \in 1 .. Len(r) : r[i] = x
    <3>1. PICK i \in 1 .. Len(s) : s[i] = x
      BY DEF Lists
    <3> QED
      BY <3>1, <1>1
  <2>2. \E i \in 1 .. Len(r) : r[i] = e
    BY <1>1
  <2>3. \A i \in 1 .. Len(r) : r[i] \in S \cup {e}
    BY <1>1
  <2> HIDE DEF r
  <2> QED
    BY <2>1, <2>2, <2>3
<1>3. \A i, j \in 1 .. Len(r) : r[i] = r[j] => i = j
  <2> SUFFICES ASSUME NEW i \in 1 .. Len(r), NEW j \in 1 .. Len(r), r[i] = r[j]
               PROVE  i = j
    OBVIOUS
  <2> HIDE DEF r
  <2> QED
    BY <1>1 DEF Lists
<1> QED
  BY <1>1, <1>2, <1>3 DEF Lists

\* Dropping the head of a listing.
LEMMA ListsTail ==
  ASSUME NEW S, NEW T, NEW s \in Seq(T), Lists(s, S), Len(s) >= 1
  PROVE  /\ Tail(s) \in Seq(T)
         /\ Len(Tail(s)) = Len(s) - 1
         /\ Head(s) = s[1]
         /\ Head(s) \in S
         /\ \A i \in 1 .. Len(s) - 1 : Tail(s)[i] = s[i + 1]
         /\ Lists(Tail(s), S \ {Head(s)})
<1> DEFINE r == Tail(s)
<1>1. /\ r \in Seq(T) /\ Len(r) = Len(s) - 1 /\ Len(s) \in Nat
      /\ Head(s) = s[1]
      /\ \A i \in 1 .. Len(s) - 1 : r[i] = s[i + 1]
  OBVIOUS
<1>2. Head(s) \in S
  BY <1>1 DEF Lists
<1>3. S \ {Head(s)} = {r[i] : i \in 1 .. Len(r)}
  <2>1. ASSUME NEW x \in S, x # Head(s) PROVE \E i \in 1 .. Len(r) : r[i] = x
    <3>1. PICK i \in 1 .. Len(s) : s[i] = x
      BY DEF Lists
    <3>2. i # 1 /\ i - 1 \in 1 .. Len(r) /\ r[i - 1] = x
      BY <3>1, <2>1, <1>1
    <3> QED
      BY <3>2
  <2>2. ASSUME NEW i \in 1 .. Len(r) PROVE r[i] \in S \ {Head(s)}
    <3>1. i + 1 \in 1 .. Len(s) /\ r[i] = s[i + 1] /\ 1 \in 1 .. Len(s) /\ i + 1 # 1
      BY <1>1
    <3> HIDE DEF r
    <3> QED
      BY <3>1, <1>1 DEF Lists
  <2> HIDE DEF r
  <2> QED
    BY <2>1, <2>2
<1>4. \A i, j \in 1 .. Len(r) : r[i] = r[j] => i = j
  <2> SUFFICES ASSUME NEW i \in 1 .. Len(r), NEW j \in 1 .. Len(r), r[i] = r[j]
               PROVE  i = j
    OBVIOUS
  <2>1. i + 1 \in 1 .. Len(s) /\ j + 1 \in 1 .. Len(s) /\ s[i + 1] = s[j + 1]
    BY <1>1
  <2> QED
    BY <2>1 DEF Lists
<1> QED
  BY <1>1, <1>2, <1>3, <1>4, Zenon DEF Lists
-----------------------------------------------------------------------------
(* common_ancestor.                                                        *)

\* A nonempty set of natural numbers up to n has a maximum.
LEMMA MaxOfBounded ==
  ASSUME NEW n \in Nat, NEW S, S \subseteq 1 .. n, S # {}
  PROVE  Max(S) \in S /\ \A y \in S : Max(S) >= y
<1> DEFINE T == {n - x : x \in S}
           R == {ss \in Nat \X Nat : ss[1] < ss[2]}
<1>1. T \subseteq Nat /\ T # {}
  <2>1. \A x \in S : n - x \in Nat
    OBVIOUS
  <2>2. PICK x \in S : TRUE
    BY Zenon
  <2>3. n - x \in T
    BY <2>2
  <2> QED
    BY <2>1, <2>3
<1>2. IsWellFoundedOn(R, Nat)
  BY NatLessThanWellFounded, Zenon DEF OpToRel
<1>3. PICK t \in T : \A u \in T : ~(<<u, t>> \in R)
  <2> HIDE DEF T, R
  <2> QED
    BY <1>1, <1>2, WFMin, Zenon
<1>4. PICK x \in S : t = n - x
  BY <1>3
<1>5. ASSUME NEW y \in S PROVE x >= y
  <2>1. n - y \in T /\ n - y \in Nat /\ t \in Nat
    BY <1>1
  <2>2. ~(n - y < t)
    BY <2>1, <1>3, Zenon
  <2> QED
    BY <2>1, <2>2, <1>4
<1> QED
  BY <1>4, <1>5, Zenon DEF Max

\* The chains of two blocks meet, at the latest in the genesis block.
LEMMA MeetingProperties ==
  ASSUME NEW a \in Block, NEW b \in Block
  PROVE  /\ Lower(a, b) \in Nat
         /\ Meeting(a, b) \in 1 .. Lower(a, b)
         /\ chain[a][Meeting(a, b)] = chain[b][Meeting(a, b)]
         /\ \A h \in 1 .. Lower(a, b) : chain[a][h] = chain[b][h] => h <= Meeting(a, b)
<1> DEFINE S == {h \in 1 .. Lower(a, b) : chain[a][h] = chain[b][h]}
<1>1. Lower(a, b) \in Nat /\ Lower(a, b) >= 1
  BY HeightType DEF Lower
<1>2. 1 \in S
  BY <1>1, ChainAssumption
<1>3. Max(S) \in S /\ \A y \in S : Max(S) >= y
  <2> S \subseteq 1 .. Lower(a, b)
    OBVIOUS
  <2> HIDE DEF S
  <2> QED
    BY <1>1, <1>2, MaxOfBounded, Zenon
<1>4. Meeting(a, b) = Max(S)
  BY DEF Meeting
<1>5. \A h \in 1 .. Lower(a, b) : chain[a][h] = chain[b][h] => Max(S) >= h /\ h \in Nat
  BY <1>3
<1>6. Max(S) \in 1 .. Lower(a, b) /\ chain[a][Max(S)] = chain[b][Max(S)]
  BY <1>3
<1> HIDE DEF S
<1> QED
  BY <1>1, <1>4, <1>5, <1>6

\* The blocks of a chain: typed, and found at their height.
LEMMA ChainProperties ==
  ASSUME NEW b \in Block
  PROVE  /\ height(b) \in Nat /\ height(b) >= 1
         /\ \A h \in 1 .. height(b) : chain[b][h] \in Block /\ height(chain[b][h]) = h
         /\ chain[b][height(b)] = b
         /\ b \in Ancestors(b)
<1>1. /\ height(b) \in Nat /\ height(b) >= 1
      /\ \A h \in 1 .. height(b) : chain[b][h] \in Block /\ height(chain[b][h]) = h
      /\ chain[b][height(b)] = b
  BY BlockAssumption, ChainAssumption, HeightType DEF height
<1> QED
  BY <1>1 DEF Ancestors

\* What common_ancestor returns, when it returns a block, is the lowest common
\* ancestor of its arguments in the block tree, whatever the window holds.
LEMMA CommonAncestorExact ==
  ASSUME NEW a \in Block, NEW b \in Block, NEW N,
         common_ancestor(N, a, b) # None
  PROVE  /\ common_ancestor(N, a, b) \in Block
         /\ IsLowestCommonAncestor(common_ancestor(N, a, b), a, b)
<1> DEFINE m == Meeting(a, b)
           c == chain[a][m]
<1>1. common_ancestor(N, a, b) = c
  BY DEF common_ancestor
<1>2. /\ m \in 1 .. height(a) /\ m \in 1 .. height(b) /\ c = chain[b][m]
      /\ c \in Block /\ height(c) = m
  BY MeetingProperties, ChainProperties DEF Lower
<1>3. c \in Ancestors(a) \cap Ancestors(b)
  BY <1>2 DEF Ancestors
<1>4. ASSUME NEW d \in Ancestors(a) \cap Ancestors(b)
      PROVE  height(d) <= height(c)
  <2>1. PICK h \in 1 .. height(a) : d = chain[a][h]
    BY DEF Ancestors
  <2>2. PICK k \in 1 .. height(b) : d = chain[b][k]
    BY DEF Ancestors
  <2>3. height(d) = h /\ height(d) = k
    BY <2>1, <2>2, ChainProperties, Zenon
  <2>4. h \in 1 .. Lower(a, b)
    BY <2>3, ChainProperties DEF Lower
  <2>5. h <= m
    BY <2>1, <2>2, <2>3, <2>4, MeetingProperties, Zenon
  <2> QED
    BY <2>3, <2>5, <1>2
<1> QED
  BY <1>1, <1>2, <1>3, <1>4 DEF IsLowestCommonAncestor

\* common_ancestor returns a block or None, as its Option<String> says.
LEMMA CommonAncestorType ==
  ASSUME NEW a \in Block, NEW b \in Block, NEW N
  PROVE  common_ancestor(N, a, b) \in Block \cup {None}
BY CommonAncestorExact
-----------------------------------------------------------------------------
(* insert, in a window of at least two blocks.                             *)

\* The window part of the inductive invariant: the queue lists the HashMap,
\* which is finite and within capacity, and the best is in it.
WindowInv ==
  /\ nodes \subseteq Block
  /\ order \in Seq(Block)
  /\ best \in Block \cup {None}
  /\ Lists(order, nodes)
  /\ IsFiniteSet(nodes)
  /\ Cardinality(nodes) = Len(order)
  /\ Len(order) <= capacity
  /\ best # None => best \in nodes

\* insert keeps the queue a listing of the map within capacity, and evicts
\* neither the best nor the block just inserted.
LEMMA InsertProperties ==
  ASSUME requested >= 2, WindowInv, NEW b \in Block, b \notin nodes
  PROVE  /\ insert(b).nodes \subseteq nodes \cup {b}
         /\ insert(b).order \in Seq(Block)
         /\ Lists(insert(b).order, insert(b).nodes)
         /\ IsFiniteSet(insert(b).nodes)
         /\ Cardinality(insert(b).nodes) = Len(insert(b).order)
         /\ Len(insert(b).order) <= capacity
         /\ b \in insert(b).nodes
         /\ best # None => best \in insert(b).nodes
<1> DEFINE pushed == Append(order, b)
           turned == IF Head(pushed) = best THEN Append(Tail(pushed), best) ELSE pushed
           n == Len(order)
<1>1. n \in Nat /\ capacity \in Nat /\ capacity >= 2 /\ b # None
  BY RequestedAssumption, BlockAssumption DEF capacity, WindowInv
<1>2. /\ IsFiniteSet(nodes \cup {b})
      /\ Cardinality(nodes \cup {b}) = n + 1
  BY FS_AddElement DEF WindowInv
<1>3. /\ pushed \in Seq(Block)
      /\ Len(pushed) = n + 1
      /\ Lists(pushed, nodes \cup {b})
      /\ \A i \in 1 .. n : pushed[i] = order[i]
      /\ pushed[n + 1] = b
  <2>1. nodes \subseteq Block /\ order \in Seq(Block) /\ Lists(order, nodes)
    BY DEF WindowInv
  <2>2. pushed \in Seq(Block) /\ Len(pushed) = n + 1 /\ Lists(pushed, nodes \cup {b})
    BY <2>1, ListsAppend
  <2> QED
    BY <2>1, <2>2
<1>4. /\ Tail(pushed) \in Seq(Block)
      /\ Len(Tail(pushed)) = n
      /\ Head(pushed) = pushed[1]
      /\ \A i \in 1 .. n : Tail(pushed)[i] = pushed[i + 1]
      /\ Lists(Tail(pushed), (nodes \cup {b}) \ {Head(pushed)})
  <2> HIDE DEF pushed
  <2> QED
    BY <1>1, <1>3, ListsTail
<1>5. best \notin {b}
  BY <1>1 DEF WindowInv
<1>6. /\ turned \in Seq(Block)
      /\ Len(turned) = n + 1
      /\ Lists(turned, nodes \cup {b})
  <2>1. CASE Head(pushed) = best
    <3>1. best \in Block /\ best \in nodes
      <4>1. Head(pushed) \in Block
        BY <1>1, <1>3, <1>4
      <4> QED
        BY <4>1, <2>1, BlockAssumption DEF WindowInv
    <3>2. ((nodes \cup {b}) \ {best}) \cup {best} = nodes \cup {b}
      BY <3>1
    <3>3. (nodes \cup {b}) \ {best} \subseteq Block
      BY DEF WindowInv
    <3> DEFINE S == (nodes \cup {b}) \ {best}
               t == Tail(pushed)
    <3>4. t \in Seq(Block) /\ Lists(t, S) /\ best \notin S /\ S \subseteq Block /\ Len(t) = n
      BY <1>4, <2>1, <3>3, Zenon
    <3>5. /\ Append(t, best) \in Seq(Block)
          /\ Len(Append(t, best)) = n + 1
          /\ Lists(Append(t, best), S \cup {best})
      <4> HIDE DEF t, S
      <4> QED
        BY <3>1, <3>4, ListsAppend
    <3>6. turned = Append(t, best)
      BY <2>1
    <3>7. S \cup {best} = nodes \cup {b}
      BY <3>2
    <3> HIDE DEF turned, t, S
    <3> QED
      BY <3>5, <3>6, <3>7, Zenon
  <2>2. CASE Head(pushed) # best
    BY <2>2, <1>3
  <2> QED
    BY <2>1, <2>2
<1>7. ~(Head(pushed) = best /\ Len(turned) <= 1)
  <2>1. CASE n = 0
    BY <2>1, <1>3, <1>4, <1>5
  <2>2. CASE n # 0
    BY <2>2, <1>1, <1>6
  <2> QED
    BY <2>1, <2>2
<1>8. CASE n + 1 <= capacity
  <2>1. insert(b) = [nodes |-> nodes \cup {b}, order |-> pushed]
    BY <1>2, <1>7, <1>8, Zenon DEF insert
  <2> HIDE DEF pushed
  <2> QED
    BY <2>1, <1>1, <1>2, <1>3, <1>8 DEF WindowInv
<1>9. CASE n + 1 > capacity
  <2> DEFINE v == Head(turned)
  <2>1. insert(b) = [nodes |-> (nodes \cup {b}) \ {v}, order |-> Tail(turned)]
    <3>1. ~(Cardinality(nodes \cup {b}) <= capacity)
      BY <1>1, <1>2, <1>9
    <3> QED
      BY <3>1, <1>7, Zenon DEF insert
  <2>2. /\ Tail(turned) \in Seq(Block)
        /\ Len(Tail(turned)) = n
        /\ v = turned[1]
        /\ v \in nodes \cup {b}
        /\ Lists(Tail(turned), (nodes \cup {b}) \ {v})
    <3> HIDE DEF turned, n
    <3>1. turned \in Seq(Block) /\ Lists(turned, nodes \cup {b}) /\ Len(turned) >= 1
      BY <1>1, <1>6
    <3>2. /\ Tail(turned) \in Seq(Block)
          /\ Len(Tail(turned)) = Len(turned) - 1
          /\ v = turned[1]
          /\ v \in nodes \cup {b}
          /\ Lists(Tail(turned), (nodes \cup {b}) \ {v})
      BY <3>1, ListsTail, Zenon
    <3> QED
      BY <3>2, <1>1, <1>6
  <2>3. /\ IsFiniteSet((nodes \cup {b}) \ {v})
        /\ Cardinality((nodes \cup {b}) \ {v}) = n
    <3>1. v \in nodes \cup {b}
      BY <2>2
    <3> DEFINE U == nodes \cup {b}
    <3>2. IsFiniteSet(U) /\ Cardinality(U) = n + 1 /\ v \in U
      BY <1>2, <3>1
    <3> HIDE DEF v, U, n
    <3>3. IsFiniteSet(U \ {v}) /\ Cardinality(U \ {v}) = Cardinality(U) - 1
      BY <3>2, FS_RemoveElement, Zenon
    <3> QED
      BY <1>1, <3>2, <3>3 DEF U
  <2>4. n >= 2 /\ n <= capacity
    BY <1>1, <1>9 DEF WindowInv
  <2>5. order[1] \in nodes /\ order[2] \in nodes /\ order[1] # order[2]
    BY <2>4, <1>1 DEF WindowInv, Lists
  <2>6. v # b /\ v # best
    <3>1. CASE Head(pushed) = best
      <4>1. turned[1] = order[2]
        <5>1. turned = Append(Tail(pushed), best)
          BY <3>1
        <5>2. Append(Tail(pushed), best)[1] = Tail(pushed)[1]
          <6> HIDE DEF pushed
          <6> QED
            BY <1>1, <1>4, <2>4
        <5>3. Tail(pushed)[1] = order[2]
          BY <1>1, <1>3, <1>4, <2>4
        <5> QED
          BY <5>1, <5>2, <5>3, Zenon
      <4>2. best = order[1]
        BY <3>1, <1>1, <1>3, <1>4, <2>4
      <4> HIDE DEF turned
      <4> QED
        BY <2>2, <2>5, <4>1, <4>2
    <3>2. CASE Head(pushed) # best
      <4>1. turned = pushed
        BY <3>2
      <4>2. Head(pushed) = v
        BY <4>1, Zenon
      <4>3. pushed[1] = order[1]
        BY <1>1, <2>4
      <4>4. v = order[1]
        <5> HIDE DEF v, turned, pushed
        <5> QED
          BY <2>2, <4>1, <4>3
      <4> HIDE DEF v, turned, pushed
      <4> QED
        BY <4>2, <4>4, <3>2, <2>5
    <3> QED
      BY <3>1, <3>2
  <2> HIDE DEF v, turned
  <2> QED
    BY <2>1, <2>2, <2>3, <2>4, <2>6 DEF WindowInv
<1> QED
  BY <1>1, <1>8, <1>9
-----------------------------------------------------------------------------
(* Type correctness, for every capacity.                                   *)

\* insert leaves a window and a queue of blocks.
LEMMA InsertType ==
  ASSUME TypeOK, NEW b \in Block
  PROVE  insert(b).nodes \subseteq Block /\ insert(b).order \in Seq(Block)
<1> DEFINE pushed == Append(order, b)
           turned == IF Head(pushed) = best THEN Append(Tail(pushed), best) ELSE pushed
<1>1. pushed \in Seq(Block) /\ Len(pushed) >= 1 /\ Head(pushed) \in Block
      /\ Tail(pushed) \in Seq(Block)
  BY DEF TypeOK
<1>2. turned \in Seq(Block) /\ Len(turned) >= 1
  <2>1. CASE Head(pushed) = best
    <3>1. turned = Append(Tail(pushed), best) /\ best \in Block
      BY <2>1, <1>1, SMTT(30)
    <3> HIDE DEF pushed, turned
    <3> QED
      BY <3>1, <1>1
  <2>2. CASE Head(pushed) # best
    BY <2>2, <1>1
  <2> QED
    BY <2>1, <2>2
<1>3. Tail(turned) \in Seq(Block)
  <2> HIDE DEF turned
  <2> QED
    BY <1>2
<1>4. insert(b).nodes \subseteq Block
  BY DEF insert, TypeOK
<1>5. insert(b).order \in {turned, pushed, Tail(turned)}
  BY Zenon DEF insert
<1> QED
  BY <1>1, <1>2, <1>3, <1>4, <1>5, Zenon

\* The part of the state every ingest of a fresh block changes.
LEMMA InsertedType ==
  ASSUME TypeOK, NEW b \in Block, Inserted(b)
  PROVE  nodes' \subseteq Block /\ order' \in Seq(Block) /\ recent' \in Seq(Block)
<1>1. Append(recent, b) \in Seq(Block) /\ Tail(Append(recent, b)) \in Seq(Block)
  <2>1. recent \in Seq(Block)
    BY DEF TypeOK
  <2> QED
    BY <2>1, AppendProperties, HeadTailProperties
<1> QED
  BY <1>1, InsertType DEF Inserted

\* What ingest returns is a member of Calls.
LEMMA ReturnedType ==
  ASSUME TypeOK, NEW b \in Block, NEW kind \in Kinds, NEW common \in Block \cup {None},
         NEW depth \in Nat \cup {None}, Returned(b, kind, common, depth)
  PROVE  last' \in Calls \cup {None}
BY DEF TypeOK, Returned, Calls

\* The divergence point and the rollback depth that ingest computes have
\* their types; the depth in particular is never negative.
LEMMA DivergenceType ==
  ASSUME TypeOK, NEW b \in Block, best # None
  PROVE  /\ Divergence(b) \in Block \cup {None}
         /\ RollbackDepth(b) \in Nat \cup {None}
<1>1. best \in Block
  BY DEF TypeOK
<1>2. Divergence(b) \in Block \cup {None}
  BY <1>1, CommonAncestorType DEF Divergence
<1>3. Divergence(b) \in insert(b).nodes => Divergence(b) \in Block
  BY InsertType
<1>4. RollbackDepth(b) \in Nat \cup {None}
  <2> HIDE DEF Divergence
  <2>1. height(best) \in Nat
    BY <1>1, HeightType
  <2>2. CASE Divergence(b) \in insert(b).nodes
    <3>1. height(Divergence(b)) \in Nat
      BY <2>2, <1>3, HeightType
    <3> QED
      BY <2>1, <2>2, <3>1 DEF RollbackDepth
  <2>3. CASE Divergence(b) \notin insert(b).nodes
    BY <2>3 DEF RollbackDepth
  <2> QED
    BY <2>2, <2>3
<1> QED
  BY <1>2, <1>4

\* Every call of ingest keeps the types.
LEMMA TypeStep ==
  ASSUME TypeOK, [Next]_vars
  PROVE  TypeOK'
<1>1. ASSUME NEW b \in Block, ingest(b)
      PROVE  TypeOK'
  <2>1. seen' \subseteq Block
    BY <1>1 DEF ingest, TypeOK
  <2>2. CASE IngestDuplicate(b)
    <3>1. last' \in Calls \cup {None}
      BY <2>2, ReturnedType, Zenon DEF IngestDuplicate, Kinds
    <3> QED
      BY <2>1, <2>2, <3>1 DEF IngestDuplicate, TypeOK
  <2>3. CASE IngestGenesis(b)
    <3>1. last' \in Calls \cup {None}
      BY <2>3, ReturnedType, Zenon DEF IngestGenesis, Kinds
    <3>2. nodes' \subseteq Block /\ order' \in Seq(Block) /\ recent' \in Seq(Block)
      BY <2>3, InsertedType DEF IngestGenesis
    <3> QED
      BY <2>1, <2>3, <3>1, <3>2 DEF IngestGenesis, TypeOK
  <2>4. CASE IngestChild(b)
    <3>1. last' \in Calls \cup {None}
      BY <2>4, ReturnedType, Zenon DEF IngestChild, Kinds
    <3>2. nodes' \subseteq Block /\ order' \in Seq(Block) /\ recent' \in Seq(Block)
      BY <2>4, InsertedType DEF IngestChild
    <3> QED
      BY <2>1, <2>4, <3>1, <3>2 DEF IngestChild, TypeOK
  <2>5. CASE IngestPanic(b)
    <3>1. nodes' \subseteq Block /\ order' \in Seq(Block) /\ recent' \in Seq(Block)
      BY <2>5, InsertedType DEF IngestPanic
    <3> QED
      BY <2>1, <2>5, <3>1 DEF IngestPanic, TypeOK
  <2>6. CASE IngestBetter(b)
    <3>1. best # None
      BY <2>6 DEF IngestBetter, Competes
    <3>2. last' \in Calls \cup {None}
      BY <2>6, <3>1, ReturnedType, DivergenceType, Zenon DEF IngestBetter, Kinds
    <3>3. nodes' \subseteq Block /\ order' \in Seq(Block) /\ recent' \in Seq(Block)
      BY <2>6, InsertedType DEF IngestBetter
    <3> QED
      BY <2>1, <2>6, <3>2, <3>3 DEF IngestBetter, TypeOK
  <2>7. CASE IngestWorse(b)
    <3>1. best # None
      BY <2>7 DEF IngestWorse, Competes
    <3>2. last' \in Calls \cup {None}
      BY <2>7, <3>1, ReturnedType, DivergenceType, Zenon DEF IngestWorse, Kinds
    <3>3. nodes' \subseteq Block /\ order' \in Seq(Block) /\ recent' \in Seq(Block)
      BY <2>7, InsertedType DEF IngestWorse
    <3> QED
      BY <2>1, <2>7, <3>2, <3>3 DEF IngestWorse, TypeOK
  <2> QED
    BY <1>1, <2>2, <2>3, <2>4, <2>5, <2>6, <2>7 DEF ingest
<1>2. CASE UNCHANGED vars
  BY <1>2 DEF vars, TypeOK
<1> QED
  BY <1>1, <1>2 DEF Next

\* The monitor's state and everything ingest returns keep their types, for
\* every block tree and every requested capacity: common_ancestor finds a block
\* or nothing, and the depth of a Reorg is a natural number.
THEOREM TypeCorrect == Spec => []TypeOK
<1>1. Init => TypeOK
  <2>1. <<>> \in Seq(Block)
    OBVIOUS
  <2> QED
    BY <2>1, Zenon DEF Init, TypeOK
<1>2. TypeOK /\ [Next]_vars => TypeOK'
  BY TypeStep
<1> QED
  BY <1>1, <1>2, PTL DEF Spec
-----------------------------------------------------------------------------
(* The inductive invariant of a window of at least two blocks.             *)

\* NeverPanics is part of it because ingest goes on only while it holds, and
\* the window is a part of the history because a Duplicate has been seen.
IInv ==
  /\ TypeOK
  /\ WindowInv
  /\ NeverPanics
  /\ nodes \subseteq seen
  /\ best = None => seen = {}

\* After a fresh insertion the window part holds again, for the old best and
\* for the block inserted alike.
LEMMA WindowStep ==
  ASSUME requested >= 2, WindowInv, NEW b \in Block, b \notin nodes, Inserted(b),
         best' = best \/ best' = b
  PROVE  WindowInv'
BY InsertProperties DEF Inserted, WindowInv, capacity

\* The expects of ingest: both blocks compared are in the window.
LEMMA ExpectsHold ==
  ASSUME requested >= 2, WindowInv, NEW b \in Block, Competes(b)
  PROVE  BothInWindow(b)
BY InsertProperties DEF Competes, BothInWindow

\* Every call of ingest keeps the window consistent and the best in it.
LEMMA IInvStep ==
  ASSUME requested >= 2, IInv, [Next]_vars
  PROVE  IInv'
<1>1. TypeOK'
  BY TypeStep DEF IInv
<1>2. ASSUME NEW b \in Block, ingest(b)
      PROVE  WindowInv' /\ NeverPanics' /\ (nodes \subseteq seen /\ (best = None => seen = {}))'
  <2>1. /\ WindowInv /\ NeverPanics /\ nodes \subseteq seen
        /\ best = None => seen = {}
        /\ seen' = seen \cup {b}
        /\ b # None
    BY <1>2, BlockAssumption DEF IInv, ingest
  <2>2. CASE IngestDuplicate(b)
    <3>1. WindowInv'
      BY <2>1, <2>2 DEF IngestDuplicate, WindowInv, capacity
    <3> QED
      BY <2>1, <2>2, <3>1 DEF IngestDuplicate, NeverPanics
  <2>3. CASE /\ b \notin nodes /\ Inserted(b) /\ panicked' = panicked
             /\ best' \in {best, b} /\ best' # None
    <3>1. WindowInv'
      BY <2>1, <2>3, WindowStep
    <3>2. nodes' \subseteq nodes \cup {b}
      BY <2>1, <2>3, InsertProperties DEF Inserted
    <3> QED
      BY <2>1, <2>3, <3>1, <3>2 DEF NeverPanics
  <2>4. ~IngestPanic(b)
    BY <2>1, ExpectsHold DEF IngestPanic
  <2> QED
    BY <1>2, <2>1, <2>2, <2>3, <2>4
       DEF ingest, IngestGenesis, IngestChild, IngestBetter, IngestWorse, Competes
<1>3. ASSUME UNCHANGED vars
      PROVE  WindowInv' /\ NeverPanics' /\ (nodes \subseteq seen /\ (best = None => seen = {}))'
  BY <1>3 DEF vars, IInv, WindowInv, capacity, NeverPanics
<1>4. WindowInv' /\ NeverPanics' /\ (nodes \subseteq seen /\ (best = None => seen = {}))'
  BY <1>2, <1>3 DEF Next, IInv
<1> QED
  BY <1>1, <1>4 DEF IInv

\* A monitor just made satisfies the invariant.
LEMMA IInvInit ==
  ASSUME Init
  PROVE  IInv
<1>1. TypeOK
  <2>1. <<>> \in Seq(Block)
    OBVIOUS
  <2> QED
    BY <2>1, Zenon DEF Init, TypeOK
<1>2. IsFiniteSet(nodes) /\ Cardinality(nodes) = Len(order) /\ Len(order) <= capacity
  BY FS_EmptySet, RequestedAssumption DEF Init, capacity
<1>3. Lists(order, nodes)
  BY DEF Init, Lists
<1> QED
  BY <1>1, <1>2, <1>3 DEF Init, IInv, WindowInv, NeverPanics, TypeOK

\* With a capacity of two or more, the window of every reachable monitor lists
\* its blocks once, is within its bound and holds the best.
THEOREM InductiveInvariant ==
  ASSUME requested >= 2
  PROVE  Spec => []IInv
<1>1. Init => IInv
  BY IInvInit
<1>2. IInv /\ [Next]_vars => IInv'
  BY IInvStep
<1> QED
  BY <1>1, <1>2, PTL DEF Spec

\* In a window of at least two blocks the best is never evicted, so best() and
\* best_height() answer as soon as a block has been ingested, and no expect fails.
THEOREM WindowSafety ==
  ASSUME requested >= 2
  PROVE  Spec => [](BestNeverEvicted /\ NeverPanics)
<1>1. IInv => BestNeverEvicted /\ NeverPanics
  BY DEF IInv, WindowInv, BestNeverEvicted, best_hash
<1> QED
  BY <1>1, InductiveInvariant, PTL

\* In such a window the eviction queue lists the blocks of the map, each once, and
\* there are never more than capacity of them.
THEOREM WindowStaysSound ==
  ASSUME requested >= 2
  PROVE  Spec => []WindowIsSound
<1>1. IInv => WindowIsSound
  BY DEF IInv, WindowInv, WindowIsSound, WindowBounded, OrderTracksNodes
<1> QED
  BY <1>1, InductiveInvariant, PTL

-----------------------------------------------------------------------------
(* How recent the window is.                                               *)

\* The queue o is the recent keys r with one older key before the p-th of them.
OlderAt(o, r, p) ==
  /\ Len(o) = Len(r) + 1
  /\ \A i \in 1 .. p - 1 : o[i] = r[i]
  /\ \A i \in p .. Len(r) : o[i + 1] = r[i]

\* The queue o holds the recent keys r in the order of their insertion, all keys
\* as long as fewer than c were inserted, and afterwards exactly one key more.
\* That key is the one insert spared as the best or the next to go; it is never
\* further back than right behind the best.
Merged(c, o, r, best_key) ==
  \/ Len(r) < c /\ Len(o) = Len(r) /\ \A i \in 1 .. Len(r) : o[i] = r[i]
  \/ /\ Len(r) = c - 1
     /\ \E p \in 1 .. c :
          /\ OlderAt(o, r, p)
          /\ \A j \in 1 .. p - 1 : r[j] = best_key => p = j + 1

\* The blocks of the window, by age.
RecentInv == Merged(capacity, order, recent, best)

\* The queue o2 that insert makes of o: it appends b and, when there are c keys
\* already, evicts the first or, when that is the best, moves it to the back and
\* evicts the second.
Pushed(c, o, o2, b, best_key) ==
  /\ Len(o) < c =>
       /\ Len(o2) = Len(o) + 1
       /\ \A i \in 1 .. Len(o) : o2[i] = o[i]
       /\ o2[Len(o) + 1] = b
  /\ Len(o) = c /\ o[1] # best_key =>
       /\ Len(o2) = c
       /\ \A i \in 1 .. c - 1 : o2[i] = o[i + 1]
       /\ o2[c] = b
  /\ Len(o) = c /\ o[1] = best_key =>
       /\ Len(o2) = c
       /\ \A i \in 1 .. c - 2 : o2[i] = o[i + 2]
       /\ o2[c - 1] = b
       /\ o2[c] = best_key

\* insert does that to the queue.
LEMMA InsertOrder ==
  ASSUME requested >= 2, WindowInv, NEW b \in Block, b \notin nodes
  PROVE  Pushed(capacity, order, insert(b).order, b, best)
<1> DEFINE pushed == Append(order, b)
           turned == IF Head(pushed) = best THEN Append(Tail(pushed), best) ELSE pushed
           n == Len(order)
           o == insert(b).order
<1>1. /\ n \in Nat /\ capacity \in Nat /\ capacity >= 2 /\ n <= capacity
      /\ order \in Seq(Block)
  BY RequestedAssumption DEF capacity, WindowInv
<1>2. Cardinality(nodes \cup {b}) = n + 1
  BY FS_AddElement, Zenon DEF WindowInv
<1>3. /\ pushed \in Seq(Block) /\ Len(pushed) = n + 1
      /\ \A i \in 1 .. n : pushed[i] = order[i]
      /\ pushed[n + 1] = b
      /\ Head(pushed) = pushed[1]
      /\ Tail(pushed) \in Seq(Block) /\ Len(Tail(pushed)) = n
      /\ \A i \in 1 .. n : Tail(pushed)[i] = pushed[i + 1]
  <2>1. /\ pushed \in Seq(Block) /\ Len(pushed) = n + 1
        /\ \A i \in 1 .. n : pushed[i] = order[i]
        /\ pushed[n + 1] = b
    BY <1>1
  <2> HIDE DEF pushed
  <2>2. pushed # <<>>
    BY <1>1, <2>1
  <2>3. Head(pushed) = pushed[1] /\ Tail(pushed) \in Seq(Block) /\ Len(Tail(pushed)) = n
    BY <1>1, <2>1, <2>2
  <2>4. \A i \in 1 .. n : Tail(pushed)[i] = pushed[i + 1]
    BY <1>1, <2>1, <2>2
  <2> QED
    BY <2>1, <2>3, <2>4
<1>4. CASE n < capacity
  <2>1. ~(Head(pushed) = best /\ Len(turned) <= 1)
    <3>1. CASE n = 0
      <4>1. best # b
        BY BlockAssumption DEF WindowInv
      <4> QED
        BY <3>1, <4>1, <1>3
    <3>2. CASE n # 0 /\ Head(pushed) = best
      <4>1. best \in Block
        BY <1>1, <1>3, <3>2
      <4>2. turned = Append(Tail(pushed), best)
        BY <3>2, SMTT(30)
      <4> HIDE DEF pushed, turned
      <4> QED
        BY <4>1, <4>2, <3>2, <1>1, <1>3
    <3> QED
      BY <3>1, <3>2
  <2>2. o = pushed
    BY <1>1, <1>2, <1>4, <2>1 DEF insert
  <2>3. n # capacity
    BY <1>1, <1>4
  <2>4. /\ Len(o) = n + 1
        /\ \A i \in 1 .. n : o[i] = order[i]
        /\ o[n + 1] = b
    <3> HIDE DEF pushed, o
    <3> QED
      BY <2>2, <1>3
  <2> QED
    BY <2>3, <2>4, Zenon DEF Pushed
<1>5. CASE n = capacity /\ order[1] # best
  <2>1. Head(pushed) # best
    BY <1>1, <1>3, <1>5
  <2>2. ~(Cardinality(nodes \cup {b}) <= capacity)
    BY <1>1, <1>2, <1>5
  <2>3. o = Tail(pushed)
    BY <2>1, <2>2, Zenon DEF insert
  <2> HIDE DEF pushed, o
  <2>4. /\ Len(o) = n
        /\ \A i \in 1 .. n - 1 : o[i] = order[i + 1]
        /\ o[n] = b
    BY <2>3, <1>1, <1>3, <1>5
  <2>5. ~(n < capacity)
    BY <1>1, <1>5
  <2>6. /\ Len(o) = capacity
        /\ \A i \in 1 .. capacity - 1 : o[i] = order[i + 1]
        /\ o[capacity] = b
    BY <2>4, <1>5
  <2> QED
    BY <2>5, <2>6, <1>5, Zenon DEF Pushed, o
<1>6. CASE n = capacity /\ order[1] = best
  <2>1. Head(pushed) = best /\ best \in Block
    BY <1>1, <1>3, <1>6
  <2>2. ~(Cardinality(nodes \cup {b}) <= capacity)
    BY <1>1, <1>2, <1>6
  <2>3. turned = Append(Tail(pushed), best)
    BY <2>1
  <2>4. /\ Len(turned) = n + 1 /\ turned \in Seq(Block)
        /\ \A i \in 1 .. n : turned[i] = pushed[i + 1]
        /\ turned[n + 1] = best
    <3> HIDE DEF pushed, turned
    <3> QED
      BY <2>1, <2>3, <1>1, <1>3
  <2>5. o = Tail(turned)
    <3>1. ~(Len(turned) <= 1)
      <4> HIDE DEF turned
      <4> QED
        BY <2>4, <1>1, <1>6
    <3> QED
      BY <2>2, <3>1, Zenon DEF insert
  <2> HIDE DEF pushed, turned, o
  <2>6. Len(o) = n /\ \A i \in 1 .. n : o[i] = turned[i + 1]
    BY <2>4, <2>5, <1>1
  <2>7. /\ \A i \in 1 .. n - 2 : o[i] = order[i + 2]
        /\ o[n - 1] = b
        /\ o[n] = best
    <3>1. ASSUME NEW i \in 1 .. n - 2 PROVE o[i] = order[i + 2]
      <4>1. i + 1 \in 1 .. n /\ i + 2 \in 1 .. n /\ i \in 1 .. n
        BY <1>1
      <4>2. o[i] = turned[i + 1] /\ turned[i + 1] = pushed[(i + 1) + 1] /\ (i + 1) + 1 = i + 2
        BY <4>1, <2>4, <2>6
      <4> QED
        BY <4>1, <4>2, <1>3
    <3>2. o[n - 1] = b
      <4>1. n - 1 \in 1 .. n /\ n \in 1 .. n /\ (n - 1) + 1 = n
        BY <1>1, <1>6
      <4> QED
        BY <4>1, <2>4, <2>6, <1>3
    <3>3. o[n] = best
      BY <1>1, <1>6, <2>4, <2>6
    <3> QED
      BY <3>1, <3>2, <3>3
  <2>8. ~(n < capacity)
    BY <1>1, <1>6
  <2>9. /\ Len(o) = capacity
        /\ \A i \in 1 .. capacity - 2 : o[i] = order[i + 2]
        /\ o[capacity - 1] = b
        /\ o[capacity] = best
    BY <2>6, <2>7, <1>6
  <2> QED
    BY <2>8, <2>9, <1>6, Zenon DEF Pushed, o
<1>7. n < capacity \/ n = capacity
  BY <1>1
<1> QED
  BY <1>4, <1>5, <1>6, <1>7, Zenon

\* One insertion into a window whose queue is merged as said.  c is the capacity,
\* o and r the queue and the recent keys before it, o2 and r2 after it, x and y
\* the best before and after.
LEMMA MergedStep ==
  ASSUME NEW c \in Nat, c >= 2, NEW T,
         NEW o \in Seq(T), NEW r \in Seq(T), NEW o2 \in Seq(T), NEW r2 \in Seq(T),
         NEW x, NEW y, NEW b,
         \A i, j \in 1 .. Len(o) : o[i] = o[j] => i = j,
         \A i \in 1 .. Len(o) : o[i] # b,
         x # b, y \in {x, b},
         Merged(c, o, r, x),
         Pushed(c, o, o2, b, x),
         Len(r) + 1 < c =>
           /\ Len(r2) = Len(r) + 1
           /\ \A i \in 1 .. Len(r) : r2[i] = r[i]
           /\ r2[Len(r) + 1] = b,
         Len(r) + 1 = c =>
           /\ Len(r2) = c - 1
           /\ \A i \in 1 .. c - 2 : r2[i] = r[i + 1]
           /\ r2[c - 1] = b
  PROVE  Merged(c, o2, r2, y)
<1>0. Len(o) \in Nat /\ Len(r) \in Nat /\ Len(o2) \in Nat /\ Len(r2) \in Nat
  OBVIOUS
<1>1. CASE Len(r) < c /\ Len(o) = Len(r) /\ \A i \in 1 .. Len(r) : o[i] = r[i]
  <2>1. CASE Len(r) + 1 < c
    <3>1. Len(r2) < c /\ Len(o2) = Len(r2) /\ \A i \in 1 .. Len(r2) : o2[i] = r2[i]
      BY <1>0, <1>1, <2>1 DEF Pushed
    <3> QED
      BY <3>1 DEF Merged
  <2>2. CASE Len(r) + 1 = c
    <3>1. Len(o) < c /\ Len(r) = c - 1 /\ Len(o2) = c /\ Len(r2) = c - 1
      BY <1>0, <1>1, <2>2 DEF Pushed
    <3>2. \A i \in 1 .. Len(r2) : o2[i + 1] = r2[i]
      <4> SUFFICES ASSUME NEW i \in 1 .. Len(r2) PROVE o2[i + 1] = r2[i]
        OBVIOUS
      <4>1. CASE i = c - 1
        BY <1>0, <1>1, <2>2, <3>1, <4>1 DEF Pushed
      <4>2. CASE i \in 1 .. c - 2
        <5>1. i + 1 \in 1 .. Len(o) /\ i + 1 \in 1 .. Len(r)
          BY <1>1, <3>1, <4>2
        <5> QED
          BY <1>1, <2>2, <3>1, <4>2, <5>1 DEF Pushed
      <4> QED
        BY <3>1, <4>1, <4>2
    <3>3. OlderAt(o2, r2, 1)
      BY <3>1, <3>2 DEF OlderAt
    <3>4. 1 \in 1 .. c /\ \A j \in 1 .. 1 - 1 : r2[j] = y => 1 = j + 1
      OBVIOUS
    <3> QED
      BY <3>1, <3>3, <3>4 DEF Merged
  <2> QED
    BY <1>0, <1>1, <2>1, <2>2
<1>2. ASSUME Len(r) = c - 1, NEW p \in 1 .. c, OlderAt(o, r, p),
             \A j \in 1 .. p - 1 : r[j] = x => p = j + 1
      PROVE  Merged(c, o2, r2, y)
  <2>1. /\ Len(o) = c /\ Len(o2) = c /\ Len(r2) = c - 1
        /\ \A i \in 1 .. c - 2 : r2[i] = r[i + 1]
        /\ r2[c - 1] = b
        /\ \A i \in 1 .. p - 1 : o[i] = r[i]
        /\ \A i \in p .. c - 1 : o[i + 1] = r[i]
    BY <1>0, <1>2 DEF OlderAt, Pushed
  <2>2. \A i \in 1 .. c - 2 : r2[i] # b
    <3> SUFFICES ASSUME NEW i \in 1 .. c - 2 PROVE r[i + 1] # b
      BY <2>1
    <3>1. i + 1 \in 1 .. c /\ i + 2 \in 1 .. c
      OBVIOUS
    <3>2. CASE i + 1 \in 1 .. p - 1
      BY <2>1, <3>1, <3>2
    <3>3. CASE i + 1 \in p .. c - 1
      <4>1. o[(i + 1) + 1] = r[i + 1] /\ (i + 1) + 1 = i + 2
        BY <2>1, <3>3
      <4> QED
        BY <2>1, <3>1, <4>1
    <3> QED
      BY <3>2, <3>3
  \* The condition on the best, for a new place q of the older key.
  <2>3. ASSUME NEW q \in 1 .. c, OlderAt(o2, r2, q),
               \A j \in 1 .. c - 2 : (j < q /\ r2[j] = x) => q = j + 1
        PROVE  Merged(c, o2, r2, y)
    <3>1. ASSUME NEW j \in 1 .. q - 1, r2[j] = y PROVE q = j + 1
      <4>1. CASE j = c - 1
        BY <4>1
      <4>2. CASE j \in 1 .. c - 2
        <5>1. y = x
          BY <2>2, <3>1, <4>2
        <5> QED
          BY <5>1, <2>3, <3>1, <4>2
      <4> QED
        BY <4>1, <4>2
    <3> QED
      BY <2>1, <2>3, <3>1 DEF Merged
  <2>4. CASE o[1] # x
    <3>1. /\ \A i \in 1 .. c - 1 : o2[i] = o[i + 1]
          /\ o2[c] = b
      BY <2>1, <2>4 DEF Pushed
    <3>2. CASE p = 1
      <4>1. ASSUME NEW i \in 1 .. c - 1 PROVE o2[i + 1] = r2[i]
        <5>1. CASE i = c - 1
          BY <5>1, <3>1, <2>1
        <5>2. CASE i \in 1 .. c - 2
          <6>1. i + 1 \in 1 .. c - 1 /\ i + 1 \in p .. c - 1
            BY <5>2, <3>2
          <6> QED
            BY <6>1, <5>2, <3>1, <2>1
        <5> QED
          BY <5>1, <5>2
      <4>2. OlderAt(o2, r2, 1)
        BY <4>1, <2>1 DEF OlderAt
      <4>3. \A j \in 1 .. c - 2 : (j < 1 /\ r2[j] = x) => 1 = j + 1
        OBVIOUS
      <4>4. 1 \in 1 .. c
        OBVIOUS
      <4> QED
        BY <4>2, <4>3, <4>4, <2>3, SMTT(30)
    <3>3. CASE p > 1
      <4>1. ASSUME NEW i \in 1 .. p - 2 PROVE o2[i] = r2[i]
        <5>1. i \in 1 .. c - 1 /\ i \in 1 .. c - 2 /\ i + 1 \in 1 .. p - 1
          OBVIOUS
        <5> QED
          BY <5>1, <3>1, <2>1
      <4>2. ASSUME NEW i \in p - 1 .. c - 1 PROVE o2[i + 1] = r2[i]
        <5>1. CASE i = c - 1
          BY <5>1, <3>1, <2>1
        <5>2. CASE i \in p - 1 .. c - 2
          <6>1. i \in 1 .. c - 2 /\ i + 1 \in 1 .. c - 1 /\ i + 1 \in p .. c - 1
            BY <5>2, <3>3
          <6> QED
            BY <6>1, <3>1, <2>1
        <5>3. i = c - 1 \/ i \in p - 1 .. c - 2
          BY <3>3
        <5> QED
          BY <5>1, <5>2, <5>3, Zenon
      <4>3. p - 1 \in 1 .. c /\ (p - 1) - 1 = p - 2
        BY <3>3
      <4>4. OlderAt(o2, r2, p - 1)
        BY <4>1, <4>2, <4>3, <2>1 DEF OlderAt
      <4>5. ASSUME NEW j \in 1 .. c - 2, j < p - 1, r2[j] = x PROVE p - 1 = j + 1
        <5>1. j + 1 \in 1 .. p - 1 /\ r[j + 1] = x
          BY <4>5, <2>1
        <5>2. p = (j + 1) + 1
          BY <5>1, <1>2
        <5> QED
          BY <5>2
      <4> QED
        BY <4>3, <4>4, <4>5, <2>3
    <3> QED
      BY <3>2, <3>3
  <2>5. CASE o[1] = x
    <3>1. /\ \A i \in 1 .. c - 2 : o2[i] = o[i + 2]
          /\ o2[c - 1] = b
          /\ o2[c] = x
      BY <2>1, <2>5 DEF Pushed
    <3>2. p = 1 \/ p = 2
      <4>1. CASE p > 1
        <5>1. 1 \in 1 .. p - 1 /\ r[1] = x
          BY <4>1, <2>1, <2>5
        <5> QED
          BY <5>1, <1>2
      <4> QED
        BY <4>1
    <3>3. ASSUME NEW i \in 1 .. c - 2 PROVE o2[i] = r2[i] /\ r2[i] = o[i + 2]
      <4>1. i + 1 \in p .. c - 1 /\ (i + 1) + 1 = i + 2
        BY <3>2
      <4>2. o[(i + 1) + 1] = r[i + 1]
        BY <4>1, <2>1
      <4> QED
        BY <4>1, <4>2, <3>1, <2>1
    <3>4. OlderAt(o2, r2, c)
      <4>1. ASSUME NEW i \in 1 .. c - 1 PROVE o2[i] = r2[i]
        <5>1. CASE i = c - 1
          BY <5>1, <3>1, <2>1
        <5>2. CASE i \in 1 .. c - 2
          BY <5>2, <3>3
        <5>3. i = c - 1 \/ i \in 1 .. c - 2
          OBVIOUS
        <5> QED
          BY <5>1, <5>2, <5>3, Zenon
      <4> QED
        BY <4>1, <2>1 DEF OlderAt
    <3>5. \A j \in 1 .. c - 2 : r2[j] # x
      <4> SUFFICES ASSUME NEW j \in 1 .. c - 2, r2[j] = x PROVE FALSE
        OBVIOUS
      <4>1. o[j + 2] = o[1]
        BY <3>3, <2>5
      <4>2. Len(o) = c
        BY <2>1, Zenon
      <4>3. j + 2 \in 1 .. Len(o) /\ 1 \in 1 .. Len(o)
        BY <4>2
      <4>4. j + 2 = 1
        BY <4>1, <4>3
      <4> QED
        BY <4>4
    <3> QED
      BY <3>4, <3>5, <2>3
  <2> QED
    BY <2>4, <2>5
<1> QED
  BY <1>1, <1>2 DEF Merged

\* A fresh insertion keeps the window's blocks in the order of their age.
LEMMA RecentInsert ==
  ASSUME requested >= 2, TypeOK, WindowInv, RecentInv, NEW b \in Block, b \notin nodes,
         Inserted(b), best' \in {best, b}
  PROVE  RecentInv'
<1> DEFINE c == capacity
<1>1. c \in Nat /\ c >= 2 /\ c' = c
  BY RequestedAssumption DEF capacity
<1>2. /\ order \in Seq(Block) /\ recent \in Seq(Block)
      /\ order' \in Seq(Block) /\ recent' \in Seq(Block)
  BY InsertedType DEF TypeOK
<1>3. /\ \A i, j \in 1 .. Len(order) : order[i] = order[j] => i = j
      /\ \A i \in 1 .. Len(order) : order[i] # b
  BY DEF WindowInv, Lists
<1>4. best # b
  BY BlockAssumption DEF WindowInv
<1>5. Pushed(c, order, order', b, best)
  BY InsertOrder DEF Inserted
<1>6. Len(recent) + 1 < c =>
        /\ Len(recent') = Len(recent) + 1
        /\ \A i \in 1 .. Len(recent) : recent'[i] = recent[i]
        /\ recent'[Len(recent) + 1] = b
  <2> SUFFICES ASSUME Len(recent) + 1 < c
               PROVE  /\ Len(recent') = Len(recent) + 1
                      /\ \A i \in 1 .. Len(recent) : recent'[i] = recent[i]
                      /\ recent'[Len(recent) + 1] = b
    OBVIOUS
  <2>1. recent' = Append(recent, b)
    BY DEF Inserted
  <2> QED
    BY <1>2, <2>1
<1>7. Len(recent) + 1 = c =>
        /\ Len(recent') = c - 1
        /\ \A i \in 1 .. c - 2 : recent'[i] = recent[i + 1]
        /\ recent'[c - 1] = b
  <2> SUFFICES ASSUME Len(recent) + 1 = c
               PROVE  /\ Len(recent') = c - 1
                      /\ \A i \in 1 .. c - 2 : recent'[i] = recent[i + 1]
                      /\ recent'[c - 1] = b
    OBVIOUS
  <2> DEFINE q == Append(recent, b)
  <2>1. recent' = Tail(q)
    BY <1>1 DEF Inserted
  <2>2. /\ q \in Seq(Block) /\ Len(q) = c
        /\ \A i \in 1 .. c - 1 : q[i] = recent[i]
        /\ q[c] = b
    BY <1>1, <1>2
  <2> HIDE DEF q, c
  <2>3. Len(Tail(q)) = c - 1 /\ \A i \in 1 .. c - 1 : Tail(q)[i] = q[i + 1]
    BY <1>1, <2>2
  <2>4. \A i \in 1 .. c - 2 : i \in 1 .. c - 1 /\ i + 1 \in 1 .. c - 1
    BY <1>1
  <2>5. c - 1 \in 1 .. c - 1 /\ (c - 1) + 1 = c
    BY <1>1
  <2> QED
    BY <2>1, <2>2, <2>3, <2>4, <2>5, Zenon
<1>8. Merged(c, order, recent, best)
  BY DEF RecentInv
<1>9. RecentInv' <=> Merged(c, order', recent', best')
  BY <1>1 DEF RecentInv
<1> HIDE DEF c
<1>10. Merged(c, order', recent', best')
  BY <1>1, <1>2, <1>3, <1>4, <1>5, <1>6, <1>7, <1>8, MergedStep, SMTT(30)
<1> QED
  BY <1>9, <1>10

\* Every call of ingest keeps them so.
LEMMA RecentStep ==
  ASSUME requested >= 2, IInv, RecentInv, [Next]_vars
  PROVE  RecentInv'
<1>1. CASE UNCHANGED <<order, best, recent>>
  BY <1>1 DEF RecentInv, capacity
<1>2. ASSUME NEW b \in Block, ingest(b)
      PROVE  RecentInv'
  <2>1. TypeOK /\ WindowInv
    BY DEF IInv
  <2>2. CASE IngestDuplicate(b)
    BY <2>2, <1>1 DEF IngestDuplicate
  <2>3. CASE b \notin nodes /\ Inserted(b) /\ best' \in {best, b}
    BY <2>1, <2>3, RecentInsert
  <2> QED
    BY <1>2, <2>2, <2>3
       DEF ingest, IngestGenesis, IngestChild, IngestPanic, IngestBetter, IngestWorse, Competes
<1> QED
  BY <1>1, <1>2 DEF Next, vars

\* Blocks merged into the queue are in the window.
LEMMA RecentInWindow ==
  ASSUME requested >= 2, IInv, RecentInv
  PROVE  RecentRetained
<1> SUFFICES ASSUME NEW i \in 1 .. Len(recent)
             PROVE  recent[i] \in nodes
  BY DEF RecentRetained
<1>1. /\ Len(order) \in Nat /\ Len(recent) \in Nat /\ capacity \in Nat
      /\ nodes = {order[k] : k \in 1 .. Len(order)}
  BY RequestedAssumption DEF IInv, TypeOK, WindowInv, Lists, capacity
<1>2. \E k \in 1 .. Len(order) : order[k] = recent[i]
  <2>1. CASE Len(order) = Len(recent) /\ \A k \in 1 .. Len(recent) : order[k] = recent[k]
    BY <2>1
  <2>2. ASSUME NEW p \in 1 .. capacity, OlderAt(order, recent, p)
        PROVE  \E k \in 1 .. Len(order) : order[k] = recent[i]
    <3>1. CASE i < p
      <4>1. i \in 1 .. Len(order) /\ order[i] = recent[i]
        BY <3>1, <2>2, <1>1 DEF OlderAt
      <4> QED
        BY <4>1
    <3>2. CASE i >= p
      <4>1. i + 1 \in 1 .. Len(order) /\ order[i + 1] = recent[i]
        BY <3>2, <2>2, <1>1 DEF OlderAt
      <4> QED
        BY <4>1
    <3> QED
      BY <1>1, <3>1, <3>2
  <2> QED
    BY <2>1, <2>2 DEF RecentInv, Merged
<1> QED
  BY <1>1, <1>2

\* In a window of at least two blocks the queue holds, in the order of their
\* insertion, the last capacity - 1 blocks inserted and at most one older block,
\* although insert moves the best to the back of the queue.
THEOREM WindowIsRecent ==
  ASSUME requested >= 2
  PROVE  Spec => []RecentInv
<1>1. Init => RecentInv
  BY RequestedAssumption DEF Init, RecentInv, Merged, capacity
<1>2. IInv /\ RecentInv /\ [Next]_vars => RecentInv'
  BY RecentStep
<1> QED
  BY <1>1, <1>2, InductiveInvariant, PTL DEF Spec

\* The last capacity - 1 blocks inserted are all in the window, for every
\* capacity: a window of one block promises none.
THEOREM RecentBlocksRetained == Spec => []RecentRetained
<1>1. CASE requested >= 2
  <2>1. IInv /\ RecentInv => RecentRetained
    BY <1>1, RecentInWindow
  <2> QED
    BY <1>1, <2>1, InductiveInvariant, WindowIsRecent, PTL
<1>2. CASE ~(requested >= 2)
  <2>1. capacity = 1
    BY <1>2, RequestedAssumption DEF capacity
  <2>2. Init => recent = <<>>
    BY DEF Init
  <2>3. recent = <<>> /\ [Next]_vars => (recent = <<>>)'
    <3> SUFFICES ASSUME recent = <<>>, [Next]_vars
                 PROVE  recent' = <<>>
      OBVIOUS
    <3>1. ASSUME NEW b \in Block, Inserted(b) PROVE recent' = <<>>
      <4>1. recent' = Tail(Append(<<>>, b))
        BY <2>1, <3>1 DEF Inserted
      <4> QED
        BY <4>1
    <3> QED
      BY <3>1 DEF Next, vars, ingest, IngestDuplicate, IngestGenesis, IngestChild,
                  IngestPanic, IngestBetter, IngestWorse
  <2>4. recent = <<>> => RecentRetained
    BY DEF RecentRetained
  <2> QED
    BY <2>2, <2>3, <2>4, PTL DEF Spec
<1> QED
  BY <1>1, <1>2

-----------------------------------------------------------------------------
(* The abstract monitor.                                                   *)

\* Canon's fork choice is the monitor's.
LEMMA CanonTake ==
  ASSUME NEW a, NEW b
  PROVE  Canon!consensus_take(a, b) <=> consensus_take(a, b)
BY DEF Canon!consensus_take, Canon!is_short_range_fork, Canon!Longer, Canon!height,
       consensus_take, is_short_range_fork, Longer, height

\* The state of the running comparison is well typed, and a best is known as
\* soon as a tip has been offered.
THEOREM CanonicalTipType == Canon!Spec => []Canon!TypeOK
<1>1. Canon!Init => Canon!TypeOK
  BY DEF Canon!Init, Canon!TypeOK
<1>2. Canon!TypeOK /\ [Canon!Next]_<<seen, best>> => Canon!TypeOK'
  <2> SUFFICES ASSUME Canon!TypeOK, [Canon!Next]_<<seen, best>>
               PROVE  Canon!TypeOK'
    OBVIOUS
  <2>1. ASSUME NEW b \in Block, Canon!Offer(b)
        PROVE  Canon!TypeOK'
    BY <2>1, BlockAssumption DEF Canon!TypeOK, Canon!Offer
  <2>2. ASSUME NEW b \in Block, Canon!Ignore(b)
        PROVE  Canon!TypeOK'
    BY <2>2 DEF Canon!TypeOK, Canon!Ignore
  <2>3. CASE UNCHANGED <<seen, best>>
    BY <2>3 DEF Canon!TypeOK
  <2> QED
    BY <2>1, <2>2, <2>3 DEF Canon!Next
<1> QED
  BY <1>1, <1>2, PTL DEF Canon!Spec

\* Offering one more tip to a maximum gives the maximum of all.
LEMMA MaximumStep ==
  ASSUME AllShortRange, Canon!BestIsMaximum, [Canon!Next]_<<seen, best>>,
         seen \subseteq Block, best \in Block \cup {None}, best = None => seen = {}
  PROVE  Canon!BestIsMaximum'
<1>1. ASSUME NEW b \in Block, Canon!Offer(b)
      PROVE  Canon!BestIsMaximum'
  <2>1. CASE best = None
    BY <1>1, <2>1 DEF Canon!Offer, Canon!BestIsMaximum
  <2>2. CASE best # None
    BY <1>1, <2>2, RunningMaximum, CanonTake DEF Canon!Offer, Canon!BestIsMaximum
  <2> QED
    BY <2>1, <2>2
<1>2. CASE UNCHANGED <<seen, best>>
  BY <1>2 DEF Canon!BestIsMaximum
<1> QED
  BY <1>1, <1>2 DEF Canon!Next, Canon!Ignore

\* Within short range the best is the maximum of all tips offered, in whatever
\* order they were offered and however often.
THEOREM CanonicalTipMaximum ==
  ASSUME AllShortRange
  PROVE  Canon!Spec => []Canon!BestIsMaximum
<1>1. Canon!Init => Canon!BestIsMaximum
  BY DEF Canon!Init, Canon!BestIsMaximum
<1>2. Canon!TypeOK /\ Canon!BestIsMaximum /\ [Canon!Next]_<<seen, best>>
      => Canon!BestIsMaximum'
  BY MaximumStep DEF Canon!TypeOK
<1> QED
  BY <1>1, <1>2, CanonicalTipType, PTL DEF Canon!Spec

-----------------------------------------------------------------------------
(* Refinement.                                                             *)

\* What the comparison of tips rests on, for every capacity: the window is part
\* of the history, and a best is known as soon as a tip was ingested.
SeenInv ==
  /\ TypeOK
  /\ nodes \subseteq seen
  /\ best = None => seen = {}

\* Every call of ingest keeps it, one that panics included.
LEMMA SeenStep ==
  ASSUME SeenInv, [Next]_vars
  PROVE  SeenInv'
<1>1. TypeOK'
  BY TypeStep DEF SeenInv
<1>2. ASSUME NEW b \in Block, ingest(b)
      PROVE  (nodes \subseteq seen)' /\ (best = None => seen = {})'
  <2>1. /\ nodes \subseteq seen
        /\ best = None => seen = {}
        /\ seen' = seen \cup {b} /\ b # None
    BY <1>2, BlockAssumption DEF SeenInv, ingest
  <2>2. insert(b).nodes \subseteq nodes \cup {b}
    BY DEF insert
  <2>3. CASE IngestDuplicate(b)
    BY <2>1, <2>3 DEF IngestDuplicate
  <2>4. CASE Inserted(b) /\ best' \in {best, b} /\ best' # None
    BY <2>1, <2>2, <2>4 DEF Inserted
  <2> QED
    BY <1>2, <2>1, <2>3, <2>4
       DEF ingest, IngestGenesis, IngestChild, IngestPanic, IngestBetter, IngestWorse, Competes
<1>3. ASSUME UNCHANGED vars
      PROVE  (nodes \subseteq seen)' /\ (best = None => seen = {})'
  BY <1>3 DEF vars, SeenInv
<1> QED
  BY <1>1, <1>2, <1>3 DEF Next, SeenInv

\* Each way out of ingest but the panic is an Offer or an Ignore of the abstract
\* monitor, whatever the capacity.
LEMMA StepUntilPanic ==
  ASSUME ChildPreferred, SeenInv, [Next]_vars, ~panicked'
  PROVE  [Canon!Next]_<<seen, best>>
<1>1. ASSUME NEW b \in Block, ingest(b)
      PROVE  Canon!Offer(b) \/ Canon!Ignore(b)
  <2>1. seen' = seen \cup {b}
    BY <1>1 DEF ingest
  <2>2. CASE IngestDuplicate(b)
    BY <2>1, <2>2 DEF IngestDuplicate, SeenInv, Canon!Ignore
  <2>3. CASE IngestGenesis(b)
    BY <2>1, <2>3 DEF IngestGenesis, Canon!Offer
  <2>4. CASE IngestChild(b)
    <3>1. height(b) > 1
      BY <2>4, HeightType DEF IngestChild, previous_state_hash
    <3>2. consensus_take(best, b)
      BY <2>4, <3>1 DEF IngestChild, ChildPreferred
    <3> QED
      BY <2>1, <2>4, <3>2, CanonTake DEF IngestChild, Canon!Offer
  <2>5. ~IngestPanic(b)
    BY DEF IngestPanic
  <2>6. CASE IngestBetter(b)
    BY <2>1, <2>6, CanonTake DEF IngestBetter, Competes, Canon!Offer
  <2>7. CASE IngestWorse(b)
    BY <2>1, <2>7, CanonTake DEF IngestWorse, Competes, Canon!Offer
  <2> QED
    BY <1>1, <2>2, <2>3, <2>4, <2>5, <2>6, <2>7 DEF ingest
<1>2. CASE UNCHANGED vars
  BY <1>2 DEF vars
<1> QED
  BY <1>1, <1>2 DEF Next, Canon!Next

\* With a capacity of two or more there is no panic to wait for.
LEMMA RefinementStep ==
  ASSUME requested >= 2, ChildPreferred, IInv, [Next]_vars
  PROVE  [Canon!Next]_<<seen, best>>
BY IInvStep, StepUntilPanic DEF IInv, SeenInv, NeverPanics

\* A window of at least two blocks decides as the comparison against all blocks
\* would, if a child is always preferred to its parent: evictions, rotations and
\* repeated deliveries leave no trace in the choice of the best.
THEOREM Refinement ==
  ASSUME requested >= 2, ChildPreferred
  PROVE  Spec => ImplementsCanonicalTip
<1>1. Init => Canon!Init
  BY DEF Init, Canon!Init
<1>2. IInv /\ [Next]_vars => [Canon!Next]_<<seen, best>>
  BY RefinementStep
<1> QED
  BY <1>1, <1>2, InductiveInvariant, PTL DEF Spec, ImplementsCanonicalTip, Canon!Spec

\* Within short range a child is longer than its parent and so preferred.
LEMMA ShortRangeChildPreferred ==
  ASSUME AllShortRange
  PROVE  ChildPreferred
<1> SUFFICES ASSUME NEW b \in Block, height(b) > 1
             PROVE  consensus_take(previous_state_hash(b), b)
  BY DEF ChildPreferred
<1>1. previous_state_hash(b) \in Block /\ height(previous_state_hash(b)) = height(b) - 1
  BY ChainProperties DEF previous_state_hash
<1>2. height(b) \in Nat
  BY ChainProperties
<1> QED
  BY <1>1, <1>2 DEF AllShortRange, consensus_take, Longer

\* On a live network every call of ingest keeps the best the maximum of what
\* was given.
LEMMA CanonicalStep ==
  ASSUME requested >= 2, AllShortRange, IInv, BestIsCanonical, [Next]_vars
  PROVE  BestIsCanonical'
<1>1. [Canon!Next]_<<seen, best>>
  BY RefinementStep, ShortRangeChildPreferred
<1> QED
  BY <1>1, MaximumStep DEF IInv, TypeOK, BestIsCanonical

\* On a live network the best tip of the monitor is the maximum, under fork
\* choice, of every tip it was ever given: it depends neither on the order of
\* the tips nor on the size of the window.
THEOREM CanonicalBest ==
  ASSUME requested >= 2, AllShortRange
  PROVE  Spec => []BestIsCanonical
<1>1. Init => BestIsCanonical
  BY DEF Init, BestIsCanonical, Canon!BestIsMaximum
<1>2. IInv /\ BestIsCanonical /\ [Next]_vars => BestIsCanonical'
  BY CanonicalStep
<1> QED
  BY <1>1, <1>2, InductiveInvariant, PTL DEF Spec

\* The same for every capacity, up to the panic that may end a run with a window
\* of one block: losing the best to eviction never makes a worse tip the best.
THEOREM CanonicalBeforePanic ==
  ASSUME AllShortRange
  PROVE  Spec => []CanonicalUntilPanic
<1>1. Init => SeenInv /\ CanonicalUntilPanic
  <2>1. Init => SeenInv
    BY IInvInit DEF IInv, SeenInv
  <2>2. Init => CanonicalUntilPanic
    BY DEF Init, CanonicalUntilPanic, Canon!BestIsMaximum
  <2> QED
    BY <2>1, <2>2
<1>2. SeenInv /\ CanonicalUntilPanic /\ [Next]_vars => SeenInv' /\ CanonicalUntilPanic'
  <2> SUFFICES ASSUME SeenInv, CanonicalUntilPanic, [Next]_vars
               PROVE  CanonicalUntilPanic'
    BY SeenStep
  <2> SUFFICES ASSUME ~panicked'
               PROVE  Canon!BestIsMaximum'
    BY DEF CanonicalUntilPanic
  <2>1. ~panicked
    BY DEF Next, ingest, vars
  <2>2. [Canon!Next]_<<seen, best>>
    BY StepUntilPanic, ShortRangeChildPreferred
  <2> QED
    BY <2>1, <2>2, MaximumStep DEF CanonicalUntilPanic, SeenInv, TypeOK
<1> QED
  BY <1>1, <1>2, PTL DEF Spec

\* On a live network a tip that lost is never adopted later, even when the
\* window has forgotten it and takes it for a new block.
THEOREM NeverReadopts ==
  ASSUME requested >= 2, AllShortRange
  PROVE  Spec => NoReadoption
<1>1. IInv /\ BestIsCanonical /\ [Next]_vars => [best' # best => best' \notin seen]_vars
  <2> SUFFICES ASSUME IInv, BestIsCanonical, [Next]_vars, best' # best, best' \in seen
               PROVE  FALSE
    OBVIOUS
  <2>1. [Canon!Next]_<<seen, best>>
    BY RefinementStep, ShortRangeChildPreferred
  <2>2. PICK b \in Block : Canon!Offer(b)
    BY <2>1 DEF Canon!Next, Canon!Ignore
  <2>3. best # None /\ best \in Block /\ best' = b /\ consensus_take(best, b)
    BY <2>2, CanonTake DEF Canon!Offer, IInv, TypeOK
  <2>4. consensus_take(b, best)
    BY <2>3, CanonTake DEF BestIsCanonical, Canon!BestIsMaximum
  <2> QED
    BY <2>3, <2>4, TakeAsymmetric
<1> QED
  BY <1>1, InductiveInvariant, CanonicalBest, PTL DEF Spec, NoReadoption

-----------------------------------------------------------------------------
(* The verdicts.                                                           *)

\* The blocks of chain a that are not on chain b are those above the lowest
\* common ancestor.
LEMMA RollbackCount ==
  ASSUME NEW a \in Block, NEW b \in Block, NEW c, IsLowestCommonAncestor(c, a, b)
  PROVE  /\ height(a) >= height(c)
         /\ Cardinality(Ancestors(a) \ Ancestors(b)) = height(a) - height(c)
<1>1. PICK hc \in 1 .. height(a) : c = chain[a][hc]
  BY DEF IsLowestCommonAncestor, Ancestors
<1>2. height(a) \in Nat /\ height(c) = hc /\ c \in Block
  BY <1>1, ChainProperties
<1>3. ASSUME NEW h \in 1 .. height(a)
      PROVE  chain[a][h] \in Ancestors(b) <=> h <= hc
  <2>1. ASSUME chain[a][h] \in Ancestors(b) PROVE h <= hc
    <3>1. chain[a][h] \in Ancestors(a) \cap Ancestors(b) /\ height(chain[a][h]) = h
      BY <2>1, ChainProperties DEF Ancestors
    <3> QED
      BY <3>1, <1>2 DEF IsLowestCommonAncestor
  <2>2. ASSUME h <= hc PROVE chain[a][h] \in Ancestors(b)
    <3>1. PICK k \in 1 .. height(b) : c = chain[b][k]
      BY DEF IsLowestCommonAncestor, Ancestors
    <3>2. k = hc
      BY <3>1, <1>2, ChainProperties
    <3>3. height(b) \in Nat /\ h \in 1 .. hc /\ h \in 1 .. height(b)
      BY <2>2, <3>2, ChainProperties
    <3>4. chain[c][h] = chain[a][h]
      BY <1>1, <3>3, ChainAssumption DEF height
    <3>5. chain[c][h] = chain[b][h]
      BY <3>1, <3>2, <3>3, ChainAssumption DEF height
    <3> QED
      BY <3>3, <3>4, <3>5 DEF Ancestors
  <2> QED
    BY <2>1, <2>2
<1> DEFINE D == Ancestors(a) \ Ancestors(b)
           n == height(a) - hc
           f == [i \in 1 .. n |-> chain[a][hc + i]]
<1>4. n \in Nat
  BY <1>2
<1>5. f \in Bijection(1 .. n, D)
  <2>1. f \in [1 .. n -> D]
    BY <1>2, <1>3 DEF Ancestors
  <2>2. \A i, j \in 1 .. n : f[i] = f[j] => i = j
    BY <1>2, ChainProperties
  <2>3. \A d \in D : \E i \in 1 .. n : f[i] = d
    <3> SUFFICES ASSUME NEW d \in D PROVE \E i \in 1 .. n : f[i] = d
      OBVIOUS
    <3>1. PICK h \in 1 .. height(a) : d = chain[a][h]
      BY DEF Ancestors
    <3>2. h > hc
      BY <3>1, <1>3, <1>2
    <3>3. h - hc \in 1 .. n /\ f[h - hc] = d
      BY <3>1, <3>2, <1>2
    <3> QED
      BY <3>3
  <2> HIDE DEF f, D, n
  <2> QED
    BY <2>1, <2>2, <2>3 DEF Bijection, Injection, IsInjective, Surjection
<1>6. Cardinality(D) = n
  <2> HIDE DEF D, n, f
  <2>1. ExistsBijection(1 .. n, D)
    BY <1>5 DEF ExistsBijection
  <2> QED
    BY <1>4, <2>1, FS_CountingElements
<1> QED
  BY <1>1, <1>2, <1>6

\* The facts about a fresh ingest the verdicts are read from.
LEMMA DivergenceExact ==
  ASSUME TypeOK, NEW b \in Block, best # None, Divergence(b) # None
  PROVE  /\ best \in Block
         /\ IsLowestCommonAncestor(Divergence(b), b, best)
         /\ IsLowestCommonAncestor(Divergence(b), best, b)
         /\ Divergence(b) \in Ancestors(b) \cap Ancestors(best)
<1>1. best \in Block
  BY DEF TypeOK
<1>2. IsLowestCommonAncestor(Divergence(b), b, best)
  BY <1>1, CommonAncestorExact DEF Divergence
<1> QED
  BY <1>1, <1>2 DEF IsLowestCommonAncestor

\* Every call of ingest returns an exact verdict.
LEMMA VerdictStep ==
  ASSUME requested >= 2, IInv, NEW b \in Block, ingest(b)
  PROVE  VerdictsExact'
<1> USE DEF VerdictsExact
<1>1. TypeOK /\ WindowInv /\ (best # None => best \in Block)
  BY DEF IInv, TypeOK
<1>2. CASE IngestDuplicate(b)
  BY <1>2 DEF IngestDuplicate, Returned, ExtendIsDescendant, ReorgIsExact, ForkIsExact,
              BehindIsAncestor
<1>3. CASE IngestGenesis(b)
  BY <1>3 DEF IngestGenesis, Returned, ExtendIsDescendant, ReorgIsExact, ForkIsExact,
              BehindIsAncestor
<1>4. CASE IngestChild(b)
  <2>1. best \in Ancestors(b) \ {b}
    BY <1>4, ChainProperties DEF IngestChild, previous_state_hash, Ancestors
  <2> QED
    BY <1>4, <2>1 DEF IngestChild, Returned, ExtendIsDescendant, ReorgIsExact, ForkIsExact,
                      BehindIsAncestor
<1>5. ~IngestPanic(b)
  BY <1>1, ExpectsHold DEF IngestPanic
<1>6. CASE IngestBetter(b)
  <2>1. best # None /\ best \in Block /\ best # b
    BY <1>6, <1>1 DEF IngestBetter, Competes, WindowInv
  <2>2. CASE Divergence(b) = best
    <3>1. best \in Ancestors(b) \ {b}
      BY <1>1, <2>1, <2>2, DivergenceExact, SMTT(30)
    <3>2. last' = [tip |-> b, from |-> best, kind |-> "Extend", common |-> None, depth |-> None]
      BY <1>6, <2>2 DEF IngestBetter, Returned
    <3> QED
      BY <1>6, <3>1, <3>2 DEF IngestBetter, ExtendIsDescendant, ReorgIsExact, ForkIsExact,
                              BehindIsAncestor
  <2>3. CASE Divergence(b) # best
    <3>1. last' = [tip |-> b, from |-> best, kind |-> "Reorg",
                   common |-> Divergence(b), depth |-> RollbackDepth(b)]
      BY <1>6, <2>3 DEF IngestBetter, Returned
    <3>2. ASSUME Divergence(b) # None, RollbackDepth(b) # None
          PROVE  RollbackDepth(b) = Cardinality(Ancestors(best) \ Ancestors(b))
      <4>1. /\ height(best) >= height(Divergence(b))
            /\ Cardinality(Ancestors(best) \ Ancestors(b)) = height(best) - height(Divergence(b))
        BY <1>1, <2>1, <3>2, DivergenceExact, RollbackCount
      <4> QED
        BY <3>2, <4>1 DEF RollbackDepth
    <3>3. Divergence(b) # None => IsLowestCommonAncestor(Divergence(b), b, best)
      BY <1>1, <2>1, DivergenceExact
    <3>4. ReorgIsExact'
      BY <2>3, <3>1, <3>2, <3>3 DEF ReorgIsExact
    <3> QED
      BY <3>1, <3>4, SMTT(30) DEF ExtendIsDescendant, ForkIsExact, BehindIsAncestor
  <2> QED
    BY <2>2, <2>3
<1>7. CASE IngestWorse(b)
  <2>1. best # None /\ best \in Block /\ best # b /\ best' = best
    BY <1>7, <1>1 DEF IngestWorse, Competes, WindowInv
  <2>2. CASE Divergence(b) = b
    <3>1. b \in Ancestors(best) \ {best}
      BY <1>1, <2>1, <2>2, DivergenceExact, BlockAssumption, SMTT(30)
    <3>2. last' = [tip |-> b, from |-> best, kind |-> "Behind", common |-> None, depth |-> None]
      BY <1>7, <2>2, BlockAssumption DEF IngestWorse, Returned
    <3> QED
      BY <2>1, <3>1, <3>2 DEF ExtendIsDescendant, ReorgIsExact, ForkIsExact, BehindIsAncestor
  <2>3. CASE Divergence(b) \notin {b, None}
    <3> DEFINE c == Divergence(b)
    <3>1. /\ IsLowestCommonAncestor(c, b, best)
          /\ c \in Ancestors(b)
      BY <1>1, <2>1, <2>3, DivergenceExact
    <3>2. b \notin Ancestors(best)
      <4> SUFFICES ASSUME b \in Ancestors(best) PROVE FALSE
        OBVIOUS
      <4>1. PICK h \in 1 .. height(b) : c = chain[b][h]
        BY <3>1 DEF Ancestors
      <4>2. height(c) = h /\ height(b) \in Nat
        BY <4>1, ChainProperties
      <4>3. height(b) <= height(c)
        BY <3>1, ChainProperties DEF IsLowestCommonAncestor
      <4>4. c = b
        BY <4>1, <4>2, <4>3, ChainProperties
      <4> QED
        BY <4>4, <2>3
    <3>3. last' = [tip |-> b, from |-> best, kind |-> "Fork", common |-> c, depth |-> None]
      BY <1>7, <2>3 DEF IngestWorse, Returned
    <3> HIDE DEF c
    <3> QED
      BY <2>1, <3>1, <3>2, <3>3 DEF ExtendIsDescendant, ReorgIsExact, ForkIsExact,
                                    BehindIsAncestor
  <2>4. CASE Divergence(b) = None
    <3>1. last' = [tip |-> b, from |-> best, kind |-> "Unlinked", common |-> None, depth |-> None]
      BY <1>7, <2>4, BlockAssumption DEF IngestWorse, Returned
    <3> QED
      BY <3>1 DEF ExtendIsDescendant, ReorgIsExact, ForkIsExact, BehindIsAncestor
  <2> QED
    BY <2>2, <2>3, <2>4
<1> QED
  BY <1>2, <1>3, <1>4, <1>5, <1>6, <1>7, SMTT(30) DEF ingest

\* Whatever the block tree, the fork choice and the history of the window: an
\* Extend is a descendant, a Behind an ancestor of the best, a reported common
\* ancestor is the lowest one, and a reported depth counts the blocks rolled back.
THEOREM VerdictsAreExact ==
  ASSUME requested >= 2
  PROVE  Spec => []VerdictsExact
<1>1. Init => VerdictsExact
  BY DEF Init, VerdictsExact, ExtendIsDescendant, ReorgIsExact, ForkIsExact, BehindIsAncestor
<1>2. IInv /\ VerdictsExact /\ [Next]_vars => VerdictsExact'
  <2> SUFFICES ASSUME IInv, VerdictsExact, [Next]_vars
               PROVE  VerdictsExact'
    OBVIOUS
  <2>1. CASE UNCHANGED vars
    BY <2>1 DEF vars, VerdictsExact, ExtendIsDescendant, ReorgIsExact, ForkIsExact,
                BehindIsAncestor
  <2> QED
    BY <2>1, VerdictStep DEF Next
<1> QED
  BY <1>1, <1>2, InductiveInvariant, PTL DEF Spec

\* Two chains agree up to their lowest common ancestor, so when common_ancestor
\* finds it, the blocks on one chain only are those it walked through.
LEMMA ResolvedInWindow ==
  ASSUME NEW a \in Block, NEW b \in Block, NEW N,
         common_ancestor(N, a, b) # None
  PROVE  /\ Ancestors(a) \ Ancestors(b) \subseteq N
         /\ Ancestors(b) \ Ancestors(a) \subseteq N
<1> DEFINE m == Meeting(a, b)
           l == Lower(a, b)
           c == chain[a][m]
<1>1. /\ m \in 1 .. l /\ c = chain[b][m]
      /\ l \in Nat /\ l <= height(a) /\ l <= height(b)
      /\ height(a) \in Nat /\ height(b) \in Nat
  BY MeetingProperties, ChainProperties DEF Lower
<1>2. /\ \A h \in l .. height(a) : chain[a][h] \in N
      /\ \A h \in (m + 1) .. l : chain[a][h] \in N
      /\ \A h \in l .. height(b) : chain[b][h] \in N
      /\ \A h \in (m + 1) .. l : chain[b][h] \in N
  BY DEF common_ancestor
<1>3. \A h \in 1 .. m : chain[a][h] = chain[b][h]
  <2>1. m \in 1 .. height(a) /\ m \in 1 .. height(b)
    BY <1>1, SMTT(30)
  <2>2. \A h \in 1 .. m : chain[c][h] = chain[a][h] /\ chain[c][h] = chain[b][h]
    BY <1>1, <2>1, ChainAssumption, SMTT(30) DEF height
  <2> QED
    BY <2>2
<1> HIDE DEF m, l, c
<1>4. ASSUME NEW d \in Ancestors(a) \ Ancestors(b) PROVE d \in N
  <2>1. PICK h \in 1 .. height(a) : d = chain[a][h]
    BY DEF Ancestors
  <2>2. h > m
    BY <1>1, <1>3, <2>1 DEF Ancestors
  <2> QED
    BY <1>1, <1>2, <2>1, <2>2
<1>5. ASSUME NEW d \in Ancestors(b) \ Ancestors(a) PROVE d \in N
  <2>1. PICK h \in 1 .. height(b) : d = chain[b][h]
    BY DEF Ancestors
  <2>2. h > m
    BY <1>1, <1>3, <2>1 DEF Ancestors
  <2> QED
    BY <1>1, <1>2, <2>1, <2>2
<1> QED
  BY <1>4, <1>5, SMTT(30)

\* A child's chain is its parent's with the child on top.
LEMMA ChildAncestors ==
  ASSUME NEW a \in Block, NEW b \in Block, previous_state_hash(b) = a
  PROVE  /\ Ancestors(a) \subseteq Ancestors(b)
         /\ Ancestors(b) \ Ancestors(a) \subseteq {b}
<1> DEFINE k == height(b) - 1
<1>1. height(b) \in Nat /\ height(b) > 1 /\ a = chain[b][k]
  BY ChainProperties, BlockAssumption DEF previous_state_hash
<1>2. k \in 1 .. height(b) /\ height(a) = k
  BY <1>1, ChainProperties
<1>3. \A h \in 1 .. k : chain[a][h] = chain[b][h]
  BY <1>1, <1>2, ChainAssumption DEF height
<1>4. Ancestors(a) \subseteq Ancestors(b)
  BY <1>1, <1>2, <1>3 DEF Ancestors
<1>5. ASSUME NEW d \in Ancestors(b) \ Ancestors(a) PROVE d = b
  <2>1. PICK h \in 1 .. height(b) : d = chain[b][h]
    BY DEF Ancestors
  <2>2. h \notin 1 .. k
    BY <1>2, <1>3, <2>1 DEF Ancestors
  <2>3. h = height(b)
    BY <1>1, <1>2, <2>1, <2>2, SMTT(30)
  <2> QED
    BY <2>1, <2>3, ChainProperties
<1> QED
  BY <1>4, <1>5

\* A call that weighs a competing tip against the best one has a best tip, inserts
\* the block, and reports the tip together with the best one it was weighed against.
LEMMA CompetingStep ==
  ASSUME NEW b \in Block, best # None => best \in Block,
         IngestBetter(b) \/ IngestWorse(b)
  PROVE  /\ best \in Block
         /\ nodes' = insert(b).nodes
         /\ last'.tip = b
         /\ last'.from = best
<1>1. CASE IngestBetter(b)
  <2>1. best \in Block /\ nodes' = insert(b).nodes
    BY <1>1, SMTT(30) DEF IngestBetter, Competes, Inserted
  <2>2. last'.tip = b /\ last'.from = best
    BY <1>1, SMTT(30) DEF IngestBetter, Returned
  <2> QED
    BY <2>1, <2>2
<1>2. CASE IngestWorse(b)
  <2>1. best \in Block /\ nodes' = insert(b).nodes
    BY <1>2 DEF IngestWorse, Competes, Inserted
  <2>2. last'.tip = b /\ last'.from = best
    BY <1>2 DEF IngestWorse, Returned
  <2> QED
    BY <2>1, <2>2
<1> QED
  BY <1>1, <1>2

\* Every call of ingest that resolves the ancestry leaves the branches in the
\* window.
LEMMA FetchStep ==
  ASSUME requested >= 2, IInv, NEW b \in Block, ingest(b)
  PROVE  NoExtraFetch'
<1>1. TypeOK /\ WindowInv /\ (best # None => best \in Block)
  BY DEF IInv, TypeOK
<1>2. CASE IngestDuplicate(b)
  BY <1>2 DEF IngestDuplicate, Returned, NoExtraFetch
<1>3. CASE IngestGenesis(b)
  BY <1>3 DEF IngestGenesis, Returned, NoExtraFetch
<1>4. CASE IngestChild(b)
  <2>1. best \in Block /\ b \notin nodes /\ nodes' = insert(b).nodes
    BY <1>4, <1>1, BlockAssumption DEF IngestChild, Inserted
  <2>2. b \in nodes'
    BY <1>1, <2>1, InsertProperties, SMTT(30)
  <2>3. /\ Ancestors(best) \ Ancestors(b) \subseteq nodes'
        /\ Ancestors(b) \ Ancestors(best) \subseteq nodes'
    BY <1>4, <2>1, <2>2, ChildAncestors DEF IngestChild
  <2>4. last'.tip = b /\ last'.from = best
    BY <1>4 DEF IngestChild, Returned
  <2> QED
    BY <2>3, <2>4 DEF NoExtraFetch
<1>5. ~IngestPanic(b)
  BY <1>1, ExpectsHold DEF IngestPanic
<1>6. ASSUME IngestBetter(b) \/ IngestWorse(b)
      PROVE  NoExtraFetch'
  <2>1. best \in Block /\ nodes' = insert(b).nodes
    BY <1>6, <1>1, CompetingStep
  <2>2. last'.tip = b /\ last'.from = best
    BY <1>6, <1>1, CompetingStep, SMTT(30)
  <2>3. last'.kind \in {"Extend", "Behind"} \/ last'.common # None => Divergence(b) # None
    BY <1>6, <2>1, BlockAssumption, SMTT(30) DEF IngestBetter, IngestWorse, Returned
  <2>4. ASSUME Divergence(b) # None
        PROVE  /\ Ancestors(b) \ Ancestors(best) \subseteq nodes'
               /\ Ancestors(best) \ Ancestors(b) \subseteq nodes'
    BY <2>1, <2>4, ResolvedInWindow, SMTT(30) DEF Divergence
  <2> QED
    BY <2>2, <2>3, <2>4 DEF NoExtraFetch
<1> QED
  BY <1>2, <1>3, <1>4, <1>5, <1>6, SMTT(30) DEF ingest

\* Once ingest has resolved an ancestry, each block to roll back and each block
\* to apply is in the window, whatever has been evicted: no extra fetch.
THEOREM ResolvedNeedsNoFetch ==
  ASSUME requested >= 2
  PROVE  Spec => []NoExtraFetch
<1>1. Init => NoExtraFetch
  BY DEF Init, NoExtraFetch
<1>2. IInv /\ NoExtraFetch /\ [Next]_vars => NoExtraFetch'
  <2> SUFFICES ASSUME IInv, NoExtraFetch, [Next]_vars
               PROVE  NoExtraFetch'
    OBVIOUS
  <2>1. CASE UNCHANGED vars
    BY <2>1 DEF vars, NoExtraFetch
  <2> QED
    BY <2>1, FetchStep DEF Next
<1> QED
  BY <1>1, <1>2, InductiveInvariant, PTL DEF Spec

\* A block of the fork of a and b that the window N lacks.
HasGap(N, a, b) ==
  \E x \in {a, b} : \E h \in Meeting(a, b) .. height(x) : chain[x][h] \notin N

\* common_ancestor gives up only at a gap.
LEMMA UnresolvedGap ==
  ASSUME NEW a \in Block, NEW b \in Block, NEW N,
         common_ancestor(N, a, b) = None
  PROVE  HasGap(N, a, b)
<1> DEFINE m == Meeting(a, b)
           l == Lower(a, b)
<1>1. /\ m \in 1 .. l /\ l \in Nat /\ l <= height(a) /\ l <= height(b)
      /\ height(a) \in Nat /\ height(b) \in Nat
      /\ chain[a][m] # None
  <2>1. m \in 1 .. l /\ l \in Nat
    BY MeetingProperties
  <2>2. /\ l <= height(a) /\ l <= height(b)
        /\ height(a) \in Nat /\ height(b) \in Nat
    BY ChainProperties DEF Lower
  <2>3. m \in 1 .. height(a)
    <3> HIDE DEF m, l
    <3> QED BY <2>1, <2>2, SMTT(30)
  <2>4. chain[a][m] \in Block
    BY <2>3, ChainProperties, SMTT(30)
  <2> QED
    BY <2>1, <2>2, <2>4, BlockAssumption, SMTT(30)
<1>2. PICK x \in {a, b} : \/ \E h \in l .. height(x) : chain[x][h] \notin N
                          \/ \E h \in (m + 1) .. l : chain[x][h] \notin N
  BY <1>1 DEF common_ancestor
<1> HIDE DEF m, l
<1>3. \E h \in m .. height(x) : chain[x][h] \notin N
  BY <1>1, <1>2
<1> QED
  BY <1>3 DEF HasGap, m

\* Every call of ingest that leaves the ancestry open leaves a gap in the window.
LEMMA GapStep ==
  ASSUME requested >= 2, IInv, NEW b \in Block, ingest(b)
  PROVE  UnresolvedHasGap'
<1>1. WindowInv /\ (best # None => best \in Block)
  BY DEF IInv, TypeOK
<1>2. CASE IngestDuplicate(b) \/ IngestGenesis(b) \/ IngestChild(b)
  BY <1>2 DEF IngestDuplicate, IngestGenesis, IngestChild, Returned, UnresolvedHasGap
<1>3. ~IngestPanic(b)
  BY <1>1, ExpectsHold, SMTT(30) DEF IngestPanic
<1>4. ASSUME IngestBetter(b) \/ IngestWorse(b)
      PROVE  UnresolvedHasGap'
  <2>1. best \in Block /\ nodes' = insert(b).nodes
    BY <1>4, <1>1, CompetingStep
  <2>2. last'.tip = b /\ last'.from = best
    BY <1>4, <1>1, CompetingStep, SMTT(30)
  <2>3. last'.kind \in {"Unlinked", "Reorg"} /\ last'.common = None => Divergence(b) = None
    BY <1>4 DEF IngestBetter, IngestWorse, Returned
  <2>4. Divergence(b) = None => HasGap(nodes', b, best)
    BY <2>1, UnresolvedGap, SMTT(30) DEF Divergence
  <2> QED
    BY <2>2, <2>3, <2>4, SMTT(30) DEF UnresolvedHasGap, HasGap
<1> QED
  BY <1>2, <1>3, <1>4 DEF ingest

\* Unlinked, and a Reorg without an ancestor, are reported only when a block of
\* the fork has been missed or evicted: ingest never gives up without reason.
THEOREM GivesUpOnlyAtGaps ==
  ASSUME requested >= 2
  PROVE  Spec => []UnresolvedHasGap
<1>1. Init => UnresolvedHasGap
  BY SMTT(30) DEF Init, UnresolvedHasGap
<1>2. IInv /\ UnresolvedHasGap /\ [Next]_vars => UnresolvedHasGap'
  <2> SUFFICES ASSUME IInv, UnresolvedHasGap, [Next]_vars
               PROVE  UnresolvedHasGap'
    OBVIOUS
  <2>1. CASE UNCHANGED vars
    BY <2>1 DEF vars, UnresolvedHasGap
  <2> QED
    BY <2>1, GapStep DEF Next
<1> QED
  BY <1>1, <1>2, InductiveInvariant, PTL DEF Spec
=============================================================================
