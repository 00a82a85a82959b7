-------------------------- MODULE AccountReadProofs --------------------------
(***************************************************************************)
(* Theorems about AccountRead, for every depth, every set of ledgers and   *)
(* whatever the peers answer, and about the sweep that finds the indices.  *)
(***************************************************************************)
EXTENDS LightClient, SequenceTheorems, TLAPS

IsSeq(s) == s \in Seq({s[k] : k \in DOMAIN s})

\* The running hash pins down the account: it is the hash of an address of a
\* ledger only if that address is at the right level, and then the account is the
\* one below it along the turns folded.
Pinned(acc, h, below, a) ==
  \A l \in Ledger, x \in Address : acc = node[l][x] =>
    /\ Len(x) = Depth - h
    /\ content[l][x \o below] = a

\* turns are the sides folded so far, the last one first.
TurnsFolded ==
  /\ height \in 0 .. Len(path)
  /\ turns \in Seq({0, 1})
  /\ Len(turns) = height
  /\ \A j \in 1 .. height : turns[j] = path[height + 1 - j].side

\* The inductive invariant.
IInv ==
  /\ pc = "idle" => index = None /\ path = <<>> /\ result = None
  /\ pc \in {"idle", "walk"} => height = 0 /\ turns = <<>> /\ result = None
  /\ pc = "fold" => result = None
  /\ result # None => pc = "done"
  /\ IsSeq(path)
  /\ \A k \in DOMAIN path : path[k].side \in {0, 1}
  /\ pc = "walk" =>
       /\ Len(path) <= Depth
       /\ \A k \in 1 .. Len(path) : path[k].side = bit(index, Depth - k)
  /\ pc = "fold" \/ result = "Ok" =>
       /\ TurnsFolded
       /\ Pinned(accum, height, turns, account)
       /\ index # None => /\ Len(path) = Depth
                          /\ \A k \in 1 .. Depth : path[k].side = bit(index, k - 1)
  /\ result = "Ok" => height = Len(path) /\ accum = root

-----------------------------------------------------------------------------
(* Sequences.                                                              *)

\* Appending keeps a sequence a sequence.
LEMMA AppendIsSeq ==
  ASSUME NEW s, NEW e, IsSeq(s)
  PROVE  /\ IsSeq(Append(s, e))
         /\ Len(Append(s, e)) = Len(s) + 1
         /\ Append(s, e)[Len(s) + 1] = e
         /\ \A k \in 1 .. Len(s) : Append(s, e)[k] = s[k]
         /\ DOMAIN Append(s, e) = 1 .. Len(s) + 1
<1> DEFINE S == {s[k] : k \in DOMAIN s} \cup {e}
           t == Append(s, e)
<1>1. s \in Seq(S) /\ e \in S
  BY SMT DEF IsSeq
<1>2. /\ t \in Seq(S)
      /\ Len(t) = Len(s) + 1
      /\ t[Len(s) + 1] = e
      /\ \A k \in 1 .. Len(s) : t[k] = s[k]
      /\ Len(s) \in Nat
  <2> HIDE DEF S
  <2> QED BY <1>1, AppendProperties
<1>3. DOMAIN t = 1 .. Len(t)
  <2> HIDE DEF S, t
  <2> QED BY <1>2
<1>4. IsSeq(t)
  <2> HIDE DEF S, t
  <2> QED BY <1>2, <1>3 DEF IsSeq
<1> QED BY <1>2, <1>3, <1>4

\* Reverse turns a sequence round.
LEMMA ReverseIsSeq ==
  ASSUME NEW s, IsSeq(s)
  PROVE  /\ IsSeq(Reverse(s))
         /\ Len(Reverse(s)) = Len(s)
         /\ DOMAIN Reverse(s) = 1 .. Len(s)
         /\ \A k \in 1 .. Len(s) : Reverse(s)[k] = s[Len(s) + 1 - k]
         /\ Len(s) \in Nat
<1> DEFINE t == Reverse(s)
<1>1. Len(s) \in Nat /\ DOMAIN s = 1 .. Len(s)
  BY DEF IsSeq
<1>2. t = [k \in 1 .. Len(s) |-> s[(Len(s) - k) + 1]]
  BY DEF Reverse
<1>3. Len(t) = Len(s) /\ DOMAIN t = 1 .. Len(s)
  BY <1>1, <1>2
<1>4. \A k \in 1 .. Len(s) : t[k] = s[Len(s) + 1 - k]
  BY <1>1, <1>2
<1>5. IsSeq(t)
  <2> DEFINE R == {t[k] : k \in DOMAIN t}
  <2> HIDE DEF t
  <2>1. t \in [1 .. Len(s) -> R]
    BY <1>2, <1>3
  <2>2. t \in Seq(R)
    <3> HIDE DEF R
    <3> QED BY <2>1, <1>1
  <2> QED BY <2>2 DEF IsSeq
<1> QED BY <1>1, <1>3, <1>4, <1>5

-----------------------------------------------------------------------------
(* Addresses.                                                              *)

\* An address is a sequence of at most Depth turns, a leaf one of exactly
\* Depth.
LEMMA AddressIsSeq ==
  ASSUME NEW x \in Address
  PROVE  /\ x \in Seq({0, 1})
         /\ Len(x) \in 0 .. Depth
         /\ x \in Leaf <=> Len(x) = Depth
<1>1. PICK n \in 0 .. Depth : x \in [1 .. n -> {0, 1}]
  BY DEF Address
<1>2. x \in Seq({0, 1}) /\ Len(x) = n
  BY <1>1, DepthAssumption
<1> QED BY <1>1, <1>2, DepthAssumption DEF Leaf

\* Sequences of turns no longer than the tree is deep are addresses.
LEMMA SeqIsAddress ==
  ASSUME NEW x \in Seq({0, 1}), Len(x) <= Depth
  PROVE  x \in Address /\ (x \in Leaf <=> Len(x) = Depth)
<1>1. x \in [1 .. Len(x) -> {0, 1}] /\ Len(x) \in 0 .. Depth
  BY DepthAssumption
<1>2. x \in Address
  BY <1>1 DEF Address
<1> QED BY <1>2, AddressIsSeq

\* A node that is no leaf has two children.
LEMMA ChildIsAddress ==
  ASSUME NEW x \in Address, Len(x) # Depth, NEW d \in {0, 1}
  PROVE  /\ Append(x, d) \in Address
         /\ Len(Append(x, d)) = Len(x) + 1
<1>1. /\ x \in Seq({0, 1})
      /\ Len(x) \in 0 .. Depth
  BY AddressIsSeq
<1>2. Append(x, d) \in Seq({0, 1}) /\ Len(Append(x, d)) = Len(x) + 1
  BY <1>1, AppendProperties
<1>3. Len(Append(x, d)) <= Depth
  BY <1>1, <1>2, DepthAssumption
<1> QED BY <1>2, <1>3, SeqIsAddress, Zenon

\* Descending one more turn commutes with what follows.
LEMMA AppendThenConcat ==
  ASSUME NEW x \in Seq({0, 1}), NEW d \in {0, 1}, NEW t \in Seq({0, 1})
  PROVE  Append(x, d) \o t = x \o (<<d>> \o t)
<1>1. Append(x, d) = x \o <<d>> /\ <<d>> \in Seq({0, 1})
  BY AppendIsConcat
<1> QED BY <1>1, ConcatAssociative

-----------------------------------------------------------------------------
(* Hashes.                                                                 *)

\* Only a leaf hashes like an account.
LEMMA HashOfLeaf ==
  ASSUME NEW l \in Ledger, NEW x \in Address, NEW a, hash(a) = node[l][x]
  PROVE  x \in Leaf /\ content[l][x] = a
<1>1. CASE x \in Leaf
  <2>1. node[l][x] = hash(content[l][x])
    BY <1>1, LedgerAssumption
  <2> QED BY <1>1, <2>1 DEF hash
<1>2. CASE x \notin Leaf
  <2>1. node[l][x] = hash_node(Depth - 1 - Len(x),
                               node[l][Append(x, 0)], node[l][Append(x, 1)])
    BY <1>2, LedgerAssumption
  <2> QED BY <2>1 DEF hash, hash_node
<1> QED BY <1>1, <1>2

\* Only an inner node hashes like one, and it has these children.
LEMMA HashOfNode ==
  ASSUME NEW l \in Ledger, NEW x \in Address, NEW h, NEW left, NEW right,
         hash_node(h, left, right) = node[l][x]
  PROVE  /\ x \notin Leaf
         /\ h = Depth - 1 - Len(x)
         /\ left = node[l][Append(x, 0)]
         /\ right = node[l][Append(x, 1)]
<1>1. CASE x \in Leaf
  <2>1. node[l][x] = hash(content[l][x])
    BY <1>1, LedgerAssumption
  <2> QED BY <2>1 DEF hash, hash_node
<1>2. CASE x \notin Leaf
  <2>1. node[l][x] = hash_node(Depth - 1 - Len(x),
                               node[l][Append(x, 0)], node[l][Append(x, 1)])
    BY <1>2, LedgerAssumption
  <2> QED BY <1>2, <2>1 DEF hash_node
<1> QED BY <1>1, <1>2

-----------------------------------------------------------------------------
(* The fold.                                                               *)

\* At the leaf, before the first step.
LEMMA PinnedStart ==
  ASSUME NEW a
  PROVE  Pinned(hash(a), 0, <<>>, a)
<1> SUFFICES ASSUME NEW l \in Ledger, NEW x \in Address, hash(a) = node[l][x]
             PROVE  Len(x) = Depth - 0 /\ content[l][x \o <<>>] = a
  BY DEF Pinned
<1>1. x \in Leaf /\ content[l][x] = a
  BY HashOfLeaf
<1>2. x \in Seq({0, 1}) /\ Len(x) = Depth
  BY <1>1, AddressIsSeq
<1>3. x \o <<>> = x
  BY <1>2, ConcatEmptySeq
<1> QED BY <1>1, <1>2, <1>3, DepthAssumption

\* One step of the fold: our side of the parent is the child that was pinned.
LEMMA PinnedStep ==
  ASSUME NEW acc, NEW h \in Nat, NEW t \in Seq({0, 1}), NEW a, NEW step,
         step.side \in {0, 1}, Pinned(acc, h, t, a)
  PROVE  Pinned(Combine(h, acc, step), h + 1, <<step.side>> \o t, a)
<1> DEFINE d == step.side
<1> SUFFICES ASSUME NEW l \in Ledger, NEW x \in Address,
                    Combine(h, acc, step) = node[l][x]
             PROVE  /\ Len(x) = Depth - (h + 1)
                    /\ content[l][x \o (<<d>> \o t)] = a
  BY DEF Pinned
<1>1. /\ x \notin Leaf
      /\ h = Depth - 1 - Len(x)
      /\ acc = node[l][Append(x, d)]
  <2>1. CASE d = 0
    <3>1. hash_node(h, acc, step.hash) = node[l][x]
      BY <2>1 DEF Combine
    <3> QED BY <2>1, <3>1, HashOfNode
  <2>2. CASE d = 1
    <3>1. hash_node(h, step.hash, acc) = node[l][x]
      BY <2>2 DEF Combine
    <3> QED BY <2>2, <3>1, HashOfNode
  <2> QED BY <2>1, <2>2
<1>2. x \in Seq({0, 1}) /\ Len(x) \in 0 .. Depth /\ Len(x) # Depth
  BY <1>1, AddressIsSeq
<1> HIDE DEF d
<1>3. d \in {0, 1}
  BY DEF d
<1>4. Append(x, d) \in Address
  BY <1>2, <1>3, ChildIsAddress
<1>5. content[l][Append(x, d) \o t] = a
  BY <1>1, <1>4 DEF Pinned
<1>6. Append(x, d) \o t = x \o (<<d>> \o t)
  BY <1>2, <1>3, AppendThenConcat, SMTT(30)
<1>7. Len(x) = Depth - (h + 1)
  BY <1>1, <1>2, DepthAssumption
<1> QED BY <1>5, <1>6, <1>7

\* The root is an address.
LEMMA RootIsAddress == <<>> \in Address /\ Len(<<>>) = 0
<1>1. <<>> \in Seq({0, 1}) /\ Len(<<>>) = 0
  OBVIOUS
<1>2. Len(<<>>) <= Depth
  BY <1>1, DepthAssumption
<1> QED BY <1>1, <1>2, SeqIsAddress, Zenon

-----------------------------------------------------------------------------
(* The invariant.                                                          *)

\* Initially nothing is read.
LEMMA InitIInv == Init => IInv
<1> SUFFICES ASSUME Init PROVE IInv
  OBVIOUS
<1>1. path = <<>> /\ DOMAIN path = {}
  BY DEF Init
<1>2. IsSeq(path)
  BY <1>1 DEF IsSeq
<1> QED BY <1>1, <1>2, DepthAssumption, NoneAssumption DEF Init, IInv

\* What BeginFold sets up, for a path with sides.
LEMMA FoldBegins ==
  ASSUME IInv, NEW a, NEW p, IsSeq(p), pc \in {"idle", "walk"}, BeginFold(a, p)
  PROVE  /\ TurnsFolded'
         /\ Pinned(accum, height, turns, account)'
         /\ pc' = "fold" /\ result' = None /\ path' = p
<1>1. height' = 0 /\ turns' = <<>> /\ result' = None /\ pc' = "fold"
      /\ path' = p /\ account' = a /\ accum' = hash(a)
  BY DEF IInv, BeginFold
<1>2. Len(p) \in Nat
  BY DEF IsSeq
<1>3. TurnsFolded'
  BY <1>1, <1>2 DEF TurnsFolded
<1>4. Pinned(accum', height', turns', account')
  BY <1>1, PinnedStart
<1> QED BY <1>1, <1>3, <1>4 DEF Pinned

\* Every step of the two loops, and of what starts and ends them, keeps it.
LEMMA NextIInv == IInv /\ [Next]_vars => IInv'
<1> SUFFICES ASSUME IInv, [Next]_vars PROVE IInv'
  OBVIOUS
<1>1. CASE \E b \in Block : StartRead(b)
  <2>1. PICK b \in Block : StartRead(b)
    BY <1>1
  <2>2. pc = "idle" /\ path = <<>> /\ IsSeq(path) /\ height = 0 /\ turns = <<>>
    BY <2>1, NoneAssumption DEF StartRead, IInv
  <2>3. path' = <<>> /\ IsSeq(path') /\ height' = 0 /\ turns' = <<>>
    BY <2>1, <2>2 DEF StartRead
  <2>4. \/ pc' = "done" /\ result' = "AnswerCountMismatch"
        \/ pc' = "walk" /\ result' = None
    BY <2>1, NoneAssumption DEF StartRead, Finish, IInv
  <2> QED BY <2>3, <2>4, DepthAssumption, NoneAssumption DEF IInv
<1>2. CASE Walk
  <2> DEFINE level == Len(path)
             right == goes_right(index, level)
             step == [side |-> IF right THEN 1 ELSE 0,
                      hash |-> Sibling(answers[level + 1], right)]
  <2>1. pc = "walk" /\ result = None /\ level < Depth /\ IsSeq(path)
        /\ height' = 0 /\ turns' = <<>> /\ index' = index
    BY <1>2, NoneAssumption DEF Walk, IInv
  <2>2. CASE pc' = "done" /\ result' \in {"NotChildHashes", "BadHash"} /\ path' = path
    BY <2>1, <2>2, NoneAssumption DEF IInv
  <2>3. CASE path' = Append(path, step) /\ pc' = pc /\ result' = result
    <3>1. level \in Nat /\ step.side = bit(index, Depth - (level + 1))
      BY <2>1, DepthAssumption DEF IsSeq, goes_right, bit
    <3> HIDE DEF step, level
    <3>2. /\ IsSeq(path')
          /\ Len(path') = level + 1
          /\ path'[level + 1] = step
          /\ \A k \in 1 .. level : path'[k] = path[k]
          /\ DOMAIN path' = 1 .. level + 1
      BY <2>1, <2>3, AppendIsSeq DEF level
    <3>3. \A k \in 1 .. Len(path') : path'[k].side = bit(index', Depth - k)
      <4>1. \A k \in 1 .. level : path[k].side = bit(index, Depth - k)
        BY <2>1, NoneAssumption DEF IInv, level
      <4> QED BY <2>1, <3>1, <3>2, <4>1
    <3>4. \A k \in DOMAIN path' : path'[k].side \in {0, 1}
      BY <3>2, <3>3 DEF bit
    <3>5. Len(path') <= Depth
      BY <2>1, <3>1, <3>2, DepthAssumption
    <3> QED BY <2>1, <2>3, <3>2, <3>3, <3>4, <3>5, NoneAssumption DEF IInv
  <2> QED BY <1>2, <2>2, <2>3 DEF Walk, Finish
<1>3. CASE ReadContents
  <2> DEFINE a == First(answers[Depth + 1])
  <2>1. pc = "walk" /\ Len(path) = Depth /\ IsSeq(path) /\ index' = index
    BY <1>3, NoneAssumption DEF ReadContents, IInv
  <2>2. CASE /\ pc' = "done"
             /\ result' \in {"NotContents", "BadAccount", "BadHash"}
             /\ UNCHANGED path
    BY <2>1, <2>2, NoneAssumption DEF IInv
  <2>3. CASE BeginFold(a, Reverse(path))
    <3>1. /\ IsSeq(Reverse(path))
          /\ Len(Reverse(path)) = Depth
          /\ DOMAIN Reverse(path) = 1 .. Depth
          /\ \A k \in 1 .. Depth : Reverse(path)[k] = path[Depth + 1 - k]
      BY <2>1, ReverseIsSeq
    <3>2. /\ TurnsFolded'
          /\ Pinned(accum, height, turns, account)'
          /\ pc' = "fold" /\ result' = None /\ path' = Reverse(path)
      BY <2>1, <2>3, <3>1, FoldBegins
    <3>3. \A k \in 1 .. Depth : path'[k].side = bit(index', k - 1)
      <4> SUFFICES ASSUME NEW k \in 1 .. Depth
                   PROVE  path'[k].side = bit(index, k - 1)
        BY <2>1
      <4>1. path'[k] = path[Depth + 1 - k]
        BY <3>1, <3>2
      <4>2. Depth + 1 - k \in 1 .. Depth /\ Depth - (Depth + 1 - k) = k - 1
        BY DepthAssumption
      <4>3. path[Depth + 1 - k].side = bit(index, Depth - (Depth + 1 - k))
        BY <2>1, <4>2, NoneAssumption DEF IInv
      <4> QED BY <4>1, <4>2, <4>3
    <3>4. \A k \in DOMAIN path' : path'[k].side \in {0, 1}
      BY <3>1, <3>2, <3>3 DEF bit
    <3> QED BY <3>1, <3>2, <3>3, <3>4, NoneAssumption DEF IInv
  <2> QED BY <1>3, <2>2, <2>3 DEF ReadContents, Finish
<1>4. CASE \E b \in Block, c \in Claims : StartInclusion(b, c)
  <2>1. PICK b \in Block, c \in Claims : StartInclusion(b, c)
    BY <1>4
  <2>2. pc = "idle" /\ index' = None /\ IsSeq(path)
    BY <2>1, NoneAssumption DEF StartInclusion, IInv
  <2>3. CASE pc' = "done" /\ result' = "NotIncluded" /\ UNCHANGED path
    BY <2>2, <2>3, NoneAssumption DEF IInv
  <2>4. CASE BeginFold(c.account, c.path)
    <3>1. IsSeq(c.path) /\ \A k \in DOMAIN c.path : c.path[k].side \in {0, 1}
      BY ClaimAssumption DEF IsSeq
    <3>2. /\ TurnsFolded'
          /\ Pinned(accum, height, turns, account)'
          /\ pc' = "fold" /\ result' = None /\ path' = c.path
      BY <2>2, <2>4, <3>1, FoldBegins
    <3> QED BY <2>2, <3>1, <3>2, NoneAssumption DEF IInv
  <2> QED BY <2>1, <2>3, <2>4 DEF StartInclusion, Finish
<1>5. CASE Fold
  <2> DEFINE step == path[height + 1]
  <2>1. /\ pc = "fold" /\ pc' = "fold" /\ result = None /\ result' = None
        /\ height < Len(path) /\ height' = height + 1
        /\ accum' = Combine(height, accum, step)
        /\ turns' = <<step.side>> \o turns
        /\ UNCHANGED <<index, path, account>>
    BY <1>5, NoneAssumption DEF Fold, IInv
  <2>2. /\ TurnsFolded
        /\ Pinned(accum, height, turns, account)
        /\ IsSeq(path) /\ Len(path) \in Nat /\ DOMAIN path = 1 .. Len(path)
    BY <2>1, NoneAssumption DEF IInv, IsSeq
  <2>3. height \in Nat /\ step.side \in {0, 1} /\ turns \in Seq({0, 1})
        /\ Len(turns) = height
    <3>1. height \in Nat /\ height + 1 \in DOMAIN path
      BY <2>1, <2>2 DEF TurnsFolded
    <3> QED BY <3>1, <2>2, NoneAssumption, SMTT(30) DEF IInv, TurnsFolded
  <2> HIDE DEF step
  <2>4. Pinned(accum', height', turns', account')
    BY <2>1, <2>2, <2>3, PinnedStep
  <2>5. TurnsFolded'
    <3>1. /\ turns' \in Seq({0, 1}) /\ Len(turns') = height + 1
          /\ turns'[1] = step.side
          /\ \A j \in 2 .. height + 1 : turns'[j] = turns[j - 1]
      BY <2>1, <2>3
    <3>2. \A j \in 1 .. height + 1 : turns'[j] = path[height + 2 - j].side
      <4> SUFFICES ASSUME NEW j \in 1 .. height + 1
                   PROVE  turns'[j] = path[height + 2 - j].side
        OBVIOUS
      <4>1. CASE j = 1
        <5>1. height + 2 - j = height + 1
          BY <4>1, <2>3
        <5> QED BY <4>1, <5>1, <3>1 DEF step
      <4>2. CASE j # 1
        <5>1. j \in 2 .. height + 1 /\ j - 1 \in 1 .. height
              /\ height + 1 - (j - 1) = height + 2 - j
          BY <4>2, <2>3
        <5>2. turns[j - 1] = path[height + 1 - (j - 1)].side
          BY <5>1, <2>2 DEF TurnsFolded
        <5> QED BY <5>1, <5>2, <3>1
      <4> QED BY <4>1, <4>2
    <3>3. \A j \in 1 .. height' : turns'[j] = path'[height' + 1 - j].side
      BY <2>1, <2>3, <3>2
    <3>4. height' \in 0 .. Len(path') /\ Len(turns') = height'
      BY <2>1, <2>2, <2>3, <3>1, SMTT(30)
    <3> QED BY <3>1, <3>3, <3>4 DEF TurnsFolded
  <2> QED BY <2>1, <2>2, <2>4, <2>5, NoneAssumption DEF IInv, Pinned
<1>6. CASE Compare
  <2>1. /\ pc = "fold" /\ result = None /\ height = Len(path)
        /\ pc' = "done"
        /\ result' = IF accum = root THEN "Ok" ELSE "NotIncluded"
        /\ UNCHANGED <<root, index, answers, path, account, accum, height, turns>>
    BY <1>6, NoneAssumption DEF Compare, Finish, IInv
  <2> QED BY <2>1, NoneAssumption DEF IInv, TurnsFolded, Pinned, IsSeq
<1>7. CASE UNCHANGED vars
  BY <1>7, NoneAssumption DEF IInv, TurnsFolded, Pinned, IsSeq, vars
<1> QED BY <1>1, <1>2, <1>3, <1>4, <1>5, <1>6, <1>7 DEF Next

\* The invariant holds throughout.
LEMMA InvariantHolds == Spec => []IInv
  BY InitIInv, NextIInv, PTL DEF Spec

-----------------------------------------------------------------------------
(* Soundness.                                                              *)

\* The account is the one below the root along turns, and the path has the
\* depth of the tree.
LEMMA AcceptedIsIncluded ==
  ASSUME IInv, result = "Ok", NEW l \in Ledger, node[l][<<>>] = root
  PROVE  /\ Len(path) = Depth
         /\ turns = [k \in 1 .. Depth |-> path[Depth + 1 - k].side]
         /\ content[l][turns] = account
<1>1. /\ TurnsFolded
      /\ Pinned(accum, height, turns, account)
      /\ height = Len(path) /\ accum = root
  BY DEF IInv
<1>2. height \in Nat /\ turns \in Seq({0, 1}) /\ Len(turns) = height
  BY <1>1 DEF TurnsFolded
<1>3. height = Depth /\ content[l][turns] = account
  <2>1. Len(<<>>) = Depth - height /\ content[l][<<>> \o turns] = account
    BY <1>1, RootIsAddress, Zenon DEF Pinned
  <2>2. <<>> \o turns = turns
    BY <1>2, ConcatEmptySeq
  <2> QED BY <1>2, <2>1, <2>2, RootIsAddress, DepthAssumption
<1>4. turns = [k \in 1 .. Depth |-> path[Depth + 1 - k].side]
  <2>1. \A j \in 1 .. Depth : turns[j] = path[Depth + 1 - j].side
    BY <1>1, <1>3 DEF TurnsFolded
  <2>2. turns = [k \in 1 .. Depth |-> turns[k]]
    BY <1>2, <1>3
  <2> QED BY <2>1, <2>2
<1> QED BY <1>1, <1>3, <1>4

\* verify_account_inclusion is sound: an accepted claim is in every ledger with
\* the root the block commits to, at the leaf its path leads to.
THEOREM InclusionIsSound == Spec => []InclusionSound
<1>1. IInv => InclusionSound
  BY AcceptedIsIncluded, Zenon DEF InclusionSound
<1> QED BY <1>1, InvariantHolds, PTL

\* verify_account_at_root is sound, whatever the peer answers: an accepted
\* account is the one at the index, in every ledger with the block's root.
THEOREM ReadIsSound == Spec => []ReadSound
<1>1. IInv => ReadSound
  <2> SUFFICES ASSUME IInv, result = "Ok", index # None,
                      NEW l \in Ledger, node[l][<<>>] = root
               PROVE  content[l][LeafAddr(index)] = account
    BY DEF ReadSound
  <2>1. /\ turns = [k \in 1 .. Depth |-> path[Depth + 1 - k].side]
        /\ content[l][turns] = account
    BY AcceptedIsIncluded
  <2>2. \A k \in 1 .. Depth : path[k].side = bit(index, k - 1)
    BY DEF IInv
  <2>3. \A k \in 1 .. Depth : path[Depth + 1 - k].side = bit(index, Depth - k)
    <3> SUFFICES ASSUME NEW k \in 1 .. Depth
                 PROVE  path[Depth + 1 - k].side = bit(index, Depth - k)
      OBVIOUS
    <3>1. Depth + 1 - k \in 1 .. Depth /\ (Depth + 1 - k) - 1 = Depth - k
      BY DepthAssumption
    <3> QED BY <2>2, <3>1
  <2> QED BY <2>1, <2>3, Zenon DEF LeafAddr, node_addr
<1> QED BY <1>1, InvariantHolds, PTL

-----------------------------------------------------------------------------
(* Completeness.                                                           *)

\* The sibling off the path at the k-th level.
OffPath(l, k) == node[l][Append(node_addr(index, k - 1), 1 - bit(index, Depth - k))]

Honest(l) ==
  /\ index # None
  /\ node[l][<<>>] = root
  /\ answers = Served(l, index)
  /\ content[l][LeafAddr(index)] # Empty

\* With honest answers the path holds the siblings, and the running hash is the
\* node on the path.
HonestInv ==
  pc # "idle" => \A l \in Ledger : Honest(l) =>
    /\ result \in {None, "Ok"}
    /\ pc = "walk" => \A k \in 1 .. Len(path) : path[k].hash = OffPath(l, k)
    /\ pc = "fold" =>
         /\ accum = node[l][node_addr(index, Depth - height)]
         /\ \A k \in 1 .. Depth : path[k].hash = OffPath(l, Depth + 1 - k)

\* The address of a level, and how the next one continues it.
LEMMA AddressOfLevel ==
  ASSUME NEW i, NEW n \in 0 .. Depth
  PROVE  /\ node_addr(i, n) \in Address
         /\ Len(node_addr(i, n)) = n
         /\ n < Depth =>
              node_addr(i, n + 1) = Append(node_addr(i, n), bit(i, Depth - n - 1))
<1> DEFINE a == node_addr(i, n)
<1>1. a \in [1 .. n -> {0, 1}] /\ n \in Nat
  BY DepthAssumption DEF node_addr, bit
<1>2. a \in Seq({0, 1}) /\ Len(a) = n
  <2> HIDE DEF a
  <2> QED BY <1>1
<1>3. a \in Address
  <2> HIDE DEF a
  <2>1. Len(a) <= Depth
    BY <1>2
  <2> QED BY <1>2, <2>1, SeqIsAddress
<1>4. ASSUME n < Depth
      PROVE  node_addr(i, n + 1) = Append(a, bit(i, Depth - n - 1))
  <2> DEFINE c == node_addr(i, n + 1)
             d == Append(a, bit(i, Depth - n - 1))
  <2>1. c \in [1 .. n + 1 -> {0, 1}]
    BY DepthAssumption DEF node_addr, bit
  <2>2. \A k \in 1 .. n + 1 : c[k] = bit(i, Depth - k)
    BY DEF node_addr
  <2>3. \A k \in 1 .. n : a[k] = bit(i, Depth - k)
    BY DEF node_addr
  <2> HIDE DEF a, c
  <2>4. bit(i, Depth - n - 1) \in {0, 1}
    BY DEF bit
  <2>5. /\ d \in Seq({0, 1}) /\ Len(d) = n + 1
        /\ d[n + 1] = bit(i, Depth - n - 1)
        /\ \A k \in 1 .. n : d[k] = a[k]
    BY <1>2, <2>4, AppendProperties
  <2>6. Depth - (n + 1) = Depth - n - 1
    BY DepthAssumption
  <2> HIDE DEF d
  <2>7. \A k \in 1 .. n + 1 : d[k] = c[k]
    BY <1>1, <2>2, <2>3, <2>5, <2>6
  <2>8. d \in [1 .. n + 1 -> {0, 1}]
    BY <2>5
  <2>9. c = d
    BY <2>1, <2>7, <2>8
  <2> QED BY <2>9 DEF c, d
<1> QED BY <1>2, <1>3, <1>4

\* The honest answer for an inner level.
LEMMA ServedChildren ==
  ASSUME NEW l \in Ledger, NEW i, NEW n \in 0 .. Depth - 1
  PROVE  Served(l, i)[n + 1] =
           ChildHashesAre(node[l][Append(node_addr(i, n), 0)],
                          node[l][Append(node_addr(i, n), 1)])
<1>1. n + 1 \in 1 .. Depth + 1 /\ n + 1 <= Depth /\ (n + 1) - 1 = n
  BY DepthAssumption
<1>2. Served(l, i)[n + 1] = serve(l, sync_ledger_queries(i)[n + 1])
  BY <1>1 DEF Served
<1>3. sync_ledger_queries(i)[n + 1] = [what |-> "ChildHashes", addr |-> node_addr(i, n)]
  BY <1>1 DEF sync_ledger_queries
<1> QED BY <1>2, <1>3 DEF serve

\* The honest answer for the leaf.
LEMMA ServedContents ==
  ASSUME NEW l \in Ledger, NEW i, content[l][LeafAddr(i)] # Empty
  PROVE  Served(l, i)[Depth + 1] = ContentsAre(<<content[l][LeafAddr(i)]>>)
<1>1. Depth + 1 \in 1 .. Depth + 1 /\ ~(Depth + 1 <= Depth) /\ (Depth + 1) - 1 = Depth
  BY DepthAssumption
<1>2. Served(l, i)[Depth + 1] = serve(l, sync_ledger_queries(i)[Depth + 1])
  BY <1>1 DEF Served
<1>3. sync_ledger_queries(i)[Depth + 1] = [what |-> "Contents", addr |-> LeafAddr(i)]
  BY <1>1 DEF sync_ledger_queries, LeafAddr
<1> QED BY <1>2, <1>3 DEF serve

\* A node on the path is combined from the one below it and the sibling.
LEMMA CombineOnPath ==
  ASSUME NEW l \in Ledger, NEW i, NEW h \in 0 .. Depth - 1, NEW step,
         step.side = bit(i, h),
         step.hash = node[l][Append(node_addr(i, Depth - h - 1), 1 - bit(i, h))]
  PROVE  Combine(h, node[l][node_addr(i, Depth - h)], step)
           = node[l][node_addr(i, Depth - h - 1)]
<1> DEFINE n == Depth - h - 1
           x == node_addr(i, n)
           d == bit(i, h)
<1>1. n \in 0 .. Depth /\ n < Depth /\ n + 1 = Depth - h /\ Depth - n - 1 = h
      /\ h = Depth - 1 - n
  BY DepthAssumption
<1> HIDE DEF n
<1>2. x \in Address /\ Len(x) = n /\ node_addr(i, n + 1) = Append(x, bit(i, Depth - n - 1))
  BY <1>1, AddressOfLevel
<1>3. x \notin Leaf
  BY <1>1, <1>2, AddressIsSeq
<1>4. node[l][x] = hash_node(h, node[l][Append(x, 0)], node[l][Append(x, 1)])
  BY <1>1, <1>2, <1>3, LedgerAssumption, SMTT(30)
<1>5. node[l][node_addr(i, Depth - h)] = node[l][Append(x, d)]
  BY <1>1, <1>2, Zenon
<1>6. step.side = d /\ step.hash = node[l][Append(x, 1 - d)] /\ d \in {0, 1}
  BY DEF n, bit
<1> HIDE DEF x, d
<1>7. Combine(h, node[l][Append(x, d)], step) = node[l][x]
  <2>1. CASE d = 0
    BY <2>1, <1>4, <1>6 DEF Combine
  <2>2. CASE d = 1
    BY <2>2, <1>4, <1>6, SMTT(30) DEF Combine
  <2> QED BY <1>6, <2>1, <2>2
<1> QED BY <1>5, <1>7 DEF x, n

\* Every step keeps the invariant of honest answers.
LEMMA NextHonest == IInv /\ IInv' /\ HonestInv /\ [Next]_vars => HonestInv'
<1> SUFFICES ASSUME IInv, IInv', HonestInv, [Next]_vars, pc' # "idle",
                    NEW l \in Ledger, Honest(l)'
             PROVE  /\ result' \in {None, "Ok"}
                    /\ pc' = "walk" =>
                         \A k \in 1 .. Len(path') : path'[k].hash = OffPath(l, k)'
                    /\ pc' = "fold" =>
                         /\ accum' = node[l][node_addr(index', Depth - height')]
                         /\ \A k \in 1 .. Depth :
                              path'[k].hash = OffPath(l, Depth + 1 - k)'
  BY DEF HonestInv
<1>1. CASE \E b \in Block : StartRead(b)
  <2>1. PICK b \in Block : StartRead(b)
    BY <1>1
  <2>2. Len(answers') = Depth + 1
    BY DepthAssumption DEF Honest, Served
  <2>3. pc = "idle" /\ path = <<>> /\ result = None
    BY <2>1 DEF StartRead, IInv
  <2>4. pc' = "walk" /\ result' = None /\ path' = <<>>
    BY <2>1, <2>2, <2>3, SMTT(30) DEF StartRead
  <2> QED BY <2>4
<1>2. CASE Walk
  <2> DEFINE n == Len(path)
             right == goes_right(index, n)
             x == node_addr(index, n)
             d == bit(index, Depth - n - 1)
  <2>1. pc = "walk" /\ n < Depth /\ UNCHANGED <<root, index, answers>> /\ IsSeq(path)
        /\ result = None
    BY <1>2 DEF Walk, IInv
  <2>2. Honest(l) /\ n \in 0 .. Depth - 1
    BY <2>1, DepthAssumption DEF Honest, IsSeq
  <2> HIDE DEF n
  <2>3. answers[n + 1] = ChildHashesAre(node[l][Append(x, 0)], node[l][Append(x, 1)])
    BY <2>2, ServedChildren DEF Honest
  <2>4. d \in {0, 1} /\ (right <=> d = 1)
    BY DEF bit, goes_right
  <2>5. Sibling(answers[n + 1], right) = node[l][Append(x, 1 - d)]
    <3> HIDE DEF x, d, right
    <3>1. CASE d = 0
      BY <2>3, <2>4, <3>1 DEF Sibling, ChildHashesAre
    <3>2. CASE d = 1
      BY <2>3, <2>4, <3>2 DEF Sibling, ChildHashesAre
    <3> QED BY <2>4, <3>1, <3>2
  <2>6. Append(x, 1 - d) \in Address
    <3>1. x \in Address /\ Len(x) # Depth /\ 1 - d \in {0, 1}
      <4>1. n \in 0 .. Depth /\ n # Depth
        BY <2>2, DepthAssumption
      <4>2. 1 - d \in {0, 1}
        <5> HIDE DEF d
        <5> QED BY <2>4
      <4> QED BY <4>1, <4>2, AddressOfLevel
    <3> QED BY <3>1, ChildIsAddress
  <2>7. Sibling(answers[n + 1], right) # BadHash /\ answers[n + 1].type = "ChildHashesAre"
    BY <2>3, <2>5, <2>6, HonestAssumption, SMTT(30) DEF ChildHashesAre
  <2> HIDE DEF right, x
  <2>8. /\ path' = Append(path, [side |-> IF right THEN 1 ELSE 0,
                                 hash |-> Sibling(answers[n + 1], right)])
        /\ pc' = "walk" /\ result' = None
    BY <1>2, <2>1, <2>7, SMTT(30) DEF Walk, n, right
  <2>9. /\ Len(path') = n + 1
        /\ path'[n + 1].hash = Sibling(answers[n + 1], right)
        /\ \A k \in 1 .. n : path'[k] = path[k]
    BY <2>1, <2>8, AppendIsSeq DEF n
  <2>10. \A k \in 1 .. n : path[k].hash = OffPath(l, k)
    BY <2>1, <2>2 DEF HonestInv, n
  <2>11. Sibling(answers[n + 1], right) = OffPath(l, n + 1)
    <3>1. (n + 1) - 1 = n /\ Depth - (n + 1) = Depth - n - 1
      BY <2>2, DepthAssumption
    <3> QED BY <2>5, <3>1 DEF OffPath, x
  <2>12. \A k \in 1 .. n + 1 : path'[k].hash = OffPath(l, k)
    BY <2>2, <2>9, <2>10, <2>11
  <2>13. \A k : OffPath(l, k)' = OffPath(l, k)
    BY <2>1 DEF OffPath
  <2> QED BY <2>8, <2>9, <2>12, <2>13, SMTT(30)
<1>3. CASE ReadContents
  <2> DEFINE a == First(answers[Depth + 1])
  <2>1. pc = "walk" /\ Len(path) = Depth /\ UNCHANGED <<root, index, answers>>
        /\ IsSeq(path)
    BY <1>3 DEF ReadContents, IInv
  <2>2. Honest(l)
    BY <2>1 DEF Honest
  <2>3. a = content[l][LeafAddr(index)]
    <3>1. answers[Depth + 1] = ContentsAre(<<content[l][LeafAddr(index)]>>)
      BY <2>2, ServedContents DEF Honest
    <3> QED BY <3>1 DEF ContentsAre, First
  <2>4. LeafAddr(index) \in Leaf /\ LeafAddr(index) \in Address
    <3>1. Depth \in 0 .. Depth
      BY DepthAssumption
    <3>2. LeafAddr(index) \in Address /\ Len(LeafAddr(index)) = Depth
      BY <3>1, AddressOfLevel DEF LeafAddr
    <3> QED BY <3>2, AddressIsSeq
  <2>5. a \notin {None, Undecodable}
    BY <2>3, <2>4, HonestAssumption
  <2>6. root # BadHash
    BY <2>2, RootIsAddress, HonestAssumption DEF Honest
  <2> HIDE DEF a
  <2>7. BeginFold(a, Reverse(path))
    BY <1>3, <2>5, <2>6, SMTT(30) DEF ReadContents, a
  <2>8. pc' = "fold" /\ result' = None /\ accum' = hash(a) /\ height' = 0
        /\ path' = Reverse(path)
    BY <2>1, <2>7, SMTT(30) DEF BeginFold, IInv
  <2>9. accum' = node[l][node_addr(index', Depth - height')]
    <3>1. Depth - 0 = Depth
      BY DepthAssumption
    <3>2. node[l][LeafAddr(index)] = hash(content[l][LeafAddr(index)])
      BY <2>4, LedgerAssumption
    <3> QED BY <2>1, <2>3, <2>8, <3>1, <3>2, SMTT(30) DEF LeafAddr
  <2>10. \A k \in 1 .. Depth : path'[k].hash = OffPath(l, Depth + 1 - k)'
    <3> SUFFICES ASSUME NEW k \in 1 .. Depth
                 PROVE  path'[k].hash = OffPath(l, Depth + 1 - k)'
      OBVIOUS
    <3>1. path'[k] = path[Depth + 1 - k] /\ Depth + 1 - k \in 1 .. Depth
      BY <2>1, <2>8, ReverseIsSeq, DepthAssumption, SMTT(30)
    <3>2. path[Depth + 1 - k].hash = OffPath(l, Depth + 1 - k)
      BY <2>1, <2>2, <3>1, SMTT(30) DEF HonestInv
    <3> QED BY <2>1, <3>1, <3>2 DEF OffPath
  <2> QED BY <2>8, <2>9, <2>10, SMTT(30)
<1>4. CASE \E b \in Block, c \in Claims : StartInclusion(b, c)
  <2>1. index' = None
    BY <1>4, SMTT(30) DEF StartInclusion, IInv
  <2> QED BY <2>1 DEF Honest
<1>5. CASE Fold
  <2> DEFINE step == path[height + 1]
  <2>1. /\ pc = "fold" /\ pc' = "fold" /\ result' = result /\ height < Len(path)
        /\ height' = height + 1
        /\ accum' = Combine(height, accum, step)
        /\ UNCHANGED <<root, index, answers, path>>
    BY <1>5 DEF Fold
  <2>2. Honest(l) /\ index # None
    BY <2>1, SMTT(30) DEF Honest
  <2>3. Len(path) = Depth /\ height \in 0 .. Depth - 1
        /\ \A k \in 1 .. Depth : path[k].side = bit(index, k - 1)
    BY <2>1, <2>2, DepthAssumption DEF IInv, TurnsFolded
  <2>4. /\ result \in {None, "Ok"}
        /\ accum = node[l][node_addr(index, Depth - height)]
        /\ \A k \in 1 .. Depth : path[k].hash = OffPath(l, Depth + 1 - k)
    BY <2>1, <2>2 DEF HonestInv
  <2>5. /\ height + 1 \in 1 .. Depth /\ (height + 1) - 1 = height
        /\ Depth + 1 - (height + 1) = Depth - height
        /\ Depth - (Depth - height) = height
        /\ (Depth - height) - 1 = Depth - height - 1
        /\ Depth - (height + 1) = Depth - height - 1
    BY <2>3, DepthAssumption
  <2>6. step.side = bit(index, height)
    BY <2>3, <2>5
  <2>7. step.hash = node[l][Append(node_addr(index, Depth - height - 1),
                                   1 - bit(index, height))]
    BY <2>4, <2>5, SMTT(30) DEF OffPath
  <2> HIDE DEF step
  <2>8. accum' = node[l][node_addr(index, Depth - height - 1)]
    BY <2>1, <2>3, <2>4, <2>6, <2>7, CombineOnPath, SMTT(30)
  <2> QED BY <2>1, <2>4, <2>5, <2>8, SMTT(30) DEF OffPath
<1>6. CASE Compare
  <2>1. pc = "fold" /\ pc' = "done" /\ height = Len(path)
        /\ result' = (IF accum = root THEN "Ok" ELSE "NotIncluded")
        /\ UNCHANGED <<root, index, answers>>
    BY <1>6 DEF Compare, Finish
  <2>2. Honest(l) /\ index # None
    BY <2>1, SMTT(30) DEF Honest
  <2>3. height = Depth /\ accum = node[l][node_addr(index, Depth - height)]
    BY <2>1, <2>2 DEF IInv, HonestInv
  <2>4. node_addr(index, Depth - height) = <<>>
    BY <2>3, DepthAssumption, SMTT(30) DEF node_addr
  <2> QED BY <2>1, <2>2, <2>3, <2>4, SMTT(30) DEF Honest
<1>7. CASE UNCHANGED vars
  BY <1>7, Zenon DEF vars, HonestInv, Honest, OffPath
<1> QED BY <1>1, <1>2, <1>3, <1>4, <1>5, <1>6, <1>7, SMTT(30) DEF Next

\* verify_account_at_root is complete: the answers of a peer that holds the
\* ledger, to the queries of sync_ledger_queries, are never refused.
THEOREM ReadIsComplete == Spec => []ReadComplete
<1>1. Init => HonestInv
  BY DEF Init, HonestInv
<1>2. IInv /\ HonestInv => ReadComplete
  <2> SUFFICES ASSUME IInv, HonestInv, result # None, NEW l \in Ledger, Honest(l)
               PROVE  result = "Ok"
    BY Zenon DEF ReadComplete, Honest
  <2> QED BY SMTT(30) DEF IInv, HonestInv
<1> QED BY <1>1, <1>2, InvariantHolds, NextHonest, PTL DEF Spec

-----------------------------------------------------------------------------
(* The sweep.                                                              *)

\* The inductive invariant of the sweep.
SweepInv ==
  /\ num_accounts \in 0 .. Capacity
  /\ swept \in Nat
  /\ PairsRight
  /\ NothingSkipped

\* The larger of two numbers.
LEMMA MaxOfTwo ==
  ASSUME NEW m \in Nat, NEW n \in Nat
  PROVE  Max({m, n}) = IF m >= n THEN m ELSE n
<1> DEFINE P(x) == x \in {m, n} /\ \A y \in {m, n} : x >= y
           z == IF m >= n THEN m ELSE n
<1>1. P(z) /\ \A x : P(x) => x = z
  OBVIOUS
<1>2. Max({m, n}) = CHOOSE x : P(x)
  BY DEF Max
<1> HIDE DEF P, z
<1>3. (CHOOSE x : P(x)) = z
  BY <1>1
<1> QED
  BY <1>2, <1>3, Zenon DEF z

\* The smaller of two numbers.
LEMMA MinOfTwo ==
  ASSUME NEW m \in Int, NEW n \in Int
  PROVE  Min({m, n}) = IF m <= n THEN m ELSE n
<1> DEFINE P(x) == x \in {m, n} /\ \A y \in {m, n} : x <= y
           z == IF m <= n THEN m ELSE n
<1>1. P(z) /\ \A x : P(x) => x = z
  OBVIOUS
<1>2. Min({m, n}) = CHOOSE x : P(x)
  BY DEF Min
<1> HIDE DEF P, z
<1>3. (CHOOSE x : P(x)) = z
  BY <1>1
<1> QED
  BY <1>2, <1>3, Zenon DEF z

\* Dividing by the batch: the subtree an index lies in.
LEMMA SubtreeOf ==
  ASSUME NEW n \in Nat
  PROVE  /\ n \div batch \in Nat
         /\ (n \div batch) * batch <= n
         /\ n < (n \div batch) * batch + batch
<1>1. batch \in Nat /\ batch # 0
  BY SweepAssumption
<1> HIDE DEF batch
<1> QED
  BY <1>1

\* Subtrees are ordered as the indices they begin with.
LEMMA SubtreeOrder ==
  ASSUME NEW m \in Nat, NEW n \in Nat, m * batch < n * batch + batch
  PROVE  m <= n
<1>1. batch \in Nat /\ batch # 0
  BY SweepAssumption
<1> HIDE DEF batch
<1> QED
  BY <1>1

\* An address leads to the subtree it was made for, when the ledger has it.
LEMMA AddressKeepsIndex ==
  ASSUME NEW s \in Nat, s < subtrees
  PROVE  from_index(s) = s
<1>1. subtrees \in Nat /\ subtrees # 0
  BY SweepAssumption
<1> HIDE DEF subtrees
<1> QED
  BY <1>1 DEF from_index

\* The ledger has every subtree up to the one that holds the last account.
LEMMA SubtreesSuffice ==
  ASSUME NEW m \in Nat, NEW n \in Nat, n <= Capacity, m * batch <= n + batch - 1
  PROVE  m <= subtrees
<1>1. /\ batch \in Nat /\ batch # 0 /\ subtrees \in Nat
      /\ Capacity \in Nat /\ Capacity <= subtrees * batch
  BY SweepAssumption
<1> HIDE DEF subtrees
<1>2. m * batch < subtrees * batch + batch
  <2> HIDE DEF batch
  <2> QED
    BY <1>1
<1> QED
  BY <1>1, <1>2, SubtreeOrder

\* The j-th account of the k-th subtree asked for is where pubkey_index_pairs
\* puts it.
LEMMA IndexOfPair ==
  ASSUME NEW f \in Nat, NEW k \in Nat, NEW j \in Nat
  PROVE  /\ (f + k - 1) * batch + j - 1 = f * batch + (k - 1) * batch + (j - 1)
         /\ (f + k - 1) * batch \in Int
         /\ k >= 1 => (f + k - 1) * batch \in Nat
<1>1. batch \in Nat /\ batch # 0
  BY SweepAssumption
<1> HIDE DEF batch
<1> QED
  BY <1>1

\* The leaves a peer returns of a subtree.
LEMMA ContentsOf ==
  ASSUME num_accounts \in Nat, NEW s \in Nat
  PROVE  /\ DOMAIN Contents(s) =
              1 .. (IF batch <= num_accounts - s * batch THEN batch ELSE num_accounts - s * batch)
         /\ \A j \in DOMAIN Contents(s) : Contents(s)[j] = owner[s * batch + j - 1]
<1>1. batch \in Int /\ num_accounts - s * batch \in Int
  <2>1. batch \in Nat
    BY SweepAssumption
  <2> HIDE DEF batch
  <2> QED
    BY <2>1
<1> HIDE DEF batch
<1>2. Min({batch, num_accounts - s * batch}) =
        IF batch <= num_accounts - s * batch THEN batch ELSE num_accounts - s * batch
  BY <1>1, MinOfTwo
<1> QED
  BY <1>2 DEF Contents

\* The positions of an answer that is cut by two bounds.
LEMMA WithinBoth ==
  ASSUME NEW b \in Int, NEW m \in Int, NEW j
  PROVE  j \in 1 .. (IF b <= m THEN b ELSE m) <=> j \in Int /\ j >= 1 /\ j <= b /\ j <= m
OBVIOUS

\* One round of the sweep.
LEMMA RoundStep ==
  ASSUME SweepInv, NEW start \in 0 .. swept, NEW num \in 0 .. num_accounts,
         Sweep(start, num)
  PROVE  SweepInv'
<1> DEFINE first == start \div batch
           end == (num + batch - 1) \div batch
           D == 1 .. end - first
           queries == [k \in D |-> from_index(first + k - 1)]
<1>0. /\ num_accounts \in Nat /\ num_accounts <= Capacity /\ num <= Capacity
      /\ Capacity \in Nat /\ swept \in Nat /\ PairsRight /\ NothingSkipped
      /\ start \in Nat /\ num \in Nat /\ batch \in Nat /\ batch >= 1
      /\ num + batch - 1 \in Nat
  <2>1. batch \in Nat /\ batch >= 1
    BY SweepAssumption
  <2>2. Capacity \in Nat
    BY SweepAssumption
  <2> HIDE DEF batch
  <2> QED
    BY <2>1, <2>2 DEF SweepInv
<1> HIDE DEF batch
<1>1. /\ first \in Nat /\ first * batch <= start /\ start < first * batch + batch
      /\ end \in Nat /\ end * batch <= num + batch - 1 /\ num + batch - 1 < end * batch + batch
  BY <1>0, SubtreeOf, SMTT(30)
<1>2. PICK refused \in SUBSET D :
        LET replies == [k \in D |-> IF k \in refused THEN Refused ELSE Contents(queries[k])]
            found == pubkey_index_pairs(replies, first * batch)
        IN  /\ found # Refused
            /\ pairs' = pairs \cup found
            /\ swept' = Max({num, swept})
            /\ UNCHANGED num_accounts
  BY Zenon DEF Sweep, ledger_sweep_queries, sweep_base_index
<1> DEFINE replies == [k \in D |-> IF k \in refused THEN Refused ELSE Contents(queries[k])]
           found == pubkey_index_pairs(replies, first * batch)
<1>3. /\ found # Refused /\ pairs' = pairs \cup found
      /\ swept' = Max({num, swept}) /\ num_accounts' = num_accounts
  BY <1>2
<1>6. \A k \in D : k \in Nat /\ k >= 1 /\ first + k - 1 \in Nat
  BY <1>1
<1>q. \A k \in D : queries[k] = first + k - 1
  <2>1. end <= subtrees
    BY <1>0, <1>1, SubtreesSuffice, SMTT(30)
  <2>2. subtrees \in Nat
    BY SweepAssumption
  <2> HIDE DEF subtrees
  <2>3. \A k \in D : first + k - 1 \in Nat /\ first + k - 1 < subtrees
    <3> HIDE DEF first, end
    <3> QED
      BY <1>1, <2>1, <2>2
  <2> HIDE DEF first, end
  <2> QED
    BY <2>3, AddressKeepsIndex
<1>4. /\ \A k \in D : replies[k] = Contents(first + k - 1)
      /\ found = UNION {{<<replies[s][j], first * batch + (s - 1) * batch + (j - 1)>> :
                           j \in DOMAIN replies[s]} : s \in D}
  <2>1. DOMAIN replies = D
    BY SMTT(30)
  <2>2. \A s \in D : replies[s] # Refused
    <3> HIDE DEF replies, D
    <3> QED
      BY <1>3, <2>1 DEF pubkey_index_pairs
  <2>3. found = Pairs(replies, first * batch)
    <3> HIDE DEF replies, D
    <3> QED
      BY <2>1, <2>2 DEF pubkey_index_pairs
  <2>4. \A k \in D : k \notin refused
    BY <2>2
  <2>5. \A k \in D : replies[k] = Contents(first + k - 1)
    BY <2>4, <1>q
  <2>6. Pairs(replies, first * batch) =
          UNION {{<<replies[s][j], first * batch + (s - 1) * batch + (j - 1)>> :
                    j \in DOMAIN replies[s]} : s \in D}
    <3> HIDE DEF replies, D, first
    <3> QED
      BY <2>1 DEF Pairs
  <2> QED
    BY <2>3, <2>5, <2>6, Zenon
<1>5. swept' = (IF num >= swept THEN num ELSE swept) /\ swept' \in Nat
  BY <1>0, <1>3, MaxOfTwo
<1> HIDE DEF first, end, queries, replies, found, D
<1>7. ASSUME NEW s \in D, NEW j \in DOMAIN Contents(first + s - 1)
      PROVE  /\ first * batch + (s - 1) * batch + (j - 1) \in 0 .. num_accounts - 1
             /\ Contents(first + s - 1)[j] = owner[first * batch + (s - 1) * batch + (j - 1)]
  <2> DEFINE q == first + s - 1
             o == q * batch
             x == first * batch + (s - 1) * batch + (j - 1)
  <2>1. /\ DOMAIN Contents(q) =
             1 .. (IF batch <= num_accounts - o THEN batch ELSE num_accounts - o)
        /\ Contents(q)[j] = owner[o + j - 1]
    BY <1>0, <1>6, ContentsOf
  <2>2. s \in Nat /\ s >= 1 /\ o \in Nat
    BY <1>1, <1>6, IndexOfPair, SMTT(30)
  <2>3. j \in Nat /\ j >= 1
    <3> HIDE DEF o
    <3> QED
      BY <1>0, <2>1, <2>2, SMTT(30)
  <2>4. o + j - 1 = x
    BY <1>1, <2>2, <2>3, IndexOfPair, SMTT(30)
  <2> HIDE DEF q, o, x
  <2>5. x \in 0 .. num_accounts - 1
    <3>1. o \in Int /\ num_accounts - o \in Int /\ batch \in Int
      BY <1>0, <2>2
    <3>2. j \in DOMAIN Contents(q)
      BY <1>7 DEF q
    <3>3. j <= num_accounts - o
      BY <2>1, <3>1, <3>2, WithinBoth, SMTT(30)
    <3> QED
      BY <1>0, <2>2, <2>3, <2>4, <3>3, SMTT(30)
  <2> QED
    BY <2>1, <2>4, <2>5 DEF q, x
<1>8. PairsRight'
  <2> SUFFICES ASSUME NEW p \in pairs'
               PROVE  p[2] \in 0 .. num_accounts - 1 /\ p[1] = owner[p[2]]
    BY <1>3 DEF PairsRight
  <2>1. CASE p \in pairs
    BY <2>1, <1>0, SMTT(30) DEF PairsRight
  <2>2. CASE p \in found
    <3>1. PICK s \in D : \E j \in DOMAIN replies[s] :
            p = <<replies[s][j], first * batch + (s - 1) * batch + (j - 1)>>
      BY <2>2, <1>4
    <3>2. PICK j \in DOMAIN replies[s] :
            p = <<replies[s][j], first * batch + (s - 1) * batch + (j - 1)>>
      BY <3>1
    <3> QED
      BY <3>2, <1>4, <1>7, SMTT(30)
  <2> QED
    BY <2>1, <2>2, <1>3
<1>9. NothingSkipped'
  <2> SUFFICES ASSUME NEW i \in 0 .. swept' - 1
               PROVE  <<owner[i], i>> \in pairs'
    BY DEF NothingSkipped
  <2>1. CASE i < swept
    <3>1. i \in 0 .. swept - 1
      BY <2>1, <1>0, SMTT(30)
    <3> QED
      BY <3>1, <1>0, <1>3 DEF NothingSkipped
  <2>2. CASE i >= swept
    <3>1. i \in Nat /\ i < num /\ start <= i
      BY <2>2, <1>0, <1>5, SMTT(30)
    <3> DEFINE q == i \div batch
               o == q * batch
               s == q - first + 1
               j == i - o + 1
    <3>2. q \in Nat /\ o <= i /\ i < o + batch /\ o \in Nat
      <4>1. q \in Nat /\ o <= i /\ i < o + batch
        BY <3>1, SubtreeOf
      <4> HIDE DEF q
      <4> QED
        BY <4>1, <1>0
    <3> HIDE DEF q
    <3>3. first <= q
      <4>1. first * batch < q * batch + batch
        BY <3>1, <3>2, <1>0, <1>1, SMTT(30)
      <4> QED
        BY <4>1, <3>2, <1>1, SubtreeOrder, SMTT(30)
    <3>4. q + 1 <= end
      <4>1. (q + 1) * batch = q * batch + batch
        BY <3>2, <1>0
      <4>2. (q + 1) * batch < end * batch + batch
        BY <4>1, <3>1, <3>2, <1>0, <1>1, SMTT(30)
      <4> QED
        BY <4>2, <3>2, <1>1, SubtreeOrder, SMTT(30)
    <3>5. s \in D /\ first + s - 1 = q
      BY <3>2, <3>3, <3>4, <1>1, SMTT(30) DEF D
    <3>6. j \in DOMAIN Contents(q)
      <4>1. /\ j \in Nat /\ j >= 1 /\ j <= batch /\ j <= num_accounts - o
        BY <3>1, <3>2, <1>0, SMTT(30)
      <4>2. DOMAIN Contents(q) =
              1 .. (IF batch <= num_accounts - o THEN batch ELSE num_accounts - o)
        BY <3>2, <1>0, ContentsOf
      <4>3. num_accounts - o \in Int /\ batch \in Int
        BY <1>0, <3>2
      <4> HIDE DEF j, o
      <4> QED
        BY <4>1, <4>2, <4>3, WithinBoth, SMTT(30)
    <3>7. first * batch + (s - 1) * batch + (j - 1) = i
      <4>1. s \in Nat /\ j \in Nat
        BY <3>2, <3>3, <1>1, SMTT(30)
      <4> HIDE DEF s, j
      <4>2. (first + s - 1) * batch + j - 1 = first * batch + (s - 1) * batch + (j - 1)
        BY <4>1, <1>1, IndexOfPair
      <4>3. (first + s - 1) * batch + j - 1 = i
        BY <3>1, <3>2, <3>5, SMTT(30) DEF j
      <4> QED
        BY <4>2, <4>3
    <3> HIDE DEF s, j
    <3>8. Contents(first + s - 1)[j] = owner[i]
      BY <3>5, <3>6, <3>7, <1>7, SMTT(30)
    <3>9. <<replies[s][j], first * batch + (s - 1) * batch + (j - 1)>> \in found
      <4>1. j \in DOMAIN replies[s]
        BY <3>5, <3>6, <1>4
      <4> QED
        BY <4>1, <3>5, <1>4, SMTT(30)
    <3> QED
      BY <3>5, <3>7, <3>8, <3>9, <1>3, <1>4, SMTT(30)
  <2> QED
    BY <2>1, <2>2, <1>0, <1>5, SMTT(30)
<1> QED
  BY <1>0, <1>3, <1>5, <1>8, <1>9, SMTT(30) DEF SweepInv

\* Every step of the ledger and of the consumer keeps the map right.
LEMMA SweepStep ==
  ASSUME SweepInv, [SweepNext]_sweep_vars
  PROVE  SweepInv'
<1>1. CASE UNCHANGED sweep_vars
  BY <1>1 DEF sweep_vars, SweepInv, PairsRight, NothingSkipped
<1>2. CASE CreateAccount
  <2>1. Capacity \in Nat
    BY SweepAssumption
  <2> QED
    BY <1>2, <2>1 DEF CreateAccount, SweepInv, PairsRight, NothingSkipped
<1> QED
  BY <1>1, <1>2, RoundStep, SMTT(30) DEF SweepNext

\* The invariant of the sweep holds throughout the life of a light client.
THEOREM SweepInvariant == ClientSpec => []SweepInv
<1>1. ClientInit => SweepInv
  <2>1. Capacity \in Nat
    BY SweepAssumption
  <2> QED
    BY <2>1 DEF ClientInit, SweepInit, SweepInv, PairsRight, NothingSkipped
<1>2. SweepInv /\ [ClientNext]_<<vars, sweep_vars>> => SweepInv'
  <2> SUFFICES ASSUME SweepInv, [ClientNext]_<<vars, sweep_vars>>
               PROVE  SweepInv'
    OBVIOUS
  <2>1. [SweepNext]_sweep_vars
    BY DEF ClientNext
  <2> QED
    BY <2>1, SweepStep
<1> QED
  BY <1>1, <1>2, PTL DEF ClientSpec

\* Every pair of the map is right, whatever the size of the ledger and of a
\* subtree, wherever a round starts and however far the last subtree is filled.
THEOREM SweepIsRight == ClientSpec => []PairsRight
<1>1. SweepInv => PairsRight
  BY DEF SweepInv
<1> QED
  BY <1>1, SweepInvariant, PTL

\* The map is complete up to where the client has swept, however the rounds
\* overlap and fail and while the ledger grows between them.
THEOREM SweepIsComplete == ClientSpec => []NothingSkipped
<1>1. SweepInv => NothingSkipped
  BY DEF SweepInv
<1> QED
  BY <1>1, SweepInvariant, PTL

\* A light client's reads are those of AccountRead: what is proved of them holds
\* for it too.
THEOREM ClientReads == ClientSpec => Spec
<1>1. ClientInit => Init
  BY DEF ClientInit
<1>2. [ClientNext]_<<vars, sweep_vars>> => [Next]_vars
  BY DEF ClientNext
<1> QED
  BY <1>1, <1>2, PTL DEF ClientSpec, Spec
=============================================================================
