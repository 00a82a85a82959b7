--------------------------- MODULE MCChainMonitor ---------------------------
(***************************************************************************)
(* ChainMonitor over one block tree:                                       *)
(*                                                                         *)
(*   height    1     2      3      4                                       *)
(*                 / a2 - a3 - a4                                          *)
(*             g -      \ c3                                               *)
(*                 \ b2 - b3 - b4                                          *)
(*                                                                         *)
(* The ranks make the two branches overtake each other at every height.    *)
(***************************************************************************)
EXTENDS ChainMonitor, TLC

mcTree ==
     "g"  :> <<"g">>
  @@ "a2" :> <<"g", "a2">>
  @@ "b2" :> <<"g", "b2">>
  @@ "a3" :> <<"g", "a2", "a3">>
  @@ "b3" :> <<"g", "b2", "b3">>
  @@ "c3" :> <<"g", "a2", "c3">>
  @@ "a4" :> <<"g", "a2", "a3", "a4">>
  @@ "b4" :> <<"g", "b2", "b3", "b4">>

mcBlock == DOMAIN mcTree
mcChain == [b \in mcBlock |-> mcTree[b]]

mcOrder == <<"g", "a2", "b2", "c3", "b3", "a3", "a4", "b4">>
mcRank == [b \in mcBlock |-> CHOOSE r \in 1 .. Len(mcOrder) : mcOrder[r] = b]

mcDensity == [b \in mcBlock |-> 0]

mcShortRange == mcBlock \X mcBlock

\* The same tree across a long range: the branches of a2 and b2 are compared by
\* density, which falls along a branch, and blocks of one branch by length.
\* The preference has a cycle: a2 beats b2, b2 beats a3, a3 beats a2.
mcLongDensity ==
     "g" :> 5 @@ "a2" :> 5 @@ "a3" :> 2 @@ "a4" :> 2 @@ "c3" :> 5
  @@ "b2" :> 4 @@ "b3" :> 3 @@ "b4" :> 3

mcLongShortRange ==
  LET aBranch == {"g", "a2", "a3", "a4", "c3"}
      bBranch == {"g", "b2", "b3", "b4"}
  IN  (aBranch \X aBranch) \cup (bBranch \X bBranch)
=============================================================================
