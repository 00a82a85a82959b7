---------------------------- MODULE MCLightClient ----------------------------
(***************************************************************************)
(* The light client on a small ledger.                                     *)
(*                                                                         *)
(* Reads are over ledgers of depth 2.  "now" has four leaves filled, of    *)
(* which "old", an earlier ledger, has the first three, one with another   *)
(* balance.  Answers are taken from both, exchanged, or spoilt.            *)
(***************************************************************************)
EXTENDS LightClient

mcDepth == 2
mcLedger == {"now", "old"}
mcLeaf == [1 .. mcDepth -> {0, 1}]
mcAddress == UNION {[1 .. n -> {0, 1}] : n \in 0 .. mcDepth}

mcAccounts == [now |-> <<"a", "b", "c", "d">>, old |-> <<"a0", "b", "c", "empty">>]
mcContent ==
  [l \in mcLedger |-> [x \in mcLeaf |-> mcAccounts[l][2 * x[1] + x[2] + 1]]]

mcNode ==
  [l \in mcLedger |->
    LET below[x \in mcAddress] ==
          IF x \in mcLeaf THEN hash(mcContent[l][x])
          ELSE hash_node(mcDepth - 1 - Len(x), below[Append(x, 0)], below[Append(x, 1)])
    IN  below]

mcBadHash == <<"bad">>

\* The block commits to "now" in two places; the third is no field element.
\* Another block commits to "old" where the first commits to "now".
mcBlock == {[staged |-> mcNode["now"][<<>>], staking |-> mcNode["now"][<<>>],
             next |-> mcBadHash],
            [staged |-> mcBadHash, staking |-> mcNode["old"][<<>>],
             next |-> mcNode["old"][<<>>]]}

\* The first four indices, and two beyond the ledger.
mcIndex == 0 .. 5

mcChildren(l, x) == ChildHashesAre(mcNode[l][Append(x, 0)], mcNode[l][Append(x, 1)])
mcAnswers ==
  {mcChildren(l, x) : l \in mcLedger, x \in mcAddress \ mcLeaf}
  \cup {ChildHashesAre(mcNode["now"][<<1>>], mcNode["now"][<<0>>]),
        ChildHashesAre(mcBadHash, mcNode["now"][<<1>>]),
        ContentsAre(<<>>), ContentsAre(<<"undecodable">>), [type |-> "NumAccounts"]}
  \cup {ContentsAre(<<a>>) : a \in {"a", "a0", "b", "c", "d", "empty"}}
mcAnswerLists == [1 .. mcDepth + 1 -> mcAnswers] \cup {<<>>, <<ContentsAre(<<"a">>)>>}

\* Every path of up to three steps whose siblings are hashes of "now".
mcSteps == [side : {0, 1}, hash : {mcNode["now"][x] : x \in mcAddress}]
mcClaims ==
  [account : {"a", "c"},
   path : {<<>>} \cup [1 .. 1 -> mcSteps] \cup [1 .. 2 -> mcSteps]
          \cup {<<s, s, s>> : s \in mcSteps}]

mcOwner == [i \in 0 .. 5 |-> <<"B62a", "B62b", "B62c", "B62a", "B62d", "B62e">>[i + 1]]
=============================================================================
