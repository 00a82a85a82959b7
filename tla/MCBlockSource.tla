---------------------------- MODULE MCBlockSource ----------------------------
(***************************************************************************)
(* Three peers, one of which answers in its own time; of the others one    *)
(* reports a tip that does not verify, and one a tip whose verification    *)
(* panics.                                                                 *)
(***************************************************************************)
EXTENDS BlockSource, TLC

mcReliable == {"p"}
mcBatch == {<<>>, <<"q1">>, <<"q1", "q2", "q3">>}
mcQueries == {"get_best_tip", "q1", "q2", "q3"}
mcTip == "p" :> "good" @@ "r" :> "unproven" @@ "s" :> "broken"
mcReply ==
  [r \in {"p", "r", "s"} |->
     [q \in mcQueries |->
        IF q = "get_best_tip" THEN mcTip[r] ELSE <<r, q>>]]

mcJson == {"j1", "j2", "j3", "j4"}
mcDecoded == "j1" :> "good" @@ "j2" :> "unproven" @@ "j3" :> None @@ "j4" :> "broken"
mcProof == "good" :> "valid" @@ "unproven" :> "invalid" @@ "broken" :> "panics"
=============================================================================
