--------------------------- MODULE MCLiveMonitor ---------------------------
(* The live monitor on a small fork, with every kind of gossip message. *)
EXTENDS LiveMonitor, TLC

mcChain ==
     "g"  :> <<"g">>
  @@ "a2" :> <<"g", "a2">>
  @@ "b2" :> <<"g", "b2">>
  @@ "b3" :> <<"g", "b2", "b3">>

mcBlock == DOMAIN mcChain

mcRank == "g" :> 0 @@ "b2" :> 1 @@ "a2" :> 2 @@ "b3" :> 3

mcDensity == [b \in mcBlock |-> 0]

mcShortRange == mcBlock \X mcBlock

\* forged carries a block with a bad proof, odd one with a bad field, fatal one
\* that trips an assertion of the verifier; cut has tag 0 and no block, diff is
\* a pool diff, and runt is shorter than nine bytes.
mcCarries ==
     "m_g" :> "g" @@ "m_a2" :> "a2" @@ "m_b2" :> "b2" @@ "m_b3" :> "b3"
  @@ "forged" :> "a2" @@ "odd" :> "b2" @@ "fatal" :> "b3"
  @@ "cut" :> None @@ "diff" :> None @@ "runt" :> None

mcMessage == DOMAIN mcCarries

mcTag == [m \in mcMessage |-> IF m = "runt" THEN None ELSE IF m = "diff" THEN 1 ELSE 0]

mcProof ==
  [m \in mcMessage |-> IF m = "forged" THEN "invalid"
                       ELSE IF m = "odd" THEN "malformed"
                       ELSE IF m = "fatal" THEN "panics" ELSE "valid"]
=============================================================================
