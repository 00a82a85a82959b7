----------------------------- MODULE BlockSource -----------------------------
(***************************************************************************)
(* verify_from: crates/mina-verify-monitor/src/source.rs, over the RPC     *)
(* client of RpcFetch.  A block comes from a JSON in memory or from a live *)
(* node, and its proof is verified before anything is returned.            *)
(*                                                                         *)
(* A caller of the RPC client may also fetch ledger answers; it verifies   *)
(* them by itself (AccountRead).                                           *)
(***************************************************************************)
EXTENDS RpcFetch

CONSTANTS
  Json,      \* precomputed-block JSON documents
  decoded,   \* decoded[j]: the block in document j, or None
  proof      \* proof[b]: "valid", "invalid", "malformed" or "panics"

\* A best tip is a block.
ASSUME TipAssumption == \A p \in Peer : reply[p]["get_best_tip"] # None

Sources == [kind : {"Precomputed"}, json : Json]
           \cup [kind : {"Node"}, network : {"known", "unknown"}]
           \cup {[kind |-> "Ledger"]}

VARIABLES
  source,    \* the argument of verify_from
  outcome,   \* None, "Ok", the SourceError or "panic"
  facts      \* the block whose facts are returned, or None

source_vars == <<source, outcome, facts>>
vars == <<rpc_vars, swarm_vars, source_vars>>

Init ==
  /\ RpcInit
  /\ source \in Sources
  /\ outcome = None
  /\ facts = None

network_seeds(network) == network = "known"

\* rpc_net::fetch_best_tip(..).await, and the other caller of the client.
Fetching ==
  /\ \/ /\ source.kind = "Node"
        /\ network_seeds(source.network)
        /\ fetch_best_tip
     \/ source.kind = "Ledger" /\ fetch_sync_ledger_answers
     \/ RpcStep
  /\ UNCHANGED source_vars

\* An end without facts: a SourceError, or a panic that nothing here catches.
End(how) ==
  /\ outcome' = how
  /\ UNCHANGED <<source, facts, rpc_vars, swarm_vars>>

\* Flawed variant: a block that decodes is let through.
verify_and_extract_decoded(b) ==
  /\ outcome' = "Ok"
  /\ facts' = b
  /\ UNCHANGED <<source, rpc_vars, swarm_vars>>

\* verify_header, then the facts of the header.
verify_and_extract(b) ==
  \/ /\ proof[b] = "valid"
     /\ outcome' = "Ok"
     /\ facts' = b
     /\ UNCHANGED <<source, rpc_vars, swarm_vars>>
  \/ proof[b] \in {"invalid", "malformed"} /\ End("Verifier")
  \/ proof[b] = "panics" /\ End("panic")

VerifyPrecomputed ==
  /\ source.kind = "Precomputed"
  /\ outcome = None
  /\ \/ decoded[source.json] = None /\ End("Verifier")
     \/ /\ decoded[source.json] # None
        /\ verify_and_extract(decoded[source.json])

UnknownNetwork ==
  /\ source.kind = "Node"
  /\ outcome = None
  /\ ~network_seeds(source.network)
  /\ End("UnknownNetwork")

VerifyFetched ==
  /\ source.kind = "Node"
  /\ outcome = None
  /\ \/ result = "err" /\ End("Rpc")
     \/ result = "panic" /\ End("panic")
     \/ result = "ok" /\ verify_and_extract(answers[1])

Next ==
  \/ Fetching
  \/ VerifyPrecomputed
  \/ UnknownNetwork
  \/ VerifyFetched

\* The deadline passes; the caller's task is polled.
Fairness ==
  /\ WF_vars(Deadline /\ UNCHANGED source_vars)
  /\ WF_vars(VerifyPrecomputed \/ UnknownNetwork \/ VerifyFetched)

Spec == Init /\ [][Next]_vars /\ Fairness

-----------------------------------------------------------------------------

\* Facts are returned only for a block whose proof verified, and it is the
\* block of the source named: the one in the JSON, or the best tip that one
\* peer reported.  In no other case is anything returned to ingest.
OnlyProvenFacts ==
  /\ outcome = "Ok" <=> facts # None
  /\ facts # None =>
       /\ proof[facts] = "valid"
       /\ \/ source.kind = "Precomputed" /\ facts = decoded[source.json]
          \/ /\ source.kind = "Node" /\ network_seeds(source.network)
             /\ \E p \in Peer : facts = reply[p]["get_best_tip"]

\* verify_from of a live node returns, with facts or with an error, whatever the
\* peers do short of two things no line of it catches: a frame whose length
\* cannot be allocated, and a block whose verification panics.
SourceReturns ==
  (source.kind = "Node" /\ result = "pending") ~>
    \/ outcome \in {"Ok", "Rpc", "Verifier"}
    \/ result = "panic"
    \/ source.kind = "Node" /\ result = "ok" /\ proof[answers[1]] = "panics"
=============================================================================
