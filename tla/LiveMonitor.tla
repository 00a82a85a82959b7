----------------------------- MODULE LiveMonitor -----------------------------
(***************************************************************************)
(* The live monitor: crates/mina-verify-monitor/src/main.rs with the event *)
(* loop of subscribe_blocks (crates/mina-verify-capture/src/lib.rs).       *)
(*                                                                         *)
(* Two threads joined by an mpsc channel.  The main thread runs the gossip *)
(* loop and hands each block payload to the channel until the deadline;    *)
(* then it drops the sender and joins the worker.  The worker builds its   *)
(* verifier, and for each payload decodes, verifies and ingests into a     *)
(* ChainMonitor; when the channel is closed and empty it prints a summary. *)
(* A panic in the worker drops the receiver: send then fails, which the    *)
(* callback ignores, as main ignores the result of join.                   *)
(***************************************************************************)
EXTENDS ChainMonitor

CONSTANTS
  Message,      \* messages of the gossip topic
  tag,          \* [Message -> Nat \cup {None}]: byte 8, None in a shorter message
  carries,      \* [Message -> Block \cup {None}]: the block binprot reads, if any
  proof,        \* [Message -> Proofs]: what the verifier makes of that block
  MaxArrivals   \* bound: messages received before the deadline

\* The outcomes of verify_tip, a panic inside proof verification included.
Proofs == {"valid", "invalid", "malformed", "panics"}

\* NewState is the variant of tag 0, and the only one that carries a block.
ASSUME MessageAssumption ==
  /\ None \notin Nat
  /\ tag \in [Message -> Nat \cup {None}]
  /\ carries \in [Message -> Block \cup {None}]
  /\ proof \in [Message -> Proofs]
  /\ \A m \in Message : carries[m] # None => tag[m] = 0

ASSUME ArrivalsAssumption == MaxArrivals \in Nat

\* ChainMonitor::new(512): from two blocks on, ingest does not panic.
ASSUME WindowAssumption == requested >= 2

\* Networks with seed peers, and networks with an embedded verification key.
network_seeds == {"devnet", "mainnet", "mesa-mut"}
SUPPORTED_NETWORKS == {"devnet", "mainnet"}

VARIABLES
  network,     \* MINA_NETWORK
  main,        \* main thread: "gossip", "joining" or "exited"
  worker,      \* worker thread: "building", "receiving", "done" or "dead"
  channel,     \* payloads sent and not received
  counts,      \* the worker's counters ingested and rejected
  summary,     \* what the worker printed last, or None
  arrivals,    \* number of messages so far
  sent,        \* history: payloads handed to the callback
  handled      \* history: payloads the worker is done with

\* The worker owns the variables of ChainMonitor.
worker_vars == <<counts, vars, handled>>
live_vars == <<network, main, worker, channel, summary, arrivals, sent, worker_vars>>

LiveInit ==
  /\ Init
  /\ network \in network_seeds   \* main panics on any other
  /\ main = "gossip"
  /\ worker = "building"
  /\ channel = <<>>
  /\ counts = [ingested |-> 0, rejected |-> 0]
  /\ summary = None
  /\ arrivals = 0
  /\ sent = <<>>
  /\ handled = <<>>

-----------------------------------------------------------------------------
(* The main thread.                                                        *)

ReceiverAlive == worker \in {"building", "receiving"}

is_new_state(m) == tag[m] = 0

\* A gossip message reaches the loop; on_block always continues.
GossipMessage(m) ==
  /\ main = "gossip"
  /\ arrivals < MaxArrivals
  /\ arrivals' = arrivals + 1
  /\ IF is_new_state(m)
       THEN /\ sent' = Append(sent, m)
            /\ channel' = IF ReceiverAlive THEN Append(channel, m) ELSE channel
       ELSE UNCHANGED <<sent, channel>>
  /\ UNCHANGED <<network, main, worker, summary, worker_vars>>

\* The deadline: subscribe_blocks returns and tx is dropped.
Deadline ==
  /\ main = "gossip"
  /\ main' = "joining"
  /\ UNCHANGED <<network, worker, channel, summary, arrivals, sent, worker_vars>>

Join ==
  /\ main = "joining"
  /\ ~ReceiverAlive
  /\ main' = "exited"
  /\ UNCHANGED <<network, worker, channel, summary, arrivals, sent, worker_vars>>

-----------------------------------------------------------------------------
(* The worker thread.                                                      *)

\* The worker unwinds: rx is dropped with what is queued.
Die == worker' = "dead" /\ channel' = <<>>

\* Verifier::for_network(..).expect("verifier for network"): it fails on a network
\* without a key, and on devnet if mina-tree's key does not load (VerifierInit).
BuildWorkerVerifier ==
  /\ worker = "building"
  /\ \/ network \in SUPPORTED_NETWORKS /\ worker' = "receiving" /\ UNCHANGED channel
     \/ network # "mainnet" /\ Die
  /\ UNCHANGED <<network, main, summary, arrivals, sent, worker_vars>>

block_from_gossip_payload(m) ==
  IF tag[m] = None THEN "TooShort"
  ELSE IF carries[m] # None THEN "Ok"
  ELSE IF tag[m] = 0 THEN "Binprot" ELSE "NotABlock"

\* while let Ok(payload) = rx.recv()
Received(m) ==
  /\ worker = "receiving"
  /\ channel # <<>>
  /\ m = Head(channel)
  /\ UNCHANGED <<network, main, summary, arrivals, sent>>

Consumed(m) ==
  /\ channel' = Tail(channel)
  /\ handled' = Append(handled, m)
  /\ UNCHANGED worker

\* Decode errors and malformed blocks are skipped.
SkipPayload(m) ==
  /\ Received(m)
  /\ \/ block_from_gossip_payload(m) # "Ok"
     \/ block_from_gossip_payload(m) = "Ok" /\ proof[m] = "malformed"
  /\ Consumed(m)
  /\ UNCHANGED <<counts, vars>>

\* Flawed variant: a rejected block is counted and then falls through to ingest.
RejectBlock_fall_through(m) ==
  /\ Received(m)
  /\ block_from_gossip_payload(m) = "Ok" /\ proof[m] = "invalid"
  /\ counts' = [counts EXCEPT !.rejected = @ + 1]
  /\ ingest(carries[m])
  /\ Consumed(m)

RejectBlock(m) ==
  /\ Received(m)
  /\ block_from_gossip_payload(m) = "Ok" /\ proof[m] = "invalid"
  /\ counts' = [counts EXCEPT !.rejected = @ + 1]
  /\ Consumed(m)
  /\ UNCHANGED vars

IngestBlock(m) ==
  /\ Received(m)
  /\ block_from_gossip_payload(m) = "Ok" /\ proof[m] = "valid"
  /\ ingest(carries[m])
  /\ counts' = [counts EXCEPT !.ingested = @ + 1]
  /\ Consumed(m)

VerifyPanics(m) ==
  /\ Received(m)
  /\ block_from_gossip_payload(m) = "Ok" /\ proof[m] = "panics"
  /\ Die
  /\ UNCHANGED worker_vars

Summary == [ingested |-> counts.ingested, rejected |-> counts.rejected,
            best_height |-> IF best_hash = None THEN None ELSE height(best)]

\* Flawed variant: a closed channel is not drained.
PrintSummary_undrained ==
  /\ worker = "receiving" /\ main # "gossip"
  /\ worker' = "done"
  /\ channel' = <<>>
  /\ summary' = Summary
  /\ UNCHANGED <<network, main, arrivals, sent, worker_vars>>

\* Flawed variant: tx is kept alive across join.
PrintSummary_sender_kept ==
  /\ worker = "receiving" /\ channel = <<>> /\ main = "exited"
  /\ worker' = "done"
  /\ summary' = Summary
  /\ UNCHANGED <<network, main, channel, arrivals, sent, worker_vars>>

\* rx.recv() fails: every sender is dropped and the channel is empty.
PrintSummary ==
  /\ worker = "receiving" /\ channel = <<>> /\ main # "gossip"
  /\ worker' = "done"
  /\ summary' = Summary
  /\ UNCHANGED <<network, main, channel, arrivals, sent, worker_vars>>

WorkerStep ==
  \/ BuildWorkerVerifier
  \/ \E m \in Message : \/ SkipPayload(m) \/ RejectBlock(m)
                        \/ IngestBlock(m) \/ VerifyPanics(m)
  \/ PrintSummary

LiveNext ==
  \/ \E m \in Message : GossipMessage(m)
  \/ Deadline
  \/ Join
  \/ WorkerStep

\* The timer fires, join returns once the thread ended, and the worker, which
\* shares nothing but the channel, is scheduled by the operating system.
LiveSpec ==
  LiveInit /\ [][LiveNext]_live_vars
  /\ WF_live_vars(Deadline) /\ WF_live_vars(Join) /\ WF_live_vars(WorkerStep)

-----------------------------------------------------------------------------
(* Properties.                                                             *)

\* Blocks whose proof verified among a list of payloads, and how many payloads
\* had a given outcome.
Verified(s) == {carries[s[i]] : i \in {j \in 1 .. Len(s) :
                  carries[s[j]] # None /\ proof[s[j]] = "valid"}}
Tally(s, p) == Cardinality({i \in 1 .. Len(s) : carries[s[i]] # None /\ proof[s[i]] = p})

\* "verify-before-ingest": the monitor was given exactly the blocks that the
\* worker took from the channel and whose proof verified; no other block ever
\* reaches its window or its best.
VerifyBeforeIngest == seen = Verified(handled) /\ nodes \subseteq seen

\* "close the channel so the worker drains and prints its summary": a summary
\* accounts for every payload delivered before the deadline, however many were
\* still queued then, and names the canonical tip among all of them.
SummaryIsComplete ==
  summary # None =>
    /\ summary.ingested = Tally(sent, "valid")
    /\ summary.rejected = Tally(sent, "invalid")
    /\ IF Verified(sent) = {} THEN summary.best_height = None
       ELSE \E b \in Verified(sent) :
              /\ summary.best_height = height(b)
              /\ \A c \in Verified(sent) \ {b} : consensus_take(c, b)

\* The process ends after its deadline, and not before the worker printed its
\* summary, unless the worker panicked.
Terminates == <>[](main = "exited" /\ (summary # None \/ worker = "dead"))

\* The comment on drop(tx) in main: "close the channel so the worker drains and
\* prints its summary".
SummaryAtExit == main = "exited" => summary # None
=============================================================================
