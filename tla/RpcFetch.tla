------------------------------- MODULE RpcFetch -------------------------------
(***************************************************************************)
(* The RPC client: crates/mina-verify-capture/src/rpc.rs and rpc_net.rs.   *)
(*                                                                         *)
(* A fetch dials every peer.  On each connection a handler asks for one    *)
(* substream; the first stream that reaches the fetch is used for all its  *)
(* queries, later ones are dropped.  On that stream RpcConn sends a        *)
(* handshake and the queries one by one, each with a fresh id, and reads   *)
(* frames until one answers the id.  The whole races a deadline.           *)
(*                                                                         *)
(* A peer may fail to be dialled or to negotiate, close the connection,    *)
(* stall, delay, repeat or reorder its responses, send frames that answer  *)
(* nothing, errors and garbage, the length in front of a frame included.   *)
(* It answers only queries it received.                                    *)
(***************************************************************************)
EXTENDS Naturals, Sequences, FiniteSets

CONSTANTS
  Peer,
  Reliable,     \* peers that answer every query in proper frames, in their own time
  Batch,        \* the lists of queries given to fetch_sync_ledger_answers
  reply,        \* reply[p][q]: what peer p answers to query q
  None

ASSUME ReliableAssumption == Reliable \subseteq Peer
ASSUME NoneAssumption == None \notin Peer /\ None \notin Nat /\ None # "Ok"

IsSeq(s) == s \in Seq({s[k] : k \in DOMAIN s})
ASSUME BatchAssumption == \A list \in Batch : IsSeq(list)

VARIABLES
  queries,      \* the queries of the call
  result,       \* "idle", "pending", "ok", "err" or "panic"
  answers,      \* answers collected
  expired,      \* the deadline ended the call
  link,         \* per peer: "none", "dialing", "up" or "down"
  requested,    \* RpcHandler::requested, as the set of peers where it is true
  negotiating,  \* per peer: substreams asked for and not negotiated
  ready,        \* RpcHandler::ready, as its length
  opened,       \* history: substreams opened per peer
  streams,      \* RpcBehaviour::streams, as the peers they lead to
  used,         \* the peer whose stream the fetch uses, or None
  next_id,      \* RpcConn::next_id, 0 before the handshake is sent
  waiting       \* the id call waits for, or None

swarm_vars == <<link, requested, negotiating, ready, opened, streams>>
rpc_vars == <<queries, result, answers, expired, used, next_id, waiting>>

QUERY_ID == 1

\* The id of handshakes, heartbeats and other frames that answer no query.
HANDSHAKE_ID == 0

RpcInit ==
  /\ queries = <<>>
  /\ result = "idle"
  /\ answers = <<>>
  /\ expired = FALSE
  /\ link = [p \in Peer |-> "none"]
  /\ requested = {}
  /\ negotiating = [p \in Peer |-> 0]
  /\ ready = [p \in Peer |-> 0]
  /\ opened = [p \in Peer |-> 0]
  /\ streams = <<>>
  /\ used = None
  /\ next_id = 0
  /\ waiting = None

-----------------------------------------------------------------------------
(* The call and its end.                                                   *)

\* transport::swarm dials every address.
Begin(list) ==
  /\ result = "idle"
  /\ result' = "pending"
  /\ queries' = list
  /\ link' = [p \in Peer |-> "dialing"]
  /\ UNCHANGED <<answers, expired, used, next_id, waiting,
                 requested, negotiating, ready, opened, streams>>

fetch_best_tip == Begin(<<"get_best_tip">>)
fetch_sync_ledger_answers == \E list \in Batch : Begin(list)

Return(outcome) ==
  /\ result' = outcome
  /\ UNCHANGED <<queries, answers, expired, used, next_id, waiting, swarm_vars>>

\* Flawed variant: the sleep races only the wait for a stream.
Deadline_before_stream ==
  /\ result = "pending"
  /\ used = None
  /\ expired' = TRUE
  /\ result' = "err"
  /\ UNCHANGED <<queries, answers, used, next_id, waiting, swarm_vars>>

\* The select with the sleep, around everything else.
Deadline ==
  /\ result = "pending"
  /\ expired' = TRUE
  /\ result' = "err"
  /\ UNCHANGED <<queries, answers, used, next_id, waiting, swarm_vars>>

-----------------------------------------------------------------------------
(* The swarm, polled while the call waits and while it runs queries.       *)

\* Each connection gets an RpcHandler::default().
DialEnds(p) ==
  /\ link[p] = "dialing"
  /\ \/ link' = [link EXCEPT ![p] = "up"]
     \/ p \notin Reliable /\ link' = [link EXCEPT ![p] = "down"]
  /\ UNCHANGED <<requested, negotiating, ready, opened, streams>>

Close(p) ==
  /\ p \notin Reliable
  /\ link[p] = "up"
  /\ link' = [link EXCEPT ![p] = "down"]
  /\ negotiating' = [negotiating EXCEPT ![p] = 0]
  /\ ready' = [ready EXCEPT ![p] = 0]
  /\ UNCHANGED <<requested, opened, streams>>

\* Flawed variant: the handler forgets that it asked.
RequestSubstream_again(p) ==
  /\ link[p] = "up"
  /\ opened[p] < 2
  /\ negotiating[p] = 0
  /\ negotiating' = [negotiating EXCEPT ![p] = @ + 1]
  /\ UNCHANGED <<link, requested, ready, opened, streams>>

RequestSubstream(p) ==
  /\ link[p] = "up"
  /\ p \notin requested
  /\ requested' = requested \cup {p}
  /\ negotiating' = [negotiating EXCEPT ![p] = @ + 1]
  /\ UNCHANGED <<link, ready, opened, streams>>

\* FullyNegotiatedOutbound is queued, a failed negotiation is ignored.
Negotiated(p) ==
  /\ negotiating[p] > 0
  /\ negotiating' = [negotiating EXCEPT ![p] = @ - 1]
  /\ \/ /\ ready' = [ready EXCEPT ![p] = @ + 1]
        /\ opened' = [opened EXCEPT ![p] = @ + 1]
     \/ p \notin Reliable /\ UNCHANGED <<ready, opened>>
  /\ UNCHANGED <<link, requested, streams>>

\* RpcHandler::poll to RpcBehaviour::on_connection_handler_event.
NotifyBehaviour(p) ==
  /\ ready[p] > 0
  /\ ready' = [ready EXCEPT ![p] = @ - 1]
  /\ streams' = Append(streams, p)
  /\ UNCHANGED <<link, requested, negotiating, opened>>

Connections ==
  /\ result = "pending"
  /\ \E p \in Peer : \/ DialEnds(p)
                     \/ Close(p)
                     \/ RequestSubstream(p)
                     \/ Negotiated(p)
                     \/ NotifyBehaviour(p)
  /\ UNCHANGED rpc_vars

\* The swarm event with a stream: the first is used, the others are dropped.
StreamEvent ==
  /\ result = "pending"
  /\ streams # <<>>
  /\ streams' = Tail(streams)
  /\ used' = IF used = None THEN Head(streams) ELSE used
  /\ UNCHANGED <<queries, result, answers, expired, next_id, waiting,
                 link, requested, negotiating, ready, opened>>

-----------------------------------------------------------------------------
(* RpcConn on the stream in use.                                           *)

Running == result = "pending" /\ used # None

\* open: the handshake.
Open ==
  /\ Running
  /\ next_id = 0
  /\ link[used] = "up"
  /\ next_id' = QUERY_ID
  /\ UNCHANGED <<queries, result, answers, expired, used, waiting, swarm_vars>>

SendQuery ==
  /\ Running
  /\ next_id # 0
  /\ waiting = None
  /\ Len(answers) < Len(queries)
  /\ link[used] = "up"
  /\ waiting' = next_id
  /\ next_id' = next_id + 1
  /\ UNCHANGED <<queries, result, answers, expired, used, swarm_vars>>

\* Flawed variant: any response is taken for the one waited for.
ReadAnswer_any(id) ==
  /\ id # HANDSHAKE_ID
  /\ answers' = Append(answers, reply[used][queries[id]])
  /\ waiting' = None
  /\ UNCHANGED <<queries, result, expired, used, next_id, swarm_vars>>

\* A response with the id call waits for.
ReadAnswer(id) ==
  /\ id = waiting
  /\ answers' = Append(answers, reply[used][queries[id]])
  /\ waiting' = None
  /\ UNCHANGED <<queries, result, expired, used, next_id, swarm_vars>>

\* Flawed variant: a frame with another id ends the call.
SkipFrame_error(id) == id # waiting /\ Return("err")

\* A frame with another id: the handshake, a heartbeat, a late or repeated
\* response.
SkipFrame(id) ==
  /\ id # waiting
  /\ UNCHANGED <<rpc_vars, swarm_vars>>

\* The peer has received the ids below next_id.
ReadFrame ==
  /\ Running
  /\ waiting # None
  /\ \E id \in HANDSHAKE_ID .. next_id - 1 : ReadAnswer(id) \/ SkipFrame(id)

\* Anything that call or the walk turns into an error: the connection is gone;
\* a header or payload that does not decode, an error of the RPC kernel, an
\* error of the method, or no best tip.
RpcFails ==
  /\ Running
  /\ \/ link[used] = "down"
     \/ waiting # None /\ used \notin Reliable
  /\ Return("err")

\* The length in front of a frame is the peer's word: vec![0u8; len] of a length
\* beyond what can be allocated panics or aborts, and call returns nothing.
FrameTooLong ==
  /\ Running
  /\ waiting # None
  /\ used \notin Reliable
  /\ Return("panic")

Complete ==
  /\ Running
  /\ next_id # 0
  /\ waiting = None
  /\ Len(answers) = Len(queries)
  /\ Return("ok")

RpcStep ==
  \/ Deadline
  \/ Connections
  \/ StreamEvent
  \/ Open
  \/ SendQuery
  \/ ReadFrame
  \/ RpcFails
  \/ FrameTooLong
  \/ Complete

-----------------------------------------------------------------------------

\* A call that began ends, with all answers in the order of the queries and
\* from one peer, or with an error or a panic and none: late, repeated and
\* reordered responses and streams of other peers never get into the answers.
Abstract == INSTANCE Fetch WITH
  status <- result,
  returned <- IF result = "ok" THEN answers ELSE <<>>
ImplementsFetch == Abstract!Spec

\* If the stream in use leads to a peer that answers in its own time, only the
\* deadline can make the call fail and nothing makes it panic: heartbeats,
\* handshakes, responses to other ids, and whatever happens on the other
\* connections, do it no harm.
NoiseIsHarmless == used \in Reliable => result # "panic" /\ (result = "err" => expired)

\* "opens one outbound substream per connection"
OneStreamPerConnection == \A p \in Peer : opened[p] <= 1
=============================================================================
