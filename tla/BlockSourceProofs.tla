-------------------------- MODULE BlockSourceProofs --------------------------
(***************************************************************************)
(* Theorems about the RPC client and verify_from, for any peers, batches   *)
(* and replies.                                                            *)
(***************************************************************************)
EXTENDS BlockSource, SequenceTheorems, TLAPS

\* Connections: what a handler asked for is negotiated at most once, and a
\* reliable peer stays connected.
SwarmInv ==
  /\ link \in [Peer -> {"none", "dialing", "up", "down"}]
  /\ negotiating \in [Peer -> Nat]
  /\ opened \in [Peer -> Nat]
  /\ requested \subseteq Peer
  /\ \A p \in Peer : /\ p \notin requested => negotiating[p] + opened[p] = 0
                     /\ negotiating[p] + opened[p] <= 1
  /\ \A p \in Reliable : link[p] # "down"
  /\ ready \in [Peer -> Nat]
  /\ streams \in Seq(Peer)

\* The conversation: ids count the queries sent, so the id waited for is that of
\* the first query without an answer.
ConnInv ==
  /\ result \in {"idle", "pending", "ok", "err", "panic"}
  /\ used \in Peer \cup {None}
  /\ IsSeq(queries)
  /\ IsSeq(answers)
  /\ Len(answers) <= Len(queries)
  /\ \A k \in 1 .. Len(answers) : answers[k] = reply[used][queries[k]]
  /\ next_id \in Nat
  /\ used = None => next_id = 0
  /\ next_id = 0 => answers = <<>> /\ waiting = None
  /\ next_id # 0 /\ waiting = None => next_id = Len(answers) + 1
  /\ waiting # None => /\ waiting = Len(answers) + 1
                       /\ next_id = Len(answers) + 2
                       /\ Len(answers) < Len(queries)
  /\ result = "idle" => queries = <<>> /\ answers = <<>> /\ used = None
  /\ result = "ok" => used \in Peer /\ Len(answers) = Len(queries)

\* verify_from: a best tip is asked for only on behalf of a known network.
SourceInv ==
  /\ source.kind = "Node" /\ result # "idle" =>
       queries = <<"get_best_tip">> /\ network_seeds(source.network)
  /\ OnlyProvenFacts

IInv == SwarmInv /\ ConnInv /\ NoiseIsHarmless

-----------------------------------------------------------------------------

\* Appending keeps a sequence a sequence.
LEMMA AppendIsSeq ==
  ASSUME NEW s, NEW e, IsSeq(s)
  PROVE  /\ IsSeq(Append(s, e))
         /\ Len(s) \in Nat
         /\ Len(Append(s, e)) = Len(s) + 1
         /\ Append(s, e)[Len(s) + 1] = e
         /\ \A k \in 1 .. Len(s) : Append(s, e)[k] = s[k]
<1> DEFINE S == {s[k] : k \in DOMAIN s} \cup {e}
           t == Append(s, e)
<1>1. s \in Seq(S) /\ e \in S
  BY SMT DEF IsSeq
<1>2. /\ t \in Seq(S)
      /\ Len(t) = Len(s) + 1
      /\ t[Len(s) + 1] = e
      /\ \A k \in 1 .. Len(s) : t[k] = s[k]
      /\ Len(s) \in Nat
  <2> HIDE DEF S
  <2> QED BY <1>1, AppendProperties
<1>3. DOMAIN t = 1 .. Len(t)
  <2> HIDE DEF S, t
  <2> QED BY <1>2
<1>4. IsSeq(t)
  <2> HIDE DEF S, t
  <2> QED BY <1>2, <1>3 DEF IsSeq
<1> QED BY <1>2, <1>4

\* Nothing is dialled, asked or answered at first.
LEMMA InitIInv == Init => IInv /\ SourceInv
<1> SUFFICES ASSUME Init PROVE IInv /\ SourceInv
  OBVIOUS
<1>1. SwarmInv
  BY ReliableAssumption DEF Init, RpcInit, SwarmInv
<1>2. IsSeq(<<>>) /\ Len(<<>>) = 0
  BY DEF IsSeq
<1>3. ConnInv
  BY <1>2 DEF Init, RpcInit, ConnInv
<1>4. NoiseIsHarmless
  BY DEF Init, RpcInit, NoiseIsHarmless
<1>5. SourceInv
  BY NoneAssumption DEF Init, RpcInit, SourceInv, OnlyProvenFacts
<1> QED BY <1>1, <1>3, <1>4, <1>5 DEF IInv

\* A call that begins dials every peer.
LEMMA BeginIInv ==
  ASSUME IInv, NEW list, IsSeq(list), Begin(list)
  PROVE  IInv'
<1>1. SwarmInv'
  BY ReliableAssumption DEF IInv, SwarmInv, Begin
<1>2. /\ queries' = list /\ result' = "pending" /\ answers' = <<>> /\ used' = None
      /\ next_id' = 0 /\ waiting' = None
  BY DEF IInv, ConnInv, Begin
<1>3. IsSeq(<<>>) /\ Len(<<>>) = 0 /\ Len(list) \in Nat
  BY DEF IsSeq
<1>4. ConnInv'
  BY <1>2, <1>3 DEF ConnInv
<1>5. NoiseIsHarmless'
  BY <1>2 DEF NoiseIsHarmless
<1> QED BY <1>1, <1>4, <1>5 DEF IInv

\* A step of the swarm leaves the conversation alone.
LEMMA ConnectionsIInv == IInv /\ Connections => IInv'
<1> SUFFICES ASSUME IInv, Connections PROVE IInv'
  OBVIOUS
<1>1. ConnInv' /\ NoiseIsHarmless'
  BY DEF Connections, rpc_vars, IInv, ConnInv, NoiseIsHarmless
<1>2. PICK p \in Peer : \/ DialEnds(p)
                        \/ Close(p)
                        \/ RequestSubstream(p)
                        \/ Negotiated(p)
                        \/ NotifyBehaviour(p)
  BY DEF Connections
<1> USE ReliableAssumption DEF IInv, SwarmInv
<1>3. CASE DialEnds(p)
  BY <1>1, <1>3 DEF DialEnds
<1>4. CASE Close(p)
  BY <1>1, <1>4 DEF Close
<1>5. CASE RequestSubstream(p)
  BY <1>1, <1>5 DEF RequestSubstream
<1>6. CASE Negotiated(p)
  <2>1. /\ negotiating[p] > 0
        /\ negotiating' = [negotiating EXCEPT ![p] = @ - 1]
        /\ UNCHANGED <<link, requested, streams>>
    BY <1>6 DEF Negotiated
  <2>2. negotiating[p] = 1 /\ opened[p] = 0 /\ p \in requested
    BY <2>1
  <2>3. CASE /\ ready' = [ready EXCEPT ![p] = @ + 1]
             /\ opened' = [opened EXCEPT ![p] = @ + 1]
    <3>1. negotiating' \in [Peer -> Nat] /\ opened' \in [Peer -> Nat]
          /\ ready' \in [Peer -> Nat]
      BY <2>1, <2>3
    <3>2. \A q \in Peer : q # p => /\ negotiating'[q] = negotiating[q]
                                   /\ opened'[q] = opened[q]
      BY <2>1, <2>3
    <3>3. negotiating'[p] = 0 /\ opened'[p] = 1
      BY <2>1, <2>2, <2>3
    <3>4. SwarmInv'
      BY <2>1, <2>2, <3>1, <3>2, <3>3
    <3> QED BY <1>1, <3>4
  <2>4. CASE UNCHANGED <<ready, opened>>
    BY <1>1, <2>1, <2>4
  <2> QED BY <1>6, <2>3, <2>4 DEF Negotiated
<1>7. CASE NotifyBehaviour(p)
  BY <1>1, <1>7 DEF NotifyBehaviour
<1> QED BY <1>2, <1>3, <1>4, <1>5, <1>6, <1>7, Zenon

\* A matching frame is the answer to the first query without one; every other
\* frame changes nothing.
LEMMA ReadFrameIInv == IInv /\ ReadFrame => IInv'
<1> SUFFICES ASSUME IInv, ReadFrame PROVE IInv'
  OBVIOUS
<1>1. PICK id \in HANDSHAKE_ID .. next_id - 1 : ReadAnswer(id) \/ SkipFrame(id)
  BY DEF ReadFrame
<1>2. CASE SkipFrame(id)
  BY <1>2 DEF SkipFrame, rpc_vars, swarm_vars, IInv, SwarmInv, ConnInv, NoiseIsHarmless
<1>3. CASE ReadAnswer(id)
  <2> DEFINE n == Len(answers)
  <2>1. /\ id = waiting /\ waiting # None /\ waiting = n + 1 /\ next_id = n + 2
        /\ n < Len(queries) /\ result = "pending" /\ used # None
    BY <1>3 DEF ReadAnswer, ReadFrame, Running, IInv, ConnInv
  <2>2. /\ answers' = Append(answers, reply[used][queries[n + 1]])
        /\ waiting' = None
        /\ UNCHANGED <<queries, result, expired, used, next_id, swarm_vars>>
    BY <1>3, <2>1 DEF ReadAnswer
  <2>3. IsSeq(answers) /\ IsSeq(queries) /\ Len(queries) \in Nat
    BY DEF IInv, ConnInv, IsSeq
  <2>4. /\ IsSeq(answers') /\ n \in Nat /\ Len(answers') = n + 1
        /\ answers'[n + 1] = reply[used][queries[n + 1]]
        /\ \A k \in 1 .. n : answers'[k] = answers[k]
    BY <2>2, <2>3, AppendIsSeq
  <2> HIDE DEF n
  <2>5. \A k \in 1 .. n : answers[k] = reply[used][queries[k]]
    BY DEF IInv, ConnInv, n
  <2>6. \A k \in 1 .. n + 1 : answers'[k] = reply[used][queries[k]]
    BY <2>4, <2>5
  <2>7. ConnInv'
    BY <2>1, <2>2, <2>3, <2>4, <2>6 DEF IInv, ConnInv
  <2> QED BY <2>1, <2>2, <2>7 DEF swarm_vars, IInv, SwarmInv, NoiseIsHarmless
<1> QED BY <1>1, <1>2, <1>3

\* Every step of the RPC client keeps the invariant.
LEMMA RpcStepIInv == IInv /\ RpcStep => IInv'
<1> SUFFICES ASSUME IInv, RpcStep PROVE IInv'
  OBVIOUS
<1> USE DEF IInv
<1>1. CASE Deadline
  BY <1>1 DEF Deadline, swarm_vars, SwarmInv, ConnInv, NoiseIsHarmless
<1>2. CASE StreamEvent
  <2>1. /\ result = "pending" /\ streams # <<>> /\ streams' = Tail(streams)
        /\ used' = IF used = None THEN Head(streams) ELSE used
        /\ UNCHANGED <<queries, result, answers, expired, next_id, waiting,
                       link, requested, negotiating, ready, opened>>
    BY <1>2 DEF StreamEvent
  <2>2. Tail(streams) \in Seq(Peer) /\ Head(streams) \in Peer
    BY <2>1 DEF SwarmInv
  <2>3. SwarmInv'
    BY <2>1, <2>2 DEF SwarmInv
  <2>4. ConnInv'
    <3>1. CASE used = None
      <4>1. used' \in Peer /\ answers = <<>> /\ next_id = 0 /\ waiting = None
        BY <2>1, <2>2, <3>1 DEF ConnInv
      <4> QED BY <2>1, <4>1 DEF ConnInv
    <3>2. CASE used # None
      BY <2>1, <3>2 DEF ConnInv
    <3> QED BY <3>1, <3>2
  <2> QED BY <2>1, <2>3, <2>4 DEF NoiseIsHarmless
<1>3. CASE Open
  <2>1. /\ result = "pending" /\ used # None /\ next_id = 0 /\ next_id' = 1
        /\ UNCHANGED <<queries, result, answers, expired, used, waiting, swarm_vars>>
    BY <1>3 DEF Open, Running, QUERY_ID
  <2>2. answers = <<>> /\ waiting = None /\ Len(answers) = 0
    BY <2>1 DEF ConnInv
  <2> QED BY <2>1, <2>2 DEF swarm_vars, SwarmInv, ConnInv, NoiseIsHarmless
<1>4. CASE SendQuery
  <2>1. /\ result = "pending" /\ used # None /\ next_id # 0 /\ waiting = None
        /\ Len(answers) < Len(queries)
        /\ waiting' = next_id /\ next_id' = next_id + 1
        /\ UNCHANGED <<queries, result, answers, expired, used, swarm_vars>>
    BY <1>4 DEF SendQuery, Running
  <2>2. next_id = Len(answers) + 1 /\ next_id \in Nat /\ Len(answers) \in Nat
    BY <2>1 DEF ConnInv, IsSeq
  <2> QED BY <2>1, <2>2, NoneAssumption
          DEF swarm_vars, SwarmInv, ConnInv, NoiseIsHarmless
<1>5. CASE RpcFails
  <2>1. /\ result = "pending" /\ used # None /\ result' = "err"
        /\ UNCHANGED <<queries, answers, expired, used, next_id, waiting, swarm_vars>>
    BY <1>5 DEF RpcFails, Return, Running
  <2>2. used \notin Reliable
    BY <1>5 DEF RpcFails, SwarmInv
  <2> QED BY <2>1, <2>2 DEF swarm_vars, SwarmInv, ConnInv, NoiseIsHarmless
<1>6. CASE Complete
  <2>1. /\ result = "pending" /\ used # None /\ result' = "ok"
        /\ Len(answers) = Len(queries)
        /\ UNCHANGED <<queries, answers, expired, used, next_id, waiting, swarm_vars>>
    BY <1>6 DEF Complete, Return, Running
  <2> QED BY <2>1 DEF swarm_vars, SwarmInv, ConnInv, NoiseIsHarmless
<1>7. CASE FrameTooLong
  <2>1. /\ result = "pending" /\ used # None /\ used \notin Reliable /\ result' = "panic"
        /\ UNCHANGED <<queries, answers, expired, used, next_id, waiting, swarm_vars>>
    BY <1>7 DEF FrameTooLong, Return, Running
  <2> QED BY <2>1 DEF swarm_vars, SwarmInv, ConnInv, NoiseIsHarmless
<1> QED BY <1>1, <1>2, <1>3, <1>4, <1>5, <1>6, <1>7, ConnectionsIInv, ReadFrameIInv
        DEF RpcStep

\* Facts are set once, from a block whose proof verified.
LEMMA ExtractSource ==
  ASSUME IInv, SourceInv, NEW b, b # None, verify_and_extract(b),
         \/ source.kind = "Precomputed" /\ b = decoded[source.json]
         \/ /\ source.kind = "Node" /\ network_seeds(source.network)
            /\ \E p \in Peer : b = reply[p]["get_best_tip"],
         outcome = None
  PROVE  IInv' /\ SourceInv'
<1>1. UNCHANGED <<source, rpc_vars, swarm_vars>>
  BY DEF verify_and_extract, End
<1>2. IInv'
  BY <1>1 DEF rpc_vars, swarm_vars, IInv, SwarmInv, ConnInv, NoiseIsHarmless
<1>3. facts = None
  BY NoneAssumption DEF SourceInv, OnlyProvenFacts
<1>4. OnlyProvenFacts'
  <2>1. CASE proof[b] = "valid" /\ outcome' = "Ok" /\ facts' = b
    BY <1>1, <2>1 DEF OnlyProvenFacts
  <2>2. CASE outcome' \in {"Verifier", "panic"} /\ facts' = facts
    BY <1>1, <1>3, <2>2 DEF OnlyProvenFacts
  <2> QED BY <2>1, <2>2 DEF verify_and_extract, End
<1> QED BY <1>1, <1>2, <1>4 DEF rpc_vars, SourceInv

\* Every step of a fetch and of verify_from keeps the invariants.
LEMMA NextIInv == IInv /\ SourceInv /\ [Next]_vars => IInv' /\ SourceInv'
<1> SUFFICES ASSUME IInv, SourceInv, [Next]_vars PROVE IInv' /\ SourceInv'
  OBVIOUS
<1>1. CASE Fetching
  <2>1. UNCHANGED source_vars
    BY <1>1 DEF Fetching
  <2>2. OnlyProvenFacts'
    BY <2>1 DEF source_vars, SourceInv, OnlyProvenFacts
  <2>3. CASE source.kind = "Node" /\ network_seeds(source.network) /\ fetch_best_tip
    <3>1. IsSeq(<<"get_best_tip">>)
      BY DEF IsSeq
    <3>2. IInv'
      BY <2>3, <3>1, BeginIInv DEF fetch_best_tip
    <3>3. queries' = <<"get_best_tip">>
      BY <2>3 DEF fetch_best_tip, Begin
    <3> QED BY <2>1, <2>2, <2>3, <3>2, <3>3 DEF source_vars, SourceInv
  <2>4. CASE source.kind = "Ledger" /\ fetch_sync_ledger_answers
    <3>1. PICK list \in Batch : Begin(list)
      BY <2>4 DEF fetch_sync_ledger_answers
    <3>2. IInv'
      BY <3>1, BeginIInv, BatchAssumption
    <3> QED BY <2>1, <2>2, <2>4, <3>2 DEF source_vars, SourceInv
  <2>5. CASE RpcStep
    <3>1. IInv'
      BY <2>5, RpcStepIInv
    <3>2. queries' = queries /\ result # "idle"
      BY <2>5 DEF RpcStep, Deadline, Connections, rpc_vars, StreamEvent, Open, SendQuery,
                  ReadFrame, ReadAnswer, SkipFrame, RpcFails,
                  FrameTooLong, Complete, Return, Running
    <3> QED BY <2>1, <2>2, <3>1, <3>2 DEF source_vars, SourceInv
  <2> QED BY <1>1, <2>3, <2>4, <2>5 DEF Fetching
<1>2. ASSUME NEW how, how \in {"Verifier", "UnknownNetwork", "Rpc", "panic"},
             outcome = None, End(how)
      PROVE  IInv' /\ SourceInv'
  <2>1. outcome' = how /\ how # "Ok" /\ UNCHANGED <<source, facts, rpc_vars, swarm_vars>>
    BY <1>2 DEF End
  <2>2. facts = None
    BY <1>2, NoneAssumption DEF SourceInv, OnlyProvenFacts
  <2>3. OnlyProvenFacts'
    BY <2>1, <2>2 DEF OnlyProvenFacts
  <2>4. IInv'
    BY <2>1 DEF rpc_vars, swarm_vars, IInv, SwarmInv, ConnInv, NoiseIsHarmless
  <2> QED BY <2>1, <2>3, <2>4 DEF rpc_vars, SourceInv
<1>3. CASE VerifyPrecomputed
  <2>1. CASE decoded[source.json] = None /\ End("Verifier")
    BY <1>2, <1>3, <2>1 DEF VerifyPrecomputed
  <2>2. CASE decoded[source.json] # None /\ verify_and_extract(decoded[source.json])
    BY <1>3, <2>2, ExtractSource DEF VerifyPrecomputed
  <2> QED BY <1>3, <2>1, <2>2 DEF VerifyPrecomputed
<1>4. CASE UnknownNetwork
  BY <1>2, <1>4 DEF UnknownNetwork
<1>5. CASE VerifyFetched
  <2>1. CASE \/ result = "err" /\ End("Rpc")
             \/ result = "panic" /\ End("panic")
    BY <1>2, <1>5, <2>1 DEF VerifyFetched
  <2>2. CASE result = "ok" /\ verify_and_extract(answers[1])
    <3>1. source.kind = "Node" /\ outcome = None
      BY <1>5 DEF VerifyFetched
    <3>2. queries = <<"get_best_tip">> /\ network_seeds(source.network)
      BY <2>2, <3>1 DEF SourceInv
    <3>3. used \in Peer /\ Len(answers) = 1 /\ queries[1] = "get_best_tip"
      BY <2>2, <3>2 DEF IInv, ConnInv
    <3>4. answers[1] = reply[used]["get_best_tip"]
      BY <3>3 DEF IInv, ConnInv
    <3>5. answers[1] # None
      BY <3>3, <3>4, TipAssumption
    <3> QED BY <2>2, <3>1, <3>2, <3>3, <3>4, <3>5, ExtractSource
  <2> QED BY <1>5, <2>1, <2>2 DEF VerifyFetched
<1>6. CASE UNCHANGED vars
  BY <1>6 DEF vars, rpc_vars, swarm_vars, source_vars, IInv, SwarmInv, ConnInv,
              NoiseIsHarmless, SourceInv, OnlyProvenFacts
<1> QED BY <1>1, <1>3, <1>4, <1>5, <1>6 DEF Next

\* The invariants hold throughout.
LEMMA InvariantHolds == Spec => [](IInv /\ SourceInv)
  BY InitIInv, NextIInv, PTL DEF Spec

\* A reliable peer's conversation fails only at the deadline, however many
\* frames that answer nothing, and whatever other connections, come with it.
THEOREM NoiseTolerated == Spec => []NoiseIsHarmless
<1>1. IInv => NoiseIsHarmless
  BY DEF IInv
<1> QED BY <1>1, InvariantHolds, PTL

\* A handler opens at most one substream on its connection.
THEOREM OneStream == Spec => []OneStreamPerConnection
<1>1. IInv => OneStreamPerConnection
  <2> SUFFICES ASSUME IInv, NEW p \in Peer PROVE opened[p] <= 1
    BY DEF OneStreamPerConnection
  <2>1. negotiating[p] \in Nat /\ opened[p] \in Nat /\ negotiating[p] + opened[p] <= 1
    BY DEF IInv, SwarmInv
  <2> QED BY <2>1
<1> QED BY <1>1, InvariantHolds, PTL

\* verify_from returns facts only of a block whose proof verified, and of the
\* block its source names.
THEOREM FactsAreProven == Spec => []OnlyProvenFacts
<1>1. SourceInv => OnlyProvenFacts
  BY DEF SourceInv
<1> QED BY <1>1, InvariantHolds, PTL

-----------------------------------------------------------------------------

\* Every step of the client is a step of the abstract fetch or leaves its
\* variables alone.
LEMMA StepRefines == IInv /\ IInv' /\ [Next]_vars => [Abstract!Next]_(Abstract!fetch_vars)
<1> SUFFICES ASSUME IInv, IInv', [Next]_vars
             PROVE  Abstract!Next \/ UNCHANGED Abstract!fetch_vars
  OBVIOUS
<1> USE DEF Abstract!fetch_vars
<1>1. ASSUME NEW list, Begin(list) PROVE Abstract!Begin
  BY <1>1 DEF Begin, Abstract!Begin
<1>2. CASE Deadline
  BY <1>2 DEF Deadline, Abstract!Fail, Abstract!Next
<1>3. CASE RpcFails
  BY <1>3 DEF RpcFails, Running, Return, Abstract!Fail, Abstract!Next
<1>4. CASE Complete
  <2>1. /\ result = "pending" /\ result' = "ok" /\ used \in Peer
        /\ Len(answers) = Len(queries)
        /\ UNCHANGED <<queries, answers>>
    BY <1>4 DEF Complete, Running, Return, IInv, ConnInv
  <2>2. answers = [k \in 1 .. Len(queries) |-> reply[used][queries[k]]]
    <3>1. answers = [k \in 1 .. Len(answers) |-> answers[k]]
      BY DEF IInv, ConnInv, IsSeq
    <3>2. \A k \in 1 .. Len(answers) : answers[k] = reply[used][queries[k]]
      BY DEF IInv, ConnInv
    <3> QED BY <2>1, <3>1, <3>2
  <2>3. Abstract!Succeed
    BY <2>1, <2>2 DEF Abstract!Succeed
  <2> QED BY <2>3 DEF Abstract!Next
<1>5. CASE Connections \/ StreamEvent \/ Open \/ SendQuery \/ ReadFrame
  <2>1. result = "pending" /\ result' = "pending" /\ queries' = queries
    BY <1>5 DEF Connections, rpc_vars, StreamEvent, Open, SendQuery, ReadFrame,
                ReadAnswer, SkipFrame, Running
  <2> QED BY <2>1
<1>6. CASE VerifyPrecomputed \/ UnknownNetwork \/ VerifyFetched
  <2>1. UNCHANGED <<queries, result, answers>>
    BY <1>6 DEF VerifyPrecomputed, UnknownNetwork, VerifyFetched, verify_and_extract,
                End, rpc_vars
  <2> QED BY <2>1
<1>7. CASE UNCHANGED vars
  BY <1>7 DEF vars, rpc_vars
<1>8. CASE FrameTooLong
  BY <1>8 DEF FrameTooLong, Running, Return, Abstract!Panic, Abstract!Next
<1> QED BY <1>1, <1>2, <1>3, <1>4, <1>5, <1>6, <1>7, <1>8
        DEF Next, Fetching, fetch_best_tip, fetch_sync_ledger_answers, RpcStep, Abstract!Next

\* The RPC client implements the abstract fetch, its fairness aside: answers in
\* the order of the queries and from one peer, or an error or a panic and none.
THEOREM FetchRefinement ==
  Spec => Abstract!Init /\ [][Abstract!Next]_(Abstract!fetch_vars)
<1>1. Init => Abstract!Init
  BY DEF Init, RpcInit, Abstract!Init
<1> QED BY <1>1, InvariantHolds, StepRefines, PTL DEF Spec
=============================================================================
