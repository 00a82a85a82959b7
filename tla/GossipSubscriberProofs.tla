------------------------ MODULE GossipSubscriberProofs ------------------------
(***************************************************************************)
(* Theorems about GossipSubscriber, for any set of seeds and any bounds.   *)
(***************************************************************************)
EXTENDS GossipSubscriber, TLAPS

\* The count: once a peer had two connections only one direction is left.
CountInv ==
  /\ links \in [Peer -> Nat]
  /\ dialing \in [Peer -> Nat]
  /\ connected \subseteq Live
  /\ ~doubled => connected = Live /\ \A p \in Peer : links[p] <= 1

\* The capture: while the loop runs there is room for one more file.
CaptureInv ==
  /\ want \in Nat
  /\ saved \in Nat
  /\ blocks \in Seq(Nat \X Nat)
  /\ runs \in Nat
  /\ Len(blocks) <= MaxBlocks
  /\ DOMAIN files = 0 .. MaxBlocks
  /\ CaptureIsExact

-----------------------------------------------------------------------------

\* Nothing is connected at first.
LEMMA InitCount == Init => CountInv
  BY DEF Init, CountInv, Live

\* Every event keeps the count.
LEMMA NextCount == CountInv /\ [Next]_vars => CountInv'
<1> SUFFICES ASSUME CountInv, [Next]_vars PROVE CountInv'
  OBVIOUS
<1> USE DEF CountInv, Live
<1>1. ASSUME NEW p \in Peer, ConnectionEstablished(p) PROVE CountInv'
  <2>1. links' \in [Peer -> Nat] /\ dialing' \in [Peer -> Nat] /\ (connected \subseteq Live)'
    BY <1>1 DEF ConnectionEstablished
  <2>2. CASE doubled \/ links[p] > 0
    BY <1>1, <2>1, <2>2, Zenon DEF ConnectionEstablished
  <2>3. CASE ~doubled /\ ~(links[p] > 0)
    <3>1. links' = [links EXCEPT ![p] = @ + 1] /\ connected' = connected \cup {p}
      BY <1>1 DEF ConnectionEstablished
    <3>2. links[p] = 0
      BY <2>3
    <3>3. connected' = Live' /\ \A q \in Peer : links'[q] <= 1
      BY <2>3, <3>1, <3>2
    <3> QED BY <2>1, <3>3
  <2> QED BY <2>2, <2>3
<1>2. ASSUME NEW p \in Peer, OutgoingConnectionError(p) PROVE CountInv'
  BY <1>2 DEF OutgoingConnectionError
<1>3. ASSUME NEW p \in Peer, ConnectionClosed(p) PROVE CountInv'
  <2>1. /\ links[p] > 0
        /\ links' = [links EXCEPT ![p] = @ - 1]
        /\ connected' = connected \ {p}
        /\ dialing' = [q \in Peer |-> dialing[q] + 1]
        /\ doubled' = doubled
    BY <1>3 DEF ConnectionClosed, Closes
  <2>2. links' \in [Peer -> Nat] /\ dialing' \in [Peer -> Nat] /\ (connected \subseteq Live)'
    BY <2>1
  <2>3. ASSUME ~doubled
        PROVE  connected' = Live' /\ \A q \in Peer : links'[q] <= 1
    BY <2>1, <2>3
  <2> QED BY <2>1, <2>2, <2>3
<1>4. CASE on_block \/ WriteFails \/ Deadline
  BY <1>4 DEF on_block, WriteFails, Deadline, swarm_vars
<1>5. CASE Restart
  BY <1>5 DEF Restart
<1>6. CASE UNCHANGED vars
  BY <1>6 DEF vars
<1> QED BY <1>1, <1>2, <1>3, <1>4, <1>5, <1>6 DEF Next

\* The number handed to on_tick: never too high, and exact as long as no peer
\* had two connections.
THEOREM CountCorrect == Spec => []CountIsExact
<1>1. CountInv => CountIsExact
  BY DEF CountInv, CountIsExact
<1> QED BY <1>1, InitCount, NextCount, PTL DEF Spec

-----------------------------------------------------------------------------

\* A reliable seed is kept, with the types it takes.
KeptInv ==
  /\ links \in [Peer -> Nat] /\ dialing \in [Peer -> Nat]
  /\ SeedsKept

\* A dial becomes a connection, and a close is followed by a dial.
LEMMA NextKept == KeptInv /\ [Next]_vars => KeptInv'
<1> SUFFICES ASSUME KeptInv, [Next]_vars PROVE KeptInv'
  OBVIOUS
<1> USE SubscriberAssumption DEF KeptInv, SeedsKept, Running
<1>1. ASSUME NEW p \in Peer, ConnectionEstablished(p) PROVE KeptInv'
  BY <1>1 DEF ConnectionEstablished
<1>2. ASSUME NEW p \in Peer, OutgoingConnectionError(p) PROVE KeptInv'
  BY <1>2 DEF OutgoingConnectionError
<1>3. ASSUME NEW p \in Peer, ConnectionClosed(p) PROVE KeptInv'
  BY <1>3 DEF ConnectionClosed, Closes
<1>4. CASE on_block \/ WriteFails \/ Deadline
  BY <1>4 DEF on_block, WriteFails, Deadline, swarm_vars
<1>5. CASE Restart
  BY <1>5 DEF Restart
<1>6. CASE UNCHANGED vars
  BY <1>6 DEF vars
<1> QED BY <1>1, <1>2, <1>3, <1>4, <1>5, <1>6 DEF Next

\* However many seeds there are and however often connections drop, a seed whose
\* dials succeed is connected or being dialled as long as the loop runs.
THEOREM SeedsAreKept == Spec => []SeedsKept
<1>1. Init => KeptInv
  BY SubscriberAssumption DEF Init, KeptInv, SeedsKept
<1>2. KeptInv => SeedsKept
  BY DEF KeptInv
<1> QED BY <1>1, <1>2, NextKept, PTL DEF Spec

-----------------------------------------------------------------------------

\* No file is saved at first.
LEMMA InitCapture == Init => CaptureInv
<1> SUFFICES ASSUME Init PROVE CaptureInv
  OBVIOUS
<1>1. want \in Nat /\ MaxBlocks \in Nat
  BY SubscriberAssumption DEF Init
<1>2. saved = 0 /\ blocks = <<>> /\ runs = 1 /\ loop = "running"
      /\ files = [n \in 0 .. MaxBlocks |-> None]
  BY DEF Init
<1> QED BY <1>1, <1>2 DEF CaptureInv, CaptureIsExact

\* Every event keeps the files in step with the blocks.
LEMMA NextCapture == CaptureInv /\ [Next]_vars => CaptureInv'
<1> SUFFICES ASSUME CaptureInv, [Next]_vars PROVE CaptureInv'
  OBVIOUS
<1>1. CASE on_block
  <2> DEFINE block == <<runs, Len(blocks) + 1>>
  <2>1. /\ loop = "running" /\ Len(blocks) < MaxBlocks
        /\ blocks' = Append(blocks, block)
        /\ files' = [files EXCEPT ![saved] = block]
        /\ saved' = saved + 1
        /\ loop' = IF Enough THEN "break" ELSE "running"
        /\ want' = want /\ runs' = runs
    BY <1>1 DEF on_block, Running
  <2>2. /\ saved \in Nat /\ saved = Len(blocks) /\ want \in Nat
        /\ want > 0 => saved < want
        /\ blocks \in Seq(Nat \X Nat) /\ MaxBlocks \in Nat /\ runs \in Nat
        /\ DOMAIN files = 0 .. MaxBlocks
        /\ \A n \in 0 .. saved - 1 : files[n] = blocks[n + 1]
    <3>1. MaxBlocks \in Nat
      BY SubscriberAssumption
    <3>2. want > 0 => saved <= want /\ (loop = "break" <=> saved = want)
      BY DEF CaptureInv, CaptureIsExact
    <3> QED BY <2>1, <3>1, <3>2 DEF CaptureInv, CaptureIsExact
  <2>3. block \in Nat \X Nat
    BY <2>2
  <2> HIDE DEF block
  <2>4. /\ blocks' \in Seq(Nat \X Nat) /\ Len(blocks') = Len(blocks) + 1
        /\ blocks'[Len(blocks) + 1] = block
        /\ \A k \in 1 .. Len(blocks) : blocks'[k] = blocks[k]
    BY <2>1, <2>2, <2>3
  <2>5. /\ DOMAIN files' = 0 .. MaxBlocks
        /\ files'[saved] = block
        /\ \A n \in 0 .. saved - 1 : files'[n] = files[n]
    BY <2>1, <2>2
  <2>6. \A n \in 0 .. saved' - 1 : files'[n] = blocks'[n + 1]
    <3> SUFFICES ASSUME NEW n \in 0 .. saved PROVE files'[n] = blocks'[n + 1]
      BY <2>1, <2>2
    <3>1. CASE n = saved
      BY <3>1, <2>2, <2>4, <2>5
    <3>2. CASE n # saved
      <4>1. n \in 0 .. saved - 1 /\ n + 1 \in 1 .. Len(blocks)
        BY <3>2, <2>2
      <4> QED BY <4>1, <2>2, <2>4, <2>5, Zenon
    <3> QED BY <3>1, <3>2
  <2>7. want' > 0 => saved' <= want' /\ (loop' = "break" <=> saved' = want')
    BY <2>1, <2>2 DEF Enough
  <2>8. saved' \in Nat /\ saved' = Len(blocks') /\ Len(blocks') <= MaxBlocks
    BY <2>1, <2>2, <2>4
  <2> QED BY <2>1, <2>2, <2>4, <2>5, <2>6, <2>7, <2>8
          DEF CaptureInv, CaptureIsExact
<1>2. CASE WriteFails
  <2>1. /\ loop = "running" /\ loop' = "panic" /\ Len(blocks) < MaxBlocks
        /\ UNCHANGED <<want, saved, blocks, runs>>
        /\ files' \in {files, [files EXCEPT ![saved] = Truncated]}
    BY <1>2 DEF WriteFails, Running
  <2>2. /\ saved \in Nat /\ saved = Len(blocks) /\ MaxBlocks \in Nat
        /\ DOMAIN files = 0 .. MaxBlocks
        /\ \A n \in 0 .. saved - 1 : files[n] = blocks[n + 1]
    BY SubscriberAssumption DEF CaptureInv, CaptureIsExact
  <2>3. /\ DOMAIN files' = 0 .. MaxBlocks
        /\ \A n \in 0 .. saved - 1 : files'[n] = files[n]
    <3>1. CASE files' = files
      BY <2>2, <3>1
    <3>2. CASE files' = [files EXCEPT ![saved] = Truncated]
      BY <2>1, <2>2, <3>2
    <3> QED BY <2>1, <3>1, <3>2
  <2> QED BY <2>1, <2>2, <2>3 DEF CaptureInv, CaptureIsExact
<1>3. CASE Deadline
  BY <1>3 DEF Deadline, Running, capture_vars, CaptureInv, CaptureIsExact
<1>4. CASE Restart
  <2>1. want' \in Nat /\ MaxBlocks \in Nat
    BY <1>4, SubscriberAssumption DEF Restart
  <2>2. saved' = 0 /\ blocks' = <<>> /\ runs' = runs + 1 /\ loop' = "running"
        /\ files' = files
    BY <1>4 DEF Restart
  <2> QED BY <2>1, <2>2 DEF CaptureInv, CaptureIsExact
<1>5. CASE \E p \in Peer : \/ ConnectionEstablished(p)
                           \/ OutgoingConnectionError(p)
                           \/ ConnectionClosed(p)
  BY <1>5, Zenon DEF ConnectionEstablished, OutgoingConnectionError, ConnectionClosed,
              capture_vars, CaptureInv, CaptureIsExact
<1>6. CASE UNCHANGED vars
  BY <1>6 DEF vars, CaptureInv, CaptureIsExact
<1> QED BY <1>1, <1>2, <1>3, <1>4, <1>5, <1>6 DEF Next

\* The files of a run are its first blocks, in order, and the loop breaks at
\* exactly the number wanted, if any is, whatever was in the directory and
\* wherever an earlier run failed.
THEOREM CaptureCorrect == Spec => []CaptureIsExact
<1>1. CaptureInv => CaptureIsExact
  BY DEF CaptureInv
<1> QED BY <1>1, InitCapture, NextCapture, PTL DEF Spec
=============================================================================
