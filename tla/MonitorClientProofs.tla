------------------------- MODULE MonitorClientProofs -------------------------
(***************************************************************************)
(* The two programs that feed a chain monitor: mina-verify, for every list *)
(* of files, and the live monitor, for every stream of gossip messages and *)
(* every interleaving of its threads.  Both carry the argument over        *)
(* ChainMonitor through their own steps.                                   *)
(***************************************************************************)
EXTENDS Cli, LiveMonitor, ChainMonitorProofs

-----------------------------------------------------------------------------
(* The command line tool: what its exit code and its last line mean.       *)

\* Nothing has been decided before the exit.
Undecided == failed = None /\ code = None /\ printed = None

\* Up to the exit a file read is a block seen; the exit records the outcome.
ExitInv ==
  /\ stage \in {"start", "files", "exited"} /\ args \in 0 .. 2 /\ read \in 0 .. 2
  /\ stage = "start" => Undecided /\ read = 0
  /\ stage = "files" => Undecided /\ args # 0 /\ (read # 0 => seen # {})
  /\ stage = "exited" => ExitCodeIsHonest

\* A run that ends otherwise than by Finish has a code other than 0.
LEMMA FailureCode ==
  ASSUME ExitInv, Usage \/ FileRejected \/ FileError
  PROVE  /\ stage' = "exited" /\ args' = args /\ code' # 0
         /\ read' \in 0 .. 2
         /\ failed' = "rejected" <=> code' = 1
<1>1. CASE Usage
  BY <1>1, OutcomeAssumption DEF ExitInv, Usage, Exit, Undecided
<1>2. CASE FileRejected
  BY <1>2 DEF ExitInv, FileRejected, NextFile, Exit
<1>3. CASE FileError
  BY <1>3 DEF ExitInv, FileError, NextFile, Exit
<1> QED
  BY <1>1, <1>2, <1>3

\* Every step keeps it, whatever becomes of the monitor.
LEMMA ExitStep ==
  ASSUME ExitInv, [CliNext]_all_vars
  PROVE  ExitInv'
<1>1. CASE Usage \/ FileRejected \/ FileError
  BY <1>1, FailureCode DEF ExitInv, ExitCodeIsHonest
<1>2. CASE BuildVerifier
  BY <1>2 DEF BuildVerifier, ExitInv, Undecided
<1>3. ASSUME NEW b \in Block, FileVerified(b)
      PROVE  ExitInv'
  <2>1. /\ stage = "files" /\ stage' = "files" /\ args' = args /\ args # 0
        /\ read' \in 0 .. 2 /\ Undecided'
    BY <1>3 DEF ExitInv, FileVerified, NextFile, Undecided
  <2>2. b \in seen'
    BY <1>3 DEF FileVerified, ingest
  <2> QED
    BY <2>1, <2>2 DEF ExitInv
<1>4. CASE Finish
  <2>1. /\ stage' = "exited" /\ args' = args /\ args # 0 /\ read' = read /\ read = args
        /\ failed' = None /\ code' = 0 /\ seen' = seen /\ seen # {}
    BY <1>4 DEF ExitInv, Finish, Exit, Undecided
  <2> QED
    BY <2>1, OutcomeAssumption DEF ExitInv, ExitCodeIsHonest
<1>5. CASE UNCHANGED all_vars
  <2>1. UNCHANGED <<stage, args, read, failed, code, printed, seen>>
    BY <1>5 DEF all_vars, cli_vars, vars
  <2> QED
    BY <2>1 DEF ExitInv, Undecided, ExitCodeIsHonest
<1> QED
  BY <1>1, <1>2, <1>3, <1>4, <1>5 DEF CliNext

\* Nothing has happened before the first step.
LEMMA ExitInit == CliInit => ExitInv
BY DEF CliInit, ExitInv, Undecided

\* For every number of files and every outcome of reading each of them: code 0
\* means that all files were verified, and code 1 that a proof was rejected.
THEOREM ExitCodeHonest == CliSpec => []ExitCodeIsHonest
<1>1. ExitInv => ExitCodeIsHonest
  BY OutcomeAssumption DEF ExitInv, Undecided, ExitCodeIsHonest
<1> QED
  BY <1>1, ExitInit, ExitStep, PTL DEF CliSpec

\* Before the exit the monitor is the one of ChainMonitorProofs, used by nobody
\* else.
CliInv ==
  /\ ExitInv
  /\ stage = "start" => Init
  /\ stage = "files" /\ args = 2 => IInv /\ BestIsCanonical
  /\ PrintsCanonicalBest

\* Verifying one more file: the monitor, if there is one, takes a step of its own.
LEMMA VerifiedStep ==
  ASSUME requested >= 2, AllShortRange, CliInv, ExitInv', NEW b \in Block, FileVerified(b)
  PROVE  CliInv'
<1>1. /\ stage = "files" /\ stage' = "files" /\ args' = args /\ code' = code /\ code = None
  BY DEF CliInv, ExitInv, FileVerified, NextFile, Undecided
<1>2. PrintsCanonicalBest'
  BY <1>1, OutcomeAssumption DEF PrintsCanonicalBest
<1>3. CASE args = 2
  <2>1. ingest(b) /\ IInv /\ BestIsCanonical
    BY <1>1, <1>3 DEF CliInv, FileVerified
  <2>2. [Next]_vars
    BY <2>1 DEF Next
  <2>3. IInv' /\ BestIsCanonical'
    BY <2>1, <2>2, IInvStep, CanonicalStep
  <2> QED
    BY <1>1, <1>2, <2>3 DEF CliInv
<1> QED
  BY <1>1, <1>2, <1>3 DEF CliInv

\* At the end of the list the best is in the window, and so is printed.
LEMMA FinishStep ==
  ASSUME CliInv, ExitInv', Finish
  PROVE  CliInv'
<1>1. /\ stage = "files" /\ stage' = "exited" /\ args' = args /\ seen' = seen
  BY DEF Finish, Exit
<1>2. PrintsCanonicalBest'
  <2> SUFFICES ASSUME args = 2
               PROVE  /\ printed' \in seen
                      /\ \A b \in seen \ {printed'} : consensus_take(b, printed')
    BY <1>1 DEF PrintsCanonicalBest
  <2>1. IInv /\ BestIsCanonical /\ printed' = best_hash /\ seen # {}
    BY <1>1 DEF CliInv, ExitInv, Finish
  <2>2. best # None /\ printed' = best
    BY <2>1 DEF IInv, WindowInv, best_hash
  <2> QED
    BY <2>1, <2>2, CanonTake DEF BestIsCanonical, Canon!BestIsMaximum
<1> QED
  BY <1>1, <1>2 DEF CliInv

\* For every list of files: on a live network the tip printed last is the maximum
\* of all tips verified, in whatever order and number they came and whatever the
\* window has dropped.
THEOREM PrintedIsCanonical ==
  ASSUME requested >= 2, AllShortRange
  PROVE  CliSpec => []PrintsCanonicalBest
<1>1. CliInit => CliInv
  BY ExitInit, OutcomeAssumption DEF CliInit, CliInv, PrintsCanonicalBest
<1>2. CliInv /\ [CliNext]_all_vars => CliInv'
  <2> SUFFICES ASSUME CliInv, [CliNext]_all_vars
               PROVE  CliInv'
    OBVIOUS
  <2>1. ExitInv'
    BY ExitStep DEF CliInv
  <2>2. CASE Usage \/ FileRejected \/ FileError
    BY <2>1, <2>2, FailureCode DEF CliInv, PrintsCanonicalBest
  <2>3. CASE BuildVerifier
    <3>1. stage' = "files" /\ args' = args /\ Init /\ code' = None
      BY <2>3 DEF BuildVerifier, CliInv, ExitInv, Undecided
    <3>2. IInv /\ BestIsCanonical
      BY <3>1, IInvInit, Zenon DEF Init, BestIsCanonical, Canon!BestIsMaximum
    <3>3. UNCHANGED vars
      BY <2>3 DEF BuildVerifier
    <3>4. IInv' /\ BestIsCanonical'
      BY <3>2, <3>3, IInvStep, CanonicalStep
    <3> QED
      BY <2>1, <3>1, <3>4, OutcomeAssumption DEF CliInv, PrintsCanonicalBest
  <2>4. CASE UNCHANGED all_vars
    <3>1. UNCHANGED cli_vars /\ UNCHANGED vars
      BY <2>4 DEF all_vars
    <3>2. IInv /\ BestIsCanonical => IInv' /\ BestIsCanonical'
      BY <3>1, IInvStep, CanonicalStep
    <3>3. Init => Init'
      BY <3>1 DEF vars, Init
    <3>4. PrintsCanonicalBest => PrintsCanonicalBest'
      BY <3>1 DEF cli_vars, vars, PrintsCanonicalBest
    <3>5. UNCHANGED <<stage, args>>
      BY <3>1 DEF cli_vars
    <3> QED
      BY <2>1, <3>2, <3>3, <3>4, <3>5 DEF CliInv
  <2> QED
    BY <2>1, <2>2, <2>3, <2>4, VerifiedStep, FinishStep DEF CliNext
<1>3. CliInv => PrintsCanonicalBest
  BY DEF CliInv
<1> QED
  BY <1>1, <1>2, <1>3, PTL DEF CliSpec

-----------------------------------------------------------------------------
(* The live monitor: what each list of payloads amounts to.                *)

\* A payload decodes exactly if it carries a block.
LEMMA DecodesBlocks ==
  \A m \in Message : block_from_gossip_payload(m) = "Ok" <=> carries[m] # None
BY MessageAssumption DEF block_from_gossip_payload

\* One more payload adds at most its own block to those verified.
LEMMA VerifiedAppend ==
  ASSUME NEW s \in Seq(Message), NEW m \in Message
  PROVE  Verified(Append(s, m)) =
           IF carries[m] # None /\ proof[m] = "valid"
             THEN Verified(s) \cup {carries[m]} ELSE Verified(s)
<1> DEFINE t == Append(s, m)
           Good(x) == carries[x] # None /\ proof[x] = "valid"
<1>1. /\ Len(t) = Len(s) + 1 /\ Len(s) \in Nat
      /\ \A i \in 1 .. Len(s) : t[i] = s[i]
      /\ t[Len(s) + 1] = m
  OBVIOUS
<1>2. Verified(s) = {carries[s[i]] : i \in {j \in 1 .. Len(s) : Good(s[j])}}
  BY DEF Verified
<1>3. Verified(t) = {carries[t[i]] : i \in {j \in 1 .. Len(t) : Good(t[j])}}
  BY DEF Verified
<1> HIDE DEF t, Good
<1>4. Verified(s) \subseteq Verified(t)
  BY <1>1, <1>2, <1>3
<1>5. Good(m) => carries[m] \in Verified(t)
  BY <1>1, <1>3
<1>6. \A b \in Verified(t) : b \in Verified(s) \/ (Good(m) /\ b = carries[m])
  BY <1>1, <1>2, <1>3
<1> QED
  BY <1>4, <1>5, <1>6, Zenon DEF Good, t

\* One more payload is counted once, under its own outcome.
LEMMA TallyAppend ==
  ASSUME NEW s \in Seq(Message), NEW m \in Message, NEW p
  PROVE  Tally(Append(s, m), p) =
           IF carries[m] # None /\ proof[m] = p THEN Tally(s, p) + 1 ELSE Tally(s, p)
<1> DEFINE t == Append(s, m)
           Good(x) == carries[x] # None /\ proof[x] = p
           I == {i \in 1 .. Len(s) : Good(s[i])}
           J == {i \in 1 .. Len(t) : Good(t[i])}
<1>1. /\ Len(t) = Len(s) + 1 /\ Len(s) \in Nat
      /\ \A i \in 1 .. Len(s) : t[i] = s[i]
      /\ t[Len(s) + 1] = m
  OBVIOUS
<1>2. Tally(s, p) = Cardinality(I) /\ Tally(t, p) = Cardinality(J)
  BY DEF Tally
<1>3. IsFiniteSet(I)
  <2>1. IsFiniteSet(1 .. Len(s))
    BY <1>1, FS_Interval
  <2> QED
    BY <2>1, FS_Subset
<1>4. J = IF Good(m) THEN I \cup {Len(s) + 1} ELSE I
  <2> HIDE DEF t, Good
  <2> QED
    BY <1>1
<1>5. Len(s) + 1 \notin I
  BY <1>1
<1> HIDE DEF I, J, t
<1>6. Cardinality(I \cup {Len(s) + 1}) = Cardinality(I) + 1
  BY <1>3, <1>5, FS_AddElement, Zenon
<1> QED
  BY <1>2, <1>4, <1>6 DEF t

\* Taking a payload from the channel moves it to those handled.
LEMMA HandOver ==
  ASSUME NEW h \in Seq(Message), NEW c \in Seq(Message), c # <<>>
  PROVE  /\ Head(c) \in Message /\ Tail(c) \in Seq(Message)
         /\ Append(h, Head(c)) \o Tail(c) = h \o c
<1>1. /\ Head(c) \in Message /\ Tail(c) \in Seq(Message) /\ c = <<Head(c)>> \o Tail(c)
  BY HeadTailProperties, EmptySeq
<1>2. Append(h, Head(c)) = h \o <<Head(c)>> /\ <<Head(c)>> \in Seq(Message)
  BY <1>1, AppendIsConcat
<1>3. (h \o <<Head(c)>>) \o Tail(c) = h \o (<<Head(c)>> \o Tail(c))
  BY <1>1, <1>2, ConcatAssociative
<1> QED
  BY <1>1, <1>2, <1>3

-----------------------------------------------------------------------------
(* The live monitor: its inductive invariant.                              *)

Tallies(s) == [ingested |-> Tally(s, "valid"), rejected |-> Tally(s, "invalid")]

\* While the worker lives, what it handled and what is queued make up what gossip
\* delivered.
ChannelInv == ReceiverAlive => handled \o channel = sent

\* The monitor is the one of ChainMonitorProofs; it and the counters are those
\* of the payloads handled; and a worker that is done has handled everything
\* that will ever be sent.
LiveInv ==
  /\ main \in {"gossip", "joining", "exited"}
  /\ worker \in {"building", "receiving", "done", "dead"}
  /\ channel \in Seq(Message) /\ sent \in Seq(Message) /\ handled \in Seq(Message)
  /\ IInv
  /\ ChannelInv
  /\ seen = Verified(handled)
  /\ counts = Tallies(handled)
  /\ summary # None => worker = "done"
  /\ worker = "done" => main # "gossip" /\ handled = sent /\ summary = Summary

\* The live monitor starts in the invariant.
LEMMA LiveInvInit == LiveInit => LiveInv /\ BestIsCanonical
<1> SUFFICES ASSUME LiveInit
             PROVE  LiveInv /\ BestIsCanonical
  OBVIOUS
<1>1. IInv /\ seen = {} /\ BestIsCanonical
  BY IInvInit, Zenon DEF LiveInit, Init, BestIsCanonical, Canon!BestIsMaximum
<1>2. Verified(<<>>) = {}
  BY DEF Verified
<1>3. \A p : Tally(<<>>, p) = 0
  <2> SUFFICES ASSUME NEW p
               PROVE  Tally(<<>>, p) = 0
    OBVIOUS
  <2>1. {i \in 1 .. Len(<<>>) : carries[<<>>[i]] # None /\ proof[<<>>[i]] = p} = {}
    OBVIOUS
  <2> QED
    BY <2>1, FS_EmptySet DEF Tally
<1>4. ChannelInv
  BY DEF LiveInit, ChannelInv
<1> QED
  BY <1>1, <1>2, <1>3, <1>4 DEF LiveInit, LiveInv, Tallies

\* The gossip thread touches neither the monitor nor the counters; it sends only
\* before the deadline, when the worker cannot be done.
LEMMA GossipStep ==
  ASSUME LiveInv, NEW m \in Message, GossipMessage(m)
  PROVE  LiveInv'
<1>1. /\ UNCHANGED <<main, worker, summary, counts, handled, vars>> /\ main = "gossip"
      /\ worker # "done"
  BY DEF GossipMessage, worker_vars, LiveInv
<1>2. IInv'
  BY <1>1, IInvStep, WindowAssumption DEF LiveInv
<1>3. seen' = Verified(handled') /\ counts' = Tallies(handled')
  BY <1>1 DEF LiveInv, vars
<1>4. channel' \in Seq(Message) /\ sent' \in Seq(Message)
  <2>1. channel \in Seq(Message) /\ sent \in Seq(Message)
    BY DEF LiveInv
  <2>2. Append(channel, m) \in Seq(Message) /\ Append(sent, m) \in Seq(Message)
    BY <2>1, AppendProperties
  <2> QED
    BY <2>1, <2>2, Zenon DEF GossipMessage
<1>5. ChannelInv'
  <2> SUFFICES ASSUME ReceiverAlive
               PROVE  handled \o channel' = sent'
    BY <1>1 DEF ChannelInv, ReceiverAlive
  <2>1. handled \o channel = sent
    BY DEF LiveInv, ChannelInv
  <2>2. CASE is_new_state(m)
    <3>1. sent' = Append(sent, m) /\ channel' = Append(channel, m)
      BY <2>2 DEF GossipMessage
    <3>2. handled \o Append(channel, m) = Append(handled \o channel, m)
      BY DEF LiveInv
    <3> QED
      BY <2>1, <3>1, <3>2
  <2>3. CASE ~is_new_state(m)
    BY <2>1, <2>3 DEF GossipMessage
  <2> QED
    BY <2>2, <2>3
<1> QED
  BY <1>1, <1>2, <1>3, <1>4, <1>5, SMTT(30) DEF LiveInv

\* A step of either thread that leaves the payloads, the monitor and the counters
\* alone, and does not make the worker done.
LEMMA ControlStep ==
  ASSUME LiveInv, UNCHANGED <<sent, summary, worker_vars>>,
         main' \in {"gossip", "joining", "exited"}, main # "gossip" => main' # "gossip",
         \/ UNCHANGED <<worker, channel>>
         \/ worker = "building" /\ worker' = "receiving" /\ UNCHANGED channel
         \/ worker # "done" /\ worker' = "dead" /\ channel' = <<>>
  PROVE  LiveInv'
<1>1. UNCHANGED <<sent, summary, counts, handled, vars>>
  BY DEF worker_vars
<1>2. IInv'
  BY <1>1, IInvStep, WindowAssumption DEF LiveInv
<1>3. seen' = Verified(handled') /\ counts' = Tallies(handled')
  BY <1>1 DEF LiveInv, vars
<1>4. channel' \in Seq(Message) /\ worker' \in {"building", "receiving", "done", "dead"}
  <2>1. channel \in Seq(Message) /\ worker \in {"building", "receiving", "done", "dead"}
    BY DEF LiveInv
  <2>2. <<>> \in Seq(Message)
    BY EmptySeq
  <2> QED
    BY <2>1, <2>2, Zenon
<1>5. ChannelInv'
  BY <1>1, SMTT(30) DEF LiveInv, ChannelInv, ReceiverAlive
<1>6. Summary' = Summary
  BY <1>1 DEF Summary, vars, best_hash
<1> QED
  BY <1>1, <1>2, <1>3, <1>4, <1>5, <1>6, SMTT(30) DEF LiveInv

\* The worker is done with one payload, whose block, if it is verified, is the
\* only one that the monitor may have been given.
LEMMA ConsumeStep ==
  ASSUME LiveInv, NEW m \in Message, Received(m), Consumed(m), IInv',
         seen' = IF carries[m] # None /\ proof[m] = "valid"
                   THEN seen \cup {carries[m]} ELSE seen,
         counts' = [ingested |-> IF carries[m] # None /\ proof[m] = "valid"
                                   THEN counts.ingested + 1 ELSE counts.ingested,
                    rejected |-> IF carries[m] # None /\ proof[m] = "invalid"
                                   THEN counts.rejected + 1 ELSE counts.rejected]
  PROVE  LiveInv'
<1>1. /\ worker = "receiving" /\ worker' = worker /\ main' = main /\ summary' = summary
      /\ sent' = sent /\ channel # <<>> /\ m = Head(channel)
      /\ channel' = Tail(channel) /\ handled' = Append(handled, m)
  BY DEF Received, Consumed
<1>2. /\ channel' \in Seq(Message) /\ handled' \in Seq(Message)
      /\ handled' \o channel' = handled \o channel
  BY <1>1, HandOver, SMTT(30) DEF LiveInv
<1>3. ChannelInv'
  BY <1>1, <1>2, Zenon DEF LiveInv, ChannelInv, ReceiverAlive
<1>4. seen' = Verified(handled')
  BY <1>1, VerifiedAppend, SMTT(30) DEF LiveInv
<1>5. counts' = Tallies(handled')
  <2>1. counts.ingested = Tally(handled, "valid") /\ counts.rejected = Tally(handled, "invalid")
    BY DEF LiveInv, Tallies
  <2>2. /\ Tally(handled', "valid") = counts'.ingested
        /\ Tally(handled', "invalid") = counts'.rejected
    BY <1>1, <2>1, TallyAppend DEF LiveInv
  <2> QED
    BY <2>2 DEF Tallies
<1> QED
  BY <1>1, <1>2, <1>3, <1>4, <1>5 DEF LiveInv

\* What each way of treating a payload makes of the monitor and the counters.
LEMMA WorkerConsumes ==
  ASSUME LiveInv, NEW m \in Message, SkipPayload(m) \/ RejectBlock(m) \/ IngestBlock(m)
  PROVE  LiveInv'
<1>1. carries[m] \in Block \cup {None} /\ proof[m] \in Proofs
  BY MessageAssumption
<1>2. counts = [ingested |-> counts.ingested, rejected |-> counts.rejected]
  BY DEF LiveInv, Tallies
<1>3. Received(m) /\ Consumed(m)
  BY DEF SkipPayload, RejectBlock, IngestBlock
<1>4. CASE SkipPayload(m)
  <2>1. ~(carries[m] # None /\ proof[m] \in {"valid", "invalid"})
    BY <1>4, DecodesBlocks DEF SkipPayload
  <2>2. UNCHANGED vars /\ counts' = counts
    BY <1>4 DEF SkipPayload
  <2>3. IInv'
    BY <2>2, IInvStep, WindowAssumption DEF LiveInv
  <2>4. seen' = seen
    BY <2>2 DEF vars
  <2> QED
    BY <1>2, <1>3, <2>1, <2>2, <2>3, <2>4, ConsumeStep, SMTT(30)
<1>5. CASE RejectBlock(m)
  <2>1. carries[m] # None /\ proof[m] = "invalid"
    BY <1>5, DecodesBlocks DEF RejectBlock
  <2>2. UNCHANGED vars
    BY <1>5 DEF RejectBlock
  <2>3. counts' = [ingested |-> counts.ingested, rejected |-> counts.rejected + 1]
    BY <1>2, <1>5 DEF RejectBlock
  <2>4. IInv'
    BY <2>2, IInvStep, WindowAssumption DEF LiveInv
  <2>5. seen' = seen
    BY <2>2 DEF vars
  <2> QED
    BY <1>3, <2>1, <2>3, <2>4, <2>5, ConsumeStep
<1>6. CASE IngestBlock(m)
  <2>1. carries[m] # None /\ proof[m] = "valid" /\ carries[m] \in Block
    BY <1>1, <1>6, DecodesBlocks DEF IngestBlock
  <2>2. ingest(carries[m])
    BY <1>6 DEF IngestBlock
  <2>3. counts' = [ingested |-> counts.ingested + 1, rejected |-> counts.rejected]
    BY <1>2, <1>6 DEF IngestBlock
  <2>4. IInv'
    BY <2>1, <2>2, IInvStep, WindowAssumption, SMTT(30) DEF LiveInv, Next
  <2>5. seen' = seen \cup {carries[m]}
    BY <2>2 DEF ingest
  <2> QED
    BY <1>3, <2>1, <2>3, <2>4, <2>5, ConsumeStep
<1> QED
  BY <1>4, <1>5, <1>6

\* The channel is closed and empty: what was handled is what was sent.
LEMMA SummaryStep ==
  ASSUME LiveInv, PrintSummary
  PROVE  LiveInv'
<1>1. /\ worker = "receiving" /\ worker' = "done" /\ channel = <<>> /\ main # "gossip"
      /\ UNCHANGED <<main, channel, sent, counts, handled, vars>> /\ summary' = Summary
  BY DEF PrintSummary, worker_vars
<1>2. IInv'
  BY <1>1, IInvStep, WindowAssumption DEF LiveInv
<1>3. seen' = Verified(handled') /\ counts' = Tallies(handled')
  BY <1>1 DEF LiveInv, vars
<1>4. handled = sent
  <2>1. handled \o <<>> = sent /\ handled \in Seq(Message)
    BY <1>1 DEF LiveInv, ChannelInv, ReceiverAlive
  <2> QED
    BY <2>1, ConcatEmptySeq
<1>5. Summary' = Summary
  BY <1>1 DEF Summary, vars, best_hash
<1>6. ChannelInv'
  BY <1>1 DEF ChannelInv, ReceiverAlive
<1> QED
  BY <1>1, <1>2, <1>3, <1>4, <1>5, <1>6, SMTT(30) DEF LiveInv

\* Every step of the two threads keeps the invariant.
LEMMA LiveInvStep ==
  ASSUME LiveInv, [LiveNext]_live_vars
  PROVE  LiveInv'
<1>1. CASE Deadline
  <2>1. /\ main' = "joining" /\ UNCHANGED <<sent, summary, worker_vars>>
        /\ UNCHANGED <<worker, channel>>
    BY <1>1 DEF Deadline
  <2> QED
    BY <2>1, ControlStep
<1>2. CASE Join
  <2>1. /\ main' = "exited" /\ UNCHANGED <<sent, summary, worker_vars>>
        /\ UNCHANGED <<worker, channel>>
    BY <1>2 DEF Join
  <2> QED
    BY <2>1, ControlStep
<1>3. CASE BuildWorkerVerifier
  <2>1. /\ main' = main /\ main \in {"gossip", "joining", "exited"}
        /\ UNCHANGED <<sent, summary, worker_vars>>
        /\ \/ worker = "building" /\ worker' = "receiving" /\ UNCHANGED channel
           \/ worker # "done" /\ worker' = "dead" /\ channel' = <<>>
    BY <1>3 DEF BuildWorkerVerifier, Die, LiveInv
  <2> QED
    BY <2>1, ControlStep
<1>4. ASSUME NEW m \in Message, VerifyPanics(m)
      PROVE  LiveInv'
  <2>1. /\ main' = main /\ main \in {"gossip", "joining", "exited"}
        /\ UNCHANGED <<sent, summary, worker_vars>>
        /\ worker # "done" /\ worker' = "dead" /\ channel' = <<>>
    BY <1>4 DEF VerifyPanics, Received, Die, LiveInv
  <2> QED
    BY <2>1, ControlStep
<1>5. CASE UNCHANGED live_vars
  <2>1. /\ main' = main /\ main \in {"gossip", "joining", "exited"}
        /\ UNCHANGED <<sent, summary, worker_vars>> /\ UNCHANGED <<worker, channel>>
    BY <1>5 DEF live_vars, LiveInv
  <2> QED
    BY <2>1, ControlStep
<1> QED
  BY <1>1, <1>2, <1>3, <1>4, <1>5, GossipStep, WorkerConsumes, SummaryStep, SMTT(30)
     DEF LiveNext, WorkerStep

\* A step of the live monitor is a step of its chain monitor, or leaves it alone.
LEMMA MonitorStep == [LiveNext]_live_vars => [Next]_vars
<1> SUFFICES ASSUME [LiveNext]_live_vars
             PROVE  [Next]_vars
  OBVIOUS
<1>1. ASSUME NEW m \in Message, IngestBlock(m)
      PROVE  Next
  <2>1. carries[m] \in Block
    BY <1>1, DecodesBlocks, MessageAssumption DEF IngestBlock
  <2> QED
    BY <1>1, <2>1 DEF IngestBlock, Next
<1>2. ASSUME NEW m \in Message, SkipPayload(m) \/ RejectBlock(m) \/ VerifyPanics(m)
      PROVE  UNCHANGED vars
  BY <1>2 DEF SkipPayload, RejectBlock, VerifyPanics, worker_vars
<1>3. ASSUME NEW m \in Message, GossipMessage(m)
      PROVE  UNCHANGED vars
  BY <1>3 DEF GossipMessage, worker_vars
<1>4. CASE Deadline \/ Join \/ BuildWorkerVerifier \/ PrintSummary
  BY <1>4 DEF Deadline, Join, BuildWorkerVerifier, PrintSummary, worker_vars
<1>5. CASE UNCHANGED live_vars
  BY <1>5 DEF live_vars, worker_vars
<1> QED
  BY <1>1, <1>2, <1>3, <1>4, <1>5, SMTT(30) DEF LiveNext, WorkerStep

\* The invariant holds throughout every run of the live monitor.
THEOREM LiveInvariant == LiveSpec => []LiveInv
BY LiveInvInit, LiveInvStep, PTL DEF LiveSpec

\* No block reaches the monitor's window or its best unless the worker verified
\* its proof, and every block it verified was handed to the monitor.
THEOREM OnlyVerifiedIngested == LiveSpec => []VerifyBeforeIngest
<1>1. LiveInv => VerifyBeforeIngest
  BY DEF LiveInv, IInv, VerifyBeforeIngest
<1> QED
  BY <1>1, LiveInvariant, PTL

\* A summary counts every payload delivered before the deadline and, on a live
\* network, names the height of the canonical tip among all of them.
THEOREM SummaryComplete ==
  ASSUME AllShortRange
  PROVE  LiveSpec => []SummaryIsComplete
<1>1. LiveInit => BestIsCanonical
  BY LiveInvInit
<1>2. LiveInv /\ BestIsCanonical /\ [LiveNext]_live_vars => BestIsCanonical'
  BY MonitorStep, CanonicalStep, WindowAssumption DEF LiveInv
<1>3. LiveInv /\ BestIsCanonical => SummaryIsComplete
  <2> SUFFICES ASSUME LiveInv, BestIsCanonical, summary # None
               PROVE  SummaryIsComplete
    BY DEF SummaryIsComplete
  <2>1. /\ handled = sent /\ summary = Summary /\ seen = Verified(sent) /\ IInv
        /\ counts.ingested = Tally(sent, "valid") /\ counts.rejected = Tally(sent, "invalid")
    BY DEF LiveInv, Tallies
  <2>2. /\ summary.ingested = counts.ingested /\ summary.rejected = counts.rejected
        /\ summary.best_height = IF best_hash = None THEN None ELSE height(best)
    BY <2>1 DEF Summary
  <2>3. /\ best = None => seen = {} /\ best_hash = None
        /\ best # None => best \in seen /\ best_hash = best
    BY <2>1 DEF IInv, WindowInv, best_hash, BestIsCanonical, Canon!BestIsMaximum
  <2>4. CASE best = None
    BY <2>1, <2>2, <2>3, <2>4, Zenon DEF SummaryIsComplete
  <2>5. CASE best # None
    <3>1. \A c \in seen \ {best} : consensus_take(c, best)
      BY <2>5, CanonTake DEF BestIsCanonical, Canon!BestIsMaximum
    <3> QED
      BY <2>1, <2>2, <2>3, <2>5, <3>1, SMTT(30) DEF SummaryIsComplete
  <2> QED
    BY <2>4, <2>5
<1> QED
  BY <1>1, <1>2, <1>3, LiveInvariant, PTL DEF LiveSpec
=============================================================================
