--------------------------- MODULE GossipSubscriber ---------------------------
(***************************************************************************)
(* The event loop of subscribe_blocks                                      *)
(* (crates/mina-verify-capture/src/lib.rs) with the callbacks of the       *)
(* capture tool (main.rs), which saves blocks to files.                    *)
(*                                                                         *)
(* The swarm dials every seed once.  When a connection closes the loop     *)
(* dials every seed again, connected or not: the dial of an address is not *)
(* refused because a connection to its peer exists, so a peer may have     *)
(* several.  A failed dial is logged and not repeated.  The tool's on_tick *)
(* always continues, so only on_block and the deadline end the loop.       *)
(***************************************************************************)
EXTENDS Integers, Sequences, FiniteSets

CONSTANTS
  Peer,        \* the seeds
  Reliable,    \* seeds whose dials never fail
  Wanted,      \* the values of CAPTURE_BLOCKS
  None,
  Truncated,   \* a file whose writing failed
  MaxDrops,    \* bound: connections that close
  MaxBlocks,   \* bound: NewState messages of one run
  MaxRuns      \* bound: runs of the tool in one directory

ASSUME SubscriberAssumption ==
  /\ IsFiniteSet(Peer)
  /\ Reliable \subseteq Peer
  /\ Wanted \subseteq Nat
  /\ {MaxDrops, MaxBlocks, MaxRuns} \subseteq Nat

VARIABLES
  loop,        \* "running", "break", "deadline" or "panic"
  dialing,     \* per peer: dials under way
  links,       \* per peer: connections that are up
  connected,   \* the HashSet of the loop
  drops,       \* history: connections closed
  doubled,     \* history: a peer had two connections
  want,        \* CAPTURE_BLOCKS
  saved,       \* files written by this run
  files,       \* the directory: file number -> block, None if there is none
  blocks,      \* history: the NewState messages of this run, in order
  runs         \* number of this run

vars == <<loop, dialing, links, connected, drops, doubled,
          want, saved, files, blocks, runs>>
swarm_vars == <<dialing, links, connected, drops, doubled>>
capture_vars == <<want, saved, files, blocks, runs>>

Init ==
  /\ loop = "running"
  /\ dialing = [p \in Peer |-> 1]
  /\ links = [p \in Peer |-> 0]
  /\ connected = {}
  /\ drops = 0
  /\ doubled = FALSE
  /\ saved = 0
  /\ blocks = <<>>
  /\ want \in Wanted
  /\ files = [n \in 0 .. MaxBlocks |-> None]
  /\ runs = 1

Running == loop = "running"

-----------------------------------------------------------------------------
(* Swarm events.                                                           *)

\* Flawed variant: a peer is entered with its first connection only.
ConnectionEstablished_first(p) ==
  /\ Running
  /\ dialing[p] > 0
  /\ dialing' = [dialing EXCEPT ![p] = @ - 1]
  /\ links' = [links EXCEPT ![p] = @ + 1]
  /\ connected' = IF links[p] = 0 THEN connected \cup {p} ELSE connected
  /\ doubled' = (doubled \/ links[p] > 0)
  /\ UNCHANGED <<loop, drops, capture_vars>>

ConnectionEstablished(p) ==
  /\ Running
  /\ dialing[p] > 0
  /\ dialing' = [dialing EXCEPT ![p] = @ - 1]
  /\ links' = [links EXCEPT ![p] = @ + 1]
  /\ connected' = connected \cup {p}
  /\ doubled' = (doubled \/ links[p] > 0)
  /\ UNCHANGED <<loop, drops, capture_vars>>

OutgoingConnectionError(p) ==
  /\ Running
  /\ p \notin Reliable
  /\ dialing[p] > 0
  /\ dialing' = [dialing EXCEPT ![p] = @ - 1]
  /\ UNCHANGED <<loop, links, connected, drops, doubled, capture_vars>>

Closes(p) ==
  /\ Running
  /\ links[p] > 0
  /\ drops < MaxDrops
  /\ drops' = drops + 1
  /\ links' = [links EXCEPT ![p] = @ - 1]

\* Flawed variant: the peer stays in the set.
ConnectionClosed_still_counted(p) ==
  /\ Closes(p)
  /\ dialing' = [q \in Peer |-> dialing[q] + 1]
  /\ UNCHANGED <<loop, connected, doubled, capture_vars>>

\* Flawed variant: the seed that dropped is left out.
ConnectionClosed_others(p) ==
  /\ Closes(p)
  /\ connected' = connected \ {p}
  /\ dialing' = [q \in Peer |-> dialing[q] + (IF q = p THEN 0 ELSE 1)]
  /\ UNCHANGED <<loop, doubled, capture_vars>>

ConnectionClosed(p) ==
  /\ Closes(p)
  /\ connected' = connected \ {p}
  /\ dialing' = [q \in Peer |-> dialing[q] + 1]
  /\ UNCHANGED <<loop, doubled, capture_vars>>

-----------------------------------------------------------------------------
(* The callback of the capture tool.                                       *)

\* Flawed variant: the limit is tested before the block is counted.
Enough_before == saved >= want

Enough == saved + 1 >= want

\* A NewState message, named by the run and its place in it: on_block writes
\* the file of number saved and counts it.
on_block ==
  LET block == <<runs, Len(blocks) + 1>>
  IN  /\ Running
      /\ \E p \in Peer : links[p] > 0
      /\ Len(blocks) < MaxBlocks
      /\ blocks' = Append(blocks, block)
      /\ files' = [files EXCEPT ![saved] = block]
      /\ saved' = saved + 1
      /\ loop' = IF Enough THEN "break" ELSE "running"
      /\ UNCHANGED <<swarm_vars, want, runs>>

\* The unwrap of create or write fails, after create or before it.
WriteFails ==
  /\ Running
  /\ \E p \in Peer : links[p] > 0
  /\ Len(blocks) < MaxBlocks
  /\ loop' = "panic"
  /\ files' \in {files, [files EXCEPT ![saved] = Truncated]}
  /\ UNCHANGED <<swarm_vars, want, saved, blocks, runs>>

Deadline ==
  /\ Running
  /\ loop' = "deadline"
  /\ UNCHANGED <<swarm_vars, capture_vars>>

\* The tool is run again in the same directory, which is not emptied.
Restart ==
  /\ ~Running
  /\ runs < MaxRuns
  /\ runs' = runs + 1
  /\ loop' = "running"
  /\ dialing' = [p \in Peer |-> 1]
  /\ links' = [p \in Peer |-> 0]
  /\ connected' = {}
  /\ drops' = 0
  /\ doubled' = FALSE
  /\ saved' = 0
  /\ blocks' = <<>>
  /\ want' \in Wanted
  /\ UNCHANGED files

Next ==
  \/ \E p \in Peer : \/ ConnectionEstablished(p)
                     \/ OutgoingConnectionError(p)
                     \/ ConnectionClosed(p)
  \/ on_block
  \/ WriteFails
  \/ Deadline
  \/ Restart

\* A dial of a reliable seed comes to its end.
Fairness == \A p \in Reliable : WF_vars(ConnectionEstablished(p))

Spec == Init /\ [][Next]_vars /\ Fairness

-----------------------------------------------------------------------------

Live == {p \in Peer : links[p] > 0}

\* The count handed to on_tick never exceeds the number of live peers, and it
\* is that number as long as no peer ever had two connections.  After that it
\* may be lower: the close of one connection removes a peer that still has the
\* other.
CountIsExact ==
  /\ connected \subseteq Live
  /\ ~doubled => connected = Live

\* A seed whose dials succeed is never given up: while the loop runs there is a
\* connection to it or a dial under way, however often its connections, doubled
\* ones included, or those of the other seeds close.
SeedsKept == Running => \A p \in Reliable : links[p] + dialing[p] > 0

\* "Stay in the gossip mesh": while the loop runs, a seed whose dials succeed is
\* connected again, and counted again, after every drop, also when the close of
\* one of its two connections struck it from the set.
Reconnects ==
  \A p \in Reliable : [](Running /\ p \notin connected => <>(p \in connected \/ ~Running))

\* The first saved files are the first blocks of this run, in order and without
\* a gap, whatever an earlier run left in the directory; the loop breaks as
\* soon as there are as many as wanted.  Nothing is said of the count when none
\* is wanted, where the callback saves a block before it looks at the limit.
CaptureIsExact ==
  /\ \A n \in 0 .. saved - 1 : files[n] = blocks[n + 1]
  /\ saved = Len(blocks)
  /\ want > 0 => saved <= want /\ (loop = "break" <=> saved = want)
===============================================================================
