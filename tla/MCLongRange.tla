----------------------------- MODULE MCLongRange -----------------------------
(***************************************************************************)
(* Tips across a long range.  A consumer has two ways to pick one: it asks *)
(* select_canonical about the list of tips its sources report, or it feeds *)
(* them to a ChainMonitor.  Lists are made of the same block tree; those   *)
(* from one branch, which itself forks at a2, are in short range.          *)
(***************************************************************************)
EXTENDS MCChainMonitor, SelectCanonical

LongInit == Init /\ SelectInit

Asks == SelectNext /\ UNCHANGED vars

\* The call has returned.
Answered == tips # <<>> /\ pc = "done" /\ UNCHANGED <<vars, select_vars>>

\* A consumer with no list to ask about.
Feeds == tips = <<>> /\ Next /\ UNCHANGED select_vars

LongSpec == LongInit /\ [][Asks \/ Answered \/ Feeds]_<<vars, select_vars>>
=============================================================================
