--------------------------------- MODULE Cli ---------------------------------
(***************************************************************************)
(* The command line verifier: crates/mina-verify-cli/src/main.rs.          *)
(*                                                                         *)
(* mina-verify reads, decodes and verifies the files named by its          *)
(* arguments in their order and stops at the first that fails.  With more  *)
(* than one argument it feeds a chain monitor and prints the canonical     *)
(* best at the end.  The arguments are chosen as they are read, so every   *)
(* list of files occurs.                                                   *)
(***************************************************************************)
EXTENDS ChainMonitor

VARIABLES
  stage,     \* "start", "files" or "exited"
  args,      \* number of arguments: 0, 1, or 2 for two and more
  read,      \* files read, counted up to 2
  failed,    \* how the last file failed: None, "rejected" or "error"
  code,      \* the exit code, or None
  printed    \* the tip printed on the last line, or None

ASSUME OutcomeAssumption ==
  None \notin 0 .. 2 /\ None \notin {"rejected", "error"}

cli_vars == <<stage, args, read, failed, code, printed>>
all_vars == <<vars, cli_vars>>

CliInit ==
  /\ Init
  /\ stage = "start"
  /\ args \in 0 .. 2
  /\ read = 0
  /\ failed = None
  /\ code = None
  /\ printed = None

\* The process ends and its memory goes with it; seen is history.
Exit(c) ==
  /\ stage' = "exited"
  /\ code' = c
  /\ nodes' = {}
  /\ order' = <<>>
  /\ best' = None
  /\ last' = None
  /\ recent' = <<>>
  /\ UNCHANGED <<panicked, seen, args>>

\* No argument; or MINA_VK_JSON cannot be read, or no verifier for the network.
Usage ==
  /\ stage = "start"
  /\ Exit(2)
  /\ UNCHANGED <<read, failed, printed>>

BuildVerifier ==
  /\ stage = "start"
  /\ args # 0
  /\ stage' = "files"
  /\ UNCHANGED <<vars, args, read, failed, code, printed>>

\* There is one more file.
NextFile ==
  /\ stage = "files"
  /\ args = 1 => read = 0
  /\ read' = IF read = 2 THEN 2 ELSE read + 1

\* Flawed variant: a rejected proof is reported and the next file is taken.
FileRejected_goes_on ==
  /\ NextFile
  /\ failed' = "rejected"
  /\ UNCHANGED <<vars, stage, args, code, printed>>

\* verify_tip returned None.
FileRejected ==
  /\ NextFile
  /\ failed' = "rejected"
  /\ Exit(1)
  /\ UNCHANGED printed

\* The file cannot be read or decoded, or verify_tip returned an error.
FileError ==
  /\ NextFile
  /\ failed' = "error"
  /\ Exit(2)
  /\ UNCHANGED printed

FileVerified(b) ==
  /\ NextFile
  /\ \/ /\ args = 1
        /\ seen' = {b}
        /\ UNCHANGED <<nodes, order, best, last, panicked, recent>>
     \/ args = 2 /\ ingest(b)
  /\ UNCHANGED <<stage, args, failed, code, printed>>

\* Flawed variant: the best is taken from the last verdict.
Finish_last ==
  /\ stage = "files"
  /\ read = args
  /\ printed' = IF args = 2 THEN last.tip ELSE None
  /\ Exit(0)
  /\ UNCHANGED <<read, failed>>

\* The list is at its end: the best, if the monitor reports one.
Finish ==
  /\ stage = "files"
  /\ read = args
  /\ printed' = IF args = 2 THEN best_hash ELSE None
  /\ Exit(0)
  /\ UNCHANGED <<read, failed>>

CliNext ==
  \/ Usage
  \/ BuildVerifier
  \/ FileRejected
  \/ FileError
  \/ \E b \in Block : FileVerified(b)
  \/ Finish

CliSpec == CliInit /\ [][CliNext]_all_vars

-----------------------------------------------------------------------------

\* Code 0 means that every file named was verified, code 1 that a proof was
\* rejected and nothing but verified files came before it.
ExitCodeIsHonest ==
  /\ code = 0 => failed = None /\ read = args /\ seen # {}
  /\ failed = "rejected" <=> code = 1

\* The last line of a successful run with several files names the maximum of
\* all of them, whatever their order, their number and repetitions, and
\* however many of them the window has dropped by then.
PrintsCanonicalBest ==
  code = 0 /\ args = 2 =>
    /\ printed \in seen
    /\ \A b \in seen \ {printed} : consensus_take(b, printed)
=============================================================================
