-------------------------------- MODULE MCCli --------------------------------
(***************************************************************************)
(* The command line verifier over the block tree of MCChainMonitor.        *)
(***************************************************************************)
EXTENDS Cli, MCChainMonitor
=============================================================================
