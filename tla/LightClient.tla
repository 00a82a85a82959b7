----------------------------- MODULE LightClient -----------------------------
(***************************************************************************)
(* A light client: it sweeps a growing ledger for the indices, then reads  *)
(* accounts from peers it does not trust.                                  *)
(***************************************************************************)
EXTENDS AccountRead, LedgerSweep

ClientInit == Init /\ SweepInit

\* The client reads once the map is complete.
ClientNext ==
  \/ pc = "idle" /\ SweepNext /\ UNCHANGED vars
  \/ swept = Capacity /\ Next /\ UNCHANGED sweep_vars

ClientSpec == ClientInit /\ [][ClientNext]_<<vars, sweep_vars>>
=============================================================================
