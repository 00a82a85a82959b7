-------------------------------- MODULE Fetch --------------------------------
(***************************************************************************)
(* What fetch_best_tip and fetch_sync_ledger_answers promise their caller: *)
(* once begun, the call ends, either with one answer per query, in the     *)
(* order of the queries and all from one peer, or with an error and no     *)
(* answers.  Only the allocation for a frame whose length the peer made up *)
(* can end it otherwise: by a panic, with no answers.                      *)
(***************************************************************************)
EXTENDS Naturals, Sequences

CONSTANTS
  Peer,
  reply      \* reply[p][q]: what peer p answers to query q

VARIABLES
  queries,   \* the queries of the call
  status,    \* "idle", "pending", "ok", "err" or "panic"
  returned   \* the answers handed to the caller

fetch_vars == <<queries, status, returned>>

Init ==
  /\ queries = <<>>
  /\ status = "idle"
  /\ returned = <<>>

Begin ==
  /\ status = "idle"
  /\ status' = "pending"
  /\ UNCHANGED returned

Succeed ==
  /\ status = "pending"
  /\ status' = "ok"
  /\ \E p \in Peer : returned' = [k \in 1 .. Len(queries) |-> reply[p][queries[k]]]
  /\ UNCHANGED queries

Fail ==
  /\ status = "pending"
  /\ status' = "err"
  /\ UNCHANGED <<queries, returned>>

Panic ==
  /\ status = "pending"
  /\ status' = "panic"
  /\ UNCHANGED <<queries, returned>>

Next == Begin \/ Succeed \/ Fail \/ Panic

Spec == Init /\ [][Next]_fetch_vars /\ WF_fetch_vars(Succeed \/ Fail \/ Panic)
=============================================================================
