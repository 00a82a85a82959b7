---------------------------- MODULE VerifierInit ----------------------------
(***************************************************************************)
(* Construction of verifiers by several threads of one process:            *)
(* for_network, for_network_offline, with_index_json, devnet and mainnet   *)
(* in crates/mina-verify/src/lib.rs (native build).                        *)
(*                                                                         *)
(* for_network works on two process globals in several steps: mina-core's  *)
(* NetworkConfig, a cell that is set once, and the panic hook, which is    *)
(* taken, silenced and put back around BlockVerifier::make.  WORKDIR is a  *)
(* Once with a constant argument, set by whoever comes first.              *)
(***************************************************************************)
EXTENDS Naturals, FiniteSets

CONSTANTS
  Unset,    \* Rust's Option::None
  Thread    \* the threads, each of which makes one call

ASSUME ThreadAssumption == IsFiniteSet(Thread)

VARIABLES
  parses,   \* verification keys that load
  config,   \* NetworkConfig: the active network, or Unset
  hook,     \* the panic hook: "original", "silent" or "default"
  call,     \* [Thread -> Calls]: function and network of each thread
  pc,       \* [Thread -> control state]
  prev,     \* [Thread -> hook taken]
  result,   \* [Thread -> what its call returned, Unset before]
  overlap   \* history: two threads were between take_hook and set_hook(prev)

construct_vars == <<parses, config, hook, call, pc, prev, result, overlap>>

SUPPORTED_NETWORKS == {"devnet", "mainnet"}

ASSUME UnsetAssumption == Unset \notin SUPPORTED_NETWORKS

\* The repository's own keys load; the index inside mina-tree, which make()
\* unwraps, depends on its version, and a caller's JSON on the caller.
Shipped == {"devnet_json", "mainnet_json"}
Others == {"make", "caller_json"}

Networks == SUPPORTED_NETWORKS \cup {"mesa-mut"}
Calls == [fn : {"for_network", "for_network_offline"}, network : Networks]
         \cup {[fn |-> "devnet", network |-> "devnet"],
               [fn |-> "mainnet", network |-> "mainnet"],
               [fn |-> "with_index_json", network |-> "custom"]}

Online(t) == call[t].fn \in {"for_network", "devnet", "mainnet"}

Ok(n) == [is |-> "Ok", network |-> n]
Err(e) == [is |-> "Err", error |-> e]
AlreadyInitialized(a, r) ==
  [is |-> "Err", error |-> "NetworkAlreadyInitialized", active |-> a, requested |-> r]

ConstructInit ==
  /\ parses \in {Shipped \cup S : S \in SUBSET Others}
  /\ config = Unset
  /\ hook = "original"
  /\ call \in [Thread -> Calls]
  /\ pc = [t \in Thread |-> "start"]
  /\ prev = [t \in Thread |-> Unset]
  /\ result = [t \in Thread |-> Unset]
  /\ overlap = FALSE

Goto(t, next) == pc' = [pc EXCEPT ![t] = next]

\* devnet() and mainnet() turn an error into a panic.
Return(t, r) ==
  /\ result' = [result EXCEPT ![t] =
       IF call[t].fn \in {"devnet", "mainnet"} /\ r.is = "Err"
         THEN [r EXCEPT !.is = "panic"] ELSE r]
  /\ Goto(t, "done")

-----------------------------------------------------------------------------

embedded_index_json(n) ==
  CASE n = "devnet"  -> "devnet_json"
    [] n = "mainnet" -> "mainnet_json"
    [] OTHER         -> Unset

\* with_index_json, and the network its callers then store in the verifier.
with_index_json(key, n) ==
  IF key \in parses THEN Ok(n) ELSE Err("InvalidIndexJson")

for_network_offline(t) ==
  /\ pc[t] = "start"
  /\ call[t].fn = "for_network_offline"
  /\ Return(t, IF embedded_index_json(call[t].network) = Unset
                 THEN Err("UnknownNetwork")
                 ELSE with_index_json(embedded_index_json(call[t].network), call[t].network))
  /\ UNCHANGED <<parses, config, hook, call, prev, overlap>>

with_caller_json(t) ==
  /\ pc[t] = "start"
  /\ call[t].fn = "with_index_json"
  /\ Return(t, with_index_json("caller_json", "custom"))
  /\ UNCHANGED <<parses, config, hook, call, prev, overlap>>

CheckSupported(t) ==
  /\ pc[t] = "start"
  /\ Online(t)
  /\ IF call[t].network \in SUPPORTED_NETWORKS
       THEN Goto(t, "init") /\ UNCHANGED result
       ELSE Return(t, Err("UnknownNetwork"))
  /\ UNCHANGED <<parses, config, hook, call, prev, overlap>>

\* Flawed variant: the result of init is not looked at.
InitConfig_unchecked(t) ==
  /\ pc[t] = "init"
  /\ config' = IF config = Unset THEN call[t].network ELSE config
  /\ Goto(t, "build")
  /\ UNCHANGED <<parses, hook, call, prev, result, overlap>>

\* Flawed variant: init is taken to fail whenever the cell is set already.
InitConfig_first_only(t) ==
  /\ pc[t] = "init"
  /\ IF config = Unset
       THEN config' = call[t].network /\ Goto(t, "build") /\ UNCHANGED result
       ELSE /\ Return(t, AlreadyInitialized(config, call[t].network))
            /\ UNCHANGED config
  /\ UNCHANGED <<parses, hook, call, prev, overlap>>

\* NetworkConfig::init
InitConfig(t) ==
  /\ pc[t] = "init"
  /\ IF config = Unset THEN config' = call[t].network /\ Goto(t, "build")
     ELSE Goto(t, "compare") /\ UNCHANGED config
  /\ UNCHANGED <<parses, hook, call, prev, result, overlap>>

CompareActive(t) ==
  /\ pc[t] = "compare"
  /\ IF config = call[t].network THEN Goto(t, "build") /\ UNCHANGED result
     ELSE Return(t, AlreadyInitialized(config, call[t].network))
  /\ UNCHANGED <<parses, config, hook, call, prev, overlap>>

\* let network = NetworkConfig::global().name, which decides the path.
BuildMainnet(t) ==
  /\ pc[t] = "build" /\ config = "mainnet"
  /\ Return(t, with_index_json("mainnet_json", config))
  /\ UNCHANGED <<parses, config, hook, call, prev, overlap>>

TakeHook(t) ==
  /\ pc[t] = "build" /\ config # "mainnet"
  /\ prev' = [prev EXCEPT ![t] = hook]
  /\ hook' = "default"
  /\ overlap' = (overlap \/ \E u \in Thread \ {t} : pc[u] \in {"silence", "make", "restore"})
  /\ Goto(t, "silence")
  /\ UNCHANGED <<parses, config, call, result>>

SilenceHook(t) ==
  /\ pc[t] = "silence"
  /\ hook' = "silent"
  /\ Goto(t, "make")
  /\ UNCHANGED <<parses, config, call, prev, result, overlap>>

\* Flawed variant: the error is returned before the hook is put back.
Make_early_return(t) ==
  /\ pc[t] = "make"
  /\ IF "make" \in parses THEN Goto(t, "restore") /\ UNCHANGED result
     ELSE Return(t, Err("VerificationKeyUnavailable"))
  /\ UNCHANGED <<parses, config, hook, call, prev, overlap>>

\* catch_unwind(BlockVerifier::make)
Make(t) ==
  /\ pc[t] = "make"
  /\ Goto(t, "restore")
  /\ UNCHANGED <<parses, config, hook, call, prev, result, overlap>>

\* Flawed variant: the outcome of catch_unwind is unwrapped.
RestoreHook_unwrap(t) ==
  /\ pc[t] = "restore"
  /\ hook' = prev[t]
  /\ IF "make" \in parses THEN Return(t, Ok(config))
     ELSE /\ result' = [result EXCEPT ![t] = [is |-> "panic", error |-> "make"]]
          /\ Goto(t, "done")
  /\ UNCHANGED <<parses, config, call, prev, overlap>>

RestoreHook(t) ==
  /\ pc[t] = "restore"
  /\ hook' = prev[t]
  /\ Return(t, IF "make" \in parses THEN Ok(config)
               ELSE Err("VerificationKeyUnavailable"))
  /\ UNCHANGED <<parses, config, call, prev, overlap>>

Step(t) ==
  \/ for_network_offline(t)
  \/ with_caller_json(t)
  \/ CheckSupported(t)
  \/ InitConfig(t)
  \/ CompareActive(t)
  \/ BuildMainnet(t)
  \/ TakeHook(t)
  \/ SilenceHook(t)
  \/ Make(t)
  \/ RestoreHook(t)

ConstructNext == \E t \in Thread : Step(t)

\* No step waits for another thread; the operating system schedules each.
ConstructSpec ==
  /\ ConstructInit
  /\ [][ConstructNext]_construct_vars
  /\ \A t \in Thread : WF_construct_vars(Step(t))

-----------------------------------------------------------------------------
(* Properties.                                                             *)

AllDone == \A t \in Thread : pc[t] = "done"

\* A verifier is for the network that was asked for, although for_network takes
\* its name from the process global, and all verifiers of for_network in a
\* process are for one network; offline ones may be for any.
NetworkAsRequested ==
  \A t \in Thread : result[t] # Unset /\ result[t].is = "Ok" =>
    /\ result[t].network = call[t].network
    /\ Online(t) => result[t].network = config

\* NetworkAlreadyInitialized is reported only to a caller who wanted another
\* network than the active one, and the active one was asked for by a caller.
ConflictIsReal ==
  \A t \in Thread :
    result[t] # Unset /\ result[t].is # "Ok" /\ result[t].error = "NetworkAlreadyInitialized" =>
      /\ result[t].active # call[t].network
      /\ \E u \in Thread \ {t} : Online(u) /\ call[u].network = result[t].active

\* Unless two constructions overlap, the process gets its panic hook back,
\* whether or not BlockVerifier::make panicked.
HookRestored == AllDone /\ ~overlap => hook = "original"

\* Every call of for_network, for_network_offline and with_index_json returns,
\* with an error in place of a panic of BlockVerifier::make ("so consumers don't
\* crash"), whatever the other threads do.  devnet() and mainnet() unwrap what
\* for_network returns and promise less.
EveryCallReturns ==
  \A t \in Thread : call[t].fn \notin {"devnet", "mainnet"} ~>
    result[t] # Unset /\ result[t].is \in {"Ok", "Err"}
=============================================================================
