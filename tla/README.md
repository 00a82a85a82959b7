# A TLA+ model of mina-verify

mina-verify checks the SNARK proofs of Mina blocks and decides which verified tip
is canonical. These modules model the parts of it that keep state or run
concurrently, and the algorithms that decide what is accepted. TLC checks them on
small instances, and TLAPS proves their safety properties for every value of the
constants, some under hypotheses stated below; liveness is left to TLC.

## The system

| part | source (under `src/crates/`) | state | operations | what makes it hard |
|---|---|---|---|---|
| fork choice | `mina-verify/src/fork_choice.rs` | none | `verify_tip`, `prefers_candidate`, `compare_tips`, `select_canonical` | the preference is not transitive across a long range |
| chain monitor | `mina-verify/src/monitor.rs` | window (`nodes`, `order`), `best` | `new`, `ingest`, `best`, `best_height` | a bounded window, any order of delivery, missed and repeated blocks |
| verifier construction | `mina-verify/src/lib.rs` | process globals: network, panic hook | `for_network`, `for_network_offline`, `with_index_json`, `devnet`, `mainnet` | concurrent constructions on the same globals |
| decoding, verification | `mina-verify/src/lib.rs`, `ingest.rs`, `precomputed.rs` | none | `block_from_gossip_payload`, `verify_header`, `verify_and_extract` | every failure means "do not ingest" |
| account reads | `mina-verify/src/account.rs`, `account_read.rs` | none | `sync_ledger_queries`, `account_with_path`, `verify_account_inclusion`, `ledger_sweep_queries`, ... | an untrusted peer; shifts and roundings at the edges of a Merkle tree |
| gossip subscriber | `mina-verify-capture/src/lib.rs` | connected peers | `subscribe_blocks` | events in any order, re-dialling of seeds already connected, deadline |
| RPC client | `mina-verify-capture/src/rpc.rs`, `rpc_net.rs` | next id, stream | `call`, `fetch_best_tip`, `fetch_sync_ledger_answers` | several connections, frames out of order, deadline |
| live monitor | `mina-verify-monitor/src/main.rs` | channel, counters, a chain monitor | two threads | closing and draining, a worker that dies |
| block source | `mina-verify-monitor/src/source.rs` | none | `verify_from` | no facts without a proof |
| HTTP server | `mina-verify-server/src/lib.rs` | thread pool | `serve`, `handle`, `dispatch` | panics in verification, slow clients |
| capture tool | `mina-verify-capture/src/main.rs` | files, a counter | `on_block` | runs in a used directory, failing writes |
| command line tool | `mina-verify-cli/src/main.rs` | a chain monitor | `main` | what exit code and last line mean |
| wasm bindings, shell shim | `mina-verify-wasm`, `mina-verify-server/deploy` | none | | thin wrappers |

A payload travels from `subscribe_blocks` through the channel to the worker of the
live monitor, which decodes it, verifies it with a `Verifier` and gives the resulting
`VerifiedTip` to `ChainMonitor::ingest`; `ingest` asks the fork choice. The command line
tool feeds the same monitor from files, the server uses the same `Verifier` on posted
blocks, and `verify_from` uses it on a block fetched over RPC. A light client takes the
ledger root from a verified block and reads accounts below it with answers fetched over
the same RPC client.

## Modules

- **ForkChoice**: verified tips and the preference among them. A tip is its state hash.
  Because a Pickles proof attests all ancestors, a verified block determines its
  `chain` back to genesis; the block tree is a constant of the model. `consensus_take`
  and `is_short_range_fork` belong to mina-core and are modelled from how this
  repository describes them: length within short range, density across a long one,
  and a strict order of VRF output and hash (`rank`) to break ties.
- **CanonicalTip**: the abstract monitor, a running comparison with no window.
- **ChainMonitor**: `monitor.rs`. `ingest(b)` has one disjunct per way out of the
  function. `insert` includes the eviction loop; `common_ancestor` says which blocks
  its two walks look up, and so when it gives up. `last` is the last call with its
  result, `seen` and `recent` are history variables for the properties.
- **SelectCanonical**: the loop of `select_canonical`.
- **LiveMonitor**: the two threads of the live monitor and its channel, on top
  of `ChainMonitor`'s variables. A message is described by its
  byte 8, the block binprot reads from it and the outcome of verifying that block.
- **VerifierInit**: threads inside the constructors; one action per access to a global.
- **Server**: clients, the listener's queue and the threads of the pool. A request carries
  the text that is read of its body, up to the cap: it decodes or not, its proof is valid,
  invalid or trips an assertion, and its state can be hashed or not.
- **Cli**: the command line tool, on top of `ChainMonitor`'s variables: one action per
  outcome of a file, `Finish` for the end of the list, `Exit` for `exit(n)`, with which
  the monitor's memory is gone. The arguments are chosen as they are read.
- **AccountRead**: `account_with_path`, `verify_account_at_root` and
  `verify_account_inclusion`. The loop over the answers is `Walk`, one step per level; the
  loop of `implied_root` is `Fold`, one step per height. Hashes are terms, which says that
  Poseidon has no collisions; an address is the list of turns from the root. `turns` is
  history.
- **LedgerSweep**: the sweep for the map from public keys to indices. The three functions
  are operators; a consumer calls them in rounds while the ledger grows. `SweepDepth` is
  their depth argument: an address keeps as many bits as the roots of subtrees are deep.
  Peers answer honestly or refuse; the map is documented as an untrusted hint, and what a
  lying peer can do to a balance is the matter of `AccountRead`.
- **LightClient**: `LedgerSweep` and `AccountRead` composed: reads begin when the sweep is
  complete.
- **Fetch**: what a fetch promises: all answers in order from one peer, or an error. Only a
  frame length that cannot be allocated ends it by a panic.
- **RpcFetch**: `RpcHandler` and `RpcBehaviour` per connection, the stream in use, and
  `RpcConn` with its ids. A frame is the id it answers. A peer receives a query before it
  answers it; apart from that it may stall, repeat, reorder, fail, disconnect, and announce
  a frame too long to allocate.
- **BlockSource**: `verify_from` over `RpcFetch`, and a second caller for ledger batches.
- **GossipSubscriber**: the event loop of `subscribe_blocks` with the callback of the
  capture tool; per seed the dials under way and the connections up.
- **ForkChoiceProofs, ChainMonitorProofs** (with `CanonicalTip`), **SelectCanonicalProofs,
  MonitorClientProofs** (`Cli` and `LiveMonitor`), **AccountReadProofs** (with `LedgerSweep`
  and `LightClient`), **BlockSourceProofs, GossipSubscriberProofs, ServerProofs** (`Server`
  and `VerifierInit`): the theorems.
- **MCChainMonitor, MCCli, MCLongRange, MCLiveMonitor, MCLightClient, MCBlockSource**: block
  trees, ledgers, peers and messages for TLC. `MCLongRange` composes `ChainMonitor` with
  `SelectCanonical`: a consumer feeds a monitor or asks about a list.

Definitions named `X_reason` and commented "Flawed variant" are bugs the code might
have had. Each property is checked to fail when one of them takes the place of `X`.

## Runs

| run | configuration | question and answer |
|---|---|---|
| `monitor_short` | `Cli` | The command line tool over eight blocks on three branches, window 4, short range. Window consistent, best never evicted, every verdict exact, ancestry given up only at a real hole and otherwise with both branches in the window, best the maximum of all tips ingested; exit code and last line say what happened. |
| `long_range` | `LongRange` | Same tree, branches in long range with a preference cycle. A monitor with window 3 still implements `CanonicalTip`; verdicts are exact; the last `capacity - 1` blocks are retained; multi-block extensions occur. `select_canonical` over all lists of up to three reports: within a branch, which forks itself, the winner beats every tip listed, across branches no later one. |
| `monitor_one` | `ChainMonitor_one` | `new(0)`, hence capacity 1: what holds until the `expect` in `ingest` fails. |
| `live` | `LiveMonitor` | Four messages of ten kinds, any interleaving with worker and deadline, all three networks, keys that load or not: nothing unverified ingested, a summary accounts for everything delivered, the process ends. |
| `verifier_init` | `VerifierInit` | Two threads, any two constructor calls, keys that load or not: a verifier is for the network asked for, conflicts are real, the panic hook comes back unless constructions overlap, and the three constructors that return a `Result` return one. |
| `server` | `Server` | Two threads, three clients with any requests, one of which may stall for ever: every request is answered once, and `valid` is true exactly when the text read of the body verifies. |
| `light_client` | `LightClient` | A ledger of five accounts swept in rounds, in batches of two from a tree of depth 3, while it grows: no index skipped or wrong. Then every read at depth 2, with every list of answers from two ledgers, exchanged or malformed, and every inclusion proof of up to two steps (some of three): what is accepted is true, and an honest peer is accepted. |
| `block_source` | `BlockSource` | Three peers, one of which always answers, and batches of up to three queries: the RPC client implements `Fetch`, uses one stream per connection and minds no noise; facts come only from proven blocks; `verify_from` returns, unless a frame cannot be allocated or the verification of the tip panics. |
| `gossip` | `GossipSubscriber` | Two seeds, connections that open, double, drop and fail, and two runs of the capture tool in one directory: the peer count is never too high, a seed that can be reached is connected or being dialled, it is counted again after every drop, files are the right ones. |

Three more runs show where the code and its comments disagree:

- `monitor_one_best`: with capacity 1 the block just inserted is evicted and then made
  the best. "the current best is never evicted" does not hold, and the next competing
  block panics.
- `monitor_ancestor`: `common_ancestor` compares the names its walks arrive at and does not
  look up the block at which they meet, so a fork whose common ancestor was evicted is
  reported with that ancestor, where the comments of `monitor.rs` say `Unlinked`. It is the
  right one (`VerdictsExact`) and all blocks above it are there (`NoExtraFetch`).
- `live_summary`: a worker that panics, because its verifier cannot be built (always so on
  `mesa-mut`, which has seeds and no embedded key) or in verification, leaves the gossip
  loop running and the process ends without a summary.

Smaller differences and limits met while modelling, which are in the modules but have no
run of their own, and which no property takes for granted:

- a *better* tip with unresolved ancestry is `Reorg` without an ancestor, where the module
  comment of `monitor.rs` says `Unlinked`;
- `devnet()` also panics when its key does not load, not only on a network conflict, so
  `EveryCallReturns` is about the constructors that return a `Result`;
- a body longer than `MAX_BODY_BYTES` is cut there and what was read is verified; the
  comment on the constant says that this makes the block undecodable, which is not so when
  the cut falls behind the document;
- a frame of the RPC stream is allocated at the length its header gives, and a panic inside
  verification is caught in the server and nowhere else;
- once a peer has had two connections the peer count may be too low: closing one of them
  removes the peer. A failed re-dial is not repeated until another connection closes;
- `CAPTURE_BLOCKS=0` saves one block, and `CaptureIsExact` claims nothing of that case;
- every close dials every seed, so connections grow with the number of drops;
- an index of `2^depth` or more is read as its low `depth` bits (`ReadSound` says so).

`HookRestored` has the premise that no two constructions overlapped. Without it TLC
finds a behaviour in which the second thread saves the silent hook of the first and
restores it last; the process then reports no panics any more.

### Bounds

The tree of `MCChainMonitor` has branches of four blocks, a fork inside a branch, and
ranks by which the branches overtake each other at each height; a window of three or
four is smaller than the tree, so eviction, redelivery, holes and rotation of the best
all occur. The monitor is deterministic in its last tip and its window, and no call
looks at more than two branches. `MaxArrivals` (4) lets the channel hold several
payloads at the deadline and after the worker's death. `MaxTips` (3) is the length of
the preference cycle. Two threads suffice for the races on the globals, which are
pairwise; three clients and two threads for a pool that is one stalled client away from
being exhausted.

Depth 2 is the least at which a read has an inner level, a wrong order of turns shows, and
a path can be too short without being empty; indices go up to 5 to have some beyond the
ledger. A batch of 2 and 5 leaves put round boundaries at the start, the middle and the
partly filled end of a subtree. Three peers give a stream in use, a late stream and a
failed connection at once; three queries give a response that is late by one and by two.
`MaxDrops` (3) exceeds the number of seeds, so that connections double and drop again;
`MaxBlocks` (3) is the largest number wanted; `MaxRuns` (2) lets a run meet old files.
The theorems below do without these bounds where they apply.

### Fairness

`LiveMonitor`: weak fairness of the deadline (a timer), of `join`, and of the worker,
which the operating system schedules. Messages are not fair: gossip promises none.
`VerifierInit`: weak fairness of each thread; no step blocks. `Server`: weak fairness of
each thread, and of the end of each body except those of `stalled` clients. The code has
no read timeout, so `EveryRequestAnswered` needs fewer stalled clients than threads.
`BlockSource`: weak fairness of the deadline, which is a timer around the whole fetch, and
of the caller's own steps; none of the network, so `SourceReturns` and the liveness of
`ImplementsFetch` rest on the deadline alone. `GossipSubscriber`: weak fairness of a
successful dial of each `Reliable` seed; a dial of another seed may fail or hang, and the
deadline may come at any time or not at all, since `subscribe_blocks` may be given none.
`ChainMonitor`, `Cli`, `SelectCanonical`, `AccountRead` and `LedgerSweep` only answer
their callers, and have no fairness.
Runs of systems that stop (a finished loop, an exited process, a panicked monitor)
do not check for deadlock; liveness properties take its place.

## Proofs

Assumptions are those of `ForkChoice` (a tree of chains with one genesis, a strict rank,
a symmetric range) and, where stated, `requested >= 2`, which `monitor_one_best` shows to
be necessary (the command line tool and the live monitor ask for 512), `AllShortRange` or
`ChildPreferred`; those of `AccountRead` (a node hashes its children, ledgers decode); that
`batch` and `subtrees`, powers of two, are positive and their product, the number of leaves,
is at least the number of accounts, since the prover has no powers; and that the value
`None` (`Unset` in `VerifierInit`) differs from the others. TLC evaluates
those the modules state with ASSUME; the rest are hypotheses of single theorems.

The chain monitor:

- `TypeCorrect`: types, for every capacity.
- `WindowSafety`, `WindowStaysSound`: for capacities from two on, the best is never evicted,
  no `expect` fails, the bound holds, queue and map agree. The inductive invariant `IInv`
  adds to the types that `order` lists `nodes` without repetition, that there are at most
  `capacity` of them, that `best` is one of them, and that best and history agree. None of
  these is inductive alone: that eviction spares the best rests on `order` having no
  duplicates and at least one other key, which rests on the bound.
- `WindowIsRecent`, `RecentBlocksRetained`: that the last `capacity - 1` blocks are retained
  is not inductive either, since `insert` moves the best from the front of the queue to
  its back. `RecentInv` says what the queue looks like: it is the list of the blocks last
  inserted, once it is full with one older block put in at some place, and that place is
  never further back than right behind the best. Hence what an insertion evicts is the
  older block, or the one that ceases to be among the last `capacity - 1`.
- `Refinement`: every step of the monitor is an `Offer` or an `Ignore` of `CanonicalTip`.
  The direct-extension path does not consult the fork choice, hence `ChildPreferred`.
- `CanonicalBest`, `NeverReadopts`: within short range the preference is a strict total
  order (`TakeAsymmetric`, `TakeTotal`, `TakeTransitive`), so the running winner is the
  maximum of all tips ever ingested. `CanonicalTipMaximum` is the same of the abstract
  monitor.
- `CanonicalBeforePanic`: the same for every capacity up to a failing `expect`. With a window
  of one block the best may leave the map, but the steps before the failure are still
  steps of `CanonicalTip` (`StepUntilPanic`).
- `VerdictsAreExact`: from `CommonAncestorExact`, by the heights at which two chains
  agree, `Extend`, `Reorg`, `Fork` and `Behind` are exact in the block tree.
- `ResolvedNeedsNoFetch`: two chains agree up to their meeting point (`ResolvedInWindow`),
  so what lies on one of them only is what `common_ancestor` looked up in the window.
- `GivesUpOnlyAtGaps`: a block `common_ancestor` did not find lies at or above the meeting
  point of the two chains, so the fork has a real hole in the window.

Its two users:

- `ExitCodeHonest`: in any range; the invariant `ExitInv` says that a file read is a block
  seen.
- `PrintedIsCanonical`: `CliInv` carries `IInv` and `BestIsCanonical` through the run; at the
  end a block was seen, hence `best()` is not `None`.
- `OnlyVerifiedIngested`, `SummaryComplete`: the invariant `LiveInv` of the two
  threads says that the payloads delivered are those handled followed by those in the
  channel, that the counters are the tallies of those handled and the monitor has seen
  exactly the verified blocks among them, and carries `IInv` along. A worker that is done
  has handled everything, and nothing is sent any more, so its summary is about all; that
  the height it names is that of the canonical tip holds within short range.

The others:

- `WinnerCorrect`, `LaterTipsLose`: the loop invariants of `select_canonical`.
- `InclusionIsSound`, `ReadIsSound`: the invariant (`Pinned`) says that wherever the hash
  in hand occurs in a ledger, it occurs as many levels above the leaves as have been
  folded, and the account in hand is below it along the turns folded. It has to be stated
  for every address and not for the root alone: each `Fold` takes one hash apart. That the
  turns of a read are the bits of the index is a second conjunct, from `Walk`.
- `ReadIsComplete`: with the answers of the right ledger, the hash in hand *is* the node at
  its address after each step (`HonestInv`).
- `SweepIsRight`, `SweepIsComplete`: for every batch and every sequence of rounds. The lemmas
  on division (`SubtreeOf`, `SubtreeOrder`, `IndexOfPair`) give for each index between the
  start and the end of a round the query and the place in its answer at which it is found;
  that the tree has all subtrees asked for (`SubtreesSuffice`) keeps addresses from wrapping.
  `ClientReads` carries the theorems on reads over to the light client.
- `FetchRefinement`: initial states and steps of the RPC client map to those of `Fetch`.
  The invariant: the answers so far are those of the peer in use to the first queries, and
  the id waited for is the number of the next one. The fairness of `Fetch` is left to TLC.
- `NoiseTolerated`, `OneStream`, `FactsAreProven`: from the state of each connection (a
  stream or a request exists only where `requested` is set; the connection of a reliable
  peer in use is up) and from the order of fetching and verifying.
- `CountCorrect`, `SeedsAreKept`, `CaptureCorrect`: `connected` against the connections per
  peer, a connection or a dial for every seed whose dials succeed, and the files against
  the messages of the run; for any number of seeds, drops, blocks and runs.
- `NoRequestLost`, `ValidIsVerified`: for any number of clients and threads. `ServerInv` says
  that the queue has no duplicates, that no two threads serve the same request, and that
  queued, served and answered requests are apart; the cardinalities of `RequestsAccounted`
  then are 0 or 1. It also says that no thread ever ends (`ServerInvariant`). `AnswerInv` ties
  each answer to the request: it is `valid` if and only if the text read verifies.
- `VerifierIsAsAsked`, `ConflictsAreReal`: for any number of threads. The invariant
  (`NetworkInv`, theorem `OneNetwork`): the active network is one that a thread asked for, and
  it is the one of every thread that is past the comparison or got a verifier.

Only model-checked: liveness (`Terminates`, `EveryCallReturns`, `EveryRequestAnswered`,
`SourceReturns`, `Reconnects`, the fairness of `Fetch`), which is out of the prover's reach,
`HookRestored`, and the three runs that expect a violation.

`NeverPanics` and `FirstSourceWins` are proved (in `WindowSafety` and `WinnerCorrect`) and not
checked by a run.

## Not modelled

- Cryptography, hashing, binprot, JSON and base64 (`verifier_index.rs`, most of
  `precomputed.rs`): pure conversions with no state; they appear by their outcomes.
- libp2p and `transport.rs`: set-up of a library. It appears as events, which the model
  lets come in any order. The dials gossipsub makes by itself for explicit peers are left
  out, as is the end of the swarm's event stream (`None => break`), which does not occur.
- The wasm bindings, the shell shim, the examples and log output: wrappers without state
  around functions that are modelled.
- Start-up of the server (environment variables) and everything that only formats.
- The consumer described in `docs/USING_AS_A_BACKEND.md`: it is not code of this
  repository. What it needs from the monitor is `NoExtraFetch` and `VerdictsExact`.
- Time: a deadline may come at any moment. The rate at which blocks arrive and are
  verified, and so the length of the live monitor's unbounded channel, is not in the code.
