# JGC node: models, checks and proofs

This directory is a TLA+ development of the JGC repository. Its core is the node
(`packages/jgc-node`), the program that keeps a block chain, exchanges blocks with
peers, holds pending transactions and collects audit votes on computation; around
it are modelled the broker and the judging of claims, the proof system, the
wallet, the data directory, the launch gate, the monitors, the token contracts and
the website's worker. The modules are written from the code; where a comment or a
document says something else, the run that shows it is listed under
[Findings](#6-findings).

Paths below are relative to `packages/jgc-node/src/` unless they start with `/`.

## 1. The system

### 1.1 How the parts work together

The node is one process with one event loop (`network/node.ts`, class `JGCNode`).
Everything reaches it as a message from a peer (`network/transport.ts` hands the
frames of one socket to `handleMessage`, one after the other), as a call from
the local block producer (`network/designated-producer.ts` → `submitBlock`), or
at start (`replayFromStore`). There is no second thread. Concurrency is what
happens at an `await`: a handler that relays a block or sends data gives way to
the handlers of other sockets and to the producer, and comes back to a state
that they may have changed.

```
 peers --frames--> transport --> auth-session --> handleMessage
                                                   |  |  |
             producer --> submitBlock ------.      |  |  +-- audit messages --> AuditLifecycle --> audits.json
                                            v      |  +----- transactions ----> mempool
                                        ingestBlock <- blocks, orphans           ^    ^
                                          |    |                                 |    | prune, return
                  validation <------------'    '--- applyLiveBlock, reorgToBlock-'----'
                  (UTXO set, epoch state)            |
                                                     +--> blocks.dat, chainstate.snapshot
```

### 1.2 Inventory

Each entry gives the state, the operations, what is hard about it, and what makes
it correct. The status of each is in section 3.

**Chain manager** (`network/node.ts`, `config/difficulty-policy.ts`). State:
known blocks with cumulative work, the active chain by height, the UTXO set and
epoch accumulator its blocks produce, and orphans by missing parent. Operations:
`handleBlock`, `submitBlock`, `ingestBlock`, `applyLiveBlock`, `reorgToBlock`,
`drainOrphans`, `forget`. Hard: blocks in any order from several peers, heavy
branches that fail late, handlers that interleave while orphans are drained,
ties, blocks that say height 0. Correct if the active chain is always a complete path,
valid above its first block, the state is exactly its replay, no known block ranks above
the tip, the outcome does not depend on arrival order, and no orphan is forgotten. That
the first block is the compiled genesis is not so in this code (section 2.1).

**Durable chain storage** (`storage/persistence.ts`, `storage/durable-file.ts`).
State: an append-only log of the active chain's blocks, replaced as a whole by a
reorg, and a snapshot of the state. Operations: `append`, `rewrite`, `replay`,
snapshot `write`, `load`, `remove`. Hard: a crash between any two writes, a torn
record, a snapshot of an abandoned branch, a write that fails. Correct if the
files always load, and load to what the node had accepted.

**Peer protocol** (`network/transport.ts`, `network/auth-session.ts`,
`handleMessage`). State: per connection, the session, the height the peer
announced, sequence numbers, and the frames in flight. Operations: VERSION and
VERACK, GETHEADERS, HEADERS, GETDATA, BLOCK, relay, redial. Hard: relays cross a
handshake in progress, sockets drop, answers mix with relays. Correct if honest
nodes never refuse each other and end up with the same chain.

**Ledger** (`consensus/utxo.ts`, `epoch.ts`, `settlement-transaction.ts`,
`validation.ts`). State: unspent outputs, the epoch's fee and subsidy pool, work
per miner. Operations: `validateSpend`, `applyTransaction`, `calculateBlockFees`,
`applyBlockToEpoch`, `computeEpochSettlement`, block validation. Hard: the order
of fees and spends, rounding in settlements, maturity. Correct if value is
conserved.

**Mempool and block candidate** (`submitTransaction`, `pruneMempool`,
`removeFromMempool`, `buildBlockCandidate`). State: pending transactions and the
outputs they reserve. Hard: conflicts between pending transactions, blocks and
reorgs; a full pool. Correct if all of it can always go into the next block.

**Compute audits** (`broker/audit-protocol.ts`, `storage/audit-store.ts`, the
audit handlers of the node). State: open requests, votes, verdicts, and their
copy on disk. Operations: `registerRequest`, `submitVote`, `finalize`,
`finalizeDue`, `indexCommittedVerdict`, `reconcile`, `restoreState`. Hard: reorgs
take anchors away and bring them back, other nodes finalize on other votes, the
book and the block log are two files. Correct if the book agrees with the active
chain, no claim is both cleared and convicted, and nothing saved is lost.

**Assigned-work journal** (`broker/assigned-work.ts`). State: a directory of
entries, one per index, and the assignments, reservations and credits they add
up to. Hard: several processes append; a crash leaves a partial entry; leases
expire. Correct if two processes never both win an index, credits are conserved,
leases are honoured, reservations can be recovered, and nothing goes past an
unfinished entry.

**Compute broker** (`broker/compute-broker.ts`). State: compute nodes with idle
capacity, an order book, a queue of the cluster's tasks, assignments. Hard: every
public call ends in an allocation cycle, and a cycle that expires a node fails its
assignments, each of which runs a cycle of its own. Correct if work is on
registered nodes only, capacity is not given twice, and the cluster goes first.

**Junctioning, challenges, quorum** (`broker/junctioning.ts`, `verification.ts`,
`challenge.ts`, `quorum.ts`, `backcheck.ts`). State: claims, votes, stakes. Hard:
the execution profile is read before an await and the model may be replaced
meanwhile. Correct if stake is taken once and honest nodes keep theirs.

**Audit schedule, bonds, proposer draw** (`broker/audit-schedule.ts`,
`consensus/validator-bonds.ts`, `proposer.ts`). Pure functions of the chain,
evaluated by nodes that have grown further or reorganized. Correct if committees
are independent of the claimant, every claimant is covered or reported, and what
was scheduled stays committable.

**Time, difficulty, emission** (`consensus/emission.ts`, `epoch.ts`, the header
rules). Hard: clamps, caps and compact targets at their boundaries, restoration
from a snapshot. Correct if every target can be written in a header, moves in
proportion, and no unit of reward is lost or paid twice.

**Proofs** (`crypto/zkp.ts`, `pq-zkp.ts`, `compute-proof.ts`,
`/packages/jgc-node/rust`) and **contributions** (`miner/`, the node's pending
proofs, the designated producer). State: proving keys, the registry, the verifier's
mode and module; receipts, pending proofs, the producer's template. Hard: modes,
mocks and stubs set in any order; receipts lost, repeated or late. Correct if what
is accepted was proved, nothing is credited twice, and the pilot goes on.

**Peer admission** (`network/peer-guard.ts`, `transport.ts`) and **dialing**
(`maintainPeers`, the address book). State: a bounded table of hosts with counters,
scores and bans; the queue of each socket; known addresses, dials, timers. Hard:
eviction at the limit, a socket that ends in several ways, timers against close.
Correct if counters are what is there, bans are served, seeds are not forgotten.

**Encodings** (`consensus/block.ts`, `storage/persistence.ts`, `crypto/merkle.ts`,
`network/wire.ts`). Pure, but every width and every cut counts. Correct if decoding
inverts encoding and refuses every prefix, and a root or signature fixes what it covers.

**Data directory** (`storage/persistence.ts`, `config/testnet-reset.ts`). State: the
state files, the manifest that binds them to a chain, archives, the reset's marker.
Hard: crashes between renames, starts of other releases. Correct if a running node
finds only its own chain, and nothing is lost.

**Wallet** (`wallet/`, `scripts/wallet-cli.ts`). State: one keystore file, replaced
by write, sync and rename. Correct if a key whose address was shown survives, and
spends are accepted by the ledger.

**Launch control** (`config/mainnet-launch-control.ts`, `mainnet-readiness.ts`,
`crypto/proof-registry.ts`). State: files that people edit. Hard: edits between
signatures. Correct if nothing is launched on approvals of something else.

**Soak monitor** (`ops/`, `/packages/jgc-node/deploy/monitor/server.mjs`) and
**readiness report** (`ops/pilot-evidence.ts`, `pilot-readiness.ts`). Hard:
overlapping ticks over one stored object; facts read at different moments. Correct
if a verdict was witnessed and no observation is lost.

**Token contracts and relayer** (`/contracts`, `/scripts/relayer`). Correct if
balances add up, the cap and allotments hold and an authorization settles once.

**Website worker** (`/worker/worker.js`). Handlers are awaited queries with no
transaction, and a statement that fails need not stop them. Correct if the books lean one
way, but for the writes that failed unnoticed, and no signup that was read is left unmailed.

**Not modelled**: signature primitives, pages, the status server, network
parameters and simulations, deployment scripts, kernel code generation.

## 2. The modules

| Module | Role |
|---|---|
| `BlockTree` | constants and assumptions: parents, work, validity, ancestry; the fork-choice order |
| `ForkChoice` | abstract specification: one tip that moves to preferred valid chains, and goes back to genesis under a foreign block of height 0 |
| `ChainNode` | the chain manager and its files, with crashes |
| `ChainArrival` | `ChainNode` with a history of what was delivered, and fairness |
| `ChainFaults` | `ChainNode` with writes that fail without ending the process |
| `Chain_proofs` | theorems about `ChainNode`, `ChainArrival` and `Encodings` |
| `PeerSync` | handshake, catch-up and relay between nodes |
| `AuditLifecycle` | the audit book of one node over a forking chain |
| `Ledger` | UTXO set, fees, epochs and settlements as operators |
| `Mempool` | pending transactions over the ledger of a growing, reorganizing chain |
| `WorkLedger` | the events of the assigned-work journal, when they are acceptable and what they do |
| `WorkLog` | abstract specification: one log of admitted entries that only grows |
| `AssignedWork` | the journal's directory, shared by processes that die |
| `Services_proofs` | theorems about `AssignedWork`, `LaunchControl`, `SoakMonitor`, `PilotReadiness` and `SiteWorker` |
| `AuditLifecycle_proofs` | theorems about the audit book |
| `Sums` | lemmas: induction over numbers and finite sets, sums of the community modules |
| `Ledger_proofs` | theorems about the ledger, the pool, the wallet and the chain's rules |
| `Market_proofs` | theorems about claims and stakes, the data directory and the token contracts |
| `PeerGuard` | host table, sockets and their queues, bans |
| `PeerDialing` | address book, gossip, `maintainPeers` |
| `Peers_proofs` | theorems about admission, bans, dialing and handshakes |
| `ChainRules` | time window, targets, emission, epoch pool, as a chain grows and restarts |
| `Encodings` | bytes of a block, Merkle roots and inclusion proofs, peer frames |
| `ProofSystem` | kernels, ceremony, registry, verifier modes |
| `Contributions` | participants' receipts, pending proofs, the producer |
| `ComputeBroker` | bids, tasks, assignments and nested allocation cycles |
| `Challenges` | claims, replays, quorums, stake |
| `AuditSchedule` | windows, committees, bonds, commitment of verdicts |
| `Compute_proofs` | theorems about `Contributions`, `AuditSchedule`, `ProofSystem` and `ComputeBroker` |
| `TokenContracts` | the five contracts and the relayer |
| `DataDirectory` | manifest, state files, reset, archives |
| `Wallet` | the keystore's commands and the spends |
| `LaunchControl` | the launch gate |
| `SoakMonitor` | the hosted monitor's ticks over a public chain |
| `PilotReadiness` | the readiness report |
| `SiteWorker` | the website worker's requests as awaited queries |
| `MC...` | small instances for TLC |

`ChainArrival`, `ChainFaults` and `Mempool` extend the modules they build on;
`ChainNode` instantiates `ForkChoice` under the mapping `tip <- DurableTip`, and
`AssignedWork` instantiates `WorkLog` under `log <- Recorded`. `MCNode`, `MCMarket`,
`MCLedger` and `MCServices` each hold several modules that share no state; their
variable `part` says which of them moves (section 4).

### 2.1 Chain: `ChainNode`

| Variable | Code |
|---|---|
| `chainWork` | `ChainState.chainWork`; its domain is `ChainState.blocks`, its value 0 for a block that has no entry |
| `active` | `heightIndex` from height 0 to `tipHash` |
| `applied` | the blocks whose effects `utxos` and `epochState` hold |
| `orphans`, `waiting` | `ChainState.orphans`; what `drainOrphans` took off it |
| `ingested` | the block a handler has ingested and whose orphans it drains next |
| `late` | blocks whose timestamp is more than the allowed drift ahead |
| `log`, `torn`, `snap` | `blocks.dat`, whether it ends in a partial record, the snapshot |
| `up` | the process runs |
| `grafted` | history: this process started from a snapshot on a chain whose first block is in no file |

The state that a block's transactions produce is named by the sequence of blocks
applied: two equal sequences give equal state, and a block verifies only on the
state of its parent's chain, since its header commits to the roots.
`HandleBlock`, `StashOrphan` and `SubmitBlock` are the entries; `Ingest` is
`ingestBlock` with its four outcomes (extend, reorg, keep as a branch, reject).
`ingestBlock` is synchronous, so it is one step. `TakeOrphans` and `DrainNext`
are the loop of `drainOrphans`; between them other handlers run. In the code the
first orphan is ingested in the same turn as it is taken off the stash; the
model allows a pause there too, which only adds behaviours.
`CrashInAppend` and `CrashInReorg` stop the process between the writes of an
ingestion, `Restart` is `replayFromStore`.

**Blocks that say height 0.** The code asks three times whether a header says height 0,
and never whether such a block is the compiled genesis: `handleBlock` does not make it wait for
a parent (`network/node.ts:771`), `ancestryFromGenesis` ends at it (`:1265`), and the loop of
`reorgToBlock` that verifies starts behind the first element of the path (`:1389`). So any
block may be the first of a chain: `Root` is the set of those, with `Genesis` in it, and a
block of `Root` other than genesis is called foreign. It is never verified and its work is
what it declares. If that is more than the tip's, the node adopts it as a chain of one:
the scratch chain is the compiled genesis's state under a foreign hash (`Effects`), and the
log is rewritten without its first element (`Tail(Ancestry[b])`), that is, empty. What is
built on it is verified as usual and appended. After that
- a restart with an empty log is back on genesis (`Reset` in `ForkChoice`);
- a restart with blocks above the foreign one is refused, since the first of them does not
  extend genesis (`ReplayAccepts` is false, the node stays down), unless a snapshot of the
  pilot network covers it: then the node runs above a block that it does not have
  (`grafted`), with that block's work missing, and an ingestion that has to reach the
  missing header throws (`Throws`, `RootKnown`).

All of this is in the model and in the runs, and each property says what it promises then:
`ActiveChainValid` speaks of blocks above the first, `RestartAccepted` of logs on genesis,
`BestKnown` and `NoStrandedOrphan` of nodes that are not grafted, `ImplementsForkChoice` has
`Reset` and compares work only between chains of genesis. Comments say otherwise:
`network/node.ts:759-760` that `ingestBlock` runs the full validation pipeline, `:1258` that the
ancestry comes "from genesis (inclusive)", `:1353-1361` that blocks unique to the new branch are
verified.

**Work that is no number.** `ingestBlock` records header and block (`:823-824`) before it
asks for the block's work, and `networkBlockWork` throws on difficulty bits that decode to
nothing (`config/difficulty-policy.ts:27-29`, `consensus/emission.ts:325`). Such a block
(`Unworkable`) stays known without an entry in `chainWork`, and its handler is gone with
the orphans it still held (`Throw`).

`ChainArrival` adds `delivered`, the blocks given to the process since it started and
those it replayed; `Deliver` is one of the entries, `Work` a handler's own steps. A
block that came ahead of its time was rejected and forgotten, so what `RestIsBest`
promises is about the chains none of whose blocks is ever early (`Timely`). Orphans
dropped by an exception count as not delivered (`Dropped`).

`ChainFaults` adds the exceptions: `store.append`, `snapshot.write` or
`store.rewrite` throws after memory has changed. The handler is abandoned and the
process goes on. A failed append that leaves part of a record is left out.

### 2.2 Peers: `PeerSync`

A node's chain is reduced to what it knows, its tip and its stash. `session` is
the state of one end of a connection ("new" before VERSION, "keyed" until VERACK
in authenticated mode, "ready"), `startHeight` the height the peer's VERSION
gave, `inbox` the frames sent and not handled, `serving` the blocks
`handleGetData` has still to send: it awaits each one, and relays get in between.
`Drop` closes a socket with all that is in flight, `Open` and `Attach` dial and
register again. `Seals` is `AuthSession.seal`, which drops what is not part of
the handshake, and `Accepts` is `AuthSession.open`, which throws at it.

Abstractions: orphans are drained in one step (`ChainNode` has the detail), all
blocks are valid, sequence numbers are left out (frames of a socket are neither
lost nor reordered while it is open), and so are PING, addresses and GETBLOCKS.

### 2.3 Audits: `AuditLifecycle`

The chain is a trunk and two branches; `tree` records which verdicts the blocks
of each commit. A request is named by the block of its beacon; `book.open` holds
the votes of open requests, `book.verdicts` the finalized ones, `saved` is
`audits.json`, `cast` what the validators have signed so far. `RegisterRequest`,
`SubmitVote`, `HandleVerdict` are the three messages; `ApplyBlock` and `Reorg`
what the chain manager does to the book; `CrashInApply` and `CrashInReorg` stop
the process between the two files; `Restart` is `restoreAuditState` with the
limit, the revalidation of votes and the rebuilding of verdicts that
`restoreState` performs.

Abstractions: every validator is in every committee and signs one vote per
request, at its own height or the next; requests are those of the deterministic
schedule (its window and committee checks at commit are not repeated); another
node's block may commit any record that validates and that votes already cast
support. A branch takes over with the same height or one more (shorter, heavier
chains are left out) and commits at most one verdict in its last block.

### 2.4 Ledger and mempool

`Ledger` has the spending rules, the effects of a transaction (`After`: the outputs
after each of a block's transactions), block fees, the epoch's pool and work, the
settlement in which the last miner takes the rounding residual, and the state after
each block of a branch (`States`, of which `Replay` is the last). `Mempool` keeps the
active chain's blocks above a trunk, the ledger they produce and the pool (`txs` in the
order of the code's `Map`, `spends` = `mempoolSpends`). `SubmitTransaction` is the
admission with its rate bound and eviction, `Extend` a block by anyone, `Produce` the
node's own candidate, `Reorg` the replay of a branch, the return of disconnected
transactions and the pruning after it. `Keep` is what `Map.delete` leaves of the
pool's order; entries leave together, because what a pruning removes depends on the
outputs alone and not on the order of removal.

Abstractions: one subsidy era, valid signatures, settlement outputs are not spent
within a run (maturity is 100 blocks), transactions have fixed inputs and
outputs. The pool is not persisted, so there is no restart.

### 2.5 Assigned work: `WorkLedger` and `AssignedWork`

`WorkLedger` is `transition`: `Accepts` are its conditions, `Transition` its
effects, `States` the state after each of the entries that `read` goes through,
`Replay` the last of them. In
`AssignedWork`, `files` is the directory (an entry is `whole` once it parses),
`call` where each process is inside an operation, `clock` the time they read.
`Call` is the entry of one of the public operations, which fixes the event and
its time; `Read` or `Refuse` is the replay and check at the head of `append`;
`Open` or `Conflict` its exclusive creation of the next file; `Write` its write
and sync; `Abandon` the end of the process, or an exception, at any of these
points. Between any two of them the other processes run.

Abstractions: outputs are correct and signed by the leaseholder's key; a lease's
random id is the process and time that made it; the checksum chain of an entry is
named by the sequence of events it commits to; listing the directory and reading
its files is one step (a file that appears in between can only be missed, as if it
had come later). Processes die, the machine does not: what a power failure does to
entries that another process has already read is left out, and
`/docs/mainnet/ASSIGNED_WORK.md` promises nothing about the durability of
directory entries. The journal is never truncated or edited by hand.

### 2.6 Peer admission and dialing: `PeerGuard`, `PeerDialing`

`PeerGuard`: `hosts` is `PeerGuard.hosts`, `socket` the connection with its queue
and its message window, `bans` a history of the bans pronounced. `Seen`, `Looked`,
`Banned`, `Penalized`, `Released` are `state`, `expireBan`, `isBanned`, `penalize`,
`release`; `Connect` is the server's bound and `connectPeer`, `Lose` and
`HandshakeExpires` the ways a peer goes, `Receive` and `Handle` the queue of
`attachSocket` and what `handleMessage` does before and after decoding. A closed
socket's queue is emptied at once; the code drops its frames one by one, unhandled.

`PeerDialing`: `book` is `addrBook`, `link` the socket to a URL, `asSeed` whether its
dial was `dial(url, true)`, `redial` the retry timers. `FillTick` is `fillOnce`,
`Redial` a timer, `LinkCloses` a close event, `StopDialing` `close()`, `HandleAddr` and
`Advertises` what others say. Delays are not distinguished: a timer that is set may
fire at any later moment. The clock does not go back: if it did, a newcomer could be
the oldest entry, and the book would keep one more than its limit.

Observed while writing it, and part of the model: a seed that the fill loop dials
within its retry window is no longer kept warm (`network/transport.ts:310`), the
fill loop counts peers that are attached and so can dial more than `maxOutbound`,
and once the book is at its limit an evicted address is fresh again
(`network/node.ts:1512`). `DialInv` therefore speaks of seeds while the book has never
been full.

### 2.7 Rules of the chain and its bytes: `ChainRules`, `Encodings`

`ChainRules` connects one block after another with any admissible time:
`Connects` is the header's time window, the difficulty and the epoch accounting of
`validateBlock` and `applyBlockToEpoch`, `Restart` the restoration from the last
snapshot and the blocks above it. `Encode` and `Decode` are the compact form with its
cut, `policy`, which never changes, chooses exact or pilot retargeting. The pilot's
floating point is computed with exact halves; hashing against the target is left out.
The median is defined by what it is, the least time that more than half of the times do
not exceed, which is the middle of the sorted list. A target of more than 255 digits
makes the code throw (`emission.ts:316`): `MaxSize` is that limit, and the model ends a
chain before its target could pass it.

`Encodings` writes a block as `serializeBlock` and `BlockStore` do, cuts it
anywhere (`Truncate`), and decodes it; builds Merkle roots and proofs with the
duplicated last leaf; and signs a peer frame of which one field is altered
(`Alter`). A hash is the value that is hashed, and fixed-width fields are one number, so
what is checked is the layout: counts, lengths, order, what is covered by which root or
signature. `hashComputeProof` joins its fields without their lengths
(`crypto/merkle.ts:264-272`), and so does `ProofHash`: two contributions whose fields join
to the same text have the same leaf, and `InclusionInv` promises an equal leaf, not an equal
contribution. A leaf is a hash of one value and an inner node of two, so neither passes for
the other.

### 2.8 Proofs and contributions: `ProofSystem`, `Contributions`

`ProofSystem`: `pk` and `rounds` are the ceremony (`Contribute`), `registry` the
verifying keys with their placeholders, `mode`, `module` and `pqMode` the verifier's
global state, set by `LoadVerifier`, `SetMockVerifier` and `SetPQVerifierMode` in any
order and inside or outside production. Curve points are their exponents over a
small prime, so that a check of a pairing is an equation.

`Contributions`: `made` is the receipt a participant keeps, `pending` the
`pendingProofs` of each node, `wire` receipts in flight, `mined` what was credited.
`ParticipantTick` is the participant's timer, `Receive` `submitComputeProof` and its
relay, `ProducerTick` the designated producer, `Apply` the block's arrival elsewhere,
`Lose` and `Restart` the faults. Tasks are drawn fresh, so the pool's deduplication
by miner and the block's by task agree: a participant that signs one task for two
miners is outside the model.

### 2.9 Work and its judges: `ComputeBroker`, `Challenges`, `AuditSchedule`

`ComputeBroker`: `broker` is the class's state. An action is one public call with the
allocation cycles it nests (`RegisterNode`, `DeregisterNode`, `SubmitBid`,
`QueueJGClusterTask`, `FailAssignment`, `Tick`). A loop of the code is a sequence of steps
taken `InTurn`: the queue, the bids by price, each bid over the nodes, the nodes that
expire, the assignments of each. A cycle that is nested runs on one node less than
the cycle around it, so `Cycles` is a function on numbers, by depth. The random choice
of `allocateScientificFallback` is the constant `RandomBid`, by the number of assignments
made, so that any sequence of choices is some value of it. `failAssignment` has no guard on the
assignment's status: a caller that fails one twice returns its capacity twice, so
`BrokerInv` speaks of capacity while callers fail an assignment once and a node's
reports count the work under way (`honest`).

`Challenges`: `StartRun`, `FinishRun` are a run with the profile read before its await
and `cached` for good; `Upgrade` replaces a model at any moment; `Challenge` and `Draw`
start a resolution by one challenger or a quorum, `Compare`, `Rerun`, `Abandon` are
what each challenger does, `Conclude` the tally and the slash. An output is the
version of the model that made it.

`AuditSchedule`: `blocks` is the active chain with its bonds and verdicts,
`Requested` builds an assignment on it, `Forge` one with any committee, `Extend`
validates committed verdicts against the schedule (`validateAuditVerdicts`),
`Disconnect` is a reorg. `Snapshot` is `validatorStakeSnapshot`, `Selection` the
sampling and coverage of `buildAuditSchedule`, `Proposer` the stake-weighted draw.
A digest is `DigestOf`, a constant function of the chain.

### 2.10 Files and gates: `DataDirectory`, `Wallet`, `LaunchControl`

`DataDirectory`: `dir` and `archive` hold each file as the chain it belongs to and a
stamp; `Start` is `ensure` with its adoption of old directories, `StartReset`,
`MoveNext`, `FinishReset` the reset rename by rename with the marker last, `Save`,
`ClearSnapshot`, `Quarantine` the writers, `Dies` the end at any point. What a reset
has still to move is a set, moved in the order of the code's list, the manifest last
(`First`). An
interrupted reset followed by a start without its token leaves a directory that
refuses the reset until the operator intervenes: the model has it, no property calls
it wrong. Process crashes only, no power failures.

`Wallet`: `disk` and `tmp` are the keystore and its `.tmp`, `command` the command that
runs, `printed` the keys whose addresses were shown. `SetupOpen`, `SetupWrite`,
`Write`, `Flush`, `Rename`, `Show` are the steps of a save; `Send` the selection of
coins, where coins of equal value come in some order (the code's is that of the
outputs' set). One command runs at a time: two that overlap on a legacy wallet share one
`.tmp` and can lose a key whose address was shown, and a second `send` before a block
uses the same coins again. The explorer's balance counts maturity at the tip where
the wallet counts at the next block.

`LaunchControl`: the policy, the evidence ledger, the registry manifest and the
launch record are files; `FileEvidence`, `Retarget`, `ReplaceRegistry`,
`ReplacePolicy`, `DrawUp` edit them, `SignRecord` adds a signature, `Ready` is
`evaluateLaunchRequest`. `made` is a history of what each holder signed. The type at
`config/mainnet-launch-control.ts:54` says how many independent signatures a policy
requires; the code checks that this number is positive and then asks for one, and
that is what is modelled.

### 2.11 Monitors: `SoakMonitor`, `PilotReadiness`

`SoakMonitor`: `saved` and `generation` are the stored `state.json`; a tick is
`TickRead`, `TickAdvance` or `TickClose` (put), `TickReread`, `TickReviewed` (put again),
and can fail at each (`TickFails`). The public chain grows, stalls and reorganizes.
The endpoint `/enroll-participant-recorder` of `server.mjs` reads a variable that is
not defined in its scope and always answers 503; enrolment is therefore not an action.

`PilotReadiness`: `Collect` is one collector's answer at its own moment, `Judge` the
join and the checks. The report compares heights read at different moments, so seeds
in agreement can fail it, and it joins facts that may never have held together:
`ReadyIsTrue` says that each fact held at some moment of the collection, not that all
held at one.

### 2.12 Payment and the website: `TokenContracts`, `SiteWorker`

`TokenContracts`: an action is a transaction, whole or reverted; the relayer's check
(`RelayCheck`) and its transaction (`ClaimWithSig`, `Revert`) are two. In the code
`JGTMarket.receive` keeps ether below the minimum or beyond the stock, no function
withdraws ether and `setPrice` only emits an event: `market.kept` is that ether.

`SiteWorker`: `req` is what each request is about to do; `AdView`, `ClaimReferral`,
`Community`, `Digest` issue its next query. A query can fail in two ways. If the database
cannot be reached or its reply is not 2xx, `tursoQuery` throws and the request ends
(`FailRequest`, `/worker/worker.js:235-240`). If the reply says 200 and the statement in it
failed, `tursoQuery` returns null (`:241-246`), `getRows` makes no rows of it (`:248-252`) and
the handler goes on: `Swallow`, with `Disregard` for what each handler makes of no rows. A
statement that has no row to work on, or names a session that is null where the schema wants
one (`/db/schema.sql:36`), is swallowed in any case (`Futile`). `lost`, `dropped` and `missed`
are histories of the writes a handler went on without, and `WorkerInv` is exact about them:
the books lean one way but for `lost`, an activated member has acted unless the action was
`dropped`, a signup was mailed unless a digest `missed` its table. So in this code a total
can be credited whose claim was never stored, with an answer that says success; an
activation can stand without its action; a digest that could not read the subscribers
mails none of them and still moves `last_sent_at` (`:690-692`), after which nobody mails
them; and a failed look-up of the referrer lets a second claim through. The owner's
bookings (funding records, one row of metrics per week), the campaigns that an ad view
draws from, and the reports made of several queries (account, campaigns, scoreboard,
pending claims, dispense preview) are requests of the same form. Modelled as
they are and not claimed otherwise: a signup stored in the very second of a digest is
never mailed, `last_sent_at` advances even if the mail failed, and a referral claim of
a wallet that is not in `users` credits again each time, twice if two overlap.

## 3. What is modelled

| Component | Status |
|---|---|
| Chain manager | modelled; mempool and audits in their own modules |
| Durable storage | control and order of writes; the bytes of a record in `Encodings`, checksums not |
| Peer protocol | handshake, catch-up, relay; not PING and GETBLOCKS |
| Audits, ledger, mempool and candidate, assigned work | modelled |
| Peer admission, address discovery and dialing | modelled |
| Compute broker; claims, challenges and quorums; audit schedule, bonds, proposer draw | modelled |
| Time rules, retargeting, emission | modelled, except hashing against the target |
| Encodings, Merkle trees, frames | layout; not the JSON forms of all payloads |
| Proof keys and verifier modes; contributions | modelled, cryptography by its equations |
| Data directory, wallet, launch control | modelled |
| Soak monitor, readiness report | modelled |
| Token contracts and relayer | modelled |
| Website worker | its writing endpoints |
| all others | not modelled, see section 7 |

## 4. The runs

All runs take `tlc -config X.cfg M` with the names in `PROJECT.json`. Four of them
check several modules at once. The parts of such a run share no state; the initial
state fixes `part`, only that part moves, and each property speaks of its own part, so
what is explored is each part by itself, completely, within its bounds.

| Run | Parts, and what they show |
|---|---|
| `node` | the chain manager under the pilot's rules (first-seen ties, snapshots), with a foreign block of height 0 and one without work: its inductive and safety invariants; two producing nodes, authenticated or not: no refusal, agreement at rest, catch-up; admission: counters and bans; dialing: seeds, bounds, close |
| `chain_arrival` | the chain manager under the candidate's rules (lower hash wins ties, full replay), with a foreign block of height 0: order independence, orphans drain, refinement of `ForkChoice` |
| `market` | the audit book against the chain and the disk; broker; challenges; audit schedule; token contracts; data directory |
| `ledger` | ledger and pool; chain rules under both policies; proof system inside and outside production; contributions; encodings; wallet |
| `services` | two processes in one journal with the refinement of `WorkLog`; launch control; website worker; soak monitor; readiness report |
| `storage_faults` | finding: a failed write |
| `sync_gap`, `sync_fork` | findings: a gap in the handshake, a fork between peers |
| `audit_restart` | finding: the limit at restart |
| `mempool_return`, `mempool_candidate` | findings: the return after a reorg, a transaction without outputs |
| `soak_reopen` | finding: a closed window is opened again |

### 4.1 Bounds, and why they are enough

- *Block tree* (`MCChainNode`): parts of one tree. In `node` eleven blocks: a fork of
  genesis, a branch whose middle block is invalid and whose head alone makes it heavy (so
  it fails inside a reorg), a foreign block `r` of height 0 with a fork above it, of which
  `d2` is heavier, and a block `u` whose work is no number; one remote peer and the
  producer. In `chain_arrival` seven: two branches of equal work that meet in a tie, and a
  foreign block with a child; two remote peers and the producer. In `storage_faults` eight: two
  branches and one that fails. Every outcome of `ingestBlock`, orphans of orphans, blocks
  that are too early at first, a snapshot on a branch that is then abandoned, one on the
  chain of a foreign block, the refused restart and the grafted one are reached. Crashes
  are not bounded.
- *Peers*: two nodes, a chain of three blocks (or one block against two), two lost
  sockets. A gap needs two blocks, an orphan behind a gap three.
- *Admission*: two hosts over a table of one (so that the limit is always near), two
  sockets, one inbound per host, one message per window, a queue of one, a ban after
  two bad frames or one flood that lasts two of three time units.
- *Dialing*: four URLs of which one is this node's own and one a seed, a book of two,
  one outbound and two peers, two seconds and two lost links.
- *Audits*: one request on a branch (two in `audit_restart`), three validators, the
  smallest committee the code accepts, of which two are a supermajority; a window
  of one block and five heights reach before, at and after the deadline on both
  branches.
- *Broker*: two nodes of sizes 1 and 2, a bid that outpays the fallback's and a task
  that one node cannot run (one fallback bid, so the random choice is the
  theorems' concern); two assignments, a queue of one, two timeouts.
- *Challenges*: one claimant, two challengers of which one is faulty, two versions of
  the model, two resolutions of one claim, a bond of one slash.
- *Schedule*: four blocks of two kinds, windows of two, a beacon one block later,
  three validators, one request and one forged one.
- *Contracts*: two accounts; one of staking, market, faucet, batch beside the token at
  a time; amounts of one, a cap of five above a first mint of two; two intervals.
- *Data directory*: two releases, a reset or none, six writes.
- *Mempool*: a pool of two, five transactions (two that conflict, one that spends
  another, one that spends an immature output, one that overspends), epochs of two
  blocks, two miners with unequal work so that shares round, reorgs of the last
  block (`MaxReorg`), `MaxHeight` 5.
- *Chain rules*: both policies, five blocks (`MaxChain`), retargeting every two, eras of
  three, epochs of two, snapshots of two, a clock that ends at 47 (`MaxTime`), times that
  hit both clamps, targets that need cutting, none near `MaxSize`.
- *Proofs*: two circuits, one witness each, the field of three elements, two
  contributions to the ceremony, one proof, true and false claims of weight and slot.
- *Contributions*: two nodes, a miner at each, two heights, one loss.
- *Encodings*: lists of zero to two elements, lengths on both sides of the first
  change of width, every prefix, up to six leaves; payloads up to the limit.
- *Wallet*: three labels, two accounts at setup, three keys, five coins of both kinds
  around maturity.
- *Journal*: two processes (a race has two sides, and a third would meet the same
  conflict), one credit, one job, one miner, five entries (`MaxEvents`, which is also
  the code's limit, reached here): credit, create, lease, and two of completion,
  refund and second lease. Durations of one or two put calls before and at each
  deadline; leases may last one, so that one asked for longer is refused. The one
  miner is named by a worker key: the refusal of others is in the model but not
  reached. Deaths are not bounded.
- *Launch*: one gate, two keys of which one is a reviewer's, two releases, a sound and
  an unsound manifest, a sound and an unsound policy, three edits, two signatures.
- *Website*: two requests at a time, three in all, two wallets, one address, one statement
  that fails in a reply that says 200 (`MaxErrors`; those that have nothing to work on
  are not counted).
- *Soak monitor*: two ticks, a window of three to five time units, one fault or reorg.
- *Readiness*: two seeds, one change or timeout, ages of at most one unit.

`services` carries an action constraint, `Quiet`, that keeps three products small:
the monitor's ticks overlap only while nothing else goes wrong, and of two idle ticks
(which are interchangeable) the first starts; while a report is collected the chain
stands, and the second seed keeps its disk and snapshots and answers in a fixed
order. What it excludes is a fault and an overlap together, and seeds that both
change. `soak_reopen` has the same constraint on its ticks (`Bound`), and uses the
symmetry of the two ticks and of the two bodies that show the participant, which the
specification treats alike.

The bounds on messages, losses, edits and clocks are guards: when they are used up
nothing is left to do, so deadlock is not checked in the four summed runs, whose final
states are a bound that is reached and not a program that stopped. In `node` and
`chain_arrival` the program really can stop: a log above a foreign first block is refused
at every restart.

### 4.2 Properties

Chain: `ChainInv` (the inductive invariant, with `KnownIsPath`, `WorkIsExact` and
`NoStrandedOrphan`), `ActiveChainValid`, `StateIsReplay`, `KnownStays`, `RestartAccepted`,
`BestKnown`, `RestIsBest`; `OrphansDrain`; `ImplementsForkChoice`. Peers: `NoRefusal`,
`Converges` (`CatchesUp` and agreement at rest), `GuardInv`, `BanHeld`, `DialInv`. Audits:
`BookInv` (committed verdicts are indexed, evidence is bound, what is open is timely
and committable), `EvidenceInv`, `OneDecision`. Work: `BrokerInv`, `JGFirst`, `StakeInv`,
`ScheduleInv`, `ScheduledStaysValid`. Ledger and pool: `Conservation`, `PoolInv`,
`EvictedForBetter`. Rules, bytes, proofs: `RulesInv`, `EncodingInv`, `ProofsInv`,
`KeepsProducing`. Files: `DirectoryInv`, `WalletInv`, `LaunchIsApproved`. Services:
`JournalInv`, `FundsInv`, `ImplementsWorkLog`, `FailsClosed`, `WorkerInv`, `MonitorInv`,
`ReadyIsTrue`, `TokenInv`.

`TypeOK` of the audit book is part of `EvidenceInv`: it has no other type invariant.
Several of these are conjunctions of named parts, each stated in words above its
definition in the component's module. For each property there is a mutated
definition (beside the one it replaces, marked "Mutant") under which TLC finds it
violated.

### 4.3 Fairness

`ArrivalSpec` assumes that a handler that has work to do gets to do it:
`TakeOrphans` and `DrainNext` are weakly fair. In the code a handler waits only
for `peer.send`, which resolves whether or not the frame could be written, and
the event loop returns to every resolved promise. Deliveries, crashes and
restarts are not fair: nobody has to send anything, and a node may stay down.

`PeerSync`'s specification assumes that an open socket delivers and that the
receiving handler runs (`HandleFrame`), that both ends register a connection
(`Attach`), and that a link that is down is dialed again (`Open`):
`connectToPeers` reconnects with a delay for as long as the node runs. Production
of blocks is not fair.

`Contributions` assumes that the timers run (`ParticipantTick`, `ProducerTick`), that
a frame of an open socket arrives (`Receive`) and that a produced block reaches the
other nodes (`Apply`). Losses and restarts are not fair, and losses are bounded by
`MaxLosses`: without a bound nothing would have to arrive.

The other specifications have no fairness and no liveness property.

## 5. The proofs

### 5.1 The chain

`Chain_proofs` proves, for every block tree with any foreign blocks of height 0 and any
blocks without work, any set of peers, any set of early blocks, any snapshot interval and
both networks:

- `InvariantHolds`: `Spec => []ChainInv`, the inductive invariant;
- `TypesHold`, `TipIsBestKnown`, `StateFollowsChain`, `ChainIsValid`, `FilesLoad`: the
  safety properties `TypeOK`, `BestKnown`, `StateIsReplay`, `ActiveChainValid`,
  `RestartAccepted`;
- `KnownStaysKnown`: `Spec => KnownStays`, an action property;
- `Refinement`: `Spec => ImplementsForkChoice`: every step of the node, crash and
  restart included, is a step or a stutter of the abstract fork choice.

**Assumptions.** The constants are typed and block hashes are distinct
(`TreeAssumption`, `NodeAssumption`). `TreeAssumption` holds no more of `Root` than that genesis
is in it, and that no block of height 0 passes `validateBlockSync`, which expects the height
after its parent's; the parent such a block names need not exist. `AncestryAssumption` and
`TotalWorkAssumption` give the ancestry of a block, back to the first block of height 0, and
its work by their recurrences, and state in addition what an induction over the chain's length
would show: a prefix of an ancestry is an ancestry, and work grows along it. That
induction is outside the prover's reach, so these two facts are assumptions; TLC
evaluates them on every instance.

**The invariant.** The properties are not inductive on their own. Whether a
restart yields a valid chain depends on what the log held while the node was
down; whether the log is right depends on memory before the crash. `ChainInv` is
`CoreInv /\ HandlersInv`:

- `LogIsChain`: the log is the ancestry of its last block without the first, all of it
  valid, also while the node is down. Needed for `FilesLoad` and for the refinement.
- `SnapshotSound`: a snapshot holds its own tip's state. With it, a snapshot left
  over from an abandoned branch is harmless: it does not fit the log and is
  dropped, or it fits and is a prefix of it.
- `MemoryMatchesDisk`: while the node is up, memory is the log behind the first block of
  its tip's chain, or behind genesis in its place if the node is grafted.
- `KnownIsPath`: the whole path of a known block is known, except for the first block of a
  grafted chain. `WorkIsExact`: on chains of genesis the incremental work is the work of
  the path. Without the two the one comparison that `ingestBlock` makes would compare
  partial sums.
- `BestKnown`: inductive because each ingestion compares the one new block, and a
  rejected block was not known before (`RejectKeepsCore`). `PreferredIsAccepted` is what
  is left of it on a grafted node: what it prefers and cannot follow, it has verified.
- `OrphansFiled`, `HeldIsExact`, `IngestedKnown`, `MemoryIsLost`: what handlers carry
  across their awaits stays true: waiting orphans have known parents, although other
  handlers reject and forget blocks meanwhile, and an orphan that another handler has made
  known is given the same work when it is ingested again. That it is not then rejected and
  forgotten, with children that are known, is `KnownStays`.

**Structure.** Lemmas about ancestries and the state of a path (`AncestryEnds`,
`AncestryExtends`, `AncestrySteps`, `LogEnds`, `EffectsGrow`, `EffectsPrefix`); about fork
choice and work (`PreferenceIsStrict`, `LearnKeeps`, `BranchAccepted`); one lemma per outcome
of `ingestBlock` for the core (`ExtendKeepsCore`, `ReorgKeepsCore`, `KeepKeepsCore`,
`ThrowKeepsCore`, `RejectKeepsCore`), which `IngestOutcomes` joins; about the replay
(`LogSlice`, `ReplayStart`, `ReplayedPrefix`, `ReplaySucceeds`, `RestartKnows`,
`RestartKeepsCore`), and one lemma per action for the whole invariant (`StashStep`,
`HandleStep`, `SubmitStep`, `TakeOrphansStep`, `DrainNextStep`, `ClockStep`, `CrashSteps`,
`RestartStep`), which `StepInv` puts together.

Of `ChainArrival` it adds, for any order of delivery and any peers,

- `RestFollowsBest`: `ArrivalSpec => []RestIsBest`, foreign blocks of height 0 included;
- `ArrivalIsChainNode`: `ArrivalSpec => Spec`, so that all of the above holds of it.

That the tip is the best *known* block is `BestKnown`; what remains is that nothing
delivered is missing. `NothingIsLost` says that a delivered block whose chain is valid
and timely is known, or in a handler's hands, or stashed under its parent. By itself
this allows a stash that waits for ever; at rest it does not: along such a chain the
first block that is not known has a known parent, so by `NoStrandedOrphan` a handler
is about to take it off the stash, and no handler is. The same invariant has to
survive a reorg that fails, which forgets blocks: those it forgets are above an
invalid or early block, which no followable chain contains (`HeldWasDelivered`,
`KnownIsPath`).

### 5.2 The assigned-work journal

`Services_proofs` proves, for any number of processes, any jobs, amounts, durations
and finitely many accounts, and any limit on entries:

- `JournalInvariant`: `Spec => []JournalInv`;
- `JournalFailsClosed`: `Spec => FailsClosed`;
- `JournalRefinement`: `Spec => ImplementsWorkLog`: a step of any process adds one
  acceptable event to the log or leaves it as it is;
- `FundsAreSafe`: `Spec => []FundsInv`.

The only assumptions are the types of the constants (`WorkAssumption`,
`JournalAssumption`). The proofs of the first three never look into `Follows`: they
hold whatever events `transition` accepts, because what makes them true is the
exclusive creation of the next file after a replay of all before it.

**The invariant.** That the directory loads (`JournalLoads`) is not inductive: it
rests on what a process has read before it creates a file, while others went on.
`CallsFollow` says that what a process has read is still how the directory begins
and that its event is acceptable there; so if its file is the next one, nothing
came in between, all files are whole and nobody is writing. It also says that the
process that is writing owns the last file, so `Write` completes its own.

**Structure.** Lemmas about sequences and the directory's events
(`EventsAreASequence`, `EventsGrow`, `PrefixOfAppend`, `FrontAndLast`, `FullSubSeq`,
`EventsOfFront`, `ContinuesStill`); `CallChanges` for the steps that touch one
operation only, `OpenKeeps` and `WriteKeeps` for the two that touch the disk,
`StepInv`; then `OpenRecordsNothing` and `WriteRecords` for the refinement.

**The funds.** `FundsInv` looks at the directory only, and by `JournalInv` that is a log
of events each acceptable after those before it (`RecordedIsLog`). So its three parts
are facts about such logs, shown by induction along them (`Along` in `Sums`): `Worth`,
what accounts and open reservations hold together, changes by what a credit adds and
by nothing else (`TransitionWorth`, `LogWorth`, with what `Pay` and `Created` do to a sum
over the accounts in `PayAdds` and `CreatedWorth`), which is `Conserved`; and the lease
that stands after one was taken is that one, or was taken when that one was over
(`LeaseAt`, `LeasesLast`), which gives `Honoured`. `Recoverable` looks at the last state
only. One thing does not follow from the log being acceptable: that two
leases of a job have different ids. `LeasesNamed` adds it: an id carries the time of
its call, and a later lease of the job is later in time because the earlier one had
to be over.

### 5.3 The audit book

`AuditLifecycle_proofs` proves, for any branches, requests, validators, order of ids
and bounds, crashes, restarts and reorgs included,

- `BookFollowsChain`: `Spec => []BookInv`;
- `OneDecisionHolds`: `Spec => []OneDecision`;
- `EvidenceHolds`: `Spec => []EvidenceInv`.

Assumption: the types of the constants, a finite committee of at least three, distinct
ids, and a fork no higher than the bound on heights (`AuditAssumption`).

`BookInv` says what the book holds about the active chain; after a reorg that is a
branch the book has not looked at yet. The invariant `AuditInv` therefore adds
`BranchSound`, for every branch and not only the active one, that each committed
record hangs on a block of that branch and that an audit is committed once; and
`BookSound`, that book and file hold known audits only. Both are also what a restart
works from. Lemmas say what the book's operations return (`FinalizeDueFacts`,
`IndexFacts`, `RetainFacts`, `RestoredFacts`); `Fits` restates `BookInv` for a book and a
branch, so that `ApplyFits`, `ReorgFits` and `RestartFits` show it of the new ones, and one
lemma per action puts it into the invariant.

The other two rest on the votes. `VotesInv` says that every vote in the book, in the
file and in a block of any branch is the one its validator cast, and that a verdict
holds a supermajority of the committee. Two verdicts on one claim then share a
validator (two supermajorities of a finite set intersect), and the two records show
the same vote of it: so they cannot decide differently, whatever nodes and branches
they come from. That a pending record is committable needs in addition that its votes
were accepted at heights of this chain, which a reorg to a longer branch keeps.

### 5.4 Launch control

`Services_proofs` proves `LaunchNeedsApproval` (`LaunchSpec => []LaunchIsApproved`)
for any gates, keys, releases, manifests and any number of edits and signatures. The
hypothesis `LaunchHypothesis` is that the policies name keys of a finite set.

The property compares an evaluation with what people have ever signed. Its invariant
`SignedInv` says that every signature in the record and the ledger was made by its
holder over the text it names, and `NextSigned` that edits keep it so: a record may be
redrawn under old signatures, which then are not over its text. `GoodIsMade` turns a
good signature into a signer, `ValidHasMakers` a valid envelope into as many signers
as it counts, and `SignedIsApproved` joins them with `RecordBinds`.

### 5.5 Peer admission, dialing and handshakes

`Peers_proofs` proves, for any finite sets of hosts, sockets and URLs and any limits,

- `CountersAreRight`: `GuardSpec => []GuardInv`;
- `BansAreServed`: `GuardSpec => BanHeld`;
- `SeedsAreKept`: `DialSpec => []DialInv`;
- `FramesAreAccepted`: `Spec => []NoRefusal` of `PeerSync`, for any nodes, links,
  producers and blocks, and either authentication mode.

The hypothesis `GuardHypothesis` and the assumption `DialAssumption` state the types of
the constants, that penalties and limits are natural numbers, and that the address book
has room for one.

The first two properties are not inductive. A full table forgets hosts, and forgetting is harmless
only if the record carries nothing: no peer, which needs that `connections` is the
number of peers at *every* host in the table (`Counts`), and no ban, which needs that
every ban still running is in the table (`Remembers`). `TableInv` is these two with the
shape of records (`Shaped`), typed sockets and bounded queues. The lemmas go along the
code's helpers: what `Swept`, `Seen` and `Looked` keep of an arbitrary sound table, then
`Penalized`, `Released` and admission, then one lemma per action. `BanHeld` is an action
property and follows from `TableInv` before the step: a banned host is in the table,
`Looked` keeps its ban, and every way to a new peer or a handled frame asks `Banned`.

A seed whose link drops is redialed because its dial was a seed's (`asSeed`), or because
the fill loop dialed it, which it does from the book: `SeedsHeld` adds that to `DialInv`.
That it stays in the book while there is room needs that a book never shrinks
(`AddedKept`, `Leads`), also along a whole message of addresses (`BooksKept`).

Whether the next frame is accepted depends on every frame before it, so `NoRefusal`
needs an invariant over what is in flight. `Order` in `SyncIInv` says of each direction
of a socket: the greetings that the sender's session has said and the receiver's has not
yet heard are at the front of the inbox, in order, and everything behind them is chain
data, which is there only if the sender's session may talk. Both ends only ever append
(`Joined`, `DataAppended`, `GreetingAppended`) or take the front (`Handled`), so one lemma
says what handling a frame does, and one per handler what it sends. The authenticated
mode is where it matters: an end may talk as soon as it has heard VERACK, while the other
end has not yet heard its own, and only the order of the frames keeps that harmless.

### 5.6 Ledger, pool, wallet and the chain's rules

`Ledger_proofs` proves, for any transactions, blocks, miners, epoch length, maturity
and limits, and for reorgs of any depth,

- `NothingIsMinted`: `Spec => []Conservation`;
- `PoolMakesABlock`: `Spec => []PoolInv`, if every transaction has an output and every
  contribution is worth something;
- `OnlyTheCheaperLeave`: `Spec => EvictedForBetter`;
- `WalletKeepsKeysAndCoins`: `WalletSpec => []WalletInv`, for any accounts, labels,
  coins, amounts and fees;
- `RulesAddUp`: `RulesSpec => []RulesInv`, for any window, eras, reward, compact form,
  fees and clock, chains of any length and both policies.

**Assumptions.** `LedgerAssumption` and `MempoolAssumption`: types, inputs of a
transaction are finitely many and not none, there are finitely many miners and
initial outputs, sizes are positive, and the trunk ends where an epoch does. The two
hypotheses of `PoolMakesABlock` are what the node does not check at admission: a
transaction without outputs makes every candidate invalid, which is the finding of
`mempool_candidate`; that a contribution is worth something holds in the code because
each must prove a tenth of the target, rounded up (`node.ts:1710`), and targets are
positive (`validation.ts:222`). The other two theorems do without them.

**Conservation.** Sums are the difficulty: the community modules define a sum over a
set by a recursive function that picks elements with CHOOSE. `SumIter` in `Sums` and the
lemmas after it show from that definition what sums over finite sets do: a set is the sum of
its parts, sums follow pointwise equality and order. Induction over data, which the
library states with an operator parameter, is done by hand: a set of numbers without a
least element outside it is all of them (`Induction`, `Along`), which also gives what
the recursive functions `After`, `States`, `Keep` and `Resubmit` compute. With that:
`UtxoGood` says that every unspent output stems from the fork, from a settlement at a
past height, or from a transaction that was applied, and that the inputs of an
applied transaction are gone for good. So a transaction is never applied twice, no
output is created over an existing one, and a transaction moves the worth of its
inputs to its outputs and its fee (`SpendOnce`, `ApplyOne`, `ApplyAll`). Fees count
each transaction against the outputs before it, so `BlockFees` is exactly what was
lost. A settlement pays out the pool to the unit: the floors of the shares never add
up to more, and the last miner takes the rest (`PayoutSum`). `BlockConserves` joins them
for a block, `BranchConserves` for a branch, and the invariant `LedgerIInv` says that the
chain is a valid branch and the ledger its replay, so that a reorg needs no argument
of its own.

**The pool.** `Book` says that the pool's transactions are pairwise disjoint, typed and
within the limit, and that `spends` is exactly the union of their inputs. It is kept
by admission with eviction (`AdmitBook`), pruning (`PruneBook`) and the return of
disconnected transactions (`ResubmitBook`), each of which says in addition who left
and for whom: rates are fractions compared crosswise, and a chain of evictions in one
reorg is a descent in rate because that comparison is transitive (`RateOrder`). That
the candidate is valid is a small simulation: the pool's transactions are spendable at
the tip one by one, and since they share no input each still is after those before
it (`TogetherValid`).

**The wallet.** `WalletHypothesis` holds what the code enforces or the chain
guarantees: labels of a recovery wallet are not numbers (`wallet/wallet.ts:204`),
setup gives no more accounts than a wallet admits, all under different names; amounts
are positive and fees not negative (`:257`); the coins are finitely many and worth at
most the cap. That no key is lost is not inductive by itself: `KeystoreIInv`
adds what a running command holds. A command that adds a key loaded the file when
every shown key was in it, and nothing else writes before it ends (`AddingKey`); setup
goes on only while no address was ever shown (`SettingUp`); the temporary file is a whole
keystore when it is renamed. A file that was saved loads again because JSON moves numeric
labels only, and a recovery wallet has none: an arrangement that keeps every pair in
order moves nothing (`InPlace`), so the keys stay in the order in which the words derive
them. That a sorted arrangement exists at all is `Orderly` in `Sums`.

For spends, `FirstAreWorthMost` is an exchange argument: any choice of `k` coins and the
`k` largest differ by as many coins on either side, and those on one side are worth at
least what the `k`-th is, those on the other at most that. So if any `k` coins pay, the
first `k` do, and the shortest covering prefix has no more inputs than any choice; if
no prefix covers, nothing does (`SpendSound`).

**The chain's rules.** `RulesHypothesis` holds what the code's constants satisfy: counts
and spans are positive, a quarter of the retarget span is whole seconds, the median looks
at no more times than are kept, a hundredth of a TFLOPS is whole units, and genesis has
a target that a header can express. `RulesInv` compares what later blocks are judged by
with the whole chain so far, so the inductive invariant `RulesIInv` says that of every
part: the kept times are the end of the history (`KeptEnds`, `ElevenOfEnds`: eleven of
them give the median of the whole), every target of a header moved as it may from
the one before (`AllBounded`), and what was paid is the emission. A restart computes the
state again from an earlier one; that it arrives where it was needs a sequence of
states, one for each block, of which the current state and the snapshot both are
elements (`Passed`, `RebuiltIs`).

Three computations carry it. A target that is cut to its compact form and read again
loses less than one unit of its last digit, and cutting it again loses nothing
(`Compact`), so what a header asks for can be written; the floors of the retarget are
bounded from both sides (`ExactTarget`, `RoundedTarget`, for the pilot's two roundings) and
`Retargets` joins the two. The reward of an era is at most three quarters of the one
before, so that four times the reward left and the sum over the eras never exceed
four times the first (`EraSumBelow`): the cap is never reached, and each height adds
exactly its reward (`SupplyGrows`). The recursive functions (powers, rewards, replays)
are taken apart by `Recurrence`.

### 5.7 Claims and stakes, data directory, token contracts

`Market_proofs` proves `HonestStakeIsSafe` (`ChallengeSpec => []StakeInv`) for any nodes,
models, outputs and numbers of resolutions, under `ChallengeAssumption`: a reward share
of at most the whole stake, and quorum thresholds above one half and at most one. The
invariant records of every vote what its challenger read, ran and reported
(`Truthful`): only a faulty challenger, or one whose model was replaced between reading
its profile and running it, contradicts a true claim. A slash empties the stake and
marks the node in one step, so it is taken once.

`DirectoryIsOneChains` (`DirectorySpec => []DirectoryInv`) holds for any releases, resets
and numbers of writes. The order of a reset is what it needs: the manifest leaves
last, so whatever a crash leaves behind, files without a manifest are never mixed
with those of another chain, and an archive receives each name at most once, at a
place that is free. The invariant is `DirectoryInv` with `ManifestBinds`, `ResetClaims`
and the contents every writer has not replaced.

`TokensAddUp` (`TokenSpec => []TokenInv`) holds for any accounts, amounts, rates, batches
and contracts deployed together, under `TokenAssumption`: finitely many accounts, none of
which is a contract, non-negative amounts, a first mint within the cap and a positive
claim unit. `TokenIInv` keeps one equation per ledger: balances and supply (`CoinSums`),
supply and every way of making or destroying units (`Supplied`), stakes and their total
(`Staked`). The dispenser needs more than its property says (`Accrues`): what a user
has drawn is exactly the claim unit times the periods that `lastClaimAt` has moved
since the first claim, and that clock is never ahead of the time; that a claim pays
whole periods only, and no more than have passed (`PeriodsPaid`), keeps both. The
staking balance covers stakes and pool because rewards are minted and a payout is
exactly the stake that it ends.

### 5.8 Soak monitor, readiness report, website worker

`Services_proofs` proves, for any chains, seeds, requests and limits,

- `CompletedWindowsAreWitnessed`: `SoakSpec => []MonitorInv`;
- `ReadyReportsAreTrue`: `PilotSpec => []ReadyIsTrue`;
- `BooksLeanOneWay`: `SiteSpec => []WorkerInv`, if `MailBound`, for any number of failed
  requests and of statements that fail unseen.

`MonitorInv` speaks of the stored window only; what overlapping ticks may still write
decides whether it stays true. `MonitorIInv` says of each tick what its copy is worth
*if the stored object has not changed since it read it* (`TickSound`): a state that is
about to be put is the saved one plus what this tick has seen, and a reviewed state is
written over a saved one with the same evidence. `Tallies` is the other half: as long
as a window has not failed, the blocks it keeps are all blocks ever seen in its range,
one per height (`RecentAreDistinct`, `AdvanceFields`), and its counters are the counts
of the history. That a conditional put with a stale generation does nothing is all that
keeps two ticks from losing an observation.

`ReadyIsTrue` compares a report with what held at moments of the collection.
`PilotIInv` says that what a collector has answered about a seed was witnessed
(`Truthful`) and that snapshots are finite and not of the future; the report takes the
newest of them, which exists by `Extremes`.

`WorkerInv` compares tables that a request writes one query at a time, so it is not
inductive: between two queries the books differ by what is in flight. `SiteIInv` counts
that (`Marked`): earned plus the ad views that have claimed and not yet credited is at
most claimed plus the claims that were swallowed (`lost`), and so along the whole handler
(`WalletBooks`, `ViewsCover`); `ActivatedActed` and `SentCovers` do the same with `dropped`
and `missed`. The rest says of each request in flight what it has learned and what of it
still holds (`RequestFits`): the session it found is its wallet's, the member it found has
joined, the digest has every signup between its two times among those it read or `missed`, a
report has read less than what it will read next (`AnswersLag`). Each query has a lemma, one
for its success and one for its being swallowed; the others follow from one lemma
(`Together`, `OthersFare`): only one request moves, and every table only grows in the
direction the others rely on (`RewardsGrow`, `PeopleGrow`, `DigestsGrow`, and `GapsGrow` for
the three histories).
`MailBound` is the deployed configuration: without the mail binding the digest moves
`last_sent_at` forward and mails nothing, and only logs that it did not.

### 5.9 Contributions, audit schedule, proof system, broker

`Compute_proofs` proves

- `ContributionsCountOnce`: `MiningSpec => []ProofsInv`;
- `AuditsAreImpartial`: `ScheduleSpec => []ScheduleInv`;
- `ScheduledAuditsStayValid`: `ScheduleSpec => ScheduledStaysValid`;
- `AcceptedWorkIsProved`: `ProofSpec => []ProofSystemInv`;
- `BrokerSafe`: `BrokerSpec => []BrokerInv`;
- `BrokerServes`: `BrokerSpec => JGFirst`,

the first for any nodes, miners and weights, the next two for any claimants,
validators, blocks, windows and committees, the fourth for any circuits, kernels,
weights and epochs, the last two for any nodes, bids, tasks and random choices. TLC evaluates each hypothesis on its instance:
`MiningHypothesis` (the producer and every miner's home are nodes, a block asks for
some work), `ScheduleHypothesis` (ids of validators are numbers, a window has
blocks), `ProofHypothesis` (what a contribution multiplies has an inverse), `BrokerHypothesis`
(capacities are natural numbers, the bids ever made are finitely many and are not
tasks, a task asks for something and for all of it at once). A digest is
read as a number (`Digests`); nothing else is asked of it, so the results hold
whatever the draws return.

**Contributions.** `ProofsInv` speaks of blocks and of the producer's next one, but a
receipt gets there over the miner's store, the wire and the pools of other nodes, and
is applied at a height that others have left behind. `MiningIInv` says of everything
`Known` (held, waiting, in flight or credited) that a commitment is drawn once, so a task
tells its contribution (`TasksTell`); that what waits at a node asks for the node's
next height; and that a block credits each miner once and at its own height. A
contribution kept over a restart is then for a height that has passed or for the
same block.

**Audit schedule.** A committed assignment was judged when its block was connected; the
chain has changed since, under it as well after a reorg. `ScheduleIInv` records what it
was judged by, which is its beacon alone (`Judged`): the beacon is a prefix of the chain
below the verdict's block, and neither is changed while that block stays. Two
audits of one claim then have the same beacon and the same snapshot, and a schedule
has one assignment for a claim. That everyone is covered once rests on `Coverage` picking
the claim of least rank, which is unique (`LeastOf`, `CoveredOnce`); that a committee exists
rests on the order by rank being total: a claimant's place is the number of those
before it (`Orderly`). The draw is proportional because the intervals of the
validators in order are adjacent: each starts where the sum of those before it ends
(`Intervals`), so every draw falls into exactly one of them (`SomeoneDrawn`) and as many
into each as it is long (`InProportion`).

**Proof system.** The ceremony's key stays consistent because inverses of factors are
inverses of products, reduced at every step (`InversesMultiply`, from the division
theorem). The other half is order: modes, mocks and loads come in any order, and
what fails closed ends the process. A claim that passes the real verifier has a
proof whose public inputs are the claim's, which `AcceptedProved` takes apart. For
batches the proof is about lists of every length (`BatchIsAlone`): those sent on are
found by a recursive function along the list, and everyone who passes alone is
among them (`SentAll`).

**Broker.** A call is one step, and inside it cycles nest: a cycle drops an expired node
and fails its assignments one by one, each failure runs a cycle, and that one may
drop another node first. In between, the invariant does not hold: the assignments
not yet failed are on a node that is gone. So the proof is about `Holding(p)`, where the
frame `p` says which keys may still be registered, which assignments are `left` to
whoever is failing them, and whether capacity is counted. Every part of a cycle keeps
`Holding(p)` for every `p` (`AssignKeeps`, `FreeLeaves`, `ExpireKeeps`); a nested cycle is
used in the frame of its caller with the dropped node removed and its assignments
left (`During`), and hands back fewer of them one at a time (`ExpireStep`). `CyclesSettle`
is the induction over the depth: `Cycles` is the function that its definition asks for
(`Recurrence`), and a cycle over cycles that keep `Holding` keeps it too.
For `JGFirst` a cycle does more than keep: whatever it started from, it ends
in `Settled(p)`, where the first task of the queue fits nowhere, even with what bids got
in this call. The queue is served first (`ServedIsStuck`: at that point no bid has been given
anything, or an inner cycle has already settled the queue), and each bid after it takes
from idle what it is then counted with (`AssignCharges`). A call that only drops an idle
node runs no cycle and changes no work, which is why `JGServed` asks nothing of it.

### 5.10 Encodings

`Chain_proofs` proves `EncodingsCommit`: `EncodingSpec => []EncodingInv`, for blocks, lists,
bases, cuts and altered fields of any size. The hypothesis `EncodingHypothesis` gives the
shapes of the constants and says of a block that its verdicts name different claims
(`block/validation.ts:642`) and its contributions different miners, without which the order
by key would not be unique.

`Agrees` says that a buffer agrees with an encoding from a place on. One lemma for each
reader then says that it returns what was written and stops behind it: `VarIntReads`,
`AmountReads`, `BytesReads`, `ManyReads` for lists, `TxReads`, `ContributionReads`,
`EpochReads`, `HeaderReads`, `BlockReads`, with `ThenReads` to put two in sequence. The same
lemmas say that a reader whose buffer ends early refuses, so the prefix of a block is
never taken for a block: `CodecHolds`. Verdicts, and the shares of a
candidate block, are put in the order of their keys, which is one order whatever order
they came in (`ByKeyOrder`, `OneKeyOrder`, `ByKeyReversed`).

For the trees, `LayersBuilt` gives each layer by the one below, `PairAbove` that a step of a
proof rebuilds the node above, and `VerifyIs` that a proof verifies exactly for the leaf at
its place. That two lists of leaves without a repeat have one root only if they are one list
(`LayersDistinct`, `RootIsOfOneList`) and that an inclusion proof shows an equal leaf
(`InclusionIs`, `InclusionHolds`) rests on what a hash is here, the value that is hashed, and
on a leaf being a hash of one value and a node of two. `FrameHolds` is the signed frame.

### 5.11 Only model-checked

- Liveness (`OrphansDrain`, `CatchesUp`, `KeepsProducing`; agreement at rest, the other
  half of `Converges`, holds only where the nodes are on one chain) and everything that needs
  ENABLED, which the prover does not handle.

## 6. Findings

| Run | What the code does |
|---|---|
| `storage_faults` | A failed append leaves memory ahead of the log; the next append makes a log that no longer loads. |
| `sync_gap` | Broadcasts dropped during an authenticated handshake are not fetched by anything; later blocks wait as orphans. |
| `sync_fork` | The locator is the requester's tip alone; a peer on another branch has nothing to answer, and the node stays behind. |
| `audit_restart` | On restart the limit on open audits counts finalized ones too, and saved audits are dropped. |
| `mempool_return` | A reorg returns transactions before pruning; one is refused for room that pruning then makes. |
| `mempool_candidate` | A transaction without outputs is admitted, and every candidate with it is invalid. |
| `soak_reopen` | A tick in its review writes its own observing state over the window another tick has closed. |

`PROJECT.json` quotes the line each one contradicts.

Observed and without a run: `handleGetReferral` (`/worker/worker.js:745`) adds up
`referral_reward` over the users that name the wallet as their referrer, whereas
`handleClaimReferral` writes that column on the referrer's own row, and the comment
there says that it backs the earnings shown.

Observed while modelling, part of the models, and without a run of its own that would refute
a document:

- Any block whose header says height 0 passes the guard against unknown parents
  (`network/node.ts:771`), is its own ancestry (`:1265`) and is taken for the root of a
  reorg, whose loop starts after it (`:1389`). If it declares more work than the chain has,
  the node replaces its chain by that one unverified block, rewrites its log without it, and
  on a restart follows genesis again or refuses the log. This is why `ActiveChainValid`,
  `StateIsReplay` and `RestartAccepted` speak of the chain behind its first block, and why
  nothing is claimed of that first block when the node is `grafted` (2.1).
- A statement that fails inside a 200 reply is no error to the site worker
  (`/worker/worker.js:241-246`): the handlers of 2.12 answer success although an INSERT wrote
  nothing.

## 7. What is left

**Not modelled, and why.**

- Signature algorithms, hashing against a target, encryption: primitives. Where a
  module needs them, a hash is the value that is hashed and a signature is the pair of its
  key and its text.
- Website pages, the status server, read-only endpoints: they change no state.
- Network parameters and simulations: the parameters are the CONSTANTS.
- Deployment and release scripts; kernel code generation, a pure translation of text.
- Power failures. Files are written, synced and renamed as the code does, but a
  crash is the end of a process, not of the machine.

**Known limits of the models.** No property covers: a failed save of the audit book
after memory has changed (`storage/audit-store.ts:59`); a block from a fast clock,
which is rejected as too early and forgotten (`network/node.ts:827`; the chain modules
have the behaviour); the stash of orphans, which has no limit (`network/node.ts:771`);
a heavier chain of fewer blocks, under which the height goes down and a verdict could
be finalized below it (`AuditLifecycle`'s branches take over with at least the same
height); disconnected transactions that spend each other's outputs
(`network/node.ts:1405`).

**Next.** `ChainFaults` with a repaired order of writes, and `ChainNode` with a verified root,
to show what would suffice; `Contributions` composed with `ChainNode`, so that contributions
meet reorgs.
