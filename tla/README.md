# Verification of the Sovereign platform

TLA+ models of the consensus, privacy, application, node and service layers of
this repository, checked with TLC on small instances, and machine-checked TLAPS
proofs, for every value of the constants, of all the safety properties.
Paths are relative to `src/`.

## 1. The system

| component | state | operations | depends on |
|---|---|---|---|
| Raft engine (`modules/consensus/raft_engine.go`, `raft_membership.go`) | term, vote, log with sentinel, snapshot, commit and apply indexes, role, peers, `commitChan`, timers, one saved record | `Start`, `Stop`, the run loop, elections and their vote goroutines, `HandleRequestVote`, `HandleAppendEntries`, `Propose`, `CompactLog`, membership changes, `SetRole`, `NewRaftEngine`/`loadState` | storage; an application that reads `Commit()`; a transport that does not exist in the repository |
| Privacy pipeline (`core/execution/router.go`, `modules/privacy`) | anchors, private state, vault, trace queue, proof registry | `Apply` of an anchor, `StoreIfAuthorized`, `RetrieveAndVerify`, `FetchAndStore`, proof workers | anchors in the order of consensus; payloads over a side channel |
| Replicated applications (`applications/*`) | one map, one state root; the kv-store and `MerkleState` also write storage | `Apply` of a command, `ApplyChanges`, proofs | a committed log |
| Replay (`core/runtime/replay.go`) | recorded commands and roots | `Record`, `Replay` | any state machine |
| Execution router (`core/execution/engine.go`) | handlers, root, receipts | `RegisterHandler`, `ApplyTransactional`, `Apply` | handlers of the caller |
| Node runtime (`core/runtime/runtime.go`, `modules/consensus/pow.go`, `applications/sovereign-chain/state.go`) | pending transactions, chain state, storage | `Start`, event loop, mining, block application, `Stop` | the P2P node's channels |
| P2P (`modules/networking/p2p.go`) | host, topic, HTTP server, two bounded channels | `Init`, `Start`, `Stop`, HTTP handlers, gossip listener, broadcast | libp2p, GossipSub |
| Kademlia table (`modules/networking/kademlia.go`) | buckets, scores | `AddPeer`, `AdjustPeerScore` | — |
| Event bus and scheduler (`core/runtime`) | channels per event type; goroutines, a stop channel | `Subscribe`, `Publish`; `ScheduleRecurring`, `Stop` | tasks that publish |
| Static consensus (`modules/consensus/raft.go`, `pow.go`, `mock.go`) | leader flag, commit channel | `Propose`, `SetLeader` | a reader of `Commit()` |
| Registry, observability, security, plugins, storage | small tables under a mutex | register, count, grant, put | — |

What is hard: the engine mixes methods that hold one lock with goroutines that
read state outside it (the role read by the loop, the tick, the peers, old vote
goroutines); a crash keeps four fields and forgets the others; saves may fail
silently; messages may be late. The privacy pipeline locks the vault call by
call, so `Apply` interleaves with the side channel. The applications must be
deterministic, but read clocks, iterate maps and change state before they
refuse a command. A node is half a dozen goroutines around two bounded channels,
and `Stop` closes the storage under a loop it does not wait for. The bus and
the static consensus hold a read lock while they send. `PROJECT.json` lists these hazards with their lines.

What makes each part correct: *engine* — log positions and indexes stay
aligned, no two candidates get its vote in a term, nothing saved is lost, elections
and shutdown end;
*cluster* — the applications receive one order; *privacy* — only anchored bytes
are executed and traces and proofs describe what happened; *applications* —
equal logs give equal states and roots, queues are FIFO, locks exclude;
*replay* — it reproduces what was recorded; *node* — accepted transactions are
mined once, root and storage agree, shutdown ends; *services* — a slow or
failing party costs the others nothing.

## 2. Modules

| module | models |
|---|---|
| `RaftEngine` | one engine per member of `Server`, with all calls, goroutines, failed saves, crashes and failed reads of the store |
| `MCRaftEngine` | instance for TLC; `LogSpec` is the engine that is never started |
| `AtomicBroadcast` | abstract: one order, delivered contiguously, restarts from a snapshot |
| `RaftCluster`, `MCRaftCluster` | engines connected by an external transport; refinement to `AtomicBroadcast` |
| `RaftEngineProofs` | type correctness of `RaftEngine` |
| `RaftEngineSafety` | inductive invariant and safety theorems of `RaftEngine` |
| `RaftClusterProofs` | agreement, commits within the log and the refinement of `AtomicBroadcast` |
| `SovereignRouter`, `MCSovereignRouter` | the privacy pipeline |
| `SovereignRouterProofs` | anchored and chained executions, genuine and current proofs of `SovereignRouter` |
| `Applications` | what the five applications and `MerkleState` do with one command |
| `ReplicatedApps`, `MCReplicatedApps` | replicas of an application over one log, and replay |
| `ReplicatedAppsProofs` | agreement, replay, locks, queues, contained storage errors and Merkle proofs |
| `NodeRuntime`, `MCNodeRuntime` | blockchain nodes: runtime, P2P node, proof of work, chain state, storage |
| `NodeRuntimeProofs` | types, conservation of transactions, the store's agreement with the root, gossip chained once |
| `RuntimeServices` | event bus and scheduler, composed: the tasks publish |
| `StaticConsensus` | `RaftConsensus`, `Propose` of proof of work, the mock |
| `StaticConsensusProofs` | a follower commits nothing |
| `PeerTable` | Kademlia buckets and scores |
| `ExecutionRouter` | the command router over `Applications` and the asset ledger |
| `ServicesProofs` | theorems of `RuntimeServices`' event bus, `PeerTable` and `ExecutionRouter` |
| `MCServices` | instance of the four services; a behaviour is about one of them |

### RaftEngine

Methods under `re.mu` are one action each. Separate actions are what the lock
does not cover: `LoopTop` (the role is read), `TimerFires` (the tick is taken),
`StartElection` (its critical section), `LaunchVotes` (the loop over the peers
after the unlock), `CountVote` (one goroutine), and `ApplyEntry`, one iteration
of the apply loop: it holds the lock, but `Receive` frees a slot of
`commitChan` in between; `Unlocked` says that no such loop is running.
`HandleAppendEntries` is `RejectAppendEntries` (which returns before the save)
or `AcceptAppendEntries` followed by the iterations. Messages of an older term
change nothing and are not steps. `PersistState` writes the four saved fields
or, where `StorageMayFail`, loses the write; `Restart` is a crash at any moment
followed by `NewRaftEngine` on the same store, and `RestartUnread` one whose
`loadState` met an error of `storage.Get` and ignored it: the engine starts from
genesis over a record that is still there, until its next save overwrites it.
`OtherChange` is a membership change of unknown type, which only saves. `down` holds engines whose
process died of an index out of range in `CompactLog`. `failedPut`, `unread`,
`forced` and `granted` are history variables. `commitChan` holds entries where the
code sends their payloads: index and term are history there.

Abstractions: replies, read-only methods and the snapshot's bytes are left out;
`re.peers` is a set; a payload is a model value, the empty one being `NoData`;
the election timer may expire whenever it is armed; integers are unbounded (the
code's are 64 bits wide and only incremented). RPC arguments range over all
well-formed ones: entries numbered after `prevLogIndex`, terms ordered.

### RaftCluster

The repository has handlers and argument types and no sender, so the transport
is marked external: `Replicate` builds the arguments from the leader's log from
any index it still has, `Deliver` calls the handler, `Lose` drops a call, and
`InOrder` says whether calls may overtake each other. `Active` engines are
started or appointed by `SetRole` as the repository's programs do; the others
only answer. `order`, `base` and `delivered` are history: what was proposed,
the snapshot a process started from, what its `commitChan` was given since. The
store of the cluster is reliable, in the runs and in the proofs.

### SovereignRouter

`Apply` is one action per vault call: `Begin`, `Verify`, `FetchReturns` or
`FetchFails`, `FetchStore`, `FetchCheck`, `Reread`, `Execute`. Consensus calls
it sequentially, as the code says. `StoreIfAuthorized` runs at any moment with
any payload, and both it and `RequestPayload` may hand over nil or empty bytes
(`NilBytes`), which have a hash like any others; `Missing` is the absence of an
entry. SHA-256 is injective. Workers take a trace and store its proof in two
steps; the only prover of the repository never fails. A router without telemetry
is one with a queue of capacity 0. `applied`, `trail` and `kept` (the traces a full queue did not drop) are
history.

### ReplicatedApps

A deployment hosts one application (`app`, chosen in `Init`). `ApplyOutcomes` of
`Applications` is the
set of results of `Apply`: more than one where Go's map order decides the root
(dist-lock, dist-queue) or storage may fail (kv-store). Time is a shared clock
read at the moment of application. Names are numbers so that they sort; a root
is the concatenation of what is written to the hash. The recorder records the
commands that succeeded, as the harness of `testing/simulation` does; the
replayer applies them to a fresh machine and stops at the first error or
mismatch. Refused commands are `OTHER`; dist-config distinguishes `MALFORMED`,
which is refused before the namespace is created. SHA-256 (`Sum256`) is injective on
byte strings, which are sequences of chunks; a hash is a chunk itself. A leaf of
`MerkleState` is the hash of the bytes of the key followed by those of the value, an
inner node the hash of the two hashes below it: as in the code nothing separates
key from value or tells the two kinds of node apart. `Spelling` gives the bytes of a
key, `EmptyBytes` those of `empty_state`. Its commands are sets of changes, whose
storage errors are dropped. `MerkleState` is not a `StateMachine` and is not replayed.

### NodeRuntime

One node is: the caller of `Start` and `Stop` (`phase`), HTTP handlers holding a
decoded body until there is room (`waiting`), the gossip listener (`heard`), and
the event loop (`loop`: in its select, mining, or about to publish). `Stop` is
three steps, `StopBegins` (cancel), `StopP2P` and `CloseStorage`, and none of
them waits for the loop, so that the loop may meet a closed pebble database,
which panics (`dead`), or an emptied memory store. `P2PNode.Init` may fail
before the host is set, before the topic is, or in `Subscribe`; a second `Start` then
runs a node that hears nothing and, in the last case, publishes all the same. The
hash of a mined block covers its time of mining, so it names the block; a state
root is the sequence of the blocks whose hashes were chained into it.
GossipSub is external: a message reaches a subscriber once, at any time, or
never (nothing is fair about it). No node checks index, hash or nonce, so clients
post (`Post`) and peers that do not run this code publish (`HearOutsider`) any block
that was published before and any of `OtherBlock`, a constant set of blocks with
arbitrary indexes and hashes. `accepted`, `minedTxs`, `height`, `posted` and
`published` are history. A transaction ID is posted to a node at most once; the
code treats equal transactions as two.

### The services

`RuntimeServices`: `Publish` serves its channels one by one under the read lock,
so publishers interleave, and `Subscribe` needs that nobody publishes. A task is
its goroutine: in its select, publishing, or gone. `StaticConsensus`: `Propose`
enters its select with the read lock held; a waiting `SetLeader` keeps other
readers out, as `sync.RWMutex` does. `PeerTable`: an ID is the
set of the one bits of its hash (of 3 bits in place of 256 in the run), so that the
XOR is the symmetric difference and `BitLen` one more than its largest member. `ExecutionRouter`:
every call is atomic under the router's mutex; handlers are `MetaApply`,
`ConfigApply`, `KVApply` with its storage errors (applications have the signature of a
handler) and the ledger's `Execute` behind an adapter that the repository leaves to
its caller. A handler may be registered again; to replace it by another one would
be another deployment. `Scars` are the commands whose failure leaves a trace in the
machine, `Kept` is what no failure may change.

## 3. Runs

| run | bounds | shows |
|---|---|---|
| `engine_log` | 1 engine, terms 0..1, indexes 0..2, batches up to 2, saves and the read at a restart may fail | `TypeOK`, `LogAligned`, `LogTermsOrdered`, `DurableState`, `SnapshotNeverRegresses` |
| `engine_vote` | 1 engine, 3 nodes, terms 0..2, all threads, fairness | `LeaderOwnVote`, `GrantOnce`, `DiskTermMonotone`, `ElectionResolves`, `StopTerminates` |
| `cluster_inorder` | leader and follower, 2 entries, 2 calls in flight | `CommitWithinLog`, `CommittedAgree`, `NoPanic`, refinement `BroadcastSpec` |
| `cluster_reorder` | the same, calls overtake | **violation** of `CommitWithinLog` |
| `cluster_handover` | as `cluster_inorder` | **violation** of `AppliedWasDelivered` |
| `cluster_quorum` | 2 started engines | **violation** of `LeaderHasQuorum` |
| `privacy` | 2 transactions, a payload and nil, 2 jurisdictions, 1 worker, queue of 2, 3 anchors, fairness | `AnchoredExecution`, `TracesChain`, `ProofsGenuine`, `RegistryLatest`, `ApplyReturns`, `TracesProved` |
| `privacy_race` | the same with 2 payloads and nil, 2 workers and a queue of 1 | **violation** of `ExecutedMatchesAnchor` |
| `apps` | the five applications with logs of 3 and `MerkleState` with 2 batches of up to 3 keys, 2 replicas, 2 names, failing storage, leases of 1 | `ReplicasAgree`, `ReplayReproduces`, `KVDamageContained`, `QueueIsFIFO`, `LockNotStolen`, `ProofOfSoleChange` |
| `apps_replay` | dist-config | **violation** of `ReplayDeterministic` |
| `node` | 2 nodes, clients and outsiders at one, channels of 1, 2 bodies, a block of index 2 with the hash of a mined one, 2 shutdowns, failures or restarts, pebble, fairness | `NodeTypeOK`, `TxConserved`, `GossipOnce`, `StoreFollowsRoot`, `AcceptedMined`, `ShutdownCompletes` |
| `services` | bus: 2 tasks, 2 subscribers, channels of 1, 3 events; static: 2 proposers, a channel of 1; table: 4 peers, buckets of 2, 5 calls; router: 2 routers, 3 handlers (dist-config, kv-store with failing storage, ledger), 3 commands; fairness | `FastSubscriberMissesNothing`, `SchedulerStops`, `QuietWhenFollower`, `BlockedCallsReturn`, `PeersWellPlaced`, `ReputationKept`, `FailuresInvisible` |

One engine is enough for the properties of an engine: its only inputs are its
calls, and every well-formed call is enumerated; two terms and two indexes
already give conflicting suffixes, truncation of committed entries, compaction
of everything and of a prefix, and stale votes. Three nodes make a quorum that
is neither one nor all. In the cluster two entries and two calls in flight are
what a loss, a retry and an overtaking need. The capacity of `commitChan` (1000
in the code) is 3 in `cluster_inorder`, which is more than the entries there
are: the run is about a reader that keeps up. Three anchors overflow a trace
queue of two and execute one transaction twice, with different bytes since nil is
one of them. Logs of three commands over two
names reach every branch of the applications and every order of two keys; three
Merkle keys make an odd level, and are spelled so that two keys with different
values, a key with a value and `empty_state`, and a key with a value and the two
hashes under the root of another batch have the same bytes. In `node` two bodies fill
a channel of one and block a handler, are mined as one block or as two, or are a
transaction and its block sent back, or one with its hash under another index; two
disruptions are a failure and a shutdown, or a restart
and a shutdown; the second node is where gossip, with its own shutdowns and
failures, arrives. Three events overrun a channel of one while another
subscriber keeps up, with two publishers at once. Three of the four peers want
the same bucket of two. One failed and one committed command on one router, and
one committed on the other, are what `FailuresInvisible` compares; the fourth handler,
metadata, is left to the proof for the size of the run. The services
share no state, so their product would show nothing more: `MCServices` chooses
one at the start. Behaviours end where a bound is reached, or where an engine or
a node is stopped or died, so deadlock is not checked.

Fairness. `engine_vote`: weak fairness of the loop's steps, the vote goroutines
and the apply loop, since a runnable goroutine runs and a ticker ticks; strong
fairness of `LoopExit`, since a `select` picks at random among ready cases and
the election timer can make another one ready each time. Timer expiry, calls
and crashes are not fair. `privacy`: weak fairness of `Apply`, whose fetch
is bounded by a five-second context, and of the workers. `node`: weak fairness
of the event loop's steps and of the steps of `Stop` (each of its waits has a
deadline), strong fairness of `LoopExit` for the reason given above; clients,
gossip, handlers, crashes and the decision to stop are not fair. `services`:
weak fairness of a publishing task, of the cases of a proposal's select and of
the write lock, strong fairness of a task's exit; subscribers, consumers and
contexts are not fair.

Every property has a mutant of the code (defined beside the definition it
replaces) that breaks it.

### What the violations show

* `cluster_quorum`: votes are counted without being requested.
* `cluster_reorder`: an older, shorter `AppendEntries` truncates committed
  entries; `commitIndex` then points past the log and `CompactLog` can index
  out of range.
* `cluster_handover`: `Propose` sets `lastApplied` past entries that were never
  delivered to the restarted application.
* `privacy_race`: the error of the second read is dropped and nil is executed.
* `apps_replay`: a refused dist-config command leaves a namespace behind.
* With two workers `RegistryLatest` does not hold either: a slow worker may
  overwrite a newer proof.

Known limits of what is promised, seen in the models and stated in the
properties' comments: roots of dist-lock and dist-queue depend on Go's map
order, and `ReplicasAgree` is stated of the other applications; leases are
judged by the clock of the replica that applies; a candidate without peers
never tests the quorum; a Merkle proof verifies for batches of one key only,
for any other key and value that spell the same bytes, since a leaf has no
separator, and for a key and value that spell the two hashes under a root, since
leaves and inner nodes are hashed alike; a rolled-back configuration command of
unknown action leaves its namespace, and a write that the storage refuses its value,
in the machine behind the router; an engine whose store cannot be read at a restart
starts from genesis and overwrites its record; the vote of a candidate for itself may
be followed by one for another in the same term; chain roots depend on the order in which blocks
arrive; a block that clients or outsiders send is chained however often it comes.

## 4. Proofs

### The Raft engine

For every `Server`, `Node`, payloads and bounds, from the assumptions named in
`RaftEngine` (engines and peers are nodes, nodes are finite, the empty vote is
no node, `SetRole` never makes a candidate):

* `TypeCorrect`: `Spec => []TypeOK`.
* `Invariance`: `Spec => []IndInv`, from which follow `LogAlignment`,
  `TermOrder`, `Durability`, `OwnVote`, `OneGrant`, and, with what each step
  does to the disk, the action properties `DiskTerm` and `SnapshotProgress`.

None of the properties is inductive alone. A crash replaces the memory by the
disk, so what holds of the memory must hold of the saved record (`DiskInv`),
and the two must agree unless a save failed or the engine was started without
reading (`unread`): then its snapshot is the initial one, so that a later restart that does
read takes nothing back. `GrantOnce` needs more: grants are never of a term newer
than memory or disk, those of the present term are the
present vote, and a candidate has granted nothing in its term — this is what
makes it harmless that a candidate clears its vote when it steps down within
its term, and that a refused `AppendEntries` does not save the term it learned.
`LogAligned` needs the sentinel to carry the snapshot's term. Each action has a
lemma for the engine that takes the step; `OneEngine` disposes of the others.

### The Raft cluster

For any number of engines, payloads and bounds, through crashes, losses, retries
and compactions. The hypotheses say where the code keeps its promise; the
violation runs show that it does not without the second:

* `SingleLeader`: one engine is started or appointed, and saves do not fail. Two
  engines that lead in one term write different logs (`cluster_quorum` shows that
  elections allow it), so agreement is a statement about one leader.
* `InOrder`: calls do not overtake each other. `cluster_reorder` is the other case.
* `RoomyChannel`: `commitChan` holds as many entries as the log may have. A full
  channel drops an entry that is counted as applied; the code's 1000 slots are
  this hypothesis, not its proof.

`DataAssumption` of `RaftEngine` says that the empty payload is not a proposal.
The argument has three layers, each an invariant that contains the one before:

* `OneOrder` (`LogInv`): every log, on disk too, and every message is a piece of
  the history variable `order`, and the leader's log ends where the order ends.
  This alone gives `SingleLeaderAgrees`: `[]CommittedAgree`, even for a transport
  that reorders.
* `InOrderInvariance` (`InOrderInv`): a message on a wire reaches at least as far
  as the log of its receiver and as the messages before it, so that no log gets
  shorter and none is cut below what was committed. It gives `CommitStaysInLog`
  and `NeverPanics`.
* `DeliveryInvariance` (`DeliveryInv`): since its process started, a follower's
  `commitChan` was given as many entries as `lastApplied` is past `base`, and holds
  no more than that, so that it is never full. With it
  `ImplementsBroadcast`: `ClusterSpec => BroadcastSpec`. Initial states map to
  initial states; `Propose` extends the order, an iteration of the apply loop
  delivers, a restart returns to a snapshot, and every other step stutters.

### The privacy pipeline

For any transactions, payloads, jurisdictions, workers and queue, with a fetcher
or without (`HomeAssumption`, `BytesAssumption`, `QueueAssumption`):

* `ExecutionAnchored`: `Spec => []AnchoredExecution`. The vault may change between
  any two calls of `Apply`, so no invariant about its contents survives; what does
  is that `Apply` holds an applied anchor of its own jurisdiction
  (`AnchorApplied`) and that the bytes it is about to execute were verified by
  the very call that read them, or are nil (`VerifiedPayload`).
* `GenuineProofs`: `Spec => []ProofsGenuine`, because queue and workers only ever
  hold traces of executions (`PipelineTraces`); the number of workers and the
  order in which they finish play no part.
* `ExecutionsChain`: `Spec => []TracesChain`. The previous state that `Execute`
  records is that of the last execution of the same transaction, because nothing
  but `Execute` writes the private state; the side channel writes the vault only.
* `RegistryCatchesUp`: with one worker (`OneWorker`) `Spec => []RegistryLatest`,
  through any number of overflows. Some prefix of the kept traces is proved, the
  worker holds the next one and the queue the rest, in order; the registry holds
  the last proof of each transaction in the prefix, and nothing for the others
  (`Proved`). Nothing is dropped while the executions fit into the queue, because
  the queue is a suffix of what was kept (`QueueWithin`). With two workers the
  property is false (section 3).
  `MissingAssumption`: the absence of a trace is no trace.

### The replicated applications

For any replicas, commands, logs and times of application:

* `AppsAgree`: `Spec => []ReplicasAgree`. Two replicas are compared when both are at
  the same position, and they got there at different times, so that the invariant
  must speak of the states they went through. It says that a history of states
  exists, each reached from the one before by the command of the log, and that
  two replicas with the same errors among their first n commands had the same
  n-th state (`HistoryOf`). The step needs one lemma per application: an outcome is
  determined by state, root, command and whether it succeeded.
* `ReplayIsFaithful`: `Spec => []ReplayReproduces`, with a history shared by recorder
  and replayer; refused commands are skipped by the recorder, and leave no trace
  in the applications the property is about.
* `DamageContained`: `Spec => []KVDamageContained`. A failed write may separate map
  and storage at its key until the next write of that key succeeds, and the root
  from the map until any write does (`Contained`).
* `LocksKept`: `Spec => LockNotStolen`, an action property of dist-lock.
* `QueuesAreFIFO`: `Spec => []QueueIsFIFO`. The invariant counts, per topic, the
  enqueues and dequeues of every suffix of the log that a replica applied: the
  queue's length is their largest surplus, since a dequeue of an empty topic
  removes nothing, and its items are the newest enqueued.
* `ProofsOfSoleChanges`: `Spec => []ProofOfSoleChange`, for batches of any size and
  keys of any spelling. The root is a recursive function on the levels of the tree.
  That `MerkleLevels` satisfies its defining equation is shown first
  (`LevelsUnique`, `LevelsExist`, `LevelsDefined`); then that levels shrink to one
  hash and stay there (`LevelsShrink`, `LastLevelStays`), so that the root of one leaf
  is that leaf and the root of several the hash of a level of two
  (`MerkleRootShape`). Bytes with the hash of the root are therefore the bytes hashed
  last (`WhatVerifies`). The sorted leaves of a batch are as
  many as its keys (`SortedLeaves`). `MerkleInv` says that the state
  and the root of a replica are those of the last batch it applied.

### The nodes

For any nodes, clients, capacities, bounds and both back ends
(`BackendAssumption` and the others of `NodeRuntime`):

* `TransactionsConserved`: `Spec => []TxConserved`. The invariant `TxInv` adds
  that the block in the loop's hand has exactly the pending transactions while
  it is mined and published (`HandIsPending`), because the loop takes nothing
  from `txChan` meanwhile: that is why dropping all pending ones after a publish
  loses none, and why failed mining keeps them.
* `StorageFollowsRoot`: `Spec => []StoreFollowsRoot`, for any blocks of others.
  `BlocksTyped` follows a block through hand, gossip, listener and channel;
  `PutOne` shows that a write under one index leaves the last blocks of the other
  indexes where they are; `RootKept` says that the store of a closed pebble database still follows the
  root, which is needed for a process that a late write has killed.
* `GossipChainedOnce`: `Spec => []GossipOnce`. A hash names one block: it carries
  the node, its boot and its height, none of which repeats (`Stamped`). A
  node meets only hashes of published blocks, of its own and of what was sent to it
  (`MetKnown`), so that a new block is nowhere yet; from then on its hash is in one
  place of a node at most, on its way from the topic through listener and channel
  into the root, unless a client or an outsider sent it there (`Counted`).
* `NodeTyped`: `Spec => []NodeTypeOK`. The bounds in the type are not guards of the
  actions they bound: that a boot mines no more blocks than bodies came,
  and that no sequence outgrows its bound, is a count of bodies through handlers,
  channels, pending transactions and blocks (`PostsCounted`, `BlocksCounted`).

### Static consensus

* `FollowerIsQuiet`: `StaticSpec => QuietWhenFollower`, for any proposers and
  capacity: a proposal that is in its select was let in by a leader, and
  `SetLeader` has not returned since (`LeaderWhileSending`).

### The services

* `FailuresLeaveNoTrace`: `RouterSpec => []FailuresInvisible`, for any routers,
  commands and interleavings of failures, storage errors included, with two
  histories as for the replicas: what a router keeps (`Keeps`) is a function of what it
  committed, and what a router without a scar holds (`Holds`: root and machines, all of
  them) is too. The first needs that the settings of dist-config and the stored values
  of the kv-store depend on nothing that a failure leaves behind (`OutcomeKept`), the
  second that an outcome is determined by state, root and command (`OutcomeSingle`).
* `BucketsWellKept` and `ReputationEarned`: `PeersWellPlaced` and `ReputationKept` of
  `TableSpec`, for any peers, number of bits, bucket size and calls. They rest on
  the lemma `IndexIsProximity`: the code's bucket index, from the bit length of the
  XOR distance, is within the table and is the proximity (the common prefix) that
  the properties speak of.
* `FastSubscribersServed`: `ServicesSpec => []FastSubscriberMissesNothing`, for any
  tasks, subscribers and capacities. A subscriber stands once in the list of a
  type (`SubscribedOnce`), and the list does not change under a `Publish`, whose
  read lock keeps `Subscribe` out (`PublishUnderLock`): what a publisher has not yet
  sent is exactly the rest of the list.

### Only model-checked

* `ElectionResolves`, `StopTerminates`, `ApplyReturns`, `TracesProved`, `AcceptedMined`,
  `ShutdownCompletes`, `SchedulerStops` and `BlockedCallsReturn`: liveness under
  fairness is out of this prover's reach.
* The violation runs, which are counterexamples.

Where an argument needs induction over numbers (`LevelsUnique`, `LevelsExist`,
`MerkleRootShape`, `Extremes`), it is made with a least counterexample: a set of
numbers that is not empty has a least member (`LeastNumber`, from the
well-foundedness of `<`), which needs no theorem with an operator as parameter.

## 5. Not modelled

* The service registry and the plugin table: put-if-absent under a lock. The
  observability collector: counters.
* Identity and certificates are calls of the crypto library; the authorization
  engine is a table that only grows and a log of its lookups.
* `Get` of the storage back ends, but for its failure at the start of an engine;
  opening a pebble directory. A failing prover, which the repository does not have.
  Another handler registered in the place of the first.
* Configuration, logging, metrics, the experiment drivers, the fault injector
  and `cmd/sovereign/main.go`, which constructs components and waits for a
  signal, hold no system state.

## 6. Plan

1. Done: `RaftEngine`, `RaftCluster` over `AtomicBroadcast`, `SovereignRouter`,
   `Applications` and `ReplicatedApps`, `NodeRuntime`, `RuntimeServices`,
   `StaticConsensus`, `PeerTable`, `ExecutionRouter`.
2. Done: proofs of every safety invariant and action property of the runs, and of
   the refinement of `AtomicBroadcast`.
3. Left to TLC, for the reason in section 4: liveness. A possible extension is the
   refinement for a `commitChan` smaller than the log, under a reader that empties
   it in time.
