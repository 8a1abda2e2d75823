----------------------------- MODULE NodeRuntime -----------------------------
(***************************************************************************)
(* The blockchain nodes: the Runtime of core/runtime/runtime.go with its   *)
(* P2PNode, its proof of work, and the ChainState it applies blocks to.    *)
(*                                                                         *)
(* A node is several goroutines: HTTP handlers that block while a channel  *)
(* is full, the gossip listener, the event loop, and the caller of Start   *)
(* and Stop.  Stop cancels the context and does not wait for the loop.     *)
(*                                                                         *)
(* GossipSub is external: a published block reaches each subscriber at     *)
(* most once, in any order or never, its publisher too.  Mined blocks have *)
(* different hashes (they cover the time of mining).  Clients, and peers   *)
(* that do not run this code, send whatever blocks they like, since no     *)
(* node checks index, hash or nonce.  A state root is the sequence of the  *)
(* blocks whose hashes were chained into it.                               *)
(***************************************************************************)
EXTENDS Integers, Sequences, FiniteSets, TLC

CONSTANTS
    Node, Tx,
    Gateway,        \* the nodes that clients and outsiders talk to
    NoBlock,        \* no block in hand
    OtherBlock,     \* blocks no node has mined
    Backend,        \* "pebble" keeps its data and panics once closed
    TxCap, BlockCap,    \* capacities of txChan and blockChan
    MaxPosts,       \* bound: bodies that come from clients and outsiders
    MaxFaults       \* bound: shutdowns, failed calls and restarts

ASSUME BackendAssumption == Backend \in {"pebble", "memory"}
ASSUME GatewayAssumption == Gateway \subseteq Node
ASSUME OtherAssumption ==
    \A b \in OtherBlock : b \in [index : Int, hash : {b.hash}, txs : Seq(Tx)]
ASSUME CapAssumption ==
    /\ TxCap \in Nat \ {0} /\ BlockCap \in Nat \ {0}
    /\ MaxPosts \in Nat /\ MaxFaults \in Nat

VARIABLES
    phase,      \* what Start and Stop have done
    host,       \* whether p.host is set
    topic, sub, \* whether p.topic and p.sub are set
    loop,       \* where the event loop is
    waiting,    \* the bodies that HTTP handlers hold
    heard,      \* the block the gossip listener holds
    txChan, blockChan,
    pendingTxs,
    hand,       \* the block the event loop is mining or publishing
    stateRoot, store, \* ChainState
    inbox,      \* gossip on its way to a node
    faults,     \* shutdowns, failed calls and restarts so far
    accepted,   \* history: the transactions answered 202, in order, this boot
    minedTxs,   \* history: those of the blocks mined, in order, this boot
    height,     \* history: how many blocks these are
    posted,     \* history: what clients and outsiders have sent a node ever
    published   \* history: the blocks ever published

p2pVars   == <<host, topic, sub, waiting, heard, txChan, blockChan, inbox>>
chainVars == <<stateRoot, store>>
loopVars  == <<loop, pendingTxs, hand>>
history   == <<accepted, minedTxs, height, posted, published>>
vars == <<phase, p2pVars, chainVars, loopVars, faults, history>>

\* Every block mined has index 1.  It is told apart by its hash.
BlockHash  == [miner : Node, boot : 0..MaxFaults, seq : 1..MaxPosts]
MinedBlock == [index : {1}, hash : BlockHash, txs : Seq(Tx)]
Block      == MinedBlock \cup OtherBlock
Body       == [tx : Tx] \cup [block : Block]
Message    == [from : Node, block : MinedBlock]
Phase      == {"new", "running", "cancelled", "served", "stopped", "dead"}

\* Type invariant; channels never hold more than they can, and no boot mines
\* more blocks than bodies came.
NodeTypeOK ==
    /\ phase \in [Node -> Phase]
    /\ host \in [Node -> BOOLEAN] /\ topic \in [Node -> BOOLEAN]
    /\ sub \in [Node -> BOOLEAN]
    /\ loop \in [Node -> {"off", "select", "mining", "publish", "done"}]
    /\ \A n \in Node : waiting[n] \subseteq Body /\ posted[n] \subseteq Body
    /\ heard \in [Node -> Block \cup {NoBlock}]
    /\ \A n \in Node : /\ txChan[n] \in Seq(Tx) /\ Len(txChan[n]) <= TxCap
                       /\ blockChan[n] \in Seq(Block)
                       /\ Len(blockChan[n]) <= BlockCap
    /\ pendingTxs \in [Node -> Seq(Tx)]
    /\ hand \in [Node -> MinedBlock \cup {NoBlock}]
    /\ stateRoot \in [Node -> Seq(Block)]
    /\ \A n \in Node : store[n] \in [DOMAIN store[n] -> Block]
    /\ \A n \in Node : inbox[n] \subseteq Message
    /\ faults \in 0..MaxFaults /\ height \in [Node -> 0..MaxPosts]
    /\ accepted \in [Node -> Seq(Tx)] /\ minedTxs \in [Node -> Seq(Tx)]
    /\ published \subseteq MinedBlock

\* The processes have called New.
Init ==
    /\ phase = [n \in Node |-> "new"]
    /\ host = [n \in Node |-> FALSE]
    /\ topic = [n \in Node |-> FALSE]
    /\ sub = [n \in Node |-> FALSE]
    /\ loop = [n \in Node |-> "off"]
    /\ waiting = [n \in Node |-> {}]
    /\ heard = [n \in Node |-> NoBlock]
    /\ txChan = [n \in Node |-> <<>>]
    /\ blockChan = [n \in Node |-> <<>>]
    /\ pendingTxs = [n \in Node |-> <<>>]
    /\ hand = [n \in Node |-> NoBlock]
    /\ stateRoot = [n \in Node |-> <<>>]
    /\ store = [n \in Node |-> <<>>]
    /\ inbox = [n \in Node |-> {}]
    /\ faults = 0
    /\ accepted = [n \in Node |-> <<>>]
    /\ minedTxs = [n \in Node |-> <<>>]
    /\ height = [n \in Node |-> 0]
    /\ posted = [n \in Node |-> {}]
    /\ published = {}

Alive(n)     == phase[n] \notin {"new", "dead"}
Cancelled(n) == phase[n] \in {"cancelled", "served", "stopped"}

\* The server listens until one of the two calls of Shutdown.
Serving(n) == phase[n] \in {"running", "cancelled"}

\* Something fails or is stopped, while the bound lets it.
Fault == faults < MaxFaults /\ faults' = faults + 1

-----------------------------------------------------------------------------
(* Start.                                                                  *)

\* P2PNode.Init fails: before it has set p.host, before it has set p.topic, or
\* in Subscribe; Start returns the error and may be called again.
StartFails(n) ==
    /\ phase[n] = "new" /\ ~host[n] /\ Fault
    /\ \E h, t \in BOOLEAN : /\ t => h
                             /\ host' = [host EXCEPT ![n] = h]
                             /\ topic' = [topic EXCEPT ![n] = t]
    /\ UNCHANGED <<phase, sub, waiting, heard, txChan, blockChan, inbox,
                   chainVars, loopVars, history>>

\* Init returns at once where p.host is set already, so a second attempt may
\* start a node that never subscribed, and publishes or not.
Joins(n) == ~host[n]

Start(n) ==
    /\ phase[n] = "new"
    /\ phase' = [phase EXCEPT ![n] = "running"]
    /\ host' = [host EXCEPT ![n] = TRUE]
    /\ topic' = [topic EXCEPT ![n] = @ \/ Joins(n)]
    /\ sub' = [sub EXCEPT ![n] = Joins(n)]
    /\ loop' = [loop EXCEPT ![n] = "select"]
    /\ UNCHANGED <<waiting, heard, txChan, blockChan, inbox, chainVars,
                   pendingTxs, hand, faults, history>>

-----------------------------------------------------------------------------
(* HTTP handlers and gossip.                                               *)

\* A client or an outsider sends node n a body, while the bound lets it.
Sent(n, body) ==
    /\ n \in Gateway /\ Serving(n)
    /\ body \notin posted[n]
    /\ Cardinality(UNION {{m} \X posted[m] : m \in Node}) < MaxPosts
    /\ posted' = [posted EXCEPT ![n] = @ \cup {body}]

\* A client posts a transaction or any block, and the handler has decoded it.
Post(n, body) ==
    /\ Sent(n, body)
    /\ waiting' = [waiting EXCEPT ![n] = @ \cup {body}]
    /\ UNCHANGED <<phase, host, topic, sub, heard, txChan, blockChan, inbox,
                   chainVars, loopVars, faults, accepted, minedTxs, height,
                   published>>

\* A send on a buffered channel does not block.
Room(chan, cap) == Len(chan) < cap

\* p.txChan <- tx, then 202.
HandleTx(n, t) ==
    /\ Alive(n) /\ [tx |-> t] \in waiting[n]
    /\ Room(txChan[n], TxCap)
    /\ waiting' = [waiting EXCEPT ![n] = @ \ {[tx |-> t]}]
    /\ txChan' = [txChan EXCEPT ![n] = Append(@, t)]
    /\ accepted' = [accepted EXCEPT ![n] = Append(@, t)]
    /\ UNCHANGED <<phase, host, topic, sub, heard, blockChan, inbox, chainVars,
                   loopVars, faults, minedTxs, height, posted, published>>

HandleBlock(n, b) ==
    /\ Alive(n) /\ [block |-> b] \in waiting[n]
    /\ Room(blockChan[n], BlockCap)
    /\ waiting' = [waiting EXCEPT ![n] = @ \ {[block |-> b]}]
    /\ blockChan' = [blockChan EXCEPT ![n] = Append(@, b)]
    /\ UNCHANGED <<phase, host, topic, sub, heard, txChan, inbox, chainVars,
                   loopVars, faults, history>>

\* Mutant of Foreign: the node's own messages are not skipped.
ForeignAll(n, m) == n \in Node /\ m \in Message

\* msg.ReceivedFrom != p.host.ID()
Foreign(n, m) == m.from # n

\* sub.Next returns a message; the listener skips its own.
ListenGossip(n, m) ==
    /\ sub[n] /\ Serving(n) /\ heard[n] = NoBlock
    /\ m \in inbox[n]
    /\ inbox' = [inbox EXCEPT ![n] = @ \ {m}]
    /\ heard' = [heard EXCEPT ![n] = IF Foreign(n, m) THEN m.block ELSE NoBlock]
    /\ UNCHANGED <<phase, host, topic, sub, waiting, txChan, blockChan, chainVars,
                   loopVars, faults, history>>

\* sub.Next returns the message of a peer that is none of the nodes.
HearOutsider(n, b) ==
    /\ sub[n] /\ heard[n] = NoBlock
    /\ Sent(n, [block |-> b])
    /\ heard' = [heard EXCEPT ![n] = b]
    /\ UNCHANGED <<phase, host, topic, sub, waiting, txChan, blockChan, inbox,
                   chainVars, loopVars, faults, accepted, minedTxs, height,
                   published>>

\* p.blockChan <- block, by the listener.
ForwardGossip(n) ==
    /\ Alive(n) /\ heard[n] # NoBlock
    /\ Room(blockChan[n], BlockCap)
    /\ blockChan' = [blockChan EXCEPT ![n] = Append(@, heard[n])]
    /\ heard' = [heard EXCEPT ![n] = NoBlock]
    /\ UNCHANGED <<phase, host, topic, sub, waiting, txChan, inbox, chainVars,
                   loopVars, faults, history>>

-----------------------------------------------------------------------------
(* ChainState.Apply, called by the event loop, which drops its error.      *)

\* storage.Put under the block's index.
Stored(s, b) == [i \in DOMAIN s \cup {b.index} |-> IF i = b.index THEN b ELSE s[i]]

Put(n, b) == store' = [store EXCEPT ![n] = Stored(@, b)]

\* A write to a closed pebble database panics.
Closed(n) == Backend = "pebble" /\ phase[n] = "stopped"

\* Mutant of Rejected: the root moves although nothing was stored.
RejectedLate(n, b) ==
    /\ Backend = "pebble" /\ ~Closed(n) /\ Fault
    /\ stateRoot' = [stateRoot EXCEPT ![n] = Append(@, b)]
    /\ UNCHANGED <<store, phase>>

\* Pebble's Put returns an error, and so does Apply.
Rejected(n, b) ==
    /\ Backend = "pebble" /\ ~Closed(n) /\ Fault
    /\ b \in Block
    /\ UNCHANGED <<stateRoot, store, phase>>

\* The panic takes the process with it.
Panics(n) ==
    /\ Closed(n)
    /\ phase' = [phase EXCEPT ![n] = "dead"]
    /\ UNCHANGED <<stateRoot, store, faults>>

\* The block is stored under its index and its hash chained into the root.
Applied(n, b) ==
    /\ ~Closed(n)
    /\ Put(n, b)
    /\ stateRoot' = [stateRoot EXCEPT ![n] = Append(@, b)]
    /\ UNCHANGED <<phase, faults>>

Apply(n, b) == Panics(n) \/ Applied(n, b) \/ Rejected(n, b)

-----------------------------------------------------------------------------
(* The event loop.  A select takes any case that is ready.                 *)

Selecting(n) == Alive(n) /\ loop[n] = "select"

TakeTx(n) ==
    /\ Selecting(n) /\ txChan[n] # <<>>
    /\ pendingTxs' = [pendingTxs EXCEPT ![n] = Append(@, Head(txChan[n]))]
    /\ txChan' = [txChan EXCEPT ![n] = Tail(@)]
    /\ UNCHANGED <<phase, host, topic, sub, waiting, heard, blockChan, inbox,
                   chainVars, loop, hand, faults, history>>

TakeBlock(n) ==
    /\ Selecting(n) /\ blockChan[n] # <<>>
    /\ Apply(n, Head(blockChan[n]))
    /\ blockChan' = [blockChan EXCEPT ![n] = Tail(@)]
    /\ UNCHANGED <<host, topic, sub, waiting, heard, txChan, inbox, loopVars, history>>

\* Mutant of WorthMining: a single transaction is left to wait.
WorthMiningMany(n) == Len(pendingTxs[n]) > 1

\* Mutant of WorthMining: empty blocks are mined too.
WorthMiningEver(n) == Len(pendingTxs[n]) >= 0

\* len(pendingTxs) != 0
WorthMining(n) == pendingTxs[n] # <<>>

\* The ticker: a block of everything pending, whose mining begins.
Tick(n) ==
    /\ Selecting(n) /\ WorthMining(n)
    /\ loop' = [loop EXCEPT ![n] = "mining"]
    /\ hand' = [hand EXCEPT ![n] =
                  [index |-> 1, txs |-> pendingTxs[n],
                   hash |-> [miner |-> n, boot |-> faults,
                             seq |-> height[n] + 1]]]
    /\ UNCHANGED <<phase, p2pVars, chainVars, pendingTxs, faults, history>>

\* In MineBlock: a nonce is found, or the context is cancelled, which an
\* attempt under way does not see.
Mining(n) == Alive(n) /\ loop[n] = "mining"

\* MineBlock returns the block, and Apply follows.
Mined(n) ==
    /\ Mining(n)
    /\ Apply(n, hand[n])
    /\ loop' = [loop EXCEPT ![n] = "publish"]
    /\ UNCHANGED <<p2pVars, pendingTxs, hand, history>>

\* Mutant of MiningFails: the transactions are forgotten.
MiningFailsForgets(n) ==
    /\ Mining(n) /\ Cancelled(n)
    /\ loop' = [loop EXCEPT ![n] = "select"]
    /\ hand' = [hand EXCEPT ![n] = NoBlock]
    /\ pendingTxs' = [pendingTxs EXCEPT ![n] = <<>>]
    /\ UNCHANGED <<phase, p2pVars, chainVars, faults, history>>

\* MineBlock returns ctx.Err().
MiningFails(n) ==
    /\ Mining(n) /\ Cancelled(n)
    /\ loop' = [loop EXCEPT ![n] = "select"]
    /\ hand' = [hand EXCEPT ![n] = NoBlock]
    /\ UNCHANGED <<phase, p2pVars, chainVars, pendingTxs, faults, history>>

\* The subscribers a published message sets out to: none from a node without
\* a topic, or whose host is closed.
Reached(n) == IF topic[n] /\ Serving(n)
                THEN {m \in Node : sub[m] /\ Serving(m)} ELSE {}

\* BroadcastBlock, whether or not Apply succeeded; then the pending
\* transactions are dropped.
Publish(n) ==
    /\ Alive(n) /\ loop[n] = "publish"
    /\ inbox' = [m \in Node |->
                   IF m \in Reached(n)
                     THEN inbox[m] \cup {[from |-> n, block |-> hand[n]]}
                     ELSE inbox[m]]
    /\ published' = published \cup {hand[n]}
    /\ minedTxs' = [minedTxs EXCEPT ![n] = @ \o hand[n].txs]
    /\ height' = [height EXCEPT ![n] = @ + 1]
    /\ pendingTxs' = [pendingTxs EXCEPT ![n] = <<>>]
    /\ hand' = [hand EXCEPT ![n] = NoBlock]
    /\ loop' = [loop EXCEPT ![n] = "select"]
    /\ UNCHANGED <<phase, host, topic, sub, waiting, heard, txChan, blockChan,
                   chainVars, faults, accepted, posted>>

\* case <-ctx.Done(): return
LoopExit(n) ==
    /\ Selecting(n) /\ Cancelled(n)
    /\ loop' = [loop EXCEPT ![n] = "done"]
    /\ UNCHANGED <<phase, p2pVars, chainVars, pendingTxs, hand, faults, history>>

-----------------------------------------------------------------------------
(* Stop, and the death of a process.                                       *)

\* Stop cancels the context.
StopBegins(n) ==
    /\ phase[n] = "running" /\ Fault
    /\ phase' = [phase EXCEPT ![n] = "cancelled"]
    /\ UNCHANGED <<p2pVars, chainVars, loopVars, history>>

\* Mutant of StopP2P: no deadline bounds the wait for the handlers.
StopP2PPatient(n) ==
    /\ phase[n] = "cancelled" /\ waiting[n] = {}
    /\ phase' = [phase EXCEPT ![n] = "served"]
    /\ UNCHANGED <<p2pVars, chainVars, loopVars, faults, history>>

\* P2PNode.Stop: subscription and host are closed; server.Shutdown returns
\* when the handlers have, or five seconds after Stop was called.
StopP2P(n) ==
    /\ phase[n] = "cancelled"
    /\ phase' = [phase EXCEPT ![n] = "served"]
    /\ UNCHANGED <<p2pVars, chainVars, loopVars, faults, history>>

\* MemoryStorage forgets its data when it is closed, and when the process ends.
AfterClose(n) == IF Backend = "memory" THEN <<>> ELSE store[n]

\* storage.Close, and Stop returns.
CloseStorage(n) ==
    /\ phase[n] = "served"
    /\ phase' = [phase EXCEPT ![n] = "stopped"]
    /\ store' = [store EXCEPT ![n] = AfterClose(n)]
    /\ UNCHANGED <<p2pVars, stateRoot, loopVars, faults, history>>

\* The process ends, whatever it was doing, and a new one calls New: the
\* chain starts at genesis_root, over what the storage has kept.
Restart(n) ==
    /\ phase[n] # "new" /\ Fault
    /\ phase' = [phase EXCEPT ![n] = "new"]
    /\ host' = [host EXCEPT ![n] = FALSE]
    /\ topic' = [topic EXCEPT ![n] = FALSE]
    /\ sub' = [sub EXCEPT ![n] = FALSE]
    /\ loop' = [loop EXCEPT ![n] = "off"]
    /\ waiting' = [waiting EXCEPT ![n] = {}]
    /\ heard' = [heard EXCEPT ![n] = NoBlock]
    /\ txChan' = [txChan EXCEPT ![n] = <<>>]
    /\ blockChan' = [blockChan EXCEPT ![n] = <<>>]
    /\ pendingTxs' = [pendingTxs EXCEPT ![n] = <<>>]
    /\ hand' = [hand EXCEPT ![n] = NoBlock]
    /\ stateRoot' = [stateRoot EXCEPT ![n] = <<>>]
    /\ store' = [store EXCEPT ![n] = AfterClose(n)]
    /\ inbox' = [inbox EXCEPT ![n] = {}]
    /\ accepted' = [accepted EXCEPT ![n] = <<>>]
    /\ minedTxs' = [minedTxs EXCEPT ![n] = <<>>]
    /\ height' = [height EXCEPT ![n] = 0]
    /\ UNCHANGED <<posted, published>>

-----------------------------------------------------------------------------

Next == \E n \in Node :
    \/ StartFails(n) \/ Start(n)
    \/ \E t \in Tx : Post(n, [tx |-> t]) \/ HandleTx(n, t)
    \/ \E b \in published \cup OtherBlock :
          Post(n, [block |-> b]) \/ HandleBlock(n, b) \/ HearOutsider(n, b)
    \/ \E m \in inbox[n] : ListenGossip(n, m)
    \/ ForwardGossip(n)
    \/ TakeTx(n) \/ TakeBlock(n) \/ Tick(n)
    \/ Mined(n) \/ MiningFails(n) \/ Publish(n) \/ LoopExit(n)
    \/ StopBegins(n) \/ StopP2P(n) \/ CloseStorage(n)
    \/ Restart(n)

Safety == Init /\ [][Next]_vars

\* The event loop and the caller of Stop run; a nonce is found in the end.
\* Go's select chooses at random, so a loop that keeps coming back to it with
\* the context cancelled leaves (strong fairness).
\* Clients, the network, crashes and the decision to stop are free.
Fairness == \A n \in Node :
    /\ WF_vars(TakeTx(n)) /\ WF_vars(TakeBlock(n)) /\ WF_vars(Tick(n))
    /\ WF_vars(Mined(n)) /\ WF_vars(Publish(n)) /\ SF_vars(LoopExit(n))
    /\ WF_vars(StopP2P(n)) /\ WF_vars(CloseStorage(n))

Spec == Safety /\ Fairness

-----------------------------------------------------------------------------
(* Properties.                                                             *)

Elements(s) == {s[i] : i \in 1..Len(s)}

\* No transaction answered with 202 is lost, doubled or overtaken by another
\* while its node is up: it is in a block the node has mined, or pending, or
\* in txChan, in the order of acceptance, through failed mining and shutdown.
TxConserved == \A n \in Node :
    accepted[n] = minedTxs[n] \o pendingTxs[n] \o txChan[n]

\* A node chains a hash into its root once, however its block was gossiped by
\* the nodes, unless a client or an outsider sent it a block with that hash:
\* nothing else is deduplicated.
GossipOnce == \A n \in Node : \A i, j \in 1..Len(stateRoot[n]) :
    i # j /\ stateRoot[n][i].hash = stateRoot[n][j].hash =>
        \E body \in posted[n] :
            "block" \in DOMAIN body /\ body.block.hash = stateRoot[n][i].hash

\* Root and storage tell the same story, whatever blocks clients and outsiders
\* send, through storage errors and writes to a closed database: a block
\* chained into the root is stored under its index, until a later one of the
\* same index takes its place.  (Mined blocks all have index 1.)  Only
\* MemoryStorage forgets what the root covers, once it is closed.
StoreFollowsRoot == \A n \in Node :
    LET r == stateRoot[n]
    IN  (Backend = "memory" => phase[n] # "stopped") =>
          \A i \in 1..Len(r) :
             (\A j \in 1..Len(r) : j > i => r[j].index # r[i].index) =>
                /\ r[i].index \in DOMAIN store[n]
                /\ store[n][r[i].index] = r[i]

\* A transaction accepted by a running node is mined, unless the node is
\* stopped or dies.
AcceptedMined == \A n \in Node, t \in Tx :
    t \in Elements(accepted[n]) /\ phase[n] = "running"
        ~> t \in Elements(minedTxs[n]) \/ phase[n] # "running"

\* Stop returns and the event loop ends, whatever handlers are blocked on
\* full channels, unless the process dies first.
ShutdownCompletes == \A n \in Node :
    phase[n] = "cancelled" ~> \/ phase[n] = "stopped" /\ loop[n] = "done"
                              \/ phase[n] \in {"dead", "new"}

=============================================================================
