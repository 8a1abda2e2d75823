-------------------------- MODULE NodeRuntimeProofs --------------------------
(* TxConserved, StoreFollowsRoot, GossipOnce and NodeTypeOK of NodeRuntime, *)
(* for any nodes, clients, capacities and bounds, and for both storage back *)
(* ends.                                                                    *)
EXTENDS NodeRuntime, SequenceTheorems, FiniteSetTheorems, TLAPS

\* The variables that transactions go through.
txVars == <<accepted, minedTxs, pendingTxs, txChan, hand, loop>>

\* While the loop mines or publishes it takes nothing from txChan, so that the
\* block in its hand has exactly what is pending.
HandIsPending ==
    \A n \in Node : loop[n] \in {"mining", "publish"} =>
                      hand[n].txs = pendingTxs[n]

TxInv ==
    /\ accepted \in [Node -> Seq(Tx)] /\ minedTxs \in [Node -> Seq(Tx)]
    /\ pendingTxs \in [Node -> Seq(Tx)] /\ txChan \in [Node -> Seq(Tx)]
    /\ loop \in [Node -> {"off", "select", "mining", "publish", "done"}]
    /\ hand = [n \in Node |-> hand[n]]
    /\ HandIsPending
    /\ TxConserved

-----------------------------------------------------------------------------

\* Concatenations of four sequences.
LEMMA Regroup ==
    \A a, b, x, y \in Seq(Tx) : (a \o b) \o (x \o y) = (a \o (b \o x)) \o y
<1> TAKE a, b, x, y \in Seq(Tx)
<1>1. a \o b \in Seq(Tx)
  BY ConcatProperties
<1>2. ((a \o b) \o x) \o y = (a \o b) \o (x \o y)
  BY <1>1, ConcatAssociative, SMTT(40)
<1>3. (a \o b) \o x = a \o (b \o x)
  BY ConcatAssociative, SMTT(40)
<1> QED
  BY <1>2, <1>3

\* The first element of the last of three sequences moves to the second.
LEMMA MoveHead ==
    ASSUME NEW a \in Seq(Tx), NEW b \in Seq(Tx), NEW c \in Seq(Tx), c # <<>>
    PROVE  (a \o b) \o c = (a \o Append(b, Head(c))) \o Tail(c)
<1>1. Head(c) \in Tx /\ Tail(c) \in Seq(Tx) /\ Len(Tail(c)) = Len(c) - 1
      /\ Len(c) \in Nat \ {0}
  BY HeadTailProperties, EmptySeq, LenProperties
<1>2. PICK h \in Seq(Tx) : h = <<Head(c)>>
  <2>1. <<Head(c)>> \in Seq(Tx)
    BY <1>1
  <2> QED
    BY <2>1, Zenon
<1>3. PICK t \in Seq(Tx) : t = Tail(c)
  BY <1>1
<1>4. c = h \o t
  BY <1>1, <1>2, <1>3
<1>5. Append(b, Head(c)) = b \o h
  BY <1>1, <1>2, AppendIsConcat
<1>6. (a \o b) \o (h \o t) = (a \o (b \o h)) \o t
  <2>1. a \in Seq(Tx) /\ b \in Seq(Tx) /\ h \in Seq(Tx) /\ t \in Seq(Tx)
    BY <1>2, <1>3
  <2>2. \A x, y \in Seq(Tx) : (a \o b) \o (x \o y) = (a \o (b \o x)) \o y
    BY <2>1, Regroup, ZenonT(40)
  <2> QED
    BY <2>1, <2>2, Zenon
<1> QED
  BY <1>3, <1>4, <1>5, <1>6

\* An element appended to the last of three sequences is appended to all.
LEMMA AppendLast ==
    \A a, b, c \in Seq(Tx), x \in Tx :
      Append(a \o b \o c, x) = a \o b \o Append(c, x)
<1> TAKE a, b, c \in Seq(Tx), x \in Tx
<1>1. a \o b \in Seq(Tx) /\ a \o b \o c \in Seq(Tx) /\ <<x>> \in Seq(Tx)
  BY ConcatProperties
<1>2. (a \o b \o c) \o <<x>> = (a \o b) \o (c \o <<x>>)
  BY <1>1, ConcatAssociative
<1> QED
  BY <1>1, <1>2, AppendIsConcat

\* A step that does not touch txVars keeps TxInv.
LEMMA TxUntouched == TxInv /\ UNCHANGED txVars => TxInv'
  BY DEF TxInv, txVars, HandIsPending, TxConserved

\* A step of the loop of one node that leaves the transactions alone keeps
\* TxInv, unless it enters the hand's territory.
LEMMA LoopOnly ==
    ASSUME TxInv, NEW n \in Node,
           NEW l \in {"off", "select", "mining", "publish", "done"},
           loop' = [loop EXCEPT ![n] = l],
           l \in {"mining", "publish"} => loop[n] \in {"mining", "publish"},
           UNCHANGED <<accepted, minedTxs, pendingTxs, txChan, hand>>
    PROVE  TxInv'
  BY DEF TxInv, HandIsPending, TxConserved

\* handleTx: accepted and txChan grow by the same transaction.
LEMMA TxHandled ==
    ASSUME TxInv, NEW n \in Node, NEW t \in Tx, HandleTx(n, t)
    PROVE  TxInv'
<1> USE DEF TxInv, HandIsPending
<1>1. /\ accepted' = [accepted EXCEPT ![n] = Append(@, t)]
      /\ txChan' = [txChan EXCEPT ![n] = Append(@, t)]
      /\ UNCHANGED <<minedTxs, pendingTxs, hand, loop>>
  BY DEF HandleTx, loopVars
<1>2. accepted' \in [Node -> Seq(Tx)] /\ txChan' \in [Node -> Seq(Tx)]
  BY <1>1
<1>3. Append(accepted[n], t) = minedTxs[n] \o pendingTxs[n] \o Append(txChan[n], t)
  <2>1. /\ minedTxs[n] \in Seq(Tx) /\ pendingTxs[n] \in Seq(Tx)
        /\ txChan[n] \in Seq(Tx)
    OBVIOUS
  <2>2. accepted[n] = minedTxs[n] \o pendingTxs[n] \o txChan[n]
    BY DEF TxConserved
  <2>3. Append(minedTxs[n] \o pendingTxs[n] \o txChan[n], t)
          = minedTxs[n] \o pendingTxs[n] \o Append(txChan[n], t)
    <3> HIDE DEF TxInv, HandIsPending
    <3> QED
      BY <2>1, AppendLast, ZenonT(40)
  <2> QED
    BY <2>2, <2>3
<1>4. TxConserved'
  BY <1>1, <1>3 DEF TxConserved
<1> QED
  BY <1>1, <1>2, <1>4

\* The loop moves a transaction from txChan to the pending ones.
LEMMA TxTaken ==
    ASSUME TxInv, NEW n \in Node, TakeTx(n)
    PROVE  TxInv'
<1> USE DEF TxInv, HandIsPending
<1>1. /\ loop[n] = "select" /\ txChan[n] # <<>>
      /\ pendingTxs' = [pendingTxs EXCEPT ![n] = Append(@, Head(txChan[n]))]
      /\ txChan' = [txChan EXCEPT ![n] = Tail(@)]
      /\ UNCHANGED <<accepted, minedTxs, hand, loop>>
  BY DEF TakeTx, Selecting, history
<1>2. Head(txChan[n]) \in Tx /\ Tail(txChan[n]) \in Seq(Tx)
  BY <1>1, HeadTailProperties, EmptySeq
<1>3. pendingTxs' \in [Node -> Seq(Tx)] /\ txChan' \in [Node -> Seq(Tx)]
  BY <1>1, <1>2
<1>4. minedTxs[n] \o pendingTxs[n] \o txChan[n]
        = minedTxs[n] \o Append(pendingTxs[n], Head(txChan[n])) \o Tail(txChan[n])
  <2>1. /\ minedTxs[n] \in Seq(Tx) /\ pendingTxs[n] \in Seq(Tx)
        /\ txChan[n] \in Seq(Tx) /\ txChan[n] # <<>>
    BY <1>1
  <2> QED
    BY <2>1, MoveHead, Zenon
<1>5. TxConserved'
  BY <1>1, <1>4 DEF TxConserved
<1> QED
  BY <1>1, <1>3, <1>5

\* A tick puts everything pending in the hand.
LEMMA TxTicked ==
    ASSUME TxInv, NEW n \in Node, Tick(n)
    PROVE  TxInv'
<1> USE DEF TxInv, HandIsPending
<1>1. /\ loop' = [loop EXCEPT ![n] = "mining"]
      /\ hand'[n].txs = pendingTxs[n]
      /\ \A m \in Node \ {n} : hand'[m] = hand[m]
      /\ hand' = [m \in Node |-> hand'[m]]
      /\ UNCHANGED <<accepted, minedTxs, pendingTxs, txChan>>
  BY DEF Tick, history, p2pVars
<1> QED
  BY <1>1 DEF TxConserved

\* Failed mining empties the hand and nothing else.
LEMMA TxKept ==
    ASSUME TxInv, NEW n \in Node, MiningFails(n)
    PROVE  TxInv'
<1> USE DEF TxInv, HandIsPending
<1>1. /\ loop' = [loop EXCEPT ![n] = "select"]
      /\ \A m \in Node \ {n} : hand'[m] = hand[m]
      /\ hand' = [m \in Node |-> hand'[m]]
      /\ UNCHANGED <<accepted, minedTxs, pendingTxs, txChan>>
  BY DEF MiningFails, history, p2pVars
<1> QED
  BY <1>1 DEF TxConserved

\* Publishing turns what is pending, which is the block's, into mined.
LEMMA TxPublished ==
    ASSUME TxInv, NEW n \in Node, Publish(n)
    PROVE  TxInv'
<1> USE DEF TxInv, HandIsPending
<1>1. /\ loop[n] = "publish"
      /\ minedTxs' = [minedTxs EXCEPT ![n] = @ \o hand[n].txs]
      /\ pendingTxs' = [pendingTxs EXCEPT ![n] = <<>>]
      /\ loop' = [loop EXCEPT ![n] = "select"]
      /\ \A m \in Node \ {n} : hand'[m] = hand[m]
      /\ hand' = [m \in Node |-> hand'[m]]
      /\ UNCHANGED <<accepted, txChan>>
  BY DEF Publish
<1>2. hand[n].txs = pendingTxs[n]
  BY <1>1
<1>3. minedTxs[n] \o pendingTxs[n] \in Seq(Tx)
  BY ConcatProperties
<1>4. (minedTxs[n] \o pendingTxs[n]) \o <<>> = minedTxs[n] \o pendingTxs[n]
  BY <1>3, ConcatEmptySeq
<1>5. minedTxs' \in [Node -> Seq(Tx)] /\ pendingTxs' \in [Node -> Seq(Tx)]
  BY <1>1, <1>2, <1>3, EmptySeq
<1>6. TxConserved'
  BY <1>1, <1>2, <1>4 DEF TxConserved
<1> QED
  BY <1>1, <1>5, <1>6

\* A new process has accepted nothing.
LEMMA TxRestarted ==
    ASSUME TxInv, NEW n \in Node, Restart(n)
    PROVE  TxInv'
<1> USE DEF TxInv, HandIsPending
<1>1. /\ loop' = [loop EXCEPT ![n] = "off"]
      /\ accepted' = [accepted EXCEPT ![n] = <<>>]
      /\ minedTxs' = [minedTxs EXCEPT ![n] = <<>>]
      /\ pendingTxs' = [pendingTxs EXCEPT ![n] = <<>>]
      /\ txChan' = [txChan EXCEPT ![n] = <<>>]
      /\ \A m \in Node \ {n} : hand'[m] = hand[m]
      /\ hand' = [m \in Node |-> hand'[m]]
  BY DEF Restart
<1>2. /\ accepted' \in [Node -> Seq(Tx)] /\ minedTxs' \in [Node -> Seq(Tx)]
      /\ pendingTxs' \in [Node -> Seq(Tx)] /\ txChan' \in [Node -> Seq(Tx)]
  BY <1>1, EmptySeq
<1>3. <<>> \o <<>> \o <<>> = <<>>
  BY ConcatEmptySeq, EmptySeq
<1>4. TxConserved'
  BY <1>1, <1>3 DEF TxConserved
<1> QED
  BY <1>1, <1>2, <1>4

-----------------------------------------------------------------------------

\* Every step keeps TxInv.
LEMMA TxStep == TxInv /\ [Next]_vars => TxInv'
<1> SUFFICES ASSUME TxInv, [Next]_vars PROVE TxInv'
  OBVIOUS
<1> USE DEF txVars, p2pVars, chainVars, loopVars, history
<1>1. CASE UNCHANGED vars
  BY <1>1, TxUntouched DEF vars
<1>2. ASSUME NEW n \in Node,
             \/ StartFails(n) \/ \E body : Post(n, body)
             \/ \E b : HandleBlock(n, b) \/ HearOutsider(n, b)
             \/ \E m : ListenGossip(n, m)
             \/ ForwardGossip(n) \/ TakeBlock(n)
             \/ StopBegins(n) \/ StopP2P(n) \/ CloseStorage(n)
      PROVE  TxInv'
  <2>1. UNCHANGED txVars
    BY <1>2 DEF StartFails, Post, HandleBlock, HearOutsider, ListenGossip, ForwardGossip,
                TakeBlock, StopBegins, StopP2P, CloseStorage
  <2> QED
    BY <2>1, TxUntouched
<1>3. ASSUME NEW n \in Node, Start(n) PROVE TxInv'
  <2>1. /\ loop' = [loop EXCEPT ![n] = "select"]
        /\ UNCHANGED <<accepted, minedTxs, pendingTxs, txChan, hand>>
    BY <1>3 DEF Start
  <2> QED
    BY <2>1, LoopOnly
<1>4. ASSUME NEW n \in Node, LoopExit(n) PROVE TxInv'
  <2>1. /\ loop' = [loop EXCEPT ![n] = "done"]
        /\ UNCHANGED <<accepted, minedTxs, pendingTxs, txChan, hand>>
    BY <1>4 DEF LoopExit
  <2> QED
    BY <2>1, LoopOnly
<1>5. ASSUME NEW n \in Node, Mined(n) PROVE TxInv'
  <2>1. /\ loop[n] = "mining" /\ loop' = [loop EXCEPT ![n] = "publish"]
        /\ UNCHANGED <<accepted, minedTxs, pendingTxs, txChan, hand>>
    BY <1>5 DEF Mined, Mining
  <2> QED
    BY <2>1, LoopOnly
<1>6. CASE Next
  <2>1. PICK n \in Node :
          \/ StartFails(n) \/ Start(n)
          \/ \E t \in Tx : Post(n, [tx |-> t]) \/ HandleTx(n, t)
          \/ \E b \in published \cup OtherBlock :
                Post(n, [block |-> b]) \/ HandleBlock(n, b) \/ HearOutsider(n, b)
          \/ \E m \in inbox[n] : ListenGossip(n, m)
          \/ ForwardGossip(n)
          \/ TakeTx(n) \/ TakeBlock(n) \/ Tick(n)
          \/ Mined(n) \/ MiningFails(n) \/ Publish(n) \/ LoopExit(n)
          \/ StopBegins(n) \/ StopP2P(n) \/ CloseStorage(n)
          \/ Restart(n)
    BY <1>6, Zenon DEF Next
  <2> QED
    BY <2>1, <1>2, <1>3, <1>4, <1>5, TxHandled, TxTaken, TxTicked, TxKept,
       TxPublished, TxRestarted, Zenon
<1> QED
  BY <1>1, <1>6

\* Nothing has been accepted at first.
LEMMA TxInitial == Init => TxInv
<1>1. <<>> \o <<>> \o <<>> = <<>>
  BY ConcatEmptySeq, EmptySeq
<1> QED
  BY <1>1, EmptySeq DEF Init, TxInv, HandIsPending, TxConserved

\* No transaction answered with 202 is lost, doubled or overtaken while its
\* node is up, whatever fails and whenever the node is stopped.
THEOREM TransactionsConserved == Spec => []TxConserved
<1>1. Init => TxInv
  BY TxInitial
<1>2. TxInv => TxConserved
  BY DEF TxInv
<1> QED
  BY <1>1, <1>2, TxStep, PTL DEF Spec, Safety

-----------------------------------------------------------------------------
(* Root and storage.                                                       *)

\* Blocks of whatever boot and height, and those of clients and outsiders.
AnyHash  == [miner : Node, boot : Nat, seq : Nat]
AnyMined == [index : {1}, hash : AnyHash, txs : Seq(Tx)]
AnyBlock == AnyMined \cup OtherBlock

\* Only listener, channel, root and storage meet blocks that nobody mined.
BlocksTyped ==
    /\ faults \in Nat /\ height \in [Node -> Nat]
    /\ published \subseteq AnyMined
    /\ \A n \in Node : \A m \in inbox[n] : m.block \in AnyMined
    /\ heard \in [Node -> AnyBlock \cup {NoBlock}]
    /\ blockChan \in [Node -> Seq(AnyBlock)]
    /\ hand = [n \in Node |-> hand[n]]
    /\ \A n \in Node : loop[n] \in {"mining", "publish"} => hand[n] \in AnyMined

\* Storage s has the last block of every index in root r.
Latest(r, s) ==
    \A i \in 1..Len(r) :
        (\A j \in 1..Len(r) : j > i => r[j].index # r[i].index) =>
            r[i].index \in DOMAIN s /\ s[r[i].index] = r[i]

\* What a node has stored follows its root.
Follows(n) == Latest(stateRoot[n], store[n])

\* A closed pebble database keeps its data, and panics end only processes that
\* have one.
RootKept ==
    /\ phase = [n \in Node |-> phase[n]]
    /\ stateRoot \in [Node -> Seq(AnyBlock)]
    /\ store = [n \in Node |-> store[n]]
    /\ \A n \in Node :
         phase[n] # "stopped" \/ Backend = "pebble" => Follows(n)

RootInv == TxInv /\ BlocksTyped /\ RootKept

\* Storing a block and chaining it.
LEMMA PutOne ==
    ASSUME NEW S, NEW r \in Seq(S), NEW s, NEW b \in S, Latest(r, s)
    PROVE  Latest(Append(r, b), Stored(s, b))
<1>1. PICK n, u : u = Append(r, b) /\ n = Len(r) /\ n \in Nat
  BY LenProperties
<1>2. Len(u) = n + 1 /\ u[n + 1] = b /\ \A i \in 1..n : u[i] = r[i]
  BY <1>1, AppendProperties
<1>3. PICK t : t = Stored(s, b)
  OBVIOUS
<1>4. /\ b.index \in DOMAIN t /\ t[b.index] = b
      /\ \A x \in DOMAIN s : x # b.index => x \in DOMAIN t /\ t[x] = s[x]
  BY <1>3 DEF Stored
<1>5. ASSUME NEW i \in 1..(n + 1),
             \A j \in 1..(n + 1) : j > i => u[j].index # u[i].index
      PROVE  u[i].index \in DOMAIN t /\ t[u[i].index] = u[i]
  <2>1. CASE i = n + 1
    BY <1>2, <1>4, <2>1
  <2>2. CASE i \in 1..n
    <3>1. n + 1 \in 1..(n + 1) /\ n + 1 > i
      BY <1>1, <2>2
    <3>2. u[i] = r[i] /\ r[i].index # b.index
      BY <1>2, <1>5, <2>2, <3>1
    <3>3. \A j \in 1..n : j > i => r[j].index # r[i].index
      <4>1. \A j \in 1..n : j \in 1..(n + 1)
        BY <1>1
      <4> QED
        BY <1>2, <1>5, <3>2, <4>1
    <3>4. r[i].index \in DOMAIN s /\ s[r[i].index] = r[i]
      BY <1>1, <2>2, <3>3 DEF Latest
    <3> QED
      BY <1>4, <3>2, <3>4
  <2>3. i = n + 1 \/ i \in 1..n
    BY <1>1
  <2> QED
    BY <2>1, <2>2, <2>3
<1>6. Latest(u, t)
  BY <1>2, <1>5 DEF Latest
<1> QED
  BY <1>1, <1>3, <1>6

\* Whatever Apply does with a block, root and storage stay together.
LEMMA ApplyKeeps ==
    ASSUME RootKept, NEW n \in Node, NEW b \in AnyBlock, Apply(n, b)
    PROVE  RootKept'
<1> USE DEF RootKept
<1>1. CASE Panics(n)
  BY <1>1 DEF Panics, Closed, Follows
<1>2. CASE Rejected(n, b)
  BY <1>2 DEF Rejected, Follows
<1>3. CASE Applied(n, b)
  <2>1. /\ store' = [store EXCEPT ![n] = Stored(@, b)]
        /\ stateRoot' = [stateRoot EXCEPT ![n] = Append(@, b)]
        /\ UNCHANGED phase
    BY <1>3 DEF Applied, Put
  <2>2. stateRoot'[n] = Append(stateRoot[n], b) /\ store'[n] = Stored(store[n], b)
    BY <2>1
  <2>4. stateRoot[n] \in Seq(AnyBlock) /\ stateRoot'[n] \in Seq(AnyBlock)
    BY <2>2, AppendProperties
  <2>5. Follows(n) => Follows(n)'
    BY <2>2, <2>4, PutOne DEF Follows
  <2>6. \A m \in Node \ {n} : store'[m] = store[m] /\ stateRoot'[m] = stateRoot[m]
    BY <2>1
  <2>7. \A m \in Node \ {n} : Follows(m) => Follows(m)'
    BY <2>6 DEF Follows
  <2>8. stateRoot' \in [Node -> Seq(AnyBlock)] /\ store' = [m \in Node |-> store'[m]]
    BY <2>1, <2>4
  <2> QED
    BY <2>1, <2>5, <2>7, <2>8
<1> QED
  BY <1>1, <1>2, <1>3 DEF Apply

\* A step that leaves root and storage alone and does not leave the phase
\* "stopped" keeps them together.
LEMMA RootUntouched ==
    ASSUME RootKept, UNCHANGED chainVars,
           phase' = [n \in Node |-> phase'[n]],
           \A n \in Node : phase[n] = "stopped" => phase'[n] = "stopped"
    PROVE  RootKept'
  BY DEF RootKept, chainVars, Follows

\* Every step keeps BlocksTyped.
LEMMA BlocksStep == TxInv /\ BlocksTyped /\ [Next]_vars => BlocksTyped'
<1> SUFFICES ASSUME TxInv, BlocksTyped, [Next]_vars PROVE BlocksTyped'
  OBVIOUS
<1> USE DEF BlocksTyped, p2pVars, chainVars, loopVars, history
<1>0. loop \in [Node -> {"off", "select", "mining", "publish", "done"}]
      /\ pendingTxs \in [Node -> Seq(Tx)]
  BY DEF TxInv
<1>1. CASE UNCHANGED vars
  BY <1>1 DEF vars
<1>2. ASSUME NEW n \in Node,
             \/ StartFails(n) \/ Start(n) \/ \E body : Post(n, body)
             \/ \E t : HandleTx(n, t)
             \/ TakeTx(n) \/ Mined(n) \/ LoopExit(n)
             \/ StopBegins(n) \/ StopP2P(n) \/ CloseStorage(n)
      PROVE  BlocksTyped'
  <2>1. faults' \in Nat
    <3>1. faults' = faults \/ Fault
      BY <1>2 DEF StartFails, Start, Post, HandleTx, TakeTx, Mined, LoopExit,
                  StopBegins, StopP2P, CloseStorage, Apply, Panics, Applied,
                  Rejected
    <3> QED
      BY <3>1 DEF Fault
  <2>2. UNCHANGED <<height, published, inbox, heard, blockChan, hand>>
    BY <1>2 DEF StartFails, Start, Post, HandleTx, TakeTx, Mined, LoopExit,
                StopBegins, StopP2P, CloseStorage
  <2>3. \A m \in Node : loop'[m] \in {"mining", "publish"}
                         => loop[m] \in {"mining", "publish"}
    BY <1>0, <1>2 DEF StartFails, Start, Post, HandleTx, TakeTx, Mined, Mining,
                LoopExit, StopBegins, StopP2P, CloseStorage
  <2> QED
    BY <2>1, <2>2, <2>3
<1>3. ASSUME NEW n \in Node, NEW b \in published \cup OtherBlock, HandleBlock(n, b)
      PROVE  BlocksTyped'
  <2>0. b \in AnyBlock
    BY DEF AnyBlock
  <2>1. blockChan' \in [Node -> Seq(AnyBlock)]
    BY <1>3, <2>0, AppendProperties DEF HandleBlock
  <2> QED
    BY <1>3, <2>1 DEF HandleBlock
<1>4. ASSUME NEW n \in Node, NEW m \in inbox[n], ListenGossip(n, m)
      PROVE  BlocksTyped'
  <2>0. m.block \in AnyBlock
    BY DEF AnyBlock
  <2>1. heard' \in [Node -> AnyBlock \cup {NoBlock}]
    BY <1>4, <2>0 DEF ListenGossip
  <2>2. \A k \in Node : \A x \in inbox'[k] : x.block \in AnyMined
    <3>1. \A k \in Node : inbox'[k] \subseteq inbox[k] \/ inbox' = inbox
      BY <1>4 DEF ListenGossip
    <3> QED
      BY <3>1
  <2> QED
    BY <1>4, <2>1, <2>2 DEF ListenGossip
<1>5. ASSUME NEW n \in Node, ForwardGossip(n) PROVE BlocksTyped'
  <2>1. heard[n] \in AnyBlock
    BY <1>5 DEF ForwardGossip
  <2>2. blockChan' \in [Node -> Seq(AnyBlock)]
    BY <1>5, <2>1, AppendProperties DEF ForwardGossip
  <2>3. heard' \in [Node -> AnyBlock \cup {NoBlock}]
    BY <1>5 DEF ForwardGossip
  <2> QED
    BY <1>5, <2>2, <2>3 DEF ForwardGossip
<1>6. ASSUME NEW n \in Node, TakeBlock(n) PROVE BlocksTyped'
  <2>1. blockChan' \in [Node -> Seq(AnyBlock)]
    BY <1>6, HeadTailProperties DEF TakeBlock
  <2>2. faults' \in Nat
    BY <1>6 DEF TakeBlock, Apply, Panics, Applied, Rejected, Fault
  <2> QED
    BY <1>6, <2>1, <2>2 DEF TakeBlock
<1>7. ASSUME NEW n \in Node, Tick(n) PROVE BlocksTyped'
  <2>1. hand'[n] \in AnyMined
    <3>1. [miner |-> n, boot |-> faults, seq |-> height[n] + 1] \in AnyHash
      BY DEF AnyHash
    <3> QED
      BY <1>7, <1>0, <3>1 DEF Tick, AnyMined
  <2>2. /\ hand' = [k \in Node |-> hand'[k]]
        /\ \A k \in Node \ {n} : hand'[k] = hand[k] /\ loop'[k] = loop[k]
        /\ UNCHANGED <<faults, height, published, inbox, heard, blockChan>>
    BY <1>7, <1>0 DEF Tick
  <2> QED
    BY <2>1, <2>2
<1>8. ASSUME NEW n \in Node, MiningFails(n) PROVE BlocksTyped'
  BY <1>8, <1>0 DEF MiningFails
<1>9. ASSUME NEW n \in Node, Publish(n) PROVE BlocksTyped'
  <2>1. hand[n] \in AnyMined
    BY <1>9 DEF Publish
  <2>2. published' \subseteq AnyMined
    BY <1>9, <2>1 DEF Publish
  <2>3. \A k \in Node : \A x \in inbox'[k] : x.block \in AnyMined
    BY <1>9, <2>1 DEF Publish
  <2>4. /\ height' = [height EXCEPT ![n] = @ + 1]
        /\ hand' = [hand EXCEPT ![n] = NoBlock]
        /\ loop' = [loop EXCEPT ![n] = "select"]
        /\ UNCHANGED <<faults, heard, blockChan>>
    BY <1>9 DEF Publish
  <2>5. /\ hand' = [k \in Node |-> hand'[k]]
        /\ \A k \in Node \ {n} : hand'[k] = hand[k] /\ loop'[k] = loop[k]
        /\ loop'[n] = "select"
    BY <1>0, <2>4
  <2>6. height' \in [Node -> Nat]
    BY <2>4
  <2> QED
    BY <2>2, <2>3, <2>4, <2>5, <2>6
<1>10. ASSUME NEW n \in Node, Restart(n) PROVE BlocksTyped'
  <2>1. /\ faults' \in Nat /\ published' = published
        /\ height' = [height EXCEPT ![n] = 0]
        /\ heard' = [heard EXCEPT ![n] = NoBlock]
        /\ blockChan' = [blockChan EXCEPT ![n] = <<>>]
        /\ hand' = [hand EXCEPT ![n] = NoBlock]
        /\ loop' = [loop EXCEPT ![n] = "off"]
        /\ inbox' = [inbox EXCEPT ![n] = {}]
    BY <1>10 DEF Restart, Fault
  <2>2. \A k \in Node : \A x \in inbox'[k] : x.block \in AnyMined
    BY <2>1
  <2>3. /\ height' \in [Node -> Nat]
        /\ heard' \in [Node -> AnyBlock \cup {NoBlock}]
        /\ blockChan' \in [Node -> Seq(AnyBlock)]
    BY <2>1, EmptySeq
  <2>4. /\ hand' = [k \in Node |-> hand'[k]]
        /\ \A k \in Node \ {n} : hand'[k] = hand[k] /\ loop'[k] = loop[k]
        /\ loop'[n] = "off"
    BY <1>0, <2>1
  <2> QED
    BY <2>1, <2>2, <2>3, <2>4
<1>10a. ASSUME NEW n \in Node, NEW b \in published \cup OtherBlock, HearOutsider(n, b)
      PROVE  BlocksTyped'
  <2>0. b \in AnyBlock
    BY DEF AnyBlock
  <2>1. heard' \in [Node -> AnyBlock \cup {NoBlock}]
    BY <1>10a, <2>0 DEF HearOutsider
  <2> QED
    BY <1>10a, <2>1 DEF HearOutsider
<1>11. CASE Next
  <2>1. PICK n \in Node :
          \/ StartFails(n) \/ Start(n)
          \/ \E t \in Tx : Post(n, [tx |-> t]) \/ HandleTx(n, t)
          \/ \E b \in published \cup OtherBlock :
                Post(n, [block |-> b]) \/ HandleBlock(n, b) \/ HearOutsider(n, b)
          \/ \E m \in inbox[n] : ListenGossip(n, m)
          \/ ForwardGossip(n)
          \/ TakeTx(n) \/ TakeBlock(n) \/ Tick(n)
          \/ Mined(n) \/ MiningFails(n) \/ Publish(n) \/ LoopExit(n)
          \/ StopBegins(n) \/ StopP2P(n) \/ CloseStorage(n)
          \/ Restart(n)
    BY <1>11, Zenon DEF Next
  <2> HIDE DEF BlocksTyped
  <2> QED
    BY <2>1, <1>10a, <1>2, <1>3, <1>4, <1>5, <1>6, <1>7, <1>8, <1>9, <1>10, Zenon
<1> QED
  BY <1>1, <1>11

\* Closing the storage empties it only where nothing is promised afterwards.
LEMMA CloseKeeps ==
    ASSUME RootKept, NEW n \in Node, CloseStorage(n)
    PROVE  RootKept'
<1> USE DEF RootKept
<1>1. /\ phase' = [phase EXCEPT ![n] = "stopped"]
      /\ store' = [store EXCEPT ![n] = AfterClose(n)]
      /\ UNCHANGED stateRoot
  BY DEF CloseStorage
<1>2. /\ AfterClose(n) = <<>> \/ AfterClose(n) = store[n]
      /\ Backend = "pebble" => AfterClose(n) = store[n]
  BY DEF AfterClose
<1>5. \A m \in Node : store'[m] = store[m] /\ Follows(m) => Follows(m)'
  BY <1>1 DEF Follows
<1>6. \A m \in Node : phase'[m] # "stopped" \/ Backend = "pebble" =>
                       store'[m] = store[m]
                       /\ (phase[m] # "stopped" \/ Backend = "pebble")
  BY <1>1, <1>2
<1>7. phase' = [m \in Node |-> phase'[m]] /\ store' = [m \in Node |-> store'[m]]
  BY <1>1
<1> QED
  BY <1>1, <1>5, <1>6, <1>7

\* A new process starts with an empty root.
LEMMA RestartKeeps ==
    ASSUME RootKept, NEW n \in Node, Restart(n)
    PROVE  RootKept'
<1> USE DEF RootKept
<1>1. /\ phase' = [phase EXCEPT ![n] = "new"]
      /\ store' = [store EXCEPT ![n] = AfterClose(n)]
      /\ stateRoot' = [stateRoot EXCEPT ![n] = <<>>]
  BY DEF Restart
<1>2. \A t : Latest(<<>>, t)
  BY DEF Latest
<1>4. \A m \in Node \ {n} : /\ phase'[m] = phase[m] /\ store'[m] = store[m]
                            /\ stateRoot'[m] = stateRoot[m]
  BY <1>1
<1>5. \A m \in Node \ {n} : Follows(m) => Follows(m)'
  BY <1>4 DEF Follows
<1>6. /\ phase' = [m \in Node |-> phase'[m]]
      /\ store' = [m \in Node |-> store'[m]]
      /\ stateRoot' \in [Node -> Seq(AnyBlock)] /\ stateRoot'[n] = <<>>
  BY <1>1, EmptySeq
<1>7. Follows(n)'
  BY <1>2, <1>6 DEF Follows
<1> QED
  BY <1>4, <1>5, <1>6, <1>7

\* Every step keeps RootInv.
LEMMA RootStep == RootInv /\ [Next]_vars => RootInv'
<1> SUFFICES ASSUME RootInv, [Next]_vars PROVE RootInv'
  OBVIOUS
<1>0. TxInv /\ BlocksTyped /\ RootKept
  BY DEF RootInv
<1> USE DEF p2pVars, chainVars, loopVars, history
<1>1. ASSUME UNCHANGED vars PROVE RootKept'
  BY <1>0, <1>1, RootUntouched DEF vars, RootKept
<1>2. ASSUME NEW n \in Node,
             \/ StartFails(n) \/ Start(n) \/ \E body : Post(n, body)
             \/ \E t : HandleTx(n, t)
             \/ \E b : HandleBlock(n, b) \/ HearOutsider(n, b)
             \/ \E m : ListenGossip(n, m)
             \/ ForwardGossip(n)
             \/ TakeTx(n) \/ Tick(n) \/ MiningFails(n) \/ Publish(n)
             \/ LoopExit(n) \/ StopBegins(n) \/ StopP2P(n)
      PROVE  RootKept'
  <2>1. UNCHANGED chainVars
    BY <1>2 DEF StartFails, Start, Post, HandleTx, HandleBlock, HearOutsider,
                ListenGossip, ForwardGossip, TakeTx, Tick, MiningFails, Publish,
                LoopExit, StopBegins, StopP2P
  <2>2. \/ UNCHANGED phase
        \/ \E p : phase[n] # "stopped" /\ phase' = [phase EXCEPT ![n] = p]
    BY <1>2 DEF StartFails, Start, Post, HandleTx, HandleBlock, HearOutsider,
                ListenGossip, ForwardGossip, TakeTx, Tick, MiningFails, Publish,
                LoopExit, StopBegins, StopP2P
  <2>3. /\ phase' = [m \in Node |-> phase'[m]]
        /\ \A m \in Node : phase[m] = "stopped" => phase'[m] = "stopped"
    BY <1>0, <2>2 DEF RootKept
  <2> QED
    BY <1>0, <2>1, <2>3, RootUntouched
<1>3. ASSUME NEW n \in Node, TakeBlock(n) PROVE RootKept'
  <2>1. Head(blockChan[n]) \in AnyBlock
    BY <1>0, <1>3, HeadTailProperties, EmptySeq DEF TakeBlock, BlocksTyped
  <2> QED
    BY <1>0, <1>3, <2>1, ApplyKeeps DEF TakeBlock
<1>4. ASSUME NEW n \in Node, Mined(n) PROVE RootKept'
  <2>1. hand[n] \in AnyBlock /\ Apply(n, hand[n])
    BY <1>0, <1>4 DEF Mined, Mining, BlocksTyped, AnyBlock
  <2> QED
    BY <1>0, <2>1, ApplyKeeps
<1>5. ASSUME Next PROVE RootKept'
  <2>1. PICK n \in Node :
          \/ StartFails(n) \/ Start(n)
          \/ \E t \in Tx : Post(n, [tx |-> t]) \/ HandleTx(n, t)
          \/ \E b \in published \cup OtherBlock :
                Post(n, [block |-> b]) \/ HandleBlock(n, b) \/ HearOutsider(n, b)
          \/ \E m \in inbox[n] : ListenGossip(n, m)
          \/ ForwardGossip(n)
          \/ TakeTx(n) \/ TakeBlock(n) \/ Tick(n)
          \/ Mined(n) \/ MiningFails(n) \/ Publish(n) \/ LoopExit(n)
          \/ StopBegins(n) \/ StopP2P(n) \/ CloseStorage(n)
          \/ Restart(n)
    BY <1>5, Zenon DEF Next
  <2> QED
    BY <2>1, <1>0, <1>2, <1>3, <1>4, CloseKeeps, RestartKeeps, Zenon
<1>6. RootKept'
  BY <1>1, <1>5
<1> QED
  BY <1>0, <1>6, TxStep, BlocksStep DEF RootInv

\* A node has stored the last block of every index its root covers, whatever
\* blocks it mined, heard of or was sent and whichever writes failed; closing
\* the storage changes that for MemoryStorage only.
THEOREM StorageFollowsRoot == Spec => []StoreFollowsRoot
<1>1. Init => RootInv
  <2>1. Init => TxInv
    BY TxInitial
  <2>2. Init => BlocksTyped
    BY EmptySeq DEF Init, BlocksTyped
  <2>3. Init => RootKept
    BY EmptySeq DEF Init, RootKept, Follows, Latest
  <2> QED
    BY <2>1, <2>2, <2>3 DEF RootInv
<1>2. RootInv => StoreFollowsRoot
  BY BackendAssumption DEF RootInv, RootKept, Follows, Latest, StoreFollowsRoot
<1> QED
  BY <1>1, <1>2, RootStep, PTL DEF Spec, Safety

-----------------------------------------------------------------------------
(* Gossip.  A block that nobody sent a node but the others is in one place *)
(* of it at most: on its way, with the listener, in blockChan, or chained. *)

\* Some published block has hash h; one that clients or outsiders sent n has;
\* either of the two.
Known(h) == \E b \in published : b.hash = h
Excused(n, h) ==
    \E body \in posted[n] : "block" \in DOMAIN body /\ body.block.hash = h
Met(n, h) == Known(h) \/ Excused(n, h)

\* A block that was sent.
LEMMA SentExcuses ==
    ASSUME NEW n, NEW b, [block |-> b] \in posted[n]
    PROVE  Excused(n, b.hash)
<1>1. "block" \in DOMAIN [block |-> b] /\ [block |-> b].block = b
  OBVIOUS
<1> QED
  BY <1>1, Zenon DEF Excused

\* The messages of the others on their way to n.
ForeignBox(n) == {m \in inbox[n] : Foreign(n, m)}

\* Hash h occurs at most once in root r, channel c, listener l and messages x.
InSeq(c, h)  == \E i \in 1..Len(c) : c[i].hash = h
HeardOf(l, h) == l # NoBlock /\ l.hash = h
InBox(x, h)  == \E m \in x : m.block.hash = h

Absent(r, c, l, x, h) ==
    ~InSeq(r, h) /\ ~InSeq(c, h) /\ ~HeardOf(l, h) /\ ~InBox(x, h)

AtMostOnce(r, c, l, x, h) ==
    /\ \A i, j \in 1..Len(r) : r[i].hash = h /\ r[j].hash = h => i = j
    /\ \A i, j \in 1..Len(c) : c[i].hash = h /\ c[j].hash = h => i = j
    /\ \A m, o \in x : m.block.hash = h /\ o.block.hash = h => m = o
    /\ InSeq(r, h) => ~InSeq(c, h) /\ ~HeardOf(l, h) /\ ~InBox(x, h)
    /\ InSeq(c, h) => ~HeardOf(l, h) /\ ~InBox(x, h)
    /\ HeardOf(l, h) => ~InBox(x, h)

\* What an appended sequence holds.
LEMMA InAppended ==
    ASSUME NEW S, NEW c \in Seq(S), NEW b \in S, NEW h
    PROVE  InSeq(Append(c, b), h) <=> InSeq(c, h) \/ b.hash = h
<1>1. PICK n, u : u = Append(c, b) /\ n = Len(c) /\ n \in Nat
  BY LenProperties
<1>2. Len(u) = n + 1 /\ u[n + 1] = b /\ \A i \in 1..n : u[i] = c[i]
  BY <1>1, AppendProperties
<1>3. \A i : i \in 1..(n + 1) <=> (i \in 1..n \/ i = n + 1)
  BY <1>1
<1> QED
  BY <1>1, <1>2, <1>3 DEF InSeq

\* The listener takes a message.
LEMMA OnceHeard ==
    ASSUME NEW r, NEW c, NEW x, NEW h, NEW m \in x, AtMostOnce(r, c, NoBlock, x, h)
    PROVE  AtMostOnce(r, c, m.block, x \ {m}, h)
<1>1. HeardOf(m.block, h) => InBox(x, h)
  BY DEF HeardOf, InBox
<1>2. InBox(x \ {m}, h) => InBox(x, h)
  BY DEF InBox
<1>3. HeardOf(m.block, h) => ~InBox(x \ {m}, h)
  BY DEF HeardOf, InBox, AtMostOnce
<1> QED
  BY <1>1, <1>2, <1>3 DEF AtMostOnce

\* A channel that gets a block whose hash occurs nowhere, or is another.
LEMMA OnceQueued ==
    ASSUME NEW r, NEW S, NEW c \in Seq(S), NEW b \in S, NEW l, NEW x, NEW h,
           AtMostOnce(r, c, l, x, h), b.hash = h => Absent(r, c, l, x, h)
    PROVE  AtMostOnce(r, Append(c, b), l, x, h)
<1>1. PICK n, u : u = Append(c, b) /\ n = Len(c) /\ n \in Nat
  BY LenProperties
<1>2. Len(u) = n + 1 /\ u[n + 1] = b /\ \A i \in 1..n : u[i] = c[i]
  BY <1>1, AppendProperties
<1>3. \A i : i \in 1..(n + 1) <=> (i \in 1..n \/ i = n + 1)
  BY <1>1
<1>4. InSeq(u, h) <=> InSeq(c, h) \/ b.hash = h
  BY <1>1, InAppended
<1>5. ASSUME NEW i \in 1..(n + 1), NEW j \in 1..(n + 1), u[i].hash = h, u[j].hash = h
      PROVE  i = j
  <2>1. \A k, o \in 1..n : u[k].hash = h /\ u[o].hash = h => k = o
    BY <1>1, <1>2 DEF AtMostOnce
  <2>2. b.hash = h => \A k \in 1..n : u[k].hash # h
    BY <1>1, <1>2 DEF Absent, InSeq
  <2> QED
    BY <1>2, <1>3, <1>5, <2>1, <2>2
<1>6. AtMostOnce(r, u, l, x, h)
  BY <1>2, <1>4, <1>5 DEF AtMostOnce, Absent
<1> QED
  BY <1>1, <1>6

\* A root that gets a block whose hash occurs nowhere, or is another.
LEMMA OnceChained ==
    ASSUME NEW S, NEW r \in Seq(S), NEW g \in S, NEW c, NEW l, NEW x, NEW h,
           AtMostOnce(r, c, l, x, h), g.hash = h => Absent(r, c, l, x, h)
    PROVE  AtMostOnce(Append(r, g), c, l, x, h)
<1>1. PICK n, u : u = Append(r, g) /\ n = Len(r) /\ n \in Nat
  BY LenProperties
<1>2. Len(u) = n + 1 /\ u[n + 1] = g /\ \A i \in 1..n : u[i] = r[i]
  BY <1>1, AppendProperties
<1>3. \A i : i \in 1..(n + 1) <=> (i \in 1..n \/ i = n + 1)
  BY <1>1
<1>4. InSeq(u, h) <=> InSeq(r, h) \/ g.hash = h
  BY <1>1, InAppended
<1>5. ASSUME NEW i \in 1..(n + 1), NEW j \in 1..(n + 1), u[i].hash = h, u[j].hash = h
      PROVE  i = j
  <2>1. \A k, o \in 1..n : u[k].hash = h /\ u[o].hash = h => k = o
    BY <1>1, <1>2 DEF AtMostOnce
  <2>2. g.hash = h => \A k \in 1..n : u[k].hash # h
    BY <1>1, <1>2 DEF Absent, InSeq
  <2> QED
    BY <1>2, <1>3, <1>5, <2>1, <2>2
<1>6. AtMostOnce(u, c, l, x, h)
  BY <1>2, <1>4, <1>5 DEF AtMostOnce, Absent
<1> QED
  BY <1>1, <1>6

\* The listener forwards what it holds.
LEMMA OnceForwarded ==
    ASSUME NEW r, NEW S, NEW c \in Seq(S), NEW l \in S, l # NoBlock, NEW x, NEW h,
           AtMostOnce(r, c, l, x, h)
    PROVE  AtMostOnce(r, Append(c, l), NoBlock, x, h)
<1>1. AtMostOnce(r, c, NoBlock, x, h)
  BY DEF AtMostOnce, HeardOf
<1>2. l.hash = h => Absent(r, c, NoBlock, x, h)
  BY DEF AtMostOnce, HeardOf, Absent
<1> QED
  BY <1>1, <1>2, OnceQueued

\* The loop takes the first block of the channel, and chains it or not.
LEMMA OnceTaken ==
    ASSUME NEW S, NEW r \in Seq(S), NEW T, NEW c \in Seq(T), c # <<>>,
           NEW l, NEW x, NEW h, Head(c) \in S, AtMostOnce(r, c, l, x, h)
    PROVE  /\ AtMostOnce(r, Tail(c), l, x, h)
           /\ AtMostOnce(Append(r, Head(c)), Tail(c), l, x, h)
<1>0. Len(c) \in Nat /\ Len(c) # 0
  BY LenProperties, EmptySeq
<1>00. \A k \in Nat : k # 0 => k >= 1
  OBVIOUS
<1>1. PICK n, u : u = Tail(c) /\ n = Len(c) /\ n \in Nat /\ n >= 1
  BY <1>0, <1>00, Zenon
<1>2. Len(u) = n - 1 /\ \A i \in 1..(n - 1) : u[i] = c[i + 1]
  BY <1>1, HeadTailProperties
<1>3. Head(c) = c[1] /\ 1 \in 1..n
  BY <1>1
<1>4. \A i \in 1..(n - 1) : i + 1 \in 1..n /\ i + 1 # 1
  BY <1>1
<1>5. InSeq(u, h) => InSeq(c, h)
  BY <1>1, <1>2, <1>4 DEF InSeq
<1>6. ASSUME NEW i \in 1..Len(u), NEW j \in 1..Len(u), u[i].hash = h, u[j].hash = h
      PROVE  i = j
  <2>1. i + 1 \in 1..n /\ j + 1 \in 1..n /\ c[i + 1].hash = h /\ c[j + 1].hash = h
        /\ i \in Int /\ j \in Int
    BY <1>1, <1>2, <1>4, <1>6
  <2>2. i + 1 = j + 1
    BY <1>1, <2>1 DEF AtMostOnce
  <2> QED
    BY <2>1, <2>2
<1>7. AtMostOnce(r, u, l, x, h)
  BY <1>5, <1>6 DEF AtMostOnce
<1>8. Head(c).hash = h => Absent(r, u, l, x, h)
  <2> SUFFICES ASSUME Head(c).hash = h PROVE Absent(r, u, l, x, h)
    OBVIOUS
  <2>1. InSeq(c, h)
    BY <1>1, <1>3 DEF InSeq
  <2>2. ~InSeq(u, h)
    <3> SUFFICES ASSUME NEW i \in 1..(n - 1), u[i].hash = h PROVE FALSE
      BY <1>2 DEF InSeq
    <3>1. i + 1 = 1
      BY <1>1, <1>2, <1>3, <1>4 DEF AtMostOnce
    <3> QED
      BY <1>4, <3>1
  <2> QED
    BY <2>1, <2>2 DEF AtMostOnce, Absent
<1>9. AtMostOnce(Append(r, Head(c)), u, l, x, h)
  BY <1>7, <1>8, OnceChained
<1> QED
  BY <1>1, <1>7, <1>9

\* A message whose hash occurs nowhere, or is another, sets out.
LEMMA OncePublished ==
    ASSUME NEW r, NEW c, NEW l, NEW x, NEW m, NEW h, AtMostOnce(r, c, l, x, h),
           m.block.hash = h => Absent(r, c, l, x, h)
    PROVE  AtMostOnce(r, c, l, x \cup {m}, h)
<1>1. InBox(x \cup {m}, h) <=> InBox(x, h) \/ m.block.hash = h
  BY DEF InBox
<1>2. ASSUME NEW o \in x \cup {m}, NEW p \in x \cup {m},
             o.block.hash = h, p.block.hash = h
      PROVE  o = p
  <2>1. m.block.hash = h => \A k \in x : k.block.hash # h
    BY DEF Absent, InBox
  <2> QED
    BY <1>2, <2>1 DEF AtMostOnce
<1> QED
  BY <1>1, <1>2 DEF AtMostOnce, Absent

\* Every hash a node has met was published or sent to it, but for the block it
\* is about to publish itself; bodies in the handlers were posted.
MetKnown ==
    /\ waiting = [n \in Node |-> waiting[n]] /\ posted = [n \in Node |-> posted[n]]
    /\ inbox = [n \in Node |-> inbox[n]]
    /\ \A n \in Node : waiting[n] \subseteq posted[n]
    /\ \A n \in Node : phase[n] = "new" => loop[n] = "off"
    /\ \A n \in Node : \A h : InSeq(stateRoot[n], h) =>
                          Met(n, h) \/ (loop[n] = "publish" /\ h = hand[n].hash)
    /\ \A n \in Node : \A h : InSeq(blockChan[n], h) => Met(n, h)
    /\ \A n \in Node : \A h : HeardOf(heard[n], h) => Met(n, h)
    /\ \A n \in Node : \A m \in inbox[n] : Known(m.block.hash)

\* No two blocks get the same hash: s[n] is the count of faults at n's last
\* boot, and within a boot the height tells blocks apart.
Stamped(s) ==
    /\ \A b \in published : b.hash.boot <= faults
    /\ \A n \in Node :
         /\ s[n] \in Nat /\ s[n] <= faults
         /\ \A b \in published :
               b.hash.miner = n => b.hash.boot < s[n] \/ b.hash.seq <= height[n]
         /\ loop[n] \in {"mining", "publish"} =>
               /\ hand[n].hash.miner = n /\ hand[n].hash.boot >= s[n]
               /\ hand[n].hash.boot <= faults /\ hand[n].hash.seq = height[n] + 1

\* A block that only nodes sent to a node is in one place of it at most.
Counted ==
    \A n \in Node : \A h : ~Excused(n, h) =>
        AtMostOnce(stateRoot[n], blockChan[n], heard[n], ForeignBox(n), h)

GossipInv == RootInv /\ MetKnown /\ (\E s : Stamped(s)) /\ Counted

\* The block in hand is not known to anybody.
LEMMA HandUnknown ==
    ASSUME BlocksTyped, \E s : Stamped(s), NEW n \in Node,
           loop[n] \in {"mining", "publish"}
    PROVE  ~Known(hand[n].hash)
<1>1. PICK s : Stamped(s)
  OBVIOUS
<1> SUFFICES ASSUME NEW b \in published, b.hash = hand[n].hash PROVE FALSE
  BY DEF Known
<1>2. b.hash.boot \in Nat /\ b.hash.seq \in Nat /\ height[n] \in Nat
  BY DEF BlocksTyped, AnyMined, AnyHash
<1>3. /\ b.hash.miner = n /\ b.hash.boot >= s[n] /\ b.hash.seq = height[n] + 1
      /\ s[n] \in Nat
  BY <1>1 DEF Stamped
<1>4. b.hash.boot < s[n] \/ b.hash.seq <= height[n]
  BY <1>1, <1>3 DEF Stamped
<1> QED
  BY <1>2, <1>3, <1>4

\* What was published or posted stays so.
LEMMA KnownGrows ==
    ASSUME MetKnown, [Next]_vars
    PROVE  /\ \A h : Known(h) => Known(h)'
           /\ \A n \in Node : \A h : Excused(n, h) => Excused(n, h)'
           /\ \A n \in Node : \A h : Met(n, h) => Met(n, h)'
<1> USE DEF p2pVars, chainVars, loopVars, history
<1>1. published \subseteq published' /\ \A n \in Node : posted[n] \subseteq posted'[n]
  <2>1. CASE UNCHANGED vars
    BY <2>1 DEF vars
  <2>2. ASSUME NEW n \in Node,
               \/ StartFails(n) \/ Start(n) \/ \E t : HandleTx(n, t)
               \/ \E b : HandleBlock(n, b)
               \/ \E m : ListenGossip(n, m)
               \/ ForwardGossip(n) \/ TakeTx(n) \/ TakeBlock(n) \/ Tick(n)
               \/ Mined(n) \/ MiningFails(n) \/ LoopExit(n)
               \/ StopBegins(n) \/ StopP2P(n) \/ CloseStorage(n) \/ Restart(n)
        PROVE  published' = published /\ posted' = posted
    BY <2>2 DEF StartFails, Start, HandleTx, HandleBlock, ListenGossip, ForwardGossip,
                TakeTx, TakeBlock, Tick, Mined, MiningFails, LoopExit,
                StopBegins, StopP2P, CloseStorage, Restart
  <2>3. ASSUME NEW n \in Node, NEW body,
               Post(n, body) \/ \E b : body = [block |-> b] /\ HearOutsider(n, b)
        PROVE  published' = published /\ \A m \in Node : posted[m] \subseteq posted'[m]
    BY <2>3, ZenonT(40) DEF Post, HearOutsider, Sent, MetKnown
  <2>4. ASSUME NEW n \in Node, Publish(n)
        PROVE  published \subseteq published' /\ posted' = posted
    BY <2>4 DEF Publish
  <2>5. CASE Next
    <3>1. PICK n \in Node :
          \/ StartFails(n) \/ Start(n)
          \/ \E t \in Tx : Post(n, [tx |-> t]) \/ HandleTx(n, t)
          \/ \E b \in published \cup OtherBlock :
                Post(n, [block |-> b]) \/ HandleBlock(n, b) \/ HearOutsider(n, b)
          \/ \E m \in inbox[n] : ListenGossip(n, m)
          \/ ForwardGossip(n)
          \/ TakeTx(n) \/ TakeBlock(n) \/ Tick(n)
          \/ Mined(n) \/ MiningFails(n) \/ Publish(n) \/ LoopExit(n)
          \/ StopBegins(n) \/ StopP2P(n) \/ CloseStorage(n)
          \/ Restart(n)
      BY <2>5, Zenon DEF Next
    <3> QED
      BY <3>1, <2>2, <2>3, <2>4
  <2> QED
    BY <2>1, <2>5
<1> QED
  BY <1>1 DEF Known, Excused, Met

\* Steps that neither mine nor publish nor end a process.
LEMMA StampKept ==
    ASSUME BlocksTyped, NEW s, Stamped(s), faults' \in Nat, faults' >= faults,
           UNCHANGED <<height, published>>,
           \A k \in Node : loop'[k] \in {"mining", "publish"} =>
              loop[k] \in {"mining", "publish"} /\ hand'[k] = hand[k]
    PROVE  Stamped(s)'
<1>0. faults \in Nat
  BY DEF BlocksTyped
<1>1. \A b \in published : b.hash.boot <= faults'
  <2>1. \A b \in published : b.hash.boot \in Nat /\ b.hash.boot <= faults
    BY DEF Stamped, BlocksTyped, AnyMined, AnyHash
  <2> QED
    BY <1>0, <2>1
<1>2. ASSUME NEW k \in Node, loop[k] \in {"mining", "publish"}
      PROVE  hand[k].hash.boot <= faults'
  <2>1. hand[k].hash.boot \in Nat /\ hand[k].hash.boot <= faults
    BY <1>2 DEF Stamped, BlocksTyped, AnyMined, AnyHash
  <2> QED
    BY <1>0, <2>1
<1>3. \A k \in Node : s[k] <= faults'
  <2>1. \A k \in Node : s[k] \in Nat /\ s[k] <= faults
    BY DEF Stamped
  <2> QED
    BY <1>0, <2>1
<1> QED
  BY <1>1, <1>2, <1>3 DEF Stamped

\* Every step keeps hashes unique.
LEMMA StampStep ==
    ASSUME TxInv, BlocksTyped, BlocksTyped', NEW s, Stamped(s), [Next]_vars
    PROVE  \E z : Stamped(z)'
<1> USE DEF p2pVars, chainVars, loopVars, history
<1>0. /\ loop \in [Node -> {"off", "select", "mining", "publish", "done"}]
      /\ hand = [k \in Node |-> hand[k]] /\ height \in [Node -> Nat]
      /\ faults \in Nat /\ faults' \in Nat
  BY DEF TxInv, BlocksTyped
<1>1. CASE UNCHANGED vars
  BY <1>0, <1>1, StampKept DEF vars
<1>2. ASSUME NEW n \in Node,
             \/ StartFails(n) \/ Start(n) \/ \E body : Post(n, body)
             \/ \E t : HandleTx(n, t)
             \/ \E b : HandleBlock(n, b) \/ HearOutsider(n, b)
             \/ \E m : ListenGossip(n, m)
             \/ ForwardGossip(n) \/ TakeTx(n) \/ TakeBlock(n) \/ Mined(n)
             \/ MiningFails(n) \/ LoopExit(n)
             \/ StopBegins(n) \/ StopP2P(n) \/ CloseStorage(n)
      PROVE  \E z : Stamped(z)'
  <2>1. faults' >= faults
    <3>1. faults' = faults \/ Fault
      BY <1>2 DEF StartFails, Start, Post, HandleTx, HandleBlock, HearOutsider, ListenGossip,
                  ForwardGossip, TakeTx, TakeBlock, Mined, MiningFails, LoopExit,
                  StopBegins, StopP2P, CloseStorage, Apply, Panics, Applied, Rejected
    <3> QED
      BY <1>0, <3>1 DEF Fault
  <2>2. UNCHANGED <<height, published>>
    BY <1>2 DEF StartFails, Start, Post, HandleTx, HandleBlock, HearOutsider, ListenGossip,
                ForwardGossip, TakeTx, TakeBlock, Mined, MiningFails, LoopExit,
                StopBegins, StopP2P, CloseStorage
  <2>3. CASE MiningFails(n)
    <3>1. \A k \in Node : loop'[k] \in {"mining", "publish"} =>
              loop[k] \in {"mining", "publish"} /\ hand'[k] = hand[k]
      BY <1>0, <2>3 DEF MiningFails
    <3> QED
      BY <1>0, <2>1, <2>2, <3>1, StampKept
  <2>4. CASE ~MiningFails(n)
    <3>1. hand' = hand
      BY <1>2, <2>4 DEF StartFails, Start, Post, HandleTx, HandleBlock, HearOutsider, ListenGossip,
                  ForwardGossip, TakeTx, TakeBlock, Mined, LoopExit,
                  StopBegins, StopP2P, CloseStorage
    <3>2. \A k \in Node : loop'[k] \in {"mining", "publish"}
                           => loop[k] \in {"mining", "publish"}
      BY <1>0, <1>2, <2>4 DEF StartFails, Start, Post, HandleTx, HandleBlock,
                  HearOutsider, ListenGossip, ForwardGossip, TakeTx, TakeBlock, Mined, Mining, LoopExit,
                  StopBegins, StopP2P, CloseStorage
    <3> QED
      BY <1>0, <2>1, <2>2, <3>1, <3>2, StampKept
  <2> QED
    BY <2>3, <2>4
<1>3. ASSUME NEW n \in Node, Tick(n) PROVE \E z : Stamped(z)'
  <2>1. /\ hand' = [hand EXCEPT ![n] = [index |-> 1, txs |-> pendingTxs[n],
                      hash |-> [miner |-> n, boot |-> faults, seq |-> height[n] + 1]]]
        /\ loop' = [loop EXCEPT ![n] = "mining"]
        /\ UNCHANGED <<height, published, faults>>
    BY <1>3 DEF Tick
  <2>2. /\ hand'[n].hash.miner = n /\ hand'[n].hash.boot = faults
        /\ hand'[n].hash.seq = height[n] + 1
        /\ \A k \in Node : k # n => hand'[k] = hand[k] /\ loop'[k] = loop[k]
    BY <1>0, <2>1
  <2>3. s[n] \in Nat /\ s[n] <= faults
    BY DEF Stamped
  <2>4. faults >= s[n] /\ faults <= faults
    BY <1>0, <2>3
  <2>5. ASSUME NEW k \in Node, loop'[k] \in {"mining", "publish"}
        PROVE  /\ hand'[k].hash.miner = k /\ hand'[k].hash.boot >= s[k]
               /\ hand'[k].hash.boot <= faults /\ hand'[k].hash.seq = height[k] + 1
    BY <2>2, <2>4, <2>5 DEF Stamped
  <2>6. Stamped(s)'
    BY <2>1, <2>5 DEF Stamped
  <2> QED
    BY <2>6
<1>4. ASSUME NEW n \in Node, Publish(n) PROVE \E z : Stamped(z)'
  <2>1. /\ published' = published \cup {hand[n]}
        /\ height' = [height EXCEPT ![n] = @ + 1]
        /\ hand' = [hand EXCEPT ![n] = NoBlock]
        /\ loop' = [loop EXCEPT ![n] = "select"]
        /\ loop[n] = "publish" /\ UNCHANGED faults
    BY <1>4 DEF Publish
  <2>2. /\ height'[n] = height[n] + 1 /\ loop'[n] = "select"
        /\ \A k \in Node : k # n => /\ hand'[k] = hand[k] /\ loop'[k] = loop[k]
                                    /\ height'[k] = height[k]
        /\ height[n] \in Nat
    BY <1>0, <2>1
  <2>3. /\ hand[n].hash.miner = n /\ hand[n].hash.seq = height[n] + 1
        /\ hand[n].hash.boot <= faults
    BY <2>1 DEF Stamped
  <2>4. ASSUME NEW k \in Node, NEW b \in published', b.hash.miner = k
        PROVE  b.hash.boot < s[k] \/ b.hash.seq <= height'[k]
    <3>1. CASE b = hand[n]
      <4>1. k = n /\ b.hash.seq = height'[k]
        BY <2>2, <2>3, <2>4, <3>1
      <4> QED
        BY <2>2, <4>1
    <3>2. CASE b \in published
      <4>1. b.hash.boot < s[k] \/ b.hash.seq <= height[k]
        BY <2>4, <3>2 DEF Stamped
      <4>2. b.hash.seq \in Nat /\ height[k] \in Nat
        BY <1>0, <3>2 DEF BlocksTyped, AnyMined, AnyHash
      <4>3. height'[k] = height[k] \/ height'[k] = height[k] + 1
        BY <2>2
      <4> QED
        BY <4>1, <4>2, <4>3
    <3> QED
      BY <2>1, <3>1, <3>2
  <2>5. Stamped(s)'
    <3>1. \A b \in published' : b.hash.boot <= faults
      BY <2>1, <2>3 DEF Stamped
    <3>2. ASSUME NEW k \in Node, loop'[k] \in {"mining", "publish"}
          PROVE  /\ hand'[k].hash.miner = k /\ hand'[k].hash.boot >= s[k]
                 /\ hand'[k].hash.boot <= faults /\ hand'[k].hash.seq = height'[k] + 1
      BY <2>2, <3>2 DEF Stamped
    <3> QED
      BY <2>1, <2>4, <3>1, <3>2 DEF Stamped
  <2> QED
    BY <2>5
<1>5. ASSUME NEW n \in Node, Restart(n) PROVE \E z : Stamped(z)'
  <2>1. /\ published' = published /\ faults' = faults + 1
        /\ height' = [height EXCEPT ![n] = 0]
        /\ hand' = [hand EXCEPT ![n] = NoBlock]
        /\ loop' = [loop EXCEPT ![n] = "off"]
    BY <1>5 DEF Restart, Fault
  <2>2. PICK f : f = faults + 1
    OBVIOUS
  <2>3. PICK z : z = [k \in Node |-> IF k = n THEN f ELSE s[k]]
    OBVIOUS
  <2>4. z[n] = f /\ \A k \in Node : k # n => z[k] = s[k]
    BY <2>3
  <2>5. /\ loop'[n] = "off"
        /\ \A k \in Node : k # n => /\ hand'[k] = hand[k] /\ loop'[k] = loop[k]
                                    /\ height'[k] = height[k]
    BY <1>0, <2>1
  <2>6. \A b \in published : b.hash.boot \in Nat /\ b.hash.boot <= faults
    BY DEF Stamped, BlocksTyped, AnyMined, AnyHash
  <2>7. \A b \in published : b.hash.boot < f /\ b.hash.boot <= faults + 1
    BY <1>0, <2>2, <2>6
  <2>8. ASSUME NEW k \in Node
        PROVE  /\ z[k] \in Nat /\ z[k] <= faults + 1
               /\ \A b \in published :
                     b.hash.miner = k => b.hash.boot < z[k] \/ b.hash.seq <= height'[k]
               /\ loop'[k] \in {"mining", "publish"} =>
                     /\ hand'[k].hash.miner = k /\ hand'[k].hash.boot >= z[k]
                     /\ hand'[k].hash.boot <= faults + 1
                     /\ hand'[k].hash.seq = height'[k] + 1
    <3>1. CASE k = n
      <4>1. f \in Nat /\ f <= faults + 1
        BY <1>0, <2>2
      <4> QED
        BY <2>4, <2>5, <2>7, <3>1, <4>1
    <3>2. CASE k # n
      <4>1. s[k] \in Nat /\ s[k] <= faults
        BY DEF Stamped
      <4>2. s[k] <= faults + 1
        BY <1>0, <4>1
      <4>3. loop[k] \in {"mining", "publish"} => hand[k].hash.boot <= faults + 1
        <5>1. loop[k] \in {"mining", "publish"} =>
                hand[k].hash.boot \in Nat /\ hand[k].hash.boot <= faults
          BY DEF Stamped, BlocksTyped, AnyMined, AnyHash
        <5> QED
          BY <1>0, <5>1
      <4> QED
        BY <2>4, <2>5, <3>2, <4>1, <4>2, <4>3 DEF Stamped
    <3> QED
      BY <3>1, <3>2
  <2>9. Stamped(z)'
    BY <2>1, <2>7, <2>8 DEF Stamped
  <2> QED
    BY <2>9
<1>6. CASE Next
  <2>1. PICK n \in Node :
          \/ StartFails(n) \/ Start(n)
          \/ \E t \in Tx : Post(n, [tx |-> t]) \/ HandleTx(n, t)
          \/ \E b \in published \cup OtherBlock :
                Post(n, [block |-> b]) \/ HandleBlock(n, b) \/ HearOutsider(n, b)
          \/ \E m \in inbox[n] : ListenGossip(n, m)
          \/ ForwardGossip(n)
          \/ TakeTx(n) \/ TakeBlock(n) \/ Tick(n)
          \/ Mined(n) \/ MiningFails(n) \/ Publish(n) \/ LoopExit(n)
          \/ StopBegins(n) \/ StopP2P(n) \/ CloseStorage(n)
          \/ Restart(n)
    BY <1>6, Zenon DEF Next
  <2> QED
    BY <2>1, <1>2, <1>3, <1>4, <1>5, Zenon
<1> QED
  BY <1>1, <1>6

\* Steps that move no block.
LEMMA MetKept ==
    ASSUME MetKnown, [Next]_vars, UNCHANGED <<stateRoot, blockChan, heard, inbox>>,
           waiting' = [n \in Node |-> waiting'[n]], posted' = [n \in Node |-> posted'[n]],
           \A k \in Node : waiting'[k] \subseteq posted'[k],
           \A k \in Node : phase'[k] = "new" => loop'[k] = "off",
           \A k \in Node : loop[k] = "publish" => loop'[k] = "publish" /\ hand'[k] = hand[k]
    PROVE  MetKnown'
<1>1. /\ \A k \in Node : \A h : Met(k, h) => Met(k, h)'
      /\ \A h : Known(h) => Known(h)'
  BY KnownGrows
<1>2. ASSUME NEW k \in Node, NEW h, InSeq(stateRoot'[k], h)
      PROVE  Met(k, h)' \/ (loop'[k] = "publish" /\ h = hand'[k].hash)
  BY <1>1, <1>2 DEF MetKnown
<1>3. \A k \in Node : \A h : InSeq(blockChan'[k], h) => Met(k, h)'
  BY <1>1 DEF MetKnown
<1>4. \A k \in Node : \A h : HeardOf(heard'[k], h) => Met(k, h)'
  BY <1>1 DEF MetKnown
<1>5. \A k \in Node : \A m \in inbox'[k] : Known(m.block.hash)'
  BY <1>1 DEF MetKnown
<1> QED
  BY <1>2, <1>3, <1>4, <1>5 DEF MetKnown

\* Blocks that move: what is met in the next state was met before or is known.
LEMMA MetMoved ==
    ASSUME MetKnown, [Next]_vars,
           UNCHANGED posted, waiting' = [n \in Node |-> waiting'[n]],
           inbox' = [n \in Node |-> inbox'[n]],
           \A k \in Node : waiting'[k] \subseteq waiting[k],
           \A k \in Node : phase'[k] = "new" => loop'[k] = "off",
           \A k \in Node : \A h : InSeq(stateRoot'[k], h) =>
               Met(k, h)' \/ (loop'[k] = "publish" /\ h = hand'[k].hash),
           \A k \in Node : \A h : InSeq(blockChan'[k], h) => Met(k, h)',
           \A k \in Node : \A h : HeardOf(heard'[k], h) => Met(k, h)',
           \A k \in Node : \A m \in inbox'[k] : Known(m.block.hash)'
    PROVE  MetKnown'
BY DEF MetKnown

\* What Apply does to the root of a node.
LEMMA ApplyRoot ==
    ASSUME RootKept, NEW n \in Node, NEW b \in AnyBlock, Apply(n, b)
    PROVE  /\ \/ stateRoot' = stateRoot
              \/ stateRoot' = [stateRoot EXCEPT ![n] = Append(@, b)]
           /\ \A k \in Node : phase'[k] = "new" => phase[k] = "new"
           /\ \A k \in Node : k # n => stateRoot'[k] = stateRoot[k]
           /\ stateRoot'[n] = stateRoot[n] \/ stateRoot'[n] = Append(stateRoot[n], b)
<1>1. /\ \/ stateRoot' = stateRoot
         \/ stateRoot' = [stateRoot EXCEPT ![n] = Append(@, b)]
      /\ phase' = phase \/ phase' = [phase EXCEPT ![n] = "dead"]
  BY DEF Apply, Panics, Applied, Rejected
<1> QED
  BY <1>1 DEF RootKept

\* Every step keeps MetKnown.
LEMMA MetStep ==
    ASSUME RootInv, MetKnown, [Next]_vars
    PROVE  MetKnown'
<1>0. /\ TxInv /\ BlocksTyped /\ RootKept
      /\ loop \in [Node -> {"off", "select", "mining", "publish", "done"}]
      /\ hand = [k \in Node |-> hand[k]]
      /\ phase = [k \in Node |-> phase[k]]
      /\ blockChan \in [Node -> Seq(AnyBlock)]
      /\ heard \in [Node -> AnyBlock \cup {NoBlock}]
      /\ stateRoot \in [Node -> Seq(AnyBlock)]
      /\ inbox = [k \in Node |-> inbox[k]]
      /\ waiting = [k \in Node |-> waiting[k]]
      /\ posted = [k \in Node |-> posted[k]]
      /\ \A k \in Node : waiting[k] \subseteq posted[k]
      /\ \A k \in Node : phase[k] = "new" => loop[k] = "off"
  BY DEF RootInv, TxInv, BlocksTyped, RootKept, MetKnown
<1>00. /\ \A k \in Node : \A h : Met(k, h) => Met(k, h)'
       /\ \A h : Known(h) => Known(h)'
  BY KnownGrows
<1>000. /\ \A k \in Node : \A h : InSeq(stateRoot[k], h) =>
               Met(k, h)' \/ (loop[k] = "publish" /\ h = hand[k].hash)
        /\ \A k \in Node : \A h : InSeq(blockChan[k], h) => Met(k, h)'
        /\ \A k \in Node : \A h : HeardOf(heard[k], h) => Met(k, h)'
        /\ \A k \in Node : \A m \in inbox[k] : Known(m.block.hash)'
  BY <1>00 DEF MetKnown
<1> USE DEF p2pVars, chainVars, loopVars, history
<1>1. CASE UNCHANGED vars
  BY <1>0, <1>1, MetKept DEF vars
<1>2. ASSUME NEW n \in Node,
             \/ StartFails(n) \/ Start(n)
             \/ TakeTx(n) \/ Tick(n) \/ MiningFails(n) \/ LoopExit(n)
             \/ StopBegins(n) \/ StopP2P(n) \/ CloseStorage(n)
      PROVE  MetKnown'
  <2>1. UNCHANGED <<stateRoot, blockChan, heard, inbox, waiting, posted>>
    BY <1>2 DEF StartFails, Start, TakeTx, Tick, MiningFails, LoopExit,
                StopBegins, StopP2P, CloseStorage
  <2>2. \A k \in Node : phase'[k] = "new" => phase[k] = "new" /\ loop'[k] = loop[k]
    BY <1>0, <1>2 DEF StartFails, Start, TakeTx, Tick, MiningFails, LoopExit,
                StopBegins, StopP2P, CloseStorage, Alive, Selecting, Mining
  <2>3. \A k \in Node : loop[k] = "publish" => loop'[k] = "publish" /\ hand'[k] = hand[k]
    BY <1>0, <1>2 DEF StartFails, Start, TakeTx, Tick, MiningFails, LoopExit,
                StopBegins, StopP2P, CloseStorage, Alive, Selecting, Mining
  <2> QED
    BY <1>0, <2>1, <2>2, <2>3, MetKept
<1>2a. ASSUME NEW n \in Node, NEW b, HearOutsider(n, b) PROVE MetKnown'
  <2>1. /\ UNCHANGED <<stateRoot, blockChan, inbox, phase, loop, hand, waiting>>
        /\ heard' = [heard EXCEPT ![n] = b]
        /\ posted' = [posted EXCEPT ![n] = @ \cup {[block |-> b]}]
    BY <1>2a DEF HearOutsider, Sent
  <2>2. /\ posted' = [k \in Node |-> posted'[k]]
        /\ \A k \in Node : posted[k] \subseteq posted'[k]
        /\ [block |-> b] \in posted'[n]
    BY <1>0, <2>1
  <2>3. Met(n, b.hash)'
    BY <2>2, SentExcuses DEF Met, Excused
  <2>4. ASSUME NEW k \in Node, NEW h, HeardOf(heard'[k], h) PROVE Met(k, h)'
    <3>1. heard'[k] = heard[k] \/ (k = n /\ heard'[k] = b)
      BY <1>0, <2>1
    <3> QED
      BY <1>000, <2>3, <2>4, <3>1 DEF HeardOf
  <2>5. \A k \in Node : waiting'[k] \subseteq posted'[k]
    BY <1>0, <2>1, <2>2
  <2>6. \A k \in Node : phase'[k] = "new" => loop'[k] = "off"
    BY <1>0, <2>1
  <2>7. /\ \A k \in Node : \A h : InSeq(stateRoot'[k], h) =>
              Met(k, h)' \/ (loop'[k] = "publish" /\ h = hand'[k].hash)
        /\ \A k \in Node : \A h : InSeq(blockChan'[k], h) => Met(k, h)'
        /\ \A k \in Node : \A m \in inbox'[k] : Known(m.block.hash)'
    BY <1>000, <2>1
  <2> QED
    BY <1>0, <2>1, <2>2, <2>4, <2>5, <2>6, <2>7 DEF MetKnown
<1>3. ASSUME NEW n \in Node, NEW body, Post(n, body) PROVE MetKnown'
  <2>1. /\ UNCHANGED <<stateRoot, blockChan, heard, inbox, phase, loop, hand>>
        /\ waiting' = [waiting EXCEPT ![n] = @ \cup {body}]
        /\ posted' = [posted EXCEPT ![n] = @ \cup {body}]
    BY <1>3 DEF Post, Sent
  <2>2. /\ waiting' = [k \in Node |-> waiting'[k]] /\ posted' = [k \in Node |-> posted'[k]]
        /\ \A k \in Node : waiting'[k] \subseteq posted'[k]
    BY <1>0, <2>1
  <2> QED
    BY <1>0, <2>1, <2>2, MetKept
<1>4. ASSUME NEW n \in Node, NEW t, HandleTx(n, t) PROVE MetKnown'
  <2>1. /\ UNCHANGED <<stateRoot, blockChan, heard, inbox, phase, loop, hand, posted>>
        /\ waiting' = [waiting EXCEPT ![n] = @ \ {[tx |-> t]}]
    BY <1>4 DEF HandleTx
  <2>2. /\ waiting' = [k \in Node |-> waiting'[k]]
        /\ \A k \in Node : waiting'[k] \subseteq posted'[k]
    BY <1>0, <2>1
  <2> QED
    BY <1>0, <2>1, <2>2, MetKept
<1>5. ASSUME NEW n \in Node, NEW b \in published \cup OtherBlock, HandleBlock(n, b)
      PROVE  MetKnown'
  <2>1. /\ UNCHANGED <<stateRoot, heard, inbox, phase, loop, hand, posted>>
        /\ waiting' = [waiting EXCEPT ![n] = @ \ {[block |-> b]}]
        /\ blockChan' = [blockChan EXCEPT ![n] = Append(@, b)]
    BY <1>5 DEF HandleBlock
  <2>2. /\ waiting' = [k \in Node |-> waiting'[k]]
        /\ \A k \in Node : waiting'[k] \subseteq waiting[k]
    BY <1>0, <2>1
  <2>3. b \in AnyBlock /\ Met(n, b.hash)'
    <3>1. [block |-> b] \in posted[n]
      BY <1>0, <1>5 DEF HandleBlock
    <3> QED
      BY <1>0, <1>00, <3>1, SentExcuses DEF BlocksTyped, AnyBlock, Met
  <2>4. ASSUME NEW k \in Node, NEW h, InSeq(blockChan'[k], h) PROVE Met(k, h)'
    <3>1. CASE k = n
      <4>1. InSeq(blockChan[n], h) \/ b.hash = h
        BY <1>0, <2>1, <2>3, <2>4, <3>1, InAppended
      <4> QED
        BY <1>000, <2>3, <3>1, <4>1
    <3>2. CASE k # n
      BY <1>0, <1>000, <2>1, <2>4, <3>2
    <3> QED
      BY <3>1, <3>2
  <2> QED
    BY <1>0, <1>000, <2>1, <2>2, <2>4, MetMoved
<1>6. ASSUME NEW n \in Node, NEW m \in inbox[n], ListenGossip(n, m) PROVE MetKnown'
  <2>1. /\ UNCHANGED <<stateRoot, blockChan, phase, loop, hand, posted, waiting>>
        /\ inbox' = [inbox EXCEPT ![n] = @ \ {m}]
        /\ heard' = [heard EXCEPT ![n] = IF Foreign(n, m) THEN m.block ELSE NoBlock]
    BY <1>6 DEF ListenGossip
  <2>2. /\ inbox' = [k \in Node |-> inbox'[k]]
        /\ \A k \in Node : inbox'[k] \subseteq inbox[k]
        /\ \A k \in Node : heard'[k] \in {heard[k], NoBlock} \/ heard'[k] = m.block
    BY <1>0, <2>1
  <2>3. Known(m.block.hash)'
    BY <1>000
  <2>4. \A k \in Node : \A h : HeardOf(heard'[k], h) => Met(k, h)'
    BY <1>000, <2>2, <2>3 DEF HeardOf, Met
  <2>5. \A k \in Node : \A o \in inbox'[k] : Known(o.block.hash)'
    BY <1>000, <2>2
  <2> QED
    BY <1>0, <1>000, <2>1, <2>2, <2>4, <2>5, MetMoved
<1>7. ASSUME NEW n \in Node, ForwardGossip(n) PROVE MetKnown'
  <2>1. /\ UNCHANGED <<stateRoot, inbox, phase, loop, hand, posted, waiting>>
        /\ heard[n] # NoBlock
        /\ blockChan' = [blockChan EXCEPT ![n] = Append(@, heard[n])]
        /\ heard' = [heard EXCEPT ![n] = NoBlock]
    BY <1>7 DEF ForwardGossip
  <2>2. PICK b \in AnyBlock : b = heard[n]
    BY <1>0, <2>1
  <2>3. \A k \in Node : heard'[k] \in {heard[k], NoBlock}
    BY <1>0, <2>1
  <2>4. ASSUME NEW k \in Node, NEW h, InSeq(blockChan'[k], h) PROVE Met(k, h)'
    <3>1. CASE k = n
      <4>1. InSeq(blockChan[n], h) \/ b.hash = h
        BY <1>0, <2>1, <2>2, <2>4, <3>1, InAppended
      <4> QED
        BY <1>000, <2>1, <2>2, <3>1, <4>1 DEF HeardOf
    <3>2. CASE k # n
      BY <1>0, <1>000, <2>1, <2>4, <3>2
    <3> QED
      BY <3>1, <3>2
  <2> QED
    BY <1>0, <1>000, <2>1, <2>3, <2>4, MetMoved DEF HeardOf
<1>8. ASSUME NEW n \in Node, TakeBlock(n) PROVE MetKnown'
  <2>1. /\ UNCHANGED <<heard, inbox, loop, hand, posted, waiting>>
        /\ blockChan[n] # <<>> /\ Apply(n, Head(blockChan[n]))
        /\ blockChan' = [blockChan EXCEPT ![n] = Tail(@)]
    BY <1>8 DEF TakeBlock
  <2>2. PICK c \in Seq(AnyBlock) : c = blockChan[n] /\ c # <<>>
    BY <1>0, <2>1
  <2>3. /\ Head(c) \in AnyBlock /\ Head(c) = c[1] /\ 1 \in 1..Len(c)
        /\ Tail(c) \in Seq(AnyBlock)
        /\ \A j \in 1..Len(Tail(c)) : j + 1 \in 1..Len(c) /\ Tail(c)[j] = c[j + 1]
    BY <2>2, HeadTailProperties, EmptySeq, LenProperties
  <2>4. InSeq(c, Head(c).hash) /\ \A h : InSeq(Tail(c), h) => InSeq(c, h)
    BY <2>3 DEF InSeq
  <2>5. ASSUME NEW k \in Node, NEW h, InSeq(blockChan'[k], h) PROVE Met(k, h)'
    <3>1. blockChan'[k] = blockChan[k] \/ (k = n /\ blockChan'[k] = Tail(c))
      BY <1>0, <2>1, <2>2
    <3> QED
      BY <1>000, <2>2, <2>4, <2>5, <3>1
  <2>6. ASSUME NEW k \in Node, NEW h, InSeq(stateRoot'[k], h)
        PROVE  Met(k, h)' \/ (loop'[k] = "publish" /\ h = hand'[k].hash)
    <3>1. \/ stateRoot'[k] = stateRoot[k]
          \/ k = n /\ stateRoot'[k] = Append(stateRoot[n], Head(c))
      BY <1>0, <2>1, <2>2, <2>3, ApplyRoot
    <3>2. CASE stateRoot'[k] = stateRoot[k]
      BY <1>000, <2>1, <2>6, <3>2
    <3>3. CASE k = n /\ stateRoot'[k] = Append(stateRoot[n], Head(c))
      <4>2. InSeq(stateRoot[n], h) \/ h = Head(c).hash
        BY <1>0, <2>3, <2>6, <3>3, InAppended
      <4> QED
        BY <1>000, <2>1, <2>2, <2>4, <3>3, <4>2
    <3> QED
      BY <3>1, <3>2, <3>3
  <2>7. \A k \in Node : phase'[k] = "new" => loop'[k] = "off"
    BY <1>0, <2>1, <2>2, <2>3, ApplyRoot
  <2> QED
    BY <1>0, <1>000, <2>1, <2>5, <2>6, <2>7, MetMoved
<1>9. ASSUME NEW n \in Node, Mined(n) PROVE MetKnown'
  <2>1. /\ UNCHANGED <<blockChan, heard, inbox, hand, posted, waiting>>
        /\ loop[n] = "mining" /\ Alive(n) /\ Apply(n, hand[n])
        /\ loop' = [loop EXCEPT ![n] = "publish"]
    BY <1>9 DEF Mined, Mining
  <2>2. PICK b \in AnyBlock : b = hand[n]
    BY <1>0, <2>1 DEF BlocksTyped, AnyBlock
  <2>3. ASSUME NEW k \in Node, NEW h, InSeq(stateRoot'[k], h)
        PROVE  Met(k, h)' \/ (loop'[k] = "publish" /\ h = hand'[k].hash)
    <3>1. \/ stateRoot'[k] = stateRoot[k]
          \/ k = n /\ stateRoot'[k] = Append(stateRoot[n], b)
      BY <1>0, <2>1, <2>2, ApplyRoot
    <3>2. CASE stateRoot'[k] = stateRoot[k]
      <4>1. loop[k] = "publish" => loop'[k] = "publish"
        BY <1>0, <2>1
      <4> QED
        BY <1>000, <2>1, <2>3, <3>2, <4>1
    <3>3. CASE k = n /\ stateRoot'[k] = Append(stateRoot[n], b)
      <4>2. InSeq(stateRoot[n], h) \/ h = b.hash
        BY <1>0, <2>3, <3>3, InAppended
      <4>3. loop'[n] = "publish" /\ hand'[n] = b
        BY <1>0, <2>1, <2>2
      <4>4. InSeq(stateRoot[n], h) => Met(n, h)'
        BY <1>000, <2>1
      <4> QED
        BY <3>3, <4>2, <4>3, <4>4
    <3> QED
      BY <3>1, <3>2, <3>3
  <2>4. \A k \in Node : phase'[k] = "new" => loop'[k] = "off"
    <3>1. \A k \in Node : phase'[k] = "new" => phase[k] = "new"
      BY <1>0, <2>1, <2>2, ApplyRoot
    <3>2. phase[n] # "new" /\ \A k \in Node : k # n => loop'[k] = loop[k]
      BY <1>0, <2>1 DEF Alive
    <3> QED
      BY <1>0, <3>1, <3>2
  <2> QED
    BY <1>0, <1>000, <2>1, <2>3, <2>4, MetMoved
<1>10. ASSUME NEW n \in Node, Publish(n) PROVE MetKnown'
  <2>1. /\ UNCHANGED <<stateRoot, blockChan, heard, phase, posted, waiting>>
        /\ loop[n] = "publish" /\ Alive(n)
        /\ loop' = [loop EXCEPT ![n] = "select"]
        /\ hand' = [hand EXCEPT ![n] = NoBlock]
        /\ published' = published \cup {hand[n]}
        /\ inbox' = [m \in Node |->
                       IF m \in Reached(n)
                         THEN inbox[m] \cup {[from |-> n, block |-> hand[n]]}
                         ELSE inbox[m]]
    BY <1>10 DEF Publish
  <2>2. PICK b : b = hand[n]
    OBVIOUS
  <2>3. Known(b.hash)'
    BY <2>1, <2>2 DEF Known
  <2>4. /\ inbox' = [k \in Node |-> inbox'[k]]
        /\ \A k \in Node : inbox'[k] \subseteq inbox[k] \cup {[from |-> n, block |-> b]}
    BY <2>1, <2>2
  <2>5. \A k \in Node : \A m \in inbox'[k] : Known(m.block.hash)'
    <3>1. [from |-> n, block |-> b].block = b
      OBVIOUS
    <3> QED
      BY <1>000, <2>3, <2>4, <3>1
  <2>6. \A k \in Node : \A h : InSeq(stateRoot'[k], h) =>
           Met(k, h)' \/ (loop'[k] = "publish" /\ h = hand'[k].hash)
    <3>1. \A k \in Node : k # n => loop'[k] = loop[k] /\ hand'[k] = hand[k]
      BY <1>0, <2>1
    <3> QED
      BY <1>000, <2>1, <2>2, <2>3, <3>1 DEF Met
  <2>7. \A k \in Node : phase'[k] = "new" => loop'[k] = "off"
    <3>1. phase[n] # "new" /\ \A k \in Node : k # n => loop'[k] = loop[k]
      BY <1>0, <2>1 DEF Alive
    <3> QED
      BY <1>0, <2>1, <3>1
  <2> QED
    BY <1>0, <1>000, <2>1, <2>4, <2>5, <2>6, <2>7, MetMoved
<1>11. ASSUME NEW n \in Node, Restart(n) PROVE MetKnown'
  <2>1. /\ phase' = [phase EXCEPT ![n] = "new"]
        /\ loop' = [loop EXCEPT ![n] = "off"]
        /\ waiting' = [waiting EXCEPT ![n] = {}]
        /\ heard' = [heard EXCEPT ![n] = NoBlock]
        /\ blockChan' = [blockChan EXCEPT ![n] = <<>>]
        /\ hand' = [hand EXCEPT ![n] = NoBlock]
        /\ stateRoot' = [stateRoot EXCEPT ![n] = <<>>]
        /\ inbox' = [inbox EXCEPT ![n] = {}]
        /\ UNCHANGED posted
    BY <1>11 DEF Restart
  <2>2. /\ waiting' = [k \in Node |-> waiting'[k]] /\ inbox' = [k \in Node |-> inbox'[k]]
        /\ waiting'[n] = {} /\ inbox'[n] = {} /\ loop'[n] = "off"
        /\ heard'[n] = NoBlock /\ blockChan'[n] = <<>> /\ stateRoot'[n] = <<>>
    BY <1>0, <2>1
  <2>3. \A k \in Node : k # n =>
           /\ waiting'[k] = waiting[k] /\ inbox'[k] = inbox[k] /\ loop'[k] = loop[k]
           /\ heard'[k] = heard[k] /\ blockChan'[k] = blockChan[k]
           /\ stateRoot'[k] = stateRoot[k] /\ hand'[k] = hand[k] /\ phase'[k] = phase[k]
    BY <1>0, <2>1
  <2>4. \A h : ~InSeq(<<>>, h)
    BY DEF InSeq
  <2>5. \A k \in Node : \A h : InSeq(stateRoot'[k], h) =>
           Met(k, h)' \/ (loop'[k] = "publish" /\ h = hand'[k].hash)
    BY <1>000, <2>2, <2>3, <2>4
  <2>6. \A k \in Node : \A h : InSeq(blockChan'[k], h) => Met(k, h)'
    BY <1>000, <2>2, <2>3, <2>4
  <2>7. \A k \in Node : \A h : HeardOf(heard'[k], h) => Met(k, h)'
    BY <1>000, <2>2, <2>3 DEF HeardOf
  <2>8. \A k \in Node : \A m \in inbox'[k] : Known(m.block.hash)'
    BY <1>000, <2>2, <2>3
  <2> QED
    BY <1>0, <2>1, <2>2, <2>3, <2>5, <2>6, <2>7, <2>8, MetMoved
<1>12. CASE Next
  <2>1. PICK n \in Node :
          \/ StartFails(n) \/ Start(n)
          \/ \E t \in Tx : Post(n, [tx |-> t]) \/ HandleTx(n, t)
          \/ \E b \in published \cup OtherBlock :
                Post(n, [block |-> b]) \/ HandleBlock(n, b) \/ HearOutsider(n, b)
          \/ \E m \in inbox[n] : ListenGossip(n, m)
          \/ ForwardGossip(n)
          \/ TakeTx(n) \/ TakeBlock(n) \/ Tick(n)
          \/ Mined(n) \/ MiningFails(n) \/ Publish(n) \/ LoopExit(n)
          \/ StopBegins(n) \/ StopP2P(n) \/ CloseStorage(n)
          \/ Restart(n)
    BY <1>12, Zenon DEF Next
  <2> QED
    BY <2>1, <1>2, <1>2a, <1>3, <1>4, <1>5, <1>6, <1>7, <1>8, <1>9, <1>10, <1>11, Zenon
<1> QED
  BY <1>1, <1>12


\* It is enough to look at the hashes that were not excused before the step.
LEMMA CountedBy ==
    ASSUME MetKnown, [Next]_vars,
           \A k \in Node : \A h : ~Excused(k, h) =>
              AtMostOnce(stateRoot'[k], blockChan'[k], heard'[k], ForeignBox(k)', h)
    PROVE  Counted'
<1>1. \A k \in Node : \A h : Excused(k, h) => Excused(k, h)'
  BY KnownGrows
<1> QED
  BY <1>1 DEF Counted

\* A step of node n: the others keep what they have.
LEMMA CountedAt ==
    ASSUME MetKnown, Counted, [Next]_vars, NEW n \in Node,
           \A k \in Node : k # n =>
              /\ stateRoot'[k] = stateRoot[k] /\ blockChan'[k] = blockChan[k]
              /\ heard'[k] = heard[k] /\ inbox'[k] = inbox[k],
           \A h : ~Excused(n, h) =>
              AtMostOnce(stateRoot'[n], blockChan'[n], heard'[n], ForeignBox(n)', h)
    PROVE  Counted'
<1>1. \A k \in Node : k # n => ForeignBox(k)' = ForeignBox(k)
  BY DEF ForeignBox
<1>2. ASSUME NEW k \in Node, NEW h, ~Excused(k, h)
      PROVE  AtMostOnce(stateRoot'[k], blockChan'[k], heard'[k], ForeignBox(k)', h)
  <2>1. CASE k = n
    BY <1>2, <2>1
  <2>2. CASE k # n
    <3>1. AtMostOnce(stateRoot[k], blockChan[k], heard[k], ForeignBox(k), h)
      BY <1>2 DEF Counted
    <3> QED
      BY <1>1, <2>2, <3>1
  <2> QED
    BY <2>1, <2>2
<1> QED
  BY <1>2, CountedBy

\* A hash that nobody published or sent occurs nowhere in a node that is not
\* about to publish it.
LEMMA UnknownAbsent ==
    ASSUME MetKnown, NEW k \in Node, NEW h, ~Known(h), ~Excused(k, h),
           ~(loop[k] = "publish" /\ h = hand[k].hash)
    PROVE  Absent(stateRoot[k], blockChan[k], heard[k], ForeignBox(k), h)
<1>1. ~InBox(ForeignBox(k), h)
  BY DEF MetKnown, InBox, ForeignBox
<1> QED
  BY <1>1 DEF MetKnown, Absent, Met

\* Every step keeps blocks that were not posted in one place.
LEMMA CountedStep ==
    ASSUME RootInv, MetKnown, \E s : Stamped(s), Counted, [Next]_vars
    PROVE  Counted'
<1>0. /\ TxInv /\ BlocksTyped /\ RootKept
      /\ loop \in [Node -> {"off", "select", "mining", "publish", "done"}]
      /\ hand = [k \in Node |-> hand[k]]
      /\ blockChan \in [Node -> Seq(AnyBlock)]
      /\ heard \in [Node -> AnyBlock \cup {NoBlock}]
      /\ stateRoot \in [Node -> Seq(AnyBlock)]
      /\ inbox = [k \in Node |-> inbox[k]]
  BY DEF RootInv, TxInv, BlocksTyped, RootKept, MetKnown
<1>00. \A k \in Node : \A h : ~Excused(k, h) =>
          AtMostOnce(stateRoot[k], blockChan[k], heard[k], ForeignBox(k), h)
  BY DEF Counted
<1> USE DEF p2pVars, chainVars, loopVars, history
<1>1. ASSUME UNCHANGED <<stateRoot, blockChan, heard, inbox>> PROVE Counted'
  <2>1. \A k \in Node : ForeignBox(k)' = ForeignBox(k)
    BY <1>1 DEF ForeignBox
  <2> QED
    BY <1>00, <1>1, <2>1, CountedBy
<1>2. ASSUME NEW n \in Node,
             \/ StartFails(n) \/ Start(n) \/ \E t : HandleTx(n, t)
             \/ \E body : Post(n, body)
             \/ TakeTx(n) \/ Tick(n) \/ MiningFails(n) \/ LoopExit(n)
             \/ StopBegins(n) \/ StopP2P(n) \/ CloseStorage(n)
      PROVE  Counted'
  <2>1. UNCHANGED <<stateRoot, blockChan, heard, inbox>>
    BY <1>2 DEF StartFails, Start, HandleTx, Post, TakeTx, Tick, MiningFails, LoopExit,
                StopBegins, StopP2P, CloseStorage
  <2> QED
    BY <1>1, <2>1
<1>3. ASSUME NEW n \in Node, NEW b \in published \cup OtherBlock, HandleBlock(n, b)
      PROVE  Counted'
  <2>1. /\ UNCHANGED <<stateRoot, heard, inbox>> /\ [block |-> b] \in waiting[n]
        /\ blockChan' = [blockChan EXCEPT ![n] = Append(@, b)]
    BY <1>3 DEF HandleBlock
  <2>2. /\ blockChan'[n] = Append(blockChan[n], b) /\ blockChan[n] \in Seq(AnyBlock)
        /\ b \in AnyBlock /\ ForeignBox(n)' = ForeignBox(n)
        /\ \A k \in Node : k # n => blockChan'[k] = blockChan[k]
    BY <1>0, <2>1 DEF BlocksTyped, AnyBlock, ForeignBox
  <2>3. Excused(n, b.hash)
    BY <2>1, SentExcuses DEF MetKnown
  <2>4. ASSUME NEW h, ~Excused(n, h)
        PROVE  AtMostOnce(stateRoot'[n], blockChan'[n], heard'[n], ForeignBox(n)', h)
    <3>1. AtMostOnce(stateRoot[n], Append(blockChan[n], b), heard[n], ForeignBox(n), h)
      BY <1>00, <2>2, <2>3, <2>4, OnceQueued
    <3> QED
      BY <2>1, <2>2, <3>1
  <2> QED
    BY <2>1, <2>2, <2>4, CountedAt
<1>4. ASSUME NEW n \in Node, NEW m \in inbox[n], ListenGossip(n, m) PROVE Counted'
  <2>1. /\ UNCHANGED <<stateRoot, blockChan>> /\ heard[n] = NoBlock
        /\ inbox' = [inbox EXCEPT ![n] = @ \ {m}]
        /\ heard' = [heard EXCEPT ![n] = IF Foreign(n, m) THEN m.block ELSE NoBlock]
    BY <1>4 DEF ListenGossip
  <2>2. /\ \A k \in Node : k # n => inbox'[k] = inbox[k] /\ heard'[k] = heard[k]
        /\ inbox'[n] = inbox[n] \ {m}
        /\ Foreign(n, m) => heard'[n] = m.block
        /\ ~Foreign(n, m) => heard'[n] = NoBlock
    BY <1>0, <2>1
  <2>3. /\ ForeignBox(n)' = ForeignBox(n) \ {m}
        /\ Foreign(n, m) => m \in ForeignBox(n)
        /\ ~Foreign(n, m) => ForeignBox(n)' = ForeignBox(n)
    BY <2>2 DEF ForeignBox
  <2>4. ASSUME NEW h, ~Excused(n, h)
        PROVE  AtMostOnce(stateRoot'[n], blockChan'[n], heard'[n], ForeignBox(n)', h)
    <3>1. AtMostOnce(stateRoot[n], blockChan[n], NoBlock, ForeignBox(n), h)
      BY <1>00, <2>1, <2>4
    <3>2. CASE Foreign(n, m)
      <4>1. AtMostOnce(stateRoot[n], blockChan[n], m.block, ForeignBox(n) \ {m}, h)
        BY <2>3, <3>1, <3>2, OnceHeard
      <4> QED
        BY <2>1, <2>2, <2>3, <3>2, <4>1
    <3>3. CASE ~Foreign(n, m)
      BY <2>1, <2>2, <2>3, <3>1, <3>3
    <3> QED
      BY <3>2, <3>3
  <2> QED
    BY <2>1, <2>2, <2>4, CountedAt
<1>5. ASSUME NEW n \in Node, ForwardGossip(n) PROVE Counted'
  <2>1. /\ UNCHANGED <<stateRoot, inbox>> /\ heard[n] # NoBlock
        /\ blockChan' = [blockChan EXCEPT ![n] = Append(@, heard[n])]
        /\ heard' = [heard EXCEPT ![n] = NoBlock]
    BY <1>5 DEF ForwardGossip
  <2>2. /\ \A k \in Node : k # n => blockChan'[k] = blockChan[k] /\ heard'[k] = heard[k]
        /\ blockChan'[n] = Append(blockChan[n], heard[n]) /\ heard'[n] = NoBlock
        /\ heard[n] \in AnyBlock /\ blockChan[n] \in Seq(AnyBlock)
        /\ ForeignBox(n)' = ForeignBox(n)
    BY <1>0, <2>1 DEF ForeignBox
  <2>3. ASSUME NEW h, ~Excused(n, h)
        PROVE  AtMostOnce(stateRoot'[n], blockChan'[n], heard'[n], ForeignBox(n)', h)
    <3>1. AtMostOnce(stateRoot[n], Append(blockChan[n], heard[n]), NoBlock, ForeignBox(n), h)
      BY <1>00, <2>1, <2>2, <2>3, OnceForwarded
    <3> QED
      BY <2>1, <2>2, <3>1
  <2> QED
    BY <2>1, <2>2, <2>3, CountedAt
<1>6. ASSUME NEW n \in Node, TakeBlock(n) PROVE Counted'
  <2>1. /\ UNCHANGED <<heard, inbox>>
        /\ blockChan[n] # <<>> /\ Apply(n, Head(blockChan[n]))
        /\ blockChan' = [blockChan EXCEPT ![n] = Tail(@)]
    BY <1>6 DEF TakeBlock
  <2>2. PICK c \in Seq(AnyBlock) : c = blockChan[n] /\ c # <<>>
    BY <1>0, <2>1
  <2>3. Head(c) \in AnyBlock
    BY <2>2, HeadTailProperties
  <2>4. /\ \A k \in Node : k # n => stateRoot'[k] = stateRoot[k]
        /\ stateRoot'[n] = stateRoot[n] \/ stateRoot'[n] = Append(stateRoot[n], Head(c))
    BY <1>0, <2>1, <2>2, <2>3, ApplyRoot
  <2>5. /\ \A k \in Node : k # n => blockChan'[k] = blockChan[k]
        /\ blockChan'[n] = Tail(c) /\ stateRoot[n] \in Seq(AnyBlock)
        /\ ForeignBox(n)' = ForeignBox(n)
    BY <1>0, <2>1, <2>2 DEF ForeignBox
  <2>6. ASSUME NEW h, ~Excused(n, h)
        PROVE  AtMostOnce(stateRoot'[n], blockChan'[n], heard'[n], ForeignBox(n)', h)
    <3>1. AtMostOnce(stateRoot[n], c, heard[n], ForeignBox(n), h)
      BY <1>00, <2>2, <2>6
    <3>2. /\ AtMostOnce(stateRoot[n], Tail(c), heard[n], ForeignBox(n), h)
          /\ AtMostOnce(Append(stateRoot[n], Head(c)), Tail(c), heard[n],
                        ForeignBox(n), h)
      BY <2>2, <2>3, <2>5, <3>1, OnceTaken
    <3> QED
      BY <2>1, <2>4, <2>5, <3>2
  <2> QED
    BY <2>1, <2>4, <2>5, <2>6, CountedAt
<1>7. ASSUME NEW n \in Node, Mined(n) PROVE Counted'
  <2>1. /\ UNCHANGED <<blockChan, heard, inbox>>
        /\ loop[n] = "mining" /\ Apply(n, hand[n])
    BY <1>7 DEF Mined, Mining
  <2>2. PICK b \in AnyBlock : b = hand[n]
    BY <1>0, <2>1 DEF BlocksTyped, AnyBlock
  <2>3. /\ \A k \in Node : k # n => stateRoot'[k] = stateRoot[k]
        /\ stateRoot'[n] = stateRoot[n] \/ stateRoot'[n] = Append(stateRoot[n], b)
    BY <1>0, <2>1, <2>2, ApplyRoot
  <2>4. stateRoot[n] \in Seq(AnyBlock)
    BY <1>0
  <2>5. ~Excused(n, b.hash) =>
            Absent(stateRoot[n], blockChan[n], heard[n], ForeignBox(n), b.hash)
    <3>1. ~Known(b.hash)
      BY <1>0, <2>1, <2>2, HandUnknown
    <3> QED
      BY <2>1, <3>1, UnknownAbsent
  <2>6. ForeignBox(n)' = ForeignBox(n)
    BY <2>1 DEF ForeignBox
  <2>7. ASSUME NEW h, ~Excused(n, h)
        PROVE  AtMostOnce(stateRoot'[n], blockChan'[n], heard'[n], ForeignBox(n)', h)
    <3>1. AtMostOnce(Append(stateRoot[n], b), blockChan[n], heard[n], ForeignBox(n), h)
      BY <1>00, <2>4, <2>5, <2>7, OnceChained
    <3> QED
      BY <1>00, <2>1, <2>3, <2>6, <2>7, <3>1
  <2> QED
    BY <2>1, <2>3, <2>7, CountedAt
<1>8. ASSUME NEW n \in Node, Publish(n) PROVE Counted'
  <2>1. /\ UNCHANGED <<stateRoot, blockChan, heard>> /\ loop[n] = "publish"
        /\ inbox' = [m \in Node |->
                       IF m \in Reached(n)
                         THEN inbox[m] \cup {[from |-> n, block |-> hand[n]]}
                         ELSE inbox[m]]
    BY <1>8 DEF Publish
  <2>2. PICK b, o : b = hand[n] /\ o = [from |-> n, block |-> b]
    OBVIOUS
  <2>3. o.from = n /\ o.block = b
    BY <2>2
  <2>4. \A k \in Node : inbox'[k] = inbox[k] \/ inbox'[k] = inbox[k] \cup {o}
    BY <2>1, <2>2
  <2>5. /\ ForeignBox(n)' = ForeignBox(n)
        /\ \A k \in Node : \/ ForeignBox(k)' = ForeignBox(k)
                           \/ k # n /\ ForeignBox(k)' = ForeignBox(k) \cup {o}
    BY <2>3, <2>4 DEF ForeignBox, Foreign
  <2>6. ASSUME NEW k \in Node, k # n, ~Excused(k, b.hash)
        PROVE  Absent(stateRoot[k], blockChan[k], heard[k], ForeignBox(k), b.hash)
    <3>1. ~Known(b.hash)
      BY <1>0, <2>1, <2>2, HandUnknown
    <3>2. loop[k] = "publish" => b.hash # hand[k].hash
      BY <2>1, <2>2, <2>6 DEF Stamped
    <3> QED
      BY <2>6, <3>1, <3>2, UnknownAbsent
  <2>7. ASSUME NEW k \in Node, NEW h, ~Excused(k, h)
        PROVE  AtMostOnce(stateRoot'[k], blockChan'[k], heard'[k], ForeignBox(k)', h)
    <3>1. AtMostOnce(stateRoot[k], blockChan[k], heard[k], ForeignBox(k), h)
      BY <1>00, <2>7
    <3>2. k # n => AtMostOnce(stateRoot[k], blockChan[k], heard[k], ForeignBox(k) \cup {o}, h)
      BY <2>3, <2>6, <2>7, <3>1, OncePublished
    <3> QED
      BY <2>1, <2>5, <3>1, <3>2
  <2> QED
    BY <2>7, CountedBy
<1>9. ASSUME NEW n \in Node, Restart(n) PROVE Counted'
  <2>1. /\ heard' = [heard EXCEPT ![n] = NoBlock]
        /\ blockChan' = [blockChan EXCEPT ![n] = <<>>]
        /\ stateRoot' = [stateRoot EXCEPT ![n] = <<>>]
        /\ inbox' = [inbox EXCEPT ![n] = {}]
    BY <1>9 DEF Restart
  <2>2. /\ \A k \in Node : k # n =>
              /\ stateRoot'[k] = stateRoot[k] /\ blockChan'[k] = blockChan[k]
              /\ heard'[k] = heard[k] /\ inbox'[k] = inbox[k]
        /\ stateRoot'[n] = <<>> /\ blockChan'[n] = <<>>
        /\ heard'[n] = NoBlock /\ inbox'[n] = {}
    BY <1>0, <2>1
  <2>3. ForeignBox(n)' = {}
    BY <2>2 DEF ForeignBox
  <2>4. \A h : AtMostOnce(<<>>, <<>>, NoBlock, {}, h)
    BY DEF AtMostOnce, InSeq, HeardOf, InBox
  <2> QED
    BY <2>2, <2>3, <2>4, CountedAt
<1>9a. ASSUME NEW n \in Node, NEW b, HearOutsider(n, b) PROVE Counted'
  <2>1. /\ UNCHANGED <<stateRoot, blockChan, inbox>> /\ heard[n] = NoBlock
        /\ heard' = [heard EXCEPT ![n] = b]
        /\ posted' = [posted EXCEPT ![n] = @ \cup {[block |-> b]}]
    BY <1>9a DEF HearOutsider, Sent
  <2>2. \A k \in Node : ForeignBox(k)' = ForeignBox(k)
    BY <2>1 DEF ForeignBox
  <2>3. \A k \in Node : heard'[k] = heard[k] \/ (k = n /\ heard'[k] = b)
    BY <1>0, <2>1
  <2>4. Excused(n, b.hash)'
    <3>1. [block |-> b] \in posted'[n]
      BY <2>1 DEF MetKnown
    <3>2. "block" \in DOMAIN [block |-> b] /\ [block |-> b].block = b
      OBVIOUS
    <3> QED
      BY <3>1, <3>2, Zenon DEF Excused
  <2>5. ASSUME NEW k \in Node, NEW h, ~Excused(k, h)'
        PROVE  AtMostOnce(stateRoot'[k], blockChan'[k], heard'[k], ForeignBox(k)', h)
    <3>1. AtMostOnce(stateRoot[k], blockChan[k], heard[k], ForeignBox(k), h)
      BY <1>00, <2>5, KnownGrows
    <3>2. HeardOf(heard'[k], h) => HeardOf(heard[k], h)
      BY <2>3, <2>4, <2>5 DEF HeardOf
    <3>3. AtMostOnce(stateRoot[k], blockChan[k], heard'[k], ForeignBox(k), h)
      BY <3>1, <3>2 DEF AtMostOnce
    <3> QED
      BY <2>1, <2>2, <3>3
  <2> QED
    BY <2>5 DEF Counted
<1>10. CASE UNCHANGED vars
  BY <1>1, <1>10 DEF vars
<1>11. CASE Next
  <2>1. PICK n \in Node :
          \/ StartFails(n) \/ Start(n)
          \/ \E t \in Tx : Post(n, [tx |-> t]) \/ HandleTx(n, t)
          \/ \E b \in published \cup OtherBlock :
                Post(n, [block |-> b]) \/ HandleBlock(n, b) \/ HearOutsider(n, b)
          \/ \E m \in inbox[n] : ListenGossip(n, m)
          \/ ForwardGossip(n)
          \/ TakeTx(n) \/ TakeBlock(n) \/ Tick(n)
          \/ Mined(n) \/ MiningFails(n) \/ Publish(n) \/ LoopExit(n)
          \/ StopBegins(n) \/ StopP2P(n) \/ CloseStorage(n)
          \/ Restart(n)
    BY <1>11, Zenon DEF Next
  <2> QED
    BY <2>1, <1>2, <1>3, <1>4, <1>5, <1>6, <1>7, <1>8, <1>9, <1>9a, Zenon
<1> QED
  BY <1>10, <1>11

\* The invariant holds in every behaviour.
LEMMA GossipInvariance == Safety => []GossipInv
<1>1. Init => GossipInv
  <2> SUFFICES ASSUME Init PROVE GossipInv
    OBVIOUS
  <2>1. RootInv
    <3>1. TxInv
      BY TxInitial
    <3>2. BlocksTyped /\ RootKept
      BY EmptySeq DEF Init, BlocksTyped, RootKept, Follows, Latest
    <3> QED
      BY <3>1, <3>2 DEF RootInv
  <2>2. \A h : ~InSeq(<<>>, h)
    BY DEF InSeq
  <2>3. MetKnown
    BY <2>2 DEF Init, MetKnown, HeardOf
  <2>4. Stamped([n \in Node |-> 0])
    BY DEF Init, Stamped
  <2>5. Counted
    <3>1. \A h : AtMostOnce(<<>>, <<>>, NoBlock, {}, h)
      BY DEF AtMostOnce, InSeq, HeardOf, InBox
    <3>2. \A n \in Node : ForeignBox(n) = {}
      BY DEF Init, ForeignBox
    <3> QED
      BY <3>1, <3>2 DEF Init, Counted
  <2> QED
    BY <2>1, <2>3, <2>4, <2>5 DEF GossipInv
<1>2. GossipInv /\ [Next]_vars => GossipInv'
  <2> SUFFICES ASSUME GossipInv, [Next]_vars PROVE GossipInv'
    OBVIOUS
  <2>1. RootInv /\ MetKnown /\ (\E s : Stamped(s)) /\ Counted
    BY DEF GossipInv
  <2>2. RootInv'
    BY <2>1, RootStep
  <2>3. MetKnown' /\ Counted'
    BY <2>1, MetStep, CountedStep
  <2>4. PICK s : Stamped(s)
    BY <2>1
  <2>5. \E z : Stamped(z)'
    BY <2>1, <2>2, <2>4, StampStep DEF RootInv
  <2> QED
    BY <2>2, <2>3, <2>5 DEF GossipInv
<1> QED
  BY <1>1, <1>2, PTL DEF Safety

\* A node chains a gossiped block once: unless a client or an outsider sent it a
\* block with that hash, the hash is in the node's state root at most once.
THEOREM GossipChainedOnce == Spec => []GossipOnce
<1>1. GossipInv => GossipOnce
  <2> SUFFICES ASSUME GossipInv, NEW n \in Node,
                      NEW i \in 1..Len(stateRoot[n]), NEW j \in 1..Len(stateRoot[n]),
                      i # j, stateRoot[n][i].hash = stateRoot[n][j].hash
               PROVE  Excused(n, stateRoot[n][i].hash)
    BY Zenon DEF GossipOnce, Excused
  <2>1. PICK h : h = stateRoot[n][i].hash
    OBVIOUS
  <2>2. ~AtMostOnce(stateRoot[n], blockChan[n], heard[n], ForeignBox(n), h)
    BY <2>1, Zenon DEF AtMostOnce
  <2> QED
    BY <2>1, <2>2 DEF GossipInv, Counted
<1> QED
  BY <1>1, GossipInvariance, PTL DEF Spec


-----------------------------------------------------------------------------
(* Types.  That a hash has a type is a matter of counting: within a boot a *)
(* node mines no more blocks than it has accepted transactions, and it     *)
(* accepts no more than were posted to it.                                 *)

\* The bodies posted to n, those of them a handler holds, and all that were posted.
PostedTo(n) == {n} \X posted[n]
HeldBy(n)   == {n} \X waiting[n]
Bodies      == UNION {{m} \X posted[m] : m \in Node}

\* Every accepted transaction was posted and is no longer held.
PostsCounted ==
    /\ IsFiniteSet(Bodies) /\ Cardinality(Bodies) <= MaxPosts
    /\ \A n \in Node :
          Len(accepted[n]) + Cardinality(HeldBy(n)) <= Cardinality(PostedTo(n))

\* Every block mined has a transaction, and so has the one in hand.
BlocksCounted ==
    \A n \in Node :
        /\ height[n] <= Len(minedTxs[n])
        /\ loop[n] \in {"mining", "publish"} => pendingTxs[n] # <<>>

\* The sets are finite, and their sizes numbers.
LEMMA PostsFinite ==
    ASSUME MetKnown, PostsCounted, NEW n \in Node
    PROVE  /\ IsFiniteSet(PostedTo(n)) /\ IsFiniteSet(HeldBy(n))
           /\ Cardinality(PostedTo(n)) \in Nat /\ Cardinality(HeldBy(n)) \in Nat
           /\ Cardinality(Bodies) \in Nat
           /\ Cardinality(PostedTo(n)) <= Cardinality(Bodies)
<1>1. PostedTo(n) \subseteq Bodies
  BY DEF PostedTo, Bodies
<1>2. HeldBy(n) \subseteq PostedTo(n)
  BY DEF HeldBy, PostedTo, MetKnown
<1>3. IsFiniteSet(PostedTo(n)) /\ Cardinality(PostedTo(n)) <= Cardinality(Bodies)
  BY <1>1, FS_Subset DEF PostsCounted
<1>4. IsFiniteSet(HeldBy(n))
  BY <1>2, <1>3, FS_Subset
<1> QED
  BY <1>3, <1>4, FS_CardinalityType DEF PostsCounted

\* What is in the blocks of a node, pending and in its channel is bounded.
LEMMA AcceptedBounded ==
    ASSUME TxInv, MetKnown, PostsCounted, NEW n \in Node
    PROVE  /\ Len(minedTxs[n]) \in Nat /\ Len(pendingTxs[n]) \in Nat
           /\ Len(minedTxs[n]) + Len(pendingTxs[n]) <= MaxPosts
<1>1. PICK a, b, c \in Seq(Tx) :
        a = minedTxs[n] /\ b = pendingTxs[n] /\ c = txChan[n] /\ accepted[n] = a \o b \o c
  BY DEF TxInv, TxConserved
<1>2. Len(a) \in Nat /\ Len(b) \in Nat /\ Len(c) \in Nat
  BY LenProperties
<1>3. a \o b \in Seq(Tx) /\ Len(a \o b) = Len(a) + Len(b)
  BY ConcatProperties
<1>4. Len((a \o b) \o c) = Len(a \o b) + Len(c)
  BY <1>3, ConcatProperties
<1>5. PICK h, k, l \in Nat : h = Cardinality(HeldBy(n)) /\ k = Cardinality(PostedTo(n))
                            /\ l = Cardinality(Bodies)
  BY PostsFinite
<1>6. Len(accepted[n]) + h <= k /\ k <= l /\ l <= MaxPosts
  BY <1>5, PostsFinite DEF PostsCounted
<1>7. Len(accepted[n]) = Len(a) + Len(b) + Len(c)
  BY <1>1, <1>3, <1>4
<1>8. MaxPosts \in Nat
  BY CapAssumption
<1>9. Len(a) + Len(b) <= MaxPosts
  BY <1>2, <1>5, <1>6, <1>7, <1>8
<1> QED
  BY <1>1, <1>2, <1>9

\* Steps that neither post, nor accept, nor forget.
LEMMA PostsKept ==
    ASSUME PostsCounted, UNCHANGED <<posted, waiting, accepted>>
    PROVE  PostsCounted'
BY DEF PostsCounted, PostedTo, HeldBy, Bodies

\* A step of node n: the others keep what they have.
LEMMA PostsAt ==
    ASSUME PostsCounted, NEW n \in Node,
           \A k \in Node : k # n => /\ posted'[k] = posted[k] /\ waiting'[k] = waiting[k]
                                    /\ accepted'[k] = accepted[k],
           IsFiniteSet(Bodies)' /\ Cardinality(Bodies)' <= MaxPosts,
           Len(accepted'[n]) + Cardinality(HeldBy(n))' <= Cardinality(PostedTo(n))'
    PROVE  PostsCounted'
<1>1. ASSUME NEW k \in Node, k # n
      PROVE  HeldBy(k)' = HeldBy(k) /\ PostedTo(k)' = PostedTo(k)
  BY <1>1 DEF HeldBy, PostedTo
<1>2. ASSUME NEW k \in Node
      PROVE  Len(accepted'[k]) + Cardinality(HeldBy(k)') <= Cardinality(PostedTo(k)')
  <2>1. CASE k = n
    BY <2>1
  <2>2. CASE k # n
    <3>1. Len(accepted[k]) + Cardinality(HeldBy(k)) <= Cardinality(PostedTo(k))
      BY DEF PostsCounted
    <3> QED
      BY <1>1, <2>2, <3>1
  <2> QED
    BY <2>1, <2>2
<1> QED
  BY <1>2 DEF PostsCounted

\* Every step keeps the count of posts.
LEMMA PostsStep ==
    ASSUME TxInv, MetKnown, PostsCounted, [Next]_vars
    PROVE  PostsCounted'
<1>0. /\ waiting = [k \in Node |-> waiting[k]] /\ posted = [k \in Node |-> posted[k]]
      /\ accepted \in [Node -> Seq(Tx)]
      /\ \A k \in Node : waiting[k] \subseteq posted[k]
  BY DEF TxInv, MetKnown
<1> USE DEF p2pVars, chainVars, loopVars, history
<1>1. CASE UNCHANGED vars
  BY <1>1, PostsKept DEF vars
<1>2. ASSUME NEW n \in Node,
             \/ StartFails(n) \/ Start(n) \/ \E m : ListenGossip(n, m)
             \/ ForwardGossip(n) \/ TakeTx(n) \/ TakeBlock(n) \/ Tick(n)
             \/ Mined(n) \/ MiningFails(n) \/ Publish(n) \/ LoopExit(n)
             \/ StopBegins(n) \/ StopP2P(n) \/ CloseStorage(n)
      PROVE  PostsCounted'
  <2>1. UNCHANGED <<posted, waiting, accepted>>
    BY <1>2 DEF StartFails, Start, ListenGossip, ForwardGossip, TakeTx, TakeBlock, Tick,
                Mined, MiningFails, Publish, LoopExit, StopBegins, StopP2P, CloseStorage
  <2> QED
    BY <2>1, PostsKept
<1>3. ASSUME NEW n \in Node, NEW body,
             Post(n, body) \/ \E b : body = [block |-> b] /\ HearOutsider(n, b)
      PROVE  PostsCounted'
  <2>1. /\ body \notin posted[n] /\ Cardinality(Bodies) < MaxPosts
        /\ waiting' = waiting \/ waiting' = [waiting EXCEPT ![n] = @ \cup {body}]
        /\ posted' = [posted EXCEPT ![n] = @ \cup {body}]
        /\ UNCHANGED accepted
    BY <1>3 DEF Post, HearOutsider, Sent, Bodies
  <2>2. /\ waiting'[n] = waiting[n] \/ waiting'[n] = waiting[n] \cup {body}
        /\ posted'[n] = posted[n] \cup {body}
        /\ \A k \in Node : k # n => waiting'[k] = waiting[k] /\ posted'[k] = posted[k]
    BY <1>0, <2>1
  <2>3. PICK x : x = <<n, body>>
    OBVIOUS
  <2>4. /\ HeldBy(n)' = HeldBy(n) \/ HeldBy(n)' = HeldBy(n) \cup {x}
        /\ PostedTo(n)' = PostedTo(n) \cup {x}
    BY <2>2, <2>3 DEF HeldBy, PostedTo
  <2>5. x \notin PostedTo(n) /\ x \notin HeldBy(n)
    BY <1>0, <2>1, <2>3 DEF HeldBy, PostedTo
  <2>6. Bodies' = Bodies \cup {x}
    <3>1. \A y : y \in Bodies' <=> \E k \in Node : y \in PostedTo(k)'
      BY DEF Bodies, PostedTo
    <3>2. \A y : y \in Bodies <=> \E k \in Node : y \in PostedTo(k)
      BY DEF Bodies, PostedTo
    <3>3. \A k \in Node : k # n => PostedTo(k)' = PostedTo(k)
      BY <2>2 DEF PostedTo
    <3> QED
      BY <2>4, <3>1, <3>2, <3>3
  <2>7. PICK h, k, l \in Nat : h = Cardinality(HeldBy(n)) /\ k = Cardinality(PostedTo(n))
                              /\ l = Cardinality(Bodies)
    BY PostsFinite
  <2>8. /\ Cardinality(HeldBy(n) \cup {x}) = h + 1
        /\ Cardinality(PostedTo(n) \cup {x}) = k + 1
    BY <2>5, <2>7, PostsFinite, FS_AddElement
  <2>9. IsFiniteSet(Bodies \cup {x}) /\ Cardinality(Bodies \cup {x}) <= l + 1
    <3>1. IsFiniteSet(Bodies)
      BY DEF PostsCounted
    <3>2. IsFiniteSet(Bodies \cup {x}) /\ Cardinality(Bodies \cup {x}) \in {l, l + 1}
      BY <2>7, <3>1, FS_AddElement
    <3> QED
      BY <2>7, <3>2
  <2>10. Cardinality(Bodies \cup {x}) <= MaxPosts
    <3>1. Cardinality(Bodies \cup {x}) \in Nat
      BY <2>9, FS_CardinalityType
    <3>2. l < MaxPosts /\ MaxPosts \in Nat
      BY <2>1, <2>7, CapAssumption
    <3> QED
      BY <2>7, <2>9, <3>1, <3>2
  <2>11. Len(accepted'[n]) + (h + 1) <= k + 1 /\ Len(accepted'[n]) + h <= k + 1
    <3>1. Len(accepted[n]) \in Nat /\ Len(accepted[n]) + h <= k
      BY <1>0, <2>7, LenProperties DEF PostsCounted
    <3> QED
      BY <2>1, <2>7, <3>1
  <2>12. Len(accepted'[n]) + Cardinality(HeldBy(n))' <= Cardinality(PostedTo(n))'
    BY <2>4, <2>7, <2>8, <2>11
  <2> QED
    BY <2>1, <2>2, <2>6, <2>9, <2>10, <2>12, PostsAt
<1>4. ASSUME NEW n \in Node, NEW t \in Tx, HandleTx(n, t) PROVE PostsCounted'
  <2>1. /\ [tx |-> t] \in waiting[n]
        /\ waiting' = [waiting EXCEPT ![n] = @ \ {[tx |-> t]}]
        /\ accepted' = [accepted EXCEPT ![n] = Append(@, t)]
        /\ UNCHANGED posted
    BY <1>4 DEF HandleTx
  <2>2. /\ waiting'[n] = waiting[n] \ {[tx |-> t]} /\ accepted'[n] = Append(accepted[n], t)
        /\ \A k \in Node : k # n => waiting'[k] = waiting[k] /\ accepted'[k] = accepted[k]
    BY <1>0, <2>1
  <2>3. PICK x : x = <<n, [tx |-> t]>>
    OBVIOUS
  <2>4. HeldBy(n)' = HeldBy(n) \ {x} /\ x \in HeldBy(n)
    BY <2>1, <2>2, <2>3 DEF HeldBy
  <2>5. PostedTo(n)' = PostedTo(n) /\ Bodies' = Bodies
    BY <2>1 DEF PostedTo, Bodies
  <2>6. PICK h, k \in Nat : h = Cardinality(HeldBy(n)) /\ k = Cardinality(PostedTo(n))
    BY PostsFinite
  <2>7. Cardinality(HeldBy(n) \ {x}) = h - 1
    BY <2>4, <2>6, PostsFinite, FS_RemoveElement
  <2>8. Len(accepted'[n]) + (h - 1) <= k
    <3>1. Len(accepted[n]) \in Nat /\ Len(accepted[n]) + h <= k
      BY <1>0, <2>6, LenProperties DEF PostsCounted
    <3>2. Len(Append(accepted[n], t)) = Len(accepted[n]) + 1
      BY <1>0, AppendProperties
    <3> QED
      BY <2>2, <2>6, <3>1, <3>2
  <2>9. IsFiniteSet(Bodies)' /\ Cardinality(Bodies)' <= MaxPosts
    BY <2>5 DEF PostsCounted
  <2> QED
    BY <2>1, <2>2, <2>4, <2>5, <2>6, <2>7, <2>8, <2>9, PostsAt
<1>5. ASSUME NEW n \in Node, NEW b, HandleBlock(n, b) PROVE PostsCounted'
  <2>1. /\ waiting' = [waiting EXCEPT ![n] = @ \ {[block |-> b]}]
        /\ UNCHANGED <<posted, accepted>>
    BY <1>5 DEF HandleBlock
  <2>2. /\ waiting'[n] \subseteq waiting[n]
        /\ \A k \in Node : k # n => waiting'[k] = waiting[k]
    BY <1>0, <2>1
  <2>3. HeldBy(n)' \subseteq HeldBy(n)
    BY <2>2 DEF HeldBy
  <2>4. PostedTo(n)' = PostedTo(n) /\ Bodies' = Bodies
    BY <2>1 DEF PostedTo, Bodies
  <2>5. PICK H, h, g : H = HeldBy(n)' /\ h = Cardinality(HeldBy(n)) /\ g = Cardinality(H)
    OBVIOUS
  <2>6. h \in Nat /\ g \in Nat /\ g <= h
    BY <2>3, <2>5, PostsFinite, FS_Subset, FS_CardinalityType
  <2>7. PICK k \in Nat : k = Cardinality(PostedTo(n))
    BY PostsFinite
  <2>8. Len(accepted[n]) + g <= k
    <3>1. Len(accepted[n]) \in Nat /\ Len(accepted[n]) + h <= k
      BY <1>0, <2>5, <2>7, LenProperties DEF PostsCounted
    <3> QED
      BY <2>6, <2>7, <3>1
  <2>9. IsFiniteSet(Bodies)' /\ Cardinality(Bodies)' <= MaxPosts
    BY <2>4 DEF PostsCounted
  <2> QED
    BY <2>1, <2>2, <2>4, <2>5, <2>7, <2>8, <2>9, PostsAt
<1>6. ASSUME NEW n \in Node, Restart(n) PROVE PostsCounted'
  <2>1. /\ waiting' = [waiting EXCEPT ![n] = {}]
        /\ accepted' = [accepted EXCEPT ![n] = <<>>]
        /\ UNCHANGED posted
    BY <1>6 DEF Restart
  <2>2. /\ waiting'[n] = {} /\ accepted'[n] = <<>>
        /\ \A k \in Node : k # n => waiting'[k] = waiting[k] /\ accepted'[k] = accepted[k]
    BY <1>0, <2>1
  <2>3. HeldBy(n)' = {}
    BY <2>2 DEF HeldBy
  <2>4. PostedTo(n)' = PostedTo(n) /\ Bodies' = Bodies
    BY <2>1 DEF PostedTo, Bodies
  <2>5. PICK k \in Nat : k = Cardinality(PostedTo(n))
    BY PostsFinite
  <2>6. Len(<<>>) = 0 /\ Cardinality({}) = 0 /\ 0 + 0 <= k
    BY <2>5, FS_EmptySet
  <2>7. IsFiniteSet(Bodies)' /\ Cardinality(Bodies)' <= MaxPosts
    BY <2>4 DEF PostsCounted
  <2> QED
    BY <2>1, <2>2, <2>3, <2>4, <2>5, <2>6, <2>7, PostsAt
<1>7. CASE Next
  <2>1. PICK n \in Node :
          \/ StartFails(n) \/ Start(n)
          \/ \E t \in Tx : Post(n, [tx |-> t]) \/ HandleTx(n, t)
          \/ \E b \in published \cup OtherBlock :
                Post(n, [block |-> b]) \/ HandleBlock(n, b) \/ HearOutsider(n, b)
          \/ \E m \in inbox[n] : ListenGossip(n, m)
          \/ ForwardGossip(n)
          \/ TakeTx(n) \/ TakeBlock(n) \/ Tick(n)
          \/ Mined(n) \/ MiningFails(n) \/ Publish(n) \/ LoopExit(n)
          \/ StopBegins(n) \/ StopP2P(n) \/ CloseStorage(n)
          \/ Restart(n)
    BY <1>7, Zenon DEF Next
  <2> QED
    BY <2>1, <1>2, <1>3, <1>4, <1>5, <1>6, Zenon
<1> QED
  BY <1>1, <1>7


\* Every step keeps the count of blocks.
LEMMA BlocksCountedStep ==
    ASSUME TxInv, BlocksTyped, BlocksCounted, [Next]_vars
    PROVE  BlocksCounted'
<1>0. /\ loop \in [Node -> {"off", "select", "mining", "publish", "done"}]
      /\ pendingTxs \in [Node -> Seq(Tx)] /\ minedTxs \in [Node -> Seq(Tx)]
      /\ height \in [Node -> Nat]
      /\ \A k \in Node : /\ height[k] <= Len(minedTxs[k])
                         /\ loop[k] \in {"mining", "publish"} => pendingTxs[k] # <<>>
  BY DEF TxInv, BlocksTyped, BlocksCounted
<1> USE DEF p2pVars, chainVars, loopVars, history
<1>1. CASE UNCHANGED vars
  BY <1>0, <1>1 DEF vars, BlocksCounted
<1>2. ASSUME NEW n \in Node,
             \/ StartFails(n) \/ Start(n) \/ \E body : Post(n, body)
             \/ \E t : HandleTx(n, t) \/ \E b : HandleBlock(n, b) \/ HearOutsider(n, b)
             \/ \E m : ListenGossip(n, m) \/ ForwardGossip(n) \/ TakeBlock(n)
             \/ Mined(n) \/ MiningFails(n) \/ LoopExit(n)
             \/ StopBegins(n) \/ StopP2P(n) \/ CloseStorage(n)
      PROVE  BlocksCounted'
  <2>1. UNCHANGED <<height, minedTxs, pendingTxs>>
    BY <1>2 DEF StartFails, Start, Post, HandleTx, HandleBlock, HearOutsider, ListenGossip, ForwardGossip,
                TakeBlock, Mined, MiningFails, LoopExit, StopBegins, StopP2P, CloseStorage
  <2>2. \A k \in Node : loop'[k] \in {"mining", "publish"} => loop[k] \in {"mining", "publish"}
    BY <1>0, <1>2 DEF StartFails, Start, Post, HandleTx, HandleBlock, HearOutsider, ListenGossip,
                ForwardGossip, TakeBlock, Mined, Mining, MiningFails, LoopExit,
                StopBegins, StopP2P, CloseStorage
  <2> QED
    BY <1>0, <2>1, <2>2 DEF BlocksCounted
<1>3. ASSUME NEW n \in Node, TakeTx(n) PROVE BlocksCounted'
  <2>1. /\ UNCHANGED <<height, minedTxs, loop>> /\ loop[n] = "select"
        /\ \A k \in Node : k # n => pendingTxs'[k] = pendingTxs[k]
    BY <1>0, <1>3 DEF TakeTx, Selecting
  <2> QED
    BY <1>0, <2>1 DEF BlocksCounted
<1>4. ASSUME NEW n \in Node, Tick(n) PROVE BlocksCounted'
  <2>1. /\ UNCHANGED <<height, minedTxs, pendingTxs>> /\ pendingTxs[n] # <<>>
        /\ \A k \in Node : k # n => loop'[k] = loop[k]
    BY <1>0, <1>4 DEF Tick, WorthMining
  <2> QED
    BY <1>0, <2>1 DEF BlocksCounted
<1>5. ASSUME NEW n \in Node, Publish(n) PROVE BlocksCounted'
  <2>1. /\ loop[n] = "publish" /\ height' = [height EXCEPT ![n] = @ + 1]
        /\ minedTxs' = [minedTxs EXCEPT ![n] = @ \o hand[n].txs]
        /\ pendingTxs' = [pendingTxs EXCEPT ![n] = <<>>]
        /\ loop' = [loop EXCEPT ![n] = "select"]
    BY <1>5 DEF Publish
  <2>2. PICK a, b \in Seq(Tx) : a = minedTxs[n] /\ b = pendingTxs[n] /\ b = hand[n].txs
    BY <1>0, <2>1 DEF TxInv, HandIsPending
  <2>3. b # <<>> /\ Len(b) \in Nat /\ Len(b) # 0 /\ Len(a) \in Nat
    BY <1>0, <2>1, <2>2, LenProperties, EmptySeq
  <2>4. Len(a \o b) = Len(a) + Len(b)
    BY ConcatProperties
  <2>5. height'[n] = height[n] + 1 /\ minedTxs'[n] = a \o b /\ loop'[n] = "select"
        /\ \A k \in Node : k # n => /\ height'[k] = height[k] /\ minedTxs'[k] = minedTxs[k]
                                    /\ loop'[k] = loop[k] /\ pendingTxs'[k] = pendingTxs[k]
    BY <1>0, <2>1, <2>2
  <2>6. height'[n] <= Len(minedTxs'[n])
    <3>1. height[n] \in Nat /\ height[n] <= Len(a)
      BY <1>0, <2>2
    <3> QED
      BY <2>3, <2>4, <2>5, <3>1
  <2> QED
    BY <1>0, <2>5, <2>6 DEF BlocksCounted
<1>6. ASSUME NEW n \in Node, Restart(n) PROVE BlocksCounted'
  <2>1. /\ height' = [height EXCEPT ![n] = 0] /\ minedTxs' = [minedTxs EXCEPT ![n] = <<>>]
        /\ pendingTxs' = [pendingTxs EXCEPT ![n] = <<>>]
        /\ loop' = [loop EXCEPT ![n] = "off"]
    BY <1>6 DEF Restart
  <2>2. /\ height'[n] = 0 /\ minedTxs'[n] = <<>> /\ loop'[n] = "off"
        /\ \A k \in Node : k # n => /\ height'[k] = height[k] /\ minedTxs'[k] = minedTxs[k]
                                    /\ loop'[k] = loop[k] /\ pendingTxs'[k] = pendingTxs[k]
    BY <1>0, <2>1
  <2> QED
    BY <1>0, <2>2, EmptySeq DEF BlocksCounted
<1>7. CASE Next
  <2>1. PICK n \in Node :
          \/ StartFails(n) \/ Start(n)
          \/ \E t \in Tx : Post(n, [tx |-> t]) \/ HandleTx(n, t)
          \/ \E b \in published \cup OtherBlock :
                Post(n, [block |-> b]) \/ HandleBlock(n, b) \/ HearOutsider(n, b)
          \/ \E m \in inbox[n] : ListenGossip(n, m)
          \/ ForwardGossip(n)
          \/ TakeTx(n) \/ TakeBlock(n) \/ Tick(n)
          \/ Mined(n) \/ MiningFails(n) \/ Publish(n) \/ LoopExit(n)
          \/ StopBegins(n) \/ StopP2P(n) \/ CloseStorage(n)
          \/ Restart(n)
    BY <1>7, Zenon DEF Next
  <2> QED
    BY <2>1, <1>2, <1>3, <1>4, <1>5, <1>6, Zenon
<1> QED
  BY <1>1, <1>7

\* The phases, and what Start has set.
ControlTyped ==
    /\ phase \in [Node -> Phase]
    /\ host \in [Node -> BOOLEAN] /\ topic \in [Node -> BOOLEAN]
    /\ sub \in [Node -> BOOLEAN]

\* The blocks that are on their way.
FlowTyped ==
    /\ faults <= MaxFaults
    /\ \A n \in Node : posted[n] \subseteq Body
    /\ heard \in [Node -> Block \cup {NoBlock}]
    /\ blockChan \in [Node -> Seq(Block)]
    /\ \A n \in Node : Len(blockChan[n]) <= BlockCap /\ Len(txChan[n]) <= TxCap
    /\ hand \in [Node -> MinedBlock \cup {NoBlock}]
    /\ \A n \in Node : loop[n] \in {"mining", "publish"} => hand[n] \in MinedBlock
    /\ \A n \in Node : inbox[n] \subseteq Message
    /\ published \subseteq MinedBlock

\* The blocks that have arrived.
ChainTyped ==
    /\ stateRoot \in [Node -> Seq(Block)]
    /\ \A n \in Node : store[n] \in [DOMAIN store[n] -> Block]

NodeInv ==
    /\ GossipInv /\ PostsCounted /\ BlocksCounted
    /\ ControlTyped /\ FlowTyped /\ ChainTyped

\* The parts are the type invariant.
LEMMA PartsAreType == NodeInv => NodeTypeOK
<1> SUFFICES ASSUME NodeInv PROVE NodeTypeOK
  OBVIOUS
<1>0. /\ GossipInv /\ PostsCounted /\ BlocksCounted /\ ControlTyped /\ FlowTyped /\ ChainTyped
      /\ RootInv /\ MetKnown /\ TxInv /\ BlocksTyped
  BY DEF NodeInv, GossipInv, RootInv
<1>1. height \in [Node -> 0..MaxPosts]
  <2>1. ASSUME NEW n \in Node PROVE height[n] \in 0..MaxPosts
    <3>1. /\ Len(minedTxs[n]) \in Nat /\ Len(pendingTxs[n]) \in Nat
          /\ Len(minedTxs[n]) + Len(pendingTxs[n]) <= MaxPosts
      BY <1>0, AcceptedBounded
    <3>2. height[n] \in Nat /\ height[n] <= Len(minedTxs[n]) /\ MaxPosts \in Nat
      BY <1>0, CapAssumption DEF BlocksTyped, BlocksCounted
    <3>3. PICK h, a, b \in Nat :
            h = height[n] /\ a = Len(minedTxs[n]) /\ b = Len(pendingTxs[n])
      BY <3>1, <3>2
    <3>4. h <= a /\ a + b <= MaxPosts
      BY <3>1, <3>2, <3>3
    <3>5. h \in 0..MaxPosts
      BY <3>2, <3>4
    <3> QED
      BY <3>3, <3>5
  <2> QED
    BY <1>0, <2>1 DEF BlocksTyped
<1>2. faults \in 0..MaxFaults
  BY <1>0, CapAssumption DEF BlocksTyped, FlowTyped
<1>3. \A n \in Node : waiting[n] \subseteq Body /\ posted[n] \subseteq Body
  BY <1>0 DEF MetKnown, FlowTyped
<1>4. /\ loop \in [Node -> {"off", "select", "mining", "publish", "done"}]
      /\ accepted \in [Node -> Seq(Tx)] /\ minedTxs \in [Node -> Seq(Tx)]
      /\ pendingTxs \in [Node -> Seq(Tx)] /\ \A n \in Node : txChan[n] \in Seq(Tx)
  BY <1>0 DEF TxInv
<1>5. /\ heard \in [Node -> Block \cup {NoBlock}]
      /\ \A n \in Node : blockChan[n] \in Seq(Block)
      /\ \A n \in Node : Len(blockChan[n]) <= BlockCap /\ Len(txChan[n]) <= TxCap
      /\ hand \in [Node -> MinedBlock \cup {NoBlock}]
      /\ \A n \in Node : inbox[n] \subseteq Message
      /\ published \subseteq MinedBlock
  BY <1>0 DEF FlowTyped
<1>6. /\ phase \in [Node -> Phase]
      /\ host \in [Node -> BOOLEAN] /\ topic \in [Node -> BOOLEAN]
      /\ sub \in [Node -> BOOLEAN]
  BY <1>0, Zenon DEF ControlTyped
<1>7. /\ stateRoot \in [Node -> Seq(Block)]
      /\ \A n \in Node : store[n] \in [DOMAIN store[n] -> Block]
  BY <1>0 DEF ChainTyped
<1> QED
  BY <1>1, <1>2, <1>3, <1>4, <1>5, <1>6, <1>7, Zenon DEF NodeTypeOK


\* Every step keeps the phases typed.
LEMMA ControlStep == ControlTyped /\ [Next]_vars => ControlTyped'
<1> SUFFICES ASSUME ControlTyped, [Next]_vars PROVE ControlTyped'
  OBVIOUS
<1> USE DEF p2pVars, chainVars, loopVars, history
<1>0. /\ phase \in [Node -> Phase]
      /\ host \in [Node -> BOOLEAN] /\ topic \in [Node -> BOOLEAN]
      /\ sub \in [Node -> BOOLEAN]
  BY DEF ControlTyped
<1>1. CASE UNCHANGED vars
  BY <1>1, Zenon DEF vars, ControlTyped
<1>2. ASSUME NEW n \in Node,
             \/ \E body : Post(n, body)
             \/ \E t : HandleTx(n, t) \/ \E b : HandleBlock(n, b) \/ HearOutsider(n, b)
             \/ \E m : ListenGossip(n, m) \/ ForwardGossip(n) \/ TakeTx(n)
             \/ Tick(n) \/ MiningFails(n) \/ Publish(n) \/ LoopExit(n)
      PROVE  ControlTyped'
  <2>1. UNCHANGED <<phase, host, topic, sub>>
    BY <1>2 DEF Post, HandleTx, HandleBlock, HearOutsider, ListenGossip, ForwardGossip, TakeTx,
                Tick, MiningFails, Publish, LoopExit
  <2> QED
    BY <2>1 DEF ControlTyped
<1>3. ASSUME NEW n \in Node,
             \/ TakeBlock(n) \/ Mined(n) \/ StopBegins(n) \/ StopP2P(n) \/ CloseStorage(n)
      PROVE  ControlTyped'
  <2>1. UNCHANGED <<host, topic, sub>>
    BY <1>3 DEF TakeBlock, Mined, StopBegins, StopP2P, CloseStorage
  <2>2. \E p \in Phase : phase' = phase \/ phase' = [phase EXCEPT ![n] = p]
    BY <1>3 DEF TakeBlock, Mined, StopBegins, StopP2P, CloseStorage, Apply, Panics, Applied,
                Rejected, Phase
  <2>3. phase' \in [Node -> Phase]
    BY <1>0, <2>2
  <2> QED
    BY <2>1, <2>3 DEF ControlTyped
<1>4. ASSUME NEW n \in Node, StartFails(n) PROVE ControlTyped'
  <2>1. /\ UNCHANGED <<phase, sub>>
        /\ \E h \in BOOLEAN : host' = [host EXCEPT ![n] = h]
        /\ \E h \in BOOLEAN : topic' = [topic EXCEPT ![n] = h]
    BY <1>4 DEF StartFails
  <2>2. host' \in [Node -> BOOLEAN] /\ topic' \in [Node -> BOOLEAN]
    BY <1>0, <2>1
  <2> QED
    BY <2>1, <2>2 DEF ControlTyped
<1>5. ASSUME NEW n \in Node, Start(n) PROVE ControlTyped'
  <2>1. /\ phase' = [phase EXCEPT ![n] = "running"]
        /\ host' = [host EXCEPT ![n] = TRUE]
        /\ \E h \in BOOLEAN : topic' = [topic EXCEPT ![n] = h]
        /\ \E h \in BOOLEAN : sub' = [sub EXCEPT ![n] = h]
    <3>1. Joins(n) \in BOOLEAN /\ (topic[n] \/ Joins(n)) \in BOOLEAN
      BY DEF Joins
    <3>2. /\ topic' = [topic EXCEPT ![n] = topic[n] \/ Joins(n)]
          /\ sub' = [sub EXCEPT ![n] = Joins(n)]
      BY <1>5, Zenon DEF Start
    <3>3. /\ \E h \in BOOLEAN : topic' = [topic EXCEPT ![n] = h]
          /\ \E h \in BOOLEAN : sub' = [sub EXCEPT ![n] = h]
      BY <3>1, <3>2, Zenon
    <3> QED
      BY <1>5, <3>3, Zenon DEF Start
  <2>2. phase' \in [Node -> Phase]
    BY <1>0, <2>1 DEF Phase
  <2>3. /\ host' \in [Node -> BOOLEAN] /\ topic' \in [Node -> BOOLEAN]
        /\ sub' \in [Node -> BOOLEAN]
    BY <1>0, <2>1
  <2> QED
    BY <2>2, <2>3 DEF ControlTyped
<1>6. ASSUME NEW n \in Node, Restart(n) PROVE ControlTyped'
  <2>1. /\ phase' = [phase EXCEPT ![n] = "new"]
        /\ host' = [host EXCEPT ![n] = FALSE]
        /\ topic' = [topic EXCEPT ![n] = FALSE]
        /\ sub' = [sub EXCEPT ![n] = FALSE]
    BY <1>6 DEF Restart
  <2>2. phase' \in [Node -> Phase]
    BY <1>0, <2>1 DEF Phase
  <2>3. /\ host' \in [Node -> BOOLEAN] /\ topic' \in [Node -> BOOLEAN]
        /\ sub' \in [Node -> BOOLEAN]
    BY <1>0, <2>1
  <2> QED
    BY <2>2, <2>3 DEF ControlTyped
<1>7. CASE Next
  <2>1. PICK n \in Node :
          \/ StartFails(n) \/ Start(n)
          \/ \E t \in Tx : Post(n, [tx |-> t]) \/ HandleTx(n, t)
          \/ \E b \in published \cup OtherBlock :
                Post(n, [block |-> b]) \/ HandleBlock(n, b) \/ HearOutsider(n, b)
          \/ \E m \in inbox[n] : ListenGossip(n, m)
          \/ ForwardGossip(n)
          \/ TakeTx(n) \/ TakeBlock(n) \/ Tick(n)
          \/ Mined(n) \/ MiningFails(n) \/ Publish(n) \/ LoopExit(n)
          \/ StopBegins(n) \/ StopP2P(n) \/ CloseStorage(n)
          \/ Restart(n)
    BY <1>7, Zenon DEF Next
  <2> QED
    BY <2>1, <1>2, <1>3, <1>4, <1>5, <1>6, Zenon
<1> QED
  BY <1>1, <1>7

\* Apply keeps root and storage typed.
LEMMA ApplyTyped ==
    ASSUME RootKept, ChainTyped, NEW n \in Node, NEW b \in Block, Apply(n, b)
    PROVE  ChainTyped'
<1>0. /\ stateRoot \in [Node -> Seq(Block)]
      /\ \A k \in Node : store[k] \in [DOMAIN store[k] -> Block]
      /\ store = [k \in Node |-> store[k]]
  BY DEF ChainTyped, RootKept
<1>1. CASE UNCHANGED <<stateRoot, store>>
  BY <1>0, <1>1 DEF ChainTyped
<1>2. CASE Applied(n, b)
  <2>1. /\ store' = [store EXCEPT ![n] = Stored(@, b)]
        /\ stateRoot' = [stateRoot EXCEPT ![n] = Append(@, b)]
    BY <1>2 DEF Applied, Put
  <2>3. Append(stateRoot[n], b) \in Seq(Block)
    BY <1>0, AppendProperties
  <2>4. stateRoot' \in [Node -> Seq(Block)]
    BY <1>0, <2>1, <2>3
  <2>5. PICK s, u : s = store[n] /\ u = Stored(s, b)
    OBVIOUS
  <2>6. u \in [DOMAIN u -> Block]
    <3>1. s \in [DOMAIN s -> Block]
      BY <1>0, <2>5
    <3> QED
      BY <2>5, <3>1 DEF Stored
  <2>7. \A k \in Node : store'[k] = IF k = n THEN u ELSE store[k]
    BY <1>0, <2>1, <2>5
  <2>8. \A k \in Node : store'[k] \in [DOMAIN store'[k] -> Block]
    BY <1>0, <2>6, <2>7
  <2> QED
    BY <2>4, <2>8 DEF ChainTyped
<1> QED
  BY <1>1, <1>2 DEF Apply, Panics, Rejected

\* Every step keeps root and storage typed.
LEMMA ChainStep ==
    ASSUME RootKept, FlowTyped, ChainTyped, [Next]_vars
    PROVE  ChainTyped'
<1> USE DEF p2pVars, chainVars, loopVars, history
<1>0. /\ stateRoot \in [Node -> Seq(Block)]
      /\ \A k \in Node : store[k] \in [DOMAIN store[k] -> Block]
      /\ store = [k \in Node |-> store[k]]
      /\ blockChan \in [Node -> Seq(Block)]
      /\ \A k \in Node : loop[k] \in {"mining", "publish"} => hand[k] \in MinedBlock
  BY DEF ChainTyped, RootKept, FlowTyped
<1>1. ASSUME UNCHANGED <<stateRoot, store>> PROVE ChainTyped'
  BY <1>0, <1>1 DEF ChainTyped
<1>2. ASSUME NEW n \in Node,
             \/ StartFails(n) \/ Start(n) \/ \E body : Post(n, body)
             \/ \E t : HandleTx(n, t) \/ \E b : HandleBlock(n, b) \/ HearOutsider(n, b)
             \/ \E m : ListenGossip(n, m) \/ ForwardGossip(n) \/ TakeTx(n)
             \/ Tick(n) \/ MiningFails(n) \/ Publish(n) \/ LoopExit(n)
             \/ StopBegins(n) \/ StopP2P(n)
      PROVE  ChainTyped'
  <2>1. UNCHANGED <<stateRoot, store>>
    BY <1>2 DEF StartFails, Start, Post, HandleTx, HandleBlock, HearOutsider, ListenGossip, ForwardGossip,
                TakeTx, Tick, MiningFails, Publish, LoopExit, StopBegins, StopP2P
  <2> QED
    BY <1>1, <2>1
<1>3. ASSUME NEW n \in Node, TakeBlock(n) PROVE ChainTyped'
  <2>1. blockChan[n] # <<>> /\ Apply(n, Head(blockChan[n]))
    BY <1>3 DEF TakeBlock
  <2>2. Head(blockChan[n]) \in Block
    BY <1>0, <2>1, HeadTailProperties
  <2> QED
    BY <2>1, <2>2, ApplyTyped
<1>4. ASSUME NEW n \in Node, Mined(n) PROVE ChainTyped'
  <2>1. hand[n] \in Block /\ Apply(n, hand[n])
    BY <1>0, <1>4 DEF Mined, Mining, Block
  <2> QED
    BY <2>1, ApplyTyped
<1>5. ASSUME NEW n \in Node, CloseStorage(n) \/ Restart(n) PROVE ChainTyped'
  <2>1. /\ store' = [store EXCEPT ![n] = AfterClose(n)]
        /\ stateRoot' = stateRoot \/ stateRoot' = [stateRoot EXCEPT ![n] = <<>>]
    BY <1>5 DEF CloseStorage, Restart
  <2>2. stateRoot' \in [Node -> Seq(Block)]
    BY <1>0, <2>1, EmptySeq
  <2>3. PICK u : u = AfterClose(n)
    OBVIOUS
  <2>4. u \in [DOMAIN u -> Block]
    <3>1. u = <<>> \/ u = store[n]
      BY <2>3 DEF AfterClose
    <3>2. <<>> \in [DOMAIN <<>> -> Block]
      OBVIOUS
    <3> QED
      BY <1>0, <3>1, <3>2
  <2>5. \A k \in Node : store'[k] = IF k = n THEN u ELSE store[k]
    BY <1>0, <2>1, <2>3
  <2>6. \A k \in Node : store'[k] \in [DOMAIN store'[k] -> Block]
    BY <1>0, <2>4, <2>5
  <2> QED
    BY <2>2, <2>6 DEF ChainTyped
<1>6. CASE UNCHANGED vars
  BY <1>1, <1>6 DEF vars
<1>7. CASE Next
  <2>1. PICK n \in Node :
          \/ StartFails(n) \/ Start(n)
          \/ \E t \in Tx : Post(n, [tx |-> t]) \/ HandleTx(n, t)
          \/ \E b \in published \cup OtherBlock :
                Post(n, [block |-> b]) \/ HandleBlock(n, b) \/ HearOutsider(n, b)
          \/ \E m \in inbox[n] : ListenGossip(n, m)
          \/ ForwardGossip(n)
          \/ TakeTx(n) \/ TakeBlock(n) \/ Tick(n)
          \/ Mined(n) \/ MiningFails(n) \/ Publish(n) \/ LoopExit(n)
          \/ StopBegins(n) \/ StopP2P(n) \/ CloseStorage(n)
          \/ Restart(n)
    BY <1>7, Zenon DEF Next
  <2> QED
    BY <2>1, <1>2, <1>3, <1>4, <1>5, Zenon
<1> QED
  BY <1>6, <1>7

\* The block that a tick puts in a node's hand has a type: there is room for
\* one more height.
LEMMA TickTyped ==
    ASSUME TxInv, BlocksTyped, MetKnown, PostsCounted, BlocksCounted, FlowTyped,
           NEW n \in Node, pendingTxs[n] # <<>>
    PROVE  [index |-> 1, txs |-> pendingTxs[n],
            hash |-> [miner |-> n, boot |-> faults, seq |-> height[n] + 1]] \in MinedBlock
<1>1. /\ Len(minedTxs[n]) \in Nat /\ Len(pendingTxs[n]) \in Nat
      /\ Len(minedTxs[n]) + Len(pendingTxs[n]) <= MaxPosts
  BY AcceptedBounded
<1>2. /\ height[n] \in Nat /\ height[n] <= Len(minedTxs[n]) /\ MaxPosts \in Nat
      /\ pendingTxs[n] \in Seq(Tx)
  BY CapAssumption DEF BlocksTyped, BlocksCounted, TxInv
<1>3. Len(pendingTxs[n]) # 0
  BY <1>2, EmptySeq
<1>4. PICK h, a, b \in Nat :
        h = height[n] /\ a = Len(minedTxs[n]) /\ b = Len(pendingTxs[n])
  BY <1>1, <1>2
<1>5. h <= a /\ a + b <= MaxPosts /\ b # 0
  BY <1>1, <1>2, <1>3, <1>4
<1>6. h + 1 \in 1..MaxPosts
  BY <1>2, <1>5
<1>7. faults \in 0..MaxFaults
  BY CapAssumption DEF BlocksTyped, FlowTyped
<1>8. [miner |-> n, boot |-> faults, seq |-> height[n] + 1] \in BlockHash
  BY <1>4, <1>6, <1>7 DEF BlockHash
<1> QED
  BY <1>2, <1>8 DEF MinedBlock

\* A channel with room takes one more.
LEMMA RoomForOne ==
    ASSUME NEW S, NEW c \in Seq(S), NEW e \in S, NEW cap \in Nat, Room(c, cap)
    PROVE  Append(c, e) \in Seq(S) /\ Len(Append(c, e)) <= cap
<1>1. Len(c) \in Nat /\ Len(c) < cap
  BY LenProperties DEF Room
<1>2. Append(c, e) \in Seq(S) /\ Len(Append(c, e)) = Len(c) + 1
  BY AppendProperties
<1> QED
  BY <1>1, <1>2

\* What is taken from a channel makes it shorter.
LEMMA OneTaken ==
    ASSUME NEW S, NEW c \in Seq(S), c # <<>>, NEW cap \in Nat, Len(c) <= cap
    PROVE  Tail(c) \in Seq(S) /\ Len(Tail(c)) <= cap
<1>1. Tail(c) \in Seq(S) /\ Len(Tail(c)) = Len(c) - 1
  BY HeadTailProperties
<1>2. Len(c) \in Nat
  BY LenProperties
<1> QED
  BY <1>1, <1>2

\* Every step keeps what is on its way typed, and the channels within bounds.
LEMMA FlowStep ==
    ASSUME TxInv, BlocksTyped, MetKnown, PostsCounted, BlocksCounted, FlowTyped, [Next]_vars
    PROVE  FlowTyped'
<1> USE DEF p2pVars, chainVars, loopVars, history
<1>0. /\ faults \in Nat /\ faults <= MaxFaults /\ MaxFaults \in Nat
      /\ BlockCap \in Nat /\ TxCap \in Nat
      /\ posted = [k \in Node |-> posted[k]] /\ inbox = [k \in Node |-> inbox[k]]
      /\ \A k \in Node : posted[k] \subseteq Body
      /\ heard \in [Node -> Block \cup {NoBlock}]
      /\ blockChan \in [Node -> Seq(Block)]
      /\ \A k \in Node : Len(blockChan[k]) <= BlockCap /\ Len(txChan[k]) <= TxCap
      /\ hand \in [Node -> MinedBlock \cup {NoBlock}]
      /\ \A k \in Node : loop[k] \in {"mining", "publish"} => hand[k] \in MinedBlock
      /\ \A k \in Node : inbox[k] \subseteq Message
      /\ published \subseteq MinedBlock
      /\ loop \in [Node -> {"off", "select", "mining", "publish", "done"}]
      /\ txChan \in [Node -> Seq(Tx)]
  BY CapAssumption DEF TxInv, BlocksTyped, MetKnown, FlowTyped
<1>1. CASE UNCHANGED vars
  BY <1>0, <1>1 DEF vars, FlowTyped
<1>2. ASSUME NEW n \in Node,
             \/ StartFails(n) \/ Start(n) \/ Mined(n) \/ MiningFails(n) \/ LoopExit(n)
             \/ StopBegins(n) \/ StopP2P(n) \/ CloseStorage(n)
      PROVE  FlowTyped'
  <2>1. faults' <= MaxFaults
    <3>1. faults' = faults \/ Fault
      BY <1>2 DEF StartFails, Start, Mined, MiningFails, LoopExit,
                  StopBegins, StopP2P, CloseStorage, Apply, Panics, Applied, Rejected
    <3> QED
      BY <1>0, <3>1 DEF Fault
  <2>2. UNCHANGED <<posted, published, inbox, heard, blockChan, txChan>>
    BY <1>2 DEF StartFails, Start, Mined, MiningFails, LoopExit,
                StopBegins, StopP2P, CloseStorage
  <2>3. hand' = hand \/ (MiningFails(n) /\ hand' = [hand EXCEPT ![n] = NoBlock])
    BY <1>2 DEF StartFails, Start, Mined, MiningFails, LoopExit,
                StopBegins, StopP2P, CloseStorage
  <2>4. \A k \in Node : loop'[k] \in {"mining", "publish"}
                         => /\ loop[k] \in {"mining", "publish"}
                            /\ MiningFails(n) => k # n
    BY <1>0, <1>2 DEF StartFails, Start, Mined, Mining, MiningFails, LoopExit,
                      StopBegins, StopP2P, CloseStorage
  <2>5. /\ hand' \in [Node -> MinedBlock \cup {NoBlock}]
        /\ \A k \in Node : loop'[k] \in {"mining", "publish"} => hand'[k] \in MinedBlock
    BY <1>0, <2>3, <2>4
  <2> QED
    BY <1>0, <2>1, <2>2, <2>5 DEF FlowTyped
<1>3. ASSUME NEW n \in Node, NEW body \in Body, Post(n, body) PROVE FlowTyped'
  <2>1. /\ posted' = [posted EXCEPT ![n] = @ \cup {body}]
        /\ UNCHANGED <<faults, published, inbox, heard, blockChan, txChan, hand, loop>>
    BY <1>3 DEF Post, Sent
  <2>2. \A k \in Node : posted'[k] \subseteq Body
    BY <1>0, <2>1
  <2> QED
    BY <1>0, <2>1, <2>2 DEF FlowTyped
<1>4. ASSUME NEW n \in Node, NEW t \in Tx, HandleTx(n, t) PROVE FlowTyped'
  <2>1. /\ Room(txChan[n], TxCap) /\ txChan' = [txChan EXCEPT ![n] = Append(@, t)]
        /\ UNCHANGED <<faults, posted, published, inbox, heard, blockChan, hand, loop>>
    BY <1>4 DEF HandleTx
  <2>2. Len(Append(txChan[n], t)) <= TxCap
    BY <1>0, <2>1, RoomForOne
  <2>3. \A k \in Node : Len(txChan'[k]) <= TxCap
    BY <1>0, <2>1, <2>2
  <2> QED
    BY <1>0, <2>1, <2>3 DEF FlowTyped
<1>5. ASSUME NEW n \in Node, NEW b \in Block, Room(blockChan[n], BlockCap),
             blockChan' = [blockChan EXCEPT ![n] = Append(@, b)]
      PROVE  /\ blockChan' \in [Node -> Seq(Block)]
             /\ \A k \in Node : Len(blockChan'[k]) <= BlockCap
  <2>1. Append(blockChan[n], b) \in Seq(Block) /\ Len(Append(blockChan[n], b)) <= BlockCap
    BY <1>0, <1>5, RoomForOne
  <2> QED
    BY <1>0, <1>5, <2>1
<1>6. ASSUME NEW n \in Node, NEW b \in published \cup OtherBlock, HandleBlock(n, b)
      PROVE  FlowTyped'
  <2>1. /\ Room(blockChan[n], BlockCap) /\ blockChan' = [blockChan EXCEPT ![n] = Append(@, b)]
        /\ UNCHANGED <<faults, posted, published, inbox, heard, txChan, hand, loop>>
    BY <1>6 DEF HandleBlock
  <2>2. b \in Block
    BY <1>0 DEF Block
  <2> QED
    BY <1>0, <1>5, <2>1, <2>2 DEF FlowTyped
<1>6a. ASSUME NEW n \in Node, NEW b \in published \cup OtherBlock, HearOutsider(n, b)
      PROVE  FlowTyped'
  <2>1. /\ posted' = [posted EXCEPT ![n] = @ \cup {[block |-> b]}]
        /\ heard' = [heard EXCEPT ![n] = b]
        /\ UNCHANGED <<faults, published, inbox, blockChan, txChan, hand, loop>>
    BY <1>6a DEF HearOutsider, Sent
  <2>2. b \in Block /\ [block |-> b] \in Body
    BY <1>0 DEF Block, Body
  <2>3. heard' \in [Node -> Block \cup {NoBlock}]
    BY <1>0, <2>1, <2>2
  <2>4. \A k \in Node : posted'[k] \subseteq Body
    BY <1>0, <2>1, <2>2
  <2> QED
    BY <1>0, <2>1, <2>3, <2>4 DEF FlowTyped
<1>7. ASSUME NEW n \in Node, NEW m \in inbox[n], ListenGossip(n, m) PROVE FlowTyped'
  <2>1. /\ inbox' = [inbox EXCEPT ![n] = @ \ {m}]
        /\ heard' = [heard EXCEPT ![n] = IF Foreign(n, m) THEN m.block ELSE NoBlock]
        /\ UNCHANGED <<faults, posted, published, blockChan, txChan, hand, loop>>
    BY <1>7 DEF ListenGossip
  <2>2. m.block \in Block
    BY <1>0 DEF Message, Block
  <2>3. heard' \in [Node -> Block \cup {NoBlock}]
    BY <1>0, <2>1, <2>2
  <2>4. \A k \in Node : inbox'[k] \subseteq Message
    BY <1>0, <2>1
  <2> QED
    BY <1>0, <2>1, <2>3, <2>4 DEF FlowTyped
<1>8. ASSUME NEW n \in Node, ForwardGossip(n) PROVE FlowTyped'
  <2>1. /\ Room(blockChan[n], BlockCap) /\ heard[n] # NoBlock
        /\ blockChan' = [blockChan EXCEPT ![n] = Append(@, heard[n])]
        /\ heard' = [heard EXCEPT ![n] = NoBlock]
        /\ UNCHANGED <<faults, posted, published, inbox, txChan, hand, loop>>
    BY <1>8 DEF ForwardGossip
  <2>2. heard[n] \in Block
    BY <1>0, <2>1
  <2>3. heard' \in [Node -> Block \cup {NoBlock}]
    BY <1>0, <2>1
  <2> QED
    BY <1>0, <1>5, <2>1, <2>2, <2>3 DEF FlowTyped
<1>9. ASSUME NEW n \in Node, TakeTx(n) PROVE FlowTyped'
  <2>1. /\ txChan[n] # <<>> /\ txChan' = [txChan EXCEPT ![n] = Tail(@)]
        /\ UNCHANGED <<faults, posted, published, inbox, heard, blockChan, hand, loop>>
    BY <1>9 DEF TakeTx
  <2>2. Len(Tail(txChan[n])) <= TxCap
    BY <1>0, <2>1, OneTaken
  <2>3. \A k \in Node : Len(txChan'[k]) <= TxCap
    BY <1>0, <2>1, <2>2
  <2> QED
    BY <1>0, <2>1, <2>3 DEF FlowTyped
<1>10. ASSUME NEW n \in Node, TakeBlock(n) PROVE FlowTyped'
  <2>1. /\ blockChan[n] # <<>> /\ blockChan' = [blockChan EXCEPT ![n] = Tail(@)]
        /\ UNCHANGED <<posted, published, inbox, heard, txChan, hand, loop>>
    BY <1>10 DEF TakeBlock
  <2>2. faults' <= MaxFaults
    <3>1. faults' = faults \/ Fault
      BY <1>10 DEF TakeBlock, Apply, Panics, Applied, Rejected
    <3> QED
      BY <1>0, <3>1 DEF Fault
  <2>3. Tail(blockChan[n]) \in Seq(Block) /\ Len(Tail(blockChan[n])) <= BlockCap
    BY <1>0, <2>1, OneTaken
  <2>4. /\ blockChan' \in [Node -> Seq(Block)]
        /\ \A k \in Node : Len(blockChan'[k]) <= BlockCap
    BY <1>0, <2>1, <2>3
  <2> QED
    BY <1>0, <2>1, <2>2, <2>4 DEF FlowTyped
<1>11. ASSUME NEW n \in Node, Tick(n) PROVE FlowTyped'
  <2>1. PICK b : b = [index |-> 1, txs |-> pendingTxs[n],
                      hash |-> [miner |-> n, boot |-> faults, seq |-> height[n] + 1]]
    OBVIOUS
  <2>2. /\ pendingTxs[n] # <<>> /\ loop' = [loop EXCEPT ![n] = "mining"]
        /\ hand' = [hand EXCEPT ![n] = b]
        /\ UNCHANGED <<faults, posted, published, inbox, heard, blockChan, txChan>>
    BY <1>11, <2>1 DEF Tick, WorthMining
  <2>3. b \in MinedBlock
    BY <2>1, <2>2, TickTyped
  <2>4. /\ hand' \in [Node -> MinedBlock \cup {NoBlock}]
        /\ \A k \in Node : loop'[k] \in {"mining", "publish"} => hand'[k] \in MinedBlock
    BY <1>0, <2>2, <2>3
  <2> QED
    BY <1>0, <2>2, <2>4 DEF FlowTyped
<1>12. ASSUME NEW n \in Node, Publish(n) PROVE FlowTyped'
  <2>1. PICK b : b = hand[n]
    OBVIOUS
  <2>2. /\ loop[n] = "publish" /\ loop' = [loop EXCEPT ![n] = "select"]
        /\ hand' = [hand EXCEPT ![n] = NoBlock]
        /\ inbox' = [m \in Node |-> IF m \in Reached(n)
                                      THEN inbox[m] \cup {[from |-> n, block |-> b]}
                                      ELSE inbox[m]]
        /\ published' = published \cup {b}
        /\ UNCHANGED <<faults, posted, heard, blockChan, txChan>>
    BY <1>12, <2>1 DEF Publish
  <2>3. b \in MinedBlock
    BY <1>0, <2>1, <2>2
  <2>4. [from |-> n, block |-> b] \in Message
    BY <2>3 DEF Message
  <2>5. \A k \in Node : inbox'[k] \subseteq Message
    BY <1>0, <2>2, <2>4
  <2>6. /\ hand' \in [Node -> MinedBlock \cup {NoBlock}]
        /\ \A k \in Node : loop'[k] \in {"mining", "publish"} => hand'[k] \in MinedBlock
    BY <1>0, <2>2
  <2>7. published' \subseteq MinedBlock
    BY <1>0, <2>2, <2>3
  <2> QED
    BY <1>0, <2>2, <2>5, <2>6, <2>7 DEF FlowTyped
<1>13. ASSUME NEW n \in Node, Restart(n) PROVE FlowTyped'
  <2>1. /\ Fault /\ heard' = [heard EXCEPT ![n] = NoBlock]
        /\ txChan' = [txChan EXCEPT ![n] = <<>>] /\ blockChan' = [blockChan EXCEPT ![n] = <<>>]
        /\ hand' = [hand EXCEPT ![n] = NoBlock] /\ loop' = [loop EXCEPT ![n] = "off"]
        /\ inbox' = [inbox EXCEPT ![n] = {}]
        /\ UNCHANGED <<posted, published>>
    BY <1>13 DEF Restart
  <2>2. faults' <= MaxFaults
    BY <1>0, <2>1 DEF Fault
  <2>3. /\ blockChan' \in [Node -> Seq(Block)]
        /\ \A k \in Node : Len(blockChan'[k]) <= BlockCap /\ Len(txChan'[k]) <= TxCap
    BY <1>0, <2>1, EmptySeq
  <2>4. /\ hand' \in [Node -> MinedBlock \cup {NoBlock}]
        /\ \A k \in Node : loop'[k] \in {"mining", "publish"} => hand'[k] \in MinedBlock
    BY <1>0, <2>1
  <2>5. heard' \in [Node -> Block \cup {NoBlock}] /\ \A k \in Node : inbox'[k] \subseteq Message
    BY <1>0, <2>1
  <2> QED
    BY <1>0, <2>1, <2>2, <2>3, <2>4, <2>5 DEF FlowTyped
<1>14. CASE Next
  <2>1. PICK n \in Node :
          \/ StartFails(n) \/ Start(n)
          \/ \E t \in Tx : Post(n, [tx |-> t]) \/ HandleTx(n, t)
          \/ \E b \in published \cup OtherBlock :
                Post(n, [block |-> b]) \/ HandleBlock(n, b) \/ HearOutsider(n, b)
          \/ \E m \in inbox[n] : ListenGossip(n, m)
          \/ ForwardGossip(n)
          \/ TakeTx(n) \/ TakeBlock(n) \/ Tick(n)
          \/ Mined(n) \/ MiningFails(n) \/ Publish(n) \/ LoopExit(n)
          \/ StopBegins(n) \/ StopP2P(n) \/ CloseStorage(n)
          \/ Restart(n)
    BY <1>14, Zenon DEF Next
  <2>2. (\A t \in Tx : [tx |-> t] \in Body) /\ (\A b \in published \cup OtherBlock : [block |-> b] \in Body)
    BY <1>0 DEF Body, Block
  <2> QED
    BY <2>1, <2>2, <1>2, <1>3, <1>4, <1>6, <1>6a, <1>7, <1>8, <1>9, <1>10, <1>11, <1>12, <1>13, Zenon
<1> QED
  BY <1>1, <1>14

\* The parts hold at the start and every step keeps them, given that the
\* invariant of gossip does.
LEMMA NodeInvariance == Safety => []NodeInv
<1>1. Init /\ GossipInv => NodeInv
  <2> SUFFICES ASSUME Init, GossipInv PROVE NodeInv
    OBVIOUS
  <2>1. PostsCounted
    <3>1. /\ \A n \in Node : posted[n] = {} /\ waiting[n] = {} /\ accepted[n] = <<>>
      BY DEF Init
    <3>2. Bodies = {} /\ \A n \in Node : PostedTo(n) = {} /\ HeldBy(n) = {}
      BY <3>1 DEF Bodies, PostedTo, HeldBy
    <3>3. IsFiniteSet({}) /\ Cardinality({}) = 0 /\ MaxPosts \in Nat /\ Len(<<>>) = 0
      BY FS_EmptySet, CapAssumption
    <3>4. IsFiniteSet(Bodies) /\ Cardinality(Bodies) <= MaxPosts
      BY <3>2, <3>3
    <3>5. ASSUME NEW n \in Node
          PROVE  Len(accepted[n]) + Cardinality(HeldBy(n)) <= Cardinality(PostedTo(n))
      <4>1. /\ Len(accepted[n]) = 0 /\ Cardinality(HeldBy(n)) = 0
            /\ Cardinality(PostedTo(n)) = 0
        BY <3>1, <3>2, <3>3
      <4> QED
        BY <4>1
    <3> QED
      BY <3>4, <3>5 DEF PostsCounted
  <2>2. BlocksCounted
    BY DEF Init, BlocksCounted
  <2>3. ControlTyped
    BY DEF Init, ControlTyped, Phase
  <2>4. FlowTyped
    BY CapAssumption, EmptySeq DEF Init, FlowTyped
  <2>5. ChainTyped
    <3>1. <<>> \in [DOMAIN <<>> -> Block] /\ <<>> \in Seq(Block)
      BY EmptySeq
    <3> QED
      BY <3>1 DEF Init, ChainTyped
  <2> QED
    BY <2>1, <2>2, <2>3, <2>4, <2>5 DEF NodeInv
<1>2. NodeInv /\ [Next]_vars /\ GossipInv' => NodeInv'
  <2> SUFFICES ASSUME NodeInv, [Next]_vars, GossipInv' PROVE NodeInv'
    OBVIOUS
  <2>1. /\ PostsCounted /\ BlocksCounted /\ ControlTyped /\ FlowTyped /\ ChainTyped
        /\ RootKept /\ MetKnown /\ TxInv /\ BlocksTyped
    BY DEF NodeInv, GossipInv, RootInv
  <2>2. PostsCounted' /\ BlocksCounted'
    BY <2>1, PostsStep, BlocksCountedStep
  <2>3. ControlTyped' /\ ChainTyped'
    BY <2>1, ControlStep, ChainStep
  <2>4. FlowTyped'
    BY <2>1, FlowStep
  <2> QED
    BY <2>2, <2>3, <2>4 DEF NodeInv
<1> QED
  BY <1>1, <1>2, GossipInvariance, PTL DEF Safety

\* Type correctness of the nodes: in particular no channel ever holds more
\* than its capacity, whatever handlers and listeners race to fill it, and a
\* node mines no more blocks in a boot than bodies were posted.
THEOREM NodeTyped == Spec => []NodeTypeOK
BY NodeInvariance, PartsAreType, PTL DEF Spec

=============================================================================
