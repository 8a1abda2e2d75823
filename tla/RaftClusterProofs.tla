-------------------------- MODULE RaftClusterProofs --------------------------
(***************************************************************************)
(* The cluster with one engine that may lead and a store that does not     *)
(* fail, for every number of followers, every bound, and every loss, crash *)
(* and compaction.  Three layers, each resting on the one before:          *)
(*                                                                         *)
(*   LogInv       every log and every message is a piece of the one order, *)
(*                whatever the transport does;                             *)
(*   InOrderInv   with a transport that keeps the order of messages, no    *)
(*                log is cut below what was committed;                     *)
(*   DeliveryInv  with a channel as large as the log, what the application *)
(*                of a follower was handed is what its engine counts as    *)
(*                applied: the followers implement atomic broadcast.       *)
(***************************************************************************)
EXTENDS RaftCluster, RaftEngineProofs

SingleLeader == ~StorageMayFail /\ \E l \in Server : Active = {l}

Message == [term : Nat, prevLogIndex : Nat, prevLogTerm : Nat,
            entries : Seq(LogEntry), leaderCommit : Nat]

\* The log index up to which a message reaches.
End(m) == m.prevLogIndex + Len(m.entries)

\* The log index of the last entry of a log cut at index n.
LastOf(lg, n) == n + Len(lg) - 1

\* A log whose sentinel has index n holds the entries of ord after n.
Piece(lg, n, ord) ==
    /\ Len(lg) >= 1
    /\ lg[1].index = n /\ lg[1].data = NoData
    /\ LastOf(lg, n) <= Len(ord)
    /\ \A k \in 2..Len(lg) : lg[k] = ord[n + k - 1]

\* A message carries the entries of ord after its prevLogIndex.
Excerpt(m, ord) ==
    /\ End(m) <= Len(ord)
    /\ \A k \in 1..Len(m.entries) : m.entries[k] = ord[m.prevLogIndex + k]

ClusterTypeOK ==
    /\ TypeOK
    /\ wire \in [Server -> Seq(Message)]
    /\ order \in Seq(LogEntry)
    /\ base \in [Server -> Nat]
    /\ delivered \in [Server -> Seq(LogEntry)]

\* Entry i of the order has log index i and a payload.
Indexed(ord) == \A i \in 1..Len(ord) : ord[i].index = i /\ ord[i].data \in Data

EngineInv(s) ==
    /\ Piece(log[s], snapshot[s].lastIncludedIndex, order)
    /\ disk[s].log = log[s] /\ disk[s].snapshot = snapshot[s]
    /\ \A k \in 1..Len(wire[s]) : Excerpt(wire[s][k], order)
    /\ s \in Active => /\ wire[s] = <<>>
                       /\ LastOf(log[s], snapshot[s].lastIncludedIndex) = Len(order)
    /\ s \notin Active => role[s] = "Follower"

LogInv == ClusterTypeOK /\ Indexed(order) /\ \A s \in Server : EngineInv(s)

\* What the followers have committed is below every log they will have.
CommitInv(s) ==
    /\ commitIndex[s] <= LastOf(log[s], snapshot[s].lastIncludedIndex)
    /\ \A k \in 1..Len(wire[s]) :
          LastOf(log[s], snapshot[s].lastIncludedIndex) <= End(wire[s][k])
    /\ \A j, k \in 1..Len(wire[s]) : j <= k => End(wire[s][j]) <= End(wire[s][k])

InOrderInv == LogInv /\ down = {} /\ \A s \in Server : CommitInv(s)

\* What a follower was handed since it started, and the queue of what it has
\* not read yet.
FollowerInv(s) ==
    /\ base[s] <= snapshot[s].lastIncludedIndex
    /\ lastApplied[s] <= commitIndex[s]
    /\ snapshot[s].lastIncludedIndex <= base[s]
         \/ snapshot[s].lastIncludedIndex <= lastApplied[s]
    /\ Len(delivered[s]) = IF lastApplied[s] <= base[s] THEN 0
                           ELSE lastApplied[s] - base[s]
    /\ Len(commitChan[s]) <= Len(delivered[s])

TermInv(s) ==
    /\ currentTerm[s] <= MaxTerm /\ disk[s].currentTerm <= MaxTerm
    /\ loop[s] = "fired" => currentTerm[s] < MaxTerm

DeliveryInv ==
    /\ InOrderInv
    /\ Len(order) <= MaxIndex
    /\ \A s \in Passive : FollowerInv(s)
    /\ \A s \in Active : TermInv(s)

-----------------------------------------------------------------------------
(* Pieces of the order.                                                    *)

\* The last entry of a piece carries the index its place says.
LEMMA PieceLast ==
    ASSUME NEW lg \in Seq(LogEntry), NEW n \in Nat, NEW ord \in Seq(LogEntry),
           Piece(lg, n, ord), Indexed(ord)
    PROVE  lg[Len(lg)].index = LastOf(lg, n) /\ LastOf(lg, n) \in Nat
<1>1. Len(lg) \in Nat /\ Len(lg) >= 1
  BY DEF Piece
<1>a. Len(ord) \in Nat /\ LastOf(lg, n) <= Len(ord) /\ LastOf(lg, n) = n + Len(lg) - 1
  BY DEF Piece, LastOf
<1>2. CASE Len(lg) = 1
  BY <1>1, <1>2 DEF Piece, LastOf
<1>3. CASE Len(lg) # 1
  <2>0. \A k \in Nat : k >= 1 /\ k # 1 => k \in 2..k
    OBVIOUS
  <2>1. Len(lg) \in 2..Len(lg)
    BY <1>1, <1>3, <2>0
  <2>2. lg[Len(lg)] = ord[LastOf(lg, n)]
    BY <2>1 DEF Piece, LastOf
  <2>3. LastOf(lg, n) \in 1..Len(ord)
    BY <1>1, <1>a, <2>1
  <2> QED
    BY <1>1, <1>a, <2>2, <2>3 DEF Indexed
<1> QED
  BY <1>2, <1>3

\* What HandleAppendEntries builds from a piece and an excerpt is a piece that
\* ends where the message ends.
LEMMA PieceExtend ==
    ASSUME NEW lg \in Seq(LogEntry), NEW n \in Nat, NEW ord \in Seq(LogEntry),
           Piece(lg, n, ord), NEW m \in Message, Excerpt(m, ord),
           NEW r \in Nat, r < Len(lg), m.prevLogIndex = n + r
    PROVE  LET new == SubSeq(lg, 1, r + 1) \o m.entries
           IN  /\ new \in Seq(LogEntry)
               /\ Piece(new, n, ord)
               /\ LastOf(new, n) = End(m)
<1> DEFINE p == SubSeq(lg, 1, r + 1)
           e == m.entries
           new == p \o e
<1>0. e \in Seq(LogEntry) /\ m.prevLogIndex \in Nat
  BY DEF Message
<1>1. p \in Seq(LogEntry) /\ Len(p) = r + 1 /\ \A k \in 1..(r + 1) : p[k] = lg[k]
  OBVIOUS
<1> HIDE DEF p, e
<1>3. Len(e) \in Nat /\ Len(lg) \in Nat
  BY <1>0
<1>a. /\ new \in Seq(LogEntry) /\ Len(new) = Len(p) + Len(e)
      /\ \A k \in 1..(Len(p) + Len(e)) :
            new[k] = IF k <= Len(p) THEN p[k] ELSE e[k - Len(p)]
  BY <1>0, <1>1, ConcatProperties, Zenon
<1> HIDE DEF new
<1>2. /\ new \in Seq(LogEntry) /\ Len(new) = r + 1 + Len(e)
      /\ \A k \in 1..(r + 1) : new[k] = lg[k]
      /\ \A k \in (r + 2)..Len(new) : new[k] = e[k - (r + 1)]
  BY <1>1, <1>3, <1>a, SMTT(40)
<1>4. LastOf(new, n) = End(m)
  <2>1. LastOf(new, n) = n + Len(new) - 1 /\ End(m) = m.prevLogIndex + Len(e)
    BY DEF LastOf, End, e
  <2> QED
    BY <2>1, <1>2, <1>3
<1>5. LastOf(new, n) <= Len(ord)
  BY <1>4 DEF Excerpt
<1>6. ASSUME NEW k \in 2..Len(new) PROVE new[k] = ord[n + k - 1]
  <2>1. CASE k <= r + 1
    <3>1. k \in 1..(r + 1) /\ k \in 2..Len(lg)
      BY <2>1, <1>3
    <3> QED
      BY <1>2, <3>1 DEF Piece
  <2>2. CASE ~(k <= r + 1)
    <3>1. k \in (r + 2)..Len(new) /\ k - (r + 1) \in 1..Len(e)
      BY <1>2, <1>3, <2>2
    <3>2. e[k - (r + 1)] = ord[m.prevLogIndex + (k - (r + 1))]
      BY <3>1 DEF Excerpt, e
    <3>3. m.prevLogIndex + (k - (r + 1)) = n + k - 1
      BY <1>0
    <3> QED
      BY <1>2, <3>1, <3>2, <3>3
  <2> QED
    BY <2>1, <2>2
<1>7. Len(new) >= 1 /\ new[1] = lg[1]
  BY <1>2, <1>3
<1>8. Piece(new, n, ord)
  BY <1>5, <1>6, <1>7 DEF Piece
<1> QED
  BY <1>2, <1>4, <1>8 DEF new, p, e

\* CompactLog moves the beginning of a piece and not its end.
LEMMA PieceCompact ==
    ASSUME NEW lg \in Seq(LogEntry), NEW n \in Nat, NEW ord \in Seq(LogEntry),
           Piece(lg, n, ord), NEW r \in Nat, r < Len(lg), NEW t \in Nat
    PROVE  LET new == <<Sentinel(n + r, t)>> \o SubSeq(lg, r + 2, Len(lg))
           IN  /\ new \in Seq(LogEntry)
               /\ Piece(new, n + r, ord)
               /\ LastOf(new, n + r) = LastOf(lg, n)
<1> DEFINE h == <<Sentinel(n + r, t)>>
           e == SubSeq(lg, r + 2, Len(lg))
           new == h \o e
<1>1. Sentinel(n + r, t) \in LogEntry
  BY DEF Sentinel, LogEntry, Payload
<1>2. h \in Seq(LogEntry) /\ Len(h) = 1 /\ h[1] = Sentinel(n + r, t)
  BY <1>1
<1>3. Len(lg) \in Nat
  OBVIOUS
<1>4. /\ e \in Seq(LogEntry) /\ Len(e) = Len(lg) - (r + 1)
      /\ \A k \in 1..Len(e) : e[k] = lg[r + 1 + k]
  BY <1>3
<1> HIDE DEF h, e
<1>a. /\ new \in Seq(LogEntry) /\ Len(new) = Len(h) + Len(e)
      /\ \A k \in 1..(Len(h) + Len(e)) :
            new[k] = IF k <= Len(h) THEN h[k] ELSE e[k - Len(h)]
  BY <1>2, <1>4, ConcatProperties, Zenon
<1> HIDE DEF new
<1>5. /\ new \in Seq(LogEntry) /\ Len(new) = Len(lg) - r
      /\ new[1] = h[1]
      /\ \A k \in 2..Len(new) : new[k] = e[k - 1]
  BY <1>2, <1>3, <1>4, <1>a
<1>6. LastOf(new, n + r) = LastOf(lg, n)
  BY <1>3, <1>5 DEF LastOf
<1>7. ASSUME NEW k \in 2..Len(new) PROVE new[k] = ord[n + r + k - 1]
  <2>1. k - 1 \in 1..Len(e) /\ r + k \in 2..Len(lg)
    BY <1>3, <1>4, <1>5
  <2>2. e[k - 1] = lg[r + k]
    BY <1>4, <2>1
  <2>3. lg[r + k] = ord[n + (r + k) - 1]
    BY <2>1 DEF Piece
  <2>4. n + (r + k) - 1 = n + r + k - 1
    OBVIOUS
  <2> QED
    BY <1>5, <2>2, <2>3, <2>4
<1>8. Piece(new, n + r, ord)
  BY <1>2, <1>3, <1>5, <1>6, <1>7 DEF Piece, Sentinel
<1> QED
  BY <1>5, <1>6, <1>8 DEF new, h, e

\* A new entry at the end of the order leaves the pieces what they are.
LEMMA PieceGrow ==
    ASSUME NEW lg \in Seq(LogEntry), NEW n \in Nat, NEW ord \in Seq(LogEntry),
           Piece(lg, n, ord), NEW e \in LogEntry
    PROVE  Piece(lg, n, Append(ord, e))
<1> DEFINE new == Append(ord, e)
<1>1. Len(new) = Len(ord) + 1 /\ \A i \in 1..Len(ord) : new[i] = ord[i]
  OBVIOUS
<1> HIDE DEF new
<1>0. Len(lg) \in Nat /\ Len(ord) \in Nat /\ n + Len(lg) - 1 <= Len(ord)
  BY DEF Piece, LastOf
<1>2. \A k \in 2..Len(lg) : n + k - 1 \in 1..Len(ord)
  BY <1>0
<1>3. \A k \in 2..Len(lg) : lg[k] = new[n + k - 1]
  BY <1>1, <1>2 DEF Piece
<1>4. n + Len(lg) - 1 <= Len(new)
  BY <1>0, <1>1
<1>5. Piece(lg, n, new)
  BY <1>3, <1>4 DEF Piece, LastOf
<1> QED
  BY <1>5 DEF new

\* Nor the messages.
LEMMA ExcerptGrow ==
    ASSUME NEW m \in Message, NEW ord \in Seq(LogEntry), Excerpt(m, ord),
           NEW e \in LogEntry
    PROVE  Excerpt(m, Append(ord, e))
<1> DEFINE new == Append(ord, e)
<1>1. Len(new) = Len(ord) + 1 /\ \A i \in 1..Len(ord) : new[i] = ord[i]
  OBVIOUS
<1> HIDE DEF new
<1>2. m.prevLogIndex \in Nat /\ Len(m.entries) \in Nat
  BY DEF Message
<1>a. Len(ord) \in Nat /\ m.prevLogIndex + Len(m.entries) <= Len(ord)
  BY DEF Excerpt, End
<1>3. \A k \in 1..Len(m.entries) : m.prevLogIndex + k \in 1..Len(ord)
  BY <1>2, <1>a
<1>b. \A k \in 1..Len(m.entries) : m.entries[k] = new[m.prevLogIndex + k]
  BY <1>1, <1>3 DEF Excerpt
<1>c. m.prevLogIndex + Len(m.entries) <= Len(new)
  BY <1>1, <1>2, <1>a
<1>4. Excerpt(m, new)
  BY <1>b, <1>c DEF Excerpt, End
<1> QED
  BY <1>4 DEF new

\* The log that ends with the order grows with it.
LEMMA PieceAppend ==
    ASSUME NEW lg \in Seq(LogEntry), NEW n \in Nat, NEW ord \in Seq(LogEntry),
           Piece(lg, n, ord), LastOf(lg, n) = Len(ord), NEW e \in LogEntry
    PROVE  /\ Piece(Append(lg, e), n, Append(ord, e))
           /\ LastOf(Append(lg, e), n) = Len(Append(ord, e))
<1> DEFINE new == Append(ord, e)
           longer == Append(lg, e)
<1>1. Len(lg) \in Nat /\ Len(ord) \in Nat /\ Len(lg) >= 1 /\ Len(ord) = n + Len(lg) - 1
  BY DEF Piece, LastOf
<1>2. /\ Len(longer) = Len(lg) + 1 /\ longer[Len(lg) + 1] = e
      /\ \A k \in 1..Len(lg) : longer[k] = lg[k]
  OBVIOUS
<1>3. Len(new) = Len(ord) + 1 /\ new[Len(ord) + 1] = e
  OBVIOUS
<1>4. Piece(lg, n, new)
  BY PieceGrow
<1> HIDE DEF new, longer
<1>5. \A k \in 2..Len(longer) : longer[k] = new[n + k - 1]
  <2> TAKE k \in 2..Len(longer)
  <2>1. CASE k \in 2..Len(lg)
    BY <1>2, <1>4, <2>1 DEF Piece
  <2>2. CASE k = Len(lg) + 1
    BY <1>1, <1>2, <1>3, <2>2
  <2> QED
    BY <1>1, <1>2, <2>1, <2>2
<1>6. LastOf(longer, n) = Len(new)
  BY <1>1, <1>2, <1>3 DEF LastOf
<1>7. Len(longer) >= 1 /\ longer[1] = lg[1] /\ LastOf(longer, n) <= Len(new)
  BY <1>1, <1>2, <1>3, <1>6
<1>8. Piece(longer, n, new)
  BY <1>4, <1>5, <1>7 DEF Piece
<1> QED
  BY <1>6, <1>8 DEF new, longer

\* The transport's queue without its k-th message.
LEMMA WithoutType ==
    ASSUME NEW q \in Seq(Message), NEW k \in 1..Len(q)
    PROVE  /\ Without(q, k) \in Seq(Message)
           /\ Len(Without(q, k)) = Len(q) - 1
           /\ \A j \in 1..(Len(q) - 1) :
                 Without(q, k)[j] = IF j < k THEN q[j] ELSE q[j + 1]
<1> DEFINE a == SubSeq(q, 1, k - 1)
           b == SubSeq(q, k + 1, Len(q))
<1>1. Len(q) \in Nat /\ k \in Nat /\ k >= 1 /\ k <= Len(q)
  OBVIOUS
<1>2. a \in Seq(Message) /\ Len(a) = k - 1 /\ \A j \in 1..(k - 1) : a[j] = q[j]
  BY <1>1
<1>3. b \in Seq(Message) /\ Len(b) = Len(q) - k /\ \A j \in 1..(Len(q) - k) : b[j] = q[k + j]
  BY <1>1
<1> HIDE DEF a, b
<1>4. /\ a \o b \in Seq(Message) /\ Len(a \o b) = Len(q) - 1
      /\ \A j \in 1..(Len(q) - 1) : (a \o b)[j] = IF j < k THEN a[j] ELSE b[j - (k - 1)]
  <2>1. /\ a \o b \in Seq(Message)
        /\ Len(a \o b) = Len(a) + Len(b)
        /\ \A j \in 1..(Len(a) + Len(b)) :
              (a \o b)[j] = IF j <= Len(a) THEN a[j] ELSE b[j - Len(a)]
    BY <1>2, <1>3, ConcatProperties
  <2>2. (k - 1) + (Len(q) - k) = Len(q) - 1
    BY <1>1
  <2>3. \A j \in 1..(Len(q) - 1) : j <= k - 1 <=> j < k
    BY <1>1
  <2>4. PICK c : c = a \o b
    OBVIOUS
  <2>5. \A j \in 1..(Len(q) - 1) : c[j] = IF j < k THEN a[j] ELSE b[j - (k - 1)]
    BY <1>2, <1>3, <2>1, <2>2, <2>3, <2>4
  <2> QED
    BY <1>2, <1>3, <2>1, <2>2, <2>4, <2>5
<1>5. ASSUME NEW j \in 1..(Len(q) - 1)
      PROVE  IF j < k THEN a[j] = q[j] ELSE b[j - (k - 1)] = q[j + 1]
  <2>1. CASE j < k
    <3>1. j \in 1..(k - 1)
      BY <1>1, <2>1
    <3> QED
      BY <1>2, <2>1, <3>1
  <2>2. CASE ~(j < k)
    <3>1. j - (k - 1) \in 1..(Len(q) - k) /\ k + (j - (k - 1)) = j + 1
      BY <1>1, <2>2
    <3> QED
      BY <1>3, <2>2, <3>1
  <2> QED
    BY <2>1, <2>2
<1> QED
  BY <1>4, <1>5 DEF Without, a, b

-----------------------------------------------------------------------------
(* What each action does to logs, messages and the store.                  *)

\* A store that does not fail holds what is in memory after every save.
LEMMA SavedLog ==
    ASSUME ~StorageMayFail, TypeOK, NEW s \in Server, PersistState(s)
    PROVE  /\ disk'[s].log = log'[s] /\ disk'[s].snapshot = snapshot'[s]
           /\ disk'[s].currentTerm = currentTerm'[s]
           /\ \A t \in Server : t # s => disk'[t] = disk[t]
<1>1. disk' = [disk EXCEPT ![s] = Stable(s)']
  BY DEF PersistState
<1>2. disk'[s] = Stable(s)' /\ \A t \in Server : t # s => disk'[t] = disk[t]
  BY <1>1 DEF TypeOK
<1> QED
  BY <1>2 DEF Stable

\* The parts of the invariant that the steps of one engine need.
LEMMA EngineFacts ==
    ASSUME LogInv, NEW s \in Server
    PROVE  /\ log[s] \in Seq(LogEntry) /\ snapshot[s].lastIncludedIndex \in Nat
           /\ snapshot[s] \in Snapshot
           /\ Len(log[s]) \in Nat /\ Len(log[s]) >= 1
           /\ order \in Seq(LogEntry) /\ Len(order) \in Nat
           /\ Piece(log[s], snapshot[s].lastIncludedIndex, order)
           /\ LastLogIndex(s) = LastOf(log[s], snapshot[s].lastIncludedIndex)
           /\ LastOf(log[s], snapshot[s].lastIncludedIndex)
                = snapshot[s].lastIncludedIndex + Len(log[s]) - 1
           /\ LastOf(log[s], snapshot[s].lastIncludedIndex) \in Nat
           /\ wire[s] \in Seq(Message) /\ Len(wire[s]) \in Nat
<1>1. TypeOK /\ ClusterTypeOK /\ EngineInv(s) /\ Indexed(order)
  BY DEF LogInv, ClusterTypeOK
<1>2. log[s] \in Seq(LogEntry) /\ snapshot[s] \in Snapshot
  BY <1>1 DEF TypeOK
<1>3. snapshot[s].lastIncludedIndex \in Nat /\ Len(log[s]) \in Nat
  BY <1>2 DEF Snapshot
<1>4. order \in Seq(LogEntry) /\ Len(order) \in Nat
  BY <1>1 DEF ClusterTypeOK
<1>5. wire[s] \in Seq(Message) /\ Len(wire[s]) \in Nat
  BY <1>1 DEF ClusterTypeOK
<1>6. Piece(log[s], snapshot[s].lastIncludedIndex, order)
  BY <1>1 DEF EngineInv
<1>7. Len(log[s]) >= 1
  BY <1>6 DEF Piece
<1>8. /\ log[s][Len(log[s])].index = LastOf(log[s], snapshot[s].lastIncludedIndex)
      /\ LastOf(log[s], snapshot[s].lastIncludedIndex) \in Nat
  BY <1>1, <1>2, <1>3, <1>4, <1>6, PieceLast
<1>9. log[s] # <<>>
  BY <1>2, <1>7
<1>10. LastLogIndex(s) = LastOf(log[s], snapshot[s].lastIncludedIndex)
  BY <1>8, <1>9 DEF LastLogIndex
<1>11. LastOf(log[s], snapshot[s].lastIncludedIndex)
         = snapshot[s].lastIncludedIndex + Len(log[s]) - 1
  BY DEF LastOf
<1> QED
  BY <1>2, <1>3, <1>4, <1>5, <1>6, <1>7, <1>8, <1>10, <1>11

\* What an active engine does by itself changes no log.
LEMMA LeadEffect ==
    ASSUME LogInv, ~StorageMayFail, NEW s \in Server, Lead(s)
    PROVE  /\ TypeOK'
           /\ UNCHANGED <<log, snapshot, commitIndex, lastApplied, commitChan, down,
                          wire, order, base, delivered>>
           /\ \A t \in Server : /\ disk'[t].log = disk[t].log
                                /\ disk'[t].snapshot = disk[t].snapshot
           /\ \A t \in Server : t # s => role'[t] = role[t]
<1> USE DEF stateVars, logVars, applyVars, storeVars, threadVars, historyVars
<1>0. TypeOK /\ EngineInv(s)
  BY DEF LogInv, ClusterTypeOK
<1>1. UNCHANGED <<wire, order, base, delivered>>
  BY DEF Lead
<1>2. CASE Start(s) \/ (\E r \in AssignedRoles : SetRole(s, r))
  <2>1. TypeOK'
    BY <1>0, <1>2, CallTypeOK DEF Call
  <2> QED
    BY <1>0, <1>1, <1>2, <2>1 DEF Start, SetRole, TypeOK
<1>3. CASE LoopTop(s) \/ Heartbeat(s) \/ TimerFires(s) \/ LaunchVotes(s)
  <2>1. TypeOK'
    BY <1>0, <1>3, InternalTypeOK DEF Internal
  <2> QED
    BY <1>0, <1>1, <1>3, <2>1 DEF LoopTop, Heartbeat, TimerFires, LaunchVotes
<1>4. CASE StartElection(s)
  <2>1. TypeOK'
    BY <1>0, <1>4, InternalTypeOK DEF Internal
  <2>2. /\ UNCHANGED <<log, snapshot, commitIndex, lastApplied, commitChan, down>>
        /\ PersistState(s)
        /\ role' = [role EXCEPT ![s] = "Candidate"]
    BY <1>4 DEF StartElection
  <2>3. \A t \in Server : disk'[t].log = disk[t].log /\ disk'[t].snapshot = disk[t].snapshot
    BY <1>0, <2>2, SavedLog DEF EngineInv
  <2>4. \A t \in Server : t # s => role'[t] = role[t]
    BY <1>0, <2>2 DEF TypeOK
  <2> QED
    BY <1>1, <2>1, <2>2, <2>3, <2>4
<1>5. CASE \E b \in ballots[s] : CountVote(s, b)
  <2>1. TypeOK'
    BY <1>0, <1>5, InternalTypeOK DEF Internal
  <2>2. /\ UNCHANGED <<log, snapshot, commitIndex, lastApplied, commitChan, down, disk>>
        /\ role' = [role EXCEPT ![s] = "Leader"] \/ role' = role
    BY <1>5 DEF CountVote
  <2>3. \A t \in Server : t # s => role'[t] = role[t]
    BY <1>0, <2>2 DEF TypeOK
  <2> QED
    BY <1>1, <2>1, <2>2, <2>3
<1> QED
  BY <1>2, <1>3, <1>4, <1>5 DEF Lead

\* A proposal is the next entry of the order.
LEMMA ProposeEffect ==
    ASSUME LogInv, ~StorageMayFail, NEW s \in Server, s \in Active, NEW d \in Data,
           ClusterPropose(s, d)
    PROVE  \E e \in LogEntry :
           /\ e.index = Len(order) + 1 /\ e.data \in Data /\ e.term = currentTerm[s]
           /\ log' = [log EXCEPT ![s] = Append(log[s], e)]
           /\ order' = Append(order, e)
           /\ commitIndex' = [commitIndex EXCEPT ![s] = Len(order) + 1]
           /\ UNCHANGED <<snapshot, down, role, wire, base>>
           /\ TypeOK'
           /\ disk'[s].log = log'[s] /\ disk'[s].snapshot = snapshot'[s]
           /\ disk'[s].currentTerm = currentTerm'[s]
           /\ \A t \in Server : t # s => disk'[t] = disk[t]
<1> USE DEF stateVars, logVars, applyVars, storeVars, threadVars, historyVars
<1> DEFINE e == [index |-> LastLogIndex(s) + 1, term |-> currentTerm[s], data |-> d]
<1>0. TypeOK /\ EngineInv(s)
  BY DEF LogInv, ClusterTypeOK
<1>1. TypeOK'
  <2>1. \E x \in Payload : Propose(s, x)
    BY DEF ClusterPropose, Payload
  <2> QED
    BY <1>0, <2>1, CallTypeOK DEF Call
<1>2. LastLogIndex(s) = Len(order) /\ Len(order) \in Nat /\ log[s] \in Seq(LogEntry)
  BY <1>0, EngineFacts DEF EngineInv
<1>3. e \in LogEntry /\ e.index = Len(order) + 1 /\ e.data \in Data /\ e.term = currentTerm[s]
  BY <1>0, <1>2 DEF LogEntry, Payload, TypeOK
<1>4. /\ log' = [log EXCEPT ![s] = Append(log[s], e)]
      /\ commitIndex' = [commitIndex EXCEPT ![s] = e.index]
      /\ UNCHANGED <<snapshot, down, role, wire, base>>
      /\ PersistState(s)
      /\ order' = Append(order, log'[s][Len(log'[s])])
  BY DEF ClusterPropose, Propose
<1> HIDE DEF e
<1>5. log'[s] = Append(log[s], e)
  BY <1>0, <1>4 DEF TypeOK
<1>6. log'[s][Len(log'[s])] = e
  BY <1>2, <1>3, <1>5
<1>7. order' = Append(order, e)
  BY <1>4, <1>6
<1>8. /\ disk'[s].log = log'[s] /\ disk'[s].snapshot = snapshot'[s]
      /\ disk'[s].currentTerm = currentTerm'[s]
      /\ \A t \in Server : t # s => disk'[t] = disk[t]
  BY <1>0, <1>4, SavedLog
<1> QED
  BY <1>1, <1>3, <1>4, <1>7, <1>8

\* A compaction cuts a piece at its beginning, unless it kills the process.
LEMMA CompactEffect ==
    ASSUME LogInv, ~StorageMayFail, NEW s \in Server, NEW i \in 1..MaxIndex,
           CompactLog(s, i)
    PROVE  /\ TypeOK'
           /\ UNCHANGED <<commitIndex, lastApplied, commitChan, role, currentTerm, loop>>
           /\ i \in Nat /\ i <= commitIndex[s] /\ lastApplied[s] >= commitIndex[s]
           /\ \/ /\ i > LastOf(log[s], snapshot[s].lastIncludedIndex)
                 /\ UNCHANGED <<log, snapshot, disk>>
              \/ /\ i <= LastOf(log[s], snapshot[s].lastIncludedIndex)
                 /\ \A t \in Server : t # s => /\ log'[t] = log[t]
                                               /\ snapshot'[t] = snapshot[t]
                                               /\ disk'[t] = disk[t]
                 /\ snapshot'[s].lastIncludedIndex = i
                 /\ snapshot[s].lastIncludedIndex < i
                 /\ Piece(log'[s], i, order)
                 /\ LastOf(log'[s], i) = LastOf(log[s], snapshot[s].lastIncludedIndex)
                 /\ disk'[s].log = log'[s] /\ disk'[s].snapshot = snapshot'[s]
                 /\ disk'[s].currentTerm = currentTerm'[s]
                 /\ UNCHANGED down
<1> USE DEF stateVars, logVars, applyVars, storeVars, threadVars, historyVars
<1> DEFINE n == snapshot[s].lastIncludedIndex
           rel == RelIndex(s, i)
           term == log[s][rel + 1].term
           new == <<Sentinel(i, term)>> \o SubSeq(log[s], rel + 2, Len(log[s]))
<1>0. TypeOK /\ EngineInv(s)
  BY DEF LogInv, ClusterTypeOK
<1>1. TypeOK'
  BY <1>0, CallTypeOK DEF Call
<1>2. i \in Nat /\ n \in Nat /\ Len(log[s]) \in Nat /\ log[s] \in Seq(LogEntry)
  BY EngineFacts, BoundAssumption
<1>3. n < i /\ i <= commitIndex[s] /\ lastApplied[s] >= commitIndex[s]
  BY <1>2 DEF CompactLog, Unlocked
<1>4. UNCHANGED <<commitIndex, lastApplied, commitChan, role, currentTerm, loop>>
  BY DEF CompactLog
<1>5. rel = i - n /\ rel \in Nat /\ n + rel = i
  BY <1>2, <1>3 DEF RelIndex
<1>6. LastOf(log[s], n) = n + Len(log[s]) - 1
  BY DEF LastOf
<1>7. CASE rel >= Len(log[s])
  <2>1. i > LastOf(log[s], n)
    BY <1>2, <1>5, <1>6, <1>7
  <2>2. ~(rel < Len(log[s]))
    BY <1>2, <1>5, <1>7
  <2>3. UNCHANGED <<log, snapshot, disk>>
    BY <2>2 DEF CompactLog
  <2> QED
    BY <1>1, <1>2, <1>3, <1>4, <2>1, <2>3
<1>8. CASE ~(rel >= Len(log[s]))
  <2>1. rel < Len(log[s]) /\ i <= LastOf(log[s], n)
    BY <1>2, <1>5, <1>6, <1>8
  <2>2. /\ snapshot' = [snapshot EXCEPT ![s] =
              [lastIncludedIndex |-> i, lastIncludedTerm |-> term]]
        /\ log' = [log EXCEPT ![s] = new]
        /\ UNCHANGED down
        /\ PersistState(s)
    BY <1>8 DEF CompactLog
  <2>3. snapshot'[s].lastIncludedIndex = i /\ log'[s] = new
    BY <1>0, <2>2 DEF TypeOK
  <2>4. \A t \in Server : t # s => log'[t] = log[t] /\ snapshot'[t] = snapshot[t]
    BY <1>0, <2>2 DEF TypeOK
  <2>5. term \in Nat
    <3>1. log[s][rel + 1] \in LogEntry
      BY <1>2, <1>5, <2>1
    <3> QED
      BY <3>1 DEF LogEntry
  <2>6. Piece(new, n + rel, order) /\ LastOf(new, n + rel) = LastOf(log[s], n)
    <3>1. Piece(log[s], n, order) /\ order \in Seq(LogEntry)
      BY EngineFacts
    <3>2. \A r \in Nat : \A t \in Nat : r < Len(log[s]) =>
            LET x == <<Sentinel(n + r, t)>> \o SubSeq(log[s], r + 2, Len(log[s]))
            IN  Piece(x, n + r, order) /\ LastOf(x, n + r) = LastOf(log[s], n)
      BY <1>2, <3>1, PieceCompact, SMTT(40)
    <3> HIDE DEF n, rel, term
    <3>3. Sentinel(i, term) = Sentinel(n + rel, term)
      BY <1>5
    <3> QED
      BY <1>5, <2>1, <2>5, <3>2, <3>3
  <2>7. /\ disk'[s].log = log'[s] /\ disk'[s].snapshot = snapshot'[s]
        /\ disk'[s].currentTerm = currentTerm'[s]
        /\ \A t \in Server : t # s => disk'[t] = disk[t]
    BY <1>0, <2>2, SavedLog
  <2>8. Piece(log'[s], i, order) /\ LastOf(log'[s], i) = LastOf(log[s], n)
    BY <1>5, <2>3, <2>6
  <2> QED
    BY <1>1, <1>2, <1>3, <1>4, <2>1, <2>2, <2>3, <2>4, <2>7, <2>8
<1> QED
  BY <1>7, <1>8

\* With a store that does not fail, a crash loses no entry.
LEMMA RestartEffect ==
    ASSUME LogInv, NEW s \in Server, Restart(s)
    PROVE  /\ TypeOK'
           /\ UNCHANGED <<log, snapshot, disk>>
           /\ commitIndex' = [commitIndex EXCEPT ![s] = 0]
           /\ lastApplied' = [lastApplied EXCEPT ![s] = 0]
           /\ role' = [role EXCEPT ![s] = "Follower"]
           /\ down' = down \ {s}
<1>0. TypeOK /\ EngineInv(s)
  BY DEF LogInv, ClusterTypeOK
<1>1. disk[s].log = log[s] /\ disk[s].snapshot = snapshot[s]
  BY <1>0 DEF EngineInv
<1>2. log' = [log EXCEPT ![s] = log[s]] /\ snapshot' = [snapshot EXCEPT ![s] = snapshot[s]]
  BY <1>1 DEF Restart, Boot
<1>3. log' = log /\ snapshot' = snapshot
  BY <1>0, <1>2 DEF TypeOK
<1> QED
  BY <1>0, <1>3, RestartTypeOK DEF Restart, Boot

\* The end of a log, as the transport and CompactLog cut it off.
LEMMA Suffix ==
    ASSUME NEW lg \in Seq(LogEntry), NEW r \in Nat, r < Len(lg)
    PROVE  /\ SubSeq(lg, r + 2, Len(lg)) \in Seq(LogEntry)
           /\ Len(SubSeq(lg, r + 2, Len(lg))) = Len(lg) - (r + 1)
           /\ \A k \in 1..Len(SubSeq(lg, r + 2, Len(lg))) :
                 SubSeq(lg, r + 2, Len(lg))[k] = lg[r + 1 + k]
<1>1. Len(lg) \in Nat
  OBVIOUS
<1> QED
  BY <1>1

\* The end of a complete log is an excerpt that reaches the end of the order.
LEMMA PieceExcerpt ==
    ASSUME NEW lg \in Seq(LogEntry), NEW n \in Nat, NEW ord \in Seq(LogEntry),
           Piece(lg, n, ord), LastOf(lg, n) = Len(ord),
           NEW r \in Nat, r < Len(lg),
           NEW m, m.prevLogIndex = n + r, m.entries = SubSeq(lg, r + 2, Len(lg))
    PROVE  Excerpt(m, ord) /\ End(m) = Len(ord)
<1> DEFINE e == SubSeq(lg, r + 2, Len(lg))
<1>1. Len(lg) \in Nat /\ Len(ord) = n + Len(lg) - 1
  BY DEF LastOf
<1>2. Len(e) = Len(lg) - (r + 1) /\ \A k \in 1..Len(e) : e[k] = lg[r + 1 + k]
  BY Suffix
<1>3. m.entries = e
  OBVIOUS
<1> HIDE DEF e
<1>4. End(m) = Len(ord)
  <2>1. End(m) = n + r + Len(e)
    BY <1>3, Zenon DEF End
  <2> QED
    BY <1>1, <1>2, <2>1
<1>5. ASSUME NEW k \in 1..Len(e) PROVE e[k] = ord[n + r + k]
  <2>1. r + 1 + k \in 2..Len(lg)
    BY <1>1, <1>2, SMTT(40)
  <2>2. lg[r + 1 + k] = ord[n + (r + 1 + k) - 1]
    BY <2>1 DEF Piece
  <2>3. n + (r + 1 + k) - 1 = n + r + k
    OBVIOUS
  <2> QED
    BY <1>2, <2>2, <2>3
<1>6. Len(ord) <= Len(ord)
  OBVIOUS
<1>7. \A k \in 1..Len(m.entries) : m.entries[k] = ord[m.prevLogIndex + k]
  BY <1>3, <1>5, Zenon
<1> QED
  BY <1>4, <1>6, <1>7, Zenon DEF Excerpt

\* A call of the leader carries the order from its prevLogIndex to its end.
LEMMA AppendFromExcerpt ==
    ASSUME LogInv, NEW l \in Server, l \in Active,
           NEW prev \in snapshot[l].lastIncludedIndex..LastLogIndex(l)
    PROVE  /\ AppendFrom(l, prev) \in Message
           /\ Excerpt(AppendFrom(l, prev), order)
           /\ End(AppendFrom(l, prev)) = Len(order)
<1> DEFINE n == snapshot[l].lastIncludedIndex
           rel == RelIndex(l, prev)
           e == SubSeq(log[l], rel + 2, Len(log[l]))
           m == AppendFrom(l, prev)
<1>1. /\ log[l] \in Seq(LogEntry) /\ n \in Nat /\ Len(log[l]) \in Nat
      /\ Piece(log[l], n, order) /\ order \in Seq(LogEntry)
      /\ LastLogIndex(l) = n + Len(log[l]) - 1
  BY EngineFacts
<1>2. LastOf(log[l], n) = Len(order)
  BY DEF LogInv, EngineInv
<1>3. rel = prev - n /\ prev \in Nat /\ prev <= n + Len(log[l]) - 1 /\ n <= prev
  BY <1>1 DEF RelIndex
<1>4. rel \in Nat /\ rel < Len(log[l]) /\ prev = n + rel
  BY <1>1, <1>3, SMTT(40)
<1>5. m = [term |-> currentTerm[l], prevLogIndex |-> prev,
           prevLogTerm |-> log[l][rel + 1].term, entries |-> e,
           leaderCommit |-> commitIndex[l]]
  BY DEF AppendFrom
<1> HIDE DEF m, rel, n
<1>6. m.prevLogIndex = prev /\ m.entries = e
  <2> HIDE DEF e
  <2> QED
    BY <1>5
<1>7. m \in Message
  <2>1. log[l][rel + 1] \in LogEntry /\ e \in Seq(LogEntry)
    BY <1>1, <1>4, Suffix
  <2>2. log[l][rel + 1].term \in Nat
    BY <2>1 DEF LogEntry
  <2>3. currentTerm[l] \in Nat /\ commitIndex[l] \in Nat
    BY DEF LogInv, ClusterTypeOK, TypeOK
  <2> HIDE DEF e
  <2> QED
    BY <1>3, <1>5, <2>1, <2>2, <2>3 DEF Message
<1>8. Excerpt(m, order) /\ End(m) = Len(order)
  <2>1. m.prevLogIndex = n + rel /\ m.entries = SubSeq(log[l], rel + 2, Len(log[l]))
    BY <1>4, <1>6
  <2>2. \A x : x.prevLogIndex = n + rel /\ x.entries = SubSeq(log[l], rel + 2, Len(log[l]))
             => Excerpt(x, order) /\ End(x) = Len(order)
    BY <1>1, <1>2, <1>4, PieceExcerpt, SMTT(40)
  <2> QED
    BY <2>1, <2>2, Zenon
<1> QED
  BY <1>7, <1>8 DEF m

\* Only the leader sends, and not to itself.
LEMMA ReplicateEffect ==
    ASSUME LogInv, SingleLeader, NEW l \in Server, NEW f \in Server, Replicate(l, f)
    PROVE  /\ f \notin Active
           /\ \E m \in Message : /\ wire' = [wire EXCEPT ![f] = Append(wire[f], m)]
                                 /\ Excerpt(m, order)
                                 /\ End(m) = Len(order)
<1>1. role[l] = "Leader" /\ f # l
  BY DEF Replicate
<1>2. l \in Active
  BY <1>1 DEF LogInv, EngineInv
<1>3. f \notin Active
  BY <1>1, <1>2 DEF SingleLeader
<1>4. PICK prev \in snapshot[l].lastIncludedIndex..LastLogIndex(l) :
        wire' = [wire EXCEPT ![f] = Append(@, AppendFrom(l, prev))]
  BY DEF Replicate
<1>5. wire' = [wire EXCEPT ![f] = Append(wire[f], AppendFrom(l, prev))]
  BY <1>4
<1> QED
  BY <1>2, <1>3, <1>5, AppendFromExcerpt

\* A message that is on its way.
LEMMA WireMessage ==
    ASSUME LogInv, NEW f \in Server, NEW k \in 1..Len(wire[f])
    PROVE  wire[f][k] \in Message /\ Excerpt(wire[f][k], order) /\ f \notin Active
<1>1. wire[f] \in Seq(Message)
  BY EngineFacts
<1>2. wire[f] # <<>>
  BY <1>1
<1> QED
  BY <1>1, <1>2 DEF LogInv, EngineInv

\* A refused call changes no log.
LEMMA RejectEffect ==
    ASSUME LogInv, NEW f \in Server, NEW m \in Message, RejectAppendEntries(f, m)
    PROVE  /\ TypeOK'
           /\ UNCHANGED <<log, snapshot, disk, commitIndex, lastApplied, commitChan,
                          down, loop>>
           /\ \A t \in Server : role'[t] = "Follower" \/ role'[t] = role[t]
           /\ \A t \in Server : t # f => currentTerm'[t] = currentTerm[t]
<1> USE DEF stateVars, logVars, applyVars, storeVars, threadVars
<1>0. TypeOK /\ m.term \in Nat
  BY DEF LogInv, ClusterTypeOK, Message
<1>1. FollowTerm(f, m.term)
  BY DEF RejectAppendEntries
<1>2. UNCHANGED <<log, snapshot, disk, failedPut, unread, commitIndex, lastApplied, commitChan,
                  ballots, loop, halted, down, peers>>
  BY DEF RejectAppendEntries
<1>3. TypeOK'
  BY <1>0, <1>1, <1>2, FollowTermType DEF TypeOK
<1>4. \A t \in Server : role'[t] = "Follower" \/ role'[t] = role[t]
  BY <1>0, <1>1 DEF FollowTerm, TypeOK
<1>5. \A t \in Server : t # f => currentTerm'[t] = currentTerm[t]
  BY <1>0, <1>1 DEF FollowTerm, TypeOK
<1> QED
  BY <1>2, <1>3, <1>4, <1>5

\* An accepted call leaves a piece of the order that ends where the call ends.
LEMMA AcceptEffect ==
    ASSUME LogInv, ~StorageMayFail, NEW f \in Server, NEW m \in Message,
           Excerpt(m, order), AcceptAppendEntries(f, m)
    PROVE  /\ TypeOK'
           /\ UNCHANGED <<snapshot, lastApplied, commitChan, down, loop>>
           /\ lastApplied[f] >= commitIndex[f]
           /\ \A t \in Server : t # f => log'[t] = log[t] /\ disk'[t] = disk[t]
           /\ Piece(log'[f], snapshot[f].lastIncludedIndex, order)
           /\ LastOf(log'[f], snapshot[f].lastIncludedIndex) = End(m)
           /\ disk'[f].log = log'[f] /\ disk'[f].snapshot = snapshot'[f]
           /\ commitIndex' = [commitIndex EXCEPT ![f] =
                                CommitUpTo(f, m.leaderCommit, End(m))]
           /\ \A t \in Server : role'[t] = "Follower" \/ role'[t] = role[t]
           /\ \A t \in Server : t # f => currentTerm'[t] = currentTerm[t]
<1> USE DEF stateVars, logVars, applyVars, storeVars, threadVars
<1> DEFINE n == snapshot[f].lastIncludedIndex
           rel == RelIndex(f, m.prevLogIndex)
           new == Extended(f, m)
<1>0. TypeOK
  BY DEF LogInv, ClusterTypeOK
<1>1. /\ m.term \in Nat /\ m.prevLogIndex \in Nat /\ m.leaderCommit \in Nat
      /\ Len(m.entries) \in Nat
  BY DEF Message
<1>2. /\ log[f] \in Seq(LogEntry) /\ n \in Nat /\ Len(log[f]) \in Nat
      /\ Piece(log[f], n, order) /\ order \in Seq(LogEntry) /\ Indexed(order)
  BY EngineFacts DEF LogInv
<1>3. rel \in Nat /\ rel < Len(log[f]) /\ m.prevLogIndex = n + rel
  BY <1>1, <1>2 DEF AcceptAppendEntries, PrevMatches, RelIndex
<1>4. /\ new \in Seq(LogEntry) /\ Piece(new, n, order) /\ LastOf(new, n) = End(m)
  <2>1. LET x == SubSeq(log[f], 1, rel + 1) \o m.entries
        IN  x \in Seq(LogEntry) /\ Piece(x, n, order) /\ LastOf(x, n) = End(m)
    BY <1>2, <1>3, PieceExtend
  <2> QED
    BY <2>1 DEF Extended
<1>5. new[Len(new)].index = End(m) /\ End(m) \in Nat
  BY <1>2, <1>4, PieceLast
<1>6. /\ FollowTerm(f, m.term)
      /\ log' = [log EXCEPT ![f] = new]
      /\ PersistState(f)
      /\ commitIndex' = [commitIndex EXCEPT ![f] = CommitUpTo(f, m.leaderCommit, End(m))]
      /\ UNCHANGED <<snapshot, lastApplied, commitChan, ballots, loop, halted, down, peers>>
  BY <1>5 DEF AcceptAppendEntries
<1> HIDE DEF new
<1>7. log' \in [Server -> Seq(LogEntry)]
  BY <1>0, <1>4, <1>6 DEF TypeOK
<1>8. /\ currentTerm' \in [Server -> Nat]
      /\ role' \in [Server -> Roles]
      /\ votedFor' \in [Server -> Node \cup {Nil}]
      /\ forced' \subseteq Server
      /\ timer' \in [Server -> {"nil", "armed", "expired", "stopped"}]
      /\ granted' \in [Server -> SUBSET Grant]
  BY <1>0, <1>1, <1>6, FollowTermType
<1>9. /\ disk' \in [Server -> StableState]
      /\ failedPut' \subseteq Server /\ unread' \subseteq Server
  <2>1. snapshot' \in [Server -> Snapshot]
    BY <1>0, <1>6 DEF TypeOK
  <2>2. Stable(f)' \in StableState
    BY <1>7, <1>8, <2>1, StableType
  <2> QED
    BY <1>0, <1>6, <2>2, PersistType
<1>10. commitIndex' \in [Server -> Nat]
  BY <1>0, <1>1, <1>5, <1>6 DEF CommitUpTo, TypeOK
<1>11. TypeOK'
  BY <1>0, <1>6, <1>7, <1>8, <1>9, <1>10 DEF TypeOK
<1>12. log'[f] = new /\ \A t \in Server : t # f => log'[t] = log[t]
  BY <1>0, <1>6 DEF TypeOK
<1>13. /\ disk'[f].log = log'[f] /\ disk'[f].snapshot = snapshot'[f]
       /\ \A t \in Server : t # f => disk'[t] = disk[t]
  BY <1>0, <1>6, SavedLog
<1>14. \A t \in Server : role'[t] = "Follower" \/ role'[t] = role[t]
  BY <1>0, <1>6 DEF FollowTerm, TypeOK
<1>15. \A t \in Server : t # f => currentTerm'[t] = currentTerm[t]
  BY <1>0, <1>6 DEF FollowTerm, TypeOK
<1>16. lastApplied[f] >= commitIndex[f]
  BY <1>6 DEF FollowTerm, Unlocked
<1> QED
  BY <1>4, <1>6, <1>11, <1>12, <1>13, <1>14, <1>15, <1>16

\* What is recorded as handed over are log entries.
LEMMA RecordType ==
    ASSUME LogInv, NEW s \in Server, TypeOK', RecordSend(s)
    PROVE  delivered' \in [Server -> Seq(LogEntry)]
<1>1. commitChan[s] \in Seq(LogEntry) /\ commitChan'[s] \in Seq(LogEntry)
  BY DEF LogInv, ClusterTypeOK, TypeOK
<1>2. delivered \in [Server -> Seq(LogEntry)]
  BY DEF LogInv, ClusterTypeOK
<1>3. CASE Len(commitChan'[s]) > Len(commitChan[s])
  <2>1. Len(commitChan'[s]) \in 1..Len(commitChan'[s])
    BY <1>1, <1>3
  <2>2. commitChan'[s][Len(commitChan'[s])] \in LogEntry
    BY <1>1, <2>1
  <2> QED
    BY <1>2, <1>3, <2>2 DEF RecordSend
<1>4. CASE ~(Len(commitChan'[s]) > Len(commitChan[s]))
  BY <1>2, <1>4 DEF RecordSend
<1> QED
  BY <1>3, <1>4

-----------------------------------------------------------------------------
(* The first layer: pieces of one order.                                   *)

\* What has to be checked when the order does not change.
LEMMA SameOrder ==
    ASSUME LogInv, ClusterTypeOK', order' = order,
           \A s \in Server :
              /\ Piece(log'[s], snapshot'[s].lastIncludedIndex, order)
              /\ disk'[s].log = log'[s] /\ disk'[s].snapshot = snapshot'[s]
              /\ \A k \in 1..Len(wire'[s]) : Excerpt(wire'[s][k], order)
              /\ s \in Active =>
                   /\ wire'[s] = <<>>
                   /\ LastOf(log'[s], snapshot'[s].lastIncludedIndex)
                        = LastOf(log[s], snapshot[s].lastIncludedIndex)
              /\ s \notin Active => role'[s] = "Follower"
    PROVE  LogInv'
<1>1. Indexed(order)'
  BY DEF LogInv
<1>2. ASSUME NEW s \in Server PROVE EngineInv(s)'
  BY DEF LogInv, EngineInv
<1> QED
  BY <1>1, <1>2 DEF LogInv

\* What the invariant says of one engine.
LEMMA EngineParts ==
    ASSUME LogInv, NEW s \in Server
    PROVE  /\ Piece(log[s], snapshot[s].lastIncludedIndex, order)
           /\ disk[s].log = log[s] /\ disk[s].snapshot = snapshot[s]
           /\ \A k \in 1..Len(wire[s]) : Excerpt(wire[s][k], order)
           /\ s \in Active =>
                /\ wire[s] = <<>>
                /\ LastOf(log[s], snapshot[s].lastIncludedIndex) = Len(order)
           /\ s \notin Active => role[s] = "Follower"
  BY DEF LogInv, EngineInv

\* The steps of an active engine.
LEMMA LeadLogInv ==
    ASSUME LogInv, ~StorageMayFail, NEW s \in Active, Lead(s)
    PROVE  LogInv'
<1>1. s \in Server
  BY ActiveAssumption
<1>2. /\ TypeOK'
      /\ UNCHANGED <<log, snapshot, wire, order, base, delivered>>
      /\ \A t \in Server : disk'[t].log = disk[t].log /\ disk'[t].snapshot = disk[t].snapshot
      /\ \A t \in Server : t # s => role'[t] = role[t]
  BY <1>1, LeadEffect
<1>3. ClusterTypeOK'
  BY <1>2 DEF ClusterTypeOK, LogInv
<1> QED
  BY <1>2, <1>3, EngineParts, SameOrder

\* A proposal.
LEMMA ProposeLogInv ==
    ASSUME LogInv, ~StorageMayFail, SingleLeader, NEW s \in Active, NEW d \in Data,
           ClusterPropose(s, d)
    PROVE  LogInv'
<1>0. s \in Server /\ \A t \in Server : t \in Active => t = s
  BY ActiveAssumption DEF SingleLeader
<1>1. PICK e \in LogEntry :
        /\ e.index = Len(order) + 1 /\ e.data \in Data
        /\ log' = [log EXCEPT ![s] = Append(log[s], e)]
        /\ order' = Append(order, e)
        /\ UNCHANGED <<snapshot, role, wire, base>>
        /\ TypeOK'
        /\ disk'[s].log = log'[s] /\ disk'[s].snapshot = snapshot'[s]
        /\ \A t \in Server : t # s => disk'[t] = disk[t]
  BY <1>0, ProposeEffect
<1>2. order \in Seq(LogEntry) /\ order' \in Seq(LogEntry)
  BY <1>1 DEF LogInv, ClusterTypeOK
<1>3. ClusterTypeOK'
  <2>1. delivered' \in [Server -> Seq(LogEntry)]
    BY <1>0, <1>1, RecordType DEF ClusterPropose
  <2> QED
    BY <1>1, <1>2, <2>1 DEF ClusterTypeOK, LogInv
<1>4. Indexed(order)'
  <2>1. /\ Len(order') = Len(order) + 1 /\ order'[Len(order) + 1] = e
        /\ \A i \in 1..Len(order) : order'[i] = order[i]
        /\ Len(order) \in Nat
    BY <1>1, <1>2
  <2>2. ASSUME NEW i \in 1..Len(order') PROVE order'[i].index = i /\ order'[i].data \in Data
    <3>1. CASE i \in 1..Len(order)
      BY <2>1, <3>1 DEF LogInv, Indexed
    <3>2. CASE i = Len(order) + 1
      BY <1>1, <2>1, <3>2
    <3> QED
      BY <2>1, <3>1, <3>2
  <2> QED
    BY <2>2 DEF Indexed
<1>5. ASSUME NEW t \in Server PROVE EngineInv(t)'
  <2>1. log[t] \in Seq(LogEntry) /\ snapshot[t].lastIncludedIndex \in Nat /\ wire[t] \in Seq(Message)
    BY EngineFacts
  <2>2. \A k \in 1..Len(wire[t]) : wire[t][k] \in Message
    BY <2>1
  <2>3. \A k \in 1..Len(wire'[t]) : Excerpt(wire'[t][k], order')
    BY <1>1, <1>2, <2>2, EngineParts, ExcerptGrow
  <2>4. CASE t = s
    <3>1. log'[t] = Append(log[t], e)
      BY <1>1, <2>4 DEF LogInv, ClusterTypeOK, TypeOK
    <3>2. /\ Piece(log'[t], snapshot[t].lastIncludedIndex, order')
          /\ LastOf(log'[t], snapshot[t].lastIncludedIndex) = Len(order')
      BY <1>1, <1>2, <2>1, <2>4, <3>1, EngineParts, PieceAppend
    <3> QED
      BY <1>1, <2>3, <2>4, <3>2, EngineParts DEF EngineInv
  <2>5. CASE t # s
    <3>1. log'[t] = log[t] /\ disk'[t] = disk[t] /\ t \notin Active
      BY <1>0, <1>1, <2>5 DEF LogInv, ClusterTypeOK, TypeOK
    <3>2. Piece(log'[t], snapshot[t].lastIncludedIndex, order')
      BY <1>1, <1>2, <2>1, <3>1, EngineParts, PieceGrow
    <3> QED
      BY <1>1, <2>3, <3>1, <3>2, EngineParts DEF EngineInv
  <2> QED
    BY <2>4, <2>5
<1> QED
  BY <1>3, <1>4, <1>5 DEF LogInv

\* The application's reads and compactions.
LEMMA UseLogInv ==
    ASSUME LogInv, ~StorageMayFail, NEW s \in Server, Use(s)
    PROVE  LogInv'
<1>0. UNCHANGED <<wire, order, base, delivered>> /\ TypeOK
  BY DEF Use, historyVars, LogInv, ClusterTypeOK
<1>1. CASE Receive(s)
  <2>1. TypeOK' /\ UNCHANGED <<log, snapshot, disk, role>>
    BY <1>0, <1>1, InternalTypeOK DEF Internal, Receive, stateVars, logVars, storeVars
  <2>2. ClusterTypeOK'
    BY <1>0, <2>1 DEF ClusterTypeOK, LogInv
  <2> QED
    BY <1>0, <2>1, <2>2, EngineParts, SameOrder
<1>2. CASE \E i \in 1..MaxIndex : CompactLog(s, i)
  <2>1. PICK i \in 1..MaxIndex : CompactLog(s, i)
    BY <1>2
  <2>2. TypeOK' /\ UNCHANGED role
    BY <2>1, CompactEffect
  <2>3. ClusterTypeOK'
    BY <1>0, <2>2 DEF ClusterTypeOK, LogInv
  <2>4. CASE UNCHANGED <<log, snapshot, disk>>
    BY <1>0, <2>2, <2>3, <2>4, EngineParts, SameOrder
  <2>5. CASE ~UNCHANGED <<log, snapshot, disk>>
    <3>1. /\ \A t \in Server : t # s => /\ log'[t] = log[t]
                                        /\ snapshot'[t] = snapshot[t]
                                        /\ disk'[t] = disk[t]
          /\ snapshot'[s].lastIncludedIndex = i
          /\ Piece(log'[s], i, order)
          /\ LastOf(log'[s], i) = LastOf(log[s], snapshot[s].lastIncludedIndex)
          /\ disk'[s].log = log'[s] /\ disk'[s].snapshot = snapshot'[s]
      BY <2>1, <2>5, CompactEffect
    <3>2. ASSUME NEW t \in Server
          PROVE  /\ Piece(log'[t], snapshot'[t].lastIncludedIndex, order)
                 /\ disk'[t].log = log'[t] /\ disk'[t].snapshot = snapshot'[t]
                 /\ LastOf(log'[t], snapshot'[t].lastIncludedIndex)
                      = LastOf(log[t], snapshot[t].lastIncludedIndex)
      <4>1. CASE t = s
        BY <3>1, <4>1
      <4>2. CASE t # s
        BY <3>1, <4>2, EngineParts
      <4> QED
        BY <4>1, <4>2
    <3> QED
      BY <1>0, <2>2, <2>3, <3>2, EngineParts, SameOrder
  <2> QED
    BY <2>4, <2>5
<1> QED
  BY <1>1, <1>2 DEF Use

\* One iteration of the apply loop.
LEMMA ApplyLogInv ==
    ASSUME LogInv, NEW s \in Server, ClusterApply(s)
    PROVE  LogInv'
<1>0. TypeOK /\ UNCHANGED <<order, base, wire>> /\ ApplyEntry(s)
  BY DEF LogInv, ClusterTypeOK, ClusterApply
<1>1. TypeOK' /\ UNCHANGED <<log, snapshot, disk, role>>
  BY <1>0, InternalTypeOK DEF Internal, ApplyEntry, stateVars, logVars, storeVars
<1>2. ClusterTypeOK'
  <2>1. delivered' \in [Server -> Seq(LogEntry)]
    BY <1>1, RecordType DEF ClusterApply
  <2> QED
    BY <1>0, <1>1, <2>1 DEF ClusterTypeOK, LogInv
<1> QED
  BY <1>0, <1>1, <1>2, EngineParts, SameOrder

\* A crash and restart.
LEMMA RestartLogInv ==
    ASSUME LogInv, NEW s \in Server, ClusterRestart(s)
    PROVE  LogInv'
<1>0. /\ TypeOK /\ UNCHANGED <<order, wire>> /\ Restart(s)
      /\ base' = [base EXCEPT ![s] = disk[s].snapshot.lastIncludedIndex]
      /\ delivered' = [delivered EXCEPT ![s] = <<>>]
  BY DEF LogInv, ClusterTypeOK, ClusterRestart
<1>1. /\ TypeOK' /\ UNCHANGED <<log, snapshot, disk>>
      /\ role' = [role EXCEPT ![s] = "Follower"]
  BY <1>0, RestartEffect
<1>2. \A t \in Server : role'[t] = "Follower" \/ role'[t] = role[t]
  BY <1>0, <1>1 DEF TypeOK
<1>3. ClusterTypeOK'
  <2>1. disk[s].snapshot.lastIncludedIndex \in Nat
    BY EngineParts, EngineFacts
  <2> QED
    BY <1>0, <1>1, <2>1 DEF ClusterTypeOK, LogInv
<1> QED
  BY <1>0, <1>1, <1>2, <1>3, EngineParts, SameOrder

\* The leader sends.
LEMMA ReplicateLogInv ==
    ASSUME LogInv, SingleLeader, NEW l \in Server, NEW f \in Server, Replicate(l, f)
    PROVE  LogInv'
<1>0. UNCHANGED <<vars, order, base, delivered>> /\ f \notin Active
  BY ReplicateEffect DEF Replicate, historyVars
<1>1. UNCHANGED <<log, snapshot, disk, role>> /\ TypeOK'
  BY <1>0 DEF vars, stateVars, logVars, applyVars, storeVars, threadVars, TypeOK,
              LogInv, ClusterTypeOK
<1>2. PICK m \in Message : /\ wire' = [wire EXCEPT ![f] = Append(wire[f], m)]
                           /\ Excerpt(m, order)
  BY ReplicateEffect
<1>3. wire \in [Server -> Seq(Message)]
  BY DEF LogInv, ClusterTypeOK
<1>4. wire' \in [Server -> Seq(Message)]
  BY <1>2, <1>3
<1>5. ClusterTypeOK'
  BY <1>0, <1>1, <1>4 DEF ClusterTypeOK, LogInv
<1>6. ASSUME NEW t \in Server, NEW k \in 1..Len(wire'[t])
      PROVE  Excerpt(wire'[t][k], order)
  <2>1. CASE t = f
    <3>1. wire'[t] = Append(wire[f], m) /\ wire[f] \in Seq(Message)
      BY <1>2, <1>3, <2>1
    <3>2. CASE k = Len(wire[f]) + 1
      BY <1>2, <3>1, <3>2
    <3>3. CASE k # Len(wire[f]) + 1
      <4>1. k \in 1..Len(wire[f]) /\ wire'[t][k] = wire[f][k]
        BY <3>1, <3>3
      <4> QED
        BY <4>1, EngineParts
    <3> QED
      BY <3>2, <3>3
  <2>2. CASE t # f
    BY <1>2, <1>3, <2>2, EngineParts
  <2> QED
    BY <2>1, <2>2
<1>7. \A t \in Server : t \in Active => wire'[t] = wire[t]
  BY <1>0, <1>2, <1>3
<1> QED
  BY <1>0, <1>1, <1>5, <1>6, <1>7, EngineParts, SameOrder

\* The queue after a message was taken or lost.
LEMMA TakenWire ==
    ASSUME LogInv, NEW f \in Server, NEW k \in 1..Len(wire[f]),
           wire' = [wire EXCEPT ![f] = Without(@, k)]
    PROVE  /\ wire' \in [Server -> Seq(Message)]
           /\ \A t \in Server : \A j \in 1..Len(wire'[t]) : Excerpt(wire'[t][j], order)
           /\ \A t \in Server : t \in Active => wire'[t] = <<>>
<1>0. wire \in [Server -> Seq(Message)] /\ f \notin Active
  BY WireMessage DEF LogInv, ClusterTypeOK
<1>1. /\ Without(wire[f], k) \in Seq(Message)
      /\ Len(Without(wire[f], k)) = Len(wire[f]) - 1
      /\ \A j \in 1..(Len(wire[f]) - 1) :
           Without(wire[f], k)[j] = IF j < k THEN wire[f][j] ELSE wire[f][j + 1]
  BY <1>0, WithoutType
<1>2. wire'[f] = Without(wire[f], k) /\ \A t \in Server : t # f => wire'[t] = wire[t]
  BY <1>0
<1>3. wire' \in [Server -> Seq(Message)]
  BY <1>0, <1>1
<1>4. ASSUME NEW j \in 1..Len(wire'[f]) PROVE Excerpt(wire'[f][j], order)
  <2>1. Len(wire[f]) \in Nat
    BY <1>0
  <2>2. j \in 1..(Len(wire[f]) - 1) /\ j \in 1..Len(wire[f]) /\ j + 1 \in 1..Len(wire[f])
    BY <1>1, <1>2, <2>1
  <2>3. wire'[f][j] = wire[f][j] \/ wire'[f][j] = wire[f][j + 1]
    BY <1>1, <1>2, <2>2
  <2> QED
    BY <2>2, <2>3, EngineParts
<1> QED
  BY <1>0, <1>2, <1>3, <1>4, EngineParts

\* A call arrives.
LEMMA DeliverLogInv ==
    ASSUME LogInv, ~StorageMayFail, NEW f \in Server, NEW k \in 1..Len(wire[f]),
           Deliver(f, k)
    PROVE  LogInv'
<1> DEFINE m == wire[f][k]
<1>0. /\ m \in Message /\ Excerpt(m, order) /\ f \notin Active
      /\ UNCHANGED <<order, base, delivered>>
      /\ wire' = [wire EXCEPT ![f] = Without(@, k)]
      /\ RejectAppendEntries(f, m) \/ AcceptAppendEntries(f, m)
  BY WireMessage DEF Deliver, historyVars
<1>1. /\ wire' \in [Server -> Seq(Message)]
      /\ \A t \in Server : \A j \in 1..Len(wire'[t]) : Excerpt(wire'[t][j], order)
      /\ \A t \in Server : t \in Active => wire'[t] = <<>>
  BY <1>0, TakenWire
<1> HIDE DEF m
<1>2. CASE RejectAppendEntries(f, m)
  <2>1. /\ TypeOK' /\ UNCHANGED <<log, snapshot, disk>>
        /\ \A t \in Server : role'[t] = "Follower" \/ role'[t] = role[t]
    BY <1>0, <1>2, RejectEffect
  <2>2. ClusterTypeOK'
    BY <1>0, <1>1, <2>1 DEF ClusterTypeOK, LogInv
  <2> QED
    BY <1>0, <1>1, <2>1, <2>2, EngineParts, SameOrder
<1>3. CASE AcceptAppendEntries(f, m)
  <2>1. /\ TypeOK' /\ UNCHANGED snapshot
        /\ \A t \in Server : t # f => log'[t] = log[t] /\ disk'[t] = disk[t]
        /\ Piece(log'[f], snapshot[f].lastIncludedIndex, order)
        /\ disk'[f].log = log'[f] /\ disk'[f].snapshot = snapshot'[f]
        /\ \A t \in Server : role'[t] = "Follower" \/ role'[t] = role[t]
    BY <1>0, <1>3, AcceptEffect
  <2>2. ClusterTypeOK'
    BY <1>0, <1>1, <2>1 DEF ClusterTypeOK, LogInv
  <2>3. ASSUME NEW t \in Server
        PROVE  /\ Piece(log'[t], snapshot'[t].lastIncludedIndex, order)
               /\ disk'[t].log = log'[t] /\ disk'[t].snapshot = snapshot'[t]
               /\ t \in Active => LastOf(log'[t], snapshot'[t].lastIncludedIndex)
                                    = LastOf(log[t], snapshot[t].lastIncludedIndex)
    <3>1. CASE t = f
      BY <1>0, <2>1, <3>1
    <3>2. CASE t # f
      BY <2>1, <3>2, EngineParts
    <3> QED
      BY <3>1, <3>2
  <2> QED
    BY <1>0, <1>1, <2>1, <2>2, <2>3, EngineParts, SameOrder
<1> QED
  BY <1>0, <1>2, <1>3

\* A call is lost.
LEMMA LoseLogInv ==
    ASSUME LogInv, NEW f \in Server, NEW k \in 1..Len(wire[f]), Lose(f, k)
    PROVE  LogInv'
<1>0. /\ UNCHANGED <<vars, order, base, delivered>>
      /\ wire' = [wire EXCEPT ![f] = Without(@, k)]
  BY DEF Lose, historyVars
<1>1. UNCHANGED <<log, snapshot, disk, role>> /\ TypeOK'
  BY <1>0 DEF vars, stateVars, logVars, applyVars, storeVars, threadVars, TypeOK,
              LogInv, ClusterTypeOK
<1>2. /\ wire' \in [Server -> Seq(Message)]
      /\ \A t \in Server : \A j \in 1..Len(wire'[t]) : Excerpt(wire'[t][j], order)
      /\ \A t \in Server : t \in Active => wire'[t] = <<>>
  BY <1>0, TakenWire
<1>3. ClusterTypeOK'
  BY <1>0, <1>1, <1>2 DEF ClusterTypeOK, LogInv
<1> QED
  BY <1>0, <1>1, <1>2, <1>3, EngineParts, SameOrder

\* A step in which nothing happens.
LEMMA StutterLogInv ==
    ASSUME LogInv, UNCHANGED clusterVars
    PROVE  LogInv'
<1> USE DEF clusterVars, historyVars, vars, stateVars, logVars, applyVars, storeVars,
            threadVars
<1>1. UNCHANGED <<log, snapshot, disk, role, wire, order, base, delivered>> /\ TypeOK'
  BY DEF TypeOK, LogInv, ClusterTypeOK
<1>2. ClusterTypeOK'
  BY <1>1 DEF ClusterTypeOK, LogInv
<1> QED
  BY <1>1, <1>2, EngineParts, SameOrder

\* Every step keeps the logs pieces of one order.
LEMMA LogStep ==
    ASSUME LogInv, SingleLeader, [ClusterNext]_clusterVars
    PROVE  LogInv'
<1>0. ~StorageMayFail
  BY DEF SingleLeader
<1>1. ASSUME NEW s \in Active, Lead(s) \/ \E d \in Data : ClusterPropose(s, d)
      PROVE  LogInv'
  BY <1>0, <1>1, LeadLogInv, ProposeLogInv
<1>2. ASSUME NEW s \in Server, Use(s) \/ ClusterApply(s) \/ ClusterRestart(s)
      PROVE  LogInv'
  BY <1>0, <1>2, UseLogInv, ApplyLogInv, RestartLogInv
<1>3. ASSUME NEW l \in Server, NEW f \in Server, Replicate(l, f)
      PROVE  LogInv'
  BY <1>3, ReplicateLogInv
<1>4. ASSUME NEW f \in Server, NEW k \in 1..Len(wire[f]), Deliver(f, k) \/ Lose(f, k)
      PROVE  LogInv'
  BY <1>0, <1>4, DeliverLogInv, LoseLogInv
<1>5. CASE UNCHANGED clusterVars
  BY <1>5, StutterLogInv
<1> QED
  BY <1>1, <1>2, <1>3, <1>4, <1>5 DEF ClusterNext

\* The cluster starts with an empty order.
LEMMA LogInit == ClusterInit => LogInv
<1> SUFFICES ASSUME ClusterInit PROVE LogInv
  OBVIOUS
<1>1. TypeOK
  BY InitTypeOK DEF ClusterInit
<1>2. ClusterTypeOK /\ Indexed(order)
  BY <1>1 DEF ClusterInit, ClusterTypeOK, Indexed
<1>3. ASSUME NEW s \in Server PROVE EngineInv(s)
  <2>1. /\ log[s] = <<Sentinel(0, 0)>> /\ snapshot[s].lastIncludedIndex = 0
        /\ disk[s].log = log[s] /\ disk[s].snapshot = snapshot[s]
        /\ role[s] = "Follower" /\ wire[s] = <<>> /\ order = <<>>
    BY DEF ClusterInit, Init, Genesis
  <2>2. Piece(log[s], 0, order) /\ LastOf(log[s], 0) = Len(order)
    BY <2>1 DEF Piece, LastOf, Sentinel
  <2> QED
    BY <2>1, <2>2 DEF EngineInv
<1> QED
  BY <1>2, <1>3 DEF LogInv

\* Pieces of one order agree where they overlap.
LEMMA LogAgreement == LogInv => CommittedAgree
<1> SUFFICES ASSUME LogInv, NEW s \in Server, NEW t \in Server,
                    NEW i \in 1..commitIndex[s], InLog(s, i), InLog(t, i)
             PROVE  EntryAt(s, i) = EntryAt(t, i)
  BY DEF CommittedAgree
<1>0. i \in Nat
  BY DEF LogInv, ClusterTypeOK, TypeOK
<1>1. ASSUME NEW u \in Server, InLog(u, i) PROVE EntryAt(u, i) = order[i]
  <2> DEFINE n == snapshot[u].lastIncludedIndex
             k == i - n + 1
  <2>1. n \in Nat /\ Len(log[u]) \in Nat /\ LastLogIndex(u) = n + Len(log[u]) - 1
    BY EngineFacts
  <2>2. k \in 2..Len(log[u]) /\ n + k - 1 = i
    BY <1>0, <1>1, <2>1 DEF InLog
  <2>3. log[u][k] = order[n + k - 1]
    BY <2>2, EngineParts DEF Piece
  <2> QED
    BY <2>2, <2>3 DEF EntryAt, RelIndex
<1> QED
  BY <1>1

\* With one engine that may lead and a store that does not fail, every log and
\* every message stays a piece of the order in which entries were proposed,
\* through any loss, reordering, compaction and crash.
THEOREM OneOrder == SingleLeader => (ClusterSpec => []LogInv)
<1> SUFFICES ASSUME SingleLeader PROVE ClusterSpec => []LogInv
  OBVIOUS
<1>1. LogInv /\ [ClusterNext]_clusterVars => LogInv'
  BY LogStep
<1> QED
  BY <1>1, LogInit, PTL DEF ClusterSpec

\* Under the same conditions two engines hold the same entry at every index one
\* of them has committed: what HandleAppendEntries truncates and appends never
\* makes two logs disagree.
THEOREM SingleLeaderAgrees == SingleLeader => (ClusterSpec => []CommittedAgree)
  BY OneOrder, LogAgreement, PTL

-----------------------------------------------------------------------------
(* The second layer: a transport that keeps the order of messages.         *)

\* What the messages on their way say of a log that ends at c.
Behind(c, q) ==
    /\ \A k \in 1..Len(q) : c <= End(q[k])
    /\ \A j, k \in 1..Len(q) : j <= k => End(q[j]) <= End(q[k])

\* The invariant of one engine, in these terms.
LEMMA CommitParts ==
    ASSUME NEW s \in Server
    PROVE  CommitInv(s) <=>
             /\ commitIndex[s] <= LastOf(log[s], snapshot[s].lastIncludedIndex)
             /\ Behind(LastOf(log[s], snapshot[s].lastIncludedIndex), wire[s])
  BY DEF CommitInv, Behind

\* The same after a step.
LEMMA CommitPartsNext ==
    ASSUME NEW s \in Server
    PROVE  CommitInv(s)' <=>
             /\ commitIndex'[s] <= LastOf(log'[s], snapshot'[s].lastIncludedIndex)
             /\ Behind(LastOf(log'[s], snapshot'[s].lastIncludedIndex), wire'[s])
  BY DEF CommitInv, Behind

\* The end of a message is a log index.
LEMMA EndType ==
    ASSUME NEW q \in Seq(Message), NEW k \in 1..Len(q)
    PROVE  End(q[k]) \in Nat
<1>1. q[k] \in Message
  OBVIOUS
<1>2. ASSUME NEW m \in Message PROVE End(m) \in Nat
  <2>1. m.prevLogIndex \in Nat /\ Len(m.entries) \in Nat
    BY DEF Message
  <2> QED
    BY <2>1 DEF End
<1> QED
  BY <1>1, <1>2

\* Taking the first message, which becomes the end of the log, or losing any.
LEMMA BehindWithout ==
    ASSUME NEW q \in Seq(Message), NEW k \in 1..Len(q), NEW c, Behind(c, q)
    PROVE  /\ Behind(c, Without(q, k))
           /\ k = 1 => Behind(End(q[1]), Without(q, k))
<1> DEFINE w == Without(q, k)
           at(j) == IF j < k THEN j ELSE j + 1
<1>0. Len(q) \in Nat
  OBVIOUS
<1>1. Len(w) = Len(q) - 1
  BY WithoutType
<1>2. ASSUME NEW j \in 1..Len(w) PROVE w[j] = q[at(j)] /\ at(j) \in 1..Len(q)
  <2>1. j \in 1..(Len(q) - 1)
    BY <1>1
  <2>2. w[j] = IF j < k THEN q[j] ELSE q[j + 1]
    BY <2>1, WithoutType
  <2> QED
    BY <1>0, <2>1, <2>2
<1>3. ASSUME NEW i \in 1..Len(w), NEW j \in 1..Len(w), i <= j PROVE at(i) <= at(j)
  BY <1>0, <1>1, <1>3
<1>4. k = 1 => \A j \in 1..Len(w) : 1 <= at(j)
  BY <1>0, <1>1
<1>5. 1 \in 1..Len(q)
  BY <1>0
<1> HIDE DEF w, at
<1>6. \A i, j \in 1..Len(w) : i <= j => End(w[i]) <= End(w[j])
  BY <1>2, <1>3 DEF Behind
<1>7. \A j \in 1..Len(w) : c <= End(w[j])
  BY <1>2 DEF Behind
<1>8. ASSUME k = 1 PROVE \A j \in 1..Len(w) : End(q[1]) <= End(w[j])
  BY <1>2, <1>4, <1>5, <1>8 DEF Behind
<1> QED
  BY <1>6, <1>7, <1>8 DEF Behind, w

\* Sending a message that reaches at least as far as the log and the others.
LEMMA BehindAppend ==
    ASSUME NEW q \in Seq(Message), NEW c \in Nat, Behind(c, q), NEW m \in Message,
           c <= End(m), \A k \in 1..Len(q) : End(q[k]) <= End(m)
    PROVE  Behind(c, Append(q, m))
<1> DEFINE w == Append(q, m)
<1>1. Len(q) \in Nat /\ Len(w) = Len(q) + 1
  OBVIOUS
<1>2. w[Len(q) + 1] = m /\ \A k \in 1..Len(q) : w[k] = q[k]
  OBVIOUS
<1>3. End(m) \in Nat
  <2>1. m.prevLogIndex \in Nat /\ Len(m.entries) \in Nat
    BY DEF Message
  <2> QED
    BY <2>1 DEF End
<1> HIDE DEF w
<1>4. ASSUME NEW k \in 1..Len(w) PROVE k = Len(q) + 1 \/ k \in 1..Len(q)
  BY <1>1
<1>5. \A k \in 1..Len(w) : c <= End(w[k])
  BY <1>2, <1>4 DEF Behind
<1>6. ASSUME NEW j \in 1..Len(w), NEW k \in 1..Len(w), j <= k
      PROVE  End(w[j]) <= End(w[k])
  <2>1. CASE k = Len(q) + 1
    BY <1>2, <1>3, <1>4, <2>1
  <2>2. CASE k \in 1..Len(q)
    <3>1. j \in 1..Len(q)
      BY <1>1, <1>6, <2>2
    <3> QED
      BY <1>2, <1>6, <2>2, <3>1 DEF Behind
  <2> QED
    BY <1>4, <2>1, <2>2
<1> QED
  BY <1>5, <1>6 DEF Behind, w

\* Steps that leave the ends of the logs and the messages where they are.
LEMMA SameEnds ==
    ASSUME InOrderInv, LogInv', down' = {}, wire' = wire,
           \A t \in Server :
              /\ LastOf(log'[t], snapshot'[t].lastIncludedIndex)
                   = LastOf(log[t], snapshot[t].lastIncludedIndex)
              /\ commitIndex'[t] = commitIndex[t] \/ commitIndex'[t] = 0
    PROVE  InOrderInv'
<1>1. ASSUME NEW t \in Server PROVE CommitInv(t)'
  <2>1. CommitInv(t) /\ LastOf(log[t], snapshot[t].lastIncludedIndex) \in Nat
    BY EngineFacts DEF InOrderInv
  <2>2. commitIndex'[t] <= LastOf(log[t], snapshot[t].lastIncludedIndex)
    BY <2>1, CommitParts
  <2> QED
    BY <2>1, <2>2, CommitParts, CommitPartsNext
<1> QED
  BY <1>1 DEF InOrderInv

\* A proposal moves the end of the leader's log and its commitIndex together.
LEMMA ProposeInOrder ==
    ASSUME InOrderInv, LogInv', SingleLeader, NEW s \in Active, NEW d \in Data,
           ClusterPropose(s, d)
    PROVE  InOrderInv'
<1>0. s \in Server /\ LogInv /\ ~StorageMayFail
  BY ActiveAssumption DEF InOrderInv, SingleLeader
<1>1. PICK e \in LogEntry :
        /\ log' = [log EXCEPT ![s] = Append(log[s], e)]
        /\ order' = Append(order, e)
        /\ commitIndex' = [commitIndex EXCEPT ![s] = Len(order) + 1]
        /\ UNCHANGED <<snapshot, down, wire>>
  BY <1>0, ProposeEffect
<1>2. Len(order') = Len(order) + 1 /\ Len(order) \in Nat
  BY <1>0, <1>1 DEF LogInv, ClusterTypeOK
<1>3. CommitInv(s)'
  <2>1. LastOf(log'[s], snapshot'[s].lastIncludedIndex) = Len(order') /\ wire'[s] = <<>>
    BY <1>0 DEF LogInv, EngineInv
  <2>2. commitIndex'[s] = Len(order) + 1
    BY <1>0, <1>1 DEF LogInv, ClusterTypeOK, TypeOK
  <2>3. Behind(LastOf(log'[s], snapshot'[s].lastIncludedIndex), wire'[s])
    BY <2>1 DEF Behind
  <2> QED
    BY <1>0, <1>2, <2>1, <2>2, <2>3, CommitPartsNext
<1>4. ASSUME NEW t \in Server, t # s PROVE CommitInv(t)'
  <2>1. log'[t] = log[t] /\ commitIndex'[t] = commitIndex[t]
    BY <1>0, <1>1, <1>4 DEF LogInv, ClusterTypeOK, TypeOK
  <2> QED
    BY <1>1, <2>1, CommitParts, CommitPartsNext DEF InOrderInv
<1> QED
  BY <1>1, <1>3, <1>4 DEF InOrderInv

\* A message that is sent reaches to the end of the order.
LEMMA ReplicateInOrder ==
    ASSUME InOrderInv, LogInv', SingleLeader, NEW l \in Server, NEW f \in Server,
           Replicate(l, f)
    PROVE  InOrderInv'
<1>0. LogInv
  BY DEF InOrderInv
<1>1. PICK m \in Message : /\ wire' = [wire EXCEPT ![f] = Append(wire[f], m)]
                           /\ End(m) = Len(order)
  BY <1>0, ReplicateEffect
<1>2. UNCHANGED <<log, snapshot, commitIndex, down>>
  BY DEF Replicate, vars, logVars, applyVars, threadVars
<1>3. wire \in [Server -> Seq(Message)]
  BY <1>0 DEF LogInv, ClusterTypeOK
<1>4. CommitInv(f)'
  <2> DEFINE c == LastOf(log[f], snapshot[f].lastIncludedIndex)
  <2>1. c \in Nat /\ c <= Len(order)
    BY <1>0, EngineFacts DEF Piece
  <2>2. \A k \in 1..Len(wire[f]) : End(wire[f][k]) <= Len(order)
    BY <1>0, EngineParts DEF Excerpt
  <2>3. CommitInv(f)
    BY DEF InOrderInv
  <2>4. commitIndex[f] <= c /\ Behind(c, wire[f])
    BY <2>3, CommitParts
  <2> HIDE DEF c
  <2>5. Behind(c, Append(wire[f], m))
    BY <1>1, <1>3, <2>1, <2>2, <2>4, BehindAppend
  <2>6. wire'[f] = Append(wire[f], m)
    BY <1>1, <1>3
  <2> QED
    BY <1>2, <2>4, <2>5, <2>6, CommitPartsNext DEF c
<1>5. ASSUME NEW t \in Server, t # f PROVE CommitInv(t)'
  <2>1. wire'[t] = wire[t]
    BY <1>1, <1>3, <1>5
  <2> QED
    BY <1>2, <2>1, CommitParts, CommitPartsNext DEF InOrderInv
<1> QED
  BY <1>2, <1>4, <1>5 DEF InOrderInv

\* The first message makes the log end where it ends, not before the commit.
LEMMA DeliverInOrder ==
    ASSUME InOrderInv, LogInv', SingleLeader, InOrder, NEW f \in Server,
           NEW k \in 1..Len(wire[f]), Deliver(f, k)
    PROVE  InOrderInv'
<1> DEFINE m == wire[f][1]
           n == snapshot[f].lastIncludedIndex
           c == LastOf(log[f], n)
<1>0. LogInv /\ ~StorageMayFail /\ k = 1
  BY DEF InOrderInv, SingleLeader, Deliver
<1>1. /\ m \in Message /\ Excerpt(m, order) /\ wire[f] \in Seq(Message)
      /\ 1 \in 1..Len(wire[f])
  BY <1>0, WireMessage, EngineFacts
<1>2. /\ wire' = [wire EXCEPT ![f] = Without(wire[f], 1)]
      /\ RejectAppendEntries(f, m) \/ AcceptAppendEntries(f, m)
  BY <1>0 DEF Deliver
<1>3. wire'[f] = Without(wire[f], 1) /\ \A t \in Server : t # f => wire'[t] = wire[t]
  BY <1>0, <1>2 DEF LogInv, ClusterTypeOK
<1>4. commitIndex[f] <= c /\ Behind(c, wire[f]) /\ c <= End(m)
  BY <1>1, CommitParts DEF InOrderInv, Behind
<1>5. Behind(c, wire'[f]) /\ Behind(End(m), wire'[f])
  BY <1>1, <1>3, <1>4, BehindWithout
<1>6. End(m) \in Nat /\ c \in Nat /\ m.leaderCommit \in Nat /\ commitIndex[f] \in Nat
  BY <1>0, <1>1, EndType, EngineFacts DEF Message, LogInv, ClusterTypeOK, TypeOK
<1> HIDE DEF m
<1>7. CASE RejectAppendEntries(f, m)
  <2>1. UNCHANGED <<log, snapshot, commitIndex, down>>
    BY <1>0, <1>1, <1>7, RejectEffect
  <2>2. CommitInv(f)'
    BY <1>4, <1>5, <2>1, CommitPartsNext
  <2>3. ASSUME NEW t \in Server, t # f PROVE CommitInv(t)'
    BY <1>3, <2>1, <2>3, CommitParts, CommitPartsNext DEF InOrderInv
  <2> QED
    BY <2>1, <2>2, <2>3 DEF InOrderInv
<1>8. CASE AcceptAppendEntries(f, m)
  <2>1. /\ UNCHANGED <<snapshot, down>>
        /\ \A t \in Server : t # f => log'[t] = log[t]
        /\ LastOf(log'[f], n) = End(m)
        /\ commitIndex' = [commitIndex EXCEPT ![f] =
                             CommitUpTo(f, m.leaderCommit, End(m))]
    BY <1>0, <1>1, <1>8, AcceptEffect
  <2>2. /\ commitIndex'[f] = CommitUpTo(f, m.leaderCommit, End(m))
        /\ \A t \in Server : t # f => commitIndex'[t] = commitIndex[t]
    BY <1>0, <2>1 DEF LogInv, ClusterTypeOK, TypeOK
  <2>3. CommitUpTo(f, m.leaderCommit, End(m)) <= End(m)
    BY <1>4, <1>6 DEF CommitUpTo
  <2>4. CommitInv(f)'
    BY <1>5, <2>1, <2>2, <2>3, CommitPartsNext
  <2>5. ASSUME NEW t \in Server, t # f PROVE CommitInv(t)'
    BY <1>3, <2>1, <2>2, <2>5, CommitParts, CommitPartsNext DEF InOrderInv
  <2> QED
    BY <2>1, <2>4, <2>5 DEF InOrderInv
<1> QED
  BY <1>2, <1>7, <1>8

\* A lost message leaves the others in order.
LEMMA LoseInOrder ==
    ASSUME InOrderInv, LogInv', NEW f \in Server, NEW k \in 1..Len(wire[f]), Lose(f, k)
    PROVE  InOrderInv'
<1>0. LogInv
  BY DEF InOrderInv
<1>1. /\ UNCHANGED <<log, snapshot, commitIndex, down>>
      /\ wire' = [wire EXCEPT ![f] = Without(wire[f], k)]
  BY DEF Lose, vars, logVars, applyVars, threadVars
<1>2. wire'[f] = Without(wire[f], k) /\ \A t \in Server : t # f => wire'[t] = wire[t]
  BY <1>0, <1>1 DEF LogInv, ClusterTypeOK
<1>3. wire[f] \in Seq(Message)
  BY <1>0, EngineFacts
<1>4. CommitInv(f)'
  <2>1. Behind(LastOf(log[f], snapshot[f].lastIncludedIndex), wire'[f])
    BY <1>2, <1>3, CommitParts, BehindWithout DEF InOrderInv
  <2> QED
    BY <1>1, <2>1, CommitParts, CommitPartsNext DEF InOrderInv
<1>5. ASSUME NEW t \in Server, t # f PROVE CommitInv(t)'
  BY <1>1, <1>2, <1>5, CommitParts, CommitPartsNext DEF InOrderInv
<1> QED
  BY <1>1, <1>4, <1>5 DEF InOrderInv

\* A compaction stays within the log: the process does not die of it.
LEMMA UseInOrder ==
    ASSUME InOrderInv, LogInv', SingleLeader, NEW s \in Server, Use(s)
    PROVE  InOrderInv'
<1>0. LogInv /\ ~StorageMayFail /\ wire' = wire
  BY DEF InOrderInv, SingleLeader, Use
<1>1. CASE Receive(s)
  <2>1. UNCHANGED <<log, snapshot, commitIndex, down>>
    BY <1>1 DEF Receive, logVars, threadVars
  <2> QED
    BY <1>0, <2>1, SameEnds DEF InOrderInv
<1>2. CASE \E i \in 1..MaxIndex : CompactLog(s, i)
  <2>1. PICK i \in 1..MaxIndex : CompactLog(s, i)
    BY <1>2
  <2>2. i \in Nat /\ i <= commitIndex[s] /\ UNCHANGED commitIndex
    BY <1>0, <2>1, CompactEffect
  <2>3. i <= LastOf(log[s], snapshot[s].lastIncludedIndex)
    <3>1. /\ commitIndex[s] <= LastOf(log[s], snapshot[s].lastIncludedIndex)
          /\ commitIndex[s] \in Nat /\ LastOf(log[s], snapshot[s].lastIncludedIndex) \in Nat
      BY <1>0, CommitParts, EngineFacts DEF InOrderInv, LogInv, ClusterTypeOK, TypeOK
    <3> QED
      BY <2>2, <3>1
  <2>4. /\ \A t \in Server : t # s => log'[t] = log[t] /\ snapshot'[t] = snapshot[t]
        /\ snapshot'[s].lastIncludedIndex = i
        /\ LastOf(log'[s], i) = LastOf(log[s], snapshot[s].lastIncludedIndex)
        /\ UNCHANGED down
    <3>1. LastOf(log[s], snapshot[s].lastIncludedIndex) \in Nat
      BY <1>0, EngineFacts
    <3>2. ~(i > LastOf(log[s], snapshot[s].lastIncludedIndex))
      BY <2>2, <2>3, <3>1
    <3> QED
      BY <1>0, <2>1, <3>2, CompactEffect
  <2>5. \A t \in Server : LastOf(log'[t], snapshot'[t].lastIncludedIndex)
                            = LastOf(log[t], snapshot[t].lastIncludedIndex)
    BY <2>4
  <2> QED
    BY <1>0, <2>2, <2>4, <2>5, SameEnds DEF InOrderInv
<1> QED
  BY <1>1, <1>2 DEF Use

\* Every step keeps the second layer.
LEMMA InOrderStep ==
    ASSUME InOrderInv, SingleLeader, InOrder, [ClusterNext]_clusterVars
    PROVE  InOrderInv'
<1>0. LogInv /\ LogInv' /\ ~StorageMayFail /\ Active \subseteq Server
  BY LogStep, ActiveAssumption DEF InOrderInv, SingleLeader
<1>1. ASSUME NEW s \in Active, Lead(s) \/ \E d \in Data : ClusterPropose(s, d)
      PROVE  InOrderInv'
  <2>1. CASE Lead(s)
    <3>1. UNCHANGED <<log, snapshot, commitIndex, down, wire>>
      BY <1>0, <2>1, LeadEffect
    <3> QED
      BY <1>0, <3>1, SameEnds DEF InOrderInv
  <2>2. CASE \E d \in Data : ClusterPropose(s, d)
    BY <1>0, <2>2, ProposeInOrder
  <2> QED
    BY <1>1, <2>1, <2>2
<1>2. ASSUME NEW s \in Server, Use(s) \/ ClusterApply(s) \/ ClusterRestart(s)
      PROVE  InOrderInv'
  <2>1. CASE ClusterApply(s)
    <3>1. UNCHANGED <<log, snapshot, commitIndex, down, wire>>
      BY <2>1 DEF ClusterApply, ApplyEntry, logVars, threadVars
    <3> QED
      BY <1>0, <3>1, SameEnds DEF InOrderInv
  <2>2. CASE ClusterRestart(s)
    <3>1. /\ UNCHANGED <<log, snapshot, wire>> /\ down' = {}
          /\ commitIndex' = [commitIndex EXCEPT ![s] = 0]
      BY <1>0, <2>2, RestartEffect DEF ClusterRestart, InOrderInv
    <3>2. \A t \in Server : commitIndex'[t] = commitIndex[t] \/ commitIndex'[t] = 0
      BY <1>0, <3>1 DEF LogInv, ClusterTypeOK, TypeOK
    <3> QED
      BY <1>0, <3>1, <3>2, SameEnds
  <2> QED
    BY <1>0, <1>2, <2>1, <2>2, UseInOrder
<1>3. ASSUME NEW l \in Server, NEW f \in Server, Replicate(l, f)
      PROVE  InOrderInv'
  BY <1>0, <1>3, ReplicateInOrder
<1>4. ASSUME NEW f \in Server, NEW k \in 1..Len(wire[f]), Deliver(f, k) \/ Lose(f, k)
      PROVE  InOrderInv'
  BY <1>0, <1>4, DeliverInOrder, LoseInOrder
<1>5. CASE UNCHANGED clusterVars
  <2>1. UNCHANGED <<log, snapshot, commitIndex, down, wire>>
    BY <1>5 DEF clusterVars, vars, logVars, applyVars, threadVars
  <2> QED
    BY <1>0, <2>1, SameEnds DEF InOrderInv
<1> QED
  BY <1>1, <1>2, <1>3, <1>4, <1>5 DEF ClusterNext

\* It holds at the start.
LEMMA InOrderInit == ClusterInit => InOrderInv
<1> SUFFICES ASSUME ClusterInit PROVE InOrderInv
  OBVIOUS
<1>1. LogInv /\ down = {}
  BY LogInit DEF ClusterInit, Init
<1>2. ASSUME NEW s \in Server PROVE CommitInv(s)
  <2>1. commitIndex[s] = 0 /\ wire[s] = <<>>
    BY DEF ClusterInit, Init
  <2>2. LastOf(log[s], snapshot[s].lastIncludedIndex) \in Nat
    BY <1>1, EngineFacts
  <2> QED
    BY <2>1, <2>2 DEF CommitInv
<1> QED
  BY <1>1, <1>2 DEF InOrderInv

\* The second layer, for every cluster with one engine that may lead.
THEOREM InOrderInvariance == SingleLeader /\ InOrder => (ClusterSpec => []InOrderInv)
<1> SUFFICES ASSUME SingleLeader, InOrder PROVE ClusterSpec => []InOrderInv
  OBVIOUS
<1>1. InOrderInv /\ [ClusterNext]_clusterVars => InOrderInv'
  BY InOrderStep
<1> QED
  BY <1>1, InOrderInit, PTL DEF ClusterSpec

\* A transport that keeps the order of messages is enough for commitIndex never
\* to point past a log: no retransmission that HandleAppendEntries accepts cuts
\* off an entry that was handed to the application.
THEOREM CommitStaysInLog == SingleLeader /\ InOrder => (ClusterSpec => []CommitWithinLog)
<1> SUFFICES ASSUME SingleLeader, InOrder PROVE ClusterSpec => []CommitWithinLog
  OBVIOUS
<1>1. InOrderInv => CommitWithinLog
  <2> SUFFICES ASSUME InOrderInv, NEW s \in Server PROVE commitIndex[s] <= LastLogIndex(s)
    BY DEF CommitWithinLog
  <2>1. LogInv /\ CommitInv(s)
    BY DEF InOrderInv
  <2> QED
    BY <2>1, EngineFacts, CommitParts
<1> QED
  BY <1>1, InOrderInvariance, PTL

\* Under the same conditions CompactLog is never asked to cut past the log, which
\* is the only index out of range that kills the process.
THEOREM NeverPanics == SingleLeader /\ InOrder => (ClusterSpec => []NoPanic)
<1> SUFFICES ASSUME SingleLeader, InOrder PROVE ClusterSpec => []NoPanic
  OBVIOUS
<1>1. InOrderInv => NoPanic
  BY DEF InOrderInv, NoPanic
<1> QED
  BY <1>1, InOrderInvariance, PTL

-----------------------------------------------------------------------------
(* The third layer: what the application of a follower was handed.         *)

RoomyChannel == MaxIndex <= ChanCap

\* The term of the engine that leads stays within its bound.
LEMMA TermStep ==
    ASSUME LogInv, SingleLeader, \A s \in Active : TermInv(s),
           [ClusterNext]_clusterVars
    PROVE  \A s \in Active : TermInv(s)'
<1> USE DEF stateVars, logVars, applyVars, storeVars, threadVars, historyVars
<1> SUFFICES ASSUME NEW a \in Active PROVE TermInv(a)'
  OBVIOUS
<1>0. /\ a \in Server /\ ~StorageMayFail /\ TermInv(a) /\ TypeOK
      /\ \A s \in Active : s = a
  BY ActiveAssumption DEF SingleLeader, LogInv, ClusterTypeOK
<1>1. /\ currentTerm[a] \in Nat /\ disk[a].currentTerm \in Nat /\ MaxTerm \in Nat
      /\ currentTerm[a] <= MaxTerm /\ disk[a].currentTerm <= MaxTerm
      /\ loop[a] = "fired" => currentTerm[a] < MaxTerm
  <2>1. disk[a] \in StableState /\ currentTerm[a] \in Nat
    BY <1>0 DEF TypeOK
  <2> QED
    BY <1>0, <2>1, BoundAssumption DEF TermInv, StableState
<1>2. CASE currentTerm'[a] = currentTerm[a] /\ loop'[a] = loop[a]
           /\ disk'[a].currentTerm \in {disk[a].currentTerm, currentTerm[a]}
  BY <1>1, <1>2 DEF TermInv
<1>3. CASE Lead(a)
  <2>1. CASE Start(a) \/ LoopTop(a) \/ Heartbeat(a) \/ LaunchVotes(a)
    <3>1. UNCHANGED <<currentTerm, disk>> /\ loop'[a] # "fired"
      BY <1>0, <2>1 DEF Start, LoopTop, Heartbeat, LaunchVotes, TypeOK
    <3> QED
      BY <1>1, <3>1 DEF TermInv
  <2>2. CASE TimerFires(a)
    BY <1>1, <2>2 DEF TermInv, TimerFires
  <2>3. CASE StartElection(a)
    <3>1. /\ currentTerm'[a] = currentTerm[a] + 1 /\ loop'[a] = "asking"
          /\ currentTerm[a] < MaxTerm
      BY <1>0, <1>1, <2>3 DEF StartElection, TypeOK
    <3>2. disk'[a].currentTerm = currentTerm'[a]
      BY <1>0, <2>3, SavedLog DEF StartElection
    <3> QED
      BY <1>1, <3>1, <3>2 DEF TermInv
  <2>4. CASE \E b \in ballots[a] : CountVote(a, b)
    BY <1>2, <2>4 DEF CountVote
  <2>5. CASE \E r \in AssignedRoles : SetRole(a, r)
    BY <1>2, <2>5 DEF SetRole
  <2> QED
    BY <1>3, <2>1, <2>2, <2>3, <2>4, <2>5 DEF Lead
<1>4. ASSUME NEW d \in Data, ClusterPropose(a, d) PROVE TermInv(a)'
  <2>1. UNCHANGED <<currentTerm, loop>> /\ PersistState(a)
    BY <1>4 DEF ClusterPropose, Propose
  <2> QED
    BY <1>0, <1>2, <2>1, SavedLog
<1>5. ASSUME NEW s \in Server, Use(s) PROVE TermInv(a)'
  <2>1. CASE Receive(s)
    BY <1>2, <2>1 DEF Receive
  <2>2. CASE \E i \in 1..MaxIndex : CompactLog(s, i)
    <3>1. PICK i \in 1..MaxIndex : CompactLog(s, i)
      BY <2>2
    <3>2. UNCHANGED <<currentTerm, loop>>
      BY <1>0, <3>1, CompactEffect
    <3>3. \/ disk' = disk
          \/ /\ disk'[s].currentTerm = currentTerm'[s]
             /\ \A t \in Server : t # s => disk'[t] = disk[t]
      BY <1>0, <3>1, CompactEffect
    <3> QED
      BY <1>0, <1>2, <3>2, <3>3
  <2> QED
    BY <1>5, <2>1, <2>2 DEF Use
<1>6. ASSUME NEW s \in Server, ClusterApply(s) PROVE TermInv(a)'
  BY <1>2, <1>6 DEF ClusterApply, ApplyEntry
<1>7. ASSUME NEW s \in Server, ClusterRestart(s) PROVE TermInv(a)'
  <2>1. /\ currentTerm' = [currentTerm EXCEPT ![s] = disk[s].currentTerm]
        /\ loop' = [loop EXCEPT ![s] = "idle"] /\ disk' = disk
    BY <1>7 DEF ClusterRestart, Restart, Boot
  <2>2. CASE s = a
    <3>1. currentTerm'[a] = disk[a].currentTerm /\ loop'[a] = "idle"
      BY <1>0, <2>1, <2>2 DEF TypeOK
    <3> QED
      BY <1>1, <2>1, <3>1 DEF TermInv
  <2>3. CASE s # a
    BY <1>0, <1>2, <2>1, <2>3 DEF TypeOK
  <2> QED
    BY <2>2, <2>3
<1>8. ASSUME NEW f \in Server, NEW k \in 1..Len(wire[f]), Deliver(f, k) PROVE TermInv(a)'
  <2>1. /\ f # a /\ wire[f][k] \in Message /\ Excerpt(wire[f][k], order)
        /\ RejectAppendEntries(f, wire[f][k]) \/ AcceptAppendEntries(f, wire[f][k])
    BY <1>0, <1>8, WireMessage DEF Deliver
  <2>2. currentTerm'[a] = currentTerm[a] /\ loop'[a] = loop[a] /\ disk'[a] = disk[a]
    BY <1>0, <2>1, RejectEffect, AcceptEffect
  <2> QED
    BY <1>2, <2>2
<1>9. CASE UNCHANGED vars
  BY <1>2, <1>9 DEF vars
<1> QED
  BY <1>0, <1>3, <1>4, <1>5, <1>6, <1>7, <1>8, <1>9
     DEF ClusterNext, clusterVars, Replicate, Lose

\* What the invariant says of the numbers of a follower.
LEMMA FollowerNumbers ==
    ASSUME DeliveryInv, NEW s \in Passive
    PROVE  /\ s \in Server /\ LogInv
           /\ snapshot[s].lastIncludedIndex \in Nat /\ base[s] \in Nat
           /\ lastApplied[s] \in Nat /\ commitIndex[s] \in Nat
           /\ commitChan[s] \in Seq(LogEntry) /\ delivered[s] \in Seq(LogEntry)
           /\ Len(commitChan[s]) \in Nat /\ Len(delivered[s]) \in Nat
           /\ commitIndex[s] <= snapshot[s].lastIncludedIndex + Len(log[s]) - 1
           /\ commitIndex[s] <= Len(order)
           /\ FollowerInv(s)
<1>1. s \in Server /\ LogInv /\ CommitInv(s) /\ FollowerInv(s)
  BY DEF Passive, DeliveryInv, InOrderInv
<1>2. /\ lastApplied[s] \in Nat /\ commitIndex[s] \in Nat
      /\ commitChan[s] \in Seq(LogEntry)
  BY <1>1 DEF LogInv, ClusterTypeOK, TypeOK
<1>3. delivered[s] \in Seq(LogEntry) /\ base[s] \in Nat
  BY <1>1 DEF LogInv, ClusterTypeOK
<1>4. Len(commitChan[s]) \in Nat /\ Len(delivered[s]) \in Nat
  BY <1>2, <1>3
<1>5. /\ commitIndex[s] <= LastOf(log[s], snapshot[s].lastIncludedIndex)
      /\ LastOf(log[s], snapshot[s].lastIncludedIndex) <= Len(order)
  BY <1>1, EngineFacts DEF CommitInv, Piece
<1>6. /\ snapshot[s].lastIncludedIndex \in Nat /\ Len(order) \in Nat
      /\ LastOf(log[s], snapshot[s].lastIncludedIndex) \in Nat
      /\ LastOf(log[s], snapshot[s].lastIncludedIndex)
           = snapshot[s].lastIncludedIndex + Len(log[s]) - 1
  BY <1>1, EngineFacts
<1>7. commitIndex[s] <= Len(order)
  BY <1>2, <1>5, <1>6
<1> QED
  BY <1>1, <1>2, <1>3, <1>4, <1>5, <1>6, <1>7

\* A follower hands its application the next entry of the order, or, below its
\* snapshot, nothing; the channel never fills up.
LEMMA ApplyDelivers ==
    ASSUME DeliveryInv, RoomyChannel, NEW s \in Passive, ClusterApply(s)
    PROVE  /\ lastApplied' = [lastApplied EXCEPT ![s] = lastApplied[s] + 1]
           /\ lastApplied[s] + 1 <= commitIndex[s]
           /\ IF lastApplied[s] + 1 > base[s]
                THEN /\ commitChan' = [commitChan EXCEPT ![s] =
                                         Append(commitChan[s], order[lastApplied[s] + 1])]
                     /\ delivered' = [delivered EXCEPT ![s] =
                                        Append(delivered[s], order[lastApplied[s] + 1])]
                     /\ Len(delivered[s]) = lastApplied[s] - base[s]
                     /\ order[lastApplied[s] + 1] \in LogEntry
                ELSE UNCHANGED <<commitChan, delivered>>
<1> DEFINE n == snapshot[s].lastIncludedIndex
           next == lastApplied[s] + 1
           rel == RelIndex(s, next)
<1>1. /\ s \in Server /\ LogInv /\ n \in Nat /\ base[s] \in Nat
      /\ lastApplied[s] \in Nat /\ commitIndex[s] \in Nat
      /\ commitChan[s] \in Seq(LogEntry) /\ delivered[s] \in Seq(LogEntry)
      /\ Len(commitChan[s]) \in Nat /\ Len(delivered[s]) \in Nat
      /\ commitIndex[s] <= n + Len(log[s]) - 1
      /\ commitIndex[s] <= Len(order)
      /\ FollowerInv(s)
  BY FollowerNumbers
<1>2. Len(log[s]) \in Nat /\ Len(log[s]) >= 1 /\ Len(order) \in Nat
      /\ order \in Seq(LogEntry) /\ Piece(log[s], n, order) /\ Indexed(order)
  BY <1>1, EngineFacts DEF LogInv
<1>3. /\ lastApplied[s] < commitIndex[s]
      /\ lastApplied' = [lastApplied EXCEPT ![s] = next]
      /\ IF rel >= 0 /\ rel < Len(log[s]) /\ log[s][rel + 1].data # NoData
           THEN TrySend(s, log[s][rel + 1])
           ELSE UNCHANGED commitChan
      /\ RecordSend(s)
  BY DEF ClusterApply, ApplyEntry
<1>4. next \in Nat /\ next <= commitIndex[s] /\ rel = next - n /\ next >= 1
  BY <1>1, <1>3, SMTT(40) DEF RelIndex
<1>5. /\ base[s] <= n
      /\ n <= base[s] \/ n <= lastApplied[s]
      /\ Len(delivered[s]) = IF lastApplied[s] <= base[s] THEN 0 ELSE lastApplied[s] - base[s]
      /\ Len(commitChan[s]) <= Len(delivered[s])
  BY <1>1 DEF FollowerInv
<1> HIDE DEF next, rel, n
<1>6. CASE next > base[s]
  <2>1. lastApplied[s] >= base[s] /\ n <= lastApplied[s]
    BY <1>1, <1>5, <1>6 DEF next
  <2>2. rel >= 0 /\ rel < Len(log[s]) /\ rel + 1 \in 2..Len(log[s]) /\ n + (rel + 1) - 1 = next
    <3>1. rel \in Int /\ rel >= 1 /\ n + rel = next
      BY <1>1, <1>4, <2>1, SMTT(40) DEF next
    <3>2. Len(log[s]) \in Nat /\ rel <= Len(log[s]) - 1
      BY <1>1, <1>2, <1>4
    <3>3. \A x \in Int : \A y \in Nat : x >= 1 /\ x <= y - 1
            => x >= 0 /\ x < y /\ x + 1 \in 2..y
      OBVIOUS
    <3>4. n + (rel + 1) - 1 = next
      BY <1>1, <3>1
    <3> QED
      BY <3>1, <3>2, <3>3, <3>4
  <2>3. log[s][rel + 1] = order[next]
    <3>1. log[s][rel + 1] = order[n + (rel + 1) - 1]
      BY <1>2, <2>2 DEF Piece
    <3> QED
      BY <2>2, <3>1
  <2>4. next \in 1..Len(order)
    BY <1>1, <1>2, <1>4
  <2>5. order[next] \in LogEntry /\ order[next].data \in Data
    BY <1>2, <2>4 DEF Indexed
  <2>6. TrySend(s, order[next])
    BY <1>3, <2>2, <2>3, <2>5, DataAssumption
  <2>7. Len(delivered[s]) = lastApplied[s] - base[s]
    BY <1>1, <1>5, <2>1
  <2>8. Len(commitChan[s]) < ChanCap
    <3>1. Len(order) <= MaxIndex /\ MaxIndex <= ChanCap /\ MaxIndex \in Nat /\ ChanCap \in Nat
      BY BoundAssumption DEF DeliveryInv, RoomyChannel
    <3>2. Len(commitChan[s]) <= lastApplied[s] /\ lastApplied[s] < Len(order)
      BY <1>1, <1>2, <1>3, <1>5, <2>7
    <3> QED
      BY <1>1, <1>2, <3>1, <3>2
  <2>9. commitChan' = [commitChan EXCEPT ![s] = Append(commitChan[s], order[next])]
    BY <2>6, <2>8 DEF TrySend
  <2>10. commitChan'[s] = Append(commitChan[s], order[next])
    BY <1>1, <2>9 DEF LogInv, ClusterTypeOK, TypeOK
  <2>11. /\ Len(commitChan'[s]) > Len(commitChan[s])
         /\ commitChan'[s][Len(commitChan'[s])] = order[next]
    BY <1>1, <2>5, <2>10
  <2>12. delivered' = [delivered EXCEPT ![s] = Append(delivered[s], order[next])]
    BY <1>3, <2>11 DEF RecordSend
  <2> QED
    BY <1>3, <1>4, <1>6, <2>5, <2>7, <2>9, <2>12 DEF next
<1>7. CASE ~(next > base[s])
  <2>1. rel <= 0
    BY <1>1, <1>4, <1>5, <1>7
  <2>2. UNCHANGED commitChan
    <3>1. CASE rel >= 0
      <4>1. rel + 1 = 1
        BY <1>1, <1>4, <2>1, <3>1
      <4>2. log[s][rel + 1].data = NoData
        BY <1>2, <4>1 DEF Piece
      <4> QED
        BY <1>3, <4>2
    <3>2. CASE ~(rel >= 0)
      BY <1>3, <3>2
    <3> QED
      BY <3>1, <3>2
  <2>3. UNCHANGED delivered
    <3>1. ~(Len(commitChan'[s]) > Len(commitChan[s]))
      BY <1>1, <2>2
    <3> QED
      BY <1>3, <3>1 DEF RecordSend
  <2> QED
    BY <1>3, <1>4, <1>7, <2>2, <2>3 DEF next
<1> QED
  BY <1>6, <1>7

\* Steps that leave what concerns a follower alone, or only move its commitIndex
\* on or let its application read.
LEMMA SameFollower ==
    ASSUME DeliveryInv, NEW s \in Passive,
           snapshot'[s] = snapshot[s], base'[s] = base[s],
           lastApplied'[s] = lastApplied[s], commitIndex'[s] >= commitIndex[s],
           commitIndex'[s] \in Nat, delivered'[s] = delivered[s],
           Len(commitChan'[s]) <= Len(commitChan[s]), Len(commitChan'[s]) \in Nat
    PROVE  FollowerInv(s)'
<1>1. /\ lastApplied[s] \in Nat /\ commitIndex[s] \in Nat
      /\ Len(commitChan[s]) \in Nat /\ Len(delivered[s]) \in Nat /\ FollowerInv(s)
  BY FollowerNumbers
<1>2. /\ lastApplied[s] <= commitIndex[s] /\ Len(commitChan[s]) <= Len(delivered[s])
      /\ base[s] <= snapshot[s].lastIncludedIndex
      /\ snapshot[s].lastIncludedIndex <= base[s]
           \/ snapshot[s].lastIncludedIndex <= lastApplied[s]
      /\ Len(delivered[s]) = IF lastApplied[s] <= base[s] THEN 0
                             ELSE lastApplied[s] - base[s]
  BY <1>1 DEF FollowerInv
<1>3. lastApplied[s] <= commitIndex'[s] /\ Len(commitChan'[s]) <= Len(delivered[s])
  BY <1>1, <1>2
<1> QED
  BY <1>2, <1>3 DEF FollowerInv

\* The same when the follower's variables do not change at all.
LEMMA UntouchedFollower ==
    ASSUME DeliveryInv, NEW s \in Passive,
           snapshot'[s] = snapshot[s], base'[s] = base[s],
           lastApplied'[s] = lastApplied[s], commitIndex'[s] = commitIndex[s],
           delivered'[s] = delivered[s], commitChan'[s] = commitChan[s]
    PROVE  FollowerInv(s)'
<1>1. commitIndex[s] \in Nat /\ Len(commitChan[s]) \in Nat
  BY FollowerNumbers
<1>2. commitIndex'[s] >= commitIndex[s] /\ Len(commitChan'[s]) <= Len(commitChan[s])
  BY <1>1
<1> QED
  BY <1>1, <1>2, SameFollower

\* Every step keeps the third layer.
LEMMA DeliveryStep ==
    ASSUME DeliveryInv, SingleLeader, InOrder, RoomyChannel,
           [ClusterNext]_clusterVars
    PROVE  DeliveryInv'
<1> USE DEF historyVars
<1>0. InOrderInv /\ InOrderInv' /\ LogInv /\ LogInv' /\ ~StorageMayFail
  BY InOrderStep DEF DeliveryInv, InOrderInv, SingleLeader
<1>1. \A s \in Active : TermInv(s)'
  BY <1>0, TermStep DEF DeliveryInv
<1>2. TypeOK /\ TypeOK' /\ ClusterTypeOK /\ Active \subseteq Server
  BY <1>0, ActiveAssumption DEF LogInv, ClusterTypeOK
<1>3. ASSUME Len(order') <= MaxIndex, \A s \in Passive : FollowerInv(s)'
      PROVE  DeliveryInv'
  BY <1>0, <1>1, <1>3 DEF DeliveryInv
<1>4. ASSUME NEW a \in Active, Lead(a) PROVE DeliveryInv'
  <2>1. UNCHANGED <<snapshot, commitIndex, lastApplied, commitChan, order, base, delivered>>
    BY <1>0, <1>2, <1>4, LeadEffect
  <2> QED
    BY <1>3, <2>1, UntouchedFollower DEF DeliveryInv
<1>5. ASSUME NEW a \in Active, NEW d \in Data, ClusterPropose(a, d) PROVE DeliveryInv'
  <2>1. PICK e \in LogEntry : /\ order' = Append(order, e)
                              /\ UNCHANGED <<snapshot, base>>
    BY <1>0, <1>2, <1>5, ProposeEffect
  <2>2. Len(order') <= MaxIndex
    <3>1. order \in Seq(LogEntry) /\ Len(order) < MaxIndex
      BY <1>2, <1>5 DEF ClusterTypeOK, ClusterPropose
    <3> QED
      BY <2>1, <3>1, BoundAssumption
  <2>3. ASSUME NEW s \in Passive PROVE FollowerInv(s)'
    <3>1. s # a /\ s \in Server
      BY DEF Passive
    <3>2. commitIndex'[s] = commitIndex[s] /\ lastApplied'[s] = lastApplied[s]
      BY <1>2, <1>5, <3>1 DEF ClusterPropose, Propose, TypeOK
    <3>3. commitChan'[s] = commitChan[s]
      BY <1>2, <1>5, <3>1 DEF ClusterPropose, Propose, TrySend, TypeOK
    <3>4. delivered'[s] = delivered[s]
      BY <1>2, <1>5, <3>1 DEF ClusterPropose, RecordSend, ClusterTypeOK
    <3> QED
      BY <2>1, <3>2, <3>3, <3>4, UntouchedFollower
  <2> QED
    BY <1>3, <2>2, <2>3
<1>6. ASSUME NEW u \in Server, Use(u) PROVE DeliveryInv'
  <2>0. UNCHANGED <<order, base, delivered>>
    BY <1>6 DEF Use
  <2>1. ASSUME NEW s \in Passive PROVE FollowerInv(s)'
    <3>0. s \in Server
      BY DEF Passive
    <3>1. CASE Receive(u)
      <4>1. /\ UNCHANGED <<snapshot, commitIndex, lastApplied>>
            /\ commitChan' = [commitChan EXCEPT ![u] = Tail(@)] /\ commitChan[u] # <<>>
        BY <3>1 DEF Receive, logVars
      <4>2. CASE s = u
        <5>1. commitChan[s] \in Seq(LogEntry) /\ commitIndex[s] \in Nat
          BY FollowerNumbers
        <5>2. commitChan'[s] = Tail(commitChan[s])
          BY <1>2, <4>1, <4>2 DEF TypeOK
        <5>3. Len(commitChan'[s]) <= Len(commitChan[s]) /\ Len(commitChan'[s]) \in Nat
          BY <4>1, <4>2, <5>1, <5>2
        <5>4. commitIndex'[s] >= commitIndex[s]
          BY <4>1, <5>1
        <5> QED
          BY <2>0, <4>1, <5>1, <5>3, <5>4, SameFollower
      <4>3. CASE s # u
        <5>1. commitChan'[s] = commitChan[s]
          BY <1>2, <3>0, <4>1, <4>3 DEF TypeOK
        <5> QED
          BY <2>0, <4>1, <5>1, UntouchedFollower
      <4> QED
        BY <4>2, <4>3
    <3>2. ASSUME NEW i \in 1..MaxIndex, CompactLog(u, i) PROVE FollowerInv(s)'
      <4>1. /\ UNCHANGED <<commitIndex, lastApplied, commitChan>>
            /\ i \in Nat /\ i <= commitIndex[u] /\ lastApplied[u] >= commitIndex[u]
            /\ \/ UNCHANGED snapshot
               \/ /\ \A t \in Server : t # u => snapshot'[t] = snapshot[t]
                  /\ snapshot'[u].lastIncludedIndex = i
                  /\ snapshot[u].lastIncludedIndex < i
        BY <1>0, <3>2, CompactEffect
      <4>2. CASE snapshot'[s] = snapshot[s]
        BY <2>0, <4>1, <4>2, UntouchedFollower
      <4>3. CASE snapshot'[s] # snapshot[s]
        <5>1. /\ s = u /\ snapshot'[s].lastIncludedIndex = i
              /\ snapshot[s].lastIncludedIndex < i
          BY <3>0, <4>1, <4>3
        <5>2. /\ snapshot[s].lastIncludedIndex \in Nat /\ base[s] \in Nat
              /\ lastApplied[s] \in Nat /\ commitIndex[s] \in Nat /\ FollowerInv(s)
          BY FollowerNumbers
        <5>3. base[s] <= i /\ i <= lastApplied[s]
          BY <4>1, <5>1, <5>2 DEF FollowerInv
        <5> QED
          BY <2>0, <4>1, <5>1, <5>2, <5>3 DEF FollowerInv
      <4> QED
        BY <4>2, <4>3
    <3> QED
      BY <1>6, <3>1, <3>2 DEF Use
  <2> QED
    BY <1>3, <2>0, <2>1 DEF DeliveryInv
<1>7. ASSUME NEW u \in Server, ClusterApply(u) PROVE DeliveryInv'
  <2>0. UNCHANGED <<order, base, snapshot, commitIndex>>
    BY <1>7 DEF ClusterApply, ApplyEntry, logVars
  <2>1. ASSUME NEW s \in Passive PROVE FollowerInv(s)'
    <3>0. s \in Server
      BY DEF Passive
    <3>1. CASE s = u
      <4>1. /\ lastApplied' = [lastApplied EXCEPT ![s] = lastApplied[s] + 1]
            /\ lastApplied[s] + 1 <= commitIndex[s]
            /\ IF lastApplied[s] + 1 > base[s]
                 THEN /\ commitChan' = [commitChan EXCEPT ![s] =
                                          Append(commitChan[s], order[lastApplied[s] + 1])]
                      /\ delivered' = [delivered EXCEPT ![s] =
                                         Append(delivered[s], order[lastApplied[s] + 1])]
                      /\ Len(delivered[s]) = lastApplied[s] - base[s]
                      /\ order[lastApplied[s] + 1] \in LogEntry
                 ELSE UNCHANGED <<commitChan, delivered>>
        BY <1>7, <3>1, ApplyDelivers
      <4>2. /\ snapshot[s].lastIncludedIndex \in Nat /\ base[s] \in Nat
            /\ lastApplied[s] \in Nat /\ commitIndex[s] \in Nat
            /\ commitChan[s] \in Seq(LogEntry) /\ delivered[s] \in Seq(LogEntry)
            /\ Len(commitChan[s]) \in Nat /\ Len(delivered[s]) \in Nat
            /\ FollowerInv(s)
        BY FollowerNumbers
      <4>3. lastApplied'[s] = lastApplied[s] + 1
        BY <1>2, <3>0, <4>1 DEF TypeOK
      <4>4. /\ base[s] <= snapshot[s].lastIncludedIndex
            /\ Len(delivered[s]) = IF lastApplied[s] <= base[s] THEN 0
                                   ELSE lastApplied[s] - base[s]
            /\ Len(commitChan[s]) <= Len(delivered[s])
            /\ snapshot[s].lastIncludedIndex <= base[s]
                 \/ snapshot[s].lastIncludedIndex <= lastApplied[s]
        BY <4>2 DEF FollowerInv
      <4>5. snapshot[s].lastIncludedIndex <= base[s]
              \/ snapshot[s].lastIncludedIndex <= lastApplied'[s]
        BY <4>2, <4>3, <4>4
      <4>6. CASE lastApplied[s] + 1 > base[s]
        <5>1. /\ commitChan'[s] = Append(commitChan[s], order[lastApplied[s] + 1])
              /\ delivered'[s] = Append(delivered[s], order[lastApplied[s] + 1])
          BY <1>2, <3>0, <4>1, <4>6, ZenonT(40) DEF TypeOK, ClusterTypeOK
        <5>2. /\ Len(commitChan'[s]) = Len(commitChan[s]) + 1
              /\ Len(delivered'[s]) = Len(delivered[s]) + 1
          BY <4>1, <4>2, <4>6, <5>1
        <5>3. /\ Len(delivered'[s]) = lastApplied'[s] - base[s] /\ ~(lastApplied'[s] <= base[s])
              /\ Len(commitChan'[s]) <= Len(delivered'[s])
          BY <4>1, <4>2, <4>3, <4>4, <4>6, <5>2, SMTT(40)
        <5> QED
          BY <2>0, <4>1, <4>3, <4>4, <4>5, <5>3 DEF FollowerInv
      <4>7. CASE ~(lastApplied[s] + 1 > base[s])
        <5>1. UNCHANGED <<commitChan, delivered>> /\ lastApplied'[s] <= base[s]
          BY <4>1, <4>2, <4>3, <4>7
        <5>2. lastApplied[s] <= base[s]
          BY <4>2, <4>7
        <5>3. Len(delivered[s]) = 0
          BY <4>4, <5>2
        <5> QED
          BY <2>0, <4>1, <4>3, <4>4, <4>5, <5>1, <5>3 DEF FollowerInv
      <4> QED
        BY <4>6, <4>7
    <3>2. CASE s # u
      <4>1. lastApplied'[s] = lastApplied[s]
        BY <1>2, <1>7, <3>0, <3>2 DEF ClusterApply, ApplyEntry, TypeOK
      <4>2. commitChan'[s] = commitChan[s]
        BY <1>2, <1>7, <3>0, <3>2, SMTT(40) DEF ClusterApply, ApplyEntry, TrySend, TypeOK
      <4>3. delivered'[s] = delivered[s]
        BY <1>2, <1>7, <3>0, <3>2 DEF ClusterApply, RecordSend, ClusterTypeOK
      <4> QED
        BY <2>0, <4>1, <4>2, <4>3, UntouchedFollower
    <3> QED
      BY <3>1, <3>2
  <2> QED
    BY <1>3, <2>0, <2>1 DEF DeliveryInv
<1>8. ASSUME NEW u \in Server, ClusterRestart(u) PROVE DeliveryInv'
  <2>0. /\ UNCHANGED <<order, snapshot>>
        /\ commitIndex' = [commitIndex EXCEPT ![u] = 0]
        /\ lastApplied' = [lastApplied EXCEPT ![u] = 0]
        /\ commitChan' = [commitChan EXCEPT ![u] = <<>>]
        /\ base' = [base EXCEPT ![u] = snapshot[u].lastIncludedIndex]
        /\ delivered' = [delivered EXCEPT ![u] = <<>>]
    BY <1>0, <1>8, RestartEffect, EngineParts DEF ClusterRestart, Restart, Boot
  <2>1. ASSUME NEW s \in Passive PROVE FollowerInv(s)'
    <3>0. s \in Server /\ snapshot[s].lastIncludedIndex \in Nat
      BY FollowerNumbers
    <3>1. CASE s = u
      <4>1. /\ commitIndex'[s] = 0 /\ lastApplied'[s] = 0 /\ commitChan'[s] = <<>>
            /\ base'[s] = snapshot[s].lastIncludedIndex /\ delivered'[s] = <<>>
        BY <1>2, <2>0, <3>0, <3>1 DEF TypeOK, ClusterTypeOK
      <4>2. Len(commitChan'[s]) = 0 /\ Len(delivered'[s]) = 0
        BY <4>1
      <4>3. snapshot'[s] = snapshot[s]
        BY <2>0
      <4>4. 0 <= base'[s] /\ base'[s] <= snapshot[s].lastIncludedIndex
            /\ snapshot[s].lastIncludedIndex <= base'[s]
        BY <3>0, <4>1
      <4> QED
        BY <4>1, <4>2, <4>3, <4>4 DEF FollowerInv
    <3>2. CASE s # u
      <4>1. /\ commitIndex'[s] = commitIndex[s] /\ lastApplied'[s] = lastApplied[s]
            /\ commitChan'[s] = commitChan[s]
            /\ base'[s] = base[s] /\ delivered'[s] = delivered[s]
        BY <1>2, <2>0, <3>0, <3>2 DEF TypeOK, ClusterTypeOK
      <4> QED
        BY <2>0, <4>1, UntouchedFollower
    <3> QED
      BY <3>1, <3>2
  <2> QED
    BY <1>3, <2>0, <2>1 DEF DeliveryInv
<1>9. ASSUME NEW f \in Server, NEW k \in 1..Len(wire[f]), Deliver(f, k) PROVE DeliveryInv'
  <2> DEFINE m == wire[f][k]
  <2>0. /\ m \in Message /\ Excerpt(m, order) /\ UNCHANGED <<order, base, delivered>>
        /\ RejectAppendEntries(f, m) \/ AcceptAppendEntries(f, m)
    BY <1>0, <1>9, WireMessage DEF Deliver
  <2>1. m.leaderCommit \in Nat /\ End(m) \in Nat
    <3>1. wire[f] \in Seq(Message)
      BY <1>0, EngineFacts
    <3> QED
      BY <2>0, <3>1, EndType DEF Message
  <2> HIDE DEF m
  <2>2. ASSUME NEW s \in Passive PROVE FollowerInv(s)'
    <3>0. s \in Server /\ commitIndex[s] \in Nat /\ Len(commitChan[s]) \in Nat
      BY FollowerNumbers
    <3>1. CASE RejectAppendEntries(f, m)
      <4>1. UNCHANGED <<snapshot, commitIndex, lastApplied, commitChan>>
        BY <1>0, <2>0, <3>1, RejectEffect
      <4> QED
        BY <2>0, <4>1, UntouchedFollower
    <3>2. CASE AcceptAppendEntries(f, m)
      <4>1. /\ UNCHANGED <<snapshot, lastApplied, commitChan>>
            /\ commitIndex' = [commitIndex EXCEPT ![f] =
                                 CommitUpTo(f, m.leaderCommit, End(m))]
        BY <1>0, <2>0, <3>2, AcceptEffect
      <4>2. commitIndex'[s] = commitIndex[s]
              \/ (s = f /\ commitIndex'[s] = CommitUpTo(s, m.leaderCommit, End(m)))
        BY <1>2, <3>0, <4>1 DEF TypeOK
      <4>3. commitIndex'[s] >= commitIndex[s] /\ commitIndex'[s] \in Nat
        <5>1. CASE commitIndex'[s] = commitIndex[s]
          BY <3>0, <5>1
        <5>2. CASE s = f /\ commitIndex'[s] = CommitUpTo(s, m.leaderCommit, End(m))
          <6>1. commitIndex[s] <= LastOf(log[s], snapshot[s].lastIncludedIndex)
                /\ LastOf(log[s], snapshot[s].lastIncludedIndex) <= End(m)
            BY <1>0, <1>9, <5>2, CommitParts DEF InOrderInv, Behind, m
          <6>2. commitIndex[s] <= End(m)
            BY <1>0, <2>1, <3>0, <6>1, EngineFacts
          <6> QED
            BY <2>1, <3>0, <5>2, <6>2 DEF CommitUpTo
        <5> QED
          BY <4>2, <5>1, <5>2
      <4>4. Len(commitChan'[s]) <= Len(commitChan[s]) /\ Len(commitChan'[s]) \in Nat
        BY <3>0, <4>1
      <4> QED
        BY <2>0, <4>1, <4>3, <4>4, SameFollower
    <3> QED
      BY <2>0, <3>1, <3>2
  <2> QED
    BY <1>3, <2>0, <2>2 DEF DeliveryInv
<1>10. CASE UNCHANGED <<vars, historyVars>>
  <2>1. UNCHANGED <<snapshot, commitIndex, lastApplied, commitChan, order, base, delivered>>
    BY <1>10 DEF vars, logVars, applyVars
  <2> QED
    BY <1>3, <2>1, UntouchedFollower DEF DeliveryInv
<1> QED
  BY <1>4, <1>5, <1>6, <1>7, <1>8, <1>9, <1>10
     DEF ClusterNext, clusterVars, Replicate, Lose

\* It holds at the start.
LEMMA DeliveryInit == ClusterInit => DeliveryInv
<1> SUFFICES ASSUME ClusterInit PROVE DeliveryInv
  OBVIOUS
<1>1. InOrderInv /\ Len(order) <= MaxIndex
  BY InOrderInit, BoundAssumption DEF ClusterInit
<1>2. ASSUME NEW s \in Passive PROVE FollowerInv(s)
  <2>1. s \in Server
    BY DEF Passive
  <2>2. /\ snapshot[s].lastIncludedIndex = 0 /\ base[s] = 0 /\ lastApplied[s] = 0
        /\ commitIndex[s] = 0 /\ delivered[s] = <<>> /\ commitChan[s] = <<>>
    BY <2>1 DEF ClusterInit, Init, Genesis
  <2> QED
    BY <2>2 DEF FollowerInv
<1>3. ASSUME NEW s \in Active PROVE TermInv(s)
  <2>1. currentTerm[s] = 0 /\ disk[s].currentTerm = 0 /\ loop[s] = "idle"
    BY ActiveAssumption DEF ClusterInit, Init, Genesis
  <2> QED
    BY <2>1, BoundAssumption DEF TermInv
<1> QED
  BY <1>1, <1>2, <1>3 DEF DeliveryInv

-----------------------------------------------------------------------------
(* The followers implement atomic broadcast.                               *)

\* A step that changes nothing a follower has is a stutter of the broadcast.
LEMMA BroadcastStutter ==
    ASSUME order' = order,
           \A s \in Passive : base'[s] = base[s] /\ delivered'[s] = delivered[s]
    PROVE  UNCHANGED Broadcast!vars
<1>1. [s \in Passive |-> base'[s]] = [s \in Passive |-> base[s]]
  OBVIOUS
<1>2. [s \in Passive |-> delivered'[s]] = [s \in Passive |-> delivered[s]]
  OBVIOUS
<1> QED
  BY <1>1, <1>2 DEF Broadcast!vars

\* A proposal broadcasts its entry.
LEMMA ProposeBroadcasts ==
    ASSUME DeliveryInv, SingleLeader, NEW a \in Active, NEW d \in Data,
           ClusterPropose(a, d)
    PROVE  Broadcast!Next
<1> DEFINE Entry == [index : 1..MaxIndex, term : 0..(MaxTerm + 1), data : Payload]
<1>0. LogInv /\ ~StorageMayFail /\ a \in Server /\ ClusterTypeOK /\ TermInv(a) /\ TypeOK
  BY ActiveAssumption DEF DeliveryInv, InOrderInv, SingleLeader, LogInv, ClusterTypeOK
<1>1. PICK e \in LogEntry :
        /\ e.index = Len(order) + 1 /\ e.data \in Data /\ e.term = currentTerm[a]
        /\ order' = Append(order, e) /\ UNCHANGED base
  BY <1>0, ProposeEffect
<1>2. e \in Entry
  <2>1. Len(order) \in Nat /\ Len(order) < MaxIndex /\ MaxIndex \in Nat
    BY <1>0, BoundAssumption DEF ClusterTypeOK, ClusterPropose
  <2>2. e.index \in 1..MaxIndex
    BY <1>1, <2>1
  <2>3. e.term \in 0..(MaxTerm + 1)
    <3>1. currentTerm[a] \in Nat /\ currentTerm[a] <= MaxTerm /\ MaxTerm \in Nat
      BY <1>0, BoundAssumption DEF TypeOK, TermInv
    <3> QED
      BY <1>1, <3>1
  <2>4. e.data \in Payload
    BY <1>1 DEF Payload
  <2>5. e = [index |-> e.index, term |-> e.term, data |-> e.data]
    BY DEF LogEntry
  <2> QED
    BY <2>2, <2>3, <2>4, <2>5
<1>3. \A s \in Passive : delivered'[s] = delivered[s]
  <2>1. a \notin Passive
    BY DEF Passive
  <2> QED
    BY <1>0, <2>1 DEF ClusterPropose, RecordSend, ClusterTypeOK, Passive
<1>4. /\ [s \in Passive |-> base'[s]] = [s \in Passive |-> base[s]]
      /\ [s \in Passive |-> delivered'[s]] = [s \in Passive |-> delivered[s]]
  BY <1>1, <1>3
<1>5. Broadcast!Broadcast(e)
  BY <1>1, <1>4 DEF Broadcast!Broadcast
<1> QED
  BY <1>2, <1>5 DEF Broadcast!Next

\* An iteration of a follower's apply loop delivers the next entry of the order
\* or nothing.
LEMMA ApplyBroadcasts ==
    ASSUME DeliveryInv, RoomyChannel, NEW u \in Server, ClusterApply(u)
    PROVE  Broadcast!Next \/ UNCHANGED Broadcast!vars
<1>0. LogInv /\ ClusterTypeOK /\ UNCHANGED <<order, base>>
  BY DEF DeliveryInv, InOrderInv, LogInv, ClusterApply
<1>1. CASE u \notin Passive
  <2>1. \A s \in Passive : delivered'[s] = delivered[s]
    BY <1>0, <1>1 DEF ClusterApply, RecordSend, ClusterTypeOK, Passive
  <2> QED
    BY <1>0, <2>1, BroadcastStutter
<1>2. CASE u \in Passive
  <2> DEFINE next == lastApplied[u] + 1
  <2>1. /\ next <= commitIndex[u]
        /\ IF next > base[u]
             THEN /\ delivered' = [delivered EXCEPT ![u] = Append(delivered[u], order[next])]
                  /\ Len(delivered[u]) = lastApplied[u] - base[u]
             ELSE UNCHANGED delivered
    BY <1>2, ApplyDelivers
  <2>2. /\ base[u] \in Nat /\ lastApplied[u] \in Nat /\ commitIndex[u] \in Nat
        /\ commitIndex[u] <= Len(order) /\ Len(order) \in Nat
    BY <1>0, <1>2, FollowerNumbers, EngineFacts
  <2>3. CASE next > base[u]
    <3>1. base[u] + Len(delivered[u]) + 1 = next /\ next <= Len(order)
      BY <2>1, <2>2, <2>3
    <3> DEFINE dl == [s \in Passive |-> delivered[s]]
               bs == [s \in Passive |-> base[s]]
    <3>2. dl[u] = delivered[u] /\ bs[u] = base[u]
      BY <1>2
    <3>3. [s \in Passive |-> delivered'[s]] = [dl EXCEPT ![u] = Append(dl[u], order[next])]
      <4>1. \A s \in Passive : delivered'[s] = IF s = u THEN Append(dl[u], order[next])
                                                        ELSE delivered[s]
        BY <1>0, <1>2, <2>1, <2>3, <3>2 DEF ClusterTypeOK, Passive
      <4> QED
        BY <4>1
    <3>4. [s \in Passive |-> base'[s]] = bs
      BY <1>0
    <3>5. Broadcast!Deliver(u)
      <4>1. bs[u] + Len(dl[u]) + 1 = next
        BY <3>1, <3>2
      <4> QED
        BY <1>0, <3>1, <3>3, <3>4, <4>1 DEF Broadcast!Deliver
    <3> QED
      BY <1>2, <3>5 DEF Broadcast!Next
  <2>4. CASE ~(next > base[u])
    BY <1>0, <2>1, <2>4, BroadcastStutter
  <2> QED
    BY <2>3, <2>4
<1> QED
  BY <1>1, <1>2

\* A follower that starts again recovers from its snapshot.
LEMMA RestartBroadcasts ==
    ASSUME DeliveryInv, NEW u \in Server, ClusterRestart(u)
    PROVE  Broadcast!Next \/ UNCHANGED Broadcast!vars
<1> DEFINE n == disk[u].snapshot.lastIncludedIndex
<1>0. /\ LogInv /\ ClusterTypeOK /\ UNCHANGED order
      /\ base' = [base EXCEPT ![u] = n]
      /\ delivered' = [delivered EXCEPT ![u] = <<>>]
  BY DEF DeliveryInv, InOrderInv, LogInv, ClusterRestart
<1>1. CASE u \notin Passive
  <2>1. \A s \in Passive : base'[s] = base[s] /\ delivered'[s] = delivered[s]
    BY <1>0, <1>1 DEF ClusterTypeOK, Passive
  <2> QED
    BY <1>0, <2>1, BroadcastStutter
<1>2. CASE u \in Passive
  <2>1. n \in 0..Len(order)
    <3>1. /\ n = snapshot[u].lastIncludedIndex /\ n \in Nat
          /\ Len(log[u]) \in Nat /\ Len(log[u]) >= 1 /\ Len(order) \in Nat
      BY <1>0, EngineParts, EngineFacts
    <3>2. n + Len(log[u]) - 1 <= Len(order)
      BY <1>0, <3>1, EngineParts DEF Piece, LastOf
    <3> QED
      BY <3>1, <3>2
  <2>2. PICK k \in 0..Len(order) : k = n
    BY <2>1
  <2>3. /\ [s \in Passive |-> base'[s]] = [[s \in Passive |-> base[s]] EXCEPT ![u] = k]
        /\ [s \in Passive |-> delivered'[s]]
             = [[s \in Passive |-> delivered[s]] EXCEPT ![u] = <<>>]
    <3>1. \A s \in Passive : /\ base'[s] = IF s = u THEN k ELSE base[s]
                             /\ delivered'[s] = IF s = u THEN <<>> ELSE delivered[s]
      BY <1>0, <2>2 DEF ClusterTypeOK, Passive
    <3> QED
      BY <3>1
  <2>4. Broadcast!Recover(u, k)
    BY <1>0, <2>3 DEF Broadcast!Recover
  <2> QED
    BY <1>2, <2>4 DEF Broadcast!Next
<1> QED
  BY <1>1, <1>2

\* Every step of the cluster is a step of the broadcast or a stutter.
LEMMA BroadcastStep ==
    ASSUME DeliveryInv, SingleLeader, RoomyChannel, [ClusterNext]_clusterVars
    PROVE  [Broadcast!Next]_Broadcast!vars
<1>1. ASSUME NEW a \in Active, \E d \in Data : ClusterPropose(a, d)
      PROVE  Broadcast!Next
  BY <1>1, ProposeBroadcasts
<1>2. ASSUME NEW u \in Server, ClusterApply(u) \/ ClusterRestart(u)
      PROVE  Broadcast!Next \/ UNCHANGED Broadcast!vars
  BY <1>2, ApplyBroadcasts, RestartBroadcasts
<1>3. CASE UNCHANGED historyVars
  BY <1>3, BroadcastStutter DEF historyVars
<1> QED
  BY <1>1, <1>2, <1>3 DEF ClusterNext, clusterVars, Lead, Use, Replicate, Deliver, Lose

\* The third layer, for every cluster of this kind.
THEOREM DeliveryInvariance ==
    SingleLeader /\ InOrder /\ RoomyChannel => (ClusterSpec => []DeliveryInv)
<1> SUFFICES ASSUME SingleLeader, InOrder, RoomyChannel PROVE ClusterSpec => []DeliveryInv
  OBVIOUS
<1>1. DeliveryInv /\ [ClusterNext]_clusterVars => DeliveryInv'
  BY DeliveryStep
<1> QED
  BY <1>1, DeliveryInit, PTL DEF ClusterSpec

\* With one engine that may lead, a store that does not fail, a transport that
\* keeps the order of messages and a commitChan with room for the whole log, the
\* followers implement atomic broadcast: the application of each receives a
\* contiguous piece of the one order of proposals, in order and without a gap,
\* and starts over after its snapshot when its process starts again.
THEOREM ImplementsBroadcast ==
    SingleLeader /\ InOrder /\ RoomyChannel => (ClusterSpec => BroadcastSpec)
<1> SUFFICES ASSUME SingleLeader, InOrder, RoomyChannel PROVE ClusterSpec => BroadcastSpec
  OBVIOUS
<1>1. ClusterInit => Broadcast!Init
  <2> SUFFICES ASSUME ClusterInit PROVE Broadcast!Init
    OBVIOUS
  <2>1. \A s \in Passive : base[s] = 0 /\ delivered[s] = <<>>
    BY DEF ClusterInit, Passive
  <2>2. order = <<>>
    BY DEF ClusterInit
  <2> QED
    BY <2>1, <2>2 DEF Broadcast!Init
<1>2. DeliveryInv /\ [ClusterNext]_clusterVars => [Broadcast!Next]_Broadcast!vars
  BY BroadcastStep
<1> QED
  BY <1>1, <1>2, DeliveryInvariance, PTL DEF ClusterSpec, BroadcastSpec, Broadcast!Spec

=============================================================================
