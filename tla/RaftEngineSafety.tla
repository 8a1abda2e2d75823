--------------------------- MODULE RaftEngineSafety ---------------------------
(***************************************************************************)
(* The safety properties of RaftEngine, for every set of engines, every    *)
(* bound and every store.  They follow from one inductive invariant, a     *)
(* statement about the memory of an engine (MemInv) and one about what is  *)
(* on its disk (DiskInv): the first is what the handlers keep, the second  *)
(* is what makes the first true again after a crash.                       *)
(***************************************************************************)
EXTENDS RaftEngineProofs

\* The grants of s in the light of a term and a vote: those of the term are
\* the vote, none is newer.
GrantsAgree(s, term, vote) ==
    \A g \in granted[s] :
        g.term < term \/ (g.term = term /\ g.candidate = vote)

MemInv(s) ==
    /\ Aligned(log[s], snapshot[s])
    /\ TermsOrdered(log[s], 0, currentTerm[s])
    /\ role[s] # "Follower" /\ s \notin forced => votedFor[s] = s
    /\ role[s] = "Candidate" => s \notin forced
    /\ ~StorageMayFail =>
         /\ \A g, h \in granted[s] : g.term = h.term => g = h
         /\ GrantsAgree(s, currentTerm[s], votedFor[s])
         /\ role[s] = "Candidate" => \A g \in granted[s] : g.term < currentTerm[s]

DiskInv(s) ==
    /\ Aligned(disk[s].log, disk[s].snapshot)
    /\ TermsOrdered(disk[s].log, 0, disk[s].currentTerm)
    /\ s \notin unread => disk[s].currentTerm <= currentTerm[s]
    /\ s \in unread /\ s \notin failedPut => snapshot[s] = Genesis.snapshot
    /\ s \notin failedPut /\ s \notin unread =>
         /\ log[s] = disk[s].log
         /\ snapshot[s] = disk[s].snapshot
         /\ votedFor[s] # Nil => /\ votedFor[s] = disk[s].votedFor
                                 /\ currentTerm[s] = disk[s].currentTerm
    /\ ~StorageMayFail =>
         /\ s \notin failedPut /\ s \notin unread
         /\ GrantsAgree(s, disk[s].currentTerm, disk[s].votedFor)

IndInv == TypeOK /\ \A s \in Server : MemInv(s) /\ DiskInv(s)

\* What a step may do to the saved term and to the snapshot.
Progress(s) ==
    /\ s \notin unread => disk[s].currentTerm <= disk'[s].currentTerm
    /\ s \notin failedPut /\ s \notin unread' =>
         snapshot[s].lastIncludedIndex <= snapshot'[s].lastIncludedIndex

-----------------------------------------------------------------------------
(* Logs.                                                                   *)

\* The fields of the entries of a log.
LEMMA EntryType ==
    ASSUME NEW l \in Seq(LogEntry), NEW k \in 1..Len(l)
    PROVE  l[k].term \in Nat /\ l[k].index \in Nat
<1>1. l[k] \in LogEntry
  OBVIOUS
<1> QED
  BY <1>1 DEF LogEntry

\* Replacing everything after a matching entry keeps a log aligned.
LEMMA ExtendAligned ==
    ASSUME NEW l \in Seq(LogEntry), NEW snap \in Snapshot, Aligned(l, snap),
           NEW e \in Seq(LogEntry), NEW r \in Nat, r < Len(l),
           \A i \in 1..Len(e) : e[i].index = snap.lastIncludedIndex + r + i
    PROVE  Aligned(SubSeq(l, 1, r + 1) \o e, snap)
<1> DEFINE p == SubSeq(l, 1, r + 1)
           n == p \o e
<1>1. p \in Seq(LogEntry) /\ Len(p) = r + 1 /\ \A k \in 1..(r + 1) : p[k] = l[k]
  OBVIOUS
<1>2. /\ Len(n) = r + 1 + Len(e)
      /\ \A k \in 1..(r + 1) : n[k] = l[k]
      /\ \A k \in (r + 2)..Len(n) : n[k] = e[k - (r + 1)]
  BY <1>1
<1>3. \A k \in (r + 2)..Len(n) : n[k].index = snap.lastIncludedIndex + k - 1
  <2> TAKE k \in (r + 2)..Len(n)
  <2>1. k - (r + 1) \in 1..Len(e)
    BY <1>2
  <2>2. e[k - (r + 1)].index = snap.lastIncludedIndex + r + (k - (r + 1))
    BY <2>1
  <2> QED
    BY <1>2, <2>2 DEF Snapshot
<1>4. \A k \in 1..(r + 1) : n[k].index = snap.lastIncludedIndex + k - 1
  BY <1>2 DEF Aligned
<1>5. \A k \in 1..Len(n) : k \in 1..(r + 1) \/ k \in (r + 2)..Len(n)
  BY <1>2
<1> HIDE DEF n
<1>6. n[1].term = snap.lastIncludedTerm
  BY <1>2 DEF Aligned
<1>7. Len(n) >= 1
  BY <1>2
<1>8. Aligned(n, snap)
  BY <1>3, <1>4, <1>5, <1>6, <1>7 DEF Aligned
<1> QED
  BY <1>8 DEF n

\* It keeps the terms in order, if the new entries continue the order.
LEMMA ExtendOrdered ==
    ASSUME NEW l \in Seq(LogEntry), NEW e \in Seq(LogEntry),
           NEW r \in Nat, r < Len(l), NEW t \in Nat, NEW u \in Nat,
           TermsOrdered(l, 0, t), TermsOrdered(e, l[r + 1].term, u), t <= u
    PROVE  TermsOrdered(SubSeq(l, 1, r + 1) \o e, 0, u)
<1> DEFINE p == SubSeq(l, 1, r + 1)
           n == p \o e
<1>1. p \in Seq(LogEntry) /\ Len(p) = r + 1 /\ \A k \in 1..(r + 1) : p[k] = l[k]
  OBVIOUS
<1>2. /\ Len(n) = r + 1 + Len(e)
      /\ \A k \in 1..(r + 1) : n[k] = l[k]
      /\ \A k \in (r + 2)..Len(n) : n[k] = e[k - (r + 1)] /\ k - (r + 1) \in 1..Len(e)
  BY <1>1
<1>3. \A k \in 1..Len(l) : l[k].term \in Nat
  BY EntryType
<1>4. \A k \in 1..Len(e) : e[k].term \in Nat
  BY EntryType
<1>5. n \in Seq(LogEntry)
  BY <1>1
<1> HIDE DEF n
<1>6. ASSUME NEW i \in 1..Len(n)
      PROVE  /\ n[i].term \in Nat /\ n[i].term <= u
             /\ i <= r + 1 => n[i].term <= l[r + 1].term
             /\ i > r + 1 => l[r + 1].term <= n[i].term
  <2>1. CASE i <= r + 1
    <3>1. i \in 1..(r + 1) /\ i \in 1..Len(l) /\ r + 1 \in 1..Len(l)
      BY <2>1
    <3>2. n[i] = l[i] /\ l[i].term <= l[r + 1].term /\ l[i].term <= t
      BY <1>2, <2>1, <3>1 DEF TermsOrdered
    <3> QED
      BY <1>3, <2>1, <3>1, <3>2
  <2>2. CASE i > r + 1
    <3>1. i \in (r + 2)..Len(n)
      BY <1>2, <2>2
    <3>2. n[i] = e[i - (r + 1)] /\ i - (r + 1) \in 1..Len(e)
      BY <1>2, <3>1
    <3>3. l[r + 1].term <= e[i - (r + 1)].term /\ e[i - (r + 1)].term <= u
      BY <3>2 DEF TermsOrdered
    <3> QED
      BY <1>4, <2>2, <3>2, <3>3
  <2> QED
    BY <2>1, <2>2
<1>7. ASSUME NEW i \in 1..Len(n), NEW j \in 1..Len(n), i <= j
      PROVE  n[i].term <= n[j].term
  <2>1. CASE j <= r + 1
    <3>1. /\ i \in 1..(r + 1) /\ j \in 1..(r + 1)
          /\ i \in 1..Len(l) /\ j \in 1..Len(l)
      BY <1>7, <2>1
    <3> QED
      BY <1>2, <1>7, <3>1 DEF TermsOrdered
  <2>2. CASE i > r + 1
    <3>1. i \in (r + 2)..Len(n) /\ j \in (r + 2)..Len(n)
      BY <1>2, <1>7, <2>2
    <3>2. /\ n[i] = e[i - (r + 1)] /\ i - (r + 1) \in 1..Len(e)
          /\ n[j] = e[j - (r + 1)] /\ j - (r + 1) \in 1..Len(e)
      BY <1>2, <3>1
    <3>3. i - (r + 1) <= j - (r + 1)
      BY <1>7
    <3> QED
      BY <3>2, <3>3 DEF TermsOrdered
  <2>3. CASE i <= r + 1 /\ j > r + 1
    <3>1. n[i].term <= l[r + 1].term /\ l[r + 1].term <= n[j].term
      BY <1>6, <2>3
    <3>2. n[i].term \in Nat /\ n[j].term \in Nat /\ l[r + 1].term \in Nat
      BY <1>3, <1>6
    <3> QED
      BY <3>1, <3>2, SMTT(40)
  <2> QED
    BY <2>1, <2>2, <2>3
<1>8. TermsOrdered(n, 0, u)
  BY <1>6, <1>7 DEF TermsOrdered
<1> QED
  BY <1>8 DEF n

\* Arithmetic on relative indexes, isolated for the SMT solver.
LEMMA Shift == \A b, r \in Nat : \A k \in Int : b + (r + k) - 1 = (b + r) + k - 1
  OBVIOUS

\* Compacting up to an entry of the log keeps it aligned with the snapshot.
LEMMA CompactAligned ==
    ASSUME NEW l \in Seq(LogEntry), NEW snap \in Snapshot, Aligned(l, snap),
           NEW r \in Nat, r < Len(l),
           NEW b \in Nat, b = snap.lastIncludedIndex,
           NEW i \in Nat, i = b + r, NEW t \in Nat
    PROVE  Aligned(<<Sentinel(i, t)>> \o SubSeq(l, r + 2, Len(l)),
                   [lastIncludedIndex |-> i, lastIncludedTerm |-> t])
<1> DEFINE q == SubSeq(l, r + 2, Len(l))
           n == <<Sentinel(i, t)>> \o q
<1>1. q \in Seq(LogEntry) /\ Len(q) = Len(l) - (r + 1)
      /\ \A k \in 1..Len(q) : q[k] = l[r + 1 + k]
  OBVIOUS
<1>2. /\ Len(n) = 1 + Len(q)
      /\ n[1] = Sentinel(i, t)
      /\ \A k \in 2..Len(n) : n[k] = q[k - 1] /\ k - 1 \in 1..Len(q)
  BY <1>1
<1> HIDE DEF q, n
<1>3. \A k \in 2..Len(n) : n[k] = l[r + k] /\ r + k \in 1..Len(l)
  BY <1>1, <1>2
<1>4. \A k \in 2..Len(n) : n[k].index = i + k - 1
  <2> TAKE k \in 2..Len(n)
  <2>1. k \in Int /\ r + k \in 1..Len(l) /\ n[k] = l[r + k]
    BY <1>3
  <2>2. l[r + k].index = b + (r + k) - 1
    <3>1. \A j \in 1..Len(l) : l[j].index = b + j - 1
      BY DEF Aligned
    <3> QED
      BY <2>1, <3>1
  <2>3. b + (r + k) - 1 = i + k - 1
    BY <2>1, Shift, Zenon
  <2> QED
    BY <2>1, <2>2, <2>3, Zenon
<1>5. n[1].index = i /\ n[1].term = t
  BY <1>2 DEF Sentinel
<1>6. Len(n) \in Nat /\ Len(n) >= 1
  BY <1>1, <1>2
<1>7. \A k \in 1..Len(n) : n[k].index = i + k - 1
  <2> TAKE k \in 1..Len(n)
  <2>1. k = 1 \/ k \in 2..Len(n)
    BY <1>6
  <2>2. i = i + 1 - 1
    OBVIOUS
  <2> QED
    BY <1>4, <1>5, <2>1, <2>2, Zenon
<1>8. Aligned(n, [lastIncludedIndex |-> i, lastIncludedTerm |-> t])
  BY <1>5, <1>6, <1>7 DEF Aligned
<1> QED
  BY <1>8 DEF n, q

\* It keeps the order of the terms when the sentinel takes the entry's term.
LEMMA CompactOrdered ==
    ASSUME NEW l \in Seq(LogEntry), NEW r \in Nat, r < Len(l), NEW i \in Nat,
           NEW u \in Nat, TermsOrdered(l, 0, u)
    PROVE  TermsOrdered(<<Sentinel(i, l[r + 1].term)>> \o SubSeq(l, r + 2, Len(l)), 0, u)
<1> DEFINE q == SubSeq(l, r + 2, Len(l))
           n == <<Sentinel(i, l[r + 1].term)>> \o q
<1>1. q \in Seq(LogEntry) /\ Len(q) = Len(l) - (r + 1)
      /\ \A k \in 1..Len(q) : q[k] = l[r + 1 + k]
  OBVIOUS
<1>2. /\ Len(n) = 1 + Len(q)
      /\ n[1] = Sentinel(i, l[r + 1].term)
      /\ \A k \in 2..Len(n) : n[k] = q[k - 1] /\ k - 1 \in 1..Len(q)
  BY <1>1
<1> HIDE DEF q, n
<1>3. \A k \in 1..Len(n) : n[k].term = l[r + k].term /\ r + k \in 1..Len(l)
  <2> TAKE k \in 1..Len(n)
  <2>1. CASE k = 1
    BY <1>2, <2>1 DEF Sentinel
  <2>2. CASE k # 1
    <3>1. k \in 2..Len(n)
      BY <1>1, <1>2, <2>2
    <3>2. n[k] = q[k - 1] /\ k - 1 \in 1..Len(q)
      BY <1>2, <3>1
    <3>3. q[k - 1] = l[r + 1 + (k - 1)]
      BY <1>1, <3>2
    <3>4. r + 1 + (k - 1) = r + k /\ r + k \in 1..Len(l)
      BY <1>1, <3>1, <3>2
    <3> QED
      BY <3>2, <3>3, <3>4
  <2> QED
    BY <2>1, <2>2
<1>4. \A k \in 1..Len(n) : 0 <= n[k].term /\ n[k].term <= u
  BY <1>3 DEF TermsOrdered
<1>5. ASSUME NEW j \in 1..Len(n), NEW k \in 1..Len(n), j <= k
      PROVE  n[j].term <= n[k].term
  <2>1. r + j <= r + k
    BY <1>5
  <2> QED
    BY <1>3, <2>1 DEF TermsOrdered
<1>6. TermsOrdered(n, 0, u)
  BY <1>4, <1>5 DEF TermsOrdered
<1> QED
  BY <1>6 DEF n, q

\* Appending one entry with the next index and the present term.
LEMMA AppendAligned ==
    ASSUME NEW l \in Seq(LogEntry), NEW snap \in Snapshot, Aligned(l, snap),
           NEW e \in LogEntry, e.index = snap.lastIncludedIndex + Len(l)
    PROVE  Aligned(Append(l, e), snap)
<1> DEFINE n == Append(l, e)
<1>1. /\ Len(n) = Len(l) + 1 /\ n[Len(l) + 1] = e
      /\ \A k \in 1..Len(l) : n[k] = l[k]
  OBVIOUS
<1> HIDE DEF n
<1>2. \A k \in 1..Len(n) : k \in 1..Len(l) \/ k = Len(l) + 1
  BY <1>1
<1>3. snap.lastIncludedIndex \in Nat
  BY DEF Snapshot
<1>4. Len(n) >= 1 /\ n[1].term = snap.lastIncludedTerm
  <2>1. Len(l) \in Nat /\ Len(l) >= 1 /\ l[1].term = snap.lastIncludedTerm
    BY DEF Aligned
  <2>2. n[1] = l[1]
    BY <1>1, <2>1
  <2> QED
    BY <1>1, <2>1, <2>2
<1>5. \A k \in 1..Len(n) : n[k].index = snap.lastIncludedIndex + k - 1
  <2> TAKE k \in 1..Len(n)
  <2>1. CASE k \in 1..Len(l)
    BY <1>1, <2>1 DEF Aligned
  <2>2. CASE k = Len(l) + 1
    <3>1. Len(l) \in Nat
      OBVIOUS
    <3> QED
      BY <1>1, <1>3, <2>2, <3>1
  <2> QED
    BY <1>2, <2>1, <2>2
<1>6. Aligned(n, snap)
  BY <1>4, <1>5 DEF Aligned
<1> QED
  BY <1>6 DEF n

\* Appending an entry of the present term keeps the terms in order.
LEMMA AppendOrdered ==
    ASSUME NEW l \in Seq(LogEntry), NEW e \in LogEntry, NEW u \in Nat,
           TermsOrdered(l, 0, u), e.term = u
    PROVE  TermsOrdered(Append(l, e), 0, u)
<1> DEFINE n == Append(l, e)
<1>1. /\ Len(n) = Len(l) + 1 /\ n[Len(l) + 1] = e
      /\ \A k \in 1..Len(l) : n[k] = l[k]
  OBVIOUS
<1> HIDE DEF n
<1>2. \A k \in 1..Len(n) : k \in 1..Len(l) \/ k = Len(l) + 1
  BY <1>1
<1>3. \A k \in 1..Len(n) : 0 <= n[k].term /\ n[k].term <= u
  BY <1>1, <1>2 DEF TermsOrdered
<1>4. ASSUME NEW j \in 1..Len(n), NEW k \in 1..Len(n), j <= k
      PROVE  n[j].term <= n[k].term
  <2>1. CASE k = Len(l) + 1
    BY <1>1, <1>3, <2>1
  <2>2. CASE k # Len(l) + 1
    <3>1. k \in 1..Len(l) /\ j \in 1..Len(l)
      BY <1>2, <1>4, <2>2
    <3> QED
      BY <1>1, <1>4, <3>1 DEF TermsOrdered
  <2> QED
    BY <2>1, <2>2
<1>5. TermsOrdered(n, 0, u)
  BY <1>3, <1>4 DEF TermsOrdered
<1> QED
  BY <1>5 DEF n

\* A larger bound keeps the terms ordered.
LEMMA OrderedWeaken ==
    ASSUME NEW l \in Seq(LogEntry), NEW t \in Nat, NEW u \in Nat, t <= u,
           TermsOrdered(l, 0, t)
    PROVE  TermsOrdered(l, 0, u)
<1>1. \A k \in 1..Len(l) : l[k].term \in Nat
  BY EntryType
<1> QED
  BY <1>1 DEF TermsOrdered

-----------------------------------------------------------------------------
(* Steps.                                                                  *)

\* The step leaves alone what the invariant says of engine t.
SameAt(t) ==
    /\ currentTerm'[t] = currentTerm[t] /\ votedFor'[t] = votedFor[t]
    /\ log'[t] = log[t] /\ snapshot'[t] = snapshot[t]
    /\ role'[t] = role[t] /\ granted'[t] = granted[t] /\ disk'[t] = disk[t]
    /\ t \in failedPut' <=> t \in failedPut
    /\ t \in unread' <=> t \in unread
    /\ t \in forced' <=> t \in forced

\* An engine whose fields a step leaves alone keeps its invariant.
LEMMA SameInv ==
    ASSUME TypeOK, NEW t \in Server, MemInv(t), DiskInv(t), SameAt(t)
    PROVE  MemInv(t)' /\ DiskInv(t)' /\ Progress(t)
<1>1. disk[t].currentTerm \in Nat /\ snapshot[t].lastIncludedIndex \in Nat
  BY DEF TypeOK, StableState, Snapshot
<1>2. Progress(t)
  BY <1>1 DEF SameAt, Progress
<1>3. MemInv(t)'
  BY DEF SameAt, MemInv, GrantsAgree
<1>4. DiskInv(t)'
  BY DEF SameAt, DiskInv, GrantsAgree
<1> QED
  BY <1>2, <1>3, <1>4

\* The fields of the saved record have their types.
LEMMA DiskType ==
    ASSUME TypeOK, NEW s \in Server
    PROVE  /\ disk[s].currentTerm \in Nat /\ disk[s].votedFor \in Node \cup {Nil}
           /\ disk[s].log \in Seq(LogEntry) /\ disk[s].snapshot \in Snapshot
<1>1. disk[s] \in StableState
  BY DEF TypeOK
<1> QED
  BY <1>1 DEF StableState

\* persistState makes the disk agree with a memory in order, or loses the
\* write and says so in failedPut.
LEMMA Persisted ==
    ASSUME TypeOK, NEW s \in Server, TypeOK', DiskInv(s), MemInv(s)',
           PersistState(s), currentTerm[s] <= currentTerm'[s]
    PROVE  DiskInv(s)' /\ (s \notin unread => disk[s].currentTerm <= disk'[s].currentTerm)
<1>1. /\ disk[s].currentTerm \in Nat /\ disk'[s].currentTerm \in Nat
      /\ currentTerm[s] \in Nat /\ currentTerm'[s] \in Nat
  BY DiskType DEF TypeOK, StableState
<1>2. s \notin unread => disk[s].currentTerm <= currentTerm[s]
  BY DEF DiskInv
<1>3. CASE /\ disk' = [disk EXCEPT ![s] = Stable(s)']
           /\ failedPut' = failedPut \ {s} /\ unread' = unread \ {s}
  <2>1. disk'[s] = Stable(s)'
    BY <1>3 DEF TypeOK
  <2>2. /\ disk'[s].currentTerm = currentTerm'[s] /\ disk'[s].votedFor = votedFor'[s]
        /\ disk'[s].log = log'[s] /\ disk'[s].snapshot = snapshot'[s]
    BY <2>1 DEF Stable
  <2>3. s \notin failedPut' /\ s \notin unread'
    BY <1>3
  <2>4. s \notin unread => disk[s].currentTerm <= disk'[s].currentTerm
    BY <1>1, <1>2, <2>2
  <2>5. DiskInv(s)'
    BY <1>1, <2>2, <2>3 DEF MemInv, DiskInv
  <2> QED
    BY <2>4, <2>5
<1>4. CASE StorageMayFail /\ failedPut' = failedPut \cup {s} /\ UNCHANGED <<disk, unread>>
  <2>1. s \in failedPut'
    BY <1>4
  <2>2. s \notin unread' => disk'[s].currentTerm <= currentTerm'[s]
    BY <1>1, <1>2, <1>4
  <2>3. DiskInv(s)'
    BY <1>4, <2>1, <2>2 DEF DiskInv
  <2> QED
    BY <1>1, <1>4, <2>3
<1> QED
  BY <1>3, <1>4 DEF PersistState

\* What every step has to establish about engine t.
Good(t) == MemInv(t)' /\ DiskInv(t)' /\ Progress(t)

\* A step that leaves every persistent field alone keeps the invariant.
LEMMA QuietInv ==
    ASSUME IndInv, UNCHANGED <<stateVars, logVars, storeVars>>
    PROVE  \A t \in Server : Good(t)
<1> TAKE t \in Server
<1>1. SameAt(t)
  BY DEF SameAt, stateVars, logVars, storeVars
<1> QED
  BY <1>1, SameInv DEF IndInv, Good

\* Only the engine that takes the step has to be looked at.
LEMMA OneEngine ==
    ASSUME IndInv, NEW s \in Server, \A t \in Server \ {s} : SameAt(t), Good(s)
    PROVE  \A t \in Server : Good(t)
<1> TAKE t \in Server
<1>1. CASE t = s
  BY <1>1
<1>2. CASE t # s
  BY <1>2, SameInv DEF IndInv, Good
<1> QED
  BY <1>1, <1>2

\* persistState of one engine leaves the store of the others alone.
LEMMA PersistOthers ==
    ASSUME TypeOK, NEW s \in Server, PersistState(s), NEW t \in Server \ {s}
    PROVE  /\ disk'[t] = disk[t] /\ (t \in failedPut' <=> t \in failedPut)
           /\ t \in unread' <=> t \in unread
  BY DEF PersistState, TypeOK

\* A candidacy votes for the engine itself in a newer term and saves it.
LEMMA StartElectionInv ==
    ASSUME IndInv, TypeOK', NEW s \in Server, StartElection(s)
    PROVE  \A t \in Server : Good(t)
<1>0. TypeOK /\ MemInv(s) /\ DiskInv(s) /\ PersistState(s)
  BY DEF IndInv, StartElection
<1>1. /\ currentTerm'[s] = currentTerm[s] + 1 /\ currentTerm[s] \in Nat
      /\ votedFor'[s] = s /\ role'[s] = "Candidate" /\ s \notin forced'
      /\ log' = log /\ snapshot' = snapshot /\ granted' = granted
  BY <1>0 DEF StartElection, TypeOK, logVars
<1>2. \A t \in Server \ {s} : SameAt(t)
  BY <1>0, PersistOthers, ZenonT(40) DEF StartElection, TypeOK, SameAt, logVars
<1>3. MemInv(s)'
  <2>1. TermsOrdered(log[s], 0, currentTerm[s] + 1)
    BY <1>0, <1>1, OrderedWeaken DEF MemInv, TypeOK
  <2>2. \A g \in granted[s] : g.term \in Nat
    BY <1>0 DEF TypeOK, Grant
  <2>3. ~StorageMayFail => \A g \in granted[s] : g.term < currentTerm[s] + 1
    BY <1>0, <1>1, <2>2 DEF MemInv, GrantsAgree
  <2> QED
    BY <1>0, <1>1, <2>1, <2>3 DEF MemInv, GrantsAgree
<1>4. DiskInv(s)' /\ (s \notin unread => disk[s].currentTerm <= disk'[s].currentTerm)
  BY <1>0, <1>1, <1>3, Persisted
<1>5. Good(s)
  BY <1>0, <1>1, <1>3, <1>4 DEF Good, Progress, TypeOK, Snapshot
<1> QED
  BY <1>2, <1>5, OneEngine

\* Only a candidate is promoted, and it has voted for itself.
LEMMA CountVoteInv ==
    ASSUME IndInv, TypeOK', NEW s \in Server, NEW b \in ballots[s], CountVote(s, b)
    PROVE  \A t \in Server : Good(t)
<1>0. TypeOK /\ MemInv(s) /\ DiskInv(s)
  BY DEF IndInv
<1>1. /\ UNCHANGED <<currentTerm, votedFor, forced, granted, logVars, storeVars>>
      /\ role' = role \/ (role[s] = "Candidate" /\ role' = [role EXCEPT ![s] = "Leader"])
  BY DEF CountVote
<1>2. \A t \in Server \ {s} : SameAt(t)
  BY <1>0, <1>1 DEF TypeOK, SameAt, logVars, storeVars
<1>3. CASE role' = role
  BY <1>1, <1>3, QuietInv DEF stateVars
<1>4. CASE role[s] = "Candidate" /\ role' = [role EXCEPT ![s] = "Leader"]
  <2>1. role'[s] = "Leader"
    BY <1>0, <1>4 DEF TypeOK
  <2>2. MemInv(s)'
    BY <1>0, <1>1, <1>4, <2>1 DEF MemInv, GrantsAgree, logVars
  <2>3. DiskInv(s)'
    BY <1>0, <1>1 DEF DiskInv, GrantsAgree, logVars, storeVars
  <2>4. Progress(s)
    BY <1>0, <1>1, DiskType, SMTT(40) DEF Progress, logVars, storeVars, TypeOK, Snapshot
  <2> QED
    BY <1>2, <2>2, <2>3, <2>4, OneEngine DEF Good
<1> QED
  BY <1>1, <1>3, <1>4

\* An assigned role is remembered in forced, so it promises no vote.
LEMMA SetRoleInv ==
    ASSUME IndInv, TypeOK', NEW s \in Server, NEW r \in AssignedRoles, SetRole(s, r)
    PROVE  \A t \in Server : Good(t)
<1>0. TypeOK /\ MemInv(s) /\ DiskInv(s)
  BY DEF IndInv
<1>1. /\ role'[s] # "Candidate" /\ s \in forced'
      /\ UNCHANGED <<currentTerm, votedFor, granted, logVars, storeVars>>
  <2>1. r # "Candidate"
    BY RoleAssumption
  <2>2. role'[s] = r
    BY <1>0 DEF SetRole, TypeOK
  <2> QED
    BY <2>1, <2>2 DEF SetRole
<1>2. \A t \in Server \ {s} : SameAt(t)
  BY <1>0 DEF SetRole, TypeOK, SameAt, logVars, storeVars
<1>3. MemInv(s)'
  BY <1>0, <1>1 DEF MemInv, GrantsAgree, logVars
<1>4. DiskInv(s)'
  BY <1>0, <1>1 DEF DiskInv, GrantsAgree, logVars, storeVars
<1>5. Progress(s)
  <2>1. disk[s].currentTerm \in Nat /\ snapshot[s].lastIncludedIndex \in Nat
    BY <1>0, DiskType DEF TypeOK, Snapshot
  <2> QED
    BY <1>1, <2>1 DEF Progress, logVars, storeVars
<1> QED
  BY <1>2, <1>3, <1>4, <1>5, OneEngine DEF Good

\* A save of a state nothing else changed in: membership changes.
LEMMA SaveInv ==
    ASSUME IndInv, TypeOK', NEW s \in Server,
           PersistState(s), UNCHANGED <<stateVars, logVars>>
    PROVE  \A t \in Server : Good(t)
<1>0. TypeOK /\ MemInv(s) /\ DiskInv(s)
  BY DEF IndInv
<1>1. \A t \in Server \ {s} : SameAt(t)
  BY <1>0, PersistOthers DEF SameAt, stateVars, logVars
<1>2. MemInv(s)'
  BY <1>0 DEF MemInv, GrantsAgree, stateVars, logVars
<1>3. currentTerm[s] <= currentTerm'[s]
  BY <1>0 DEF TypeOK, stateVars
<1>4. DiskInv(s)' /\ (s \notin unread => disk[s].currentTerm <= disk'[s].currentTerm)
  BY <1>0, <1>2, <1>3, Persisted
<1>5. Progress(s)
  BY <1>0, <1>4 DEF Progress, TypeOK, Snapshot, logVars
<1> QED
  BY <1>1, <1>2, <1>4, <1>5, OneEngine DEF Good

\* The last entry of an aligned log.
LEMMA LastIndex ==
    ASSUME TypeOK, NEW s \in Server, Aligned(log[s], snapshot[s])
    PROVE  LastLogIndex(s) + 1 = snapshot[s].lastIncludedIndex + Len(log[s])
<1>1. log[s] \in Seq(LogEntry) /\ snapshot[s].lastIncludedIndex \in Nat
  BY DEF TypeOK, Snapshot
<1>2. log[s] # <<>> /\ Len(log[s]) \in 1..Len(log[s])
  BY <1>1 DEF Aligned
<1>3. log[s][Len(log[s])].index = snapshot[s].lastIncludedIndex + Len(log[s]) - 1
  BY <1>2 DEF Aligned
<1> QED
  BY <1>1, <1>2, <1>3 DEF LastLogIndex

\* A leader appends an entry of its own term and saves the longer log.
LEMMA ProposeInv ==
    ASSUME IndInv, TypeOK', NEW s \in Server, NEW d \in Payload, Propose(s, d)
    PROVE  \A t \in Server : Good(t)
<1> DEFINE new == [index |-> LastLogIndex(s) + 1, term |-> currentTerm[s],
                   data |-> d]
<1>0. TypeOK /\ MemInv(s) /\ DiskInv(s) /\ PersistState(s)
  BY DEF IndInv, Propose
<1>1. /\ log' = [log EXCEPT ![s] = Append(log[s], new)]
      /\ UNCHANGED <<stateVars, snapshot>>
  BY DEF Propose
<1>2. /\ log[s] \in Seq(LogEntry) /\ snapshot[s] \in Snapshot /\ currentTerm[s] \in Nat
      /\ log'[s] = Append(log[s], new) /\ snapshot'[s] = snapshot[s]
      /\ currentTerm'[s] = currentTerm[s]
  BY <1>0, <1>1 DEF TypeOK, stateVars
<1>3. new \in LogEntry /\ new.index = snapshot[s].lastIncludedIndex + Len(log[s])
      /\ new.term = currentTerm[s]
  <2>1. LastLogIndex(s) + 1 = snapshot[s].lastIncludedIndex + Len(log[s])
        /\ LastLogIndex(s) \in Nat
    BY <1>0, LastIndex, LastLogIndexType DEF MemInv
  <2> QED
    BY <1>2, <2>1 DEF LogEntry
<1>4. \A t \in Server \ {s} : SameAt(t)
  BY <1>0, <1>1, PersistOthers DEF SameAt, TypeOK, stateVars
<1>5. Aligned(log'[s], snapshot'[s])
  BY <1>0, <1>2, <1>3, AppendAligned DEF MemInv
<1>6. TermsOrdered(log'[s], 0, currentTerm'[s])
  BY <1>0, <1>2, <1>3, AppendOrdered DEF MemInv
<1>7. MemInv(s)'
  BY <1>0, <1>1, <1>5, <1>6 DEF MemInv, GrantsAgree, stateVars
<1>8. DiskInv(s)' /\ (s \notin unread => disk[s].currentTerm <= disk'[s].currentTerm)
  BY <1>0, <1>2, <1>7, Persisted
<1>9. Progress(s)
  BY <1>2, <1>8 DEF Progress, Snapshot
<1> QED
  BY <1>4, <1>7, <1>8, <1>9, OneEngine DEF Good

\* A compaction moves the sentinel and the snapshot together.
LEMMA CompactLogInv ==
    ASSUME IndInv, TypeOK', NEW s \in Server, NEW i \in 1..MaxIndex, CompactLog(s, i)
    PROVE  \A t \in Server : Good(t)
<1> DEFINE rel == RelIndex(s, i)
           term == log[s][rel + 1].term
           q == <<Sentinel(i, term)>> \o SubSeq(log[s], rel + 2, Len(log[s]))
           snap == [lastIncludedIndex |-> i, lastIncludedTerm |-> term]
<1>0. TypeOK /\ MemInv(s) /\ DiskInv(s) /\ UNCHANGED stateVars
  BY DEF IndInv, CompactLog
<1>1. /\ log[s] \in Seq(LogEntry) /\ snapshot[s] \in Snapshot
      /\ snapshot[s].lastIncludedIndex \in Nat /\ i \in Nat /\ currentTerm[s] \in Nat
  BY <1>0, BoundAssumption DEF TypeOK, Snapshot
<1>2. i > snapshot[s].lastIncludedIndex
  BY DEF CompactLog
<1>3. rel \in Nat /\ i = snapshot[s].lastIncludedIndex + rel
  BY <1>1, <1>2 DEF RelIndex
<1>4. CASE UNCHANGED <<logVars, storeVars>>
  BY <1>0, <1>4, QuietInv
<1>5. CASE /\ rel < Len(log[s])
           /\ snapshot' = [snapshot EXCEPT ![s] = snap]
           /\ log' = [log EXCEPT ![s] = q]
           /\ PersistState(s)
  <2>1. term \in Nat
    <3>1. rel + 1 \in 1..Len(log[s])
      BY <1>1, <1>3, <1>5
    <3> QED
      BY <1>1, <3>1, EntryType
  <2>2. log'[s] = q /\ snapshot'[s] = snap /\ currentTerm'[s] = currentTerm[s]
    BY <1>0, <1>5 DEF TypeOK, stateVars
  <2>3. \A t \in Server \ {s} : SameAt(t)
    <3> HIDE DEF q, snap
    <3> QED
      BY <1>0, <1>5, PersistOthers DEF SameAt, TypeOK, stateVars
  <2>4. Aligned(q, snap)
    BY <1>0, <1>1, <1>3, <1>5, <2>1, CompactAligned DEF MemInv
  <2>5. TermsOrdered(q, 0, currentTerm[s])
    BY <1>0, <1>1, <1>3, <1>5, CompactOrdered DEF MemInv
  <2>6. MemInv(s)'
    <3> HIDE DEF q, snap
    <3> QED
      BY <1>0, <2>2, <2>4, <2>5 DEF MemInv, GrantsAgree, stateVars
  <2>7. DiskInv(s)' /\ (s \notin unread => disk[s].currentTerm <= disk'[s].currentTerm)
    BY <1>0, <1>1, <1>5, <2>2, <2>6, Persisted
  <2>8. Progress(s)
    BY <1>1, <1>2, <2>2, <2>7 DEF Progress
  <2> QED
    BY <2>3, <2>6, <2>7, <2>8, OneEngine DEF Good
<1> QED
  BY <1>4, <1>5 DEF CompactLog

\* A granted vote is the first of its term: the engine had not voted, and a
\* candidate has voted for itself.
LEMMA HandleRequestVoteInv ==
    ASSUME IndInv, TypeOK', NEW s \in Server, NEW a \in RequestVoteArgs,
           HandleRequestVote(s, a)
    PROVE  \A t \in Server : Good(t)
<1> DEFINE newer == a.term > currentTerm[s]
           vote  == IF newer THEN Nil ELSE votedFor[s]
           grant == CanGrant(s, vote, a)
           g0    == [term |-> a.term, candidate |-> a.candidateID]
<1>0. TypeOK /\ MemInv(s) /\ DiskInv(s) /\ PersistState(s) /\ UNCHANGED logVars
  BY DEF IndInv, HandleRequestVote
<1>1. /\ a.term \in Nat /\ a.candidateID \in Node /\ currentTerm[s] \in Nat
      /\ a.term >= currentTerm[s] /\ a.candidateID # s /\ s # Nil /\ a.candidateID # Nil
  <2>1. a.term \in Nat /\ a.candidateID \in Node
    BY BoundAssumption DEF RequestVoteArgs
  <2>2. currentTerm[s] \in Nat
    BY <1>0 DEF TypeOK
  <2>3. a.term >= currentTerm[s] /\ a.candidateID # s
    BY DEF HandleRequestVote, NotStale
  <2>4. s # Nil /\ a.candidateID # Nil
    BY <2>1, ServerFacts
  <2> QED
    BY <2>1, <2>2, <2>3, <2>4
<1>2. /\ currentTerm'[s] = a.term
      /\ role'[s] = IF newer THEN "Follower" ELSE role[s]
      /\ s \in forced' <=> (~newer /\ s \in forced)
      /\ votedFor'[s] = IF grant THEN a.candidateID ELSE vote
      /\ granted'[s] = IF grant THEN granted[s] \cup {g0} ELSE granted[s]
      /\ log' = log /\ snapshot' = snapshot
  BY <1>0 DEF HandleRequestVote, TypeOK, logVars
<1>3. \A t \in Server \ {s} : SameAt(t)
  BY <1>0, PersistOthers, ZenonT(40) DEF HandleRequestVote, TypeOK, SameAt, logVars
<1>4. \A g \in granted[s] : g.term \in Nat /\ g \in Grant
  BY <1>0 DEF TypeOK, Grant
<1>5. ~newer => a.term = currentTerm[s]
  BY <1>1
<1>6. grant => vote \in {Nil, a.candidateID}
  BY DEF CanGrant
<1>7. grant /\ ~newer => role'[s] # "Candidate"
  <2> SUFFICES ASSUME grant, ~newer, role[s] = "Candidate" PROVE FALSE
    BY <1>2
  <2>1. votedFor[s] = s
    BY <1>0 DEF MemInv
  <2> QED
    BY <1>1, <1>6, <2>1
<1>8. TermsOrdered(log[s], 0, a.term)
  BY <1>0, <1>1, OrderedWeaken DEF MemInv, TypeOK
<1>9. role'[s] # "Follower" /\ s \notin forced' => votedFor'[s] = s
  <2> SUFFICES ASSUME role'[s] # "Follower", s \notin forced' PROVE votedFor'[s] = s
    OBVIOUS
  <2>1. ~newer /\ votedFor[s] = s
    BY <1>0, <1>2 DEF MemInv
  <2> QED
    BY <1>1, <1>2, <1>6, <2>1
<1>10. role'[s] = "Candidate" => s \notin forced'
  BY <1>0, <1>2 DEF MemInv
<1>11. ASSUME ~StorageMayFail
       PROVE  /\ \A g, h \in granted'[s] : g.term = h.term => g = h
              /\ \A g \in granted'[s] :
                   g.term < a.term \/ (g.term = a.term /\ g.candidate = votedFor'[s])
              /\ role'[s] = "Candidate" => \A g \in granted'[s] : g.term < a.term
  <2>1. \A g \in granted[s] :
          g.term < currentTerm[s] \/ (g.term = currentTerm[s] /\ g.candidate = votedFor[s])
    BY <1>0, <1>11 DEF MemInv, GrantsAgree
  <2>2. \A g, h \in granted[s] : g.term = h.term => g = h
    BY <1>0, <1>11 DEF MemInv
  <2>3. CASE newer
    <3>1. \A g \in granted[s] : g.term < a.term
      BY <1>1, <1>4, <2>1, <2>3
    <3>2. role'[s] # "Candidate"
      BY <1>2, <2>3
    <3>3. CASE grant
      <4>1. granted'[s] = granted[s] \cup {g0} /\ votedFor'[s] = a.candidateID
        BY <1>2, <3>3
      <4> QED
        BY <1>1, <1>4, <2>2, <3>1, <3>2, <4>1
    <3>4. CASE ~grant
      BY <1>2, <2>2, <3>1, <3>2, <3>4
    <3> QED
      BY <3>3, <3>4
  <2>4. CASE ~newer
    <3>1. a.term = currentTerm[s]
      BY <1>5, <2>4
    <3>2. CASE grant
      <4>1. granted'[s] = granted[s] \cup {g0} /\ votedFor'[s] = a.candidateID
        BY <1>2, <3>2
      <4>2. votedFor[s] \in {Nil, a.candidateID}
        BY <1>6, <2>4, <3>2
      <4>3. \A g \in granted[s] : g.term = a.term => g = g0
        <5> SUFFICES ASSUME NEW g \in granted[s], g.term = a.term PROVE g = g0
          OBVIOUS
        <5>1. g.candidate = votedFor[s] /\ g \in Grant
          BY <1>1, <1>4, <2>1, <3>1
        <5>2. g.candidate = a.candidateID
          BY <4>2, <5>1, ServerFacts DEF Grant
        <5> QED
          BY <5>1, <5>2 DEF Grant
      <4>4. role'[s] # "Candidate"
        BY <1>7, <2>4, <3>2
      <4>5. \A g, h \in granted'[s] : g.term = h.term => g = h
        BY <2>2, <4>1, <4>3
      <4>6. \A g \in granted'[s] :
              g.term < a.term \/ (g.term = a.term /\ g.candidate = votedFor'[s])
        BY <1>1, <2>1, <3>1, <4>1, <4>3
      <4> QED
        BY <4>4, <4>5, <4>6
    <3>3. CASE ~grant
      BY <1>0, <1>2, <1>11, <2>1, <2>2, <2>4, <3>1, <3>3 DEF MemInv
    <3> QED
      BY <3>2, <3>3
  <2> QED
    BY <2>3, <2>4
<1>12. MemInv(s)'
  BY <1>0, <1>2, <1>8, <1>9, <1>10, <1>11 DEF MemInv, GrantsAgree
<1>13. DiskInv(s)' /\ (s \notin unread => disk[s].currentTerm <= disk'[s].currentTerm)
  BY <1>0, <1>1, <1>2, <1>12, Persisted
<1>14. Progress(s)
  BY <1>0, <1>2, <1>13 DEF Progress, TypeOK, Snapshot
<1> QED
  BY <1>3, <1>12, <1>13, <1>14, OneEngine DEF Good

\* FollowTerm keeps what the invariant says of the term, the vote and the role.
LEMMA FollowTermInv ==
    ASSUME IndInv, NEW s \in Server, NEW t \in Nat, FollowTerm(s, t)
    PROVE  /\ currentTerm'[s] = t /\ currentTerm[s] <= t /\ currentTerm[s] \in Nat
           /\ role'[s] # "Follower" /\ s \notin forced' => votedFor'[s] = s
           /\ role'[s] = "Candidate" => s \notin forced'
           /\ votedFor'[s] # Nil => votedFor'[s] = votedFor[s] /\ t = currentTerm[s]
           /\ granted' = granted
           /\ ~StorageMayFail =>
                /\ GrantsAgree(s, t, votedFor'[s])
                /\ role'[s] # "Candidate"
           /\ \A u \in Server \ {s} :
                /\ currentTerm'[u] = currentTerm[u] /\ votedFor'[u] = votedFor[u]
                /\ role'[u] = role[u] /\ (u \in forced' <=> u \in forced)
<1>0. TypeOK /\ MemInv(s) /\ granted' = granted /\ t >= currentTerm[s]
  BY DEF IndInv, FollowTerm, NotStale
<1>1. currentTerm[s] \in Nat /\ \A g \in granted[s] : g.term \in Nat
  BY <1>0 DEF TypeOK, Grant
<1>2. CASE StepsDown(s, t)
  <2>1. /\ currentTerm' = [currentTerm EXCEPT ![s] = t]
        /\ role' = [role EXCEPT ![s] = "Follower"]
        /\ votedFor' = [votedFor EXCEPT ![s] = Nil]
        /\ forced' = forced \ {s}
    BY <1>2 DEF FollowTerm
  <2>2. /\ currentTerm'[s] = t /\ role'[s] = "Follower" /\ votedFor'[s] = Nil
        /\ s \notin forced'
    BY <1>0, <2>1 DEF TypeOK
  <2>3. ~StorageMayFail => \A g \in granted[s] : g.term < t
    BY <1>0, <1>1, <1>2 DEF StepsDown, MemInv, GrantsAgree
  <2>4. \A u \in Server \ {s} :
          /\ currentTerm'[u] = currentTerm[u] /\ votedFor'[u] = votedFor[u]
          /\ role'[u] = role[u] /\ (u \in forced' <=> u \in forced)
    BY <1>0, <2>1 DEF TypeOK
  <2> QED
    BY <1>0, <1>1, <2>2, <2>3, <2>4 DEF GrantsAgree
<1>3. CASE ~StepsDown(s, t)
  <2>1. UNCHANGED <<currentTerm, role, votedFor, forced>>
    BY <1>3 DEF FollowTerm
  <2>2. t = currentTerm[s] /\ role[s] # "Candidate"
    BY <1>0, <1>1, <1>3 DEF StepsDown
  <2> QED
    BY <1>0, <1>1, <2>1, <2>2 DEF MemInv
<1> QED
  BY <1>2, <1>3

\* The refusal saves nothing: the term it learned, and the vote it cleared,
\* are not on disk, but no vote is in memory that is not.
LEMMA RejectInv ==
    ASSUME IndInv, TypeOK', NEW s \in Server, NEW a \in AppendEntriesArgs,
           RejectAppendEntries(s, a)
    PROVE  \A t \in Server : Good(t)
<1>0. TypeOK /\ MemInv(s) /\ DiskInv(s) /\ FollowTerm(s, a.term) /\ a.term \in Nat
  BY AppendEntriesArgsType DEF IndInv, RejectAppendEntries
<1>1. UNCHANGED <<logVars, storeVars>>
  BY DEF RejectAppendEntries
<1>2. \A t \in Server \ {s} : SameAt(t)
  BY <1>0, <1>1, FollowTermInv DEF SameAt, logVars, storeVars
<1>3. TermsOrdered(log[s], 0, a.term)
  BY <1>0, FollowTermInv, OrderedWeaken DEF MemInv, TypeOK
<1>4. MemInv(s)'
  BY <1>0, <1>1, <1>3, FollowTermInv DEF MemInv, GrantsAgree, logVars
<1>5. DiskInv(s)'
  <2>1. disk[s].currentTerm \in Nat /\ (s \notin unread => disk[s].currentTerm <= currentTerm[s])
    BY <1>0, DiskType DEF DiskInv
  <2>2. s \notin unread' => disk'[s].currentTerm <= currentTerm'[s]
    BY <1>0, <1>1, <2>1, FollowTermInv DEF storeVars
  <2> QED
    BY <1>0, <1>1, <2>2, FollowTermInv DEF DiskInv, GrantsAgree, logVars, storeVars
<1>6. Progress(s)
  <2>1. disk[s].currentTerm \in Nat /\ snapshot[s].lastIncludedIndex \in Nat
    BY <1>0, DiskType DEF TypeOK, Snapshot
  <2> QED
    BY <1>1, <2>1 DEF Progress, logVars, storeVars
<1> QED
  BY <1>2, <1>4, <1>5, <1>6, OneEngine DEF Good

\* A consistent AppendEntries rebuilds the log behind a matching entry.
LEMMA AcceptInv ==
    ASSUME IndInv, TypeOK', NEW s \in Server, NEW a \in AppendEntriesArgs,
           AcceptAppendEntries(s, a)
    PROVE  \A t \in Server : Good(t)
<1> DEFINE r == RelIndex(s, a.prevLogIndex)
           n == Extended(s, a)
<1>0. /\ TypeOK /\ MemInv(s) /\ DiskInv(s) /\ FollowTerm(s, a.term)
      /\ PersistState(s) /\ PrevMatches(s, a)
      /\ log' = [log EXCEPT ![s] = n] /\ snapshot' = snapshot
  BY DEF IndInv, AcceptAppendEntries
<1>1. /\ a.term \in Nat /\ a.prevLogIndex \in Nat /\ a.entries \in Seq(LogEntry)
      /\ TermsOrdered(a.entries, a.prevLogTerm, a.term)
      /\ \A i \in 1..Len(a.entries) : a.entries[i].index = a.prevLogIndex + i
  BY AppendEntriesArgsType
<1>2. /\ log[s] \in Seq(LogEntry) /\ snapshot[s] \in Snapshot
      /\ snapshot[s].lastIncludedIndex \in Nat
  BY <1>0 DEF TypeOK, Snapshot
<1>3. /\ r \in Nat /\ r < Len(log[s]) /\ log[s][r + 1].term = a.prevLogTerm
      /\ a.prevLogIndex = snapshot[s].lastIncludedIndex + r
  BY <1>0, <1>1, <1>2 DEF PrevMatches, RelIndex
<1>4. n = SubSeq(log[s], 1, r + 1) \o a.entries
  BY DEF Extended
<1> HIDE DEF r, n
<1>5. Aligned(n, snapshot[s])
  <2>1. \A i \in 1..Len(a.entries) :
          a.entries[i].index = snapshot[s].lastIncludedIndex + r + i
    BY <1>1, <1>3
  <2>2. Aligned(log[s], snapshot[s])
    BY <1>0 DEF MemInv
  <2> QED
    BY <1>1, <1>2, <1>3, <1>4, <2>1, <2>2, ExtendAligned
<1>6. TermsOrdered(n, 0, a.term)
  BY <1>0, <1>1, <1>2, <1>3, <1>4, FollowTermInv, ExtendOrdered DEF MemInv
<1>7. log'[s] = n /\ \A t \in Server \ {s} : log'[t] = log[t]
  BY <1>0 DEF TypeOK
<1>8. \A t \in Server \ {s} : SameAt(t)
  BY <1>0, <1>1, <1>7, FollowTermInv, PersistOthers DEF SameAt
<1>9. MemInv(s)'
  <2>1. ~StorageMayFail => \A g, h \in granted[s] : g.term = h.term => g = h
    BY <1>0 DEF MemInv
  <2> QED
    BY <1>0, <1>1, <1>5, <1>6, <1>7, <2>1, FollowTermInv DEF MemInv, GrantsAgree
<1>10. DiskInv(s)' /\ (s \notin unread => disk[s].currentTerm <= disk'[s].currentTerm)
  BY <1>0, <1>1, <1>9, FollowTermInv, Persisted
<1>11. Progress(s)
  BY <1>0, <1>2, <1>10 DEF Progress
<1> QED
  BY <1>8, <1>9, <1>10, <1>11, OneEngine DEF Good

\* The record on disk is a memory in order.
LEMMA RestartInv ==
    ASSUME IndInv, TypeOK', NEW s \in Server, Restart(s)
    PROVE  \A t \in Server : Good(t)
<1>0. TypeOK /\ MemInv(s) /\ DiskInv(s)
  BY DEF IndInv
<1>1. /\ currentTerm'[s] = disk[s].currentTerm /\ votedFor'[s] = disk[s].votedFor
      /\ log'[s] = disk[s].log /\ snapshot'[s] = disk[s].snapshot
      /\ role'[s] = "Follower" /\ s \notin forced' /\ s \notin failedPut'
      /\ s \notin unread' /\ disk' = disk /\ granted' = granted
  BY <1>0 DEF Restart, Boot, TypeOK
<1>2. \A t \in Server \ {s} : SameAt(t)
  BY <1>0 DEF Restart, Boot, TypeOK, SameAt
<1>3. MemInv(s)'
  BY <1>0, <1>1 DEF MemInv, DiskInv, GrantsAgree
<1>4. disk[s].currentTerm \in Nat /\ snapshot[s].lastIncludedIndex \in Nat
  BY <1>0, DiskType DEF TypeOK, Snapshot
<1>5. DiskInv(s)'
  BY <1>0, <1>1, <1>4 DEF DiskInv, GrantsAgree
<1>6. Progress(s)
  <2>1. Genesis.snapshot.lastIncludedIndex = 0 /\ disk[s].snapshot.lastIncludedIndex \in Nat
    BY <1>0, DiskType DEF Genesis, Snapshot
  <2> QED
    BY <1>0, <1>1, <1>4, <2>1 DEF Progress, DiskInv
<1> QED
  BY <1>2, <1>3, <1>5, <1>6, OneEngine DEF Good

\* The log of an engine that has loaded nothing is in order.
LEMMA GenesisInOrder ==
    /\ Aligned(Genesis.log, Genesis.snapshot) /\ TermsOrdered(Genesis.log, 0, 0)
    /\ Genesis.currentTerm = 0 /\ Genesis.votedFor = Nil
<1> DEFINE l == <<Sentinel(0, 0)>>
           snap == [lastIncludedIndex |-> 0, lastIncludedTerm |-> 0]
<1>1. Genesis.log = l /\ Genesis.snapshot = snap /\ Genesis.currentTerm = 0 /\ Genesis.votedFor = Nil
  BY DEF Genesis
<1>2. Len(l) = 1 /\ l[1].index = 0 /\ l[1].term = 0
  BY DEF Sentinel
<1> HIDE DEF l
<1>3. Aligned(l, snap)
  BY <1>2 DEF Aligned
<1>4. TermsOrdered(l, 0, 0)
  BY <1>2 DEF TermsOrdered
<1> QED
  BY <1>1, <1>3, <1>4

\* An engine that cannot read its record starts in order too; what is on disk
\* stays, and the mark in unread says that the two no longer agree.
LEMMA RestartUnreadInv ==
    ASSUME IndInv, TypeOK', NEW s \in Server, RestartUnread(s)
    PROVE  \A t \in Server : Good(t)
<1>0. TypeOK /\ MemInv(s) /\ DiskInv(s) /\ StorageMayFail
  BY DEF IndInv, RestartUnread
<1>1. /\ currentTerm'[s] = Genesis.currentTerm /\ votedFor'[s] = Genesis.votedFor
      /\ log'[s] = Genesis.log /\ snapshot'[s] = Genesis.snapshot
      /\ role'[s] = "Follower" /\ s \notin forced' /\ s \in unread'
      /\ disk' = disk /\ granted' = granted
  BY <1>0 DEF RestartUnread, Boot, TypeOK
<1>2. \A t \in Server \ {s} : SameAt(t)
  BY <1>0 DEF RestartUnread, Boot, TypeOK, SameAt
<1>3. MemInv(s)'
  BY <1>0, <1>1, GenesisInOrder DEF MemInv
<1>4. disk[s].currentTerm \in Nat
  BY <1>0, DiskType
<1>5. DiskInv(s)'
  BY <1>0, <1>1 DEF DiskInv
<1>6. Progress(s)
  BY <1>1, <1>4 DEF Progress
<1> QED
  BY <1>2, <1>3, <1>5, <1>6, OneEngine DEF Good

\* The initial states satisfy the inductive invariant.
LEMMA InitInv == Init => IndInv
<1> SUFFICES ASSUME Init, NEW s \in Server PROVE MemInv(s) /\ DiskInv(s)
  BY InitTypeOK DEF IndInv
<1>1. /\ log[s] = Genesis.log /\ snapshot[s] = Genesis.snapshot
      /\ currentTerm[s] = 0 /\ votedFor[s] = Nil
      /\ role[s] = "Follower" /\ s \notin forced /\ s \notin failedPut
      /\ s \notin unread /\ disk[s] = Genesis /\ granted[s] = {}
  BY DEF Init
<1> QED
  BY <1>1, GenesisInOrder DEF MemInv, DiskInv, GrantsAgree

\* Every step keeps the invariant, and neither the saved term nor a saved
\* snapshot goes back.
LEMMA StepInv ==
    ASSUME IndInv, [Next]_vars
    PROVE  IndInv' /\ \A t \in Server : Progress(t)
<1>0. TypeOK'
  BY StepTypeOK DEF IndInv
<1>1. \A t \in Server : Good(t)
  <2>1. CASE UNCHANGED vars
    BY <2>1, QuietInv DEF vars
  <2>2. CASE Next
    <3>1. PICK s \in Server : \/ Internal(s) \/ Call(s) \/ Rpc(s)
                           \/ Restart(s) \/ RestartUnread(s)
      BY <2>2 DEF Next
    <3>2. CASE Internal(s)
      <4>1. CASE \/ LoopTop(s) \/ LoopExit(s) \/ Heartbeat(s) \/ TimerFires(s)
                 \/ LaunchVotes(s) \/ ApplyEntry(s) \/ Receive(s)
        <5>1. UNCHANGED <<stateVars, logVars, storeVars>>
          BY <4>1 DEF LoopTop, LoopExit, Heartbeat, TimerFires, LaunchVotes,
                      ApplyEntry, Receive
        <5> QED
          BY <5>1, QuietInv
      <4>2. CASE StartElection(s)
        BY <1>0, <4>2, StartElectionInv
      <4>3. CASE \E b \in ballots[s] : CountVote(s, b)
        BY <1>0, <4>3, CountVoteInv
      <4> QED
        BY <3>2, <4>1, <4>2, <4>3 DEF Internal
    <3>3. CASE Call(s)
      <4>1. CASE Start(s) \/ Stop(s) \/ CancelContext(s)
        <5>1. UNCHANGED <<stateVars, logVars, storeVars>>
          BY <4>1 DEF Start, Stop, CancelContext
        <5> QED
          BY <5>1, QuietInv
      <4>2. CASE \E d \in Payload : Propose(s, d)
        BY <1>0, <4>2, ProposeInv
      <4>3. CASE \E i \in 1..MaxIndex : CompactLog(s, i)
        BY <1>0, <4>3, CompactLogInv
      <4>4. CASE OtherChange(s) \/ \E n \in Node : AddNode(s, n) \/ RemoveNode(s, n)
        BY <1>0, <4>4, SaveInv DEF AddNode, RemoveNode, OtherChange
      <4>5. CASE \E r \in AssignedRoles : SetRole(s, r)
        BY <1>0, <4>5, SetRoleInv
      <4> QED
        BY <3>3, <4>1, <4>2, <4>3, <4>4, <4>5 DEF Call
    <3>4. CASE Rpc(s)
      BY <1>0, <3>4, HandleRequestVoteInv, RejectInv, AcceptInv DEF Rpc
    <3>5. CASE Restart(s)
      BY <1>0, <3>5, RestartInv
    <3>6. CASE RestartUnread(s)
      BY <1>0, <3>6, RestartUnreadInv
    <3> QED
      BY <3>1, <3>2, <3>3, <3>4, <3>5, <3>6
  <2> QED
    BY <2>1, <2>2
<1> QED
  BY <1>0, <1>1 DEF Good, IndInv

-----------------------------------------------------------------------------
(* The theorems.                                                           *)

\* The inductive invariant (raft_engine.go:14-91, the fields of an engine and
\* its saved record) holds in every reachable state.
THEOREM Invariance == Spec => []IndInv
<1>1. IndInv /\ [Next]_vars => IndInv'
  BY StepInv
<1> QED
  BY InitInv, <1>1, PTL DEF Spec

\* Relative log indexes address the entry they mean (raft_engine.go:302, 375,
\* 392), through truncation, compaction and restarts.
THEOREM LogAlignment == Spec => []LogAligned
<1>1. IndInv => LogAligned
  BY DEF IndInv, MemInv, LogAligned
<1> QED
  BY <1>1, Invariance, PTL

\* The terms of a log, in memory and on disk, are ordered.
THEOREM TermOrder == Spec => []LogTermsOrdered
<1>1. IndInv => LogTermsOrdered
  BY DEF IndInv, MemInv, DiskInv, LogTermsOrdered
<1> QED
  BY <1>1, Invariance, PTL

\* While Put and Get succeed the log, the snapshot and every vote survive a crash.
THEOREM Durability == Spec => []DurableState
<1>1. IndInv => DurableState
  BY DEF IndInv, DiskInv, DurableState
<1> QED
  BY <1>1, Invariance, PTL

\* Candidates and elected leaders have voted for themselves.
THEOREM OwnVote == Spec => []LeaderOwnVote
<1>1. IndInv => LeaderOwnVote
  BY DEF IndInv, MemInv, LeaderOwnVote
<1> QED
  BY <1>1, Invariance, PTL

\* With a reliable store HandleRequestVote grants at most one vote per term.
THEOREM OneGrant == Spec => []GrantOnce
<1>1. IndInv => GrantOnce
  BY DEF IndInv, MemInv, GrantOnce
<1> QED
  BY <1>1, Invariance, PTL

\* The saved term never decreases, unless the engine started without reading it.
THEOREM DiskTerm == Spec => DiskTermMonotone
<1>1. IndInv /\ [Next]_vars =>
        [\A s \in Server \ unread : disk[s].currentTerm <= disk'[s].currentTerm]_vars
  BY StepInv DEF Progress
<1> QED
  BY <1>1, Invariance, PTL DEF Spec, DiskTermMonotone

\* A compaction that was saved is never undone, unless Get fails at a restart.
THEOREM SnapshotProgress == Spec => SnapshotNeverRegresses
<1>1. IndInv /\ [Next]_vars =>
        [\A s \in Server \ (failedPut \cup unread') :
            snapshot[s].lastIncludedIndex <= snapshot'[s].lastIncludedIndex]_vars
  BY StepInv DEF Progress
<1> QED
  BY <1>1, Invariance, PTL DEF Spec, SnapshotNeverRegresses

=============================================================================
