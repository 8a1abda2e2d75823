---------------------------- MODULE Applications ----------------------------
(***************************************************************************)
(* What the applications of applications/ do with one command: kv-store,   *)
(* dist-lock, dist-queue, dist-config, metadata-service, and the           *)
(* MerkleState of sovereign-chain.                                         *)
(*                                                                         *)
(* Apply is a set of outcomes: it may meet a storage error, and two of the *)
(* applications hash a Go map in the random order of its iteration.  Names *)
(* are numbers, so that they sort; values are strings of numbers.  SHA-256 *)
(* is an injective function of the concatenation of what was written to    *)
(* it, which is all that the code hashes: the bytes do not tell what wrote *)
(* them.  The strings of MerkleState consist of chunks, which are bytes or *)
(* whole hashes, as a key or a value may well contain a hash.              *)
(***************************************************************************)
EXTENDS Integers, Sequences, FiniteSets, SequencesExt, Functions, TLC

CONSTANTS
    App,            \* the applications considered
    Name, Value,    \* keys, topics, resources, holders; byte strings
    Chunk,          \* pieces of byte strings: bytes and hashes
    MerkleKey,      \* the keys of MerkleState, numbered as they sort
    Spelling,       \* their bytes
    MerkleValue,    \* its values
    EmptyBytes,     \* the bytes of "empty_state"
    TTL,            \* ttl_ms
    StorageMayFail  \* whether storage.Put and Delete may return an error

ASSUME AppAssumption ==
    App \subseteq {"kv", "lock", "queue", "config", "meta", "merkle"}
ASSUME ValueAssumption ==
    /\ Name \cup MerkleKey \subseteq Nat
    /\ Value \subseteq Seq(Nat) /\ TTL \subseteq Int
    /\ Spelling \in [MerkleKey -> Seq(Chunk)]
    /\ MerkleValue \subseteq Seq(Chunk) /\ EmptyBytes \in Seq(Chunk)
    /\ StorageMayFail \in BOOLEAN

Metadata == UNION {[S -> Value] : S \in SUBSET Name}
Changes  ==
    UNION {[S -> MerkleValue] : S \in {T \in SUBSET MerkleKey : IsFiniteSet(T)}}

\* Every application meets commands whose action it does not know, or that
\* do not parse: OTHER, and MALFORMED where the two differ.
KVPayload ==
    [op : {"PUT"}, key : Name, value : Value] \cup [op : {"DELETE"}, key : Name]
    \cup [op : {"OTHER"}]
LockPayload ==
    [action : {"ACQUIRE"}, resource : Name, holder : Name, ttl : TTL]
    \cup [action : {"RELEASE"}, resource : Name, holder : Name]
    \cup [action : {"OTHER"}]
QueuePayload ==
    [action : {"ENQUEUE"}, topic : Name, data : Value]
    \cup [action : {"DEQUEUE"}, topic : Name] \cup [action : {"OTHER"}]
ConfigPayload ==
    [action : {"SET"}, namespace : Name, key : Name, value : Value]
    \cup [action : {"DEL"}, namespace : Name, key : Name]
    \cup [action : {"OTHER"}, namespace : Name] \cup [action : {"MALFORMED"}]
MetadataPayload ==
    [action : {"PUT_META"}, objectId : Name, metadata : Metadata]
    \cup [action : {"DEL_META"}, objectId : Name] \cup [action : {"OTHER"}]

Commands == [kv |-> KVPayload, lock |-> LockPayload, queue |-> QueuePayload,
             config |-> ConfigPayload, meta |-> MetadataPayload,
             merkle |-> Changes]

-----------------------------------------------------------------------------
(* State roots.                                                            *)

Sum256(bytes) == [sha256 |-> bytes]
Hash(writes)  == Sum256(FlattenSeq(writes))
Genesis(a)    == [genesis |-> a]

\* The elements of S, each at the place that its smaller ones leave to it.
Sorted(S) == [i \in 1..Cardinality(S) |->
                CHOOSE x \in S : Cardinality({y \in S : y < x}) = i - 1]

\* Mutant of SortedOrders: Go's map iteration, without sort.Strings.
MapOrders(S) == SetToSeqs(S)

\* The orders in which keys collected and sorted with sort.Strings are hashed.
SortedOrders(S) == {Sorted(S)}

\* recalculateRoot of the kv-store, in one of the given orders of its keys.
KVRoot(m, order) == Hash([i \in 1..Len(order) |-> <<order[i]>> \o m[order[i]]])

\* recalculateRoot of dist-lock: the expiry is not hashed.
LockRoot(l, order) ==
    Hash([i \in 1..Len(order) |-> <<order[i], l[order[i]].holder>>])

QueueRoot(q, order) ==
    Hash([i \in 1..Len(order) |-> <<order[i]>> \o FlattenSeq(q[order[i]])])

\* A map of maps, both levels sorted.
NestedRoot(c, order) ==
    LET inner(m) == LET ks == Sorted(DOMAIN m)
                    IN  FlattenSeq([j \in 1..Len(ks) |-> <<ks[j]>> \o m[ks[j]]])
    IN  Hash([i \in 1..Len(order) |-> <<order[i]>> \o inner(c[order[i]])])

ConfigRoot(c, order) == NestedRoot(c, order)
MetadataRoot(c, order) == NestedRoot(c, order)

-----------------------------------------------------------------------------
(* Apply: the set of outcomes of command c in state s with root h.         *)

Put(f, k, v) == [x \in DOMAIN f \cup {k} |-> IF x = k THEN v ELSE f[x]]
Del(f, k)    == Restrict(f, DOMAIN f \ {k})

Refused(s, h)          == {[ok |-> FALSE, state |-> s, root |-> h]}
Accepted(s, f(_), ord) == {[ok |-> TRUE, state |-> s, root |-> f(o)] : o \in ord}

\* A PUT or a DELETE, on the map or on the storage.
Write(f, c) == IF c.op = "PUT" THEN Put(f, c.key, c.value) ELSE Del(f, c.key)

\* Mutant of Stored: the storage is forgotten.
NotStored(disk, c) == disk

\* kv.storage.Put, kv.storage.Delete
Stored(disk, c) == Write(disk, c)

\* The map changes first; a storage error then leaves it changed and the
\* root as it was.
KVApply(s, h, c) ==
    LET mem == Write(s.mem, c)
    IN  IF c.op = "OTHER" THEN Refused(s, h)
        ELSE Accepted([mem |-> mem, disk |-> Stored(s.disk, c)],
                      LAMBDA o : KVRoot(mem, o), SortedOrders(DOMAIN mem))
             \cup (IF StorageMayFail
                     THEN Refused([s EXCEPT !.mem = mem], h) ELSE {})

\* Mutant of Unexpired: the comparison with the expiry is inverted.
Expired(info, t) == t >= info.expiresAt

\* now.Before(current.ExpiresAt)
Unexpired(info, t) == t < info.expiresAt

\* An unexpired lock of another holder refuses the acquisition; a release
\* needs the holder, expired or not.
LockApply(s, h, c, t) ==
    LET taken == /\ c.resource \in DOMAIN s
                 /\ Unexpired(s[c.resource], t)
                 /\ s[c.resource].holder # c.holder
        mine  == /\ c.resource \in DOMAIN s
                 /\ s[c.resource].holder = c.holder
        next  == IF c.action = "ACQUIRE"
                   THEN Put(s, c.resource,
                            [holder |-> c.holder, expiresAt |-> t + c.ttl])
                   ELSE Del(s, c.resource)
    IN  IF (c.action = "ACQUIRE" /\ ~taken) \/ (c.action = "RELEASE" /\ mine)
          THEN Accepted(next, LAMBDA o : LockRoot(next, o),
                        SetToSeqs(DOMAIN next))
          ELSE Refused(s, h)

\* Mutant of Pop: the newest item is taken.
PopNewest(q) == Front(q)

\* q[1:]
Pop(q) == Tail(q)

\* A topic that was emptied keeps its key.
QueueApply(s, h, c) ==
    LET q    == IF c.topic \in DOMAIN s THEN s[c.topic] ELSE <<>>
        next == Put(s, c.topic, IF c.action = "ENQUEUE" THEN Append(q, c.data)
                                                        ELSE Pop(q))
    IN  IF c.action = "ENQUEUE" \/ (c.action = "DEQUEUE" /\ q # <<>>)
          THEN Accepted(next, LAMBDA o : QueueRoot(next, o),
                        SetToSeqs(DOMAIN next))
          ELSE Refused(s, h)

\* A payload that does not parse changes nothing; one whose action is unknown
\* has created its namespace before it is refused.
ConfigApply(s, h, c) ==
    LET ns   == IF c.namespace \in DOMAIN s THEN s[c.namespace] ELSE <<>>
        next == Put(s, c.namespace,
                    CASE c.action = "SET"   -> Put(ns, c.key, c.value)
                      [] c.action = "DEL"   -> Del(ns, c.key)
                      [] c.action = "OTHER" -> ns)
    IN  IF c.action = "MALFORMED" THEN Refused(s, h)
        ELSE IF c.action = "OTHER" THEN Refused(next, h)
        ELSE Accepted(next, LAMBDA o : ConfigRoot(next, o),
                      SortedOrders(DOMAIN next))

MetaApply(s, h, c) ==
    LET next == IF c.action = "PUT_META" THEN Put(s, c.objectId, c.metadata)
                                         ELSE Del(s, c.objectId)
    IN  IF c.action = "OTHER" THEN Refused(s, h)
        ELSE Accepted(next, LAMBDA o : MetadataRoot(next, o),
                      SortedOrders(DOMAIN next))

-----------------------------------------------------------------------------
(* MerkleState.  Its commands are sets of changes.                         *)

\* Leaves and inner nodes are hashed alike, with nothing to tell them apart:
\* append([]byte(k), v...) and append(l, r...).
Leaf(k, v)  == Sum256(Spelling[k] \o v)
Node2(l, r) == Sum256(<<l, r>>)

\* One round of computeMerkleRoot: an unpaired hash is paired with itself.
MerkleLevel(hashes) ==
    [i \in 1..((Len(hashes) + 1) \div 2) |->
        Node2(hashes[2*i - 1], IF 2*i <= Len(hashes) THEN hashes[2*i]
                                                     ELSE hashes[2*i - 1])]

\* The arguments of computeMerkleRoot's calls, one for each depth.
MerkleLevels(hashes) ==
    LET level[n \in Nat] == IF n = 0 THEN hashes
                            ELSE IF Len(level[n-1]) <= 1 THEN level[n-1]
                            ELSE MerkleLevel(level[n-1])
    IN  level

computeMerkleRoot(hashes) == IF hashes = <<>> THEN Sum256(EmptyBytes)
                             ELSE Head(MerkleLevels(hashes)[Len(hashes)])

Leaves(m, order) == [i \in 1..Len(order) |-> Leaf(order[i], m[order[i]])]

\* Mutant of Hashed: the whole state is hashed, not only the changes.
HashedAll(m, changes) == DOMAIN m \cup DOMAIN changes

\* The keys whose leaves ApplyChanges hashes.
Hashed(m, changes) == DOMAIN changes

\* ApplyChanges: the errors of storage.Put are dropped, so that any of the
\* changes may be missing on disk.
MerkleApply(s, c) ==
    LET mem   == c @@ s.mem
        roots == {computeMerkleRoot(Leaves(mem, o))
                    : o \in SortedOrders(Hashed(s.mem, c))}
        saved == IF StorageMayFail THEN SUBSET DOMAIN c ELSE {DOMAIN c}
    IN  {[ok |-> TRUE, state |-> [mem |-> mem, disk |-> Restrict(c, S) @@ s.disk],
          root |-> h] : S \in saved, h \in roots}

\* VerifyProof looks at the proof's length only, and GetProof's is one.
VerifyProof(k, v, h) == Leaf(k, v) = h

\* StateMachine.Apply of application a at time t, in state s with root h.
ApplyOutcomes(a, s, h, c, t) ==
    CASE a = "kv"     -> KVApply(s, h, c)
      [] a = "lock"   -> LockApply(s, h, c, t)
      [] a = "queue"  -> QueueApply(s, h, c)
      [] a = "config" -> ConfigApply(s, h, c)
      [] a = "meta"   -> MetaApply(s, h, c)
      [] a = "merkle" -> MerkleApply(s, c)

\* The constructors: empty maps.
EmptyState(a) == IF a \in {"kv", "merkle"} THEN [mem |-> <<>>, disk |-> <<>>]
                                           ELSE <<>>

=============================================================================
