--------------------------- MODULE AtomicBroadcast ---------------------------
(***************************************************************************)
(* What the applications expect of consensus (interfaces.Consensus): the   *)
(* entries proposed form one growing order, and the application of every   *)
(* replica receives a contiguous piece of it, in order.  A replica that    *)
(* starts again from a snapshot starts over after the snapshot.            *)
(***************************************************************************)
EXTENDS Naturals, Sequences

CONSTANTS Replica, Entry

VARIABLES
    order,     \* the entries, in the order consensus gave them
    base,      \* base[r]: position up to which r started from a snapshot
    delivered  \* delivered[r]: what r's application was handed since then

vars == <<order, base, delivered>>

Init ==
    /\ order = <<>>
    /\ base = [r \in Replica |-> 0]
    /\ delivered = [r \in Replica |-> <<>>]

Broadcast(e) ==
    /\ order' = Append(order, e)
    /\ UNCHANGED <<base, delivered>>

Deliver(r) ==
    LET next == base[r] + Len(delivered[r]) + 1
    IN  /\ next <= Len(order)
        /\ delivered' = [delivered EXCEPT ![r] = Append(@, order[next])]
        /\ UNCHANGED <<order, base>>

\* The replica comes back from a snapshot that covers the first k entries.
Recover(r, k) ==
    /\ base' = [base EXCEPT ![r] = k]
    /\ delivered' = [delivered EXCEPT ![r] = <<>>]
    /\ UNCHANGED order

Next ==
    \/ \E e \in Entry : Broadcast(e)
    \/ \E r \in Replica : Deliver(r) \/ \E k \in 0..Len(order) : Recover(r, k)

Spec == Init /\ [][Next]_vars
=============================================================================
