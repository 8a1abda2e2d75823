--------------------------- MODULE ExecutionRouter ---------------------------
(***************************************************************************)
(* The command router of core/execution/engine.go, with applications as    *)
(* handlers (Apply is a CommandHandler) and the ledger of plugins/rwa      *)
(* behind an adapter that returns no root.                                 *)
(*                                                                         *)
(* Every call holds the router's mutex, handlers included.  The routers    *)
(* run the same applications, each on its own copy.                        *)
(***************************************************************************)
EXTENDS Applications

CONSTANTS
    Router,
    HandlerType,    \* payload types: "meta", "config", "kv", "rwa"
    TxID,           \* transaction IDs, the one that Apply uses included
    MaxRouted       \* bound: commands given to the routers

ASSUME RouterAssumption ==
    /\ HandlerType \subseteq {"meta", "config", "kv", "rwa"}
    /\ "tx_auto_gen" \in TxID /\ MaxRouted \in Nat

VARIABLES
    handlers,       \* the registered payload types
    machines,       \* the state of the machines behind the handlers
    machineRoot,    \* and their own roots
    currentRoot,    \* the sequence of roots hashed into er.currentRoot
    receipts,
    committed,      \* history: the commands with a COMMITTED receipt
    scarred,        \* history: whether a command that leaves a trace was
                    \* rolled back
    routed          \* how many commands were given to the routers

routerVars == <<handlers, machines, machineRoot, currentRoot, receipts,
                committed, scarred, routed>>

RouterInit ==
    /\ handlers = [r \in Router |-> {}]
    /\ machines = [r \in Router |-> [t \in HandlerType |-> EmptyState(t)]]
    /\ machineRoot = [r \in Router |-> [t \in HandlerType |-> Genesis(t)]]
    /\ currentRoot = [r \in Router |-> <<>>]
    /\ receipts = [r \in Router |-> <<>>]
    /\ committed = [r \in Router |-> <<>>]
    /\ scarred = [r \in Router |-> FALSE]
    /\ routed = 0

\* Ledger.Execute: an asset is issued once.  The adapter returns no root.
RWAPayload == [action : {"ISSUE"}, asset : Name, shares : 1..2]
              \cup [action : {"MALFORMED"}]

Execute(s, h, c) ==
    IF c.action = "MALFORMED" \/ c.asset \in DOMAIN s THEN Refused(s, h)
    ELSE {[ok |-> TRUE, state |-> Put(s, c.asset, c.shares), root |-> h]}

Payload(t) == CASE t = "meta"   -> MetadataPayload
                [] t = "config" -> ConfigPayload
                [] t = "kv"     -> KVPayload
                [] t = "rwa"    -> RWAPayload

\* What the handler of type t may do with payload c.
Handled(r, t, c) ==
    CASE t = "meta"   -> MetaApply(machines[r][t], machineRoot[r][t], c)
      [] t = "config" -> ConfigApply(machines[r][t], machineRoot[r][t], c)
      [] t = "kv"     -> KVApply(machines[r][t], machineRoot[r][t], c)
      [] t = "rwa"    -> Execute(machines[r][t], machineRoot[r][t], c)

\* er.receipts[txID] = receipt: the last attempt overwrites those before.
Receipt(r, tx, status, h) ==
    receipts' = [receipts EXCEPT ![r] = Put(@, tx, [status |-> status, root |-> h])]

\* The commands whose failure leaves a trace in their machine: a configuration
\* command of unknown action its namespace, a write that the storage refuses
\* its new value in the map.
Scars(t, c) == \/ t = "config" /\ c.action = "OTHER"
               \/ t = "kv" /\ c.op # "OTHER"

\* er.handlers[pType] = handler: to register the handler again is no change.
RegisterHandler(r, t) ==
    /\ handlers' = [handlers EXCEPT ![r] = @ \cup {t}]
    /\ UNCHANGED <<machines, machineRoot, currentRoot, receipts, committed,
                   scarred, routed>>

\* The commit log does not parse, or its type is not registered.
Unroutable(r, tx) ==
    /\ Receipt(r, tx, "FAILED", <<>>)
    /\ UNCHANGED <<handlers, machines, machineRoot, currentRoot, committed,
                   scarred>>

\* Mutant of RootAfter: the failed command's root is hashed in, too.
RootAfterAny(r, out) == Append(currentRoot[r], out.root)

\* er.currentRoot once the handler has returned.
RootAfter(r, out) == IF out.ok THEN Append(currentRoot[r], out.root)
                               ELSE currentRoot[r]

\* The handler runs.  On an error only the router's root is put back.
Routable(r, tx, t, c) == \E out \in Handled(r, t, c) :
    /\ machines' = [machines EXCEPT ![r][t] = out.state]
    /\ machineRoot' = [machineRoot EXCEPT ![r][t] = out.root]
    /\ currentRoot' = [currentRoot EXCEPT ![r] = RootAfter(r, out)]
    /\ IF out.ok THEN Receipt(r, tx, "COMMITTED", currentRoot'[r])
                 ELSE Receipt(r, tx, "ROLLED_BACK", <<>>)
    /\ committed' = [committed EXCEPT ![r] =
                       IF out.ok THEN Append(@, <<t, c>>) ELSE @]
    /\ scarred' = [scarred EXCEPT ![r] = @ \/ (~out.ok /\ Scars(t, c))]
    /\ UNCHANGED handlers

\* ApplyTransactional; Apply is the same, for "tx_auto_gen".
ApplyTransactional(r, tx, t, c) ==
    /\ routed < MaxRouted /\ routed' = routed + 1
    /\ IF t \in handlers[r] THEN Routable(r, tx, t, c) ELSE Unroutable(r, tx)

ApplyMalformed(r, tx) ==
    /\ routed < MaxRouted /\ routed' = routed + 1
    /\ Unroutable(r, tx)

RouterNext == \E r \in Router :
    \/ \E t \in HandlerType : RegisterHandler(r, t)
    \/ \E tx \in TxID :
         \/ \E t \in HandlerType : \E c \in Payload(t) :
              ApplyTransactional(r, tx, t, c)
         \/ ApplyMalformed(r, tx)

RouterSpec == RouterInit /\ [][RouterNext]_routerVars

-----------------------------------------------------------------------------
(* Properties.                                                             *)

\* The settings of dist-config: an empty namespace has none.
Settings(s) == UNION {{<<n, k, s[n][k]>> : k \in DOMAIN s[n]} : n \in DOMAIN s}

\* What no failure may change in a machine: the settings, what the kv-store
\* has stored, and the whole of the others.
Kept(t, s) == CASE t = "config"          -> Settings(s)
                [] t = "kv"              -> s.disk
                [] t \in {"meta", "rwa"} -> s

\* Routers that committed the same commands keep the same settings, stored
\* values, metadata and assets, whatever they refused or rolled back in
\* between and whenever handlers were registered.  ROLLED_BACK restores the
\* router's root and not the machine, so that only routers without a scar
\* have the same root and machines that are equal in all.
FailuresInvisible == \A r, q \in Router : committed[r] = committed[q] =>
    /\ \A t \in HandlerType : Kept(t, machines[r][t]) = Kept(t, machines[q][t])
    /\ ~scarred[r] /\ ~scarred[q] =>
          currentRoot[r] = currentRoot[q] /\ machines[r] = machines[q]

=============================================================================
