--------------------------- MODULE RuntimeServices ---------------------------
(***************************************************************************)
(* The scheduler and the event bus of core/runtime: recurring tasks whose  *)
(* TaskFunc publishes an event.                                            *)
(*                                                                         *)
(* Publish holds the bus's read lock while it sends to one channel after   *)
(* the other, so publishers overlap, and Subscribe waits for all of them.  *)
(***************************************************************************)
EXTENDS Naturals, Sequences, FiniteSetsExt

CONSTANTS
    Task, Subscriber, EventType,
    Emits,          \* the type of the events that a task publishes
    ChanCap,        \* the capacity of a subscriber's channel
    MaxTicks        \* bound: ticks of all tasks together

ASSUME EmitsAssumption == Emits \in [Task -> EventType]
ASSUME TickAssumption == ChanCap \in Nat \ {0} /\ MaxTicks \in Nat

VARIABLES
    subscribers,    \* eb.subscribers
    chan,           \* the buffers of the channels
    task,           \* what the goroutine of a task is doing
    remaining,      \* the channels its Publish has still to serve
    stopCh,         \* whether s.stopCh is closed
    done,           \* whether the tasks' context is cancelled
    fired,          \* history: how many events a task has published
    since,          \* history: fired, when a subscriber subscribed
    received,       \* history: what a subscriber has taken
    overrun         \* history: the subscribers found full

busVars   == <<subscribers, chan>>
busLog    == <<fired, since, received, overrun>>
schedVars == <<task, remaining, stopCh, done>>
serviceVars == <<busVars, schedVars, busLog>>

ServicesInit ==
    /\ subscribers = [e \in EventType |-> <<>>]
    /\ chan = [s \in Subscriber |-> <<>>]
    /\ task = [t \in Task |-> "none"]
    /\ remaining = [t \in Task |-> <<>>]
    /\ stopCh = FALSE /\ done = FALSE
    /\ fired = [t \in Task |-> 0]
    /\ since = <<>>
    /\ received = [s \in Subscriber |-> <<>>]
    /\ overrun = {}

\* The write lock: no Publish is under way.
Subscribe(s, e) ==
    /\ s \notin DOMAIN since
    /\ \A t \in Task : task[t] # "publish"
    /\ subscribers' = [subscribers EXCEPT ![e] = Append(@, s)]
    /\ since' = [x \in DOMAIN since \cup {s} |->
                   IF x = s THEN fired ELSE since[x]]
    /\ UNCHANGED <<chan, schedVars, fired, received, overrun>>

Receive(s) ==
    /\ chan[s] # <<>>
    /\ received' = [received EXCEPT ![s] = Append(@, Head(chan[s]))]
    /\ chan' = [chan EXCEPT ![s] = Tail(@)]
    /\ UNCHANGED <<subscribers, schedVars, fired, since, overrun>>

ScheduleRecurring(t) ==
    /\ task[t] = "none"
    /\ task' = [task EXCEPT ![t] = "select"]
    /\ UNCHANGED <<busVars, remaining, stopCh, done, busLog>>

\* case <-ticker.C: the task publishes, under the read lock.
TickerFires(t) ==
    /\ task[t] = "select"
    /\ MapThenSumSet(LAMBDA u : fired[u], Task) < MaxTicks
    /\ task' = [task EXCEPT ![t] = "publish"]
    /\ remaining' = [remaining EXCEPT ![t] = subscribers[Emits[t]]]
    /\ fired' = [fired EXCEPT ![t] = @ + 1]
    /\ UNCHANGED <<busVars, stopCh, done, since, received, overrun>>

Full(s) == Len(chan[s]) = ChanCap

\* case ch <- event
Send(t) ==
    LET s == Head(remaining[t])
    IN  /\ task[t] = "publish" /\ remaining[t] # <<>>
        /\ ~Full(s)
        /\ chan' = [chan EXCEPT ![s] =
                      Append(@, [emitter |-> t, seq |-> fired[t]])]
        /\ remaining' = [remaining EXCEPT ![t] = Tail(@)]
        /\ UNCHANGED <<subscribers, task, stopCh, done, busLog>>

\* Mutants of Drop: a full channel ends the loop, or is waited for.
DropAll(t) ==
    /\ task[t] = "publish" /\ remaining[t] # <<>> /\ Full(Head(remaining[t]))
    /\ overrun' = overrun \cup {Head(remaining[t])}
    /\ remaining' = [remaining EXCEPT ![t] = <<>>]
    /\ UNCHANGED <<busVars, task, stopCh, done, fired, since, received>>
DropNever(t) == t \notin Task /\ UNCHANGED serviceVars

\* default: the event is lost for this subscriber.
Drop(t) ==
    /\ task[t] = "publish" /\ remaining[t] # <<>> /\ Full(Head(remaining[t]))
    /\ overrun' = overrun \cup {Head(remaining[t])}
    /\ remaining' = [remaining EXCEPT ![t] = Tail(@)]
    /\ UNCHANGED <<busVars, task, stopCh, done, fired, since, received>>

PublishReturns(t) ==
    /\ task[t] = "publish" /\ remaining[t] = <<>>
    /\ task' = [task EXCEPT ![t] = "select"]
    /\ UNCHANGED <<busVars, remaining, stopCh, done, busLog>>

\* case <-s.stopCh, case <-ctx.Done()
TaskExits(t) ==
    /\ task[t] = "select" /\ (stopCh \/ done)
    /\ task' = [task EXCEPT ![t] = "gone"]
    /\ UNCHANGED <<busVars, remaining, stopCh, done, busLog>>

\* Scheduler.Stop; a second call finds stopCh closed.
StopScheduler ==
    /\ stopCh' = TRUE
    /\ UNCHANGED <<busVars, task, remaining, done, busLog>>

CancelTasks ==
    /\ done' = TRUE
    /\ UNCHANGED <<busVars, task, remaining, stopCh, busLog>>

ServicesNext ==
    \/ \E s \in Subscriber : Receive(s) \/ \E e \in EventType : Subscribe(s, e)
    \/ \E t \in Task : \/ ScheduleRecurring(t) \/ TickerFires(t)
                       \/ Send(t) \/ Drop(t) \/ PublishReturns(t)
                       \/ TaskExits(t)
    \/ StopScheduler \/ CancelTasks

ServicesSpec == ServicesInit /\ [][ServicesNext]_serviceVars

\* A task's goroutine runs; select chooses at random among what is ready.
TaskRuns(t) == Send(t) \/ Drop(t) \/ PublishReturns(t)

-----------------------------------------------------------------------------
(* Properties.                                                             *)

\* Among the events s task t's are those numbered a+1 to b, each once and in
\* order.
Numbered(s, t, a, b) ==
    LET mine == {i \in 1..Len(s) : s[i].emitter = t}
    IN  /\ {s[i].seq : i \in mine} = (a + 1)..b
        /\ \A i, j \in mine : i < j => s[i].seq < s[j].seq

\* Whether the Publish of task t has still to serve s.
Due(t, s) == \E j \in 1..Len(remaining[t]) : remaining[t][j] = s

\* A subscriber whose channel is never found full gets every event of its
\* type published since it subscribed, once, and each emitter's in order,
\* however the publishers overlap and however slow the others are.
FastSubscriberMissesNothing ==
    \A e \in EventType : \A i \in 1..Len(subscribers[e]) :
        LET s == subscribers[e][i]
        IN  s \notin overrun => \A t \in Task :
              Emits[t] = e =>
                Numbered(received[s] \o chan[s], t, since[s][t],
                         IF Due(t, s) THEN fired[t] - 1 ELSE fired[t])

\* Once the scheduler is stopped, or the tasks' context is cancelled, every
\* task ends, although subscribers may have stopped to receive for good.
SchedulerStops == \A t \in Task :
    (stopCh \/ done) /\ task[t] # "none" ~> task[t] = "gone"

=============================================================================
