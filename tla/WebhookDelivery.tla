--------------------------- MODULE WebhookDelivery ---------------------------
(***************************************************************************)
(* An event on its way to the webhook of a project: published to Celery    *)
(* by the request that triggers it or, when that fails, stored as a        *)
(* WebhookPendingTask row; published by a sweep over these rows, which     *)
(* retries and finally gives up; sent and logged by a Celery worker.       *)
(*                                                                         *)
(* Nothing locks a row of pending tasks, the broker may go away at any     *)
(* time and may keep a message whose publication it did not confirm, and   *)
(* sweeps and workers die between any two steps.                           *)
(*                                                                         *)
(* The service sends to every webhook of the project apart from the        *)
(* others, so one of them is modelled.                                     *)
(***************************************************************************)
EXTENDS Integers, FiniteSets, Totals

CONSTANTS
    Events,      \* the events of a behaviour, numbered from 1
    Sweepers,    \* processes that run process_pending_webhook_tasks
    Workers,     \* Celery workers of the default queue
    MaxRetries,  \* len(retry_delays), 7 in the code
    Wired,       \* the sweepers have services and an application context
    MaxFaults,   \* bound: how often something fails or two sweeps share a task
    Threads,     \* bound: how many sweepers and workers are busy at once
    Copies,      \* bound: an event with so many messages is not swept again
    NoEvent      \* no event

ASSUME NumbersAssumption == {MaxRetries, MaxFaults, Threads, Copies} \subseteq Nat
ASSUME WiredAssumption == Wired \in BOOLEAN
ASSUME EventsAssumption == Events \subseteq Nat \ {NoEvent}
ASSUME ProcessesAssumption == IsFiniteSet(Sweepers) /\ IsFiniteSet(Workers)

VARIABLES
    broker,    \* the broker can be reached
    hook,      \* the Webhook row is there
    asked,     \* the events that were triggered
    task,      \* the WebhookPendingTask rows
    queue,     \* how many messages about an event wait in the broker
    sweeper,   \* progress of every sweep
    worker,    \* progress of every worker
    counted,   \* Webhook.success_count + Webhook.failure_count
    logs,      \* how many WebhookLog rows there are
    faults,    \* how much has failed
    sends,     \* history: how many tasks have sent an event
    troubles,  \* history: publications and commits of an event's sweeps that failed
    excused    \* history: what explains an event that is lost, doubled or given up

vars == <<broker, hook, asked, task, queue, sweeper, worker, counted, logs, faults, sends,
          troubles, excused>>

-----------------------------------------------------------------------------
Statuses == {"none", "pending", "processing", "completed", "failed", "removed"}

Task == [status : Statuses, retries : Nat]

Sweeper == [pc : {"idle", "each", "queued", "refused", "error"},
            batch : SUBSET Events,          \* the tasks still to be processed
            event : Events \cup {NoEvent},  \* of the task in hand
            seen : Nat,                     \* its retry_count as loaded
            broken : BOOLEAN]               \* the session needs a rollback

Worker == [pc : {"idle", "sent", "loaded", "logged"},
           event : Events \cup {NoEvent},
           seen : Nat]                      \* the counters as loaded

Swept == [pc |-> "idle", batch |-> {}, event |-> NoEvent, seen |-> 0, broken |-> FALSE]
Unemployed == [pc |-> "idle", event |-> NoEvent, seen |-> 0]

Busy == {s \in Sweepers : sweeper[s].pc # "idle"} \cup {w \in Workers : worker[w].pc # "idle"}
MayStart == Cardinality(Busy) < Threads

WaitingUntouched == {e \in Events : task[e].status = "pending"}

Waiting == {e \in Events : task[e].status \in {"pending", "processing"}}

Fault == faults < MaxFaults /\ faults' = faults + 1

\* A second message about these events may be on its way.
Doubled(es) == excused' = [excused EXCEPT !.doubled = @ \cup es]

GivesUp(e) == excused' = [excused EXCEPT !.givenUp = @ \cup {e}]

\* bound: what failed is not counted beyond MaxRetries + 1.
Trouble(e) == troubles' = [troubles EXCEPT ![e] = IF @ > MaxRetries THEN @ ELSE @ + 1]

Published(e) == queue' = [queue EXCEPT ![e] = @ + 1]

-----------------------------------------------------------------------------
(* trigger_webhook, in the request that the event is about.                *)

Asks(e) == hook /\ e = Cardinality(asked) + 1 /\ asked' = asked \cup {e}

TriggerQueued(e) ==
    /\ Asks(e) /\ broker /\ Published(e)
    /\ UNCHANGED <<broker, hook, task, sweeper, worker, counted, logs, faults, sends,
                   troubles, excused>>

\* delay() raises, and the broker may have the message all the same.
Refuses(e) ==
    \/ ~broker /\ UNCHANGED <<queue, faults, excused>>
    \/ broker /\ Fault /\ Published(e) /\ Doubled({e})

TriggerStored(e) ==
    /\ Asks(e) /\ Refuses(e)
    /\ task' = [task EXCEPT ![e] = [status |-> "pending", retries |-> 0]]
    /\ UNCHANGED <<broker, hook, sweeper, worker, counted, logs, sends, troubles>>

\* The insert fails, or the request dies before it; trigger_webhook returns True.
TriggerLost(e) ==
    /\ Asks(e) /\ ~broker /\ Fault
    /\ excused' = [excused EXCEPT !.lost = @ \cup {e}]
    /\ UNCHANGED <<broker, hook, task, queue, sweeper, worker, counted, logs, sends, troubles>>

-----------------------------------------------------------------------------
(* process_pending_webhook_tasks, in a session of its own.  Every step     *)
(* ends in a commit or a rollback; a batch of 50 holds every task.         *)

Unswept == <<broker, hook, asked, worker, counted, logs, sends>>

Handling(s, pc) == sweeper[s].pc = pc
InHand(s) == sweeper[s].event

Step(s, pc) == sweeper' = [sweeper EXCEPT ![s].pc = pc]

\* The loop goes on to the next task, or ends.
NextTask(s, broken) ==
    LET rest == sweeper[s].batch \ {InHand(s)} IN
    sweeper' = [sweeper EXCEPT ![s] = IF rest = {} THEN Swept
                                      ELSE [Swept EXCEPT !.pc = "each", !.batch = rest,
                                                         !.broken = broken]]

\* The tasks are those whose next_retry_at has passed.
Select(s, tasks) ==
    LET shared == tasks \cap UNION {sweeper[t].batch : t \in Sweepers \ {s}} IN
    /\ Wired /\ MayStart /\ Handling(s, "idle")
    /\ tasks \subseteq Waiting /\ tasks # {}
    /\ \A e \in tasks : sends[e] + queue[e] < Copies
    /\ sweeper' = [sweeper EXCEPT ![s] = [Swept EXCEPT !.pc = "each", !.batch = tasks]]
    /\ Doubled(shared)
    /\ faults + Cardinality(shared) <= MaxFaults /\ faults' = faults + Cardinality(shared)
    /\ UNCHANGED <<task, queue, troubles>>

TakeCompleting(s, e) ==
    /\ Handling(s, "each") /\ e \in sweeper[s].batch /\ ~sweeper[s].broken
    /\ task' = [task EXCEPT ![e].status = "completed"]

\* The task is marked, the mark committed, and the row loaded again.
Take(s, e) ==
    /\ Handling(s, "each") /\ e \in sweeper[s].batch /\ ~sweeper[s].broken
    /\ task' = [task EXCEPT ![e].status = "processing"]

Publish(s, e) ==
    /\ Take(s, e) /\ broker /\ Published(e)
    /\ sweeper' = [sweeper EXCEPT ![s].pc = "queued", ![s].event = e]
    /\ UNCHANGED <<faults, troubles, excused>>

PublishFails(s, e) ==
    /\ Take(s, e) /\ Refuses(e) /\ Trouble(e)
    /\ sweeper' = [sweeper EXCEPT ![s].pc = "refused", ![s].event = e,
                                  ![s].seen = task[e].retries]

\* Nothing is committed in a session whose last commit failed.
TakeFails(s, e) ==
    /\ Handling(s, "each") /\ e \in sweeper[s].batch
    /\ IF sweeper[s].broken THEN UNCHANGED faults ELSE Fault
    /\ sweeper' = [sweeper EXCEPT ![s].pc = "error", ![s].event = e, ![s].broken = FALSE]
    /\ Trouble(e)
    /\ UNCHANGED <<task, queue, excused>>

CompleteUnmarked(s) ==
    /\ Handling(s, "queued") /\ NextTask(s, FALSE)
    /\ UNCHANGED <<task, queue, faults, troubles, excused>>

Complete(s) ==
    /\ Handling(s, "queued")
    /\ task' = [task EXCEPT ![InHand(s)].status = "completed"]
    /\ NextTask(s, FALSE)
    /\ UNCHANGED <<queue, faults, troubles, excused>>

\* The except clause of delay() also catches the commit; its session is of no use.
CompleteFails(s) ==
    /\ Handling(s, "queued") /\ Fault
    /\ Doubled({InHand(s)}) /\ Trouble(InHand(s)) /\ Step(s, "error")
    /\ UNCHANGED <<task, queue>>

RetryDown(s) ==
    /\ Handling(s, "refused") /\ sweeper[s].seen < MaxRetries
    /\ task' = [task EXCEPT ![InHand(s)] = [status |-> "pending", retries |-> sweeper[s].seen - 1]]
    /\ NextTask(s, FALSE)
    /\ UNCHANGED <<queue, faults, troubles, excused>>

Retry(s) ==
    /\ Handling(s, "refused") /\ sweeper[s].seen < MaxRetries
    /\ task' = [task EXCEPT ![InHand(s)] = [status |-> "pending", retries |-> sweeper[s].seen + 1]]
    /\ NextTask(s, FALSE)
    /\ UNCHANGED <<queue, faults, troubles, excused>>

GiveUpEarly(s) ==
    /\ Handling(s, "refused") /\ sweeper[s].seen + 1 >= MaxRetries
    /\ task' = [task EXCEPT ![InHand(s)].status = "failed"]
    /\ GivesUp(InHand(s)) /\ NextTask(s, FALSE)
    /\ UNCHANGED <<queue, faults, troubles>>

GiveUp(s) ==
    /\ Handling(s, "refused") /\ sweeper[s].seen >= MaxRetries
    /\ task' = [task EXCEPT ![InHand(s)].status = "failed"]
    /\ GivesUp(InHand(s)) /\ NextTask(s, FALSE)
    /\ UNCHANGED <<queue, faults, troubles>>

WriteFails(s) ==
    /\ Handling(s, "refused") /\ Fault /\ Trouble(InHand(s)) /\ Step(s, "error")
    /\ UNCHANGED <<task, queue, excused>>

\* After the rollback the row is loaded again.
Postpone(s) ==
    /\ Handling(s, "error")
    /\ task' = [task EXCEPT ![InHand(s)] = [status |-> "pending", retries |-> @.retries + 1]]
    /\ NextTask(s, FALSE)
    /\ UNCHANGED <<queue, faults, troubles, excused>>

\* What failed fails again; this time nothing is rolled back.
PostponeFails(s) ==
    /\ Handling(s, "error") /\ NextTask(s, TRUE)
    /\ UNCHANGED <<task, queue, faults, troubles, excused>>

SweeperDies(s) ==
    /\ ~Handling(s, "idle") /\ Fault
    /\ sweeper' = [sweeper EXCEPT ![s] = Swept]
    /\ Doubled(IF Handling(s, "queued") THEN {InHand(s)} ELSE {})
    /\ UNCHANGED <<task, queue, troubles>>

Sweep(s) ==
    /\ \/ \E tasks \in SUBSET Events : Select(s, tasks)
       \/ \E e \in Events : Publish(s, e) \/ PublishFails(s, e) \/ TakeFails(s, e)
       \/ Complete(s) \/ CompleteFails(s)
       \/ Retry(s) \/ GiveUp(s) \/ WriteFails(s)
       \/ Postpone(s) \/ PostponeFails(s)
    /\ UNCHANGED Unswept

\* cleanup_old_pending_tasks, a week later.
CleanUp(e) ==
    /\ Wired /\ task[e].status \in {"completed", "failed"}
    /\ \A s \in Sweepers : e \notin sweeper[s].batch
    /\ task' = [task EXCEPT ![e].status = "removed"]
    /\ UNCHANGED <<queue, sweeper, faults, troubles, excused, Unswept>>

-----------------------------------------------------------------------------
(* process_webhook.  The message is acknowledged after the task; up to     *)
(* three attempts to send make one step.                                   *)

Unworked == <<broker, hook, asked, task, sweeper, troubles>>

At(w, pc) == worker[w].pc = pc
Event(w) == worker[w].event
Goto(w, pc) == worker' = [worker EXCEPT ![w].pc = pc]

Send(w, e) ==
    /\ MayStart /\ broker /\ At(w, "idle") /\ queue[e] > 0
    /\ queue' = [queue EXCEPT ![e] = @ - 1]
    /\ worker' = [worker EXCEPT ![w] = [Unemployed EXCEPT !.pc = "sent", !.event = e]]
    /\ sends' = [sends EXCEPT ![e] = @ + 1]
    /\ UNCHANGED <<counted, logs, faults, excused>>

\* The log row is inserted, and the webhook loaded.
LoadHook(w) ==
    /\ At(w, "sent") /\ hook
    /\ worker' = [worker EXCEPT ![w].pc = "loaded", ![w].seen = counted]
    /\ excused' = [excused EXCEPT !.raced = @ \/ \E v \in Workers : At(v, "loaded")]
    /\ UNCHANGED <<queue, counted, logs, faults, sends>>

Record(w) ==
    /\ At(w, "loaded")
    /\ counted' = worker[w].seen + 1 /\ logs' = logs + 1
    /\ Goto(w, "logged")
    /\ UNCHANGED <<queue, faults, sends, excused>>

RecordFailsCounting(w) ==
    /\ At(w, "loaded") /\ Fault
    /\ counted' = counted + 1
    /\ Goto(w, "logged")
    /\ UNCHANGED <<queue, logs, sends, excused>>

\* Without the webhook the log row violates its foreign key.
RecordFails(w) ==
    /\ \/ At(w, "sent") /\ ~hook /\ UNCHANGED faults
       \/ (At(w, "sent") \/ At(w, "loaded")) /\ Fault
    /\ Goto(w, "logged")
    /\ UNCHANGED <<queue, counted, logs, sends, excused>>

Acknowledge(w) ==
    /\ broker /\ At(w, "logged")
    /\ worker' = [worker EXCEPT ![w] = Unemployed]
    /\ UNCHANGED <<queue, counted, logs, faults, sends, excused>>

\* The broker delivers again what was not acknowledged.
Redelivered(w) ==
    /\ Published(Event(w))
    /\ Doubled({Event(w)})
    /\ worker' = [worker EXCEPT ![w] = Unemployed]
    /\ UNCHANGED <<counted, logs, sends>>

AcknowledgeFails(w) == ~broker /\ At(w, "logged") /\ Redelivered(w) /\ UNCHANGED faults

WorkerLost(w) == ~At(w, "idle") /\ Fault /\ Redelivered(w)

Work(w) ==
    /\ \/ \E e \in Events : Send(w, e)
       \/ LoadHook(w) \/ Record(w) \/ RecordFails(w)
       \/ Acknowledge(w) \/ AcknowledgeFails(w)
    /\ UNCHANGED Unworked

-----------------------------------------------------------------------------
(* The rest of the system.                                                 *)

BrokerFails ==
    /\ broker /\ Fault /\ broker' = FALSE
    /\ UNCHANGED <<hook, asked, task, queue, sweeper, worker, counted, logs, sends, troubles,
                   excused>>

BrokerReturns ==
    /\ ~broker /\ broker' = TRUE
    /\ UNCHANGED <<hook, asked, task, queue, sweeper, worker, counted, logs, faults, sends,
                   troubles, excused>>

\* The logs are deleted first; a pending task would lose its webhook_id, which
\* cannot be NULL, so that the deletion fails.  An open insert of a log row
\* makes it wait.
DeleteHook ==
    /\ hook /\ hook' = FALSE
    /\ \A e \in Events : task[e].status \in {"none", "removed"}
    /\ \A w \in Workers : ~At(w, "loaded")
    /\ counted' = 0 /\ logs' = 0
    /\ UNCHANGED <<broker, asked, task, queue, sweeper, worker, faults, sends, troubles, excused>>

Init ==
    /\ broker \in BOOLEAN /\ hook = TRUE /\ asked = {}
    /\ task = [e \in Events |-> [status |-> "none", retries |-> 0]]
    /\ queue = [e \in Events |-> 0]
    /\ sweeper = [s \in Sweepers |-> Swept]
    /\ worker = [w \in Workers |-> Unemployed]
    /\ counted = 0 /\ logs = 0 /\ faults = 0
    /\ sends = [e \in Events |-> 0]
    /\ troubles = [e \in Events |-> 0]
    /\ excused = [lost |-> {}, doubled |-> {}, givenUp |-> {}, raced |-> FALSE]

Trigger(e) == TriggerQueued(e) \/ TriggerStored(e) \/ TriggerLost(e)

Dies == (\E s \in Sweepers : SweeperDies(s) /\ UNCHANGED Unswept)
        \/ (\E w \in Workers : WorkerLost(w) /\ UNCHANGED Unworked)

\* Nothing is left to do.
Quiet ==
    /\ (hook => asked = Events) /\ Busy = {} /\ Waiting = {} /\ \A e \in Events : queue[e] = 0
    /\ UNCHANGED vars

Next ==
    \/ \E e \in Events : Trigger(e) \/ CleanUp(e)
    \/ \E s \in Sweepers : Sweep(s)
    \/ \E w \in Workers : Work(w)
    \/ Dies \/ BrokerFails \/ BrokerReturns \/ DeleteHook
    \/ Quiet

Spec == Init /\ [][Next]_vars

\* The schedule runs every five minutes, workers run, and an outage
\* of the broker ends.
FairSpec ==
    /\ Spec /\ WF_vars(BrokerReturns)
    /\ \A s \in Sweepers : WF_vars(Sweep(s))
    /\ \A w \in Workers : WF_vars(Work(w))

-----------------------------------------------------------------------------
(* Properties.                                                             *)

\* Every variable keeps its type.
TypeOK ==
    /\ broker \in BOOLEAN /\ hook \in BOOLEAN /\ asked \subseteq Events
    /\ task \in [Events -> Task]
    /\ queue \in [Events -> Nat]
    /\ sweeper \in [Sweepers -> Sweeper]
    /\ worker \in [Workers -> Worker]
    /\ counted \in Nat /\ logs \in Nat /\ faults \in 0 .. MaxFaults
    /\ sends \in [Events -> Nat]
    /\ troubles \in [Events -> 0 .. MaxRetries + 1]
    /\ excused \in [lost : SUBSET Events, doubled : SUBSET Events,
                    givenUp : SUBSET Events, raced : BOOLEAN]

\* Whoever dies and whatever fails, a triggered event that was not sent yet is in
\* the broker, with a worker or in a row that a sweep will take, unless the request
\* could not store it or a sweep gave it up.
EventsAreHeld ==
    \A e \in asked :
        \/ sends[e] > 0 \/ queue[e] > 0 \/ e \in excused.lost \cup excused.givenUp
        \/ \E w \in Workers : Event(w) = e
        \/ task[e].status \in {"pending", "processing"}

\* An event is sent by two tasks only if two sweeps had its row at once, a
\* publication was taken for a failure, or a process died or lost the broker
\* between an effect and the note of it.
SentTwiceNeedsCause ==
    \A e \in Events : sends[e] > 1 => e \in excused.doubled

\* A sweep gives an event up only after more than MaxRetries failures of its own
\* or of other sweeps, although sweeps overwrite each other's retry_count.
GivenUpAfterRetries ==
    \A e \in excused.givenUp : troubles[e] > MaxRetries

\* The counters of the webhook are the number of its log rows, but for workers that
\* loaded the webhook at the same time, which can only lose counts.
CountersAgree ==
    /\ counted <= logs
    /\ ~excused.raced => counted = logs

\* The counters agree with the log rows, and no task has logged that has not sent.
CountersFollowLogs ==
    /\ CountersAgree
    /\ logs <= Total([e \in asked |-> sends[e]])

\* Every triggered event is sent at last, unless it was lost or given up.
EventsSettle ==
    \A e \in Events :
        (e \in asked) ~> (sends[e] > 0 \/ e \in excused.lost \cup excused.givenUp)
=============================================================================
