------------------------ MODULE WebhookDeliveryProofs ------------------------
(***************************************************************************)
(* Proofs about WebhookDelivery, for any number of events, sweeps, workers *)
(* and faults, and any number of retries.                                  *)
(***************************************************************************)
EXTENDS WebhookDelivery, TotalsProofs, FiniteSetTheorems, TLAPS

-----------------------------------------------------------------------------
(* The inductive invariant.                                                *)

Messages(e) == sends[e] + queue[e]

\* Events are numbered in the order in which they are triggered, so that the next
\* one is new.
AskedInOrder == \E n \in Nat : asked = 1 .. n

\* A sweep holds the rows of events that were triggered, one of them in hand.
SweepInOrder(s) ==
    LET p == sweeper[s] IN
    /\ p.batch \subseteq asked
    /\ p.pc = "idle" => p.batch = {}
    /\ p.pc \in {"queued", "refused", "error"} => p.event \in p.batch
    /\ p.pc = "queued" => Messages(p.event) > 0

WorkerInOrder(w) ==
    worker[w].pc # "idle" => worker[w].event \in asked /\ sends[worker[w].event] > 0

Untriggered(e) == task[e].status = "none" /\ Messages(e) = 0

\* Where a triggered event is.
Held(e) ==
    \/ Messages(e) > 0 \/ e \in excused.lost \cup excused.givenUp
    \/ task[e].status \in {"pending", "processing"}

\* The sweeps that will count one more failure of the event, and those that did.
Failed(e) == {s \in Sweepers : sweeper[s].pc = "error" /\ sweeper[s].event = e}

Counted(retries, e) ==
    troubles[e] > MaxRetries \/ retries + Cardinality(Failed(e)) <= troubles[e]

RetriesAreTroubles(e) ==
    /\ Counted(task[e].retries, e)
    /\ \A s \in Sweepers :
          sweeper[s].pc = "refused" /\ sweeper[s].event = e => Counted(sweeper[s].seen + 1, e)

\* Without an excuse there is one message, or one row that at most one sweep holds.
InBatch(s, e) == e \in sweeper[s].batch

IsQueued(s, e) == sweeper[s].pc = "queued" /\ sweeper[s].event = e

OneMessage(e) ==
    /\ Messages(e) <= 1
    /\ \A s, t \in Sweepers : InBatch(s, e) /\ InBatch(t, e) => s = t
    /\ \A s \in Sweepers : InBatch(s, e) =>
          /\ task[e].status \in {"pending", "processing"}
          /\ IsQueued(s, e) \/ Messages(e) = 0
    /\ task[e].status \in {"pending", "processing"} =>
          Messages(e) = 0 \/ \E s \in Sweepers : InBatch(s, e)

\* What a worker loaded is not more than was logged, and is the latest unless
\* another worker had loaded it too.
Loaded(w) == worker[w].pc = "loaded"

CountersInOrder ==
    /\ counted <= logs
    /\ \A w \in Workers : Loaded(w) => worker[w].seen <= logs
    /\ ~excused.raced => /\ counted = logs
                         /\ \A w \in Workers : Loaded(w) => worker[w].seen = counted
                         /\ \A v, w \in Workers : Loaded(v) /\ Loaded(w) => v = w

\* A task that has sent and not yet logged will log at most once.
Unlogged == {w \in Workers : worker[w].pc \in {"sent", "loaded"}}

Attempts == [e \in asked |-> sends[e]]

LogsInOrder == logs + Cardinality(Unlogged) <= Total(Attempts)

EventsInOrder ==
    /\ \A s \in Sweepers : SweepInOrder(s)
    /\ \A w \in Workers : WorkerInOrder(w)
    /\ \A e \in Events \ asked : Untriggered(e)
    /\ \A e \in asked : Held(e)

RetriesInOrder ==
    /\ \A e \in Events : RetriesAreTroubles(e)
    /\ GivenUpAfterRetries

MessagesInOrder == \A e \in Events \ excused.doubled : OneMessage(e)

IInv ==
    /\ TypeOK /\ AskedInOrder
    /\ EventsInOrder /\ RetriesInOrder /\ MessagesInOrder /\ CountersInOrder /\ LogsInOrder

-----------------------------------------------------------------------------
(* What the operators of the model do, field by field.                     *)

Excused == [lost : SUBSET Events, doubled : SUBSET Events, givenUp : SUBSET Events,
            raced : BOOLEAN]

\* Published adds one message about the event.
LEMMA Publishing ==
    ASSUME TypeOK, NEW e \in Events, Published(e)
    PROVE  /\ queue' \in [Events -> Nat] /\ queue'[e] = queue[e] + 1
           /\ \A f \in Events \ {e} : queue'[f] = queue[f]
BY DEF TypeOK, Published

\* Doubled excuses the events for a second message, and nothing else.
LEMMA Doubling ==
    ASSUME TypeOK, NEW es \in SUBSET Events, Doubled(es)
    PROVE  /\ excused' \in Excused /\ excused'.doubled = excused.doubled \cup es
           /\ excused'.lost = excused.lost /\ excused'.givenUp = excused.givenUp
           /\ excused'.raced = excused.raced
BY DEF TypeOK, Doubled, Excused

\* GivesUp excuses the event from being sent, and nothing else.
LEMMA GivingUp ==
    ASSUME TypeOK, NEW e \in Events, GivesUp(e)
    PROVE  /\ excused' \in Excused /\ excused'.givenUp = excused.givenUp \cup {e}
           /\ excused'.lost = excused.lost /\ excused'.doubled = excused.doubled
           /\ excused'.raced = excused.raced
BY DEF TypeOK, GivesUp, Excused

\* Trouble counts one failure more, up to MaxRetries + 1.
LEMMA Troubling ==
    ASSUME TypeOK, NEW e \in Events, Trouble(e)
    PROVE  /\ troubles' \in [Events -> 0 .. MaxRetries + 1]
           /\ troubles'[e] > MaxRetries \/ troubles'[e] = troubles[e] + 1
           /\ troubles'[e] >= troubles[e]
           /\ \A f \in Events \ {e} : troubles'[f] = troubles[f]
BY NumbersAssumption DEF TypeOK, Trouble

\* A fault is one of MaxFaults.
LEMMA Faulting ==
    ASSUME TypeOK, Fault
    PROVE  faults' \in 0 .. MaxFaults
BY NumbersAssumption DEF TypeOK, Fault

\* A step of one sweep.
Alone(s) ==
    /\ sweeper' \in [Sweepers -> Sweeper]
    /\ \A t \in Sweepers \ {s} : sweeper'[t] = sweeper[t]

\* A sweep that has not begun, or that has ended.
LEMMA SweptTyped == Swept \in Sweeper /\ Swept.pc = "idle" /\ Swept.batch = {}
                    /\ Swept.event = NoEvent /\ Swept.seen = 0 /\ ~Swept.broken
BY DEF Swept, Sweeper

\* NextTask lets go of the task in hand and of no other.
LEMMA Ending ==
    ASSUME TypeOK, NEW s \in Sweepers, NEW broken \in BOOLEAN, NextTask(s, broken)
    PROVE  /\ Alone(s) /\ sweeper'[s].pc \in {"idle", "each"}
           /\ sweeper'[s].batch = sweeper[s].batch \ {sweeper[s].event}
           /\ sweeper'[s].pc = "idle" => sweeper'[s].batch = {}
<1> DEFINE rest == sweeper[s].batch \ {InHand(s)}
           new == [Swept EXCEPT !.pc = "each", !.batch = rest, !.broken = broken]
<1>1. rest \in SUBSET Events
  BY DEF TypeOK, Sweeper
<1>2. new \in Sweeper /\ new.pc = "each" /\ new.batch = rest
  BY <1>1, SweptTyped DEF Swept, Sweeper
<1> DEFINE next == IF rest = {} THEN Swept ELSE new
<1>3. next \in Sweeper /\ next.pc \in {"idle", "each"} /\ next.batch = rest
      /\ (next.pc = "idle" => next.batch = {})
  BY <1>2, SweptTyped
<1>4. sweeper' = [sweeper EXCEPT ![s] = next]
  BY DEF NextTask
<1>5. rest = sweeper[s].batch \ {sweeper[s].event}
  BY DEF InHand
<1> HIDE DEF next, rest
<1> QED
  BY <1>3, <1>4, <1>5 DEF Alone, TypeOK

\* Step moves a sweep on, its task in hand.
LEMMA Stepping ==
    ASSUME TypeOK, NEW s \in Sweepers, Step(s, "error")
    PROVE  /\ Alone(s) /\ sweeper'[s].pc = "error" /\ sweeper'[s].batch = sweeper[s].batch
           /\ sweeper'[s].event = sweeper[s].event
<1> DEFINE new == [sweeper[s] EXCEPT !.pc = "error"]
<1>1. sweeper' = [sweeper EXCEPT ![s] = new]
  BY DEF Step, TypeOK
<1>2. /\ new \in Sweeper /\ new.pc = "error" /\ new.batch = sweeper[s].batch
      /\ new.event = sweeper[s].event
  BY DEF TypeOK, Sweeper
<1> HIDE DEF new
<1> QED
  BY <1>1, <1>2 DEF TypeOK, Alone

\* Writing one field of one row leaves the rest of the table alone.
LEMMA Marking ==
    ASSUME TypeOK, NEW e \in Events, NEW status \in Statuses,
           task' = [task EXCEPT ![e].status = status]
    PROVE  /\ task' \in [Events -> Task] /\ task'[e].status = status
           /\ task'[e].retries = task[e].retries
           /\ \A f \in Events \ {e} : task'[f] = task[f]
BY DEF TypeOK, Task

LEMMA Putting ==
    ASSUME TypeOK, NEW e \in Events, NEW n \in Nat,
           task' = [task EXCEPT ![e] = [status |-> "pending", retries |-> n]]
    PROVE  /\ task' \in [Events -> Task] /\ task'[e].status = "pending"
           /\ task'[e].retries = n
           /\ \A f \in Events \ {e} : task'[f] = task[f]
BY DEF TypeOK, Task, Statuses

\* A refusal leaves the event as it is, or its message is excused.
LEMMA Refusing ==
    ASSUME TypeOK, NEW e \in Events, Refuses(e)
    PROVE  /\ queue' \in [Events -> Nat] /\ faults' \in 0 .. MaxFaults /\ excused' \in Excused
           /\ excused'.lost = excused.lost /\ excused'.givenUp = excused.givenUp
           /\ excused'.raced = excused.raced
           /\ excused.doubled \subseteq excused'.doubled
           /\ \A f \in Events \ {e} : queue'[f] = queue[f]
           /\ \/ queue'[e] = queue[e]
              \/ queue'[e] = queue[e] + 1 /\ e \in excused'.doubled
<1>1. CASE ~broker /\ UNCHANGED <<queue, faults, excused>>
  BY <1>1 DEF TypeOK, Excused
<1>2. CASE broker /\ Fault /\ Published(e) /\ Doubled({e})
  BY <1>2, Publishing, Doubling, Faulting
<1> QED
  BY <1>1, <1>2 DEF Refuses

-----------------------------------------------------------------------------
(* What the steps of a sweep do, field by field.                           *)

\* The events that were triggered are finitely many, and the next one is new.
LEMMA AskedIsFinite ==
    ASSUME AskedInOrder
    PROVE  /\ IsFiniteSet(asked)
           /\ Cardinality(asked) + 1 \notin asked
<1>1. PICK n \in Nat : asked = 1 .. n
  BY DEF AskedInOrder
<1>2. IsFiniteSet(1 .. n) /\ Cardinality(1 .. n) = n
  BY FS_Interval
<1> QED
  BY <1>1, <1>2

\* An event with a waiting row was triggered.
LEMMA WaitingIsAsked ==
    ASSUME EventsInOrder
    PROVE  Waiting \subseteq asked
BY DEF EventsInOrder, Untriggered, Waiting

\* A sweep with a task in hand has it in its batch.
LEMMA TaskInHand ==
    ASSUME TypeOK, EventsInOrder, NEW s \in Sweepers,
           sweeper[s].pc \in {"queued", "refused", "error"}
    PROVE  /\ sweeper[s].event \in sweeper[s].batch /\ sweeper[s].event \in asked
           /\ sweeper[s].event \in Events
BY DEF TypeOK, EventsInOrder, SweepInOrder

\* What a step of a sweep leaves the shared state with.
SweepTyped(s) ==
    /\ Alone(s)
    /\ task' \in [Events -> Task] /\ queue' \in [Events -> Nat]
    /\ faults' \in 0 .. MaxFaults
    /\ troubles' \in [Events -> 0 .. MaxRetries + 1] /\ excused' \in Excused

SameRows == task' = task
SameMessages == queue' = queue
SameTroubles == troubles' = troubles
NoLoss == excused'.lost = excused.lost /\ excused'.raced = excused.raced
OneRow(e) == \A f \in Events \ {e} : task'[f] = task[f]
OneTrouble(e) ==
    /\ troubles'[e] > MaxRetries \/ troubles'[e] = troubles[e] + 1
    /\ \A f \in Events \ {e} : troubles'[f] = troubles[f]

\* Select takes a batch, and excuses the tasks another sweep has.
SelectDoes(s, tasks) ==
    /\ sweeper[s].pc = "idle" /\ sweeper'[s].pc = "each" /\ sweeper'[s].batch = tasks
    /\ tasks \subseteq Waiting
    /\ SameRows /\ SameMessages /\ SameTroubles /\ NoLoss
    /\ excused'.givenUp = excused.givenUp
    /\ excused.doubled \subseteq excused'.doubled
    /\ \A e \in tasks : \A t \in Sweepers \ {s} : InBatch(t, e) => e \in excused'.doubled

LEMMA Selecting ==
    ASSUME IInv, NEW s \in Sweepers, NEW tasks \in SUBSET Events, Select(s, tasks)
    PROVE  SweepTyped(s) /\ SelectDoes(s, tasks)
<1>1. TypeOK /\ AskedInOrder /\ EventsInOrder
  BY DEF IInv
<1> DEFINE shared == tasks \cap UNION {sweeper[t].batch : t \in Sweepers \ {s}}
           new == [Swept EXCEPT !.pc = "each", !.batch = tasks]
<1>2. tasks \subseteq Waiting /\ sweeper[s].pc = "idle"
  BY DEF Select, Handling
<1>3. shared \in SUBSET Events /\ Cardinality(shared) \in Nat
  BY <1>1, <1>2, AskedIsFinite, WaitingIsAsked, FS_Subset, FS_CardinalityType
<1>4. \A e \in tasks : \A t \in Sweepers \ {s} : InBatch(t, e) => e \in shared
  BY DEF InBatch
<1>5. new \in Sweeper /\ new.pc = "each" /\ new.batch = tasks
  BY SweptTyped DEF Swept, Sweeper
<1>6. sweeper' = [sweeper EXCEPT ![s] = new] /\ Doubled(shared)
      /\ faults + Cardinality(shared) <= MaxFaults /\ faults' = faults + Cardinality(shared)
      /\ task' = task /\ queue' = queue /\ troubles' = troubles
  BY DEF Select
<1> HIDE DEF shared, new
<1>7. Alone(s) /\ sweeper'[s] = new
  BY <1>1, <1>5, <1>6 DEF TypeOK, Alone
<1>8. faults' \in 0 .. MaxFaults
  BY <1>1, <1>3, <1>6, NumbersAssumption DEF TypeOK
<1>9. /\ excused' \in Excused /\ excused'.doubled = excused.doubled \cup shared
      /\ excused'.lost = excused.lost /\ excused'.givenUp = excused.givenUp
      /\ excused'.raced = excused.raced
  BY <1>1, <1>3, <1>6, Doubling
<1>10. SweepTyped(s)
  BY <1>1, <1>6, <1>7, <1>8, <1>9 DEF SweepTyped, TypeOK
<1>11. SelectDoes(s, tasks)
  BY <1>2, <1>4, <1>5, <1>6, <1>7, <1>9 DEF SelectDoes, SameRows, SameMessages, SameTroubles, NoLoss
<1> QED
  BY <1>10, <1>11

\* A sweep that publishes a task, or tries to, has it in hand.
TakeDoes(s, e) ==
    /\ sweeper[s].pc = "each" /\ e \in sweeper[s].batch
    /\ sweeper'[s].batch = sweeper[s].batch /\ sweeper'[s].event = e
    /\ OneRow(e)
    /\ task'[e].status = "processing" /\ task'[e].retries = task[e].retries
    /\ NoLoss /\ excused'.givenUp = excused.givenUp

PublishDoes(s, e) ==
    /\ TakeDoes(s, e) /\ sweeper'[s].pc = "queued"
    /\ queue'[e] = queue[e] + 1 /\ \A f \in Events \ {e} : queue'[f] = queue[f]
    /\ excused' = excused /\ SameTroubles

LEMMA PublishEffect ==
    ASSUME IInv, NEW s \in Sweepers, NEW e \in Events, Publish(s, e)
    PROVE  SweepTyped(s) /\ PublishDoes(s, e)
<1>1. TypeOK
  BY DEF IInv
<1>2. sweeper[s].pc = "each" /\ e \in sweeper[s].batch
      /\ task' = [task EXCEPT ![e].status = "processing"]
      /\ Published(e) /\ faults' = faults /\ troubles' = troubles /\ excused' = excused
  BY DEF Publish, Take, Handling
<1> DEFINE new == [sweeper[s] EXCEPT !.pc = "queued", !.event = e]
<1>3. sweeper' = [sweeper EXCEPT ![s] = new]
  BY <1>1 DEF Publish, TypeOK
<1>a. new \in Sweeper /\ new.pc = "queued" /\ new.event = e /\ new.batch = sweeper[s].batch
  BY <1>1 DEF TypeOK, Sweeper
<1> HIDE DEF new
<1>4. /\ Alone(s) /\ sweeper'[s].pc = "queued" /\ sweeper'[s].event = e
      /\ sweeper'[s].batch = sweeper[s].batch
  BY <1>1, <1>3, <1>a DEF TypeOK, Alone
<1>5. "processing" \in Statuses
  BY DEF Statuses
<1>6. /\ task' \in [Events -> Task] /\ task'[e].status = "processing"
      /\ task'[e].retries = task[e].retries /\ OneRow(e)
  BY <1>1, <1>2, <1>5, Marking DEF OneRow
<1>7. excused \in Excused /\ faults \in 0 .. MaxFaults
      /\ troubles \in [Events -> 0 .. MaxRetries + 1]
  BY <1>1 DEF TypeOK, Excused
<1> QED
  BY <1>1, <1>2, <1>4, <1>6, <1>7, Publishing
     DEF SweepTyped, PublishDoes, TakeDoes, SameTroubles, NoLoss

PublishFailsDoes(s, e) ==
    /\ TakeDoes(s, e) /\ sweeper'[s].pc = "refused" /\ sweeper'[s].seen = task[e].retries
    /\ \A f \in Events \ {e} : queue'[f] = queue[f]
    /\ queue'[e] = queue[e] \/ (queue'[e] = queue[e] + 1 /\ e \in excused'.doubled)
    /\ excused.doubled \subseteq excused'.doubled
    /\ OneTrouble(e)

LEMMA PublishFailsEffect ==
    ASSUME IInv, NEW s \in Sweepers, NEW e \in Events, PublishFails(s, e)
    PROVE  SweepTyped(s) /\ PublishFailsDoes(s, e)
<1>1. TypeOK
  BY DEF IInv
<1>2. sweeper[s].pc = "each" /\ e \in sweeper[s].batch
      /\ task' = [task EXCEPT ![e].status = "processing"]
      /\ Refuses(e) /\ Trouble(e)
  BY DEF PublishFails, Take, Handling
<1>3. sweeper' = [sweeper EXCEPT ![s].pc = "refused", ![s].event = e,
                                 ![s].seen = task[e].retries]
  BY DEF PublishFails
<1> DEFINE new == [sweeper[s] EXCEPT !.pc = "refused", !.event = e, !.seen = task[e].retries]
<1>a. sweeper' = [sweeper EXCEPT ![s] = new]
  BY <1>1, <1>3 DEF TypeOK
<1>b. task[e].retries \in Nat /\ sweeper[s] \in Sweeper
  BY <1>1 DEF TypeOK, Task
<1>c. /\ new \in Sweeper /\ new.pc = "refused" /\ new.event = e /\ new.seen = task[e].retries
      /\ new.batch = sweeper[s].batch
  BY <1>b DEF Sweeper
<1> HIDE DEF new
<1>4. /\ Alone(s) /\ sweeper'[s].pc = "refused" /\ sweeper'[s].event = e
      /\ sweeper'[s].batch = sweeper[s].batch /\ sweeper'[s].seen = task[e].retries
  BY <1>1, <1>a, <1>c DEF TypeOK, Alone
<1>5. "processing" \in Statuses
  BY DEF Statuses
<1>6. /\ task' \in [Events -> Task] /\ task'[e].status = "processing"
      /\ task'[e].retries = task[e].retries /\ OneRow(e)
  BY <1>1, <1>2, <1>5, Marking DEF OneRow
<1>7. OneTrouble(e) /\ troubles' \in [Events -> 0 .. MaxRetries + 1]
  BY <1>1, <1>2, Troubling DEF OneTrouble
<1>8. /\ queue' \in [Events -> Nat] /\ faults' \in 0 .. MaxFaults /\ excused' \in Excused
      /\ excused'.lost = excused.lost /\ excused'.givenUp = excused.givenUp
      /\ excused'.raced = excused.raced
      /\ excused.doubled \subseteq excused'.doubled
      /\ \A f \in Events \ {e} : queue'[f] = queue[f]
      /\ \/ queue'[e] = queue[e]
         \/ queue'[e] = queue[e] + 1 /\ e \in excused'.doubled
  BY <1>1, <1>2, Refusing
<1>9. SweepTyped(s)
  BY <1>4, <1>6, <1>7, <1>8 DEF SweepTyped
<1>10. TakeDoes(s, e)
  BY <1>2, <1>4, <1>6, <1>8 DEF TakeDoes, NoLoss
<1>11. /\ \A f \in Events \ {e} : queue'[f] = queue[f]
       /\ queue'[e] = queue[e] \/ (queue'[e] = queue[e] + 1 /\ e \in excused'.doubled)
       /\ excused.doubled \subseteq excused'.doubled
  BY <1>8
<1>12. PublishFailsDoes(s, e)
  BY <1>4, <1>7, <1>10, <1>11 DEF PublishFailsDoes
<1> QED
  BY <1>9, <1>12

\* A step after which the task in hand has failed once more.
ErrorDoes(s, e) ==
    /\ e \in sweeper[s].batch /\ (sweeper[s].pc = "queued" => sweeper[s].event = e)
    /\ sweeper'[s].pc = "error" /\ sweeper'[s].event = e
    /\ sweeper'[s].batch = sweeper[s].batch
    /\ SameRows /\ SameMessages /\ OneTrouble(e) /\ NoLoss
    /\ excused'.givenUp = excused.givenUp
    /\ \/ excused'.doubled = excused.doubled /\ sweeper[s].pc # "queued"
       \/ excused'.doubled = excused.doubled \cup {e}

LEMMA TakeFailsEffect ==
    ASSUME IInv, NEW s \in Sweepers, NEW e \in Events, TakeFails(s, e)
    PROVE  SweepTyped(s) /\ ErrorDoes(s, e)
<1>1. TypeOK
  BY DEF IInv
<1>2. sweeper[s].pc = "each" /\ e \in sweeper[s].batch /\ Trouble(e)
      /\ task' = task /\ queue' = queue /\ excused' = excused
  BY DEF TakeFails, Handling
<1> DEFINE new == [sweeper[s] EXCEPT !.pc = "error", !.event = e, !.broken = FALSE]
<1>3. sweeper' = [sweeper EXCEPT ![s] = new]
  BY <1>1 DEF TakeFails, TypeOK, Sweeper
<1>a. new \in Sweeper /\ new.pc = "error" /\ new.event = e /\ new.batch = sweeper[s].batch
  BY <1>1 DEF TypeOK, Sweeper
<1> HIDE DEF new
<1>4. /\ Alone(s) /\ sweeper'[s].pc = "error" /\ sweeper'[s].event = e
      /\ sweeper'[s].batch = sweeper[s].batch
  BY <1>1, <1>3, <1>a DEF TypeOK, Alone
<1>5. faults' \in 0 .. MaxFaults
  <2>1. CASE sweeper[s].broken
    BY <1>1, <2>1 DEF TakeFails, TypeOK
  <2>2. CASE ~sweeper[s].broken
    BY <1>1, <2>2, Faulting DEF TakeFails
  <2> QED
    BY <2>1, <2>2
<1>6. OneTrouble(e) /\ troubles' \in [Events -> 0 .. MaxRetries + 1]
  BY <1>1, <1>2, Troubling DEF OneTrouble
<1>7. SweepTyped(s)
  BY <1>1, <1>2, <1>4, <1>5, <1>6 DEF SweepTyped, TypeOK, Excused
<1> QED
  BY <1>2, <1>4, <1>6, <1>7 DEF ErrorDoes, SameRows, SameMessages, NoLoss

LEMMA CompleteFailsEffect ==
    ASSUME IInv, NEW s \in Sweepers, CompleteFails(s)
    PROVE  SweepTyped(s) /\ ErrorDoes(s, sweeper[s].event)
<1>1. TypeOK /\ EventsInOrder
  BY DEF IInv
<1>2. sweeper[s].pc = "queued" /\ Fault /\ Doubled({sweeper[s].event})
      /\ Trouble(sweeper[s].event) /\ Step(s, "error") /\ task' = task /\ queue' = queue
  BY DEF CompleteFails, Handling, InHand
<1>3. sweeper[s].event \in Events /\ sweeper[s].event \in sweeper[s].batch
  BY <1>1, <1>2, TaskInHand
<1>4. /\ Alone(s) /\ sweeper'[s].pc = "error" /\ sweeper'[s].event = sweeper[s].event
      /\ sweeper'[s].batch = sweeper[s].batch
  BY <1>1, <1>2, Stepping
<1>5. OneTrouble(sweeper[s].event) /\ troubles' \in [Events -> 0 .. MaxRetries + 1]
  BY <1>1, <1>2, <1>3, Troubling DEF OneTrouble
<1>6. /\ excused' \in Excused /\ excused'.doubled = excused.doubled \cup {sweeper[s].event}
      /\ excused'.lost = excused.lost /\ excused'.givenUp = excused.givenUp
      /\ excused'.raced = excused.raced
  BY <1>1, <1>2, <1>3, Doubling
<1>7. faults' \in 0 .. MaxFaults
  BY <1>1, <1>2, Faulting
<1>8. SweepTyped(s)
  BY <1>1, <1>2, <1>4, <1>5, <1>6, <1>7 DEF SweepTyped, TypeOK
<1> QED
  BY <1>2, <1>3, <1>4, <1>5, <1>6, <1>8 DEF ErrorDoes, SameRows, SameMessages, NoLoss

LEMMA WriteFailsEffect ==
    ASSUME IInv, NEW s \in Sweepers, WriteFails(s)
    PROVE  SweepTyped(s) /\ ErrorDoes(s, sweeper[s].event)
<1>1. TypeOK /\ EventsInOrder
  BY DEF IInv
<1>2. sweeper[s].pc = "refused" /\ Fault /\ Trouble(sweeper[s].event)
      /\ Step(s, "error") /\ task' = task /\ queue' = queue /\ excused' = excused
  BY DEF WriteFails, Handling, InHand
<1>3. sweeper[s].event \in Events /\ sweeper[s].event \in sweeper[s].batch
  BY <1>1, <1>2, TaskInHand
<1>4. /\ Alone(s) /\ sweeper'[s].pc = "error" /\ sweeper'[s].event = sweeper[s].event
      /\ sweeper'[s].batch = sweeper[s].batch
  BY <1>1, <1>2, Stepping
<1>5. OneTrouble(sweeper[s].event) /\ troubles' \in [Events -> 0 .. MaxRetries + 1]
  BY <1>1, <1>2, <1>3, Troubling DEF OneTrouble
<1>6. faults' \in 0 .. MaxFaults
  BY <1>1, <1>2, Faulting
<1>7. SweepTyped(s)
  BY <1>1, <1>2, <1>4, <1>5, <1>6 DEF SweepTyped, TypeOK, Excused
<1> QED
  BY <1>2, <1>3, <1>4, <1>5, <1>7 DEF ErrorDoes, SameRows, SameMessages, NoLoss

\* A step that lets go of the task in hand.
LetGo(s, e) ==
    /\ e \in sweeper[s].batch /\ sweeper[s].event = e
    /\ sweeper'[s].pc \in {"idle", "each"} /\ sweeper'[s].batch = sweeper[s].batch \ {e}
    /\ sweeper'[s].pc = "idle" => sweeper'[s].batch = {}
    /\ OneRow(e)
    /\ SameMessages /\ SameTroubles /\ NoLoss
    /\ excused'.doubled = excused.doubled

LEMMA LettingGo ==
    ASSUME IInv, NEW s \in Sweepers, NEW broken \in BOOLEAN, NextTask(s, broken),
           sweeper[s].pc \in {"queued", "refused", "error"},
           task' \in [Events -> Task], OneRow(sweeper[s].event),
           queue' = queue, faults' = faults, troubles' = troubles, excused' \in Excused,
           NoLoss, excused'.doubled = excused.doubled
    PROVE  SweepTyped(s) /\ LetGo(s, sweeper[s].event)
<1>1. TypeOK /\ EventsInOrder
  BY DEF IInv
<1>2. sweeper[s].event \in Events /\ sweeper[s].event \in sweeper[s].batch
  BY <1>1, TaskInHand
<1>3. /\ Alone(s) /\ sweeper'[s].pc \in {"idle", "each"}
      /\ sweeper'[s].batch = sweeper[s].batch \ {sweeper[s].event}
      /\ sweeper'[s].pc = "idle" => sweeper'[s].batch = {}
  BY <1>1, Ending
<1>4. SweepTyped(s)
  BY <1>1, <1>3 DEF SweepTyped, TypeOK
<1> QED
  BY <1>2, <1>3, <1>4 DEF LetGo, SameMessages, SameTroubles

LEMMA CompleteEffect ==
    ASSUME IInv, NEW s \in Sweepers, Complete(s)
    PROVE  LET e == sweeper[s].event IN
           /\ SweepTyped(s) /\ LetGo(s, e) /\ sweeper[s].pc = "queued"
           /\ task'[e].status = "completed" /\ task'[e].retries = task[e].retries
           /\ excused'.givenUp = excused.givenUp
<1> DEFINE e == sweeper[s].event
<1>1. TypeOK /\ EventsInOrder
  BY DEF IInv
<1>2. sweeper[s].pc = "queued" /\ task' = [task EXCEPT ![e].status = "completed"]
      /\ NextTask(s, FALSE)
      /\ queue' = queue /\ faults' = faults /\ troubles' = troubles /\ excused' = excused
  BY DEF Complete, Handling, InHand
<1>3. e \in Events /\ "completed" \in Statuses
  BY <1>1, <1>2, TaskInHand DEF Statuses
<1> HIDE DEF e
<1>4. /\ task' \in [Events -> Task] /\ task'[e].status = "completed"
      /\ task'[e].retries = task[e].retries /\ OneRow(e)
  BY <1>1, <1>2, <1>3, Marking DEF OneRow
<1>5. excused' \in Excused /\ NoLoss /\ excused'.doubled = excused.doubled
  BY <1>1, <1>2 DEF TypeOK, Excused, NoLoss
<1>6. SweepTyped(s) /\ LetGo(s, e)
  BY <1>2, <1>4, <1>5, LettingGo DEF e
<1> QED
  BY <1>2, <1>4, <1>6 DEF e

LEMMA RetryEffect ==
    ASSUME IInv, NEW s \in Sweepers, Retry(s)
    PROVE  LET e == sweeper[s].event IN
           /\ SweepTyped(s) /\ LetGo(s, e) /\ sweeper[s].pc = "refused"
           /\ task'[e].status = "pending" /\ task'[e].retries = sweeper[s].seen + 1
           /\ excused'.givenUp = excused.givenUp
<1> DEFINE e == sweeper[s].event
           n == sweeper[s].seen + 1
<1>1. TypeOK /\ EventsInOrder
  BY DEF IInv
<1>2. sweeper[s].pc = "refused" /\ task' = [task EXCEPT ![e] = [status |-> "pending", retries |-> n]]
      /\ NextTask(s, FALSE)
      /\ queue' = queue /\ faults' = faults /\ troubles' = troubles /\ excused' = excused
  BY DEF Retry, Handling, InHand
<1>3. e \in Events /\ n \in Nat
  BY <1>1, <1>2, TaskInHand DEF TypeOK, Sweeper
<1> HIDE DEF e, n
<1>4. /\ task' \in [Events -> Task] /\ task'[e].status = "pending"
      /\ task'[e].retries = n /\ OneRow(e)
  BY <1>1, <1>2, <1>3, Putting DEF OneRow
<1>5. excused' \in Excused /\ NoLoss /\ excused'.doubled = excused.doubled
  BY <1>1, <1>2 DEF TypeOK, Excused, NoLoss
<1>6. SweepTyped(s) /\ LetGo(s, e)
  BY <1>2, <1>4, <1>5, LettingGo DEF e
<1> QED
  BY <1>2, <1>4, <1>6 DEF e, n

LEMMA GiveUpEffect ==
    ASSUME IInv, NEW s \in Sweepers, GiveUp(s)
    PROVE  LET e == sweeper[s].event IN
           /\ SweepTyped(s) /\ LetGo(s, e) /\ sweeper[s].pc = "refused"
           /\ sweeper[s].seen >= MaxRetries
           /\ task'[e].status = "failed" /\ task'[e].retries = task[e].retries
           /\ excused'.givenUp = excused.givenUp \cup {e}
<1> DEFINE e == sweeper[s].event
<1>1. TypeOK /\ EventsInOrder
  BY DEF IInv
<1>2. sweeper[s].pc = "refused" /\ task' = [task EXCEPT ![e].status = "failed"]
      /\ NextTask(s, FALSE) /\ GivesUp(e) /\ sweeper[s].seen >= MaxRetries
      /\ queue' = queue /\ faults' = faults /\ troubles' = troubles
  BY DEF GiveUp, Handling, InHand
<1>3. e \in Events /\ "failed" \in Statuses
  BY <1>1, <1>2, TaskInHand DEF Statuses
<1> HIDE DEF e
<1>4. /\ task' \in [Events -> Task] /\ task'[e].status = "failed"
      /\ task'[e].retries = task[e].retries /\ OneRow(e)
  BY <1>1, <1>2, <1>3, Marking DEF OneRow
<1>5. /\ excused' \in Excused /\ NoLoss /\ excused'.doubled = excused.doubled
      /\ excused'.givenUp = excused.givenUp \cup {e}
  BY <1>1, <1>2, <1>3, GivingUp DEF NoLoss
<1>6. SweepTyped(s) /\ LetGo(s, e)
  BY <1>2, <1>4, <1>5, LettingGo DEF e
<1> QED
  BY <1>2, <1>4, <1>5, <1>6 DEF e

LEMMA PostponeEffect ==
    ASSUME IInv, NEW s \in Sweepers, Postpone(s)
    PROVE  LET e == sweeper[s].event IN
           /\ SweepTyped(s) /\ LetGo(s, e) /\ sweeper[s].pc = "error"
           /\ task'[e].status = "pending" /\ task'[e].retries = task[e].retries + 1
           /\ excused'.givenUp = excused.givenUp
<1> DEFINE e == sweeper[s].event
           n == task[e].retries + 1
<1>1. TypeOK /\ EventsInOrder
  BY DEF IInv
<1>2. sweeper[s].pc = "error" /\ NextTask(s, FALSE)
      /\ queue' = queue /\ faults' = faults /\ troubles' = troubles /\ excused' = excused
  BY DEF Postpone, Handling
<1>3. e \in Events
  BY <1>1, <1>2, TaskInHand
<1>4. task' = [task EXCEPT ![e] = [status |-> "pending", retries |-> n]]
  BY <1>1, <1>3 DEF Postpone, InHand, TypeOK
<1>5. n \in Nat
  BY <1>1, <1>3 DEF TypeOK, Task
<1> HIDE DEF e, n
<1>6. /\ task' \in [Events -> Task] /\ task'[e].status = "pending"
      /\ task'[e].retries = n /\ OneRow(e)
  BY <1>1, <1>3, <1>4, <1>5, Putting DEF OneRow
<1>7. excused' \in Excused /\ NoLoss /\ excused'.doubled = excused.doubled
  BY <1>1, <1>2 DEF TypeOK, Excused, NoLoss
<1>8. SweepTyped(s) /\ LetGo(s, e)
  BY <1>2, <1>6, <1>7, LettingGo DEF e
<1> QED
  BY <1>2, <1>6, <1>8 DEF e, n

LEMMA PostponeFailsEffect ==
    ASSUME IInv, NEW s \in Sweepers, PostponeFails(s)
    PROVE  LET e == sweeper[s].event IN
           /\ SweepTyped(s) /\ LetGo(s, e) /\ sweeper[s].pc = "error"
           /\ SameRows /\ excused'.givenUp = excused.givenUp
<1> DEFINE e == sweeper[s].event
<1>1. TypeOK /\ EventsInOrder
  BY DEF IInv
<1>2. sweeper[s].pc = "error" /\ NextTask(s, TRUE) /\ task' = task
      /\ queue' = queue /\ faults' = faults /\ troubles' = troubles /\ excused' = excused
  BY DEF PostponeFails, Handling
<1>3. task' \in [Events -> Task] /\ OneRow(e)
  BY <1>1, <1>2 DEF TypeOK, OneRow
<1>4. excused' \in Excused /\ NoLoss /\ excused'.doubled = excused.doubled
  BY <1>1, <1>2 DEF TypeOK, Excused, NoLoss
<1>5. SweepTyped(s) /\ LetGo(s, e)
  BY <1>2, <1>3, <1>4, LettingGo
<1> QED
  BY <1>2, <1>5 DEF SameRows

\* A sweep that dies lets go of its whole batch; what it had just published is
\* excused.
DieDoes(s) ==
    /\ sweeper'[s].pc = "idle" /\ sweeper'[s].batch = {}
    /\ SameRows /\ SameMessages /\ SameTroubles /\ NoLoss
    /\ excused'.givenUp = excused.givenUp
    /\ excused.doubled \subseteq excused'.doubled
    /\ sweeper[s].pc = "queued" => sweeper[s].event \in excused'.doubled

LEMMA SweeperDiesEffect ==
    ASSUME IInv, NEW s \in Sweepers, SweeperDies(s)
    PROVE  SweepTyped(s) /\ DieDoes(s)
<1>1. TypeOK /\ EventsInOrder
  BY DEF IInv
<1> DEFINE es == IF Handling(s, "queued") THEN {InHand(s)} ELSE {}
<1>2. /\ sweeper' = [sweeper EXCEPT ![s] = Swept] /\ Fault /\ Doubled(es)
      /\ task' = task /\ queue' = queue /\ troubles' = troubles
  BY DEF SweeperDies
<1>3. Alone(s) /\ sweeper'[s].pc = "idle" /\ sweeper'[s].batch = {}
  BY <1>1, <1>2, SweptTyped DEF TypeOK, Alone
<1>4. es \in SUBSET Events /\ (sweeper[s].pc = "queued" => sweeper[s].event \in es)
  BY <1>1, TaskInHand DEF Handling, InHand
<1> HIDE DEF es
<1>5. /\ excused' \in Excused /\ excused'.doubled = excused.doubled \cup es
      /\ excused'.lost = excused.lost /\ excused'.givenUp = excused.givenUp
      /\ excused'.raced = excused.raced
  BY <1>1, <1>2, <1>4, Doubling
<1>6. faults' \in 0 .. MaxFaults
  BY <1>1, <1>2, Faulting
<1>7. SweepTyped(s)
  BY <1>1, <1>2, <1>3, <1>5, <1>6 DEF SweepTyped, TypeOK
<1> QED
  BY <1>2, <1>3, <1>4, <1>5, <1>7
     DEF DieDoes, SameRows, SameMessages, SameTroubles, NoLoss

-----------------------------------------------------------------------------
(* What the steps of a worker do, field by field.                          *)

WorkTyped(w) ==
    /\ worker' \in [Workers -> Worker] /\ \A v \in Workers \ {w} : worker'[v] = worker[v]
    /\ queue' \in [Events -> Nat] /\ sends' \in [Events -> Nat]
    /\ counted' \in Nat /\ logs' \in Nat
    /\ faults' \in 0 .. MaxFaults /\ excused' \in Excused

LEMMA UnemployedTyped == Unemployed \in Worker /\ Unemployed.pc = "idle"
BY DEF Unemployed, Worker

\* A worker that moves on keeps its event.
LEMMA Going ==
    ASSUME TypeOK, NEW w \in Workers, Goto(w, "logged")
    PROVE  /\ worker' \in [Workers -> Worker] /\ \A v \in Workers \ {w} : worker'[v] = worker[v]
           /\ worker'[w].pc = "logged" /\ worker'[w].event = worker[w].event
BY DEF TypeOK, Goto, Worker

\* An event at work was triggered.
LEMMA EventAtWork ==
    ASSUME TypeOK, EventsInOrder, NEW w \in Workers, worker[w].pc # "idle"
    PROVE  worker[w].event \in asked /\ worker[w].event \in Events
BY DEF TypeOK, EventsInOrder, WorkerInOrder

SendDoes(w, e) ==
    /\ worker[w].pc = "idle" /\ worker'[w].pc = "sent" /\ worker'[w].event = e
    /\ queue[e] > 0 /\ queue'[e] = queue[e] - 1 /\ sends'[e] = sends[e] + 1
    /\ \A f \in Events \ {e} : queue'[f] = queue[f] /\ sends'[f] = sends[f]
    /\ counted' = counted /\ logs' = logs /\ excused' = excused

LEMMA SendEffect ==
    ASSUME IInv, NEW w \in Workers, NEW e \in Events, Send(w, e)
    PROVE  WorkTyped(w) /\ SendDoes(w, e)
<1>1. TypeOK
  BY DEF IInv
<1> DEFINE new == [Unemployed EXCEPT !.pc = "sent", !.event = e]
<1>2. new \in Worker /\ new.pc = "sent" /\ new.event = e
  BY DEF Unemployed, Worker
<1>3. /\ worker[w].pc = "idle" /\ worker' = [worker EXCEPT ![w] = new]
      /\ queue[e] > 0 /\ queue' = [queue EXCEPT ![e] = @ - 1]
      /\ sends' = [sends EXCEPT ![e] = @ + 1]
      /\ counted' = counted /\ logs' = logs /\ faults' = faults /\ excused' = excused
  BY DEF Send, At
<1> HIDE DEF new
<1>4. /\ worker' \in [Workers -> Worker] /\ \A v \in Workers \ {w} : worker'[v] = worker[v]
      /\ worker'[w] = new
  BY <1>1, <1>2, <1>3 DEF TypeOK
<1>5. /\ queue' \in [Events -> Nat] /\ sends' \in [Events -> Nat]
      /\ queue'[e] = queue[e] - 1 /\ sends'[e] = sends[e] + 1
      /\ \A f \in Events \ {e} : queue'[f] = queue[f] /\ sends'[f] = sends[f]
  BY <1>1, <1>3 DEF TypeOK
<1>6. WorkTyped(w)
  BY <1>1, <1>3, <1>4, <1>5 DEF WorkTyped, TypeOK, Excused
<1> QED
  BY <1>2, <1>3, <1>4, <1>5, <1>6 DEF SendDoes

SameQueues == queue' = queue /\ sends' = sends

LoadDoes(w) ==
    /\ worker[w].pc = "sent" /\ worker'[w].pc = "loaded"
    /\ worker'[w].event = worker[w].event /\ worker'[w].seen = counted
    /\ excused'.raced <=> excused.raced \/ \E v \in Workers : Loaded(v)
    /\ excused'.lost = excused.lost /\ excused'.doubled = excused.doubled
    /\ excused'.givenUp = excused.givenUp
    /\ counted' = counted /\ logs' = logs /\ SameQueues

LEMMA LoadHookEffect ==
    ASSUME IInv, NEW w \in Workers, LoadHook(w)
    PROVE  WorkTyped(w) /\ LoadDoes(w)
<1>1. TypeOK
  BY DEF IInv
<1>2. /\ worker[w].pc = "sent"
      /\ queue' = queue /\ counted' = counted /\ logs' = logs /\ faults' = faults
      /\ sends' = sends
  BY DEF LoadHook, At
<1> DEFINE new == [worker[w] EXCEPT !.pc = "loaded", !.seen = counted]
<1>3. new \in Worker /\ new.pc = "loaded" /\ new.event = worker[w].event /\ new.seen = counted
  BY <1>1 DEF TypeOK, Worker
<1>4. worker' = [worker EXCEPT ![w] = new]
  BY <1>1 DEF LoadHook, TypeOK
<1> HIDE DEF new
<1>5. /\ worker' \in [Workers -> Worker] /\ \A v \in Workers \ {w} : worker'[v] = worker[v]
      /\ worker'[w] = new
  BY <1>1, <1>3, <1>4 DEF TypeOK
<1> DEFINE race == excused.raced \/ \E v \in Workers : Loaded(v)
<1>6. excused' = [excused EXCEPT !.raced = race] /\ race \in BOOLEAN
  BY DEF LoadHook, At, Loaded
<1> HIDE DEF race
<1>7. /\ excused' \in Excused /\ excused'.raced = race
      /\ excused'.lost = excused.lost /\ excused'.doubled = excused.doubled
      /\ excused'.givenUp = excused.givenUp
  BY <1>1, <1>6 DEF TypeOK, Excused
<1>8. excused'.raced <=> excused.raced \/ \E v \in Workers : Loaded(v)
  BY <1>7, Zenon DEF race
<1>9. WorkTyped(w)
  BY <1>1, <1>2, <1>5, <1>7 DEF WorkTyped, TypeOK
<1> QED
  BY <1>2, <1>3, <1>5, <1>7, <1>8, <1>9 DEF LoadDoes, SameQueues

\* A worker that recorded its attempt, or could not.
RecordDoes(w) ==
    /\ worker[w].pc \in {"sent", "loaded"} /\ worker'[w].pc = "logged"
    /\ worker'[w].event = worker[w].event
    /\ excused' = excused /\ SameQueues
    /\ \/ counted' = counted /\ logs' = logs
       \/ Loaded(w) /\ counted' = worker[w].seen + 1 /\ logs' = logs + 1

LEMMA RecordEffect ==
    ASSUME IInv, NEW w \in Workers, Record(w) \/ RecordFails(w)
    PROVE  WorkTyped(w) /\ RecordDoes(w)
<1>1. TypeOK
  BY DEF IInv
<1>2. Goto(w, "logged") /\ queue' = queue /\ sends' = sends /\ excused' = excused
  BY DEF Record, RecordFails
<1>3. worker[w].pc \in {"sent", "loaded"}
  BY DEF Record, RecordFails, At
<1>4. \/ counted' = counted /\ logs' = logs
      \/ Loaded(w) /\ counted' = worker[w].seen + 1 /\ logs' = logs + 1
  BY DEF Record, RecordFails, At, Loaded
<1>5. faults' = faults \/ Fault
  BY DEF Record, RecordFails
<1>6. faults' \in 0 .. MaxFaults
  BY <1>1, <1>5, Faulting DEF TypeOK
<1>7. counted' \in Nat /\ logs' \in Nat
  BY <1>1, <1>4 DEF TypeOK, Worker
<1>8. /\ worker' \in [Workers -> Worker] /\ \A v \in Workers \ {w} : worker'[v] = worker[v]
      /\ worker'[w].pc = "logged" /\ worker'[w].event = worker[w].event
  BY <1>1, <1>2, Going
<1>9. WorkTyped(w)
  BY <1>1, <1>2, <1>6, <1>7, <1>8 DEF WorkTyped, TypeOK, Excused
<1> QED
  BY <1>2, <1>3, <1>4, <1>8, <1>9 DEF RecordDoes, SameQueues

AcknowledgeDoes(w) ==
    /\ worker'[w].pc = "idle" /\ excused' = excused /\ SameQueues
    /\ counted' = counted /\ logs' = logs

LEMMA AcknowledgeEffect ==
    ASSUME IInv, NEW w \in Workers, Acknowledge(w)
    PROVE  WorkTyped(w) /\ AcknowledgeDoes(w)
<1>1. TypeOK
  BY DEF IInv
<1>2. /\ worker' = [worker EXCEPT ![w] = Unemployed]
      /\ queue' = queue /\ counted' = counted /\ logs' = logs /\ faults' = faults
      /\ sends' = sends /\ excused' = excused
  BY DEF Acknowledge
<1>3. /\ worker' \in [Workers -> Worker] /\ \A v \in Workers \ {w} : worker'[v] = worker[v]
      /\ worker'[w].pc = "idle"
  BY <1>1, <1>2, UnemployedTyped DEF TypeOK
<1>4. WorkTyped(w)
  BY <1>1, <1>2, <1>3 DEF WorkTyped, TypeOK, Excused
<1> QED
  BY <1>2, <1>3, <1>4 DEF AcknowledgeDoes, SameQueues

\* A message that comes back is excused.
RedeliverDoes(w, e) ==
    /\ worker[w].pc # "idle" /\ worker[w].event = e /\ worker'[w].pc = "idle"
    /\ queue'[e] = queue[e] + 1 /\ sends' = sends
    /\ \A f \in Events \ {e} : queue'[f] = queue[f]
    /\ counted' = counted /\ logs' = logs
    /\ NoLoss /\ excused'.givenUp = excused.givenUp
    /\ excused'.doubled = excused.doubled \cup {e}

LEMMA RedeliverEffect ==
    ASSUME IInv, NEW w \in Workers, AcknowledgeFails(w) \/ WorkerLost(w)
    PROVE  WorkTyped(w) /\ RedeliverDoes(w, worker[w].event)
<1>1. TypeOK /\ EventsInOrder
  BY DEF IInv
<1> DEFINE e == worker[w].event
<1>2. Redelivered(w) /\ worker[w].pc # "idle" /\ (faults' = faults \/ Fault)
  BY DEF AcknowledgeFails, WorkerLost, At
<1>3. e \in Events
  BY <1>1, <1>2, EventAtWork
<1>4. /\ Published(e) /\ Doubled({e}) /\ worker' = [worker EXCEPT ![w] = Unemployed]
      /\ counted' = counted /\ logs' = logs /\ sends' = sends
  BY <1>2 DEF Redelivered, Event
<1> HIDE DEF e
<1>5. /\ worker' \in [Workers -> Worker] /\ \A v \in Workers \ {w} : worker'[v] = worker[v]
      /\ worker'[w].pc = "idle"
  BY <1>1, <1>4, UnemployedTyped DEF TypeOK
<1>6. faults' \in 0 .. MaxFaults
  BY <1>1, <1>2, Faulting DEF TypeOK
<1>7. /\ queue' \in [Events -> Nat] /\ queue'[e] = queue[e] + 1
      /\ \A f \in Events \ {e} : queue'[f] = queue[f]
  BY <1>1, <1>3, <1>4, Publishing
<1>8. /\ excused' \in Excused /\ excused'.doubled = excused.doubled \cup {e}
      /\ excused'.givenUp = excused.givenUp /\ NoLoss
  BY <1>1, <1>3, <1>4, Doubling DEF NoLoss
<1>9. WorkTyped(w)
  BY <1>1, <1>4, <1>5, <1>6, <1>7, <1>8 DEF WorkTyped, TypeOK
<1>10. RedeliverDoes(w, e)
  BY <1>2, <1>4, <1>5, <1>7, <1>8 DEF RedeliverDoes, e
<1> QED
  BY <1>9, <1>10 DEF e

-----------------------------------------------------------------------------
(* What a trigger does, field by field.                                    *)

TriggerTyped(e) ==
    /\ e \notin asked /\ asked' = asked \cup {e}
    /\ task' \in [Events -> Task] /\ queue' \in [Events -> Nat]
    /\ faults' \in 0 .. MaxFaults /\ excused' \in Excused
    /\ \A f \in Events \ {e} : task'[f] = task[f] /\ queue'[f] = queue[f]
    /\ excused'.raced = excused.raced /\ excused'.givenUp = excused.givenUp
    /\ excused.lost \subseteq excused'.lost /\ excused.doubled \subseteq excused'.doubled
    /\ UNCHANGED <<broker, hook, sweeper, worker, counted, logs, sends, troubles>>

TriggerDoes(e) ==
    \/ task'[e] = task[e] /\ queue'[e] = queue[e] + 1
    \/ /\ task'[e].status = "pending" /\ task'[e].retries = 0
       /\ queue'[e] = queue[e] \/ e \in excused'.doubled
       /\ queue'[e] >= queue[e]
    \/ task'[e] = task[e] /\ queue'[e] = queue[e] /\ e \in excused'.lost

LEMMA AskingInOrder ==
    ASSUME IInv, NEW e \in Events, Asks(e)
    PROVE  e \notin asked /\ asked' = asked \cup {e} /\ AskedInOrder'
<1>1. AskedInOrder
  BY DEF IInv
<1>2. PICK n \in Nat : asked = 1 .. n
  BY <1>1 DEF AskedInOrder
<1>3. e = Cardinality(asked) + 1 /\ asked' = asked \cup {e}
  BY DEF Asks
<1>4. Cardinality(asked) = n
  BY <1>2, FS_Interval
<1>5. asked' = 1 .. (n + 1) /\ e \notin asked
  BY <1>2, <1>3, <1>4
<1>6. AskedInOrder'
  BY <1>5 DEF AskedInOrder
<1> QED
  BY <1>3, <1>5, <1>6

LEMMA TriggerEffect ==
    ASSUME IInv, NEW e \in Events, Trigger(e)
    PROVE  TriggerTyped(e) /\ TriggerDoes(e) /\ AskedInOrder'
<1>1. TypeOK
  BY DEF IInv
<1>2. CASE TriggerQueued(e)
  <2>1. /\ Asks(e) /\ Published(e) /\ faults' = faults /\ excused' = excused /\ task' = task
        /\ UNCHANGED <<broker, hook, sweeper, worker, counted, logs, sends, troubles>>
    BY <1>2 DEF TriggerQueued
  <2>2. e \notin asked /\ asked' = asked \cup {e} /\ AskedInOrder'
    BY <2>1, AskingInOrder
  <2>3. /\ queue' \in [Events -> Nat] /\ queue'[e] = queue[e] + 1
        /\ \A f \in Events \ {e} : queue'[f] = queue[f]
    BY <1>1, <2>1, Publishing
  <2>4. TriggerTyped(e)
    BY <1>1, <2>1, <2>2, <2>3 DEF TriggerTyped, TypeOK, Excused
  <2> QED
    BY <2>1, <2>2, <2>3, <2>4 DEF TriggerDoes
<1>3. CASE TriggerStored(e)
  <2>1. /\ Asks(e) /\ Refuses(e)
        /\ task' = [task EXCEPT ![e] = [status |-> "pending", retries |-> 0]]
        /\ UNCHANGED <<broker, hook, sweeper, worker, counted, logs, sends, troubles>>
    BY <1>3 DEF TriggerStored
  <2>2. e \notin asked /\ asked' = asked \cup {e} /\ AskedInOrder'
    BY <2>1, AskingInOrder
  <2>3. /\ task' \in [Events -> Task] /\ task'[e].status = "pending" /\ task'[e].retries = 0
        /\ \A f \in Events \ {e} : task'[f] = task[f]
    BY <1>1, <2>1, Putting
  <2>4. /\ queue' \in [Events -> Nat] /\ faults' \in 0 .. MaxFaults /\ excused' \in Excused
        /\ excused'.lost = excused.lost /\ excused'.givenUp = excused.givenUp
        /\ excused'.raced = excused.raced
        /\ excused.doubled \subseteq excused'.doubled
        /\ \A f \in Events \ {e} : queue'[f] = queue[f]
        /\ \/ queue'[e] = queue[e]
           \/ queue'[e] = queue[e] + 1 /\ e \in excused'.doubled
    BY <1>1, <2>1, Refusing
  <2>5. TriggerTyped(e)
    BY <2>1, <2>2, <2>3, <2>4 DEF TriggerTyped
  <2>6. queue'[e] >= queue[e]
    BY <1>1, <2>4 DEF TypeOK
  <2> QED
    BY <2>2, <2>3, <2>4, <2>5, <2>6 DEF TriggerDoes
<1>4. CASE TriggerLost(e)
  <2>1. /\ Asks(e) /\ Fault /\ task' = task /\ queue' = queue
        /\ excused' = [excused EXCEPT !.lost = @ \cup {e}]
        /\ UNCHANGED <<broker, hook, sweeper, worker, counted, logs, sends, troubles>>
    BY <1>4 DEF TriggerLost
  <2>2. e \notin asked /\ asked' = asked \cup {e} /\ AskedInOrder'
    BY <2>1, AskingInOrder
  <2>3. /\ excused' \in Excused /\ excused'.lost = excused.lost \cup {e}
        /\ excused'.doubled = excused.doubled /\ excused'.givenUp = excused.givenUp
        /\ excused'.raced = excused.raced
    BY <1>1, <2>1 DEF TypeOK, Excused
  <2>4. faults' \in 0 .. MaxFaults
    BY <1>1, <2>1, Faulting
  <2>5. TriggerTyped(e)
    BY <1>1, <2>1, <2>2, <2>3, <2>4 DEF TriggerTyped, TypeOK
  <2> QED
    BY <2>1, <2>2, <2>3, <2>5 DEF TriggerDoes
<1> QED
  BY <1>2, <1>3, <1>4 DEF Trigger

\* The clean-up removes a row nobody holds.
CleanUpDoes(e) ==
    /\ task' \in [Events -> Task] /\ OneRow(e)
    /\ task[e].status \in {"completed", "failed"} /\ task'[e].status = "removed"
    /\ task'[e].retries = task[e].retries
    /\ \A s \in Sweepers : ~InBatch(s, e)
    /\ UNCHANGED <<queue, sweeper, faults, troubles, excused, Unswept>>

LEMMA CleanUpEffect ==
    ASSUME IInv, NEW e \in Events, CleanUp(e)
    PROVE  CleanUpDoes(e)
<1>1. TypeOK
  BY DEF IInv
<1>2. task' = [task EXCEPT ![e].status = "removed"] /\ "removed" \in Statuses
  BY DEF CleanUp, Statuses
<1>3. /\ task' \in [Events -> Task] /\ task'[e].status = "removed"
      /\ task'[e].retries = task[e].retries /\ OneRow(e)
  BY <1>1, <1>2, Marking DEF OneRow
<1> QED
  BY <1>3 DEF CleanUpDoes, CleanUp, InBatch

-----------------------------------------------------------------------------
(* The steps, one by one.                                                  *)

SweepDoes(s) ==
    /\ SweepTyped(s) /\ UNCHANGED Unswept
    /\ \/ \E tasks \in SUBSET Events : SelectDoes(s, tasks)
       \/ \E e \in Events : PublishDoes(s, e) \/ PublishFailsDoes(s, e) \/ ErrorDoes(s, e)
       \/ \E e \in Events :
             /\ LetGo(s, e)
             /\ \/ /\ sweeper[s].pc = "queued" /\ task'[e].status = "completed"
                   /\ task'[e].retries = task[e].retries /\ excused'.givenUp = excused.givenUp
                \/ /\ sweeper[s].pc = "refused" /\ task'[e].status = "pending"
                   /\ task'[e].retries = sweeper[s].seen + 1 /\ excused'.givenUp = excused.givenUp
                \/ /\ sweeper[s].pc = "refused" /\ task'[e].status = "failed"
                   /\ task'[e].retries = task[e].retries /\ sweeper[s].seen >= MaxRetries
                   /\ excused'.givenUp = excused.givenUp \cup {e}
                \/ /\ sweeper[s].pc = "error" /\ task'[e].status = "pending"
                   /\ task'[e].retries = task[e].retries + 1 /\ excused'.givenUp = excused.givenUp
                \/ /\ sweeper[s].pc = "error" /\ SameRows /\ excused'.givenUp = excused.givenUp
       \/ DieDoes(s)

LEMMA SweepEffect ==
    ASSUME IInv, NEW s \in Sweepers, Sweep(s) \/ (SweeperDies(s) /\ UNCHANGED Unswept)
    PROVE  SweepDoes(s)
<1>1. TypeOK /\ EventsInOrder
  BY DEF IInv
<1>2. UNCHANGED Unswept
  BY DEF Sweep
<1>3. CASE \E tasks \in SUBSET Events : Select(s, tasks)
  BY <1>2, <1>3, Selecting DEF SweepDoes
<1>4. CASE \E e \in Events : Publish(s, e) \/ PublishFails(s, e) \/ TakeFails(s, e)
  BY <1>2, <1>4, PublishEffect, PublishFailsEffect, TakeFailsEffect DEF SweepDoes
<1>5. CASE CompleteFails(s) \/ WriteFails(s)
  <2>1. sweeper[s].event \in Events
    BY <1>1, <1>5, TaskInHand DEF CompleteFails, WriteFails, Handling
  <2> QED
    BY <1>2, <1>5, <2>1, CompleteFailsEffect, WriteFailsEffect DEF SweepDoes
<1>6. CASE Complete(s) \/ Retry(s) \/ GiveUp(s) \/ Postpone(s) \/ PostponeFails(s)
  <2>1. sweeper[s].event \in Events
    BY <1>1, <1>6, TaskInHand DEF Complete, Retry, GiveUp, Postpone, PostponeFails, Handling
  <2>2. CASE Complete(s)
    BY <1>2, <2>1, <2>2, CompleteEffect DEF SweepDoes
  <2>3. CASE Retry(s)
    BY <1>2, <2>1, <2>3, RetryEffect DEF SweepDoes
  <2>4. CASE GiveUp(s)
    BY <1>2, <2>1, <2>4, GiveUpEffect DEF SweepDoes
  <2>5. CASE Postpone(s)
    BY <1>2, <2>1, <2>5, PostponeEffect DEF SweepDoes
  <2>6. CASE PostponeFails(s)
    BY <1>2, <2>1, <2>6, PostponeFailsEffect DEF SweepDoes
  <2> QED
    BY <1>6, <2>2, <2>3, <2>4, <2>5, <2>6
<1>7. CASE SweeperDies(s)
  BY <1>2, <1>7, SweeperDiesEffect DEF SweepDoes
<1> QED
  BY <1>3, <1>4, <1>5, <1>6, <1>7 DEF Sweep

WorkDoes(w) ==
    /\ WorkTyped(w) /\ UNCHANGED Unworked
    /\ \/ \E e \in Events : SendDoes(w, e)
       \/ LoadDoes(w) \/ RecordDoes(w) \/ AcknowledgeDoes(w)
       \/ \E e \in Events : RedeliverDoes(w, e)

LEMMA WorkEffect ==
    ASSUME IInv, NEW w \in Workers, Work(w) \/ (WorkerLost(w) /\ UNCHANGED Unworked)
    PROVE  WorkDoes(w)
<1>1. TypeOK /\ EventsInOrder
  BY DEF IInv
<1>2. UNCHANGED Unworked
  BY DEF Work
<1>3. CASE \E e \in Events : Send(w, e)
  BY <1>2, <1>3, SendEffect DEF WorkDoes
<1>4. CASE LoadHook(w)
  BY <1>2, <1>4, LoadHookEffect DEF WorkDoes
<1>5. CASE Record(w) \/ RecordFails(w)
  BY <1>2, <1>5, RecordEffect DEF WorkDoes
<1>6. CASE Acknowledge(w)
  BY <1>2, <1>6, AcknowledgeEffect DEF WorkDoes
<1>7. CASE AcknowledgeFails(w) \/ WorkerLost(w)
  <2>1. worker[w].pc # "idle"
    BY <1>7 DEF AcknowledgeFails, WorkerLost, At
  <2>2. worker[w].event \in Events
    BY <1>1, <2>1, EventAtWork
  <2> QED
    BY <1>2, <1>7, <2>2, RedeliverEffect DEF WorkDoes
<1> QED
  BY <1>3, <1>4, <1>5, <1>6, <1>7 DEF Work

\* What is left: the broker, and the deletion of the webhook.
RestDoes ==
    /\ broker' \in BOOLEAN /\ hook' \in BOOLEAN /\ faults' \in 0 .. MaxFaults
    /\ UNCHANGED <<asked, task, queue, sweeper, worker, sends, troubles, excused>>
    /\ \/ counted' = counted /\ logs' = logs
       \/ counted' = 0 /\ logs' = 0 /\ \A w \in Workers : ~Loaded(w)

LEMMA StepEffect ==
    ASSUME IInv, [Next]_vars
    PROVE  \/ \E e \in Events : TriggerTyped(e) /\ TriggerDoes(e) /\ AskedInOrder'
           \/ \E e \in Events : CleanUpDoes(e)
           \/ \E s \in Sweepers : SweepDoes(s)
           \/ \E w \in Workers : WorkDoes(w)
           \/ RestDoes
<1>1. TypeOK
  BY DEF IInv
<1>2. CASE \E e \in Events : Trigger(e) \/ CleanUp(e)
  BY <1>2, TriggerEffect, CleanUpEffect
<1>3. CASE \E s \in Sweepers : Sweep(s) \/ (SweeperDies(s) /\ UNCHANGED Unswept)
  BY <1>3, SweepEffect
<1>4. CASE \E w \in Workers : Work(w) \/ (WorkerLost(w) /\ UNCHANGED Unworked)
  BY <1>4, WorkEffect
<1>5. CASE BrokerFails \/ BrokerReturns
  <2>1. faults' \in 0 .. MaxFaults
    BY <1>1, <1>5, Faulting DEF BrokerFails, BrokerReturns, TypeOK
  <2> QED
    BY <1>1, <1>5, <2>1 DEF BrokerFails, BrokerReturns, RestDoes, TypeOK
<1>6. CASE DeleteHook
  BY <1>1, <1>6 DEF DeleteHook, RestDoes, TypeOK, At, Loaded
<1>7. CASE UNCHANGED vars
  BY <1>1, <1>7 DEF vars, RestDoes, TypeOK
<1> QED
  BY <1>2, <1>3, <1>4, <1>5, <1>6, <1>7 DEF Next, Dies, Quiet

-----------------------------------------------------------------------------
(* The invariant is kept, part by part.                                    *)

TypedAndAsked == TypeOK /\ AskedInOrder

LEMMA TypesKept ==
    ASSUME IInv, [Next]_vars
    PROVE  TypedAndAsked'
<1>1. TypeOK /\ AskedInOrder
  BY DEF IInv
<1>2. CASE \E e \in Events : TriggerTyped(e) /\ TriggerDoes(e) /\ AskedInOrder'
  BY <1>1, <1>2 DEF TypedAndAsked, TypeOK, TriggerTyped, Excused
<1>3. CASE \E e \in Events : CleanUpDoes(e)
  BY <1>1, <1>3 DEF TypedAndAsked, TypeOK, AskedInOrder, CleanUpDoes, Unswept
<1>4. CASE \E s \in Sweepers : SweepDoes(s)
  BY <1>1, <1>4 DEF TypedAndAsked, TypeOK, AskedInOrder, SweepDoes, SweepTyped, Alone, Unswept, Excused
<1>5. CASE \E w \in Workers : WorkDoes(w)
  BY <1>1, <1>5 DEF TypedAndAsked, TypeOK, AskedInOrder, WorkDoes, WorkTyped, Unworked, Excused
<1>6. CASE RestDoes
  BY <1>1, <1>6 DEF TypedAndAsked, TypeOK, AskedInOrder, RestDoes
<1> QED
  BY <1>2, <1>3, <1>4, <1>5, <1>6, StepEffect

\* No message about an event is forgotten once its worker has it, and no excuse.
Grows ==
    /\ \A e \in Events : Messages(e) <= sends'[e] + queue'[e] /\ sends[e] <= sends'[e]
    /\ asked \subseteq asked'
    /\ excused.lost \subseteq excused'.lost /\ excused.givenUp \subseteq excused'.givenUp
    /\ excused.doubled \subseteq excused'.doubled

LEMMA Growing ==
    ASSUME IInv, [Next]_vars
    PROVE  Grows
<1>1. TypeOK
  BY DEF IInv
<1>2. queue \in [Events -> Nat] /\ sends \in [Events -> Nat]
  BY <1>1 DEF TypeOK
<1>3. CASE \E e \in Events : TriggerTyped(e) /\ TriggerDoes(e) /\ AskedInOrder'
  BY <1>2, <1>3 DEF Grows, Messages, TriggerTyped, TriggerDoes
<1>4. CASE \E e \in Events : CleanUpDoes(e)
  BY <1>2, <1>4 DEF Grows, Messages, CleanUpDoes, Unswept
<1>5. ASSUME NEW s \in Sweepers, SweepDoes(s) PROVE Grows
  <2>1. sends' = sends /\ asked' = asked
    BY <1>5 DEF SweepDoes, Unswept
  <2>2. CASE \E tasks \in SUBSET Events : SelectDoes(s, tasks)
    BY <1>2, <2>1, <2>2 DEF Grows, Messages, SelectDoes, SameMessages, NoLoss
  <2>3. CASE \E e \in Events : PublishDoes(s, e)
    BY <1>2, <2>1, <2>3 DEF Grows, Messages, PublishDoes
  <2>4. CASE \E e \in Events : PublishFailsDoes(s, e)
    BY <1>2, <2>1, <2>4 DEF Grows, Messages, PublishFailsDoes, TakeDoes, NoLoss
  <2>5. CASE \E e \in Events : ErrorDoes(s, e)
    BY <1>2, <2>1, <2>5 DEF Grows, Messages, ErrorDoes, SameMessages, NoLoss
  <2>6. CASE \E e \in Events : LetGo(s, e) /\ excused.givenUp \subseteq excused'.givenUp
    BY <1>2, <2>1, <2>6 DEF Grows, Messages, LetGo, SameMessages, NoLoss
  <2>7. CASE DieDoes(s)
    BY <1>2, <2>1, <2>7 DEF Grows, Messages, DieDoes, SameMessages, NoLoss
  <2> QED
    BY <1>5, <2>2, <2>3, <2>4, <2>5, <2>6, <2>7 DEF SweepDoes
<1>6. ASSUME NEW w \in Workers, WorkDoes(w) PROVE Grows
  <2>1. asked' = asked
    BY <1>6 DEF WorkDoes, Unworked
  <2>2. CASE \E e \in Events : SendDoes(w, e)
    BY <1>2, <2>1, <2>2 DEF Grows, Messages, SendDoes
  <2>3. CASE LoadDoes(w)
    BY <1>2, <2>1, <2>3 DEF Grows, Messages, LoadDoes, SameQueues
  <2>4. CASE RecordDoes(w) \/ AcknowledgeDoes(w)
    BY <1>2, <2>1, <2>4 DEF Grows, Messages, RecordDoes, AcknowledgeDoes, SameQueues
  <2>5. CASE \E e \in Events : RedeliverDoes(w, e)
    BY <1>2, <2>1, <2>5 DEF Grows, Messages, RedeliverDoes, NoLoss
  <2> QED
    BY <1>6, <2>2, <2>3, <2>4, <2>5 DEF WorkDoes
<1>7. CASE RestDoes
  BY <1>2, <1>7 DEF Grows, Messages, RestDoes
<1> QED
  BY <1>3, <1>4, <1>5, <1>6, <1>7, StepEffect

\* A sweep is in order after its own step.
LEMMA SweepKept ==
    ASSUME IInv, [Next]_vars, NEW s \in Sweepers, SweepDoes(s)
    PROVE  SweepInOrder(s)'
<1>1. TypeOK /\ EventsInOrder
  BY DEF IInv
<1>2. queue \in [Events -> Nat] /\ sends \in [Events -> Nat] /\ asked' = asked
      /\ sends' = sends /\ sweeper[s].batch \subseteq asked /\ sweeper[s].batch \subseteq Events
  BY <1>1 DEF SweepDoes, Unswept, TypeOK, EventsInOrder, SweepInOrder, Sweeper
<1>3. CASE \E tasks \in SUBSET Events : SelectDoes(s, tasks)
  BY <1>1, <1>2, <1>3, WaitingIsAsked DEF SelectDoes, SweepInOrder
<1>4. CASE \E e \in Events : PublishDoes(s, e)
  BY <1>2, <1>4 DEF PublishDoes, TakeDoes, SweepInOrder, Messages
<1>5. CASE \E e \in Events : PublishFailsDoes(s, e) \/ ErrorDoes(s, e)
  BY <1>2, <1>5 DEF PublishFailsDoes, ErrorDoes, TakeDoes, SweepInOrder
<1>6. CASE \E e \in Events : LetGo(s, e)
  BY <1>2, <1>6 DEF LetGo, SweepInOrder
<1>7. CASE DieDoes(s)
  BY <1>7 DEF DieDoes, SweepInOrder
<1> QED
  BY <1>3, <1>4, <1>5, <1>6, <1>7 DEF SweepDoes

\* A sweep that does not step stays in order.
LEMMA SweepStays ==
    ASSUME IInv, TypedAndAsked', Grows, NEW s \in Sweepers, sweeper'[s] = sweeper[s]
    PROVE  SweepInOrder(s)'
<1>1. TypeOK /\ EventsInOrder
  BY DEF IInv
<1>2. SweepInOrder(s) /\ sweeper[s].batch \subseteq Events
  BY <1>1 DEF TypeOK, Sweeper, EventsInOrder
<1>3. \A e \in Events : Messages(e) \in Nat /\ (Messages(e) > 0 => Messages(e)' > 0)
  <2>1. \A e \in Events : Messages(e) <= Messages(e)'
    BY DEF Grows, Messages
  <2>2. \A e \in Events : Messages(e) \in Nat /\ Messages(e)' \in Nat
    BY <1>1 DEF TypedAndAsked, TypeOK, Messages
  <2> HIDE DEF Messages
  <2> QED
    BY <2>1, <2>2
<1> QED
  BY <1>2, <1>3 DEF SweepInOrder, Grows

LEMMA WorkersKept ==
    ASSUME IInv, TypedAndAsked', Grows, [Next]_vars, NEW v \in Workers
    PROVE  WorkerInOrder(v)'
<1>1. TypeOK /\ EventsInOrder
  BY DEF IInv
<1>2. queue \in [Events -> Nat] /\ sends \in [Events -> Nat] /\ sends' \in [Events -> Nat]
      /\ asked \subseteq Events
  BY <1>1 DEF TypedAndAsked, TypeOK
<1>3. WorkerInOrder(v)
  BY <1>1 DEF EventsInOrder
<1>4. ASSUME worker'[v] = worker[v] PROVE WorkerInOrder(v)'
  BY <1>2, <1>3, <1>4 DEF WorkerInOrder, Grows
<1>5. CASE worker' = worker
  BY <1>4, <1>5
<1>6. ASSUME NEW w \in Workers, WorkDoes(w) PROVE WorkerInOrder(v)'
  <2>1. CASE v # w
    BY <1>4, <1>6, <2>1 DEF WorkDoes, WorkTyped
  <2>2. CASE v = w /\ \E e \in Events : SendDoes(w, e)
    <3>1. PICK e \in Events : SendDoes(w, e)
      BY <2>2
    <3>2. sends'[e] > 0 /\ worker'[v].event = e
      BY <1>2, <2>2, <3>1 DEF SendDoes
    <3>3. e \in asked
      <4>1. Messages(e) > 0
        BY <1>2, <3>1 DEF SendDoes, Messages
      <4> QED
        BY <1>1, <4>1 DEF EventsInOrder, Untriggered
    <3> QED
      BY <3>2, <3>3 DEF WorkerInOrder, Grows
  <2>3. CASE v = w /\ (LoadDoes(w) \/ RecordDoes(w))
    <3>1. worker[w].pc # "idle" /\ worker'[w].event = worker[w].event
      BY <2>3 DEF LoadDoes, RecordDoes
    <3>2. worker[w].event \in asked /\ sends[worker[w].event] > 0
      BY <1>3, <2>3, <3>1 DEF WorkerInOrder
    <3>3. sends[worker[w].event] <= sends'[worker[w].event]
      BY <1>2, <3>2 DEF Grows
    <3> QED
      BY <1>2, <2>3, <3>1, <3>2, <3>3 DEF WorkerInOrder, Grows
  <2>4. CASE v = w /\ (AcknowledgeDoes(w) \/ \E e \in Events : RedeliverDoes(w, e))
    BY <2>4 DEF AcknowledgeDoes, RedeliverDoes, WorkerInOrder
  <2> QED
    BY <1>6, <2>1, <2>2, <2>3, <2>4 DEF WorkDoes
<1>7. CASE \/ \E e \in Events : TriggerTyped(e)
           \/ \E e \in Events : CleanUpDoes(e)
           \/ \E s \in Sweepers : SweepDoes(s)
           \/ RestDoes
  BY <1>5, <1>7 DEF TriggerTyped, CleanUpDoes, SweepDoes, Unswept, RestDoes
<1> QED
  BY <1>6, <1>7, StepEffect

\* Nothing is done about an event before it is triggered.
LEMMA UntriggeredKept ==
    ASSUME IInv, TypedAndAsked', [Next]_vars, NEW f \in Events, f \notin asked'
    PROVE  Untriggered(f)'
<1>1. TypeOK /\ EventsInOrder
  BY DEF IInv
<1>2. queue \in [Events -> Nat] /\ sends \in [Events -> Nat] /\ task \in [Events -> Task]
  BY <1>1 DEF TypeOK
<1>3. ASSUME f \notin asked, task'[f] = task[f], queue'[f] = queue[f], sends'[f] = sends[f]
      PROVE  Untriggered(f)'
  BY <1>1, <1>3 DEF EventsInOrder, Untriggered, Messages
<1>4. CASE \E e \in Events : TriggerTyped(e) /\ TriggerDoes(e)
  BY <1>3, <1>4 DEF TriggerTyped
<1>5. CASE \E e \in Events : CleanUpDoes(e)
  <2>1. PICK e \in Events : CleanUpDoes(e)
    BY <1>5
  <2>2. f \notin asked /\ f # e
    BY <1>1, <2>1 DEF CleanUpDoes, Unswept, EventsInOrder, Untriggered
  <2> QED
    BY <1>3, <2>1, <2>2 DEF CleanUpDoes, Unswept, OneRow
<1>6. ASSUME NEW s \in Sweepers, SweepDoes(s) PROVE Untriggered(f)'
  <2>1. f \notin asked /\ f \notin sweeper[s].batch /\ sends' = sends
    BY <1>1, <1>6 DEF SweepDoes, Unswept, EventsInOrder, SweepInOrder
  <2>2. CASE \E tasks \in SUBSET Events : SelectDoes(s, tasks)
    BY <1>3, <2>1, <2>2 DEF SelectDoes, SameRows, SameMessages
  <2>3. CASE \E e \in Events : PublishDoes(s, e) \/ PublishFailsDoes(s, e)
    BY <1>3, <2>1, <2>3 DEF PublishDoes, PublishFailsDoes, TakeDoes, OneRow
  <2>4. CASE \E e \in Events : ErrorDoes(s, e)
    BY <1>3, <2>1, <2>4 DEF ErrorDoes, SameRows, SameMessages
  <2>5. CASE \E e \in Events : LetGo(s, e)
    BY <1>3, <2>1, <2>5 DEF LetGo, OneRow, SameMessages
  <2>6. CASE DieDoes(s)
    BY <1>3, <2>1, <2>6 DEF DieDoes, SameRows, SameMessages
  <2> QED
    BY <1>6, <2>2, <2>3, <2>4, <2>5, <2>6 DEF SweepDoes
<1>7. ASSUME NEW w \in Workers, WorkDoes(w) PROVE Untriggered(f)'
  <2>1. f \notin asked /\ task' = task
    BY <1>7 DEF WorkDoes, Unworked
  <2>2. queue[f] = 0 /\ sends[f] = 0
    BY <1>1, <1>2, <2>1 DEF EventsInOrder, Untriggered, Messages
  <2>3. CASE \E e \in Events : SendDoes(w, e)
    BY <1>3, <2>1, <2>2, <2>3 DEF SendDoes
  <2>4. CASE LoadDoes(w) \/ RecordDoes(w) \/ AcknowledgeDoes(w)
    BY <1>3, <2>1, <2>4 DEF LoadDoes, RecordDoes, AcknowledgeDoes, SameQueues
  <2>5. CASE \E e \in Events : RedeliverDoes(w, e)
    <3>1. PICK e \in Events : RedeliverDoes(w, e)
      BY <2>5
    <3>2. f # e
      BY <1>1, <2>1, <3>1, EventAtWork DEF RedeliverDoes
    <3> QED
      BY <1>3, <2>1, <3>1, <3>2 DEF RedeliverDoes
  <2> QED
    BY <1>7, <2>3, <2>4, <2>5 DEF WorkDoes
<1>8. CASE RestDoes
  BY <1>3, <1>8 DEF RestDoes
<1> QED
  BY <1>4, <1>5, <1>6, <1>7, <1>8, StepEffect

\* A triggered event keeps its place, or has a better one.
LEMMA HeldKept ==
    ASSUME IInv, TypedAndAsked', Grows, [Next]_vars, NEW f \in asked'
    PROVE  Held(f)'
<1>1. TypeOK /\ EventsInOrder
  BY DEF IInv
<1>2. queue \in [Events -> Nat] /\ sends \in [Events -> Nat] /\ task \in [Events -> Task]
      /\ f \in Events
  BY <1>1 DEF TypeOK, TypedAndAsked
<1>3. Messages(f) \in Nat /\ Messages(f)' \in Nat /\ Messages(f) <= Messages(f)'
  BY <1>1, <1>2 DEF Messages, Grows, TypeOK, TypedAndAsked
<1>4. CASE f \in asked /\ task'[f].status = task[f].status
  <2>1. Held(f)
    BY <1>1, <1>4 DEF EventsInOrder
  <2> QED
    BY <1>3, <1>4, <2>1 DEF Held, Grows
<1>5. CASE Messages(f)' > 0
  BY <1>5 DEF Held
<1>6. CASE \E e \in Events : TriggerTyped(e) /\ TriggerDoes(e)
  <2>1. PICK e \in Events : TriggerTyped(e) /\ TriggerDoes(e)
    BY <1>6
  <2>2. CASE f # e
    BY <1>2, <1>4, <2>1, <2>2 DEF TriggerTyped
  <2>3. CASE f = e
    <3>1. Messages(f)' = sends[f] + queue'[f]
      BY <2>1 DEF TriggerTyped, Messages
    <3>2. CASE queue'[f] = queue[f] + 1
      BY <1>2, <1>5, <3>1, <3>2
    <3>3. CASE task'[f].status = "pending" \/ f \in excused'.lost
      BY <3>3 DEF Held
    <3> QED
      BY <2>1, <2>3, <3>2, <3>3 DEF TriggerDoes
  <2> QED
    BY <2>2, <2>3
<1>7. CASE \E e \in Events : CleanUpDoes(e)
  <2>1. PICK e \in Events : CleanUpDoes(e)
    BY <1>7
  <2>2. f \in asked /\ (task[f].status \notin {"pending", "processing"} \/ f # e)
    BY <2>1 DEF CleanUpDoes, Unswept
  <2>3. CASE f # e
    BY <1>2, <1>4, <2>1, <2>2, <2>3 DEF CleanUpDoes, OneRow
  <2>4. CASE f = e
    <3>1. Held(f)
      BY <1>1, <2>2 DEF EventsInOrder
    <3> QED
      BY <1>3, <2>2, <2>4, <3>1 DEF Held, Grows
  <2> QED
    BY <2>3, <2>4
<1>8. ASSUME NEW s \in Sweepers, SweepDoes(s) PROVE Held(f)'
  <2>1. f \in asked /\ sends' = sends /\ task' \in [Events -> Task]
    BY <1>8 DEF SweepDoes, Unswept, SweepTyped
  <2>2. CASE task' = task
    BY <1>4, <2>1, <2>2
  <2>3. CASE \E e \in Events : PublishDoes(s, e) \/ PublishFailsDoes(s, e)
    <3>1. PICK e \in Events : TakeDoes(s, e)
      BY <2>3 DEF PublishDoes, PublishFailsDoes
    <3>2. CASE f # e
      BY <1>2, <1>4, <2>1, <3>1, <3>2 DEF TakeDoes, OneRow
    <3>3. CASE f = e
      BY <3>1, <3>3 DEF TakeDoes, Held
    <3> QED
      BY <3>2, <3>3
  <2>4. CASE \E e \in Events : LetGo(s, e)
    <3>1. PICK e \in Events : LetGo(s, e)
      BY <2>4
    <3>2. CASE f # e
      BY <1>2, <1>4, <2>1, <3>1, <3>2 DEF LetGo, OneRow
    <3>3. CASE f = e /\ sweeper[s].pc = "queued"
      BY <1>1, <1>3, <1>5, <3>1, <3>3 DEF EventsInOrder, SweepInOrder, LetGo
    <3>4. CASE f = e /\ (task'[e].status = "pending" \/ e \in excused'.givenUp)
      BY <3>4 DEF Held
    <3>5. sweeper[s].pc # "queued" => task' = task \/ task'[e].status = "pending" \/ e \in excused'.givenUp
      BY <1>8, <3>1 DEF SweepDoes, LetGo, SelectDoes, PublishDoes, PublishFailsDoes, TakeDoes,
                        ErrorDoes, DieDoes, SameRows
    <3> QED
      BY <2>2, <3>2, <3>3, <3>4, <3>5
  <2> QED
    BY <1>8, <2>2, <2>3, <2>4 DEF SweepDoes, SelectDoes, ErrorDoes, DieDoes, SameRows
<1>9. CASE task' = task /\ asked' = asked
  BY <1>4, <1>9
<1>10. CASE \/ \E w \in Workers : WorkDoes(w)
            \/ RestDoes
  BY <1>9, <1>10 DEF WorkDoes, Unworked, RestDoes
<1> QED
  BY <1>6, <1>7, <1>8, <1>10, StepEffect

LEMMA EventsKept ==
    ASSUME IInv, TypedAndAsked', Grows, [Next]_vars
    PROVE  EventsInOrder'
<1>1. ASSUME NEW t \in Sweepers PROVE SweepInOrder(t)'
  <2>1. CASE sweeper'[t] = sweeper[t]
    BY <2>1, SweepStays
  <2>2. CASE SweepDoes(t)
    BY <2>2, SweepKept
  <2> QED
    BY <2>1, <2>2, StepEffect
       DEF TriggerTyped, CleanUpDoes, SweepDoes, SweepTyped, Alone, WorkDoes, Unworked, RestDoes
<1>2. \A w \in Workers : WorkerInOrder(w)'
  BY WorkersKept
<1>3. \A e \in Events \ asked' : Untriggered(e)'
  BY UntriggeredKept
<1>4. \A e \in asked' : Held(e)'
  BY HeldKept
<1> QED
  BY <1>1, <1>2, <1>3, <1>4 DEF EventsInOrder

-----------------------------------------------------------------------------
(* Retries are failures.                                                   *)

\* The failed sweeps of an event are finitely many, before and after a step.
LEMMA FailedAreFinite ==
    ASSUME NEW f \in Events
    PROVE  /\ IsFiniteSet(Failed(f)) /\ Cardinality(Failed(f)) \in Nat
           /\ IsFiniteSet(Failed(f)') /\ Cardinality(Failed(f)') \in Nat
<1>1. Failed(f) \subseteq Sweepers /\ Failed(f)' \subseteq Sweepers
  BY DEF Failed
<1> QED
  BY <1>1, ProcessesAssumption, FS_Subset, FS_CardinalityType

\* A sweep that is not in error after its step adds nothing; one that is adds one;
\* one that was takes one away.
LEMMA FailedFewer ==
    ASSUME NEW s \in Sweepers, NEW f \in Events,
           \A t \in Sweepers \ {s} : sweeper'[t] = sweeper[t],
           sweeper'[s].pc # "error" \/ sweeper'[s].event # f
    PROVE  /\ Cardinality(Failed(f)') <= Cardinality(Failed(f))
           /\ sweeper[s].pc = "error" /\ sweeper[s].event = f
              => Cardinality(Failed(f)') = Cardinality(Failed(f)) - 1
<1>1. Failed(f)' = Failed(f) \ {s}
  BY DEF Failed
<1>2. IsFiniteSet(Failed(f)) /\ Cardinality(Failed(f)) \in Nat
  BY FailedAreFinite
<1>3. Cardinality(Failed(f) \ {s}) =
        IF s \in Failed(f) THEN Cardinality(Failed(f)) - 1 ELSE Cardinality(Failed(f))
  BY <1>2, FS_RemoveElement
<1>4. sweeper[s].pc = "error" /\ sweeper[s].event = f => s \in Failed(f)
  BY DEF Failed
<1> QED
  BY <1>1, <1>2, <1>3, <1>4

LEMMA FailedMore ==
    ASSUME NEW s \in Sweepers, NEW f \in Events,
           \A t \in Sweepers \ {s} : sweeper'[t] = sweeper[t]
    PROVE  Cardinality(Failed(f)') <= Cardinality(Failed(f)) + 1
<1>1. Failed(f)' \subseteq Failed(f) \cup {s}
  BY DEF Failed
<1>2. IsFiniteSet(Failed(f)) /\ Cardinality(Failed(f)) \in Nat
  BY FailedAreFinite
<1>3. /\ IsFiniteSet(Failed(f) \cup {s})
      /\ Cardinality(Failed(f) \cup {s}) =
           IF s \in Failed(f) THEN Cardinality(Failed(f)) ELSE Cardinality(Failed(f)) + 1
  BY <1>2, FS_AddElement
<1>4. Cardinality(Failed(f)') <= Cardinality(Failed(f) \cup {s})
  BY <1>1, <1>3, FS_Subset
<1>5. Cardinality(Failed(f)') \in Nat
  BY FailedAreFinite
<1> HIDE DEF Failed
<1> QED
  BY <1>2, <1>3, <1>4, <1>5

\* A count that went up no more than the failures did is still one.
LEMMA CountedStays ==
    ASSUME TypeOK, TypedAndAsked', NEW f \in Events, NEW x \in Nat, NEW y \in Nat, Counted(x, f),
           \/ troubles'[f] > MaxRetries
           \/ y + Cardinality(Failed(f)') - troubles'[f] <= x + Cardinality(Failed(f)) - troubles[f],
           troubles'[f] > MaxRetries \/ troubles'[f] >= troubles[f]
    PROVE  troubles'[f] > MaxRetries \/ y + Cardinality(Failed(f)') <= troubles'[f]
<1>1. Cardinality(Failed(f)) \in Nat /\ Cardinality(Failed(f)') \in Nat
  BY FailedAreFinite
<1>2. troubles[f] \in Nat /\ troubles'[f] \in Nat /\ MaxRetries \in Nat
  BY NumbersAssumption DEF TypeOK, TypedAndAsked
<1> HIDE DEF Failed
<1> QED
  BY <1>1, <1>2 DEF Counted

\* What a step of sweep s means for the count of event f.
LEMMA RetriesStay ==
    ASSUME IInv, TypedAndAsked', NEW s \in Sweepers, NEW f \in Events,
           \A t \in Sweepers \ {s} : sweeper'[t] = sweeper[t],
           \/ troubles'[f] > MaxRetries
           \/ /\ troubles'[f] >= troubles[f]
              /\ Cardinality(Failed(f)') - troubles'[f] <= Cardinality(Failed(f)) - troubles[f],
           sweeper'[s].pc # "refused" \/ sweeper'[s] = sweeper[s],
           task'[f].retries <= task[f].retries
    PROVE  RetriesAreTroubles(f)'
<1>1. TypeOK /\ RetriesAreTroubles(f)
  BY DEF IInv, RetriesInOrder
<1>2. task[f].retries \in Nat /\ task'[f].retries \in Nat
  BY <1>1 DEF TypeOK, TypedAndAsked, Task
<1>3. \A t \in Sweepers : sweeper[t].seen \in Nat /\ sweeper[t].seen + 1 \in Nat
  BY <1>1 DEF TypeOK, Sweeper
<1>4. Cardinality(Failed(f)) \in Nat /\ Cardinality(Failed(f)') \in Nat
  BY FailedAreFinite
<1>5. troubles[f] \in Nat /\ troubles'[f] \in Nat /\ MaxRetries \in Nat
  BY <1>1, NumbersAssumption DEF TypeOK, TypedAndAsked
<1>6. \A x \in Nat : \/ troubles'[f] > MaxRetries
                     \/ x + Cardinality(Failed(f)') - troubles'[f]
                          <= x + Cardinality(Failed(f)) - troubles[f]
  <2> HIDE DEF Failed
  <2> QED
    BY <1>4, <1>5
<1>7. \A x \in Nat : Counted(x, f) =>
          troubles'[f] > MaxRetries \/ x + Cardinality(Failed(f)') <= troubles'[f]
  BY <1>1, <1>6, CountedStays
<1>8. troubles'[f] > MaxRetries \/ task'[f].retries + Cardinality(Failed(f)') <= troubles'[f]
  <2>1. troubles'[f] > MaxRetries \/ task[f].retries + Cardinality(Failed(f)') <= troubles'[f]
    BY <1>1, <1>2, <1>7 DEF RetriesAreTroubles
  <2> HIDE DEF Failed
  <2> QED
    BY <1>2, <1>4, <1>5, <2>1
<1>9. ASSUME NEW t \in Sweepers, sweeper'[t].pc = "refused", sweeper'[t].event = f
      PROVE  troubles'[f] > MaxRetries \/ sweeper'[t].seen + 1 + Cardinality(Failed(f)') <= troubles'[f]
  <2>1. sweeper'[t] = sweeper[t]
    BY <1>9
  <2>2. Counted(sweeper[t].seen + 1, f)
    BY <1>1, <1>9, <2>1 DEF RetriesAreTroubles
  <2>3. troubles'[f] > MaxRetries \/ sweeper[t].seen + 1 + Cardinality(Failed(f)') <= troubles'[f]
    BY <1>3, <1>7, <2>2
  <2> QED
    BY <2>1, <2>3
<1> QED
  BY <1>8, <1>9 DEF RetriesAreTroubles, Counted

\* The steps of a sweep that change what its task has counted.
LEMMA RefusedKept ==
    ASSUME IInv, TypedAndAsked', NEW s \in Sweepers, NEW f \in Events,
           \A t \in Sweepers \ {s} : sweeper'[t] = sweeper[t],
           PublishFailsDoes(s, f)
    PROVE  RetriesAreTroubles(f)'
<1>1. TypeOK /\ RetriesAreTroubles(f)
  BY DEF IInv, RetriesInOrder
<1>2. task[f].retries \in Nat /\ \A t \in Sweepers : sweeper[t].seen + 1 \in Nat
  BY <1>1 DEF TypeOK, Task, Sweeper
<1>3. /\ sweeper'[s].pc = "refused" /\ sweeper'[s].seen = task[f].retries
      /\ task'[f].retries = task[f].retries
      /\ troubles'[f] > MaxRetries \/ troubles'[f] = troubles[f] + 1
  BY DEF PublishFailsDoes, TakeDoes, OneTrouble
<1>4. Cardinality(Failed(f)') <= Cardinality(Failed(f))
  BY <1>3, FailedFewer
<1>5. /\ Cardinality(Failed(f)) \in Nat /\ Cardinality(Failed(f)') \in Nat
      /\ troubles[f] \in Nat /\ troubles'[f] \in Nat /\ MaxRetries \in Nat
  BY <1>1, FailedAreFinite, NumbersAssumption DEF TypeOK, TypedAndAsked
<1> HIDE DEF Failed
<1>6. \A x \in Nat : Counted(x, f) =>
          troubles'[f] > MaxRetries \/ x + 1 + Cardinality(Failed(f)') <= troubles'[f]
  <2> SUFFICES ASSUME NEW x \in Nat, Counted(x, f), ~(troubles'[f] > MaxRetries)
               PROVE  x + 1 + Cardinality(Failed(f)') <= troubles'[f]
    OBVIOUS
  <2>1. troubles[f] > MaxRetries \/ x + Cardinality(Failed(f)) <= troubles[f]
    BY DEF Counted
  <2> QED
    BY <1>3, <1>4, <1>5, <2>1
<1>7. \A x \in Nat : Counted(x, f) =>
          troubles'[f] > MaxRetries \/ x + Cardinality(Failed(f)') <= troubles'[f]
  BY <1>5, <1>6
<1>8. troubles'[f] > MaxRetries \/ task'[f].retries + Cardinality(Failed(f)') <= troubles'[f]
  BY <1>1, <1>2, <1>3, <1>7 DEF RetriesAreTroubles
<1>9. ASSUME NEW t \in Sweepers, sweeper'[t].pc = "refused", sweeper'[t].event = f
      PROVE  troubles'[f] > MaxRetries \/ sweeper'[t].seen + 1 + Cardinality(Failed(f)') <= troubles'[f]
  <2>1. CASE t = s
    BY <1>1, <1>2, <1>3, <1>6, <2>1 DEF RetriesAreTroubles
  <2>2. CASE t # s
    <3>1. sweeper'[t] = sweeper[t]
      BY <2>2
    <3>2. Counted(sweeper[t].seen + 1, f)
      BY <1>1, <1>9, <3>1 DEF RetriesAreTroubles
    <3>3. troubles'[f] > MaxRetries \/ sweeper[t].seen + 1 + Cardinality(Failed(f)') <= troubles'[f]
      BY <1>2, <1>7, <3>2
    <3> QED
      BY <3>1, <3>3
  <2> QED
    BY <2>1, <2>2
<1> QED
  BY <1>8, <1>9 DEF RetriesAreTroubles, Counted

\* A task that is put back for a retry, or postponed, has one retry more.
LEMMA PutBackKept ==
    ASSUME IInv, TypedAndAsked', NEW s \in Sweepers, NEW f \in Events,
           \A t \in Sweepers \ {s} : sweeper'[t] = sweeper[t],
           LetGo(s, f),
           \/ sweeper[s].pc = "refused" /\ task'[f].retries = sweeper[s].seen + 1
           \/ sweeper[s].pc = "error" /\ task'[f].retries = task[f].retries + 1
    PROVE  RetriesAreTroubles(f)'
<1>1. TypeOK /\ RetriesAreTroubles(f)
  BY DEF IInv, RetriesInOrder
<1>2. task[f].retries \in Nat /\ \A t \in Sweepers : sweeper[t].seen + 1 \in Nat
  BY <1>1 DEF TypeOK, Task, Sweeper
<1>3. sweeper'[s].pc \in {"idle", "each"} /\ troubles' = troubles /\ sweeper[s].event = f
  BY DEF LetGo, SameTroubles
<1>4. /\ Cardinality(Failed(f)') <= Cardinality(Failed(f))
      /\ sweeper[s].pc = "error" => Cardinality(Failed(f)') = Cardinality(Failed(f)) - 1
  BY <1>3, FailedFewer
<1>5. /\ Cardinality(Failed(f)) \in Nat /\ Cardinality(Failed(f)') \in Nat
      /\ troubles[f] \in Nat /\ MaxRetries \in Nat
  BY <1>1, FailedAreFinite, NumbersAssumption DEF TypeOK, TypedAndAsked
<1> HIDE DEF Failed
<1>6. \A x \in Nat : Counted(x, f) =>
          troubles'[f] > MaxRetries \/ x + Cardinality(Failed(f)') <= troubles'[f]
  BY <1>3, <1>4, <1>5 DEF Counted
<1>7. troubles'[f] > MaxRetries \/ task'[f].retries + Cardinality(Failed(f)') <= troubles'[f]
  <2>1. CASE sweeper[s].pc = "refused" /\ task'[f].retries = sweeper[s].seen + 1
    <3>1. Counted(sweeper[s].seen + 1, f)
      BY <1>1, <1>3, <2>1 DEF RetriesAreTroubles
    <3> QED
      BY <1>2, <1>6, <2>1, <3>1
  <2>2. CASE sweeper[s].pc = "error" /\ task'[f].retries = task[f].retries + 1
    <3>1. troubles[f] > MaxRetries \/ task[f].retries + Cardinality(Failed(f)) <= troubles[f]
      BY <1>1 DEF RetriesAreTroubles, Counted
    <3> QED
      BY <1>2, <1>3, <1>4, <1>5, <2>2, <3>1
  <2> QED
    BY <2>1, <2>2
<1>8. ASSUME NEW t \in Sweepers, sweeper'[t].pc = "refused", sweeper'[t].event = f
      PROVE  troubles'[f] > MaxRetries \/ sweeper'[t].seen + 1 + Cardinality(Failed(f)') <= troubles'[f]
  <2>1. sweeper'[t] = sweeper[t]
    BY <1>3, <1>8
  <2>2. Counted(sweeper[t].seen + 1, f)
    BY <1>1, <1>8, <2>1 DEF RetriesAreTroubles
  <2>3. troubles'[f] > MaxRetries \/ sweeper[t].seen + 1 + Cardinality(Failed(f)') <= troubles'[f]
    BY <1>2, <1>6, <2>2
  <2> QED
    BY <2>1, <2>3
<1> QED
  BY <1>7, <1>8 DEF RetriesAreTroubles, Counted

\* Without a step of a sweep, nothing is counted but a new row's zero.
LEMMA NoSweepKept ==
    ASSUME IInv, TypedAndAsked', NEW f \in Events, sweeper' = sweeper, troubles' = troubles,
           task'[f].retries <= task[f].retries
    PROVE  RetriesAreTroubles(f)'
<1>1. TypeOK /\ RetriesAreTroubles(f)
  BY DEF IInv, RetriesInOrder
<1>2. task[f].retries \in Nat /\ task'[f].retries \in Nat
  BY <1>1 DEF TypeOK, TypedAndAsked, Task
<1>3. Failed(f)' = Failed(f)
  BY DEF Failed
<1>4. Cardinality(Failed(f)) \in Nat /\ troubles[f] \in Nat /\ MaxRetries \in Nat
  BY <1>1, FailedAreFinite, NumbersAssumption DEF TypeOK
<1>5. troubles[f] > MaxRetries \/ task[f].retries + Cardinality(Failed(f)) <= troubles[f]
  BY <1>1 DEF RetriesAreTroubles, Counted
<1>6. troubles[f] > MaxRetries \/ task'[f].retries + Cardinality(Failed(f)) <= troubles[f]
  <2> HIDE DEF Failed
  <2> QED
    BY <1>2, <1>4, <1>5
<1>7. \A t \in Sweepers : sweeper[t].pc = "refused" /\ sweeper[t].event = f =>
          troubles[f] > MaxRetries \/ sweeper[t].seen + 1 + Cardinality(Failed(f)) <= troubles[f]
  BY <1>1 DEF RetriesAreTroubles, Counted
<1> HIDE DEF Failed
<1> QED
  BY <1>3, <1>6, <1>7 DEF RetriesAreTroubles, Counted

LEMMA RetriesKept ==
    ASSUME IInv, TypedAndAsked', [Next]_vars, NEW f \in Events
    PROVE  RetriesAreTroubles(f)'
<1>1. TypeOK /\ EventsInOrder
  BY DEF IInv
<1>2. task[f].retries \in Nat /\ task'[f].retries \in Nat /\ troubles[f] \in Nat
      /\ troubles'[f] \in Nat /\ MaxRetries \in Nat
  BY <1>1, NumbersAssumption DEF TypeOK, TypedAndAsked, Task
<1>3. CASE sweeper' = sweeper /\ troubles' = troubles /\ task'[f].retries = task[f].retries
  BY <1>2, <1>3, NoSweepKept
<1>4. CASE \E e \in Events : TriggerTyped(e) /\ TriggerDoes(e)
  <2>1. sweeper' = sweeper /\ troubles' = troubles
    BY <1>4 DEF TriggerTyped
  <2>2. task'[f].retries = task[f].retries \/ task'[f].retries = 0
    BY <1>4 DEF TriggerTyped, TriggerDoes
  <2> QED
    BY <1>2, <2>1, <2>2, NoSweepKept
<1>5. CASE \E e \in Events : CleanUpDoes(e)
  BY <1>3, <1>5 DEF CleanUpDoes, OneRow
<1>6. ASSUME NEW s \in Sweepers, SweepDoes(s) PROVE RetriesAreTroubles(f)'
  <2>1. \A t \in Sweepers \ {s} : sweeper'[t] = sweeper[t]
    BY <1>6 DEF SweepDoes, SweepTyped, Alone
  <2>2. ASSUME sweeper'[s].pc # "refused", task'[f].retries = task[f].retries,
               troubles'[f] = troubles[f],
               sweeper'[s].pc # "error" \/ sweeper'[s].event # f
        PROVE  RetriesAreTroubles(f)'
    <3>1. Cardinality(Failed(f)') <= Cardinality(Failed(f))
      BY <2>1, <2>2, FailedFewer
    <3>2. Cardinality(Failed(f)) \in Nat /\ Cardinality(Failed(f)') \in Nat
      BY FailedAreFinite
    <3>3. /\ Cardinality(Failed(f)') - troubles'[f] <= Cardinality(Failed(f)) - troubles[f]
          /\ task'[f].retries <= task[f].retries /\ troubles'[f] >= troubles[f]
      <4> HIDE DEF Failed
      <4> QED
        BY <1>2, <2>2, <3>1, <3>2
    <3> QED
      BY <2>1, <2>2, <3>3, RetriesStay
  <2>3. CASE \E tasks \in SUBSET Events : SelectDoes(s, tasks)
    BY <2>2, <2>3 DEF SelectDoes, SameRows, SameTroubles
  <2>4. CASE \E e \in Events : PublishDoes(s, e)
    BY <2>2, <2>4 DEF PublishDoes, TakeDoes, OneRow, SameTroubles
  <2>5. CASE DieDoes(s)
    BY <2>2, <2>5 DEF DieDoes, SameRows, SameTroubles
  <2>6. CASE \E e \in Events : PublishFailsDoes(s, e)
    <3>1. PICK e \in Events : PublishFailsDoes(s, e)
      BY <2>6
    <3>2. CASE e = f
      BY <2>1, <3>1, <3>2, RefusedKept
    <3>3. CASE e # f
      <4>1. Cardinality(Failed(f)') <= Cardinality(Failed(f))
        BY <2>1, <3>1, FailedFewer DEF PublishFailsDoes
      <4>2. task'[f] = task[f] /\ troubles'[f] = troubles[f]
            /\ sweeper'[s].event = e /\ sweeper[s].pc = "each"
        BY <3>1, <3>3 DEF PublishFailsDoes, TakeDoes, OneRow, OneTrouble
      <4>3. RetriesAreTroubles(f)
        BY DEF IInv, RetriesInOrder
      <4>4. \A x \in Nat : Counted(x, f) =>
                troubles'[f] > MaxRetries \/ x + Cardinality(Failed(f)') <= troubles'[f]
        <5>1. Cardinality(Failed(f)) \in Nat /\ Cardinality(Failed(f)') \in Nat
          BY FailedAreFinite
        <5> HIDE DEF Failed
        <5> QED
          BY <1>2, <4>1, <4>2, <5>1 DEF Counted
      <4>5. troubles'[f] > MaxRetries \/ task'[f].retries + Cardinality(Failed(f)') <= troubles'[f]
        BY <1>2, <4>2, <4>3, <4>4 DEF RetriesAreTroubles
      <4>6. ASSUME NEW t \in Sweepers, sweeper'[t].pc = "refused", sweeper'[t].event = f
            PROVE  troubles'[f] > MaxRetries
                   \/ sweeper'[t].seen + 1 + Cardinality(Failed(f)') <= troubles'[f]
        <5>1. sweeper'[t] = sweeper[t]
          BY <2>1, <3>3, <4>2, <4>6
        <5>2. Counted(sweeper[t].seen + 1, f)
          BY <4>3, <4>6, <5>1 DEF RetriesAreTroubles
        <5>3. sweeper[t].seen + 1 \in Nat
          BY <1>1 DEF TypeOK, Sweeper
        <5> QED
          BY <4>4, <5>1, <5>2, <5>3
      <4> QED
        BY <4>5, <4>6 DEF RetriesAreTroubles, Counted
    <3> QED
      BY <3>2, <3>3
  <2>7. CASE \E e \in Events : ErrorDoes(s, e)
    <3>1. PICK e \in Events : ErrorDoes(s, e)
      BY <2>7
    <3>2. task'[f].retries = task[f].retries /\ sweeper'[s].pc = "error" /\ sweeper'[s].event = e
      BY <3>1 DEF ErrorDoes, SameRows
    <3>3. CASE e # f
      BY <2>2, <3>1, <3>2, <3>3 DEF ErrorDoes, OneTrouble
    <3>4. CASE e = f
      <4>1. Cardinality(Failed(f)') <= Cardinality(Failed(f)) + 1
        BY <2>1, FailedMore
      <4>2. Cardinality(Failed(f)) \in Nat /\ Cardinality(Failed(f)') \in Nat
        BY FailedAreFinite
      <4>3. troubles'[f] > MaxRetries \/ troubles'[f] = troubles[f] + 1
        BY <3>1, <3>4 DEF ErrorDoes, OneTrouble
      <4>4. \/ troubles'[f] > MaxRetries
            \/ /\ troubles'[f] >= troubles[f]
               /\ Cardinality(Failed(f)') - troubles'[f] <= Cardinality(Failed(f)) - troubles[f]
        <5> HIDE DEF Failed
        <5> QED
          BY <1>2, <4>1, <4>2, <4>3
      <4> QED
        BY <1>2, <2>1, <3>2, <4>4, RetriesStay
    <3> QED
      BY <3>3, <3>4
  <2>8. CASE \E e \in Events : LetGo(s, e)
    <3>1. PICK e \in Events :
            /\ LetGo(s, e)
            /\ \/ sweeper[s].pc = "refused" /\ task'[e].retries = sweeper[s].seen + 1
               \/ sweeper[s].pc = "error" /\ task'[e].retries = task[e].retries + 1
               \/ task'[e].retries = task[e].retries
      BY <1>6, <2>8 DEF SweepDoes, LetGo, SelectDoes, PublishDoes, PublishFailsDoes, TakeDoes,
                        ErrorDoes, DieDoes, SameRows
    <3>2. sweeper'[s].pc \in {"idle", "each"} /\ troubles' = troubles
      BY <3>1 DEF LetGo, SameTroubles
    <3>3. CASE task'[f].retries = task[f].retries
      BY <2>2, <3>2, <3>3
    <3>4. CASE e = f /\ ~(task'[e].retries = task[e].retries)
      BY <2>1, <3>1, <3>4, PutBackKept
    <3>5. CASE e # f
      BY <3>1, <3>3, <3>5 DEF LetGo, OneRow
    <3> QED
      BY <3>3, <3>4, <3>5
  <2> QED
    BY <1>6, <2>3, <2>4, <2>5, <2>6, <2>7, <2>8 DEF SweepDoes
<1>7. CASE (\E w \in Workers : WorkDoes(w)) \/ RestDoes
  BY <1>3, <1>7 DEF WorkDoes, Unworked, RestDoes
<1> QED
  BY <1>4, <1>5, <1>6, <1>7, StepEffect

\* An event is given up by a sweep that saw MaxRetries failures before its own.
LEMMA GivenUpKept ==
    ASSUME IInv, TypedAndAsked', [Next]_vars
    PROVE  GivenUpAfterRetries'
<1>1. TypeOK /\ GivenUpAfterRetries /\ \A e \in Events : RetriesAreTroubles(e)
  BY DEF IInv, RetriesInOrder
<1>2. troubles \in [Events -> Nat] /\ troubles' \in [Events -> Nat] /\ MaxRetries \in Nat
      /\ excused.givenUp \subseteq Events
  BY <1>1, NumbersAssumption DEF TypeOK, TypedAndAsked
<1>3. CASE troubles' = troubles /\ excused'.givenUp = excused.givenUp
  BY <1>1, <1>3 DEF GivenUpAfterRetries
<1>4. CASE \/ \E e \in Events : TriggerTyped(e) \/ CleanUpDoes(e)
           \/ \E w \in Workers : WorkDoes(w)
           \/ RestDoes
  BY <1>3, <1>4 DEF TriggerTyped, CleanUpDoes, WorkDoes, Unworked, SendDoes, LoadDoes, RecordDoes,
                    AcknowledgeDoes, RedeliverDoes, RestDoes
<1>5. ASSUME NEW s \in Sweepers, SweepDoes(s) PROVE GivenUpAfterRetries'
  <2>1. CASE (\E tasks \in SUBSET Events : SelectDoes(s, tasks)) \/ DieDoes(s)
             \/ (\E e \in Events : PublishDoes(s, e))
    BY <1>3, <2>1 DEF SelectDoes, PublishDoes, TakeDoes, DieDoes, SameTroubles
  <2>2. CASE \E e \in Events : PublishFailsDoes(s, e) \/ ErrorDoes(s, e)
    <3>1. PICK e \in Events : OneTrouble(e) /\ excused'.givenUp = excused.givenUp
      BY <2>2 DEF PublishFailsDoes, TakeDoes, ErrorDoes
    <3>2. \A f \in Events : troubles[f] > MaxRetries => troubles'[f] > MaxRetries
      BY <1>2, <3>1 DEF OneTrouble
    <3> QED
      BY <1>1, <1>2, <3>1, <3>2 DEF GivenUpAfterRetries
  <2>3. CASE \E e \in Events : LetGo(s, e)
    <3>1. PICK e \in Events :
            /\ LetGo(s, e)
            /\ \/ excused'.givenUp = excused.givenUp
               \/ /\ sweeper[s].pc = "refused" /\ sweeper[s].seen >= MaxRetries
                  /\ excused'.givenUp = excused.givenUp \cup {e}
      BY <1>5, <2>3 DEF SweepDoes, LetGo, SelectDoes, PublishDoes, PublishFailsDoes, TakeDoes,
                        ErrorDoes, DieDoes
    <3>2. troubles' = troubles /\ sweeper[s].event = e
      BY <3>1 DEF LetGo, SameTroubles
    <3>3. CASE excused'.givenUp = excused.givenUp
      BY <1>3, <3>2, <3>3
    <3>4. CASE /\ sweeper[s].pc = "refused" /\ sweeper[s].seen >= MaxRetries
               /\ excused'.givenUp = excused.givenUp \cup {e}
      <4>1. troubles[e] > MaxRetries \/ sweeper[s].seen + 1 + Cardinality(Failed(e)) <= troubles[e]
        BY <1>1, <3>2, <3>4 DEF RetriesAreTroubles, Counted
      <4>2. sweeper[s].seen \in Nat /\ Cardinality(Failed(e)) \in Nat
        BY <1>1, FailedAreFinite DEF TypeOK, Sweeper
      <4>3. troubles[e] > MaxRetries
        <5> HIDE DEF Failed
        <5> QED
          BY <1>2, <3>4, <4>1, <4>2
      <4> QED
        BY <1>1, <3>2, <3>4, <4>3 DEF GivenUpAfterRetries
    <3> QED
      BY <3>1, <3>3, <3>4
  <2> QED
    BY <1>5, <2>1, <2>2, <2>3 DEF SweepDoes
<1> QED
  BY <1>4, <1>5, StepEffect

-----------------------------------------------------------------------------
(* One message, or one row that one sweep holds.                           *)

\* A step that neither moves the event nor who holds its row.
LEMMA MessageStays ==
    ASSUME NEW f \in Events, OneMessage(f), task'[f].status = task[f].status,
           Messages(f)' = Messages(f),
           \A s \in Sweepers : /\ f \in sweeper'[s].batch <=> f \in sweeper[s].batch
                               /\ IsQueued(s, f) => IsQueued(s, f)'
    PROVE  OneMessage(f)'
BY DEF OneMessage, InBatch

LEMMA SweepKeepsMessage ==
    ASSUME IInv, TypedAndAsked', Grows, NEW s \in Sweepers, SweepDoes(s),
           NEW f \in Events, f \notin excused'.doubled
    PROVE  OneMessage(f)'
<1>1. TypeOK /\ EventsInOrder
  BY DEF IInv
<1>2. queue[f] \in Nat /\ sends[f] \in Nat /\ sends' = sends /\ SweepInOrder(s)
  BY <1>1 DEF TypeOK, SweepDoes, Unswept, EventsInOrder
<1>3. OneMessage(f)
  BY DEF IInv, MessagesInOrder, Grows
<1>4. \A t \in Sweepers \ {s} : sweeper'[t] = sweeper[t]
  BY DEF SweepDoes, SweepTyped, Alone
<1>5. ASSUME task'[f] = task[f], queue'[f] = queue[f],
             f \in sweeper'[s].batch <=> f \in sweeper[s].batch,
             IsQueued(s, f) => IsQueued(s, f)'
      PROVE  OneMessage(f)'
  <2>1. Messages(f)' = Messages(f)
    BY <1>2, <1>5 DEF Messages
  <2>2. \A t \in Sweepers : /\ f \in sweeper'[t].batch <=> f \in sweeper[t].batch
                            /\ IsQueued(t, f) => IsQueued(t, f)'
    BY <1>4, <1>5 DEF IsQueued
  <2> QED
    BY <1>3, <1>5, <2>1, <2>2, MessageStays
<1>6. ASSUME f \in sweeper[s].batch, ~IsQueued(s, f)
      PROVE  Messages(f) = 0 /\ \A t \in Sweepers \ {s} : ~InBatch(t, f)
  BY <1>3, <1>6 DEF OneMessage, InBatch
<1>7. CASE \E tasks \in SUBSET Events : SelectDoes(s, tasks)
  <2>1. PICK tasks \in SUBSET Events : SelectDoes(s, tasks)
    BY <1>7
  <2>2. /\ sweeper[s].batch = {} /\ sweeper[s].pc = "idle" /\ task' = task /\ queue' = queue
        /\ sweeper'[s].batch = tasks /\ sweeper'[s].pc = "each" /\ tasks \subseteq Waiting
    BY <1>2, <2>1 DEF SelectDoes, SweepInOrder, SameRows, SameMessages
  <2>3. CASE f \notin tasks
    BY <1>5, <2>2, <2>3 DEF IsQueued
  <2>4. CASE f \in tasks
    <3>1. \A t \in Sweepers : ~InBatch(t, f)
      BY <2>1, <2>2, <2>4 DEF SelectDoes, InBatch
    <3>2. task[f].status \in {"pending", "processing"}
      BY <2>2, <2>4 DEF Waiting
    <3>3. Messages(f) = 0
      BY <1>3, <3>1, <3>2 DEF OneMessage
    <3>4. Messages(f)' = 0
      BY <1>2, <2>2, <3>3 DEF Messages
    <3> QED
      BY <1>4, <2>2, <2>4, <3>1, <3>2, <3>4 DEF OneMessage, InBatch
  <2> QED
    BY <2>3, <2>4
<1>8. CASE \E e \in Events : PublishDoes(s, e) \/ PublishFailsDoes(s, e)
  <2>1. PICK e \in Events : PublishDoes(s, e) \/ PublishFailsDoes(s, e)
    BY <1>8
  <2>2. /\ sweeper[s].pc = "each" /\ sweeper'[s].event = e /\ e \in sweeper[s].batch
        /\ sweeper'[s].batch = sweeper[s].batch /\ OneRow(e)
        /\ task'[e].status = "processing"
        /\ \A g \in Events \ {e} : queue'[g] = queue[g]
    BY <2>1 DEF PublishDoes, PublishFailsDoes, TakeDoes
  <2>3. CASE f # e
    BY <1>5, <2>2, <2>3 DEF OneRow, IsQueued
  <2>4. CASE f = e
    <3>1. Messages(f) = 0 /\ \A t \in Sweepers \ {s} : ~InBatch(t, f)
      BY <1>6, <2>2, <2>4 DEF IsQueued
    <3>2. \A t \in Sweepers \ {s} : ~InBatch(t, f)'
      BY <1>4, <3>1 DEF InBatch
    <3>3. Messages(f)' <= 1 /\ (IsQueued(s, f)' \/ Messages(f)' = 0)
      <4>1. CASE PublishDoes(s, e)
        BY <1>2, <2>4, <3>1, <4>1 DEF PublishDoes, TakeDoes, Messages, IsQueued
      <4>2. CASE PublishFailsDoes(s, e)
        BY <1>2, <2>4, <3>1, <4>2 DEF PublishFailsDoes, Messages
      <4> QED
        BY <2>1, <4>1, <4>2
    <3>4. InBatch(s, f)' /\ task'[f].status = "processing"
      BY <2>2, <2>4 DEF InBatch
    <3> HIDE DEF Messages, IsQueued, InBatch
    <3> QED
      BY <3>2, <3>3, <3>4 DEF OneMessage
  <2> QED
    BY <2>3, <2>4
<1>9. CASE \E e \in Events : ErrorDoes(s, e)
  <2>1. PICK e \in Events : ErrorDoes(s, e)
    BY <1>9
  <2>2. /\ task' = task /\ queue' = queue /\ sweeper'[s].batch = sweeper[s].batch
        /\ sweeper[s].pc = "queued" => e \in excused'.doubled /\ sweeper[s].event = e
    BY <2>1 DEF ErrorDoes, SameRows, SameMessages
  <2> QED
    BY <1>5, <2>2 DEF IsQueued
<1>10. CASE \E e \in Events :
                LetGo(s, e) /\ (sweeper[s].pc = "queued" => task'[e].status = "completed")
  <2>1. PICK e \in Events :
          LetGo(s, e) /\ (sweeper[s].pc = "queued" => task'[e].status = "completed")
    BY <1>10
  <2>2. /\ e \in sweeper[s].batch /\ sweeper[s].event = e
        /\ sweeper'[s].batch = sweeper[s].batch \ {e}
        /\ queue' = queue /\ OneRow(e) /\ Messages(f)' = Messages(f)
    BY <1>2, <2>1 DEF LetGo, SameMessages, Messages
  <2>3. CASE f # e
    BY <1>5, <2>2, <2>3 DEF OneRow, IsQueued
  <2>4. CASE f = e
    <3>1. \A t \in Sweepers \ {s} : ~InBatch(t, f)
      BY <1>3, <2>2, <2>4 DEF OneMessage, InBatch
    <3>2. \A t \in Sweepers : ~InBatch(t, f)'
      BY <1>4, <2>2, <2>4, <3>1 DEF InBatch
    <3>3. Messages(f)' <= 1
      BY <1>3, <2>2 DEF OneMessage
    <3>4. task'[f].status = "completed" \/ Messages(f)' = 0
      BY <1>6, <2>1, <2>2, <2>4 DEF IsQueued
    <3> HIDE DEF Messages, IsQueued, InBatch
    <3> QED
      BY <3>2, <3>3, <3>4 DEF OneMessage
  <2> QED
    BY <2>3, <2>4
<1>11. CASE DieDoes(s)
  <2>1. /\ task' = task /\ queue' = queue /\ sweeper'[s].batch = {}
        /\ sweeper[s].pc = "queued" => sweeper[s].event \in excused'.doubled
    BY <1>11 DEF DieDoes, SameRows, SameMessages
  <2>2. CASE f \notin sweeper[s].batch
    BY <1>2, <1>5, <2>1, <2>2 DEF IsQueued, SweepInOrder
  <2>3. CASE f \in sweeper[s].batch
    <3>1. Messages(f) = 0 /\ \A t \in Sweepers \ {s} : ~InBatch(t, f)
      BY <1>6, <2>1, <2>3 DEF IsQueued
    <3>2. \A t \in Sweepers : ~InBatch(t, f)'
      BY <1>4, <2>1, <3>1 DEF InBatch
    <3>3. Messages(f)' = 0
      BY <1>2, <2>1, <3>1 DEF Messages
    <3> HIDE DEF Messages, IsQueued, InBatch
    <3> QED
      BY <3>2, <3>3 DEF OneMessage
  <2> QED
    BY <2>2, <2>3
<1> QED
  BY <1>7, <1>8, <1>9, <1>10, <1>11 DEF SweepDoes

LEMMA MessagesKept ==
    ASSUME IInv, TypedAndAsked', Grows, [Next]_vars, NEW f \in Events, f \notin excused'.doubled
    PROVE  OneMessage(f)'
<1>1. TypeOK /\ EventsInOrder
  BY DEF IInv
<1>2. queue \in [Events -> Nat] /\ sends \in [Events -> Nat]
  BY <1>1 DEF TypeOK
<1>3. OneMessage(f)
  BY DEF IInv, MessagesInOrder, Grows
<1>4. ASSUME task'[f] = task[f], Messages(f)' = Messages(f), sweeper' = sweeper
      PROVE  OneMessage(f)'
  BY <1>3, <1>4, MessageStays DEF IsQueued
<1>5. CASE \E e \in Events : TriggerTyped(e) /\ TriggerDoes(e)
  <2>1. PICK e \in Events : TriggerTyped(e) /\ TriggerDoes(e)
    BY <1>5
  <2>2. sends' = sends /\ sweeper' = sweeper
    BY <2>1 DEF TriggerTyped
  <2>3. CASE f # e
    BY <1>4, <2>1, <2>2, <2>3 DEF TriggerTyped, Messages
  <2>4. CASE f = e
    <3>1. task[f].status = "none" /\ queue[f] = 0 /\ sends[f] = 0
      BY <1>1, <1>2, <2>1, <2>4 DEF TriggerTyped, EventsInOrder, Untriggered, Messages
    <3>2. \A s \in Sweepers : ~InBatch(s, f)'
      BY <1>1, <2>1, <2>2, <2>4 DEF TriggerTyped, EventsInOrder, SweepInOrder, InBatch
    <3>3. Messages(f)' <= 1
          /\ (Messages(f)' = 0 \/ task'[f].status \notin {"pending", "processing"})
      BY <2>1, <2>2, <2>4, <3>1 DEF TriggerDoes, Messages
    <3> HIDE DEF Messages, InBatch
    <3> QED
      BY <3>2, <3>3 DEF OneMessage
  <2> QED
    BY <2>3, <2>4
<1>6. CASE \E e \in Events : CleanUpDoes(e)
  <2>1. PICK e \in Events : CleanUpDoes(e)
    BY <1>6
  <2>2. sends' = sends /\ sweeper' = sweeper /\ queue' = queue /\ Messages(f)' = Messages(f)
    BY <2>1 DEF CleanUpDoes, Unswept, Messages
  <2>3. CASE f # e
    BY <1>4, <2>1, <2>2, <2>3 DEF CleanUpDoes, OneRow
  <2>4. CASE f = e
    <3>1. task'[f].status = "removed" /\ \A s \in Sweepers : ~InBatch(s, f)'
      BY <2>1, <2>2, <2>4 DEF CleanUpDoes, InBatch
    <3>2. Messages(f)' <= 1
      BY <1>3, <2>2 DEF OneMessage
    <3> HIDE DEF Messages, InBatch
    <3> QED
      BY <3>1, <3>2 DEF OneMessage
  <2> QED
    BY <2>3, <2>4
<1>7. CASE \E s \in Sweepers : SweepDoes(s)
  BY <1>7, SweepKeepsMessage
<1>8. ASSUME NEW w \in Workers, WorkDoes(w) PROVE OneMessage(f)'
  <2>1. task' = task /\ sweeper' = sweeper
    BY <1>8 DEF WorkDoes, Unworked
  <2>2. CASE \E e \in Events : SendDoes(w, e)
    BY <1>2, <1>4, <2>1, <2>2 DEF SendDoes, Messages
  <2>3. CASE LoadDoes(w) \/ RecordDoes(w) \/ AcknowledgeDoes(w)
    BY <1>4, <2>1, <2>3 DEF LoadDoes, RecordDoes, AcknowledgeDoes, SameQueues, Messages
  <2>4. CASE \E e \in Events : RedeliverDoes(w, e)
    BY <1>4, <2>1, <2>4 DEF RedeliverDoes, Messages
  <2> QED
    BY <1>8, <2>2, <2>3, <2>4 DEF WorkDoes
<1>9. CASE RestDoes
  BY <1>4, <1>9 DEF RestDoes, Messages
<1> QED
  BY <1>5, <1>6, <1>7, <1>8, <1>9, StepEffect

-----------------------------------------------------------------------------
(* The counters of the webhook.                                            *)

LEMMA CountersKept ==
    ASSUME IInv, TypedAndAsked', [Next]_vars
    PROVE  CountersInOrder'
<1>1. TypeOK /\ CountersInOrder
  BY DEF IInv
<1>2. counted \in Nat /\ logs \in Nat /\ \A v \in Workers : worker[v].seen \in Nat
  BY <1>1 DEF TypeOK, Worker
<1>3. CASE worker' = worker /\ counted' = counted /\ logs' = logs /\ (excused'.raced <=> excused.raced)
  BY <1>1, <1>3 DEF CountersInOrder, Loaded
<1>4. CASE \/ \E e \in Events : TriggerTyped(e) \/ CleanUpDoes(e)
           \/ \E s \in Sweepers : SweepDoes(s)
  BY <1>3, <1>4 DEF TriggerTyped, CleanUpDoes, SweepDoes, Unswept, SelectDoes, PublishDoes,
                    PublishFailsDoes, TakeDoes, ErrorDoes, LetGo, DieDoes, NoLoss
<1>5. ASSUME NEW w \in Workers, WorkDoes(w) PROVE CountersInOrder'
  <2>1. \A v \in Workers \ {w} : worker'[v] = worker[v]
    BY <1>5 DEF WorkDoes, WorkTyped
  <2>2. ASSUME worker'[w].pc # "loaded", counted' = counted, logs' = logs,
               excused'.raced <=> excused.raced
        PROVE  CountersInOrder'
    <3>1. \A v \in Workers : Loaded(v)' => v # w /\ Loaded(v) /\ worker'[v] = worker[v]
      BY <2>1, <2>2 DEF Loaded
    <3> HIDE DEF Loaded
    <3> QED
      BY <1>1, <2>2, <3>1 DEF CountersInOrder
  <2>3. CASE \/ AcknowledgeDoes(w)
             \/ \E e \in Events : SendDoes(w, e) \/ RedeliverDoes(w, e)
    BY <2>2, <2>3 DEF AcknowledgeDoes, SendDoes, RedeliverDoes, NoLoss
  <2>4. CASE LoadDoes(w)
    <3>1. /\ worker'[w].seen = counted /\ counted' = counted /\ logs' = logs
          /\ worker[w].pc = "sent"
          /\ ~excused'.raced => ~excused.raced /\ \A v \in Workers : ~Loaded(v)
      BY <2>4 DEF LoadDoes
    <3>2. \A v \in Workers : Loaded(v)' => v = w \/ (Loaded(v) /\ worker'[v] = worker[v])
      BY <2>1 DEF Loaded
    <3> HIDE DEF Loaded
    <3> QED
      BY <1>1, <3>1, <3>2 DEF CountersInOrder
  <2>5. CASE RecordDoes(w)
    <3>1. excused' = excused /\ worker'[w].pc = "logged"
      BY <2>5 DEF RecordDoes
    <3>2. CASE counted' = counted /\ logs' = logs
      BY <2>2, <3>1, <3>2
    <3>3. CASE Loaded(w) /\ counted' = worker[w].seen + 1 /\ logs' = logs + 1
      <4>1. \A v \in Workers : Loaded(v)' => v # w /\ Loaded(v) /\ worker'[v] = worker[v]
        BY <2>1, <3>1 DEF Loaded
      <4>2. counted' <= logs'
        BY <1>1, <1>2, <3>3 DEF CountersInOrder
      <4>3. \A v \in Workers : Loaded(v)' => worker'[v].seen <= logs'
        BY <1>1, <1>2, <3>3, <4>1 DEF CountersInOrder
      <4>4. ASSUME ~excused'.raced
            PROVE  counted' = logs' /\ \A v \in Workers : ~Loaded(v)'
        BY <1>1, <1>2, <3>1, <3>3, <4>1, <4>4 DEF CountersInOrder
      <4> HIDE DEF Loaded
      <4> QED
        BY <4>2, <4>3, <4>4 DEF CountersInOrder
    <3> QED
      BY <2>5, <3>2, <3>3 DEF RecordDoes
  <2> QED
    BY <1>5, <2>3, <2>4, <2>5 DEF WorkDoes
<1>6. CASE RestDoes
  <2>1. worker' = worker /\ excused' = excused
    BY <1>6 DEF RestDoes
  <2>2. CASE counted' = counted /\ logs' = logs
    BY <1>3, <2>1, <2>2
  <2>3. CASE counted' = 0 /\ logs' = 0 /\ \A w \in Workers : ~Loaded(w)
    BY <2>1, <2>3 DEF CountersInOrder, Loaded
  <2> QED
    BY <1>6, <2>2, <2>3 DEF RestDoes
<1> QED
  BY <1>4, <1>5, <1>6, StepEffect

-----------------------------------------------------------------------------
(* The log rows.                                                           *)

\* Sends and tasks at work are counted.
LEMMA AttemptsTyped ==
    ASSUME TypeOK, AskedInOrder
    PROVE  /\ IsFiniteSet(asked) /\ Attempts \in [asked -> Nat] /\ Total(Attempts) \in Nat
           /\ IsFiniteSet(Unlogged) /\ Cardinality(Unlogged) \in Nat
<1>1. IsFiniteSet(asked)
  BY AskedIsFinite
<1>2. Attempts \in [asked -> Nat]
  BY DEF Attempts, TypeOK
<1>3. Total(Attempts) \in Nat
  BY <1>1, <1>2, TotalType
<1>4. Unlogged \subseteq Workers
  BY DEF Unlogged
<1>5. IsFiniteSet(Unlogged)
  BY <1>4, ProcessesAssumption, FS_Subset
<1> QED
  BY <1>1, <1>2, <1>3, <1>5, FS_CardinalityType

\* While no event is sent, the logs and the tasks at work may only become fewer.
LEMMA LogsStay ==
    ASSUME IInv, TypedAndAsked', Attempts' = Attempts, Unlogged' \subseteq Unlogged,
           logs' <= logs
    PROVE  LogsInOrder'
<1>1. TypeOK /\ AskedInOrder /\ LogsInOrder /\ logs \in Nat /\ logs' \in Nat
  BY DEF IInv, TypedAndAsked, TypeOK
<1>2. Total(Attempts) \in Nat /\ IsFiniteSet(Unlogged) /\ Cardinality(Unlogged) \in Nat
  BY <1>1, AttemptsTyped
<1>3. Cardinality(Unlogged') <= Cardinality(Unlogged)
  BY <1>2, FS_Subset
<1>4. Cardinality(Unlogged') \in Nat
  <2>1. IsFiniteSet(Unlogged')
    BY <1>2, FS_Subset
  <2> QED
    BY <2>1, FS_CardinalityType
<1>5. logs + Cardinality(Unlogged) <= Total(Attempts)
  BY <1>1 DEF LogsInOrder
<1> HIDE DEF Attempts, Unlogged
<1>6. logs' + Cardinality(Unlogged') <= Total(Attempts')
  BY <1>1, <1>2, <1>3, <1>4, <1>5
<1> QED
  BY <1>6 DEF LogsInOrder, Attempts, Unlogged

LEMMA LogsKept ==
    ASSUME IInv, TypedAndAsked', [Next]_vars
    PROVE  LogsInOrder'
<1>1. TypeOK /\ AskedInOrder /\ EventsInOrder /\ LogsInOrder
  BY DEF IInv
<1>2. sends \in [Events -> Nat] /\ sends' \in [Events -> Nat] /\ logs \in Nat /\ logs' \in Nat
      /\ asked \subseteq Events /\ asked' \subseteq Events /\ worker \in [Workers -> Worker]
  BY <1>1 DEF TypedAndAsked, TypeOK
<1>3. /\ IsFiniteSet(asked) /\ Attempts \in [asked -> Nat] /\ Total(Attempts) \in Nat
      /\ IsFiniteSet(Unlogged) /\ Cardinality(Unlogged) \in Nat
  BY <1>1, AttemptsTyped
<1>4. logs + Cardinality(Unlogged) <= Total(Attempts)
  BY <1>1 DEF LogsInOrder
<1>5. ASSUME asked' = asked, sends' = sends PROVE Attempts' = Attempts
  BY <1>5 DEF Attempts
<1>6. ASSUME NEW e \in Events, TriggerTyped(e) PROVE LogsInOrder'
  <2>1. e \notin asked /\ asked' = asked \cup {e} /\ worker' = worker /\ logs' = logs
        /\ sends' = sends
    BY <1>6 DEF TriggerTyped
  <2>2. sends[e] = 0
    <3>1. sends[e] + queue[e] = 0 /\ sends[e] \in Nat /\ queue[e] \in Nat
      BY <1>1, <2>1 DEF EventsInOrder, Untriggered, Messages, TypeOK
    <3> QED
      BY <3>1
  <2>3. /\ Attempts' \in [asked \cup {e} -> Nat] /\ Attempts'[e] = 0
        /\ \A f \in asked : Attempts'[f] = Attempts[f]
    BY <1>2, <2>1, <2>2 DEF Attempts
  <2>4. Unlogged' = Unlogged
    BY <2>1 DEF Unlogged
  <2> HIDE DEF Attempts, Unlogged
  <2>5. Total(Attempts') = Total(Attempts) + Attempts'[e]
    <3>1. IsFiniteSet(asked) /\ Attempts \in [asked -> Nat] /\ e \notin asked
      BY <1>3, <2>1
    <3> QED
      BY <2>3, <3>1, TotalMore
  <2>6. logs' + Cardinality(Unlogged') <= Total(Attempts')
    BY <1>3, <1>4, <2>1, <2>3, <2>4, <2>5
  <2> QED
    BY <2>6 DEF LogsInOrder, Attempts, Unlogged
<1>7. CASE \/ \E e \in Events : CleanUpDoes(e)
           \/ \E s \in Sweepers : SweepDoes(s)
  <2>1. asked' = asked /\ sends' = sends /\ worker' = worker /\ logs' = logs
    BY <1>7 DEF CleanUpDoes, SweepDoes, Unswept
  <2>2. Unlogged' = Unlogged
    BY <2>1 DEF Unlogged
  <2> QED
    BY <1>2, <1>5, <2>1, <2>2, LogsStay
<1>8. ASSUME NEW w \in Workers, WorkDoes(w) PROVE LogsInOrder'
  <2>1. (\A v \in Workers \ {w} : worker'[v] = worker[v]) /\ asked' = asked
    BY <1>8 DEF WorkDoes, WorkTyped, Unworked
  <2>2. CASE \E e \in Events : SendDoes(w, e)
    <3>1. PICK e \in Events : SendDoes(w, e)
      BY <2>2
    <3>2. /\ worker[w].pc = "idle" /\ worker'[w].pc = "sent" /\ logs' = logs
          /\ sends'[e] = sends[e] + 1 /\ \A f \in Events \ {e} : sends'[f] = sends[f]
      BY <3>1 DEF SendDoes
    <3>3. e \in asked
      <4>1. sends[e] + queue[e] > 0
        BY <1>1, <3>1 DEF SendDoes, TypeOK
      <4> QED
        BY <1>1, <4>1 DEF EventsInOrder, Untriggered, Messages
    <3>4. Unlogged' = Unlogged \cup {w} /\ w \notin Unlogged
      BY <2>1, <3>2 DEF Unlogged
    <3>5. /\ Attempts' \in [asked -> Nat] /\ Attempts'[e] = Attempts[e] + 1
          /\ \A f \in asked \ {e} : Attempts'[f] = Attempts[f]
      BY <1>2, <2>1, <3>2, <3>3 DEF Attempts
    <3> HIDE DEF Attempts, Unlogged
    <3>6. Cardinality(Unlogged') = Cardinality(Unlogged) + 1
      BY <1>3, <3>4, FS_AddElement
    <3>7. Total(Attempts') = Total(Attempts) - Attempts[e] + Attempts'[e]
      BY <1>3, <3>3, <3>5, TotalChange
    <3>8. Attempts[e] \in Nat
      BY <1>3, <3>3
    <3>9. logs' + Cardinality(Unlogged') <= Total(Attempts')
      BY <1>2, <1>3, <1>4, <3>2, <3>5, <3>6, <3>7, <3>8
    <3> QED
      BY <3>9 DEF LogsInOrder, Attempts, Unlogged
  <2>3. ASSUME worker'[w].pc \in {"sent", "loaded"} => worker[w].pc \in {"sent", "loaded"}
        PROVE  Unlogged' \subseteq Unlogged
    BY <2>1, <2>3 DEF Unlogged
  <2>4. CASE LoadDoes(w)
    BY <1>2, <1>5, <2>1, <2>3, <2>4, LogsStay DEF LoadDoes, SameQueues
  <2>5. CASE AcknowledgeDoes(w) \/ \E e \in Events : RedeliverDoes(w, e)
    BY <1>2, <1>5, <2>1, <2>3, <2>5, LogsStay DEF AcknowledgeDoes, RedeliverDoes, SameQueues
  <2>6. CASE RecordDoes(w)
    <3>1. worker[w].pc \in {"sent", "loaded"} /\ worker'[w].pc = "logged" /\ sends' = sends
          /\ logs' <= logs + 1
      BY <1>2, <2>6 DEF RecordDoes, SameQueues
    <3>2. Unlogged' = Unlogged \ {w} /\ w \in Unlogged
      BY <2>1, <3>1 DEF Unlogged
    <3>3. Attempts' = Attempts
      BY <1>5, <2>1, <3>1
    <3> HIDE DEF Attempts, Unlogged
    <3>4. Cardinality(Unlogged') = Cardinality(Unlogged) - 1
      BY <1>3, <3>2, FS_RemoveElement
    <3>5. logs' + Cardinality(Unlogged') <= Total(Attempts')
      BY <1>2, <1>3, <1>4, <3>1, <3>3, <3>4
    <3> QED
      BY <3>5 DEF LogsInOrder, Attempts, Unlogged
  <2> QED
    BY <1>8, <2>2, <2>4, <2>5, <2>6 DEF WorkDoes
<1>9. CASE RestDoes
  <2>1. asked' = asked /\ sends' = sends /\ worker' = worker /\ logs' <= logs
    BY <1>2, <1>9 DEF RestDoes
  <2>2. Unlogged' = Unlogged
    BY <2>1 DEF Unlogged
  <2> QED
    BY <1>5, <2>1, <2>2, LogsStay
<1> QED
  BY <1>6, <1>7, <1>8, <1>9, StepEffect

-----------------------------------------------------------------------------
(* The theorems.                                                           *)

LEMMA InitInv == Init => IInv
<1> SUFFICES ASSUME Init PROVE IInv
  OBVIOUS
<1>1. /\ broker \in BOOLEAN /\ hook = TRUE /\ asked = {}
      /\ task = [e \in Events |-> [status |-> "none", retries |-> 0]]
      /\ queue = [e \in Events |-> 0] /\ sends = [e \in Events |-> 0]
      /\ troubles = [e \in Events |-> 0]
      /\ sweeper = [s \in Sweepers |-> Swept] /\ worker = [w \in Workers |-> Unemployed]
      /\ counted = 0 /\ logs = 0 /\ faults = 0
      /\ excused = [lost |-> {}, doubled |-> {}, givenUp |-> {}, raced |-> FALSE]
  BY DEF Init
<1>2. TypeOK
  BY <1>1, SweptTyped, UnemployedTyped, NumbersAssumption DEF TypeOK, Task, Statuses
<1>3. AskedInOrder
  <2>1. asked = 1 .. 0
    BY <1>1
  <2> QED
    BY <2>1 DEF AskedInOrder
<1>4. /\ \A s \in Sweepers : sweeper[s].pc = "idle" /\ sweeper[s].batch = {}
      /\ \A w \in Workers : worker[w].pc = "idle"
  BY <1>1, SweptTyped, UnemployedTyped
<1>5. \A e \in Events : task[e].status = "none" /\ task[e].retries = 0 /\ Messages(e) = 0
                        /\ troubles[e] = 0
  BY <1>1 DEF Messages
<1>6. EventsInOrder
  BY <1>1, <1>4, <1>5 DEF EventsInOrder, SweepInOrder, WorkerInOrder, Untriggered
<1>7. \A e \in Events : Cardinality(Failed(e)) = 0
  <2>1. \A e \in Events : Failed(e) = {}
    BY <1>4 DEF Failed
  <2> QED
    BY <2>1, FS_EmptySet
<1>8. RetriesInOrder
  BY <1>1, <1>4, <1>5, <1>7 DEF RetriesInOrder, RetriesAreTroubles, Counted, GivenUpAfterRetries
<1>9. MessagesInOrder
  <2> HIDE DEF Messages
  <2> QED
    BY <1>4, <1>5 DEF MessagesInOrder, OneMessage, InBatch
<1>10. CountersInOrder
  BY <1>1, <1>4 DEF CountersInOrder, Loaded
<1>11. LogsInOrder
  <2>1. Unlogged = {} /\ DOMAIN Attempts = {}
    BY <1>1, <1>4 DEF Unlogged, Attempts
  <2> HIDE DEF Unlogged, Attempts
  <2>2. Cardinality(Unlogged) = 0
    BY <2>1, FS_EmptySet
  <2>3. Total(Attempts) = 0
    BY <2>1, TotalOfNone
  <2> QED
    BY <1>1, <2>2, <2>3 DEF LogsInOrder
<1> QED
  BY <1>2, <1>3, <1>6, <1>8, <1>9, <1>10, <1>11 DEF IInv

LEMMA NextInv == IInv /\ [Next]_vars => IInv'
<1> SUFFICES ASSUME IInv, [Next]_vars PROVE IInv'
  OBVIOUS
<1>1. TypedAndAsked' /\ Grows
  BY TypesKept, Growing
<1>2. EventsInOrder'
  BY <1>1, EventsKept
<1>3. RetriesInOrder'
  BY <1>1, RetriesKept, GivenUpKept DEF RetriesInOrder
<1>4. MessagesInOrder'
  BY <1>1, MessagesKept DEF MessagesInOrder
<1>5. CountersInOrder'
  BY <1>1, CountersKept
<1>6. LogsInOrder'
  BY <1>1, LogsKept
<1> QED
  BY <1>1, <1>2, <1>3, <1>4, <1>5, <1>6 DEF IInv, TypedAndAsked

LEMMA DeliveryInvariant == Spec => []IInv
BY InitInv, NextInv, PTL DEF Spec

\* Every variable of the delivery keeps its type, however often the broker, the
\* commits and the processes fail.
THEOREM DeliveryTyped == Spec => []TypeOK
<1>1. IInv => TypeOK
  BY DEF IInv
<1> QED
  BY <1>1, DeliveryInvariant, PTL

\* An event that trigger_webhook accepted is sent, queued, at work, or in a row a
\* sweep will take, unless its row could not be stored or a sweep gave it up.
THEOREM NoEventForgotten == Spec => []EventsAreHeld
<1>1. IInv => EventsAreHeld
  <2> SUFFICES ASSUME IInv, NEW e \in asked
               PROVE  \/ sends[e] > 0 \/ queue[e] > 0 \/ e \in excused.lost \cup excused.givenUp
                      \/ task[e].status \in {"pending", "processing"}
    BY DEF EventsAreHeld
  <2>1. Held(e) /\ e \in Events /\ sends[e] \in Nat /\ queue[e] \in Nat
    BY DEF IInv, EventsInOrder, TypeOK
  <2> QED
    BY <2>1 DEF Held, Messages
<1> QED
  BY <1>1, DeliveryInvariant, PTL

\* Two tasks send the same event only if something failed between an effect and
\* the note of it, or two sweeps held its row.
THEOREM SendsAreExplained == Spec => []SentTwiceNeedsCause
<1>1. IInv => SentTwiceNeedsCause
  <2> SUFFICES ASSUME IInv, NEW e \in Events, e \notin excused.doubled
               PROVE  ~(sends[e] > 1)
    BY DEF SentTwiceNeedsCause
  <2>1. sends[e] + queue[e] <= 1 /\ sends[e] \in Nat /\ queue[e] \in Nat
    BY DEF IInv, MessagesInOrder, OneMessage, Messages, TypeOK
  <2> QED
    BY <2>1
<1> QED
  BY <1>1, DeliveryInvariant, PTL

\* However the sweeps overwrite each other's retry_count, an event is given up only
\* after more than MaxRetries failures.
THEOREM GivingUpTakesRetries == Spec => []GivenUpAfterRetries
<1>1. IInv => GivenUpAfterRetries
  BY DEF IInv, RetriesInOrder
<1> QED
  BY <1>1, DeliveryInvariant, PTL

\* success_count and failure_count never exceed the log rows, and equal them as
\* long as no two workers loaded the webhook at once; and there are no more log
\* rows than tasks that have sent.
THEOREM CountersAgreeWithLogs == Spec => []CountersFollowLogs
<1>1. IInv => CountersFollowLogs
  <2> SUFFICES ASSUME IInv PROVE CountersFollowLogs
    OBVIOUS
  <2>1. TypeOK /\ AskedInOrder /\ CountersInOrder /\ LogsInOrder /\ logs \in Nat
    BY DEF IInv, TypeOK
  <2>2. CountersAgree
    BY <2>1 DEF CountersInOrder, CountersAgree
  <2>3. logs <= Total(Attempts)
    <3>1. Total(Attempts) \in Nat /\ Cardinality(Unlogged) \in Nat
      BY <2>1, AttemptsTyped
    <3>2. logs + Cardinality(Unlogged) <= Total(Attempts)
      BY <2>1 DEF LogsInOrder
    <3> QED
      BY <2>1, <3>1, <3>2
  <2> QED
    BY <2>2, <2>3 DEF CountersFollowLogs, Attempts
<1> QED
  BY <1>1, DeliveryInvariant, PTL
=============================================================================
