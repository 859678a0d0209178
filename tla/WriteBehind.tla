----------------------------- MODULE WriteBehind -----------------------------
(***************************************************************************)
(* The write-behind buffers in Redis and the processes that flush them to  *)
(* PostgreSQL.                                                             *)
(*                                                                         *)
(*   activities  a list; a batch is read, inserted, committed, trimmed     *)
(*   usage       a hash, a set of products and a HyperLogLog per key and   *)
(*               day, and a set of those there are; read, added to the     *)
(*               KeyAnalytics row, committed, deleted one by one, taken    *)
(*               off the set                                               *)
(*   devices     a set; read, written as last_seen, committed, deleted     *)
(*                                                                         *)
(* A flusher is a Celery worker running the periodic task, which flushes   *)
(* all three, or a process of the API: its requests start a thread that    *)
(* flushes the activities, at most one per process, and flush the usage    *)
(* themselves.  Nothing keeps two flushers apart, and Redis and PostgreSQL *)
(* share no transaction.  What is not flushed in time expires.             *)
(*                                                                         *)
(* The buffers have nothing in common but the flushers' time, so requests  *)
(* feed one of them (fed) in each behaviour.                               *)
(***************************************************************************)
EXTENDS Integers, Sequences, FiniteSets, FiniteSetsExt, SequencesExt, Totals

CONSTANTS
    Devices,      \* the devices that connect
    KeyOf,        \* the license key of each device
    Flushers,     \* the processes that flush
    BatchSize,    \* entries of one activity batch
    Threshold,    \* buffered activities that make a request start a flush
    MaxRequests,  \* bound: how much each buffer is given
    MaxFaults,    \* bound: failed commands, failed commits, kills and expiries
    BeatRuns,     \* whether a Celery beat sends the periodic task, to
                  \* workers that have an application context
    NoRow         \* no KeyAnalytics row was found

ASSUME SizesAssumption == BatchSize \in Nat \ {0} /\ Threshold \in Nat \ {0}
Buffers == {"activities", "usage", "devices"}

ASSUME BoundsAssumption == MaxRequests \in [Buffers -> Nat] /\ MaxFaults \in Nat
ASSUME KeyAssumption == DOMAIN KeyOf = Devices
ASSUME BeatAssumption == BeatRuns \in BOOLEAN
ASSUME NoRowAssumption == NoRow \notin Nat

\* The activities in the order they are logged, each of a user of its own.
Activities == 1 .. MaxRequests["activities"]

VARIABLES
    log,        \* Redis: the list of buffered activities
    hits, products, hll, \* Redis: connects, products (whether there are any) and
                         \* devices of the key and day
    listed,     \* Redis: the key and day is in the set of those to flush
    recent,     \* Redis: the set of devices whose last_seen is to be written
    stored,     \* PostgreSQL: how often an activity was inserted
    usage,      \* PostgreSQL: the KeyAnalytics rows of the key and day
    deleted,    \* PostgreSQL: activities whose user was deleted meanwhile
    flusher,    \* the flushers: program counter and what they hold
    fed,        \* the buffer that requests feed in this behaviour
    accepted, connects, updates, owed, expired, lapsed, \* history: what the buffers
                         \* were given, and what of it expired
    faults, incidents                   \* history: what went wrong

redis    == <<log, hits, products, hll, listed, recent>>
database == <<stored, usage, deleted>>
history  == <<accepted, connects, updates, owed, expired, lapsed>>
vars == <<redis, database, flusher, fed, history, faults, incidents>>

-----------------------------------------------------------------------------
Programs == {"task", "thread", "request"}

Steps == {"idle", "read", "insert", "trim",           \* activities
          "hash", "row", "add", "clear", "clearProducts", "clearDevices", "unlist", \* usage
          "members", "write", "drop"}                 \* devices

Incidents == {"activityOverlap", "untrimmed", "fallback",
              "usageOverlap", "lateUse", "uncleared",
              "deviceOverlap", "lateDevice", "groupFailed", "heldExpiry"}

Row == [hits : Nat, devices : Nat]

Flusher == [pc : Steps, program : Programs, batch : Seq(Activities), pulled : Nat,
            row : Nat \cup {NoRow}, image : Nat, members : SUBSET Devices]

Idle == [pc |-> "idle", program |-> "task", batch |-> <<>>, pulled |-> 0,
         row |-> NoRow, image |-> 0, members |-> {}]

Within(steps) == {f \in Flushers : flusher[f].pc \in steps}

\* Where a flusher works on what it read a while ago.
ActivityWindow == {"insert", "trim"}
UsageWindow    == {"row", "add", "clear"}
DeviceWindow   == {"write", "drop"}

Noted(steps, incident) == IF Within(steps) # {} THEN {incident} ELSE {}

Started(f, program, pc) ==
    [flusher EXCEPT ![f] = [Idle EXCEPT !.pc = pc, !.program = program]]

\* The task goes on to the next buffer, a thread or a request is done.
Continued(f, pc) ==
    [flusher EXCEPT ![f] =
        IF @.program = "task" /\ pc # "idle"
        THEN [Idle EXCEPT !.pc = pc, !.program = "task"] ELSE Idle]

Fault(kinds) ==
    /\ faults < MaxFaults
    /\ faults' = faults + 1
    /\ incidents' = incidents \cup kinds

-----------------------------------------------------------------------------
(* The requests.                                                           *)

\* The buffer is fed, and the bound not reached.
Accepts(buffer) ==
    fed = buffer /\ Cardinality(accepted) + connects + updates < MaxRequests[buffer]

\* buffer_user_activity in process f: the list is long enough or was not
\* flushed for a minute, and no flush of this process is under way.
MayStart(f) ==
    \/ Len(log') < Threshold /\ UNCHANGED flusher
    \/ flusher[f].pc # "idle" /\ UNCHANGED flusher
    \/ flusher[f].pc = "idle" /\ flusher' = Started(f, "thread", "read")

LogActivity(a, f) ==
    /\ Accepts("activities") /\ a = Cardinality(accepted) + 1
    /\ accepted' = accepted \cup {a}
    /\ log' = Append(log, a)
    /\ MayStart(f)
    /\ UNCHANGED <<fed, hits, products, hll, listed, recent, database, connects, updates, owed,
                   expired, lapsed, faults, incidents>>

\* A Redis command of it fails, before the RPUSH or after: False is returned
\* and log_activity writes the row itself.
LogDirectly(a) ==
    /\ Accepts("activities") /\ a = Cardinality(accepted) + 1
    /\ accepted' = accepted \cup {a}
    /\ stored' = [stored EXCEPT ![a] = @ + 1]
    /\ \/ log' = log /\ Fault({})
       \/ log' = Append(log, a) /\ Fault({"fallback"})
    /\ UNCHANGED <<fed, hits, products, hll, listed, recent, usage, deleted, flusher,
                   connects, updates, owed, expired, lapsed>>

\* buffer_device_update, when a known device connects.
BufferUpdate(d) ==
    /\ Accepts("devices")
    /\ updates' = updates + 1
    /\ recent' = recent \cup {d}
    /\ owed' = owed \cup {d}
    /\ incidents' = incidents \cup Noted(DeviceWindow, "lateDevice")
    /\ UNCHANGED <<fed, log, hits, products, hll, listed, database, flusher, accepted, connects,
                   expired, lapsed, faults>>

\* buffer_key_analytics_update, at the end of a connect; when the last flush was
\* a minute ago the request flushes the usage itself.
RecordUse(d, f) ==
    /\ Accepts("usage")
    /\ connects' = connects + 1
    /\ hits' = hits + 1
    /\ products' = TRUE
    /\ hll' = hll \cup {d}
    /\ listed' = TRUE
    /\ incidents' = incidents \cup Noted(UsageWindow, "lateUse")
    /\ \/ UNCHANGED flusher
       \/ flusher[f].pc = "idle" /\ flusher' = Started(f, "request", "hash")
    /\ UNCHANGED <<fed, log, recent, database, accepted, updates, owed, expired, lapsed, faults>>

\* Deleting a user deletes the stored activities; those in the buffer keep the
\* user's id, which no longer satisfies the foreign key.
DeleteUser(a) ==
    /\ a \in accepted /\ a \notin deleted
    /\ deleted' = deleted \cup {a}
    /\ UNCHANGED <<fed, redis, stored, usage, flusher, history, faults, incidents>>

-----------------------------------------------------------------------------
(* The times to live, which every request that feeds a key of Redis renews.  They run  *)
(* out whether or not a flusher is at work.                                            *)

Expires(window) == Fault(Noted(window, "heldExpiry"))

ExpireLog ==
    /\ log # <<>>
    /\ log' = <<>>
    /\ expired' = expired \cup ToSet(log)
    /\ Expires(ActivityWindow)
    /\ UNCHANGED <<fed, hits, products, hll, listed, recent, database, flusher, accepted,
                   connects, updates, owed, lapsed>>

\* The keys of a key and day are renewed together, in this order: the first of them are
\* gone.
ExpireUsage ==
    /\ listed \/ hits > 0 \/ products \/ hll # {}
    /\ \E gone \in {{"hll"}, {"hll", "hits"}, {"hll", "hits", "products"},
                    {"hll", "hits", "products", "listed"}} :
          /\ hll' = {}
          /\ IF "hits" \in gone THEN hits' = 0 /\ lapsed' = lapsed + hits
                                ELSE UNCHANGED <<hits, lapsed>>
          /\ products' = (products /\ "products" \notin gone)
          /\ listed' = (listed /\ "listed" \notin gone)
          /\ Expires(IF "hits" \in gone THEN UsageWindow ELSE {})
    /\ UNCHANGED <<fed, log, recent, database, flusher, accepted, connects, updates, owed,
                   expired>>

\* What expires is not owed any more.
ExpireUpdates ==
    /\ recent # {}
    /\ recent' = {}
    /\ owed' = owed \ recent
    /\ Fault({})
    /\ UNCHANGED <<fed, log, hits, products, hll, listed, database, flusher, accepted, connects,
                   updates, expired, lapsed>>

-----------------------------------------------------------------------------
(* flush_user_activities: batch after batch until the list is empty.       *)

StartTaskLate(f) ==
    /\ BeatRuns
    /\ flusher[f].pc = "idle"
    /\ Len(log) >= Threshold \/ listed \/ recent # {}
    /\ flusher' = Started(f, "task", "read")
    /\ UNCHANGED <<fed, redis, database, history, faults, incidents>>

StartTask(f) ==
    /\ BeatRuns
    /\ flusher[f].pc = "idle"
    /\ log # <<>> \/ listed \/ recent # {}
    /\ flusher' = Started(f, "task", "read")
    /\ UNCHANGED <<fed, redis, database, history, faults, incidents>>

ReadBatch(f) ==
    /\ flusher[f].pc = "read"
    /\ LET batch == SubSeq(log, 1, Min({BatchSize, Len(log)})) IN
       IF batch = <<>>
       THEN flusher' = Continued(f, "hash") /\ UNCHANGED incidents
       ELSE /\ flusher' = [flusher EXCEPT ![f].pc = "insert", ![f].batch = batch]
            /\ incidents' = incidents \cup Noted(ActivityWindow, "activityOverlap")
    /\ UNCHANGED <<fed, redis, database, history, faults>>

Copies(a, batch) == Cardinality({i \in DOMAIN batch : batch[i] = a})

InsertBatch(f) ==
    /\ flusher[f].pc = "insert"
    /\ ToSet(flusher[f].batch) \cap deleted = {}
    /\ stored' = [a \in Activities |-> stored[a] + Copies(a, flusher[f].batch)]
    /\ flusher' = [flusher EXCEPT ![f].pc = "trim"]
    /\ UNCHANGED <<fed, redis, usage, deleted, history, faults, incidents>>

InsertFailsTrimming(f) ==
    /\ flusher[f].pc = "insert"
    /\ ToSet(flusher[f].batch) \cap deleted # {} \/ faults < MaxFaults
    /\ flusher' = [flusher EXCEPT ![f].pc = "trim"]
    /\ UNCHANGED <<fed, redis, database, history, faults, incidents>>

\* The insert violates the foreign key, or the database fails: rolled back,
\* and the loop is left.
InsertFails(f) ==
    /\ flusher[f].pc = "insert"
    /\ \/ ToSet(flusher[f].batch) \cap deleted # {} /\ UNCHANGED <<faults, incidents>>
       \/ Fault({})
    /\ flusher' = Continued(f, "hash")
    /\ UNCHANGED <<fed, redis, database, history>>

TrimBatchShort(f) ==
    /\ flusher[f].pc = "trim"
    /\ log' = SubSeq(log, Len(flusher[f].batch), Len(log))
    /\ flusher' = [flusher EXCEPT ![f].pc = "read", ![f].batch = <<>>]
    /\ UNCHANGED <<fed, hits, products, hll, listed, recent, database, history, faults, incidents>>

TrimBatch(f) ==
    /\ flusher[f].pc = "trim"
    /\ log' = SubSeq(log, Len(flusher[f].batch) + 1, Len(log))
    /\ flusher' = [flusher EXCEPT ![f].pc = "read", ![f].batch = <<>>]
    /\ UNCHANGED <<fed, hits, products, hll, listed, recent, database, history, faults, incidents>>

TrimFails(f) ==
    /\ flusher[f].pc = "trim"
    /\ Fault({"untrimmed"})
    /\ flusher' = Continued(f, "hash")
    /\ UNCHANGED <<fed, redis, database, history>>

-----------------------------------------------------------------------------
(* flush_key_analytics, for the key and day.                               *)

\* Not listed: nothing to do.  Listed with no data: taken off the set.
ReadHash(f) ==
    /\ flusher[f].pc = "hash"
    /\ IF listed /\ (hits > 0 \/ products)
       THEN /\ flusher' = [flusher EXCEPT ![f].pc = "row", ![f].pulled = hits]
            /\ incidents' = incidents \cup Noted(UsageWindow, "usageOverlap")
            /\ UNCHANGED listed
       ELSE /\ listed' = FALSE
            /\ flusher' = Continued(f, "members")
            /\ UNCHANGED incidents
    /\ UNCHANGED <<fed, log, hits, products, hll, recent, database, history, faults>>

LoadRowUncounted(f) ==
    /\ flusher[f].pc = "row"
    /\ flusher' = [flusher EXCEPT ![f].pc = "add", ![f].image = NoRow]
    /\ UNCHANGED <<fed, redis, database, history, faults, incidents>>

\* first() finds one of the rows, in no particular order.
LoadRow(f) ==
    /\ flusher[f].pc = "row"
    /\ \/ /\ usage = <<>>
          /\ flusher' = [flusher EXCEPT ![f].pc = "add"]
       \/ \E i \in DOMAIN usage :
             flusher' = [flusher EXCEPT ![f].pc = "add", ![f].row = i,
                                        ![f].image = usage[i].hits]
    /\ UNCHANGED <<fed, redis, database, history, faults, incidents>>

\* The devices are those of the HyperLogLog; when it is empty, those that
\* PostgreSQL says were seen on the day.
DevicesCounted == IF hll # {} THEN {Cardinality(hll)} ELSE 0 .. Cardinality(Devices)

WriteRowReplacing(f) ==
    /\ flusher[f].pc = "add"
    /\ \E n \in DevicesCounted :
          LET row == [hits |-> flusher[f].pulled, devices |-> n] IN
          usage' = IF flusher[f].row = NoRow THEN Append(usage, row)
                   ELSE [usage EXCEPT ![flusher[f].row] = row]
    /\ flusher' = [flusher EXCEPT ![f].pc = "clear", ![f].row = NoRow, ![f].image = 0]
    /\ UNCHANGED <<fed, redis, stored, deleted, history, faults, incidents>>

WriteRow(f) ==
    /\ flusher[f].pc = "add"
    /\ \E n \in DevicesCounted :
          LET row == [hits |-> flusher[f].image + flusher[f].pulled, devices |-> n] IN
          usage' = IF flusher[f].row = NoRow THEN Append(usage, row)
                   ELSE [usage EXCEPT ![flusher[f].row] = row]
    /\ flusher' = [flusher EXCEPT ![f].pc = "clear", ![f].row = NoRow, ![f].image = 0]
    /\ UNCHANGED <<fed, redis, stored, deleted, history, faults, incidents>>

WriteRowFails(f) ==
    /\ flusher[f].pc = "add"
    /\ Fault({})
    /\ flusher' = Continued(f, "members")
    /\ UNCHANGED <<fed, redis, database, history>>

\* What was read is deleted, key after key.
ClearHash(f) ==
    /\ flusher[f].pc = "clear"
    /\ hits' = 0
    /\ flusher' = [flusher EXCEPT ![f].pc = "clearProducts", ![f].pulled = 0]
    /\ UNCHANGED <<fed, log, products, hll, listed, recent, database, history, faults, incidents>>

ClearProducts(f) ==
    /\ flusher[f].pc = "clearProducts"
    /\ products' = FALSE
    /\ flusher' = [flusher EXCEPT ![f].pc = "clearDevices"]
    /\ UNCHANGED <<fed, log, hits, hll, listed, recent, database, history, faults, incidents>>

ClearDevices(f) ==
    /\ flusher[f].pc = "clearDevices"
    /\ hll' = {}
    /\ flusher' = [flusher EXCEPT ![f].pc = "unlist"]
    /\ UNCHANGED <<fed, log, hits, products, listed, recent, database, history, faults, incidents>>

Unlist(f) ==
    /\ flusher[f].pc = "unlist"
    /\ listed' = FALSE
    /\ flusher' = Continued(f, "members")
    /\ UNCHANGED <<fed, log, hits, products, hll, recent, database, history, faults, incidents>>

\* Redis fails one of these commands: the row is committed all the same.
ClearFails(f) ==
    /\ flusher[f].pc \in {"clear", "clearProducts", "clearDevices", "unlist"}
    /\ Fault(IF flusher[f].pc = "clear" THEN {"uncleared"} ELSE {})
    /\ flusher' = Continued(f, "members")
    /\ UNCHANGED <<fed, redis, database, history>>

-----------------------------------------------------------------------------
(* flush_updates: last_seen of the devices, key by key in one transaction. *)

ReadMembers(f) ==
    /\ flusher[f].pc = "members"
    /\ IF recent = {}
       THEN flusher' = Continued(f, "idle") /\ UNCHANGED incidents
       ELSE /\ flusher' = [flusher EXCEPT ![f].pc = "write", ![f].members = recent]
            /\ incidents' = incidents \cup Noted(DeviceWindow, "deviceOverlap")
    /\ UNCHANGED <<fed, redis, database, history, faults>>

WriteMembers(f) ==
    /\ flusher[f].pc = "write"
    /\ owed' = owed \ flusher[f].members
    /\ flusher' = [flusher EXCEPT ![f].pc = "drop"]
    /\ UNCHANGED <<fed, redis, database, accepted, connects, updates, expired, lapsed, faults,
                   incidents>>

\* The UPDATE of one key fails: the rollback undoes the keys before it as well,
\* and the commit keeps the keys after it.
WriteSomeMembers(f) ==
    /\ flusher[f].pc = "write"
    /\ Fault({"groupFailed"})
    /\ \E kept \in SUBSET {KeyOf[d] : d \in flusher[f].members} :
          owed' = owed \ {d \in flusher[f].members : KeyOf[d] \in kept}
    /\ flusher' = [flusher EXCEPT ![f].pc = "drop"]
    /\ UNCHANGED <<fed, redis, database, accepted, connects, updates, expired, lapsed>>

WriteMembersFailsDropping(f) ==
    /\ flusher[f].pc = "write"
    /\ Fault({})
    /\ flusher' = [flusher EXCEPT ![f].pc = "drop"]
    /\ UNCHANGED <<fed, redis, database, history>>

\* The commit fails: the set is kept for the next flush.
WriteMembersFails(f) ==
    /\ flusher[f].pc = "write"
    /\ Fault({})
    /\ flusher' = Continued(f, "idle")
    /\ UNCHANGED <<fed, redis, database, history>>

DropMembers(f) ==
    /\ flusher[f].pc = "drop"
    /\ recent' = {}
    /\ flusher' = Continued(f, "idle")
    /\ UNCHANGED <<fed, log, hits, products, hll, listed, database, history, faults, incidents>>

-----------------------------------------------------------------------------
\* The worker or the process is killed between two of its steps.
Kill(f) ==
    /\ flusher[f].pc # "idle"
    /\ Fault((IF flusher[f].pc = "trim" THEN {"untrimmed"} ELSE {}) \cup
             (IF flusher[f].pc = "clear" THEN {"uncleared"} ELSE {}))
    /\ flusher' = [flusher EXCEPT ![f] = Idle]
    /\ UNCHANGED <<fed, redis, database, history>>

Init ==
    /\ log = <<>> /\ hits = 0 /\ products = FALSE /\ hll = {} /\ listed = FALSE /\ recent = {}
    /\ stored = [a \in Activities |-> 0] /\ usage = <<>> /\ deleted = {}
    /\ flusher = [f \in Flushers |-> Idle]
    /\ fed \in Buffers
    /\ accepted = {} /\ connects = 0 /\ updates = 0 /\ owed = {} /\ expired = {} /\ lapsed = 0
    /\ faults = 0 /\ incidents = {}

Request ==
    \/ \E a \in Activities : (\E f \in Flushers : LogActivity(a, f)) \/ LogDirectly(a)
    \/ \E d \in Devices : BufferUpdate(d) \/ \E f \in Flushers : RecordUse(d, f)
    \/ \E a \in Activities : DeleteUser(a)

\* What a flusher does once it has started.
Flush(f) ==
    \/ ReadBatch(f) \/ InsertBatch(f) \/ InsertFails(f) \/ TrimBatch(f) \/ TrimFails(f)
    \/ ReadHash(f) \/ LoadRow(f) \/ WriteRow(f) \/ WriteRowFails(f)
    \/ ClearHash(f) \/ ClearProducts(f) \/ ClearDevices(f) \/ Unlist(f) \/ ClearFails(f)
    \/ ReadMembers(f) \/ WriteMembers(f) \/ WriteSomeMembers(f)
    \/ WriteMembersFails(f) \/ DropMembers(f)

\* Between two requests or two runs of the task.
Rest ==
    /\ Within(Steps \ {"idle"}) = {}
    /\ UNCHANGED <<fed, redis, database, flusher, history, faults, incidents>>

Next ==
    \/ Request
    \/ \E f \in Flushers : StartTask(f) \/ Flush(f) \/ Kill(f)
    \/ ExpireLog \/ ExpireUsage \/ ExpireUpdates
    \/ Rest

Spec == Init /\ [][Next]_vars

\* Flushers keep running, and a beat keeps sending the task; nobody need
\* log, connect, fail or be killed.
FairSpec ==
    /\ Spec
    /\ \A f \in Flushers : WF_vars(Flush(f))
    /\ WF_vars(\E f \in Flushers : StartTask(f))

-----------------------------------------------------------------------------
(* Properties.                                                             *)

\* Every variable keeps its type.
TypeOK ==
    /\ log \in Seq(Activities)
    /\ hits \in Nat /\ products \in BOOLEAN /\ hll \in SUBSET Devices /\ listed \in BOOLEAN
    /\ recent \in SUBSET Devices
    /\ stored \in [Activities -> Nat]
    /\ usage \in Seq(Row)
    /\ deleted \in SUBSET Activities
    /\ flusher \in [Flushers -> Flusher]
    /\ accepted \in SUBSET Activities /\ connects \in Nat /\ updates \in Nat
    /\ owed \in SUBSET Devices /\ expired \in SUBSET Activities /\ lapsed \in Nat
    /\ fed \in Buffers /\ faults \in 0 .. MaxFaults /\ incidents \in SUBSET Incidents

\* An activity that is neither stored, nor buffered, nor expired was trimmed by
\* a flusher that had not read it: two flushers worked on the list at once, or the
\* list expired under one, which then trimmed a new list.  Failures, kills and deleted
\* users lose none.
LossNeedsOverlap ==
    \A a \in accepted \ (expired \cup ToSet(log)) :
        stored[a] = 0 => incidents \cap {"activityOverlap", "heldExpiry"} # {}

\* One stored twice was read by two flushers, or committed and not trimmed, or
\* written directly after the RPUSH.
TwiceNeedsCause ==
    \A a \in Activities :
        stored[a] > 1 => incidents \cap {"activityOverlap", "untrimmed", "fallback"} # {}

\* The connects counted in the rows and the hash, and those that expired, are those that
\* were made, but for one recorded between a flusher's read and its delete, two flushers
\* at once, a hash that expired under a flusher, and a kill or a failed delete after the
\* commit.
UsageExact ==
    incidents \cap {"usageOverlap", "lateUse", "uncleared", "heldExpiry"} = {} =>
        Total([i \in DOMAIN usage |-> usage[i].hits]) + hits + lapsed
          = connects + Total([f \in Within({"clear"}) |-> flusher[f].pulled])

\* A device whose last_seen is still to be written stays in the set until the set
\* expires, but for one added while a flusher holds what it read, two flushers at once,
\* and a failed UPDATE: a failed commit or a kill forgets none.
UpdatesKept ==
    incidents \cap {"deviceOverlap", "lateDevice", "groupFailed"} = {} => owed \subseteq recent

\* Where a beat sends the task, the list of activities is emptied again and again,
\* unless an entry of a deleted user blocks it: each batch with it is rolled back.
ActivitiesFlushed == []<>(log = <<>> \/ ToSet(log) \cap deleted # {})

-----------------------------------------------------------------------------
(* What the repository says of the program and the code does not keep.     *)

\* buffer_key_analytics_update: the HyperLogLog counts the unique devices of the
\* day, as COUNT(DISTINCT) would, so the row's count does not fall during the day.
UniqueOfTheDay ==
    [][\A i \in DOMAIN usage : usage'[i].devices >= usage[i].devices]_usage
=============================================================================
