---------------------------- MODULE KeyLifecycle ----------------------------
(***************************************************************************)
(* The life of the license keys of one project: created, activated by the  *)
(* first connect, paused, blocked, archived, resumed, extended, reset,     *)
(* moved to another user and deleted, by requests that run at the same     *)
(* time; and the counters of active keys that User and Project rows keep   *)
(* beside the Key rows.                                                    *)
(*                                                                         *)
(* A handler decides on the image of the rows that it loaded and writes    *)
(* the attributes that differ from it.  The UPDATE of a key's status locks *)
(* the row until the counters are written and the transaction commits.     *)
(*                                                                         *)
(* Time is counted in hours; a request sees at most one hour end, since    *)
(* gunicorn kills a worker that is silent for two minutes.                 *)
(***************************************************************************)
EXTENDS Integers, FiniteSets

CONSTANTS
    Keys, Users,  \* the project's keys and users
    Project,      \* the project, as the owner of a counter
    Requests,     \* bound: the requests of a behaviour
    Scenes,       \* sets of handlers; those of one set run in a behaviour
    Threads,      \* how many of them run at once
    Duration,     \* duration_hours of every key
    Hours,        \* by how much a key may be extended
    Durations,    \* the durations update_key may set
    Horizon,      \* bound: the last hour
    NoTime,       \* expires_at is NULL
    NoRow         \* a row that the session has not loaded

AllKinds == {"create", "pause", "archive", "resume", "block", "move", "delete", "reset", "extend",
             "update", "agentPause", "agentResume", "connect"}

ASSUME ProjectAssumption == Project \notin Users
ASSUME KeysAssumption == IsFiniteSet(Keys)
ASSUME ScenesAssumption == Scenes \subseteq SUBSET AllKinds
\* Hours are given, and durations set, one at least (KeyExtendSchema, update_key).
ASSUME NumbersAssumption ==
    /\ Threads \in Nat /\ Duration \in Nat /\ Horizon \in Nat
    /\ Hours \subseteq Nat \ {0} /\ Durations \subseteq Nat \ {0} /\ NoTime \notin Int

VARIABLES
    scene,    \* the handlers of this behaviour
    now,      \* the hour
    row,      \* the Key rows
    active,   \* User.active_keys and Project.active_keys
    req,      \* the requests: handler, progress and what is in the session
    drifted,  \* history: the counters that need not be the number of active keys
    granted,  \* history: hours that managers gave a key
    usable    \* history: connects whose key was usable at a moment since they arrived

history == <<drifted, granted>>
vars == <<scene, now, row, active, req, history, usable>>

-----------------------------------------------------------------------------
Counters == Users \cup {Project}
Times == Nat \cup {NoTime}

\* Key.status: 1 active, 2 blocked, 3 paused, 4 archived, 0 paused by the agents' form.
Statuses == {"new", "active", "blocked", "paused", "archived", "agentPaused", "deleted"}

Row == [status : Statuses, owner : Users, armed : BOOLEAN, expires : Times, created : Nat]

ASSUME NoRowAssumption == NoRow \notin Row

Steps == {"idle", "found", "live", "admitted", "counted", "recount", "recounted", "done"}

Answers == {"none", "over", "served", "inactive", "expired", "failed"}

\* The keys, the number of hours and the users that the request names, the images
\* of Key rows and of counters, and whether an hour has ended meanwhile.
Session == [pc : Steps, kind : AllKinds, keys : SUBSET Keys, number : Nat, users : SUBSET Users,
            image : [Keys -> Row \cup {NoRow}], counts : [Counters -> Nat],
            loaded : [Counters -> Nat], late : BOOLEAN, answer : Answers]

Idle == [pc |-> "idle", kind |-> "connect", keys |-> {}, number |-> 0, users |-> {},
         image |-> [k \in Keys |-> NoRow], counts |-> [c \in Counters |-> 0],
         loaded |-> [c \in Counters |-> 0], late |-> FALSE, answer |-> "none"]

IsLive(k) == row[k].status \notin {"new", "deleted"}
ActiveOf(rows, c) == {k \in Keys : rows[k].status = "active" /\ c \in {rows[k].owner, Project}}

InFlight == {r \in Requests : req[r].pc \notin {"idle", "done"}}

\* A flushed UPDATE of the row is not committed yet.
Locked(k) == \E r \in Requests : req[r].pc = "counted" /\ k \in req[r].keys

Image(r) == req[r].image
TheKey(r) == CHOOSE k \in req[r].keys : TRUE

\* What is done keeps nothing of the session.
Finished(r, answer) == [req EXCEPT ![r] = [Idle EXCEPT !.pc = "done", !.answer = answer]]
Loaded(ks) == [k \in Keys |-> IF k \in ks THEN row[k] ELSE NoRow]

Goto(r, pc) == [req EXCEPT ![r].pc = pc]

\* A row is there to be updated, and nobody has updated it without a commit.
Writable(r) == \A k \in req[r].keys : IsLive(k) /\ ~Locked(k)

At(r, kinds) == req[r].pc = "found" /\ req[r].kind \in kinds

\* A write of the rows that does nothing about the counters it makes wrong.
Uncounted(rows) ==
    drifted' = drifted \cup {c \in Counters : ActiveOf(rows, c) # ActiveOf(row, c)}

-----------------------------------------------------------------------------
(* A request arrives and loads the keys it is about.  The middleware has   *)
(* loaded the current user and the project, whose counters may be used.    *)

StatusKinds == {"pause", "archive", "resume", "block"}

TargetsOf(kind) ==
    IF kind \in {"agentPause", "agentResume", "extend"} THEN SUBSET Keys \ {{}}
    ELSE {{k} : k \in Keys}

UsersOf(kind) == IF kind \in {"create", "move"} THEN {{u} : u \in Users} ELSE {{}}

NumbersOf(kind) ==
    CASE kind = "extend" -> Hours [] kind = "update" -> Durations [] OTHER -> {0}

Arrive(r, kind, ks, n, us) ==
    /\ req[r].pc = "idle" /\ Cardinality(InFlight) < Threads
    /\ \A k \in ks : IF kind = "create" THEN row[k].status = "new" ELSE IsLive(k)
    /\ req' = [req EXCEPT ![r].pc = "found", ![r].kind = kind, ![r].keys = ks,
                          ![r].number = n, ![r].users = us, ![r].image = Loaded(ks),
                          ![r].counts = IF kind \in StatusKinds THEN active ELSE @]
    /\ UNCHANGED <<scene, now, row, active, history>>

\* The worker is killed, or a statement fails, as the UPDATE of a deleted row does:
\* the transaction is rolled back.
Fails(r) ==
    /\ r \in InFlight
    /\ req' = Finished(r, "failed")
    /\ UNCHANGED <<scene, now, row, active, history>>

\* One UPDATE and its commit, in one step: nobody sees the row in between.
Commits(r, rows) ==
    /\ row' = rows
    /\ req' = Finished(r, "over")
    /\ UNCHANGED <<scene, now, active>>

-----------------------------------------------------------------------------
(* Status changes, with the counters.                                      *)

\* block_key called for a blocked key makes it active.
Target(r) ==
    CASE req[r].kind = "pause" -> "paused"
      [] req[r].kind = "archive" -> "archived"
      [] req[r].kind = "agentPause" -> "agentPaused"
      [] req[r].kind \in {"resume", "agentResume"} -> "active"
      [] OTHER -> IF Image(r)[TheKey(r)].status = "blocked" THEN "active" ELSE "blocked"

Unchanged(r) ==
    /\ At(r, StatusKinds) /\ Image(r)[TheKey(r)].status = Target(r)
    /\ req' = Finished(r, "over")
    /\ UNCHANGED <<scene, now, row, active, history>>

\* The status is flushed, then the counters are read: those of the session if
\* they are still there, else those of the rows.
FlushStatus(r) ==
    /\ At(r, StatusKinds) /\ Image(r)[TheKey(r)].status # Target(r) /\ Writable(r)
    /\ \E reread \in SUBSET Counters :
          req' = [req EXCEPT ![r].pc = "counted",
                             ![r].counts = [c \in Counters |->
                                 IF c \in reread THEN active[c] ELSE @[c]]]
    /\ UNCHANGED <<scene, now, row, active, history>>

CountUnclamped(n, was, is) ==
    IF (was = "active") = (is = "active") THEN n ELSE IF is = "active" THEN n + 1 ELSE n - 1

CountAlways(n, was, is) == IF is = "active" THEN n + 1 ELSE IF n = 0 THEN 0 ELSE n - 1

\* One more, one less but not below zero, or nothing.
Count(n, was, is) ==
    IF (was = "active") = (is = "active") THEN n
    ELSE IF is = "active" THEN n + 1
    ELSE IF n = 0 THEN 0 ELSE n - 1

CommitStatus(r) ==
    /\ req[r].pc = "counted"
    /\ LET k == TheKey(r)
           image == Image(r)[k]
           counted == {image.owner, Project}
           new == [c \in counted |-> Count(req[r].counts[c], image.status, Target(r))]
           changed == (image.status = "active") # (Target(r) = "active")
       IN /\ row' = [row EXCEPT ![k].status = Target(r)]
          /\ active' = [c \in Counters |->
                           IF c \in counted /\ new[c] # req[r].counts[c] THEN new[c] ELSE active[c]]
          /\ drifted' = drifted
                \cup (IF (row[k].status = "active") # (image.status = "active")
                         \/ row[k].owner # image.owner
                      THEN counted \cup {row[k].owner} ELSE {})
                \cup {c \in counted : changed /\ active[c] # req[r].counts[c]}
    /\ req' = Finished(r, "over")
    /\ UNCHANGED <<scene, now, granted>>

\* The agents' bulk forms commit the status of all keys, then count the active
\* keys of each owner and write the numbers; the project's is left alone.
AgentCommits(r) ==
    /\ At(r, {"agentPause", "agentResume"}) /\ Writable(r)
    /\ LET rows == [k \in Keys |->
                       IF k \in req[r].keys /\ Image(r)[k].status # Target(r)
                       THEN [row[k] EXCEPT !.status = Target(r)] ELSE row[k]]
       IN row' = rows /\ Uncounted(rows)
    /\ req' = [req EXCEPT ![r].pc = "recount",
                          ![r].users = {Image(r)[k].owner : k \in req[r].keys}]
    /\ UNCHANGED <<scene, now, active, granted>>

Recount(r) ==
    /\ req[r].pc = "recount"
    /\ req' = [req EXCEPT ![r].pc = "recounted", ![r].keys = Keys, ![r].image = row,
                          ![r].loaded = active,
                          ![r].counts = [c \in Counters |-> Cardinality(ActiveOf(row, c))]]
    /\ UNCHANGED <<scene, now, row, active, history>>

\* A number that equals the loaded one is not written.
CommitRecount(r) ==
    /\ req[r].pc = "recounted"
    /\ LET written == {u \in req[r].users : req[r].counts[u] # req[r].loaded[u]}
           undisturbed(u) == /\ ActiveOf(row, u) = ActiveOf(Image(r), u)
                             /\ u \in written \/ active[u] = req[r].loaded[u]
       IN /\ active' = [c \in Counters |->
                           IF c \in written THEN req[r].counts[c] ELSE active[c]]
          /\ drifted' = (drifted \ {u \in req[r].users : undisturbed(u)})
                         \cup {u \in req[r].users : ~undisturbed(u)}
    /\ req' = Finished(r, "over")
    /\ UNCHANGED <<scene, now, row, granted>>

-----------------------------------------------------------------------------
(* Changes that leave the counters alone.                                  *)

CreateKey(r) ==
    /\ At(r, {"create"}) /\ row[TheKey(r)].status = "new"
    /\ \E u \in req[r].users :
          LET rows == [row EXCEPT ![TheKey(r)] =
                          [status |-> "active", owner |-> u, armed |-> TRUE,
                           expires |-> NoTime, created |-> now]]
          IN Commits(r, rows) /\ Uncounted(rows)
    /\ UNCHANGED granted

MoveKey(r) ==
    /\ At(r, {"move"}) /\ Writable(r)
    /\ \E u \in req[r].users :
          LET rows == [row EXCEPT ![TheKey(r)].owner = u]
          IN Commits(r, rows) /\ Uncounted(rows)
    /\ UNCHANGED granted

DeleteKey(r) ==
    /\ At(r, {"delete"}) /\ Writable(r)
    /\ LET rows == [row EXCEPT ![TheKey(r)].status = "deleted"]
       IN Commits(r, rows) /\ Uncounted(rows)
    /\ UNCHANGED granted

\* The next connect activates the key again; expires_at stays.
ResetKey(r) ==
    /\ At(r, {"reset"}) /\ Writable(r)
    /\ Commits(r, [row EXCEPT ![TheKey(r)].armed = IF Image(r)[TheKey(r)].armed THEN @ ELSE TRUE])
    /\ UNCHANGED history

ExtendFromNow(r) ==
    /\ At(r, {"extend"}) /\ Writable(r)
    /\ Commits(r, [k \in Keys |-> IF k \notin req[r].keys THEN row[k] ELSE
                      [row[k] EXCEPT !.expires = now + req[r].number]])
    /\ granted' = [k \in Keys |-> granted[k] + (IF k \in req[r].keys THEN req[r].number ELSE 0)]
    /\ UNCHANGED drifted

\* One key, or all keys of some products in one transaction.
Extend(r) ==
    /\ At(r, {"extend"}) /\ Writable(r)
    /\ Commits(r, [k \in Keys |-> IF k \notin req[r].keys THEN row[k] ELSE
                      [row[k] EXCEPT !.expires =
                          (IF Image(r)[k].expires = NoTime THEN now ELSE Image(r)[k].expires)
                          + req[r].number]])
    /\ granted' = [k \in Keys |-> granted[k] + (IF k \in req[r].keys THEN req[r].number ELSE 0)]
    /\ UNCHANGED drifted

\* A duration counts from the creation of a key that has not expired, else from now.
UpdateDuration(r) ==
    /\ At(r, {"update"}) /\ Writable(r)
    /\ LET k == TheKey(r)
           image == Image(r)[k]
           from == IF image.expires # NoTime /\ image.expires > now THEN image.created ELSE now
           new == from + req[r].number
       IN /\ Commits(r, [row EXCEPT ![k].expires = IF new = image.expires THEN @ ELSE new])
          /\ granted' = [granted EXCEPT ![k] = @ + req[r].number]
    /\ UNCHANGED drifted

-----------------------------------------------------------------------------
(* A client connects.                                                      *)

Expired(key) == key.expires # NoTime /\ key.expires < now
Usable(key) == key.status = "active" /\ ~Expired(key)

\* A commit of the connect before its status check, or after it (of the activation or
\* the device), expired the image: the row is loaded again.
Reload(r) ==
    /\ At(r, {"connect"}) \/ req[r].pc = "admitted"
    /\ IsLive(TheKey(r)) /\ Image(r) # Loaded(req[r].keys)
    /\ req' = [req EXCEPT ![r].image = Loaded(req[r].keys)]
    /\ UNCHANGED <<scene, now, row, active, history>>

Refuse(r) ==
    /\ At(r, {"connect"}) /\ ~Usable(Image(r)[TheKey(r)])
    /\ req' = Finished(r, IF Image(r)[TheKey(r)].status # "active" THEN "inactive" ELSE "expired")
    /\ UNCHANGED <<scene, now, row, active, history>>

AdmitUnexpired(r) ==
    /\ At(r, {"connect"}) /\ ~Expired(Image(r)[TheKey(r)])
    /\ req' = Goto(r, "live")
    /\ UNCHANGED <<scene, now, row, active, history>>

Admit(r) ==
    /\ At(r, {"connect"}) /\ Usable(Image(r)[TheKey(r)])
    /\ req' = Goto(r, "live")
    /\ UNCHANGED <<scene, now, row, active, history>>

ActivateOnTop(r) ==
    /\ req[r].pc = "live" /\ Image(r)[TheKey(r)].armed /\ Writable(r)
    /\ row' = [row EXCEPT ![TheKey(r)].armed = FALSE,
                          ![TheKey(r)].expires = Duration + IF @ = NoTime THEN now ELSE @]
    /\ req' = [req EXCEPT ![r].pc = "admitted", ![r].image = [k \in Keys |-> NoRow]]
    /\ UNCHANGED <<scene, now, active, history>>

\* The commit expires the image.
Activate(r) ==
    /\ req[r].pc = "live" /\ Image(r)[TheKey(r)].armed /\ Writable(r)
    /\ row' = [row EXCEPT ![TheKey(r)].armed = FALSE, ![TheKey(r)].expires = now + Duration]
    /\ req' = [req EXCEPT ![r].pc = "admitted", ![r].image = [k \in Keys |-> NoRow]]
    /\ UNCHANGED <<scene, now, active, history>>

Proceed(r) ==
    /\ req[r].pc = "live" /\ ~Image(r)[TheKey(r)].armed
    /\ req' = Goto(r, "admitted")
    /\ UNCHANGED <<scene, now, row, active, history>>

\* The token expires when the image does.
Serve(r) ==
    /\ req[r].pc = "admitted" /\ Image(r)[TheKey(r)] # NoRow
    /\ req' = Finished(r, "served")
    /\ UNCHANGED <<scene, now, row, active, history>>

-----------------------------------------------------------------------------
\* An hour ends, which only a behaviour with hours to give and to use shows.
Tick ==
    /\ now < Horizon /\ "connect" \in scene
    /\ \A r \in InFlight : ~req[r].late
    /\ now' = now + 1
    /\ req' = [r \in Requests |-> [req[r] EXCEPT !.late = r \in InFlight]]
    /\ UNCHANGED <<scene, row, active, history>>

\* Created but not counted, or counted and paused: the counters are zero.
InitialRow(u) == [status |-> "paused", owner |-> u, armed |-> TRUE, expires |-> NoTime, created |-> 0]

Init ==
    /\ scene \in Scenes
    /\ now = 0
    /\ \E owner \in [Keys -> Users], live \in SUBSET Keys, running \in SUBSET Keys :
          /\ running \subseteq live
          /\ row = [k \in Keys |->
                       [InitialRow(owner[k]) EXCEPT
                           !.status = IF k \in running THEN "active"
                                      ELSE IF k \in live THEN "paused" ELSE "new"]]
    /\ active = [c \in Counters |-> 0]
    /\ req = [r \in Requests |-> Idle]
    /\ drifted = {c \in Counters : ActiveOf(row, c) # {}}
    /\ granted = [k \in Keys |-> 0]
    /\ usable = {}

ChangeStatus(r) ==
    Unchanged(r) \/ FlushStatus(r) \/ CommitStatus(r)
    \/ AgentCommits(r) \/ Recount(r) \/ CommitRecount(r)
ChangeKey(r) ==
    CreateKey(r) \/ MoveKey(r) \/ DeleteKey(r) \/ ResetKey(r) \/ Extend(r) \/ UpdateDuration(r)
Connect(r) == Reload(r) \/ Refuse(r) \/ Admit(r) \/ Activate(r) \/ Proceed(r) \/ Serve(r)

Rest ==
    /\ InFlight = {}
    /\ UNCHANGED <<scene, now, row, active, req, history>>

Step ==
    \/ \E r \in Requests :
          \/ \E kind \in scene : \E ks \in TargetsOf(kind), n \in NumbersOf(kind),
                                  us \in UsersOf(kind) : Arrive(r, kind, ks, n, us)
          \/ ChangeStatus(r) \/ ChangeKey(r) \/ Connect(r) \/ Fails(r)
    \/ Tick
    \/ Rest

Connecting == {r \in InFlight : req[r].kind = "connect"}
UsableNow == {r \in Connecting : \E k \in req[r].keys : Usable(row[k])}

Next ==
    /\ Step
    /\ usable' = {r \in Connecting' : r \in usable \/ r \in UsableNow'}

Spec == Init /\ [][Next]_vars

-----------------------------------------------------------------------------
(* Properties.                                                             *)

\* The rows, the counters, the sessions and what they are noted to have done.
Typed ==
    /\ scene \in Scenes /\ now \in 0 .. Horizon
    /\ row \in [Keys -> Row]
    /\ active \in [Counters -> Nat]
    /\ req \in [Requests -> Session]
    /\ \A r \in InFlight, k \in Keys :
          /\ Image(r)[k] # NoRow => k \in req[r].keys
          /\ k \in req[r].keys => Image(r)[k] # NoRow \/ req[r].pc = "admitted"
    /\ drifted \in SUBSET Counters
    /\ granted \in [Keys -> Nat]

\* Every variable keeps its type; a session holds images of the keys it is about, and
\* of all of them unless the commit of an activation has expired them.
TypeOK == Typed /\ usable \in SUBSET Requests

\* A counter is the number of active keys, unless something that a handler does
\* not account for came between: a key created, moved or deleted, the agents' bulk
\* status on the project, two handlers that changed the same key, a counter
\* overwritten from an old image, or a recount that raced with a change.
CountersExact ==
    \A c \in Counters \ drifted : active[c] = Cardinality(ActiveOf(row, c))

Shortened(k) ==
    row'[k].expires # row[k].expires /\ row[k].expires # NoTime
        /\ (row'[k].expires = NoTime \/ row'[k].expires < row[k].expires)

\* An expiry moves to an earlier hour only when an armed key is activated (which
\* forgets hours granted before), when a duration is set, and when an extension is
\* written from an image another request has since changed.
HoursKept ==
    [][\A k \in Keys : Shortened(k) =>
          \/ row[k].armed /\ ~row'[k].armed
          \/ \E r \in InFlight :
                /\ k \in req[r].keys /\ req'[r].pc # req[r].pc
                /\ \/ req[r].kind = "update"
                   \/ req[r].kind = "connect" /\ Image(r)[k].armed
                   \/ req[r].kind = "extend" /\ Image(r)[k].expires # row[k].expires]_vars

\* No race makes hours out of nothing: a key never expires later than its duration
\* and all hours managers gave it, counted from now.
HoursGranted ==
    \A k \in Keys : row[k].expires # NoTime => row[k].expires <= now + Duration + granted[k]

\* A client is served only with a key that was active and not expired in the database
\* at some moment of its request, whatever images the request had and whatever the hour
\* is since: a key paused, blocked or expired before it came does not pass.  Its token
\* ends, at most as many hours from now as the key's duration and what managers gave it:
\* no reset, extension or other activation that commits between the connect's own
\* commits leaves it a token for ever, or for longer.
ServedWasUsable ==
    [][\A r \in InFlight : req'[r].answer = "served" =>
          LET ends == Image(r)[TheKey(r)].expires IN
          /\ r \in usable
          /\ ends # NoTime /\ ends <= now + Duration + granted[TheKey(r)]]_vars
=============================================================================
