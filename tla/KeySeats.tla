------------------------------ MODULE KeySeats ------------------------------
(***************************************************************************)
(* Client programs connecting with one license key, and the managers who   *)
(* reset, resize, pause and resume it.                                     *)
(*                                                                         *)
(* The devices of a key are kept twice: as a comma-separated list on the   *)
(* Key row and as one DeviceInfo row each.  A connect request loads the    *)
(* Key row once, decides on that image step by step, and commits up to     *)
(* four times on its way (fingerprint, activation, list, DeviceInfo).  A   *)
(* commit expires the image, so the next read loads the row again; without *)
(* one the image stays as old as the request.  The list is written back    *)
(* whole, so a registration from an old image drops what it did not see.   *)
(*                                                                         *)
(* A device stands for its serial and its fingerprint.                     *)
(***************************************************************************)
EXTENDS Naturals, FiniteSets, Totals

CONSTANTS
    Devices,    \* the devices that know the key
    Requests,   \* the requests for the key, each served once
    Kinds,      \* which kinds of request arrive
    Limits,     \* the device limits a manager may set
    InitLimit,  \* max_devices of the new key
    Threads,    \* handlers that may run at once
    MayFail,    \* whether a commit may fail or a worker die
    NoDevice    \* no device: no fingerprint bound yet, or a manager's request

AllKinds == {"connect", "reset", "agentReset", "setLimit", "pause", "resume"}

ASSUME DevicesAssumption == IsFiniteSet(Devices) /\ Devices # {}
ASSUME SeatKindsAssumption == Kinds \subseteq AllKinds
ASSUME LimitsAssumption == Limits \subseteq Nat \ {0} /\ InitLimit \in Nat \ {0}
ASSUME SeatThreadsAssumption == Threads \in Nat
ASSUME MayFailAssumption == MayFail \in BOOLEAN
ASSUME NoDeviceAssumption == NoDevice \notin Devices

VARIABLES
    key,        \* the committed Key row
    infos,      \* how many committed DeviceInfo rows each device has
    req,        \* the handlers: program counter and session
    maxLimit,   \* history: the largest max_devices the key ever had
    swept       \* history: the connects during which the devices were reset

vars == <<key, infos, req, maxLimit, swept>>

KeyRow == [limit: Nat, devices: SUBSET Devices, fingerprint: Devices \cup {NoDevice},
           active: BOOLEAN, activated: BOOLEAN]

\* "fault" is an error answered although the request took effect.
Answers == {"none", "ok", "error", "fault", "mismatch", "inactive", "limit"}

Steps == {"idle", "found", "bound", "live", "admitted", "listed", "registered",
          "managing", "done"}

Handler == [pc: Steps, kind: AllKinds, device: Devices \cup {NoDevice}, limit: Nat,
            image: KeyRow, loaded: BOOLEAN, answer: Answers]

IsActive(q) == q.pc \notin {"idle", "done"}

\* The devices that have a DeviceInfo row, and how many rows there are.
WithInfo == {d \in Devices : infos[d] > 0}
RowCount == Total(infos)

-----------------------------------------------------------------------------
(* Session steps.                                                          *)

NewKey == [limit |-> InitLimit, devices |-> {}, fingerprint |-> NoDevice,
           active |-> TRUE, activated |-> FALSE]

NoSession == [pc |-> "idle", kind |-> "connect", device |-> NoDevice,
              limit |-> InitLimit, image |-> NewKey, loaded |-> FALSE, answer |-> "none"]

Goto(r, pc) == req' = [req EXCEPT ![r].pc = pc]

\* A commit expires the objects of the session.
CommitAndGoto(r, pc) == req' = [req EXCEPT ![r].pc = pc, ![r].loaded = FALSE]

\* The response is sent and the session removed.
Answer(r, answer) ==
    req' = [req EXCEPT ![r] = [NoSession EXCEPT !.pc = "done", !.answer = answer]]

\* The routes of a single key raise after their commit, where they log through
\* a name that was never bound; the bulk routes answer.
Confirm(r) == \E answer \in {"ok", "fault"} : Answer(r, answer)

\* Find the key in the project.
Arrive(r, kind, d, n) ==
    /\ req[r].pc = "idle"
    /\ Cardinality({s \in Requests : IsActive(req[s])}) < Threads
    /\ kind = "connect" <=> d \in Devices
    /\ n \in (IF kind = "setLimit" THEN Limits ELSE {InitLimit})
    /\ req' = [req EXCEPT ![r] =
                 [pc |-> IF kind = "connect" THEN "found" ELSE "managing",
                  kind |-> kind, device |-> d, limit |-> n,
                  image |-> key, loaded |-> TRUE, answer |-> "none"]]
    /\ UNCHANGED <<key, infos, maxLimit, swept>>

\* The first attribute read after a commit loads the row again.
Reload(r) ==
    /\ ~req[r].loaded
    /\ req[r].pc \in {"bound", "live"}
    /\ req' = [req EXCEPT ![r].image = key, ![r].loaded = TRUE]
    /\ UNCHANGED <<key, infos, maxLimit, swept>>

Ready(r, pc) == req[r].pc = pc /\ req[r].loaded

-----------------------------------------------------------------------------
(* Connecting.                                                             *)

\* validate_single_device_fingerprint: the first device of a single-seat key
\* binds it, every other fingerprint is turned away.
BindsNow(q)   == q.image.limit = 1 /\ q.image.fingerprint = NoDevice
Mismatches(q) == q.image.limit = 1 /\ q.image.fingerprint \notin {NoDevice, q.device}

BindFingerprint(r) ==
    /\ Ready(r, "found")
    /\ BindsNow(req[r])
    /\ key' = [key EXCEPT !.fingerprint = req[r].device]
    /\ CommitAndGoto(r, "bound")
    /\ UNCHANGED <<infos, maxLimit, swept>>

PassFingerprint(r) ==
    /\ Ready(r, "found")
    /\ ~BindsNow(req[r]) /\ ~Mismatches(req[r])
    /\ Goto(r, "bound")
    /\ UNCHANGED <<key, infos, maxLimit, swept>>

RefuseFingerprint(r) ==
    /\ Ready(r, "found")
    /\ Mismatches(req[r])
    /\ Answer(r, "mismatch")
    /\ UNCHANGED <<key, infos, maxLimit, swept>>

\* validate_key_status, then activate_key_if_needed.
RefuseInactive(r) ==
    /\ Ready(r, "bound")
    /\ ~req[r].image.active
    /\ Answer(r, "inactive")
    /\ UNCHANGED <<key, infos, maxLimit, swept>>

Activate(r) ==
    /\ Ready(r, "bound")
    /\ req[r].image.active /\ ~req[r].image.activated
    /\ key' = [key EXCEPT !.activated = TRUE]
    /\ CommitAndGoto(r, "live")
    /\ UNCHANGED <<infos, maxLimit, swept>>

PassActivated(r) ==
    /\ Ready(r, "bound")
    /\ req[r].image.active /\ req[r].image.activated
    /\ Goto(r, "live")
    /\ UNCHANGED <<key, infos, maxLimit, swept>>

\* validate_device_limit counts the listed devices and the DeviceInfo rows.
HasSeatOffByOne(q) ==
    \/ q.device \in q.image.devices
    \/ Cardinality(q.image.devices) <= q.image.limit /\ RowCount <= q.image.limit
HasSeat(q) ==
    \/ q.device \in q.image.devices
    \/ Cardinality(q.image.devices) < q.image.limit /\ RowCount < q.image.limit

PassLimitCommits(r) ==
    /\ Ready(r, "live")
    /\ HasSeat(req[r])
    /\ CommitAndGoto(r, "admitted")
    /\ UNCHANGED <<key, infos, maxLimit, swept>>
PassLimit(r) ==
    /\ Ready(r, "live")
    /\ HasSeat(req[r])
    /\ Goto(r, "admitted")
    /\ UNCHANGED <<key, infos, maxLimit, swept>>

RefuseLimit(r) ==
    /\ Ready(r, "live")
    /\ ~HasSeat(req[r])
    /\ Answer(r, "limit")
    /\ UNCHANGED <<key, infos, maxLimit, swept>>

\* register_device, a new serial: the list is committed, then the DeviceInfo row.
\* Its own test of the limit repeats the one HasSeat made of the same image.
ListDevice(r) ==
    /\ Ready(r, "admitted")
    /\ req[r].device \notin req[r].image.devices
    /\ key' = [key EXCEPT !.devices = req[r].image.devices \cup {req[r].device}]
    /\ CommitAndGoto(r, "listed")
    /\ UNCHANGED <<infos, maxLimit, swept>>

\* register_device, a listed serial: a missing DeviceInfo row is made good.
FindInfoNoRepair(r) ==
    /\ Ready(r, "admitted")
    /\ req[r].device \in req[r].image.devices
    /\ Goto(r, "registered")
    /\ UNCHANGED <<key, infos, maxLimit, swept>>
FindInfo(r) ==
    /\ Ready(r, "admitted")
    /\ req[r].device \in req[r].image.devices
    /\ Goto(r, IF infos[req[r].device] > 0 THEN "registered" ELSE "listed")
    /\ UNCHANGED <<key, infos, maxLimit, swept>>

InsertInfo(r) ==
    /\ req[r].pc = "listed"
    /\ infos' = [infos EXCEPT ![req[r].device] = @ + 1]
    /\ CommitAndGoto(r, "registered")
    /\ UNCHANGED <<key, maxLimit, swept>>

\* Analytics, heartbeat session, token and the encrypted response follow.
IssueToken(r) ==
    /\ req[r].pc = "registered"
    /\ Answer(r, "ok")
    /\ UNCHANGED <<key, infos, maxLimit, swept>>

-----------------------------------------------------------------------------
(* Managing: an attribute set to the value the session loaded is not       *)
(* written.                                                                *)

Written(q, column, value) == IF q.image[column] = value THEN key[column] ELSE value

ResetKeepsInfos(r) ==
    LET q == req[r] IN
    /\ Ready(r, "managing")
    /\ q.kind = "reset"
    /\ key' = [key EXCEPT !.devices = Written(q, "devices", {}),
                          !.fingerprint = Written(q, "fingerprint", NoDevice),
                          !.activated = Written(q, "activated", FALSE)]
    /\ swept' = swept \cup {s \in Requests : IsActive(req[s])}
    /\ Confirm(r)
    /\ UNCHANGED <<infos, maxLimit>>
Reset(r) ==
    LET q == req[r] IN
    /\ Ready(r, "managing")
    /\ q.kind = "reset"
    /\ key' = [key EXCEPT !.devices = Written(q, "devices", {}),
                          !.fingerprint = Written(q, "fingerprint", NoDevice),
                          !.activated = Written(q, "activated", FALSE)]
    /\ infos' = [d \in Devices |-> 0]
    /\ swept' = swept \cup {s \in Requests : IsActive(req[s])}
    /\ Confirm(r)
    /\ UNCHANGED maxLimit

\* The agents' bulk reset empties the lists and leaves the DeviceInfo rows.
AgentReset(r) ==
    /\ Ready(r, "managing")
    /\ req[r].kind = "agentReset"
    /\ key' = [key EXCEPT !.devices = Written(req[r], "devices", {})]
    /\ Answer(r, "fault")
    /\ UNCHANGED <<infos, maxLimit, swept>>

SetLimit(r) ==
    /\ Ready(r, "managing")
    /\ req[r].kind = "setLimit"
    /\ key' = [key EXCEPT !.limit = Written(req[r], "limit", req[r].limit)]
    /\ maxLimit' = IF key'.limit > maxLimit THEN key'.limit ELSE maxLimit
    /\ Answer(r, "ok")
    /\ UNCHANGED <<infos, swept>>

\* _change_key_status; an expired key is refused like a paused one.
SetStatus(r) ==
    /\ Ready(r, "managing")
    /\ req[r].kind \in {"pause", "resume"}
    /\ key' = [key EXCEPT !.active = Written(req[r], "active", req[r].kind = "resume")]
    /\ Confirm(r)
    /\ UNCHANGED <<infos, maxLimit, swept>>

\* A step raises, or the worker dies: what was committed stays.
Fails(r) ==
    /\ MayFail
    /\ IsActive(req[r])
    /\ Answer(r, "error")
    /\ UNCHANGED <<key, infos, maxLimit, swept>>

-----------------------------------------------------------------------------
Init ==
    /\ key = NewKey
    /\ infos = [d \in Devices |-> 0]
    /\ req = [r \in Requests |-> NoSession]
    /\ maxLimit = InitLimit
    /\ swept = {}

Connect(r) ==
    \/ Reload(r)
    \/ BindFingerprint(r)
    \/ PassFingerprint(r)
    \/ RefuseFingerprint(r)
    \/ RefuseInactive(r)
    \/ Activate(r)
    \/ PassActivated(r)
    \/ PassLimit(r)
    \/ RefuseLimit(r)
    \/ ListDevice(r)
    \/ FindInfo(r)
    \/ InsertInfo(r)
    \/ IssueToken(r)

Manage(r) == Reset(r) \/ AgentReset(r) \/ SetLimit(r) \/ SetStatus(r)

ArriveAny(r) ==
    \E kind \in Kinds, d \in Devices \cup {NoDevice}, n \in Limits \cup {InitLimit} :
        Arrive(r, kind, d, n)

Served ==
    /\ \A r \in Requests : req[r].pc = "done"
    /\ UNCHANGED vars

Next ==
    \/ \E r \in Requests : ArriveAny(r) \/ Connect(r) \/ Manage(r) \/ Fails(r)
    \/ Served

Spec == Init /\ [][Next]_vars

-----------------------------------------------------------------------------
(* Properties.                                                             *)

ConnectSteps == {"found", "bound", "live", "admitted", "listed", "registered"}

DevicesAreKnown == \A r \in Requests : req[r].pc \in ConnectSteps => req[r].device \in Devices

ImagesAreLoaded ==
    \A r \in Requests : req[r].pc \in {"found", "admitted", "managing"} => req[r].loaded

\* Every variable keeps its type, and a handler that is about to decide on the
\* Key row or to register a device holds a loaded image of it.
TypeOK ==
    /\ key \in KeyRow
    /\ infos \in [Devices -> Nat]
    /\ req \in [Requests -> Handler]
    /\ maxLimit \in Nat
    /\ swept \in SUBSET Requests
    /\ ImagesAreLoaded
    /\ DevicesAreKnown

\* The device list of the Key row never outgrows the largest limit the key has
\* had: however many registrations race, each writes back the list it checked
\* and one device more (validate_device_limit, register_device).
ListWithinLimit == Cardinality(key.devices) <= maxLimit

\* What makes it inductive: the same of every image a handler may write back,
\* and room for one more in the image of a device about to be listed.
ImagesWithinLimit ==
    /\ key.limit <= maxLimit
    /\ \A r \in Requests :
        LET q == req[r] IN
        IsActive(q) =>
            /\ Cardinality(q.image.devices) <= maxLimit
            /\ q.image.limit <= maxLimit
            /\ q.pc = "admitted" /\ q.device \notin q.image.devices
               => Cardinality(q.image.devices) < maxLimit

\* A token is issued only to a device that has a DeviceInfo row, unless a reset
\* removed it meanwhile: the row lost when a worker dies between the two
\* commits of register_device is made good by the next connect.
TokenNeedsRow ==
    [][\A r \in Requests :
          req[r].pc = "registered" /\ req'[r].answer = "ok" /\ r \notin swept
          => infos[req[r].device] > 0]_vars

\* As long as no handler dies and no devices are reset, races overbook a key by
\* at most one device for each other handler: only registrations already under
\* way escape the count of validate_device_limit, however the list is clobbered.
OverbookedByRacersOnly ==
    swept = {} /\ (\A r \in Requests : req[r].answer \notin {"error", "fault"})
    => Cardinality(WithInfo) <= maxLimit + Threads - 1

\* A reset makes room: after it no device is counted against the limit any more
\* (reset_key, bulk_reset_keys, and the agents' bulk_reset_loader_keys).
ResetFreesSeats ==
    [][\A r \in Requests :
          /\ req[r].kind \in {"reset", "agentReset"}
          /\ req[r].pc = "managing" /\ req'[r].answer \in {"ok", "fault"}
          => key'.devices = {} /\ \A d \in Devices : infos'[d] = 0]_vars

\* A device is on the list before it gets its DeviceInfo row, and has one row
\* only, also when workers die between the two commits (requests one by one).
InfoFollowsList ==
    \A d \in Devices : infos[d] <= (IF d \in key.devices THEN 1 ELSE 0)

\* Served one after the other the requests implement the pool of seats.
Pool == INSTANCE SeatPool WITH seats <- key.devices, limit <- key.limit
PoolSpec == Pool!Spec
=============================================================================
