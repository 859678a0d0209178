--------------------------- MODULE KeySeatsProofs ---------------------------
(***************************************************************************)
(* Proofs about KeySeats: types, and that no race, failure, reset or new   *)
(* limit makes the device list of a key outgrow the largest limit.         *)
(***************************************************************************)
EXTENDS KeySeats, TotalsProofs, FiniteSetTheorems, TLAPS

-----------------------------------------------------------------------------
(* Finite sets of devices, and the values the model starts from.           *)

\* A set of devices has a size, and listing a new device adds one to it.
LEMMA ListSize ==
    ASSUME NEW D \in SUBSET Devices, NEW d
    PROVE  /\ Cardinality(D) \in Nat
           /\ d \notin D => Cardinality(D \cup {d}) = Cardinality(D) + 1
<1>1. IsFiniteSet(D)
  BY DevicesAssumption, FS_Subset
<1> QED
  BY <1>1, FS_CardinalityType, FS_AddElement

LEMMA EmptyListSize == Cardinality({}) = 0
BY FS_EmptySet

\* An empty session is a session, and the new key is a key.
LEMMA NoSessionType == NewKey \in KeyRow /\ NoSession \in Handler
<1>1. NewKey \in KeyRow
  BY LimitsAssumption DEF NewKey, KeyRow
<1> QED
  BY <1>1, LimitsAssumption DEF NoSession, Handler, Steps, AllKinds, Answers

-----------------------------------------------------------------------------
(* What the session steps do to the handlers.                              *)

OthersUnchanged(r) == \A s \in Requests \ {r} : req'[s] = req[s]

\* The request itself does not change while its handler runs.
SameRequest(p, q) == p.kind = q.kind /\ p.device = q.device /\ p.limit = q.limit

LEMMA GotoType ==
    ASSUME TypeOK, NEW r \in Requests, NEW pc \in Steps, Goto(r, pc)
    PROVE  /\ req' \in [Requests -> Handler]
           /\ OthersUnchanged(r)
           /\ req'[r].pc = pc
           /\ req'[r].loaded = req[r].loaded
           /\ req'[r].image = req[r].image
           /\ req'[r].answer = req[r].answer
           /\ SameRequest(req'[r], req[r])
<1>1. req[r] \in Handler /\ req \in [Requests -> Handler]
  BY DEF TypeOK
<1>2. [req[r] EXCEPT !.pc = pc] \in Handler
  BY <1>1 DEF Handler
<1>3. req' = [req EXCEPT ![r] = [req[r] EXCEPT !.pc = pc]]
  BY <1>1 DEF Goto
<1> QED
  BY <1>1, <1>2, <1>3 DEF OthersUnchanged, SameRequest, Handler

LEMMA CommitType ==
    ASSUME TypeOK, NEW r \in Requests, NEW pc \in Steps, CommitAndGoto(r, pc)
    PROVE  /\ req' \in [Requests -> Handler]
           /\ OthersUnchanged(r)
           /\ req'[r].pc = pc
           /\ req'[r].image = req[r].image
           /\ ~req'[r].loaded
           /\ req'[r].answer = req[r].answer
           /\ SameRequest(req'[r], req[r])
<1>1. req[r] \in Handler /\ req \in [Requests -> Handler]
  BY DEF TypeOK
<1>2. [req[r] EXCEPT !.pc = pc, !.loaded = FALSE] \in Handler
  BY <1>1 DEF Handler
<1>3. req' = [req EXCEPT ![r] = [req[r] EXCEPT !.pc = pc, !.loaded = FALSE]]
  BY <1>1 DEF CommitAndGoto
<1> QED
  BY <1>1, <1>2, <1>3 DEF OthersUnchanged, SameRequest, Handler

LEMMA AnswerType ==
    ASSUME TypeOK, NEW r \in Requests, NEW answer \in Answers, Answer(r, answer)
    PROVE  /\ req' \in [Requests -> Handler]
           /\ OthersUnchanged(r)
           /\ req'[r].pc = "done"
           /\ req'[r].answer = answer
<1>1. req \in [Requests -> Handler]
  BY DEF TypeOK
<1>2. [NoSession EXCEPT !.pc = "done", !.answer = answer] \in Handler
  BY NoSessionType DEF Handler, Steps
<1>3. /\ [NoSession EXCEPT !.pc = "done", !.answer = answer].pc = "done"
      /\ [NoSession EXCEPT !.pc = "done", !.answer = answer].answer = answer
  BY NoSessionType DEF NoSession
<1> QED
  BY <1>1, <1>2, <1>3 DEF OthersUnchanged, Answer

LEMMA ReloadType ==
    ASSUME TypeOK, NEW r \in Requests, Reload(r)
    PROVE  /\ req' \in [Requests -> Handler]
           /\ OthersUnchanged(r)
           /\ req'[r].pc = req[r].pc
           /\ req'[r].loaded
           /\ req'[r].image = key
           /\ req'[r].answer = req[r].answer
           /\ SameRequest(req'[r], req[r])
<1>1. req[r] \in Handler /\ req \in [Requests -> Handler] /\ key \in KeyRow
  BY DEF TypeOK
<1>2. [req[r] EXCEPT !.image = key, !.loaded = TRUE] \in Handler
  BY <1>1 DEF Handler
<1>3. req' = [req EXCEPT ![r] = [req[r] EXCEPT !.image = key, !.loaded = TRUE]]
  BY <1>1 DEF Reload
<1> QED
  BY <1>1, <1>2, <1>3 DEF OthersUnchanged, SameRequest, Handler

LEMMA ArriveType ==
    ASSUME TypeOK, NEW r \in Requests, NEW kind \in Kinds, NEW d \in Devices \cup {NoDevice},
           NEW n \in Limits \cup {InitLimit}, Arrive(r, kind, d, n)
    PROVE  /\ req' \in [Requests -> Handler]
           /\ OthersUnchanged(r)
           /\ req'[r].pc \in {"found", "managing"}
           /\ req'[r].pc = "found" => req'[r].device \in Devices
           /\ req'[r].loaded
           /\ req'[r].image = key
           /\ req'[r].answer = "none"
           /\ req'[r].kind \in Kinds
           /\ req'[r].kind = "setLimit" => req'[r].limit \in Limits
           /\ req[r].pc = "idle" /\ UNCHANGED <<key, infos, maxLimit, swept>>
<1> DEFINE q == [pc |-> IF kind = "connect" THEN "found" ELSE "managing",
                 kind |-> kind, device |-> d, limit |-> n,
                 image |-> key, loaded |-> TRUE, answer |-> "none"]
<1>1. req \in [Requests -> Handler] /\ key \in KeyRow
  BY DEF TypeOK
<1>2. kind \in AllKinds /\ n \in Nat
  BY SeatKindsAssumption, LimitsAssumption
<1>3. q \in Handler
  BY <1>1, <1>2 DEF Handler, Steps, Answers
<1>4. /\ req' = [req EXCEPT ![r] = q]
      /\ req[r].pc = "idle" /\ UNCHANGED <<key, infos, maxLimit, swept>>
  BY DEF Arrive
<1>5. /\ q.pc \in {"found", "managing"}
      /\ q.pc = "found" => q.device \in Devices
      /\ q.loaded
      /\ q.image = key
      /\ q.answer = "none"
      /\ q.kind \in Kinds
      /\ q.kind = "setLimit" => q.limit \in Limits
  BY DEF Arrive
<1> HIDE DEF q
<1> QED
  BY <1>1, <1>3, <1>4, <1>5 DEF OthersUnchanged

-----------------------------------------------------------------------------
(* The steps of a handler, grouped by what they do to the database.        *)

Database == <<key, infos, maxLimit, swept>>

\* The handler moves on with the image it holds.
PassStep(r) ==
    /\ IsActive(req[r]) /\ req[r].device \in Devices
    /\ \E pc \in {"bound", "live", "admitted", "listed", "registered"} :
        /\ pc = "admitted" => Ready(r, "live") /\ HasSeat(req[r])
        /\ Goto(r, pc)
    /\ UNCHANGED Database

\* The handler answers, and nothing was committed.
EndStep(r) ==
    /\ \E answer \in Answers : Answer(r, answer)
    /\ UNCHANGED Database

\* A commit that leaves the list and the limit of the key alone.
OtherCommit(r) ==
    /\ IsActive(req[r]) /\ req[r].device \in Devices
    /\ \E pc \in {"bound", "live", "registered"} : CommitAndGoto(r, pc)
    /\ key' \in KeyRow /\ key'.devices = key.devices /\ key'.limit = key.limit
    /\ infos' \in [Devices -> Nat]
    /\ UNCHANGED <<maxLimit, swept>>

\* A manager's commit.
ManagerCommit(r) ==
    /\ \E answer \in Answers : Answer(r, answer)
    /\ key' \in KeyRow
    /\ key'.devices \in {{}, key.devices}
    /\ \/ key'.limit = key.limit /\ maxLimit' = maxLimit
       \/ maxLimit' = IF key'.limit > maxLimit THEN key'.limit ELSE maxLimit
    /\ infos' \in [Devices -> Nat]
    /\ swept' \in SUBSET Requests

LEMMA ConnectKinds ==
    ASSUME TypeOK, NEW r \in Requests, Connect(r) \/ Fails(r)
    PROVE  Reload(r) \/ PassStep(r) \/ EndStep(r) \/ OtherCommit(r) \/ ListDevice(r)
<1>0. /\ key \in KeyRow /\ infos \in [Devices -> Nat]
      /\ req[r] \in Handler
      /\ req[r].pc \in ConnectSteps => req[r].device \in Devices
  BY DEF TypeOK, DevicesAreKnown
<1>1. CASE PassFingerprint(r) \/ PassActivated(r) \/ PassLimit(r) \/ FindInfo(r)
  BY <1>0, <1>1 DEF PassFingerprint, PassActivated, PassLimit, FindInfo, PassStep,
                    Database, Ready, IsActive, ConnectSteps
<1>2. CASE RefuseFingerprint(r) \/ RefuseInactive(r) \/ RefuseLimit(r)
           \/ IssueToken(r) \/ Fails(r)
  BY <1>2 DEF RefuseFingerprint, RefuseInactive, RefuseLimit, IssueToken, Fails,
              EndStep, Database, Answers
<1>3. CASE BindFingerprint(r)
  <2>1. req[r].device \in Devices
    BY <1>0, <1>3 DEF BindFingerprint, Ready, ConnectSteps
  <2>2. /\ key' \in KeyRow
        /\ key'.devices = key.devices /\ key'.limit = key.limit
    BY <1>0, <1>3, <2>1 DEF BindFingerprint, KeyRow
  <2> QED
    BY <1>0, <1>3, <2>1, <2>2 DEF BindFingerprint, OtherCommit, Ready, IsActive
<1>4. CASE Activate(r)
  <2>1. /\ key' \in KeyRow
        /\ key'.devices = key.devices /\ key'.limit = key.limit
    BY <1>0, <1>4 DEF Activate, KeyRow
  <2> QED
    BY <1>0, <1>4, <2>1 DEF Activate, OtherCommit, Ready, IsActive, ConnectSteps
<1>5. CASE InsertInfo(r)
  <2>1. req[r].device \in Devices
    BY <1>0, <1>5 DEF InsertInfo, ConnectSteps
  <2>2. infos' \in [Devices -> Nat]
    BY <1>0, <1>5, <2>1 DEF InsertInfo
  <2> QED
    BY <1>0, <1>5, <2>1, <2>2 DEF InsertInfo, OtherCommit, IsActive
<1> QED
  BY <1>1, <1>2, <1>3, <1>4, <1>5 DEF Connect

LEMMA ManageKinds ==
    ASSUME TypeOK, NEW r \in Requests, Manage(r)
    PROVE  ManagerCommit(r)
<1>0. /\ key \in KeyRow /\ infos \in [Devices -> Nat] /\ swept \in SUBSET Requests
      /\ req[r] \in Handler
      /\ "ok" \in Answers /\ "fault" \in Answers
  BY DEF TypeOK, Answers
<1>1. CASE Reset(r)
  <2> DEFINE q == req[r]
  <2>1. /\ Written(q, "devices", {}) \in {{}, key.devices}
        /\ Written(q, "devices", {}) \in SUBSET Devices
        /\ Written(q, "fingerprint", NoDevice) \in Devices \cup {NoDevice}
        /\ Written(q, "activated", FALSE) \in BOOLEAN
    BY <1>0 DEF Written, KeyRow
  <2>2. key' = [key EXCEPT !.devices = Written(q, "devices", {}),
                           !.fingerprint = Written(q, "fingerprint", NoDevice),
                           !.activated = Written(q, "activated", FALSE)]
    BY <1>1 DEF Reset
  <2> HIDE DEF q
  <2>3. /\ key' \in KeyRow
        /\ key'.limit = key.limit
        /\ key'.devices \in {{}, key.devices}
    BY <1>0, <2>1, <2>2 DEF KeyRow
  <2>4. infos' \in [Devices -> Nat] /\ swept' \in SUBSET Requests
    BY <1>0, <1>1 DEF Reset
  <2> QED
    BY <1>0, <1>1, <2>3, <2>4 DEF Reset, Confirm, ManagerCommit
<1>2. CASE AgentReset(r)
  <2>1. /\ Written(req[r], "devices", {}) \in {{}, key.devices}
        /\ Written(req[r], "devices", {}) \in SUBSET Devices
    BY <1>0 DEF Written, KeyRow
  <2>2. /\ key' \in KeyRow
        /\ key'.limit = key.limit
        /\ key'.devices \in {{}, key.devices}
    BY <1>0, <1>2, <2>1 DEF AgentReset, KeyRow
  <2> QED
    BY <1>0, <1>2, <2>2 DEF AgentReset, ManagerCommit
<1>3. CASE SetLimit(r)
  <2>1. Written(req[r], "limit", req[r].limit) \in Nat
    BY <1>0 DEF Written, KeyRow, Handler
  <2>2. key' \in KeyRow /\ key'.devices = key.devices
    BY <1>0, <1>3, <2>1 DEF SetLimit, KeyRow
  <2> QED
    BY <1>0, <1>3, <2>2 DEF SetLimit, ManagerCommit
<1>4. CASE SetStatus(r)
  <2>1. Written(req[r], "active", req[r].kind = "resume") \in BOOLEAN
    BY <1>0 DEF Written, KeyRow
  <2>2. /\ key' \in KeyRow
        /\ key'.limit = key.limit
        /\ key'.devices = key.devices
    BY <1>0, <1>4, <2>1 DEF SetStatus, KeyRow
  <2> QED
    BY <1>0, <1>4, <2>2 DEF SetStatus, Confirm, ManagerCommit
<1> QED
  BY <1>1, <1>2, <1>3, <1>4 DEF Manage

-----------------------------------------------------------------------------
(* Type correctness.                                                       *)

LEMMA TypeInit == Init => TypeOK
BY NoSessionType, LimitsAssumption
   DEF Init, TypeOK, ImagesAreLoaded, DevicesAreKnown, ConnectSteps, NoSession

LEMMA ListDeviceType ==
    ASSUME TypeOK, NEW r \in Requests, ListDevice(r)
    PROVE  /\ key' \in KeyRow
           /\ key'.devices = req[r].image.devices \cup {req[r].device}
           /\ key'.limit = key.limit
<1>1. /\ key \in KeyRow
      /\ req[r].device \in Devices /\ req[r].image.devices \in SUBSET Devices
  BY DEF TypeOK, Handler, KeyRow, ListDevice, Ready, DevicesAreKnown, ConnectSteps
<1>2. key' = [key EXCEPT !.devices = req[r].image.devices \cup {req[r].device}]
  BY DEF ListDevice
<1> QED
  BY <1>1, <1>2 DEF KeyRow

LEMMA TypeStep == TypeOK /\ [Next]_vars => TypeOK'
<1> SUFFICES ASSUME TypeOK, [Next]_vars PROVE TypeOK'
  OBVIOUS
<1>1. CASE UNCHANGED vars \/ Served
  BY <1>1 DEF vars, Served, TypeOK, ImagesAreLoaded, DevicesAreKnown, ConnectSteps
<1>2. ASSUME NEW r \in Requests, ArriveAny(r) PROVE TypeOK'
  <2>1. PICK kind \in Kinds, d \in Devices \cup {NoDevice}, n \in Limits \cup {InitLimit} :
            Arrive(r, kind, d, n)
    BY <1>2 DEF ArriveAny
  <2>2. /\ req' \in [Requests -> Handler]
        /\ OthersUnchanged(r)
        /\ req'[r].pc \in {"found", "managing"}
        /\ req'[r].pc = "found" => req'[r].device \in Devices
        /\ req'[r].loaded
    BY <2>1, ArriveType
  <2> QED
    BY <2>1, <2>2 DEF Arrive, TypeOK, ImagesAreLoaded, DevicesAreKnown, ConnectSteps,
                      OthersUnchanged
<1>3. ASSUME NEW r \in Requests, Connect(r) \/ Fails(r) PROVE TypeOK'
  <2>1. CASE Reload(r)
    <3>1. /\ req' \in [Requests -> Handler]
          /\ OthersUnchanged(r)
          /\ req'[r].pc = req[r].pc
          /\ req'[r].device = req[r].device
          /\ req'[r].loaded
      BY <2>1, ReloadType DEF SameRequest
    <3> QED
      BY <2>1, <3>1 DEF Reload, TypeOK, ImagesAreLoaded, DevicesAreKnown, ConnectSteps,
                        OthersUnchanged
  <2>2. CASE PassStep(r)
    <3>1. PICK pc \in {"bound", "live", "admitted", "listed", "registered"} :
            /\ pc = "admitted" => Ready(r, "live")
            /\ Goto(r, pc)
      BY <2>2 DEF PassStep
    <3>2. /\ req' \in [Requests -> Handler]
          /\ OthersUnchanged(r)
          /\ req'[r].pc = pc
          /\ req'[r].loaded = req[r].loaded
          /\ req'[r].device = req[r].device
      BY <3>1, GotoType DEF Steps, SameRequest
    <3> QED
      BY <2>2, <3>1, <3>2 DEF PassStep, Database, Ready, TypeOK, ImagesAreLoaded,
                              DevicesAreKnown, ConnectSteps,
                              OthersUnchanged
  <2>3. CASE EndStep(r)
    <3>1. /\ req' \in [Requests -> Handler]
          /\ OthersUnchanged(r)
          /\ req'[r].pc = "done"
      BY <2>3, AnswerType DEF EndStep
    <3> QED
      BY <2>3, <3>1 DEF EndStep, Database, TypeOK, ImagesAreLoaded, DevicesAreKnown,
                        ConnectSteps, OthersUnchanged
  <2>4. CASE OtherCommit(r)
    <3>1. PICK pc \in {"bound", "live", "registered"} : CommitAndGoto(r, pc)
      BY <2>4 DEF OtherCommit
    <3>2. /\ req' \in [Requests -> Handler]
          /\ OthersUnchanged(r)
          /\ req'[r].pc = pc
          /\ req'[r].device = req[r].device
      BY <3>1, CommitType DEF Steps, SameRequest
    <3> QED
      BY <2>4, <3>2 DEF OtherCommit, TypeOK, ImagesAreLoaded, DevicesAreKnown,
                        ConnectSteps, OthersUnchanged
  <2>5. CASE ListDevice(r)
    <3>1. /\ req' \in [Requests -> Handler]
          /\ OthersUnchanged(r)
          /\ req'[r].pc = "listed"
          /\ req'[r].device = req[r].device
      BY <2>5, CommitType DEF ListDevice, Steps, SameRequest
    <3> QED
      BY <2>5, <3>1, ListDeviceType DEF ListDevice, Ready, TypeOK, ImagesAreLoaded,
                                        DevicesAreKnown, ConnectSteps, OthersUnchanged
  <2> QED
    BY <1>3, <2>1, <2>2, <2>3, <2>4, <2>5, ConnectKinds
<1>4. ASSUME NEW r \in Requests, Manage(r) PROVE TypeOK'
  <2>1. ManagerCommit(r)
    BY <1>4, ManageKinds
  <2>2. /\ req' \in [Requests -> Handler]
        /\ OthersUnchanged(r)
        /\ req'[r].pc = "done"
    BY <2>1, AnswerType DEF ManagerCommit
  <2>3. maxLimit' \in Nat
    BY <2>1 DEF ManagerCommit, TypeOK, KeyRow
  <2> QED
    BY <2>1, <2>2, <2>3 DEF ManagerCommit, TypeOK, ImagesAreLoaded, DevicesAreKnown,
                            ConnectSteps, OthersUnchanged
<1> QED
  BY <1>1, <1>2, <1>3, <1>4 DEF Next

\* Every variable keeps its type, and no handler decides on the Key row or
\* registers a device with an expired image (services/connect).
THEOREM SeatTypeCorrect == Spec => []TypeOK
<1>1. TypeOK /\ [Next]_vars => TypeOK'
  BY TypeStep
<1> QED
  BY <1>1, TypeInit, PTL DEF Spec

-----------------------------------------------------------------------------
(* The device list stays within the limit.                                 *)

ListInvariant == TypeOK /\ ListWithinLimit /\ ImagesWithinLimit

\* The images of the other handlers are as good as before as long as the
\* largest limit does not shrink and the row stays within it.
LEMMA OtherImages ==
    ASSUME ListInvariant, TypeOK', NEW r \in Requests, OthersUnchanged(r),
           maxLimit' >= maxLimit,
           key'.limit <= maxLimit',
           LET q == req'[r] IN
           IsActive(q) =>
               /\ Cardinality(q.image.devices) <= maxLimit'
               /\ q.image.limit <= maxLimit'
               /\ q.pc = "admitted" /\ q.device \notin q.image.devices
                  => Cardinality(q.image.devices) < maxLimit'
    PROVE  ImagesWithinLimit'
<1> SUFFICES ASSUME NEW s \in Requests, IsActive(req'[s])
             PROVE  /\ Cardinality(req'[s].image.devices) <= maxLimit'
                    /\ req'[s].image.limit <= maxLimit'
                    /\ req'[s].pc = "admitted" /\ req'[s].device \notin req'[s].image.devices
                       => Cardinality(req'[s].image.devices) < maxLimit'
  BY DEF ImagesWithinLimit
<1>1. CASE s = r
  BY <1>1
<1>2. CASE s # r
  <2>1. req'[s] = req[s]
    BY <1>2 DEF OthersUnchanged
  <2>2. /\ req[s].image.devices \in SUBSET Devices /\ req[s].image.limit \in Nat
    BY DEF ListInvariant, TypeOK, Handler, KeyRow
  <2>3. Cardinality(req[s].image.devices) \in Nat /\ maxLimit \in Nat /\ maxLimit' \in Nat
    BY <2>2, ListSize DEF ListInvariant, TypeOK
  <2> QED
    BY <2>1, <2>2, <2>3 DEF ListInvariant, ImagesWithinLimit
<1> QED
  BY <1>1, <1>2

LEMMA ListInit == Init => ListInvariant
<1> SUFFICES ASSUME Init PROVE ListInvariant
  OBVIOUS
<1>1. TypeOK
  BY TypeInit
<1>2. key.devices = {} /\ key.limit = InitLimit /\ maxLimit = InitLimit
  BY DEF Init, NewKey
<1>3. \A r \in Requests : ~IsActive(req[r])
  BY DEF Init, NoSession, IsActive
<1> QED
  BY <1>1, <1>2, <1>3, EmptyListSize, LimitsAssumption
     DEF ListInvariant, ListWithinLimit, ImagesWithinLimit

LEMMA ListStep == ListInvariant /\ [Next]_vars => ListInvariant'
<1> SUFFICES ASSUME ListInvariant, [Next]_vars PROVE ListInvariant'
  OBVIOUS
<1>0. /\ TypeOK /\ TypeOK'
      /\ key \in KeyRow /\ maxLimit \in Nat
      /\ key.limit <= maxLimit
      /\ Cardinality(key.devices) <= maxLimit
  BY TypeStep DEF ListInvariant, TypeOK, ImagesWithinLimit, ListWithinLimit
<1>0a. ASSUME NEW r \in Requests
       PROVE  /\ Cardinality(req[r].image.devices) \in Nat
              /\ Cardinality(key.devices) \in Nat
              /\ req[r].image.devices \in SUBSET Devices
              /\ req[r].image.limit \in Nat /\ key.limit \in Nat
  <2>1. /\ req[r].image.devices \in SUBSET Devices /\ key.devices \in SUBSET Devices
        /\ req[r].image.limit \in Nat /\ key.limit \in Nat
    BY <1>0 DEF TypeOK, Handler, KeyRow
  <2> QED
    BY <2>1, ListSize
<1>1. CASE UNCHANGED vars \/ Served
  BY <1>0, <1>1 DEF vars, Served, ListInvariant, ListWithinLimit, ImagesWithinLimit
<1>2. ASSUME NEW r \in Requests, ArriveAny(r) PROVE ListInvariant'
  <2>1. PICK kind \in Kinds, d \in Devices \cup {NoDevice}, n \in Limits \cup {InitLimit} :
            Arrive(r, kind, d, n)
    BY <1>2 DEF ArriveAny
  <2>2. /\ OthersUnchanged(r)
        /\ req'[r].pc \in {"found", "managing"}
        /\ req'[r].image = key
    BY <1>0, <2>1, ArriveType
  <2>3. ListWithinLimit'
    BY <1>0, <2>1 DEF Arrive, ListWithinLimit
  <2>4. ImagesWithinLimit'
    BY <1>0, <2>1, <2>2, OtherImages DEF Arrive
  <2> QED
    BY <1>0, <2>3, <2>4 DEF ListInvariant
<1>3. ASSUME NEW r \in Requests, Connect(r) \/ Fails(r) PROVE ListInvariant'
  <2>1. CASE Reload(r)
    <3>1. /\ OthersUnchanged(r)
          /\ req'[r].pc \in {"bound", "live"}
          /\ req'[r].image = key
      BY <1>0, <2>1, ReloadType DEF Reload
    <3>2. ListWithinLimit' /\ key' = key /\ maxLimit' = maxLimit
      BY <1>0, <2>1 DEF Reload, ListWithinLimit
    <3> QED
      BY <1>0, <3>1, <3>2, OtherImages DEF ListInvariant
  <2>2. CASE PassStep(r)
    <3>1. PICK pc \in {"bound", "live", "admitted", "listed", "registered"} :
            /\ pc = "admitted" => HasSeat(req[r])
            /\ Goto(r, pc)
      BY <2>2 DEF PassStep
    <3>2. /\ OthersUnchanged(r)
          /\ req'[r].pc = pc
          /\ req'[r].image = req[r].image
          /\ req'[r].device = req[r].device
      BY <1>0, <3>1, GotoType DEF Steps, SameRequest
    <3>3. ListWithinLimit' /\ key' = key /\ maxLimit' = maxLimit /\ IsActive(req[r])
      BY <1>0, <2>2 DEF PassStep, Database, ListWithinLimit
    <3>4. /\ Cardinality(req[r].image.devices) <= maxLimit
          /\ req[r].image.limit <= maxLimit
      BY <3>3 DEF ListInvariant, ImagesWithinLimit
    <3>5. pc = "admitted" /\ req[r].device \notin req[r].image.devices
          => Cardinality(req[r].image.devices) < maxLimit
      BY <1>0, <1>0a, <3>1, <3>4 DEF HasSeat
    <3> QED
      BY <1>0, <3>2, <3>3, <3>4, <3>5, OtherImages DEF ListInvariant
  <2>3. CASE EndStep(r)
    <3>1. OthersUnchanged(r) /\ req'[r].pc = "done"
      BY <1>0, <2>3, AnswerType DEF EndStep
    <3>2. ListWithinLimit' /\ key' = key /\ maxLimit' = maxLimit
      BY <1>0, <2>3 DEF EndStep, Database, ListWithinLimit
    <3> QED
      BY <1>0, <3>1, <3>2, OtherImages DEF ListInvariant, IsActive
  <2>4. CASE OtherCommit(r)
    <3>1. PICK pc \in {"bound", "live", "registered"} : CommitAndGoto(r, pc)
      BY <2>4 DEF OtherCommit
    <3>2. /\ OthersUnchanged(r)
          /\ req'[r].pc = pc
          /\ req'[r].image = req[r].image
      BY <1>0, <3>1, CommitType DEF Steps
    <3>3. /\ ListWithinLimit' /\ key'.limit = key.limit /\ maxLimit' = maxLimit
          /\ IsActive(req[r])
      BY <1>0, <2>4 DEF OtherCommit, ListWithinLimit
    <3>4. /\ Cardinality(req[r].image.devices) <= maxLimit
          /\ req[r].image.limit <= maxLimit
      BY <3>3 DEF ListInvariant, ImagesWithinLimit
    <3> QED
      BY <1>0, <3>2, <3>3, <3>4, OtherImages DEF ListInvariant
  <2>5. CASE ListDevice(r)
    <3>1. /\ OthersUnchanged(r)
          /\ req'[r].pc = "listed"
          /\ req'[r].image = req[r].image
      BY <1>0, <2>5, CommitType DEF ListDevice, Steps
    <3>2. /\ req[r].pc = "admitted" /\ req[r].device \notin req[r].image.devices
          /\ maxLimit' = maxLimit
          /\ IsActive(req[r])
      BY <2>5 DEF ListDevice, Ready, IsActive
    <3>3. /\ Cardinality(req[r].image.devices) < maxLimit
          /\ req[r].image.limit <= maxLimit
      BY <3>2 DEF ListInvariant, ImagesWithinLimit
    <3>4. /\ key'.devices = req[r].image.devices \cup {req[r].device}
          /\ key'.limit = key.limit
      BY <1>0, <2>5, ListDeviceType
    <3>5. ListWithinLimit'
      <4>1. Cardinality(key'.devices) = Cardinality(req[r].image.devices) + 1
        BY <1>0a, <3>2, <3>4, ListSize
      <4>2. /\ Cardinality(req[r].image.devices) \in Nat
            /\ maxLimit \in Nat /\ maxLimit' = maxLimit
        BY <1>0, <1>0a, <3>2
      <4> QED
        BY <3>3, <4>1, <4>2 DEF ListWithinLimit
    <3>6. ImagesWithinLimit'
      BY <1>0, <1>0a, <3>1, <3>2, <3>3, <3>4, OtherImages
    <3> QED
      BY <1>0, <3>5, <3>6 DEF ListInvariant
  <2> QED
    BY <1>0, <1>3, <2>1, <2>2, <2>3, <2>4, <2>5, ConnectKinds
<1>4. ASSUME NEW r \in Requests, Manage(r) PROVE ListInvariant'
  <2>1. ManagerCommit(r)
    BY <1>0, <1>4, ManageKinds
  <2>2. OthersUnchanged(r) /\ req'[r].pc = "done"
    BY <1>0, <2>1, AnswerType DEF ManagerCommit
  <2>3. key'.limit <= maxLimit' /\ maxLimit' >= maxLimit /\ maxLimit' \in Nat
    BY <1>0, <2>1 DEF ManagerCommit, KeyRow
  <2>4. ListWithinLimit'
    <3>1. CASE key'.devices = {}
      BY <2>3, <3>1, EmptyListSize DEF ListWithinLimit
    <3>2. CASE key'.devices = key.devices
      BY <1>0, <1>0a, <2>3, <3>2 DEF ListWithinLimit
    <3> QED
      BY <2>1, <3>1, <3>2 DEF ManagerCommit
  <2>5. ImagesWithinLimit'
    BY <1>0, <2>2, <2>3, OtherImages DEF IsActive
  <2> QED
    BY <1>0, <2>4, <2>5 DEF ListInvariant
<1> QED
  BY <1>1, <1>2, <1>3, <1>4 DEF Next

\* However many registrations race, fail or are reset, the device list of a key
\* never holds more devices than the largest limit the key has had.
THEOREM SeatListCorrect == Spec => []ListWithinLimit
<1>1. ListInvariant /\ [Next]_vars => ListInvariant'
  BY ListStep
<1>2. ListInvariant => ListWithinLimit
  BY DEF ListInvariant
<1> QED
  BY <1>1, <1>2, ListInit, PTL DEF Spec

-----------------------------------------------------------------------------
(* What a step of one handler does, for what follows.                      *)

\* It moves on before it is admitted.
Keeps(r) ==
    /\ key'.devices = key.devices /\ key'.limit = key.limit /\ UNCHANGED <<infos, maxLimit, swept>>
    /\ req[r].pc \in {"found", "bound", "live"} /\ req'[r].pc \in {"bound", "live"}
    /\ req'[r].answer = req[r].answer /\ SameRequest(req'[r], req[r])
    /\ req'[r].image \in {req[r].image, key}
    /\ req'[r].loaded => key' = key /\ (req'[r].image = key \/ req[r].loaded)

\* It ends with nothing left to register, or with an error.
Ends(r) ==
    /\ UNCHANGED Database
    /\ req'[r].pc = "done" /\ req'[r].answer \in Answers \ {"fault"}
    /\ req'[r].answer = "error" \/ req[r].pc \in {"found", "bound", "live", "registered"}

LEMMA ConnectMoves ==
    ASSUME TypeOK, NEW r \in Requests, Connect(r) \/ Fails(r)
    PROVE  /\ OthersUnchanged(r) /\ IsActive(req[r])
           /\ Keeps(r) \/ Ends(r) \/ PassLimit(r) \/ ListDevice(r) \/ FindInfo(r) \/ InsertInfo(r)
<1>1. CASE PassFingerprint(r) \/ PassActivated(r)
  <2>1. PICK pc \in {"bound", "live"} : Goto(r, pc)
    BY <1>1 DEF PassFingerprint, PassActivated
  <2>2. /\ OthersUnchanged(r) /\ req'[r].pc = pc /\ req'[r].loaded = req[r].loaded
        /\ req'[r].image = req[r].image /\ req'[r].answer = req[r].answer
        /\ SameRequest(req'[r], req[r])
    BY <2>1, GotoType DEF Steps
  <2> QED
    BY <1>1, <2>1, <2>2 DEF PassFingerprint, PassActivated, Ready, Keeps, IsActive
<1>2. CASE BindFingerprint(r) \/ Activate(r)
  <2>1. PICK pc \in {"bound", "live"} : CommitAndGoto(r, pc)
    BY <1>2 DEF BindFingerprint, Activate
  <2>2. /\ OthersUnchanged(r) /\ req'[r].pc = pc /\ ~req'[r].loaded
        /\ req'[r].image = req[r].image /\ req'[r].answer = req[r].answer
        /\ SameRequest(req'[r], req[r])
    BY <2>1, CommitType DEF Steps
  <2>3. key'.devices = key.devices /\ key'.limit = key.limit
    <3>1. key \in KeyRow
      BY DEF TypeOK
    <3> QED
      BY <1>2, <3>1 DEF BindFingerprint, Activate, KeyRow
  <2> QED
    BY <1>2, <2>1, <2>2, <2>3 DEF BindFingerprint, Activate, Ready, Keeps, IsActive
<1>3. CASE Reload(r)
  <2>1. /\ OthersUnchanged(r) /\ req'[r].pc = req[r].pc /\ req'[r].loaded
        /\ req'[r].image = key /\ req'[r].answer = req[r].answer
        /\ SameRequest(req'[r], req[r])
    BY <1>3, ReloadType
  <2> QED
    BY <1>3, <2>1 DEF Reload, Keeps, IsActive
<1>4. CASE RefuseFingerprint(r) \/ RefuseInactive(r) \/ RefuseLimit(r) \/ IssueToken(r)
  <2>1. PICK answer \in Answers \ {"error", "fault"} : Answer(r, answer)
    BY <1>4 DEF RefuseFingerprint, RefuseInactive, RefuseLimit, IssueToken, Answers
  <2>2. OthersUnchanged(r) /\ req'[r].pc = "done" /\ req'[r].answer = answer
    BY <2>1, AnswerType
  <2> QED
    BY <1>4, <2>1, <2>2 DEF RefuseFingerprint, RefuseInactive, RefuseLimit, IssueToken,
                            Ready, Ends, IsActive, Database
<1>5. CASE Fails(r)
  <2>1. "error" \in Answers
    BY DEF Answers
  <2>2. OthersUnchanged(r) /\ req'[r].pc = "done" /\ req'[r].answer = "error"
    BY <1>5, <2>1, AnswerType DEF Fails
  <2> QED
    BY <1>5, <2>1, <2>2 DEF Fails, Ends, Database
<1>6. CASE PassLimit(r) \/ FindInfo(r)
  <2>1. PICK pc \in {"admitted", "listed", "registered"} : Goto(r, pc)
    BY <1>6 DEF PassLimit, FindInfo
  <2> QED
    BY <1>6, <2>1, GotoType DEF PassLimit, FindInfo, Ready, IsActive, Steps
<1>7. CASE ListDevice(r) \/ InsertInfo(r)
  <2>1. PICK pc \in {"listed", "registered"} : CommitAndGoto(r, pc)
    BY <1>7 DEF ListDevice, InsertInfo
  <2> QED
    BY <1>7, <2>1, CommitType DEF ListDevice, InsertInfo, Ready, IsActive, Steps
<1> QED
  BY <1>1, <1>2, <1>3, <1>4, <1>5, <1>6, <1>7 DEF Connect

LEMMA ManageMoves ==
    ASSUME TypeOK, NEW r \in Requests, Manage(r)
    PROVE  /\ OthersUnchanged(r) /\ req[r].pc = "managing" /\ req[r].loaded
           /\ req'[r].pc = "done" /\ req'[r].answer \in Answers
           /\ \/ Reset(r)
              \/ AgentReset(r) /\ req'[r].answer = "fault"
              \/ SetLimit(r) /\ key'.devices = key.devices
              \/ SetStatus(r) /\ key'.devices = key.devices /\ key'.limit = key.limit
<1>1. PICK answer \in {"ok", "fault"} : Answer(r, answer) /\ (AgentReset(r) => answer = "fault")
  BY DEF Manage, Reset, AgentReset, SetLimit, SetStatus, Confirm
<1>2. OthersUnchanged(r) /\ req'[r].pc = "done" /\ req'[r].answer = answer /\ answer \in Answers
  BY <1>1, AnswerType DEF Answers
<1>3. req[r].pc = "managing" /\ req[r].loaded
  BY DEF Manage, Reset, AgentReset, SetLimit, SetStatus, Ready
<1>4. key \in KeyRow
  BY DEF TypeOK
<1>5. /\ SetLimit(r) => key'.devices = key.devices
      /\ SetStatus(r) => key'.devices = key.devices /\ key'.limit = key.limit
  BY <1>4 DEF SetLimit, SetStatus, KeyRow
<1> QED
  BY <1>1, <1>2, <1>3, <1>5 DEF Manage

-----------------------------------------------------------------------------
(* The handlers that run, and the answers given.                           *)

Active == {r \in Requests : IsActive(req[r])}

\* No more handlers run than there are threads.
ActiveWithin == IsFiniteSet(Active) /\ Cardinality(Active) <= Threads

\* An answered request is done.
AnswersAreLast == \A r \in Requests : req[r].answer # "none" => req[r].pc = "done"

\* No handler died or raised after its commit, and the devices were never reset.
Calm == swept = {} /\ \A r \in Requests : req[r].answer \notin {"error", "fault"}

RunInv == TypeOK /\ ActiveWithin /\ AnswersAreLast

\* One handler moves, which runs or has just arrived.
LEMMA OneMoves ==
    ASSUME TypeOK, [Next]_vars
    PROVE  \/ UNCHANGED vars
           \/ \E r \in Requests :
                 /\ OthersUnchanged(r)
                 /\ \/ IsActive(req[r])
                    \/ req[r].pc = "idle" /\ Cardinality(Active) < Threads
                 /\ \/ req'[r].answer \in {"none", req[r].answer}
                    \/ req'[r].pc = "done"
                 /\ swept \subseteq swept'
<1>1. ASSUME NEW r \in Requests, ArriveAny(r)
      PROVE  /\ OthersUnchanged(r) /\ req'[r].answer = "none" /\ swept' = swept
             /\ req[r].pc = "idle" /\ Cardinality(Active) < Threads
  <2>1. PICK kind \in Kinds, d \in Devices \cup {NoDevice}, n \in Limits \cup {InitLimit} :
            Arrive(r, kind, d, n)
    BY <1>1 DEF ArriveAny
  <2>2. OthersUnchanged(r) /\ req'[r].answer = "none"
    BY <2>1, ArriveType
  <2> QED
    BY <2>1, <2>2 DEF Arrive, Active
<1>2. ASSUME NEW r \in Requests, Connect(r) \/ Fails(r)
      PROVE  /\ OthersUnchanged(r) /\ IsActive(req[r]) /\ swept' = swept
             /\ req'[r].answer = req[r].answer \/ req'[r].pc = "done"
  <2>1. /\ OthersUnchanged(r) /\ IsActive(req[r])
        /\ Keeps(r) \/ Ends(r) \/ PassLimit(r) \/ ListDevice(r) \/ FindInfo(r) \/ InsertInfo(r)
    BY <1>2, ConnectMoves
  <2>2. CASE Keeps(r) \/ Ends(r)
    BY <2>1, <2>2 DEF Keeps, Ends, Database
  <2>3. CASE PassLimit(r) \/ FindInfo(r)
    <3>1. PICK pc \in {"admitted", "listed", "registered"} : Goto(r, pc)
      BY <2>3 DEF PassLimit, FindInfo
    <3> QED
      BY <2>1, <2>3, <3>1, GotoType DEF PassLimit, FindInfo, Steps
  <2>4. CASE ListDevice(r) \/ InsertInfo(r)
    <3>1. PICK pc \in {"listed", "registered"} : CommitAndGoto(r, pc)
      BY <2>4 DEF ListDevice, InsertInfo
    <3> QED
      BY <2>1, <2>4, <3>1, CommitType DEF ListDevice, InsertInfo, Steps
  <2> QED
    BY <2>1, <2>2, <2>3, <2>4
<1>3. ASSUME NEW r \in Requests, Manage(r)
      PROVE  /\ OthersUnchanged(r) /\ IsActive(req[r]) /\ req'[r].pc = "done"
             /\ swept \subseteq swept'
  BY <1>3, ManageMoves DEF Reset, AgentReset, SetLimit, SetStatus, IsActive
<1> QED
  BY <1>1, <1>2, <1>3 DEF Next, Served

LEMMA RunInit == Init => RunInv
<1> SUFFICES ASSUME Init PROVE RunInv
  OBVIOUS
<1>1. \A r \in Requests : req[r].pc = "idle" /\ req[r].answer = "none"
  BY DEF Init, NoSession
<1>2. Active = {} /\ AnswersAreLast
  BY <1>1 DEF Active, IsActive, AnswersAreLast
<1> QED
  BY <1>2, TypeInit, FS_EmptySet, SeatThreadsAssumption DEF RunInv, ActiveWithin

LEMMA RunStep == RunInv /\ [Next]_vars => RunInv'
<1> SUFFICES ASSUME RunInv, [Next]_vars PROVE RunInv'
  OBVIOUS
<1>1. TypeOK /\ TypeOK' /\ ActiveWithin /\ AnswersAreLast
  BY TypeStep DEF RunInv
<1>2. CASE UNCHANGED vars
  BY <1>1, <1>2 DEF RunInv, vars, ActiveWithin, Active, AnswersAreLast
<1>3. ASSUME NEW r \in Requests, OthersUnchanged(r),
             \/ IsActive(req[r])
             \/ req[r].pc = "idle" /\ Cardinality(Active) < Threads,
             req'[r].answer \in {"none", req[r].answer} \/ req'[r].pc = "done"
      PROVE  RunInv'
  <2>1. AnswersAreLast'
    <3>1. req[r].pc # "done"
      BY <1>3 DEF IsActive
    <3> QED
      BY <1>1, <1>3, <3>1 DEF AnswersAreLast, OthersUnchanged
  <2>2. ActiveWithin'
    <3>1. Active' \subseteq Active \cup {r}
      BY <1>3 DEF Active, OthersUnchanged
    <3>2. /\ IsFiniteSet(Active \cup {r})
          /\ Cardinality(Active \cup {r}) = IF r \in Active THEN Cardinality(Active)
                                            ELSE Cardinality(Active) + 1
          /\ Cardinality(Active) \in Nat /\ Cardinality(Active) <= Threads
      BY <1>1, FS_AddElement, FS_CardinalityType DEF ActiveWithin
    <3>3. r \in Active \/ Cardinality(Active) < Threads
      BY <1>3 DEF Active
    <3>4. Cardinality(Active \cup {r}) <= Threads /\ Cardinality(Active \cup {r}) \in Nat
      BY <3>2, <3>3, SeatThreadsAssumption
    <3>5. /\ IsFiniteSet(Active') /\ Cardinality(Active') <= Cardinality(Active \cup {r})
          /\ Cardinality(Active') \in Nat
      BY <3>1, <3>2, FS_Subset, FS_CardinalityType
    <3> QED
      BY <3>4, <3>5, SeatThreadsAssumption DEF ActiveWithin
  <2> QED
    BY <1>1, <2>1, <2>2 DEF RunInv
<1> QED
  BY <1>1, <1>2, <1>3, OneMoves

\* What is calm after a step was before it.
LEMMA CalmBefore ==
    ASSUME RunInv, [Next]_vars, Calm'
    PROVE  Calm
<1>1. TypeOK /\ AnswersAreLast
  BY DEF RunInv
<1>2. CASE UNCHANGED vars
  BY <1>2 DEF vars, Calm
<1>3. ASSUME NEW r \in Requests, OthersUnchanged(r), req[r].pc # "done", swept \subseteq swept'
      PROVE  Calm
  <2>1. req[r].answer = "none"
    BY <1>1, <1>3 DEF AnswersAreLast
  <2> QED
    BY <1>3, <2>1 DEF Calm, OthersUnchanged
<1> QED
  BY <1>1, <1>2, <1>3, OneMoves DEF IsActive

-----------------------------------------------------------------------------
(* A token needs a DeviceInfo row.                                         *)

RegisteredHaveRows ==
    \A r \in Requests : req[r].pc = "registered" /\ r \notin swept => infos[req[r].device] > 0

TokenInv == TypeOK /\ RegisteredHaveRows

LEMMA TokenStep == TokenInv /\ [Next]_vars => TokenInv'
<1> SUFFICES ASSUME TokenInv, [Next]_vars PROVE TokenInv'
  OBVIOUS
<1>1. TypeOK /\ TypeOK' /\ infos \in [Devices -> Nat]
  BY TypeStep DEF TokenInv, TypeOK
<1>2. SUFFICES ASSUME NEW s \in Requests, req'[s].pc = "registered", s \notin swept'
               PROVE  infos'[req'[s].device] > 0
  BY <1>1 DEF TokenInv, RegisteredHaveRows
<1>3. CASE UNCHANGED vars \/ Served
  BY <1>2, <1>3 DEF TokenInv, RegisteredHaveRows, vars, Served
\* What is registered stays so while rows are only added.
<1>4. ASSUME req'[s] = req[s], swept \subseteq swept', \A d \in Devices : infos'[d] >= infos[d]
      PROVE  infos'[req'[s].device] > 0
  <2>1. req[s].device \in Devices
    BY <1>1, <1>2, <1>4 DEF TypeOK, DevicesAreKnown, ConnectSteps
  <2>2. infos[req[s].device] > 0
    BY <1>2, <1>4 DEF TokenInv, RegisteredHaveRows
  <2>3. infos[req[s].device] \in Nat /\ infos'[req[s].device] \in Nat
    BY <1>1, <2>1 DEF TypeOK
  <2> QED
    BY <1>4, <2>1, <2>2, <2>3
<1>5. ASSUME NEW r \in Requests, ArriveAny(r) PROVE infos'[req'[s].device] > 0
  <2>1. PICK kind \in Kinds, d \in Devices \cup {NoDevice}, n \in Limits \cup {InitLimit} :
            Arrive(r, kind, d, n)
    BY <1>5 DEF ArriveAny
  <2>2. OthersUnchanged(r) /\ req'[r].pc \in {"found", "managing"}
    BY <1>1, <2>1, ArriveType
  <2>3. req'[s] = req[s] /\ infos' = infos /\ swept' = swept
    BY <1>2, <2>1, <2>2 DEF OthersUnchanged, Arrive
  <2> QED
    BY <1>1, <1>4, <2>3
<1>6. ASSUME NEW r \in Requests, Connect(r) \/ Fails(r) PROVE infos'[req'[s].device] > 0
  <2>1. /\ OthersUnchanged(r)
        /\ Keeps(r) \/ Ends(r) \/ PassLimit(r) \/ ListDevice(r) \/ FindInfo(r) \/ InsertInfo(r)
    BY <1>1, <1>6, ConnectMoves
  <2>2. CASE InsertInfo(r)
    <3>1. /\ infos' = [infos EXCEPT ![req[r].device] = @ + 1] /\ swept' = swept
          /\ req[r].device \in Devices /\ req'[r].device = req[r].device
      BY <1>1, <2>2, CommitType DEF InsertInfo, TypeOK, DevicesAreKnown, ConnectSteps, Steps, SameRequest
    <3>2. \A d \in Devices : infos'[d] >= infos[d]
      BY <1>1, <3>1
    <3>3. CASE s = r
      BY <1>1, <3>1, <3>3
    <3>4. CASE s # r
      BY <1>4, <2>1, <3>1, <3>2, <3>4 DEF OthersUnchanged
    <3> QED
      BY <3>3, <3>4
  <2>3. CASE FindInfo(r)
    <3>1. PICK pc \in {"registered", "listed"} :
            Goto(r, pc) /\ (pc = "registered" => infos[req[r].device] > 0)
      BY <2>3 DEF FindInfo
    <3>2. req'[r].pc = pc /\ req'[r].device = req[r].device /\ infos' = infos /\ swept' = swept
      BY <1>1, <2>3, <3>1, GotoType DEF FindInfo, Steps, SameRequest
    <3>3. CASE s = r
      BY <1>2, <3>1, <3>2, <3>3
    <3>4. CASE s # r
      BY <1>1, <1>4, <2>1, <3>2, <3>4 DEF OthersUnchanged
    <3> QED
      BY <3>3, <3>4
  <2>4. CASE Keeps(r) \/ Ends(r) \/ PassLimit(r) \/ ListDevice(r)
    <3>1. req'[r].pc # "registered" /\ infos' = infos /\ swept' = swept
      BY <1>1, <2>4, GotoType, CommitType
      DEF Keeps, Ends, PassLimit, ListDevice, Database, Steps
    <3> QED
      BY <1>1, <1>2, <1>4, <2>1, <3>1 DEF OthersUnchanged
  <2> QED
    BY <2>1, <2>2, <2>3, <2>4
<1>7. ASSUME NEW r \in Requests, Manage(r) PROVE infos'[req'[s].device] > 0
  <2>1. /\ OthersUnchanged(r) /\ req'[r].pc = "done"
        /\ Reset(r) \/ AgentReset(r) \/ SetLimit(r) \/ SetStatus(r)
    BY <1>1, <1>7, ManageMoves
  <2>2. req'[s] = req[s]
    BY <1>2, <2>1 DEF OthersUnchanged
  <2>3. ~Reset(r)
    BY <1>2, <2>2 DEF Reset, IsActive
  <2>4. infos' = infos /\ swept' = swept
    BY <2>1, <2>3 DEF AgentReset, SetLimit, SetStatus
  <2> QED
    BY <1>1, <1>4, <2>2, <2>4
<1> QED
  BY <1>3, <1>5, <1>6, <1>7 DEF Next

\* A token is issued only to a device that has its DeviceInfo row, unless a reset
\* removed it while the request ran: neither a race nor the death of a worker
\* between the two commits of register_device leaves a token without one.
THEOREM TokensNeedRows == Spec => TokenNeedsRow
<1>1. Init => TokenInv
  BY TypeInit DEF TokenInv, RegisteredHaveRows, Init, NoSession
<1>2. TokenInv /\ [Next]_vars => TokenInv'
  BY TokenStep
<1>3. TokenInv =>
        [\A r \in Requests :
            req[r].pc = "registered" /\ req'[r].answer = "ok" /\ r \notin swept
            => infos[req[r].device] > 0]_vars
  BY DEF TokenInv, RegisteredHaveRows
<1> QED
  BY <1>1, <1>2, <1>3, PTL DEF Spec, TokenNeedsRow

-----------------------------------------------------------------------------
(* Races overbook a key by at most one device for each other handler.      *)

\* The values of a function are no more than its arguments.
LEMMA ValuesCount ==
    ASSUME NEW R, IsFiniteSet(R), NEW f
    PROVE  /\ IsFiniteSet({f[x] : x \in R})
           /\ Cardinality({f[x] : x \in R}) <= Cardinality(R)
<1> DEFINE V == {f[x] : x \in R}
           g == [x \in R |-> f[x]]
<1>1. g \in Surjection(R, V)
  BY DEF Surjection
<1> QED
  BY <1>1, FS_Surjection

\* Each device with a DeviceInfo row has a first one.
LEMMA RowsCountDevices ==
    ASSUME infos \in [Devices -> Nat]
    PROVE  /\ WithInfo \in SUBSET Devices /\ IsFiniteSet(WithInfo)
           /\ RowCount \in Nat /\ Cardinality(WithInfo) \in Nat
           /\ Cardinality(WithInfo) <= RowCount
<1> DEFINE first == [d \in WithInfo |-> <<d, 1>>]
<1>1. WithInfo \in SUBSET Devices /\ IsFiniteSet(WithInfo)
  BY DevicesAssumption, FS_Subset DEF WithInfo
<1>2. IsFiniteSet(Units(infos))
  BY DevicesAssumption, UnitsFinite
<1>3. ASSUME NEW d \in WithInfo PROVE <<d, 1>> \in Units(infos)
  <2>1. d \in Devices /\ 1 \in 1 .. infos[d]
    BY <1>3 DEF WithInfo
  <2>2. <<d, 1>> \in {d} \X (1 .. infos[d])
    BY <2>1
  <2> QED
    BY <2>1, <2>2 DEF Units
<1>4. first \in Injection(WithInfo, Units(infos))
  <2>1. first \in [WithInfo -> Units(infos)]
    BY <1>3
  <2>2. \A c, d \in WithInfo : first[c] = first[d] => c = d
    OBVIOUS
  <2> QED
    BY <2>1, <2>2 DEF Injection, IsInjective
<1>5. Cardinality(WithInfo) <= Cardinality(Units(infos))
  <2> HIDE DEF first
  <2> QED
    BY <1>2, <1>4, FS_Injection
<1> QED
  BY <1>1, <1>2, <1>5, FS_CardinalityType DEF RowCount, Total

\* The devices that have a row or are about to get one; and those admitted too.
Taken == {d \in Devices : \/ infos[d] > 0
                          \/ \E r \in Requests : req[r].pc = "listed" /\ req[r].device = d}
Claimed == {d \in Devices : \/ infos[d] > 0
                            \/ \E r \in Requests : /\ req[r].pc \in {"admitted", "listed"}
                                                   /\ req[r].device = d}

\* Without deaths and resets a listed device is or gets counted, and the count
\* of those admitted goes past the limit by the other handlers at most.
ClaimsWithin ==
    Calm => /\ key.devices \subseteq Taken
            /\ \A r \in Requests : IsActive(req[r]) => req[r].image.devices \subseteq Taken
            /\ Cardinality(Claimed) <= maxLimit + Threads - 1

ClaimInv == RunInv /\ ListInvariant /\ ClaimsWithin

\* A device admitted by the count of the rows is one claim among those of the
\* handlers that run, and the rows counted leave it room.
LEMMA CountedClaims ==
    ASSUME TypeOK, NEW n \in Nat, Cardinality(WithInfo) < n,
           TypeOK', ActiveWithin', infos' = infos
    PROVE  Cardinality(Claimed') <= n + Threads - 1
<1> DEFINE R == {s \in Requests : req'[s].pc \in {"admitted", "listed"}}
           f == [s \in Requests |-> req'[s].device]
           V == {f[s] : s \in R}
<1>1. /\ IsFiniteSet(WithInfo) /\ Cardinality(WithInfo) \in Nat
  BY RowsCountDevices DEF TypeOK
<1>2. IsFiniteSet(R) /\ Cardinality(R) <= Threads /\ Cardinality(R) \in Nat
  <2>1. R \subseteq Active'
    BY DEF Active, IsActive
  <2>2. IsFiniteSet(Active') /\ Cardinality(Active') <= Threads
    BY DEF ActiveWithin
  <2>3. IsFiniteSet(R) /\ Cardinality(R) <= Cardinality(Active')
    BY <2>1, <2>2, FS_Subset
  <2>4. Cardinality(R) \in Nat /\ Cardinality(Active') \in Nat
    BY <2>2, <2>3, FS_CardinalityType
  <2> QED
    BY <2>2, <2>3, <2>4, SeatThreadsAssumption
<1>3. IsFiniteSet(V) /\ Cardinality(V) <= Cardinality(R)
  <2> HIDE DEF R, f
  <2> QED
    BY <1>2, ValuesCount
<1>4. Claimed' \subseteq WithInfo \cup V
  BY DEF Claimed, WithInfo
<1>5. /\ IsFiniteSet(WithInfo \cup V)
      /\ Cardinality(WithInfo \cup V)
         = Cardinality(WithInfo) + Cardinality(V) - Cardinality(WithInfo \cap V)
      /\ IsFiniteSet(WithInfo \cap V)
  <2> HIDE DEF V
  <2> QED
    BY <1>1, <1>3, FS_Union, FS_Intersection
<1>6. Cardinality(Claimed') <= Cardinality(WithInfo \cup V) /\ IsFiniteSet(Claimed')
  <2> HIDE DEF V
  <2> QED
    BY <1>4, <1>5, FS_Subset
<1>7. /\ Cardinality(V) \in Nat /\ Cardinality(WithInfo \cap V) \in Nat
      /\ Cardinality(Claimed') \in Nat
  BY <1>3, <1>5, <1>6, FS_CardinalityType
<1> HIDE DEF V, R
<1> QED
  BY <1>1, <1>2, <1>3, <1>5, <1>6, <1>7, SeatThreadsAssumption

LEMMA ClaimedSize ==
    ASSUME NEW A \in SUBSET Devices, NEW B \in SUBSET A, NEW m \in Nat, NEW n \in Nat,
           Cardinality(A) <= m + Threads - 1, m <= n
    PROVE  Cardinality(B) <= n + Threads - 1
<1>1. IsFiniteSet(A) /\ IsFiniteSet(B) /\ Cardinality(B) <= Cardinality(A)
  BY DevicesAssumption, FS_Subset
<1>2. Cardinality(A) \in Nat /\ Cardinality(B) \in Nat
  BY <1>1, FS_CardinalityType
<1> QED
  BY <1>1, <1>2, SeatThreadsAssumption

\* What one handler's step has to show of the key, its own image and the claims.
LEMMA ClaimsKeep ==
    ASSUME TypeOK, ClaimsWithin, Calm, NEW r \in Requests, OthersUnchanged(r),
           Taken \subseteq Taken', key'.devices \subseteq Taken',
           IsActive(req'[r]) => req'[r].image.devices \subseteq Taken',
           Cardinality(Claimed') <= maxLimit' + Threads - 1
    PROVE  ClaimsWithin'
<1>1. ASSUME NEW s \in Requests, IsActive(req'[s])
      PROVE  req'[s].image.devices \subseteq Taken'
  <2>1. CASE s = r
    BY <1>1, <2>1
  <2>2. CASE s # r
    <3>1. req'[s] = req[s] /\ IsActive(req[s])
      BY <1>1, <2>2 DEF OthersUnchanged
    <3> QED
      BY <3>1 DEF ClaimsWithin
  <2> QED
    BY <2>1, <2>2
<1> QED
  BY <1>1 DEF ClaimsWithin

LEMMA ClaimStep == ClaimInv /\ [Next]_vars => ClaimInv'
<1> SUFFICES ASSUME ClaimInv, [Next]_vars PROVE ClaimInv'
  OBVIOUS
<1>1. RunInv /\ RunInv' /\ ListInvariant /\ ListInvariant'
  BY RunStep, ListStep DEF ClaimInv
<1>2. SUFFICES ASSUME Calm' PROVE ClaimsWithin'
  BY <1>1 DEF ClaimInv, ClaimsWithin
<1>3. /\ TypeOK /\ TypeOK' /\ Calm
      /\ key.devices \subseteq Taken
      /\ \A r \in Requests : IsActive(req[r]) => req[r].image.devices \subseteq Taken
      /\ Cardinality(Claimed) <= maxLimit + Threads - 1
  <2>1. Calm
    BY <1>1, <1>2, CalmBefore
  <2> QED
    BY <1>1, <2>1 DEF ClaimInv, ClaimsWithin, RunInv
<1>4. /\ ClaimsWithin /\ maxLimit \in Nat /\ maxLimit' \in Nat
      /\ infos \in [Devices -> Nat] /\ infos' \in [Devices -> Nat]
  BY <1>3 DEF ClaimInv, TypeOK
<1>5. ASSUME Claimed' \subseteq Claimed, maxLimit <= maxLimit'
      PROVE  Cardinality(Claimed') <= maxLimit' + Threads - 1
  <2>1. Claimed \in SUBSET Devices /\ Claimed' \in SUBSET Claimed
    BY <1>5 DEF Claimed
  <2> QED
    BY <1>3, <1>4, <1>5, <2>1, ClaimedSize
<1>6. CASE UNCHANGED vars
  BY <1>2, <1>3, <1>6 DEF vars, ClaimsWithin, Taken, Claimed
<1>7. ASSUME NEW r \in Requests, ArriveAny(r) PROVE ClaimsWithin'
  <2>1. PICK kind \in Kinds, d \in Devices \cup {NoDevice}, n \in Limits \cup {InitLimit} :
            Arrive(r, kind, d, n)
    BY <1>7 DEF ArriveAny
  <2>2. /\ OthersUnchanged(r) /\ req'[r].pc \in {"found", "managing"} /\ req'[r].image = key
        /\ req[r].pc = "idle" /\ UNCHANGED <<key, infos, maxLimit, swept>>
    BY <1>3, <2>1, ArriveType
  <2>3. Taken \subseteq Taken' /\ Claimed' \subseteq Claimed
    BY <2>2 DEF Taken, Claimed, OthersUnchanged
  <2> QED
    BY <1>3, <1>4, <1>5, <2>2, <2>3, ClaimsKeep
<1>8. ASSUME NEW r \in Requests, Connect(r) \/ Fails(r) PROVE ClaimsWithin'
  <2>0. /\ OthersUnchanged(r) /\ IsActive(req[r])
        /\ Keeps(r) \/ Ends(r) \/ PassLimit(r) \/ ListDevice(r) \/ FindInfo(r) \/ InsertInfo(r)
    BY <1>3, <1>8, ConnectMoves
  <2>1. CASE Keeps(r)
    <3>1. Taken \subseteq Taken' /\ Claimed' \subseteq Claimed
      BY <2>0, <2>1 DEF Keeps, Taken, Claimed, OthersUnchanged
    <3>2. /\ key'.devices \subseteq Taken' /\ req'[r].image.devices \subseteq Taken'
          /\ maxLimit' = maxLimit
      BY <1>3, <2>0, <2>1, <3>1 DEF Keeps
    <3> QED
      BY <1>3, <1>4, <1>5, <2>0, <3>1, <3>2, ClaimsKeep
  <2>2. CASE Ends(r)
    <3>1. req[r].pc \in {"found", "bound", "live", "registered"}
      BY <1>2, <2>2 DEF Ends, Calm
    <3>2. Taken \subseteq Taken' /\ Claimed' \subseteq Claimed
      BY <2>0, <2>2, <3>1 DEF Ends, Database, Taken, Claimed, OthersUnchanged
    <3>3. ~IsActive(req'[r]) /\ key'.devices \subseteq Taken' /\ maxLimit' = maxLimit
      BY <1>3, <2>2, <3>2 DEF Ends, Database, IsActive
    <3> QED
      BY <1>3, <1>4, <1>5, <2>0, <3>2, <3>3, ClaimsKeep
  <2>3. CASE PassLimit(r)
    <3>1. /\ req'[r].pc = "admitted" /\ SameRequest(req'[r], req[r])
          /\ req'[r].image = req[r].image /\ req[r].pc = "live"
          /\ UNCHANGED <<key, infos, maxLimit, swept>>
      BY <1>3, <2>3, GotoType DEF PassLimit, Ready, Steps
    <3>2. Taken \subseteq Taken'
      BY <2>0, <3>1 DEF Taken, OthersUnchanged
    <3>3. key'.devices \subseteq Taken' /\ req'[r].image.devices \subseteq Taken'
      BY <1>3, <2>0, <3>1, <3>2
    <3>4. Cardinality(Claimed') <= maxLimit' + Threads - 1
      <4>1. CASE req[r].device \in req[r].image.devices
        <5>1. req[r].device \in Taken
          BY <1>3, <2>0, <4>1
        <5>2. Claimed' \subseteq Claimed
          BY <2>0, <3>1, <5>1 DEF Taken, Claimed, OthersUnchanged, SameRequest
        <5> QED
          BY <1>4, <1>5, <3>1, <5>2
      <4>2. CASE req[r].device \notin req[r].image.devices
        <5>1. RowCount < req[r].image.limit
          BY <2>3, <4>2 DEF PassLimit, HasSeat
        <5>2. req[r].image.limit <= maxLimit /\ req[r].image.limit \in Nat
          BY <1>1, <1>3, <2>0 DEF ListInvariant, ImagesWithinLimit, TypeOK, Handler, KeyRow
        <5>3. Cardinality(WithInfo) < maxLimit
          BY <1>4, <5>1, <5>2, RowsCountDevices
        <5>4. ActiveWithin'
          BY <1>1 DEF RunInv
        <5> QED
          BY <1>3, <1>4, <3>1, <5>3, <5>4, CountedClaims
      <4> QED
        BY <4>1, <4>2
    <3> QED
      BY <1>3, <1>4, <2>0, <3>2, <3>3, <3>4, ClaimsKeep
  <2>4. CASE ListDevice(r)
    <3>1. /\ req'[r].pc = "listed" /\ SameRequest(req'[r], req[r])
          /\ req'[r].image = req[r].image /\ req[r].pc = "admitted"
          /\ UNCHANGED <<infos, maxLimit, swept>>
      BY <1>3, <2>4, CommitType DEF ListDevice, Ready, Steps
    <3>2. /\ key'.devices = req[r].image.devices \cup {req[r].device}
          /\ req[r].device \in Devices
      BY <1>3, <2>4, <3>1, ListDeviceType DEF TypeOK, DevicesAreKnown, ConnectSteps
    <3>3. /\ Taken \subseteq Taken' /\ Claimed' \subseteq Claimed
          /\ req[r].device \in Taken'
      BY <2>0, <3>1, <3>2 DEF Taken, Claimed, OthersUnchanged, SameRequest
    <3>4. key'.devices \subseteq Taken' /\ req'[r].image.devices \subseteq Taken'
      BY <1>3, <2>0, <3>1, <3>2, <3>3
    <3> QED
      BY <1>3, <1>4, <1>5, <2>0, <3>1, <3>3, <3>4, ClaimsKeep
  <2>5. CASE FindInfo(r)
    <3>1. PICK pc \in {"registered", "listed"} :
            Goto(r, pc) /\ (pc = "registered" => infos[req[r].device] > 0)
      BY <2>5 DEF FindInfo
    <3>2. /\ req'[r].pc = pc /\ SameRequest(req'[r], req[r])
          /\ req'[r].image = req[r].image /\ req[r].pc = "admitted"
          /\ UNCHANGED <<key, infos, maxLimit, swept>>
      BY <1>3, <2>5, <3>1, GotoType DEF FindInfo, Ready, Steps
    <3>3. Taken \subseteq Taken' /\ Claimed' \subseteq Claimed
      BY <2>0, <3>2 DEF Taken, Claimed, OthersUnchanged, SameRequest
    <3>4. key'.devices \subseteq Taken' /\ req'[r].image.devices \subseteq Taken'
      BY <1>3, <2>0, <3>2, <3>3
    <3> QED
      BY <1>3, <1>4, <1>5, <2>0, <3>2, <3>3, <3>4, ClaimsKeep
  <2>6. CASE InsertInfo(r)
    <3>1. /\ req'[r].pc = "registered" /\ req'[r].image = req[r].image /\ req[r].pc = "listed"
          /\ infos' = [infos EXCEPT ![req[r].device] = @ + 1]
          /\ UNCHANGED <<key, maxLimit, swept>>
      BY <1>3, <2>6, CommitType DEF InsertInfo, Steps
    <3>2. req[r].device \in Devices
      BY <1>3, <3>1 DEF TypeOK, DevicesAreKnown, ConnectSteps
    <3>3. \A d \in Devices : infos'[d] > 0 <=> infos[d] > 0 \/ d = req[r].device
      BY <1>4, <3>1, <3>2
    <3>4. Taken \subseteq Taken' /\ Claimed' \subseteq Claimed
      BY <2>0, <3>1, <3>3 DEF Taken, Claimed, OthersUnchanged
    <3>5. key'.devices \subseteq Taken' /\ req'[r].image.devices \subseteq Taken'
      BY <1>3, <2>0, <3>1, <3>4
    <3> QED
      BY <1>3, <1>4, <1>5, <2>0, <3>1, <3>4, <3>5, ClaimsKeep
  <2> QED
    BY <2>0, <2>1, <2>2, <2>3, <2>4, <2>5, <2>6
<1>9. ASSUME NEW r \in Requests, Manage(r) PROVE ClaimsWithin'
  <2>1. /\ OthersUnchanged(r) /\ req[r].pc = "managing" /\ req'[r].pc = "done"
        /\ \/ Reset(r)
           \/ AgentReset(r) /\ req'[r].answer = "fault"
           \/ SetLimit(r) /\ key'.devices = key.devices
           \/ SetStatus(r) /\ key'.devices = key.devices /\ key'.limit = key.limit
    BY <1>3, <1>9, ManageMoves
  <2>2. ~Reset(r)
    <3>1. r \notin swept' /\ IsActive(req[r])
      BY <1>2, <2>1 DEF Calm, IsActive
    <3> QED
      BY <3>1 DEF Reset
  <2>3. req'[r].answer # "fault"
    BY <1>2 DEF Calm
  <2>4. key'.devices = key.devices /\ infos' = infos
    BY <2>1, <2>2, <2>3 DEF SetLimit, SetStatus
  <2>5. maxLimit <= maxLimit'
    <3>1. CASE SetStatus(r)
      BY <1>4, <3>1 DEF SetStatus
    <3>2. CASE SetLimit(r)
      <4>1. maxLimit' = IF key'.limit > maxLimit THEN key'.limit ELSE maxLimit
        BY <3>2 DEF SetLimit
      <4>2. key'.limit \in Nat
        BY <1>3 DEF TypeOK, KeyRow
      <4> QED
        BY <1>4, <4>1, <4>2
    <3> QED
      BY <2>1, <2>2, <2>3, <3>1, <3>2
  <2>6. Taken \subseteq Taken' /\ Claimed' \subseteq Claimed
    BY <2>1, <2>4 DEF Taken, Claimed, OthersUnchanged
  <2>7. ~IsActive(req'[r]) /\ key'.devices \subseteq Taken'
    BY <1>3, <2>1, <2>4, <2>6 DEF IsActive
  <2> QED
    BY <1>3, <1>4, <1>5, <2>1, <2>5, <2>6, <2>7, ClaimsKeep
<1> QED
  BY <1>6, <1>7, <1>8, <1>9 DEF Next, Served

\* As long as no handler dies and no devices are reset, the devices of a key are
\* more than its largest limit by at most one for each other handler that runs
\* (validate_device_limit counts before register_device inserts).
THEOREM RacersOverbook == Spec => []OverbookedByRacersOnly
<1>1. Init => ClaimInv
  <2> SUFFICES ASSUME Init PROVE ClaimInv
    OBVIOUS
  <2>1. RunInv /\ ListInvariant
    BY RunInit, ListInit
  <2>2. /\ \A d \in Devices : infos[d] = 0
        /\ \A r \in Requests : req[r].pc = "idle"
        /\ key.devices = {} /\ maxLimit = InitLimit
    BY DEF Init, NoSession, NewKey
  <2>3. Claimed = {}
    BY <2>2 DEF Claimed
  <2>4. Cardinality(Claimed) <= maxLimit + Threads - 1
    BY <2>2, <2>3, EmptyListSize, LimitsAssumption, SeatThreadsAssumption
  <2> QED
    BY <2>1, <2>2, <2>4 DEF ClaimInv, ClaimsWithin, IsActive
<1>2. ClaimInv /\ [Next]_vars => ClaimInv'
  BY ClaimStep
<1>3. ClaimInv => OverbookedByRacersOnly
  <2> SUFFICES ASSUME ClaimInv, Calm
               PROVE  Cardinality(WithInfo) <= maxLimit + Threads - 1
    BY DEF OverbookedByRacersOnly, Calm
  <2>1. WithInfo \in SUBSET Claimed /\ Claimed \in SUBSET Devices
    BY DEF WithInfo, Claimed
  <2>2. maxLimit \in Nat /\ Cardinality(Claimed) <= maxLimit + Threads - 1
    BY DEF ClaimInv, ClaimsWithin, RunInv, TypeOK
  <2> QED
    BY <2>1, <2>2, ClaimedSize
<1> QED
  BY <1>1, <1>2, <1>3, PTL DEF Spec

-----------------------------------------------------------------------------
(* Served one after the other.                                             *)

\* What a handler that runs alone knows: a loaded image is the row, a new limit
\* is one a manager may set, and an admitted device has a seat.
AloneInOrder ==
    \A r \in Requests :
        LET q == req[r] IN
        IsActive(q) =>
            /\ q.loaded => q.image = key
            /\ q.kind \in Kinds
            /\ q.kind = "setLimit" => q.limit \in Limits
            /\ q.pc = "admitted" /\ q.device \notin q.image.devices
               => Cardinality(q.image.devices) < q.image.limit

SerialInv == RunInv /\ AloneInOrder

\* With a single handler at a time, only the one that moves runs afterwards.
LEMMA MovesAlone ==
    ASSUME Threads = 1, RunInv, RunInv', NEW r \in Requests, NEW s \in Requests,
           IsActive(req'[s]), OthersUnchanged(r), IsActive(req[r]) \/ IsActive(req'[r])
    PROVE  s = r
<1> SUFFICES ASSUME s # r PROVE FALSE
  OBVIOUS
\* Two of a set of at most one member.
<1>1. ASSUME NEW A, IsFiniteSet(A), Cardinality(A) <= 1, r \in A, s \in A
      PROVE  FALSE
  <2>1. IsFiniteSet({r}) /\ Cardinality({r}) = 1
    BY FS_Singleton
  <2>2. IsFiniteSet({r} \cup {s}) /\ Cardinality({r} \cup {s}) = 2
    <3>1. s \notin {r}
      OBVIOUS
    <3>2. Cardinality({r} \cup {s}) = Cardinality({r}) + 1 /\ IsFiniteSet({r} \cup {s})
      BY <2>1, <3>1, FS_AddElement
    <3> QED
      BY <2>1, <3>2
  <2>3. {r} \cup {s} \in SUBSET A
    BY <1>1
  <2>4. Cardinality({r} \cup {s}) <= Cardinality(A)
    BY <1>1, <2>3, FS_Subset
  <2>5. Cardinality(A) \in Nat
    BY <1>1, FS_CardinalityType
  <2> QED
    BY <1>1, <2>2, <2>4, <2>5
<1>2. CASE IsActive(req[r])
  <2>1. IsFiniteSet(Active) /\ Cardinality(Active) <= 1
    BY DEF RunInv, ActiveWithin
  <2>2. r \in Active /\ s \in Active
    BY <1>2 DEF Active, OthersUnchanged
  <2> QED
    BY <1>1, <2>1, <2>2
<1>3. CASE IsActive(req'[r])
  <2>1. IsFiniteSet(Active') /\ Cardinality(Active') <= 1
    BY DEF RunInv, ActiveWithin
  <2>2. r \in Active' /\ s \in Active'
    BY <1>3 DEF Active
  <2> QED
    BY <1>1, <2>1, <2>2
<1> QED
  BY <1>2, <1>3

LEMMA SerialInit == Init => SerialInv
<1> SUFFICES ASSUME Init PROVE SerialInv
  OBVIOUS
<1>1. \A r \in Requests : ~IsActive(req[r])
  BY DEF Init, NoSession, IsActive
<1> QED
  BY <1>1, RunInit DEF SerialInv, AloneInOrder

LEMMA SerialStep ==
    ASSUME Threads = 1, SerialInv, [Next]_vars
    PROVE  SerialInv'
<1>1. RunInv /\ RunInv' /\ TypeOK /\ AloneInOrder
  BY RunStep DEF SerialInv, RunInv
<1>2. SUFFICES AloneInOrder'
  BY <1>1 DEF SerialInv
<1>3. CASE UNCHANGED vars
  BY <1>1, <1>3 DEF vars, AloneInOrder
\* It is enough to look at the handler that moved.
<1>4. ASSUME NEW r \in Requests, OthersUnchanged(r), IsActive(req[r]) \/ IsActive(req'[r]),
             IsActive(req'[r]) =>
               /\ req'[r].loaded => req'[r].image = key'
               /\ req'[r].kind \in Kinds
               /\ req'[r].kind = "setLimit" => req'[r].limit \in Limits
               /\ req'[r].pc = "admitted" /\ req'[r].device \notin req'[r].image.devices
                  => Cardinality(req'[r].image.devices) < req'[r].image.limit
      PROVE  AloneInOrder'
  <2>1. \A s \in Requests : IsActive(req'[s]) => s = r
    BY <1>1, <1>4, MovesAlone
  <2> QED
    BY <1>4, <2>1 DEF AloneInOrder
<1>5. ASSUME NEW r \in Requests, ArriveAny(r) PROVE AloneInOrder'
  <2>1. PICK kind \in Kinds, d \in Devices \cup {NoDevice}, n \in Limits \cup {InitLimit} :
            Arrive(r, kind, d, n)
    BY <1>5 DEF ArriveAny
  <2>2. /\ OthersUnchanged(r) /\ req'[r].pc \in {"found", "managing"} /\ req'[r].image = key
        /\ req'[r].kind \in Kinds /\ (req'[r].kind = "setLimit" => req'[r].limit \in Limits)
        /\ key' = key
    BY <1>1, <2>1, ArriveType
  <2> QED
    BY <1>4, <2>2 DEF IsActive
<1>6. ASSUME NEW r \in Requests, Connect(r) \/ Fails(r) PROVE AloneInOrder'
  <2>0. /\ OthersUnchanged(r) /\ IsActive(req[r])
        /\ Keeps(r) \/ Ends(r) \/ PassLimit(r) \/ ListDevice(r) \/ FindInfo(r) \/ InsertInfo(r)
    BY <1>1, <1>6, ConnectMoves
  <2>1. /\ req[r].loaded => req[r].image = key
        /\ req[r].kind \in Kinds
        /\ req[r].kind = "setLimit" => req[r].limit \in Limits
    BY <1>1, <2>0 DEF AloneInOrder
  <2>2. CASE Keeps(r)
    BY <1>4, <2>0, <2>1, <2>2 DEF Keeps, SameRequest
  <2>3. CASE Ends(r)
    BY <1>4, <2>0, <2>3 DEF Ends, IsActive
  <2>4. CASE PassLimit(r)
    <3>1. /\ req'[r].image = req[r].image /\ req'[r].loaded = req[r].loaded
          /\ SameRequest(req'[r], req[r]) /\ key' = key /\ HasSeat(req[r])
      BY <1>1, <2>4, GotoType DEF PassLimit, Steps
    <3> QED
      BY <1>4, <2>0, <2>1, <3>1 DEF HasSeat, SameRequest
  <2>5. CASE FindInfo(r)
    <3>1. PICK pc \in {"registered", "listed"} : Goto(r, pc)
      BY <2>5 DEF FindInfo
    <3>2. /\ req'[r].image = req[r].image /\ req'[r].loaded = req[r].loaded
          /\ SameRequest(req'[r], req[r]) /\ key' = key /\ req'[r].pc = pc
      BY <1>1, <2>5, <3>1, GotoType DEF FindInfo, Steps
    <3> QED
      BY <1>4, <2>0, <2>1, <3>2 DEF SameRequest
  <2>6. CASE ListDevice(r) \/ InsertInfo(r)
    <3>1. PICK pc \in {"registered", "listed"} : CommitAndGoto(r, pc)
      BY <2>6 DEF ListDevice, InsertInfo
    <3>2. ~req'[r].loaded /\ SameRequest(req'[r], req[r]) /\ req'[r].pc = pc
      BY <1>1, <3>1, CommitType DEF Steps
    <3> QED
      BY <1>4, <2>0, <2>1, <3>2 DEF SameRequest
  <2> QED
    BY <2>0, <2>2, <2>3, <2>4, <2>5, <2>6
<1>7. ASSUME NEW r \in Requests, Manage(r) PROVE AloneInOrder'
  BY <1>1, <1>4, <1>7, ManageMoves DEF IsActive
<1> QED
  BY <1>3, <1>5, <1>6, <1>7 DEF Next, Served

\* A device about to get its row is on the list and has none.
ListedFirst ==
    \A r \in Requests :
        req[r].pc = "listed" => req[r].device \in key.devices /\ infos[req[r].device] = 0

RowInv == SerialInv /\ InfoFollowsList /\ ListedFirst

LEMMA RowStep ==
    ASSUME Threads = 1, "agentReset" \notin Kinds, RowInv, [Next]_vars
    PROVE  RowInv'
<1>1. /\ SerialInv /\ SerialInv' /\ RunInv /\ RunInv' /\ TypeOK /\ TypeOK'
      /\ InfoFollowsList /\ ListedFirst
  BY SerialStep DEF RowInv, SerialInv, RunInv
<1>2. SUFFICES InfoFollowsList' /\ ListedFirst'
  BY <1>1 DEF RowInv
<1>3. infos \in [Devices -> Nat] /\ key \in KeyRow
  BY <1>1 DEF TypeOK
<1>4. CASE UNCHANGED vars
  BY <1>1, <1>4 DEF vars, InfoFollowsList, ListedFirst
<1>5. ASSUME NEW r \in Requests, OthersUnchanged(r), IsActive(req[r]) \/ IsActive(req'[r]),
             req'[r].pc = "listed" =>
                 req'[r].device \in key'.devices /\ infos'[req'[r].device] = 0
      PROVE  ListedFirst'
  <2>1. \A s \in Requests : IsActive(req'[s]) => s = r
    BY <1>1, <1>5, MovesAlone
  <2> QED
    BY <1>5, <2>1 DEF ListedFirst, IsActive
<1>6. ASSUME infos' = infos, key.devices \subseteq key'.devices
      PROVE  InfoFollowsList'
  BY <1>1, <1>3, <1>6 DEF InfoFollowsList
<1>7. ASSUME NEW r \in Requests, ArriveAny(r) PROVE InfoFollowsList' /\ ListedFirst'
  <2>1. PICK kind \in Kinds, d \in Devices \cup {NoDevice}, n \in Limits \cup {InitLimit} :
            Arrive(r, kind, d, n)
    BY <1>7 DEF ArriveAny
  <2>2. OthersUnchanged(r) /\ req'[r].pc \in {"found", "managing"} /\ key' = key /\ infos' = infos
    BY <1>1, <2>1, ArriveType
  <2> QED
    BY <1>5, <1>6, <2>2 DEF IsActive
<1>8. ASSUME NEW r \in Requests, Connect(r) \/ Fails(r) PROVE InfoFollowsList' /\ ListedFirst'
  <2>0. /\ OthersUnchanged(r) /\ IsActive(req[r])
        /\ Keeps(r) \/ Ends(r) \/ PassLimit(r) \/ ListDevice(r) \/ FindInfo(r) \/ InsertInfo(r)
    BY <1>1, <1>8, ConnectMoves
  <2>1. /\ req[r].loaded => req[r].image = key
        /\ req[r].pc \in ConnectSteps => req[r].device \in Devices
    BY <1>1, <2>0 DEF SerialInv, AloneInOrder, TypeOK, DevicesAreKnown
  <2>2. CASE Keeps(r) \/ Ends(r)
    BY <1>5, <1>6, <2>0, <2>2 DEF Keeps, Ends, Database
  <2>3. CASE PassLimit(r)
    <3>1. req'[r].pc = "admitted" /\ key' = key /\ infos' = infos
      BY <1>1, <2>3, GotoType DEF PassLimit, Steps
    <3> QED
      BY <1>5, <1>6, <2>0, <3>1
  <2>4. CASE ListDevice(r)
    <3>1. /\ req'[r].pc = "listed" /\ SameRequest(req'[r], req[r]) /\ infos' = infos
          /\ req[r].image = key /\ req[r].device \in Devices /\ req[r].device \notin key.devices
      BY <1>1, <2>1, <2>4, CommitType DEF ListDevice, Ready, Steps, ConnectSteps
    <3>2. key'.devices = key.devices \cup {req[r].device}
      BY <1>1, <2>4, <3>1, ListDeviceType
    <3>3. infos[req[r].device] = 0
      BY <1>1, <1>3, <3>1 DEF InfoFollowsList
    <3> QED
      BY <1>5, <1>6, <2>0, <3>1, <3>2, <3>3 DEF SameRequest
  <2>5. CASE FindInfo(r)
    <3>1. PICK pc \in {"registered", "listed"} :
            Goto(r, pc) /\ (pc = "listed" => ~(infos[req[r].device] > 0))
      BY <2>5 DEF FindInfo
    <3>2. /\ req'[r].pc = pc /\ SameRequest(req'[r], req[r]) /\ infos' = infos /\ key' = key
          /\ req[r].image = key /\ req[r].device \in Devices /\ req[r].device \in key.devices
      BY <1>1, <2>1, <2>5, <3>1, GotoType DEF FindInfo, Ready, Steps, ConnectSteps
    <3>3. pc = "listed" => infos[req[r].device] = 0
      BY <1>3, <3>1, <3>2
    <3> QED
      BY <1>5, <1>6, <2>0, <3>2, <3>3 DEF SameRequest
  <2>6. CASE InsertInfo(r)
    <3>1. /\ req'[r].pc = "registered" /\ req[r].pc = "listed" /\ req[r].device \in Devices
          /\ infos' = [infos EXCEPT ![req[r].device] = @ + 1] /\ key' = key
      BY <1>1, <2>1, <2>6, CommitType DEF InsertInfo, Steps, ConnectSteps
    <3>2. req[r].device \in key.devices /\ infos[req[r].device] = 0
      BY <1>1, <3>1 DEF ListedFirst
    <3>3. InfoFollowsList'
      BY <1>1, <1>3, <3>1, <3>2 DEF InfoFollowsList
    <3> QED
      BY <1>5, <2>0, <3>1, <3>3
  <2> QED
    BY <2>0, <2>2, <2>3, <2>4, <2>5, <2>6
<1>9. ASSUME NEW r \in Requests, Manage(r) PROVE InfoFollowsList' /\ ListedFirst'
  <2>1. /\ OthersUnchanged(r) /\ req[r].pc = "managing" /\ req'[r].pc = "done"
        /\ \/ Reset(r)
           \/ AgentReset(r) /\ req'[r].answer = "fault"
           \/ SetLimit(r) /\ key'.devices = key.devices
           \/ SetStatus(r) /\ key'.devices = key.devices /\ key'.limit = key.limit
    BY <1>1, <1>9, ManageMoves
  <2>2. ListedFirst'
    BY <1>5, <2>1 DEF IsActive
  <2>3. ~AgentReset(r)
    <3>1. req[r].kind \in Kinds
      BY <1>1, <2>1 DEF SerialInv, AloneInOrder, IsActive
    <3> QED
      BY <3>1 DEF AgentReset
  <2>4. CASE Reset(r)
    <3>1. infos' = [d \in Devices |-> 0]
      BY <2>4 DEF Reset
    <3> QED
      BY <2>2, <3>1 DEF InfoFollowsList
  <2>5. CASE SetLimit(r) /\ key'.devices = key.devices
    BY <1>6, <2>2, <2>5 DEF SetLimit
  <2>6. CASE SetStatus(r) /\ key'.devices = key.devices
    BY <1>6, <2>2, <2>6 DEF SetStatus
  <2> QED
    BY <2>1, <2>3, <2>4, <2>5, <2>6
<1> QED
  BY <1>4, <1>7, <1>8, <1>9 DEF Next, Served

\* Requests served one by one, none of them the agents' reset, keep one DeviceInfo
\* row at most for a device, and none for a device that is not on the list, however
\* many handlers die between the two commits of register_device.
THEOREM RowsFollowList ==
    ASSUME Threads = 1, "agentReset" \notin Kinds
    PROVE  Spec => []InfoFollowsList
<1>1. Init => RowInv
  BY SerialInit DEF RowInv, InfoFollowsList, ListedFirst, Init, NoSession
<1>2. RowInv /\ [Next]_vars => RowInv'
  BY RowStep
<1>3. RowInv => InfoFollowsList
  BY DEF RowInv
<1> QED
  BY <1>1, <1>2, <1>3, PTL DEF Spec

-----------------------------------------------------------------------------
(* The pool of seats.                                                      *)

LEMMA PoolStep ==
    ASSUME Threads = 1, SerialInv, [Next]_vars
    PROVE  [Pool!Next]_(Pool!poolVars)
<1>1. TypeOK /\ AloneInOrder /\ key \in KeyRow
  BY DEF SerialInv, RunInv, TypeOK
<1>2. ASSUME key'.devices = key.devices, key'.limit = key.limit
      PROVE  [Pool!Next]_(Pool!poolVars)
  BY <1>2 DEF Pool!poolVars
<1>3. CASE UNCHANGED vars \/ \E r \in Requests : ArriveAny(r)
  BY <1>2, <1>3 DEF vars, ArriveAny, Arrive
<1>4. ASSUME NEW r \in Requests, Connect(r) \/ Fails(r) PROVE [Pool!Next]_(Pool!poolVars)
  <2>1. /\ IsActive(req[r])
        /\ Keeps(r) \/ Ends(r) \/ PassLimit(r) \/ ListDevice(r) \/ FindInfo(r) \/ InsertInfo(r)
    BY <1>1, <1>4, ConnectMoves
  <2>2. CASE Keeps(r) \/ Ends(r) \/ PassLimit(r) \/ FindInfo(r) \/ InsertInfo(r)
    BY <1>2, <2>2 DEF Keeps, Ends, Database, PassLimit, FindInfo, InsertInfo
  <2>3. CASE ListDevice(r)
    <3>1. /\ req[r].image = key /\ req[r].pc = "admitted"
          /\ req[r].device \notin key.devices /\ req[r].device \in Devices
      BY <1>1, <2>1, <2>3 DEF ListDevice, Ready, AloneInOrder, TypeOK, DevicesAreKnown, ConnectSteps
    <3>2. Cardinality(key.devices) < key.limit
      BY <1>1, <2>1, <3>1 DEF AloneInOrder
    <3>3. key'.devices = key.devices \cup {req[r].device} /\ key'.limit = key.limit
      BY <1>1, <2>3, <3>1, ListDeviceType
    <3>4. PICK d \in Devices : d = req[r].device
      BY <3>1
    <3>5. /\ d \notin key.devices /\ Cardinality(key.devices) < key.limit
          /\ key'.devices = key.devices \cup {d} /\ key'.limit = key.limit
      BY <3>1, <3>2, <3>3, <3>4
    <3>6. Pool!Cardinality(key.devices) = Cardinality(key.devices)
      BY DEF Pool!Cardinality, Cardinality
    <3>7. Pool!Take(d)
      BY <3>5, <3>6 DEF Pool!Take
    <3> QED
      BY <3>7 DEF Pool!Next
  <2> QED
    BY <2>1, <2>2, <2>3
<1>5. ASSUME NEW r \in Requests, Manage(r) PROVE [Pool!Next]_(Pool!poolVars)
  <2>1. /\ req[r].pc = "managing" /\ req[r].loaded
        /\ \/ Reset(r)
           \/ AgentReset(r)
           \/ SetLimit(r) /\ key'.devices = key.devices
           \/ SetStatus(r) /\ key'.devices = key.devices /\ key'.limit = key.limit
    BY <1>1, <1>5, ManageMoves
  <2>2. req[r].image = key /\ (req[r].kind = "setLimit" => req[r].limit \in Limits)
    BY <1>1, <2>1 DEF AloneInOrder, IsActive
  <2>3. CASE Reset(r) \/ AgentReset(r)
    <3>1. Written(req[r], "devices", {}) = {}
      BY <2>2 DEF Written
    <3>2. key'.devices = {} /\ key'.limit = key.limit
      BY <1>1, <2>3, <3>1 DEF Reset, AgentReset, KeyRow
    <3> QED
      BY <3>2 DEF Pool!Next, Pool!Clear
  <2>4. CASE SetLimit(r) /\ key'.devices = key.devices
    <3>1. Written(req[r], "limit", req[r].limit) = req[r].limit
      BY <2>2 DEF Written
    <3>2. key'.limit = req[r].limit /\ req[r].limit \in Limits
      BY <1>1, <2>2, <2>4, <3>1 DEF SetLimit, KeyRow
    <3> QED
      BY <2>4, <3>2 DEF Pool!Next, Pool!Resize
  <2>5. CASE SetStatus(r) /\ key'.devices = key.devices /\ key'.limit = key.limit
    BY <1>2, <2>5
  <2> QED
    BY <2>1, <2>3, <2>4, <2>5
<1> QED
  BY <1>3, <1>4, <1>5 DEF Next, Served

\* Served one by one, connects, resets and new limits implement SeatPool, whatever
\* commits fail on the way: a device takes a seat only while one is free, and
\* keeps it until a reset clears them all.
THEOREM SeatsImplementPool ==
    ASSUME Threads = 1
    PROVE  Spec => PoolSpec
<1>1. Init => Pool!Init
  BY DEF Init, NewKey, Pool!Init
<1>2. SerialInv /\ [Next]_vars => SerialInv'
  BY SerialStep
<1>3. SerialInv /\ [Next]_vars => [Pool!Next]_(Pool!poolVars)
  BY PoolStep
<1> QED
  BY <1>1, <1>2, <1>3, SerialInit, PTL DEF Spec, PoolSpec, Pool!Spec
=============================================================================
