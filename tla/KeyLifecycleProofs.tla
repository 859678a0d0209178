-------------------------- MODULE KeyLifecycleProofs --------------------------
(***************************************************************************)
(* Proofs about KeyLifecycle, for any number of keys, users, requests and  *)
(* threads, any durations and any last hour.                               *)
(***************************************************************************)
EXTENDS KeyLifecycle, FiniteSetTheorems, TLAPS

-----------------------------------------------------------------------------
(* The inductive invariant.                                                *)

BulkKinds == {"agentPause", "agentResume", "extend"}

\* What a session holds at each point of its handler.
InOrder(r) ==
    LET q == req[r] IN
    /\ q.pc # "done" => q.answer = "none"
    /\ q.pc \in {"found", "live", "admitted", "counted"} /\ q.kind \notin BulkKinds => \E k \in Keys : q.keys = {k}
    /\ q.pc = "counted" => q.kind \in StatusKinds
    /\ q.pc \in {"recount", "recounted"} => q.kind \in {"agentPause", "agentResume"}
    /\ q.pc \in {"live", "admitted"} => q.kind = "connect"
    /\ q.pc = "found" /\ q.kind \in {"extend", "update"} => q.number > 0
    /\ q.pc = "recounted" => /\ q.keys = Keys
                            /\ \A c \in Counters : q.counts[c] = Cardinality(ActiveOf(q.image, c))

SessionsInOrder == \A r \in Requests : InOrder(r)

\* A row, or an image of it, holds no hours that nobody gave, none before the key is
\* there, and some once it is activated.
Bounded(key, k) ==
    /\ key.created <= now
    /\ key.status = "new" => key.expires = NoTime
    /\ ~key.armed => key.expires # NoTime
    /\ key.expires # NoTime => key.expires <= now + Duration + granted[k]

RowsBounded == \A k \in Keys : Bounded(row[k], k)
ImagesBounded == \A r \in Requests, k \in Keys : Image(r)[k] # NoRow => Bounded(Image(r)[k], k)

IInv ==
    /\ Typed
    /\ SessionsInOrder
    /\ RowsBounded
    /\ ImagesBounded
    /\ CountersExact

USE DEF Steps, AllKinds, StatusKinds, BulkKinds, Answers

-----------------------------------------------------------------------------
(* What a step does to the session it is a step of.                        *)

Others(r) ==
    /\ req' \in [Requests -> Session]
    /\ \A s \in Requests \ {r} : req'[s] = req[s]

LEMMA IdleType == Idle \in Session
BY DEF Idle, Session

\* A session that is over holds nothing.
LEMMA FinishedStep ==
    ASSUME Typed, NEW r \in Requests, NEW answer \in Answers, req' = Finished(r, answer)
    PROVE  /\ Others(r) /\ req'[r].pc = "done" /\ req'[r].answer = answer
           /\ InOrder(r)' /\ r \notin InFlight'
           /\ \A k \in Keys : req'[r].image[k] = NoRow
<1> DEFINE done == [Idle EXCEPT !.pc = "done", !.answer = answer]
<1>1. req \in [Requests -> Session]
  BY DEF Typed
<1>2. /\ done \in Session /\ done.pc = "done" /\ done.answer = answer
      /\ \A k \in Keys : done.image[k] = NoRow
  BY IdleType DEF Idle, Session
<1>3. req' = [req EXCEPT ![r] = done]
  BY DEF Finished
<1> HIDE DEF done
<1>4. req'[r] = done /\ Others(r)
  BY <1>1, <1>2, <1>3 DEF Others
<1> QED
  BY <1>2, <1>4 DEF InOrder, InFlight

\* A request for one key is about that key.
LEMMA OneKey ==
    ASSUME IInv, NEW r \in Requests, req[r].pc \in {"found", "live", "counted"},
           req[r].kind \notin BulkKinds
    PROVE  /\ r \in InFlight /\ TheKey(r) \in Keys /\ req[r].keys = {TheKey(r)}
           /\ Image(r)[TheKey(r)] \in Row /\ Bounded(Image(r)[TheKey(r)], TheKey(r))
<1>1. r \in InFlight
  BY DEF InFlight
<1>2. PICK k \in Keys : req[r].keys = {k}
  BY DEF IInv, SessionsInOrder, InOrder
<1>3. TheKey(r) = k
  BY <1>2 DEF TheKey
<1>4. Image(r)[k] # NoRow /\ req[r] \in Session
  BY <1>1, <1>2 DEF IInv, Typed
<1>5. Image(r)[k] \in Row
  BY <1>4 DEF Session, Image
<1>6. Bounded(Image(r)[k], k)
  BY <1>4 DEF IInv, ImagesBounded
<1> QED
  BY <1>1, <1>2, <1>3, <1>5, <1>6

\* The images of the keys a request is about are there, and bounded.
LEMMA Images ==
    ASSUME IInv, NEW r \in InFlight, req[r].pc # "admitted", NEW k \in req[r].keys
    PROVE  r \in Requests /\ k \in Keys /\ Image(r)[k] \in Row /\ Bounded(Image(r)[k], k)
<1>1. r \in Requests /\ req[r] \in Session
  BY DEF InFlight, IInv, Typed
<1>2. k \in Keys /\ Image(r)[k] # NoRow
  BY <1>1 DEF Session, IInv, Typed
<1> QED
  BY <1>1, <1>2 DEF Session, Image, IInv, ImagesBounded

\* Hours that are granted and uses that are noted leave what is bounded so.
LEMMA BoundedKept ==
    ASSUME Typed, now' \in Nat, now <= now',
           granted' \in [Keys -> Nat], \A k \in Keys : granted[k] <= granted'[k],
           NEW k \in Keys, NEW key \in Row, Bounded(key, k)
    PROVE  Bounded(key, k)'
<1>1. now \in Nat /\ granted[k] \in Nat /\ granted'[k] \in Nat /\ Duration \in Nat
  BY NumbersAssumption DEF Typed
<1>2. key.created \in Nat /\ (key.expires # NoTime => key.expires \in Nat)
  BY DEF Row, Times
<1> QED
  BY <1>1, <1>2 DEF Bounded

LEMMA StepHolds ==
    ASSUME IInv, NEW r \in Requests, Others(r), scene' = scene, now' = now,
           row' \in [Keys -> Row], active' \in [Counters -> Nat], drifted' \in SUBSET Counters,
           granted' \in [Keys -> Nat], \A k \in Keys : granted[k] <= granted'[k],
           RowsBounded', CountersExact', InOrder(r)',
           r \in InFlight' => \A k \in Keys :
              /\ req'[r].image[k] # NoRow => k \in req'[r].keys
              /\ k \in req'[r].keys => req'[r].image[k] # NoRow \/ req'[r].pc = "admitted",
           \A k \in Keys : req'[r].image[k] # NoRow => req'[r].image[k] \in {Image(r)[k], row[k]}
    PROVE  IInv'
<1>1. Typed
  BY DEF IInv
<1>2. Typed'
  <2>1. \A s \in InFlight', k \in Keys :
            /\ req'[s].image[k] # NoRow => k \in req'[s].keys
            /\ k \in req'[s].keys => req'[s].image[k] # NoRow \/ req'[s].pc = "admitted"
    BY <1>1 DEF Typed, Others, InFlight, Image
  <2> QED
    BY <1>1, <2>1 DEF Typed, Others, Image
<1>3. SessionsInOrder'
  BY DEF IInv, SessionsInOrder, Others, InOrder
<1>4. ImagesBounded'
  <2> SUFFICES ASSUME NEW s \in Requests, NEW k \in Keys, req'[s].image[k] # NoRow
               PROVE  Bounded(Image(s)[k], k)'
    BY DEF ImagesBounded, Image
  <2>1. now' \in Nat /\ now <= now'
    BY <1>1, NumbersAssumption DEF Typed
  <2>2. ASSUME NEW key \in Row, key = req'[s].image[k], Bounded(key, k)
        PROVE  Bounded(Image(s)[k], k)'
    BY <1>1, <2>1, <2>2, BoundedKept DEF Image, Bounded
  <2>3. req'[s].image[k] \in Row
    BY DEF Others, Session
  <2>4. Bounded(req'[s].image[k], k)
    <3>1. CASE s # r
      BY <3>1 DEF Others, IInv, ImagesBounded, Image
    <3>2. CASE s = r /\ req'[r].image[k] = row[k]
      BY <3>2 DEF IInv, RowsBounded
    <3>3. CASE s = r /\ req'[r].image[k] = Image(r)[k]
      BY <3>3 DEF IInv, ImagesBounded
    <3> QED
      BY <3>1, <3>2, <3>3
  <2> QED
    BY <2>2, <2>3, <2>4
<1> QED
  BY <1>2, <1>3, <1>4 DEF IInv

\* A step that writes no row and no counter.
LEMMA QuietStep ==
    ASSUME IInv, NEW r \in Requests, Others(r), UNCHANGED <<scene, now, row, active, history>>,
           InOrder(r)',
           r \in InFlight' => \A k \in Keys :
              /\ req'[r].image[k] # NoRow => k \in req'[r].keys
              /\ k \in req'[r].keys => req'[r].image[k] # NoRow \/ req'[r].pc = "admitted",
           \A k \in Keys : req'[r].image[k] # NoRow => req'[r].image[k] \in {Image(r)[k], row[k]}
    PROVE  IInv'
<1>1. /\ scene' = scene /\ now' = now /\ row' = row /\ active' = active
      /\ drifted' = drifted /\ granted' = granted
  BY DEF history
<1>2. RowsBounded' /\ CountersExact'
  BY <1>1 DEF IInv, RowsBounded, Bounded, CountersExact, ActiveOf
<1>3. \A k \in Keys : granted[k] <= granted'[k]
  BY <1>1 DEF IInv, Typed
<1> QED
  BY <1>1, <1>2, <1>3, StepHolds DEF IInv, Typed

-----------------------------------------------------------------------------
(* Steps that write no row.                                                *)

LEMMA QuietEnd ==
    ASSUME IInv, NEW r \in Requests, NEW answer \in Answers, req' = Finished(r, answer),
           UNCHANGED <<scene, now, row, active, history>>
    PROVE  IInv'
BY FinishedStep, QuietStep DEF IInv

\* Arrive, of a kind of the scene.
LEMMA ArriveKeeps ==
    ASSUME IInv, NEW r \in Requests, NEW kind \in AllKinds, NEW ks \in TargetsOf(kind),
           NEW n \in NumbersOf(kind), NEW us \in UsersOf(kind), Arrive(r, kind, ks, n, us)
    PROVE  IInv'
<1>1. Typed /\ req[r] \in Session /\ req[r].pc = "idle"
  BY DEF IInv, Typed, Arrive
<1>2. ks \in SUBSET Keys /\ (kind \notin BulkKinds => \E k \in Keys : ks = {k})
  BY DEF TargetsOf
<1>3. n \in Nat /\ (kind \in {"extend", "update"} => n > 0)
  BY NumbersAssumption DEF NumbersOf
<1>4. us \in SUBSET Users
  BY DEF UsersOf
<1>5. Loaded(ks) \in [Keys -> Row \cup {NoRow}] /\ \A k \in Keys : k \in ks <=> Loaded(ks)[k] # NoRow
  BY <1>1, NoRowAssumption DEF Typed, Loaded
<1> DEFINE counts == IF kind \in StatusKinds THEN active ELSE req[r].counts
           found == [req[r] EXCEPT !.pc = "found", !.kind = kind, !.keys = ks, !.number = n,
                                   !.users = us, !.image = Loaded(ks), !.counts = counts]
<1>6. counts \in [Counters -> Nat]
  BY <1>1 DEF Typed, Session
<1>7. /\ found \in Session /\ found.pc = "found" /\ found.kind = kind /\ found.keys = ks
      /\ found.number = n /\ found.image = Loaded(ks) /\ found.answer = req[r].answer
  BY <1>1, <1>2, <1>3, <1>4, <1>5, <1>6 DEF Session
<1>8. req' = [req EXCEPT ![r] = found]
  BY <1>1, ZenonT(40) DEF Arrive, Typed
<1> HIDE DEF found, counts
<1>9. req'[r] = found /\ Others(r)
  BY <1>1, <1>7, <1>8 DEF Typed, Others
<1>10. InOrder(r)'
  BY <1>1, <1>2, <1>3, <1>7, <1>9 DEF InOrder, IInv, SessionsInOrder
<1>11. \A k \in Keys : req'[r].image[k] # NoRow => req'[r].image[k] = row[k]
  BY <1>7, <1>9 DEF Loaded
<1>12. \A k \in Keys : k \in req'[r].keys <=> req'[r].image[k] # NoRow
  BY <1>5, <1>7, <1>9
<1>13. UNCHANGED <<scene, now, row, active, history>>
  BY DEF Arrive
<1> QED
  BY <1>9, <1>10, <1>11, <1>12, <1>13, QuietStep

LEMMA FlushStatusKeeps ==
    ASSUME IInv, NEW r \in Requests, FlushStatus(r)
    PROVE  IInv'
<1>1. Typed /\ req[r] \in Session /\ req[r].pc = "found" /\ req[r].kind \in StatusKinds
  BY DEF IInv, Typed, FlushStatus, At
<1>2. PICK reread \in SUBSET Counters :
          req' = [req EXCEPT ![r].pc = "counted",
                             ![r].counts = [c \in Counters |->
                                 IF c \in reread THEN active[c] ELSE @[c]]]
  BY DEF FlushStatus
<1> DEFINE counts == [c \in Counters |-> IF c \in reread THEN active[c] ELSE req[r].counts[c]]
           counted == [req[r] EXCEPT !.pc = "counted", !.counts = counts]
<1>3. counts \in [Counters -> Nat]
  BY <1>1 DEF Typed, Session
<1>4. /\ counted \in Session /\ counted.pc = "counted" /\ counted.kind = req[r].kind
      /\ counted.keys = req[r].keys /\ counted.image = req[r].image
      /\ counted.answer = req[r].answer
  BY <1>1, <1>3 DEF Session
<1>5. req' = [req EXCEPT ![r] = counted]
  BY <1>1, <1>2 DEF Typed
<1> HIDE DEF counted
<1>6. req'[r] = counted /\ Others(r)
  BY <1>1, <1>4, <1>5 DEF Typed, Others
<1>7. InOrder(r)'
  BY <1>1, <1>4, <1>6 DEF InOrder, IInv, SessionsInOrder
<1>8. r \in InFlight
  BY <1>1 DEF InFlight
<1> QED
  BY <1>1, <1>4, <1>6, <1>7, <1>8, QuietStep DEF FlushStatus, Typed, Image

LEMMA RecountKeeps ==
    ASSUME IInv, NEW r \in Requests, Recount(r)
    PROVE  IInv'
<1>1. Typed /\ req[r] \in Session /\ req[r].pc = "recount"
  BY DEF IInv, Typed, Recount
<1> DEFINE counts == [c \in Counters |-> Cardinality(ActiveOf(row, c))]
           recounted == [req[r] EXCEPT !.pc = "recounted", !.keys = Keys, !.image = row,
                                       !.loaded = active, !.counts = counts]
<1>2. counts \in [Counters -> Nat]
  <2>1. ASSUME NEW c \in Counters
        PROVE  Cardinality(ActiveOf(row, c)) \in Nat
    BY KeysAssumption, FS_Subset, FS_CardinalityType DEF ActiveOf
  <2> QED
    BY <2>1
<1>3. /\ recounted \in Session /\ recounted.pc = "recounted" /\ recounted.keys = Keys
      /\ recounted.image = row /\ recounted.counts = counts
      /\ recounted.answer = req[r].answer /\ recounted.kind = req[r].kind
  BY <1>1, <1>2 DEF Session, Typed
<1>4. req' = [req EXCEPT ![r] = recounted]
  BY <1>1 DEF Typed, Recount
<1> HIDE DEF recounted
<1>5. req'[r] = recounted /\ Others(r)
  BY <1>1, <1>3, <1>4 DEF Typed, Others
<1>6. InOrder(r)'
  <2>1. \A c \in Counters : ActiveOf(req'[r].image, c) = ActiveOf(row, c)
    BY <1>3, <1>5
  <2> QED
    BY <1>1, <1>3, <1>5, <2>1 DEF InOrder, IInv, SessionsInOrder
<1>7. \A k \in Keys : row[k] # NoRow
  BY <1>1, NoRowAssumption DEF Typed
<1> QED
  BY <1>3, <1>5, <1>6, <1>7, QuietStep DEF Recount

LEMMA ReloadKeeps ==
    ASSUME IInv, NEW r \in Requests, Reload(r)
    PROVE  IInv'
<1>1. Typed /\ req[r] \in Session /\ req[r].pc \in {"found", "admitted"} /\ req[r].kind = "connect"
  BY DEF IInv, Typed, Reload, At, SessionsInOrder, InOrder
<1>2. /\ Loaded(req[r].keys) \in [Keys -> Row \cup {NoRow}]
      /\ \A k \in Keys : k \in req[r].keys <=> Loaded(req[r].keys)[k] # NoRow
  BY <1>1, NoRowAssumption DEF Typed, Loaded
<1> DEFINE again == [req[r] EXCEPT !.image = Loaded(req[r].keys)]
<1>3. /\ again \in Session /\ again.pc = req[r].pc /\ again.kind = "connect"
      /\ again.keys = req[r].keys /\ again.image = Loaded(req[r].keys)
      /\ again.answer = req[r].answer
  BY <1>1, <1>2 DEF Session
<1>4. req' = [req EXCEPT ![r] = again]
  BY <1>1 DEF Typed, Reload
<1> HIDE DEF again
<1>5. req'[r] = again /\ Others(r)
  BY <1>1, <1>3, <1>4 DEF Typed, Others
<1>6. InOrder(r)'
  BY <1>1, <1>3, <1>5 DEF InOrder, IInv, SessionsInOrder
<1>7. \A k \in Keys : req'[r].image[k] # NoRow => req'[r].image[k] = row[k]
  BY <1>3, <1>5 DEF Loaded
<1> QED
  BY <1>2, <1>3, <1>5, <1>6, <1>7, QuietStep DEF Reload

\* A step of a connect that only goes on.
LEMMA GoesOn ==
    ASSUME IInv, NEW r \in Requests, NEW pc \in {"live", "admitted"}, req' = Goto(r, pc),
           req[r].pc \in {"found", "live"}, req[r].kind = "connect",
           UNCHANGED <<scene, now, row, active, history>>
    PROVE  IInv' /\ Others(r) /\ req'[r].pc = pc /\ req'[r].keys = req[r].keys
           /\ req'[r].image = req[r].image
<1>1. Typed /\ req[r] \in Session
  BY DEF IInv, Typed
<1>2. r \in InFlight
  BY DEF InFlight
<1> DEFINE on == [req[r] EXCEPT !.pc = pc]
<1>3. /\ on \in Session /\ on.pc = pc /\ on.kind = "connect"
      /\ on.keys = req[r].keys /\ on.image = req[r].image /\ on.answer = req[r].answer
  BY <1>1 DEF Session
<1>4. req' = [req EXCEPT ![r] = on]
  BY <1>1 DEF Typed, Goto
<1> HIDE DEF on
<1>5. req'[r] = on /\ Others(r)
  BY <1>1, <1>3, <1>4 DEF Typed, Others
<1>6. InOrder(r)'
  BY <1>1, <1>3, <1>5 DEF InOrder, IInv, SessionsInOrder
<1> QED
  BY <1>1, <1>2, <1>3, <1>5, <1>6, QuietStep DEF Typed, Image

LEMMA AdmitKeeps ==
    ASSUME IInv, NEW r \in Requests, Admit(r) \/ Proceed(r)
    PROVE  IInv'
<1>1. CASE Admit(r)
  BY <1>1, GoesOn DEF Admit, At
<1>2. CASE Proceed(r)
  BY <1>2, GoesOn DEF Proceed, IInv, SessionsInOrder, InOrder
<1> QED
  BY <1>1, <1>2

-----------------------------------------------------------------------------
(* Steps that write rows or counters.                                      *)

\* A write of rows ends the request; what it granted is noted.
LEMMA RowsStep ==
    ASSUME IInv, NEW r \in Requests, NEW answer \in Answers, req' = Finished(r, answer),
           scene' = scene, now' = now, row' \in [Keys -> Row], RowsBounded',
           active' \in [Counters -> Nat], drifted' \in SUBSET Counters, CountersExact',
           granted' \in [Keys -> Nat], \A k \in Keys : granted[k] <= granted'[k]
    PROVE  IInv'
BY FinishedStep, StepHolds DEF IInv

\* Counters nobody writes, of keys that stay active or not, stay exact.
LEMMA SameActive ==
    ASSUME IInv, active' = active, drifted \subseteq drifted',
           \A c \in Counters \ drifted' : ActiveOf(row', c) = ActiveOf(row, c)
    PROVE  CountersExact'
BY DEF IInv, CountersExact

LEMMA UncountedExact ==
    ASSUME IInv, active' = active, NEW rows, row' = rows, Uncounted(rows)
    PROVE  drifted' \in SUBSET Counters /\ CountersExact'
<1>1. drifted \subseteq Counters
  BY DEF IInv, Typed
<1>2. drifted' \in SUBSET Counters /\ drifted \subseteq drifted'
  BY <1>1 DEF Uncounted
<1>3. \A c \in Counters \ drifted' : ActiveOf(row', c) = ActiveOf(row, c)
  BY DEF Uncounted
<1> QED
  BY <1>2, <1>3, SameActive

\* The key a session decided on and the key of the row.
LEMMA CreateKeyKeeps ==
    ASSUME IInv, NEW r \in Requests, CreateKey(r)
    PROVE  IInv'
<1>1. Typed /\ req[r] \in Session /\ req[r].pc = "found" /\ req[r].kind = "create"
  BY DEF IInv, Typed, CreateKey, At
<1>2. TheKey(r) \in Keys
  BY <1>1, OneKey
<1>3. PICK u \in req[r].users :
          LET rows == [row EXCEPT ![TheKey(r)] =
                          [status |-> "active", owner |-> u, armed |-> TRUE,
                           expires |-> NoTime, created |-> now]]
          IN Commits(r, rows) /\ Uncounted(rows)
  BY DEF CreateKey
<1> DEFINE key == [status |-> "active", owner |-> u, armed |-> TRUE,
                   expires |-> NoTime, created |-> now]
           rows == [row EXCEPT ![TheKey(r)] = key]
<1>4. now \in Nat /\ u \in Users
  BY <1>1, NumbersAssumption DEF Typed, Session
<1>5. key \in Row /\ key.created = now /\ key.expires = NoTime /\ key.status = "active" /\ key.armed
  BY <1>4 DEF Row, Times, Statuses
<1>6. /\ row' = rows /\ Uncounted(rows) /\ req' = Finished(r, "over")
      /\ scene' = scene /\ now' = now /\ active' = active
      /\ granted' = granted
  BY <1>3 DEF Commits, CreateKey
<1> HIDE DEF key
<1>7. row' \in [Keys -> Row]
  BY <1>1, <1>5, <1>6 DEF Typed
<1>8. RowsBounded'
  <2> SUFFICES ASSUME NEW k \in Keys
               PROVE  Bounded(row[k], k)'
    BY DEF RowsBounded
  <2>1. CASE k = TheKey(r)
    <3>1. row'[k] = key
      BY <1>1, <1>6, <2>1 DEF Typed
    <3> QED
      BY <1>4, <1>5, <1>6, <3>1 DEF Bounded
  <2>2. CASE k # TheKey(r)
    <3>1. row'[k] = row[k]
      BY <1>1, <1>6, <2>2 DEF Typed
    <3> QED
      BY <1>6, <3>1 DEF IInv, RowsBounded, Bounded
  <2> QED
    BY <2>1, <2>2
<1> HIDE DEF rows
<1>9. drifted' \in SUBSET Counters /\ CountersExact'
  BY <1>6, UncountedExact
<1>10. \A k \in Keys : granted[k] <= granted'[k]
  BY <1>1, <1>6 DEF Typed
<1> QED
  BY <1>1, <1>6, <1>7, <1>8, <1>9, <1>10, RowsStep DEF Typed

\* Rows that keep their hours, or get hours that are bounded.
LEMMA HoursBounded ==
    ASSUME IInv, now' = now, granted' \in [Keys -> Nat], \A k \in Keys : granted[k] <= granted'[k],
           row' \in [Keys -> Row],
           \A k \in Keys :
              \/ /\ row'[k].created = row[k].created /\ row'[k].expires = row[k].expires
                 /\ row'[k].status = "new" => row[k].status = "new"
                 /\ ~row'[k].armed => ~row[k].armed
              \/ Bounded(row[k], k)'
    PROVE  RowsBounded'
<1> SUFFICES ASSUME NEW k \in Keys,
                    row'[k].created = row[k].created, row'[k].expires = row[k].expires,
                    row'[k].status = "new" => row[k].status = "new",
                    ~row'[k].armed => ~row[k].armed
             PROVE  Bounded(row[k], k)'
  BY DEF RowsBounded
<1>1. Typed /\ now \in Nat
  BY NumbersAssumption DEF IInv, Typed
<1>2. ASSUME NEW key \in Row, key = row[k], Bounded(key, k)
      PROVE  Bounded(key, k)'
  BY <1>1, <1>2, BoundedKept
<1>3. row[k] \in Row /\ Bounded(row[k], k)
  BY <1>1 DEF Typed, IInv, RowsBounded
<1>4. ASSUME NEW key \in Row, key = row[k]
      PROVE  Bounded(row[k], k)'
  <2>1. Bounded(key, k)'
    BY <1>2, <1>3, <1>4
  <2> QED
    BY <1>4, <2>1 DEF Bounded
<1> QED
  BY <1>3, <1>4

LEMMA MoveKeyKeeps ==
    ASSUME IInv, NEW r \in Requests, MoveKey(r)
    PROVE  IInv'
<1>1. Typed /\ req[r] \in Session /\ req[r].pc = "found" /\ req[r].kind = "move"
  BY DEF IInv, Typed, MoveKey, At
<1>2. PICK u \in req[r].users :
          LET rows == [row EXCEPT ![TheKey(r)].owner = u]
          IN Commits(r, rows) /\ Uncounted(rows)
  BY DEF MoveKey
<1> DEFINE rows == [row EXCEPT ![TheKey(r)].owner = u]
<1>3. TheKey(r) \in Keys /\ u \in Users /\ row \in [Keys -> Row]
  BY <1>1, OneKey DEF Session, Typed
<1>4. /\ row' = rows /\ Uncounted(rows) /\ req' = Finished(r, "over")
      /\ scene' = scene /\ now' = now /\ active' = active
      /\ granted' = granted
  BY <1>2 DEF Commits, MoveKey
<1>5. row' \in [Keys -> Row] /\ \A k \in Keys : /\ row'[k].created = row[k].created
                                                /\ row'[k].expires = row[k].expires
                                                /\ row'[k].status = row[k].status
                                                /\ row'[k].armed = row[k].armed
  BY <1>3, <1>4 DEF Row
<1> HIDE DEF rows
<1>6. drifted' \in SUBSET Counters /\ CountersExact'
  BY <1>4, UncountedExact
<1>7. \A k \in Keys : granted[k] <= granted'[k]
  BY <1>1, <1>4 DEF Typed
<1>8. RowsBounded'
  BY <1>1, <1>4, <1>5, <1>7, HoursBounded DEF Typed
<1> QED
  BY <1>1, <1>4, <1>5, <1>6, <1>7, <1>8, RowsStep DEF Typed

LEMMA DeleteKeyKeeps ==
    ASSUME IInv, NEW r \in Requests, DeleteKey(r)
    PROVE  IInv'
<1>1. Typed /\ req[r] \in Session /\ req[r].pc = "found" /\ req[r].kind = "delete"
  BY DEF IInv, Typed, DeleteKey, At
<1> DEFINE rows == [row EXCEPT ![TheKey(r)].status = "deleted"]
<1>2. TheKey(r) \in Keys /\ row \in [Keys -> Row]
  BY <1>1, OneKey DEF Typed
<1>3. /\ row' = rows /\ Uncounted(rows) /\ req' = Finished(r, "over")
      /\ scene' = scene /\ now' = now /\ active' = active
      /\ granted' = granted
  BY DEF Commits, DeleteKey
<1>4. row' \in [Keys -> Row] /\ \A k \in Keys : /\ row'[k].created = row[k].created
                                                /\ row'[k].expires = row[k].expires
                                                /\ row'[k].status = "new" => row[k].status = "new"
                                                /\ row'[k].armed = row[k].armed
  BY <1>2, <1>3 DEF Row, Statuses
<1> HIDE DEF rows
<1>5. drifted' \in SUBSET Counters /\ CountersExact'
  BY <1>3, UncountedExact
<1>6. \A k \in Keys : granted[k] <= granted'[k]
  BY <1>1, <1>3 DEF Typed
<1>7. RowsBounded'
  BY <1>1, <1>3, <1>4, <1>6, HoursBounded DEF Typed
<1> QED
  BY <1>1, <1>3, <1>4, <1>5, <1>6, <1>7, RowsStep DEF Typed

\* Status and owner stay, hours may change.
LEMMA HoursStep ==
    ASSUME IInv, NEW r \in Requests, NEW answer \in Answers, req' = Finished(r, answer),
           scene' = scene, now' = now, active' = active, drifted' = drifted,
           row' \in [Keys -> Row],
           \A k \in Keys : row'[k].status = row[k].status /\ row'[k].owner = row[k].owner,
           granted' \in [Keys -> Nat], \A k \in Keys : granted[k] <= granted'[k],
           \A k \in Keys :
              \/ /\ row'[k].created = row[k].created /\ row'[k].expires = row[k].expires
                 /\ ~row'[k].armed => ~row[k].armed
              \/ Bounded(row[k], k)'
    PROVE  IInv'
<1>1. \A c \in Counters : ActiveOf(row', c) = ActiveOf(row, c)
  BY DEF ActiveOf
<1>2. CountersExact'
  BY <1>1, SameActive
<1>3. RowsBounded'
  BY HoursBounded
<1> QED
  BY <1>2, <1>3, RowsStep DEF IInv, Typed

LEMMA ResetKeyKeeps ==
    ASSUME IInv, NEW r \in Requests, ResetKey(r)
    PROVE  IInv'
<1>1. Typed /\ req[r].pc = "found" /\ req[r].kind = "reset"
  BY DEF IInv, ResetKey, At
<1>2. TheKey(r) \in Keys /\ row \in [Keys -> Row]
  BY <1>1, OneKey DEF Typed
<1>3. /\ req' = Finished(r, "over") /\ scene' = scene /\ now' = now /\ active' = active
      /\ drifted' = drifted /\ granted' = granted
  BY DEF Commits, ResetKey, history
<1>4. PICK armed \in BOOLEAN : /\ row' = [row EXCEPT ![TheKey(r)].armed = armed]
                              /\ (armed \/ armed = row[TheKey(r)].armed)
  <2>1. row[TheKey(r)].armed \in BOOLEAN
    BY <1>2 DEF Row
  <2>2. CASE Image(r)[TheKey(r)].armed
    BY <1>2, <2>1, <2>2 DEF ResetKey, Commits
  <2>3. CASE ~Image(r)[TheKey(r)].armed
    BY <1>2, <2>1, <2>3 DEF ResetKey, Commits
  <2> QED
    BY <2>2, <2>3
<1>5. /\ row' \in [Keys -> Row]
      /\ \A k \in Keys : /\ row'[k].created = row[k].created /\ row'[k].expires = row[k].expires
                         /\ row'[k].status = row[k].status /\ row'[k].owner = row[k].owner
                         /\ ~row'[k].armed => ~row[k].armed
  <2> SUFFICES ASSUME NEW k \in Keys
               PROVE  /\ row'[k] \in Row
                      /\ row'[k].created = row[k].created /\ row'[k].expires = row[k].expires
                      /\ row'[k].status = row[k].status /\ row'[k].owner = row[k].owner
                      /\ ~row'[k].armed => ~row[k].armed
    BY <1>2, <1>4
  <2>1. row[k] \in Row
    BY <1>2
  <2>2. CASE k = TheKey(r)
    <3> DEFINE new == [row[k] EXCEPT !.armed = armed]
    <3>1. row'[k] = new
      BY <1>2, <1>4, <2>2
    <3>2. /\ new \in Row /\ new.created = row[k].created /\ new.expires = row[k].expires
          /\ new.status = row[k].status /\ new.owner = row[k].owner /\ (new.armed <=> armed)
      BY <2>1 DEF Row
    <3> HIDE DEF new
    <3> QED
      BY <1>4, <2>2, <3>1, <3>2
  <2>3. CASE k # TheKey(r)
    BY <1>2, <1>4, <2>1, <2>3
  <2> QED
    BY <2>2, <2>3
<1>6. \A k \in Keys : granted[k] <= granted'[k]
  BY <1>1, <1>3 DEF Typed
<1> QED
  BY <1>1, <1>3, <1>5, <1>6, HoursStep DEF Typed

LEMMA ExtendKeeps ==
    ASSUME IInv, NEW r \in Requests, Extend(r)
    PROVE  IInv'
<1>1. Typed /\ req[r] \in Session /\ r \in InFlight /\ req[r].number > 0 /\ now \in Nat
      /\ req[r].pc = "found"
  BY NumbersAssumption DEF IInv, Typed, Extend, At, InFlight, SessionsInOrder, InOrder
<1>2. /\ req' = Finished(r, "over") /\ scene' = scene /\ now' = now /\ active' = active
      /\ drifted' = drifted
  BY DEF Commits, Extend
<1> DEFINE from(k) == IF Image(r)[k].expires = NoTime THEN now ELSE Image(r)[k].expires
<1>3. /\ row' = [k \in Keys |-> IF k \notin req[r].keys THEN row[k] ELSE
                     [row[k] EXCEPT !.expires = from(k) + req[r].number]]
      /\ granted' = [k \in Keys |-> granted[k] + (IF k \in req[r].keys THEN req[r].number ELSE 0)]
  BY DEF Extend, Commits
<1>4. granted \in [Keys -> Nat] /\ row \in [Keys -> Row] /\ req[r].number \in Nat
  BY <1>1 DEF Typed, Session
<1>5. granted' \in [Keys -> Nat] /\ \A k \in Keys : granted[k] <= granted'[k]
  BY <1>3, <1>4
<1>6. ASSUME NEW k \in req[r].keys
      PROVE  k \in Keys /\ from(k) \in Nat /\ from(k) <= now + Duration + granted[k]
  <2>1. k \in Keys /\ Image(r)[k] \in Row /\ Bounded(Image(r)[k], k)
    BY <1>1, Images
  <2> QED
    BY <1>1, <1>4, <2>1, NumbersAssumption DEF Bounded, Row, Times
<1>7. /\ row' \in [Keys -> Row]
      /\ \A k \in Keys : row'[k].status = row[k].status /\ row'[k].owner = row[k].owner
      /\ \A k \in Keys : row'[k].created = row[k].created /\ row'[k].armed = row[k].armed
      /\ \A k \in Keys : row'[k].expires = IF k \in req[r].keys THEN from(k) + req[r].number
                                           ELSE row[k].expires
  <2> SUFFICES ASSUME NEW k \in Keys
               PROVE  LET new == IF k \notin req[r].keys THEN row[k] ELSE
                                 [row[k] EXCEPT !.expires = from(k) + req[r].number]
                      IN /\ new \in Row
                         /\ new.status = row[k].status /\ new.owner = row[k].owner
                         /\ new.created = row[k].created /\ new.armed = row[k].armed
                         /\ new.expires = IF k \in req[r].keys THEN from(k) + req[r].number
                                          ELSE row[k].expires
    BY <1>3
  <2>1. CASE k \in req[r].keys
    <3>1. from(k) + req[r].number \in Nat
      BY <1>4, <1>6, <2>1
    <3> HIDE DEF from
    <3> QED
      BY <1>4, <2>1, <3>1 DEF Row, Times
  <2>2. CASE k \notin req[r].keys
    BY <1>4, <2>2
  <2> QED
    BY <2>1, <2>2
<1> HIDE DEF from
<1>8. ASSUME NEW k \in Keys, k \in req[r].keys
      PROVE  Bounded(row[k], k)'
  <2>1. row[k].created <= now /\ (row[k].status = "new" => row[k].expires = NoTime)
    BY DEF IInv, RowsBounded, Bounded
  <2>2. granted'[k] = granted[k] + req[r].number /\ granted[k] \in Nat
    BY <1>3, <1>4, <1>8
  <2>3. row[k].status # "new"
    BY <1>8 DEF Extend, Writable, IsLive
  <2>4. row'[k].expires = from(k) + req[r].number /\ row'[k].created = row[k].created
        /\ row'[k].status = row[k].status
    BY <1>7, <1>8
  <2>5. row'[k].expires <= now' + Duration + granted'[k] /\ row'[k].expires # NoTime
    BY <1>1, <1>2, <1>4, <1>6, <1>8, <2>2, <2>4, NumbersAssumption
  <2> QED
    BY <1>2, <2>1, <2>3, <2>4, <2>5 DEF Bounded
<1> QED
  BY <1>1, <1>2, <1>5, <1>7, <1>8, HoursStep DEF Typed

LEMMA UpdateDurationKeeps ==
    ASSUME IInv, NEW r \in Requests, UpdateDuration(r)
    PROVE  IInv'
<1>1. Typed /\ req[r] \in Session /\ req[r].number > 0 /\ now \in Nat
      /\ req[r].pc = "found" /\ req[r].kind = "update"
  BY NumbersAssumption DEF IInv, Typed, UpdateDuration, At, SessionsInOrder, InOrder
<1>2. PICK k \in Keys : k = TheKey(r) /\ Image(r)[k] \in Row /\ Bounded(Image(r)[k], k)
                         /\ req[r].keys = {k}
  BY <1>1, OneKey
<1> DEFINE image == Image(r)[k]
           from == IF image.expires # NoTime /\ image.expires > now THEN image.created ELSE now
           new == from + req[r].number
<1>3. /\ req' = Finished(r, "over") /\ scene' = scene /\ now' = now /\ active' = active
      /\ drifted' = drifted
      /\ row' = [row EXCEPT ![k].expires = IF new = image.expires THEN @ ELSE new]
      /\ granted' = [granted EXCEPT ![k] = @ + req[r].number]
  BY <1>2 DEF Commits, UpdateDuration
<1>4. granted \in [Keys -> Nat] /\ row \in [Keys -> Row] /\ req[r].number \in Nat
  BY <1>1 DEF Typed, Session
<1>5. granted' \in [Keys -> Nat] /\ \A j \in Keys : granted[j] <= granted'[j]
  BY <1>2, <1>3, <1>4
<1>6. from \in Nat /\ from <= now
  BY <1>1, <1>2 DEF Bounded, Row, Times
<1>7. new \in Nat /\ new <= now + req[r].number
  BY <1>1, <1>4, <1>6
<1> HIDE DEF new
<1> DEFINE expires == IF new = image.expires THEN row[k].expires ELSE new
<1>8. expires \in Times /\ row' = [row EXCEPT ![k].expires = expires]
  BY <1>2, <1>3, <1>4, <1>7 DEF Row, Times
<1>9. expires = row[k].expires \/ expires = new
  OBVIOUS
<1> HIDE DEF expires
<1>10. /\ row' \in [Keys -> Row]
       /\ \A j \in Keys : /\ row'[j].status = row[j].status /\ row'[j].owner = row[j].owner
                          /\ row'[j].created = row[j].created /\ row'[j].armed = row[j].armed
                          /\ row'[j].expires = IF j = k THEN expires ELSE row[j].expires
  BY <1>2, <1>4, <1>8 DEF Row
<1>11. ASSUME expires = new
       PROVE  Bounded(row[k], k)'
  <2>1. row[k].created <= now /\ row[k].status # "new"
    BY <1>2 DEF IInv, RowsBounded, Bounded, UpdateDuration, Writable, IsLive
  <2>2. granted'[k] = granted[k] + req[r].number /\ granted[k] \in Nat
    BY <1>2, <1>3, <1>4
  <2>3. /\ row'[k].expires = new /\ row'[k].created = row[k].created
        /\ row'[k].status = row[k].status
    BY <1>2, <1>10, <1>11
  <2>4. row'[k].expires <= now' + Duration + granted'[k] /\ row'[k].expires # NoTime
    BY <1>1, <1>3, <1>4, <1>7, <2>2, <2>3, NumbersAssumption
  <2> QED
    BY <1>3, <2>1, <2>3, <2>4 DEF Bounded
<1>12. \A j \in Keys : \/ /\ row'[j].created = row[j].created /\ row'[j].expires = row[j].expires
                          /\ row'[j].armed = row[j].armed
                       \/ Bounded(row[j], j)'
  BY <1>9, <1>10, <1>11
<1> QED
  BY <1>1, <1>3, <1>5, <1>10, <1>12, HoursStep DEF Typed

\* What the commit of an activation leaves in the row and in the session.
LEMMA Activated ==
    ASSUME IInv, NEW r \in Requests, Activate(r)
    PROVE  /\ IInv' /\ Others(r) /\ req'[r].pc = "admitted" /\ req'[r].keys = req[r].keys
           /\ req'[r].keys = {TheKey(r)} /\ TheKey(r) \in Keys
           /\ \A k \in Keys : req'[r].image[k] = NoRow
           /\ row'[TheKey(r)].expires # NoTime
<1>1. Typed /\ now \in Nat /\ req[r] \in Session /\ req[r].pc = "live" /\ req[r].kind = "connect"
  BY NumbersAssumption DEF IInv, Typed, Activate, SessionsInOrder, InOrder
<1>2. PICK k \in Keys : k = TheKey(r) /\ req[r].keys = {k} /\ row \in [Keys -> Row]
  BY <1>1, OneKey DEF Typed
<1> DEFINE none == [j \in Keys |-> NoRow]
<1>3. /\ req' = [req EXCEPT ![r].pc = "admitted", ![r].image = none]
      /\ scene' = scene /\ now' = now /\ active' = active
      /\ drifted' = drifted /\ granted' = granted
      /\ row' = [row EXCEPT ![k].armed = FALSE, ![k].expires = now + Duration]
  BY <1>2 DEF Activate, history
<1>4. now + Duration \in Times /\ now + Duration \in Nat
  BY <1>1, NumbersAssumption DEF Times
<1>5. /\ row' \in [Keys -> Row]
      /\ \A j \in Keys : /\ row'[j].status = row[j].status /\ row'[j].owner = row[j].owner
                         /\ row'[j].created = row[j].created
                         /\ row'[j].expires = IF j = k THEN now + Duration ELSE row[j].expires
                         /\ j # k => row'[j].armed = row[j].armed
  <2>1. row[k] \in Row
    BY <1>2
  <2> DEFINE new == [row[k] EXCEPT !.armed = FALSE, !.expires = now + Duration]
  <2>2. /\ new \in Row /\ new.status = row[k].status /\ new.owner = row[k].owner
        /\ new.created = row[k].created /\ new.expires = now + Duration
    BY <1>4, <2>1 DEF Row
  <2>3. row' = [row EXCEPT ![k] = new]
    BY <1>2, <1>3, <2>1 DEF Row
  <2> HIDE DEF new
  <2> QED
    BY <1>2, <2>2, <2>3
<1>6. granted \in [Keys -> Nat]
  BY <1>1 DEF Typed
<1>7. granted' \in [Keys -> Nat] /\ \A j \in Keys : granted[j] <= granted'[j]
  BY <1>3, <1>6
<1>8. row'[k].expires # NoTime
  BY <1>2, <1>4, <1>5, NumbersAssumption
<1>9. Bounded(row[k], k)'
  <2>1. row[k].created <= now /\ row[k].status # "new"
    BY <1>2 DEF IInv, RowsBounded, Bounded, Activate, Writable, IsLive
  <2>2. /\ row'[k].expires = now + Duration /\ row'[k].created = row[k].created
        /\ row'[k].status = row[k].status
    BY <1>2, <1>5
  <2>3. row'[k].expires <= now' + Duration + granted'[k]
    <3>1. granted'[k] = granted[k] /\ granted[k] \in Nat /\ now' = now
      BY <1>2, <1>3, <1>6
    <3> QED
      BY <1>1, <2>2, <3>1, NumbersAssumption
  <2> QED
    BY <1>3, <1>8, <2>1, <2>2, <2>3 DEF Bounded
<1>10. \A j \in Keys : \/ /\ row'[j].created = row[j].created /\ row'[j].expires = row[j].expires
                          /\ row'[j].status = "new" => row[j].status = "new"
                          /\ ~row'[j].armed => ~row[j].armed
                       \/ Bounded(row[j], j)'
  BY <1>5, <1>9
<1>11. RowsBounded'
  BY <1>3, <1>5, <1>7, <1>10, HoursBounded
<1>12. CountersExact'
  <2>1. \A c \in Counters : ActiveOf(row', c) = ActiveOf(row, c)
    BY <1>5 DEF ActiveOf
  <2> QED
    BY <1>3, <2>1, SameActive
<1> DEFINE held == [req[r] EXCEPT !.pc = "admitted", !.image = none]
<1>13. none \in [Keys -> Row \cup {NoRow}] /\ \A j \in Keys : none[j] = NoRow
  OBVIOUS
<1> HIDE DEF none
<1>14. /\ held \in Session /\ held.pc = "admitted" /\ held.kind = "connect"
       /\ held.keys = req[r].keys /\ held.image = none /\ held.answer = req[r].answer
  BY <1>1, <1>13 DEF Session
<1>15. req' = [req EXCEPT ![r] = held]
  BY <1>1, <1>3 DEF Typed
<1> HIDE DEF held
<1>16. req'[r] = held /\ Others(r)
  BY <1>1, <1>14, <1>15 DEF Typed, Others
<1>17. InOrder(r)'
  BY <1>1, <1>2, <1>14, <1>16 DEF InOrder, IInv, SessionsInOrder
<1>18. \A j \in Keys : req'[r].image[j] = NoRow
  BY <1>13, <1>14, <1>16
<1>19. IInv'
  BY <1>1, <1>3, <1>5, <1>7, <1>11, <1>12, <1>14, <1>16, <1>17, <1>18, StepHolds DEF Typed
<1> QED
  BY <1>2, <1>8, <1>14, <1>16, <1>18, <1>19

LEMMA AgentCommitsKeeps ==
    ASSUME IInv, NEW r \in Requests, AgentCommits(r)
    PROVE  IInv'
<1>1. Typed /\ req[r] \in Session /\ req[r].pc = "found" /\ r \in InFlight
      /\ req[r].kind \in {"agentPause", "agentResume"}
  BY DEF IInv, Typed, AgentCommits, At, InFlight
<1> DEFINE rows == [k \in Keys |->
                       IF k \in req[r].keys /\ Image(r)[k].status # Target(r)
                       THEN [row[k] EXCEPT !.status = Target(r)] ELSE row[k]]
           owners == {Image(r)[k].owner : k \in req[r].keys}
           agent == [req[r] EXCEPT !.pc = "recount", !.users = owners]
<1>2. /\ row' = rows /\ Uncounted(rows) /\ scene' = scene /\ now' = now /\ active' = active
      /\ granted' = granted
      /\ req' = [req EXCEPT ![r].pc = "recount", ![r].users = owners]
  BY DEF AgentCommits
<1>3. Target(r) \in {"agentPaused", "active"}
  BY <1>1 DEF Target
<1>4. row' \in [Keys -> Row] /\ \A k \in Keys : /\ row'[k].created = row[k].created
                                                /\ row'[k].expires = row[k].expires
                                                /\ row'[k].status = "new" => row[k].status = "new"
                                                /\ row'[k].armed = row[k].armed
  BY <1>1, <1>2, <1>3, SMTT(30) DEF Row, Statuses, Typed
<1> HIDE DEF rows
<1>5. drifted' \in SUBSET Counters /\ CountersExact'
  BY <1>2, UncountedExact
<1>6. \A k \in Keys : granted[k] <= granted'[k]
  BY <1>1, <1>2 DEF Typed
<1>7. RowsBounded'
  BY <1>1, <1>2, <1>4, <1>6, HoursBounded DEF Typed
<1>8. owners \in SUBSET Users
  <2>1. ASSUME NEW k \in req[r].keys
        PROVE  Image(r)[k].owner \in Users
    BY <1>1, Images DEF Row
  <2> QED
    BY <2>1
<1> HIDE DEF owners
<1>9. /\ agent \in Session /\ agent.pc = "recount" /\ agent.keys = req[r].keys
      /\ agent.image = req[r].image /\ agent.answer = req[r].answer /\ agent.kind = req[r].kind
  BY <1>1, <1>8 DEF Session
<1>10. req' = [req EXCEPT ![r] = agent]
  BY <1>1, <1>2 DEF Typed
<1> HIDE DEF agent
<1>11. req'[r] = agent /\ Others(r)
  BY <1>1, <1>9, <1>10 DEF Typed, Others
<1>12. InOrder(r)'
  BY <1>1, <1>9, <1>11 DEF InOrder, IInv, SessionsInOrder
<1>13. \A k \in Keys : k \in req'[r].keys <=> req'[r].image[k] # NoRow
  BY <1>1, <1>9, <1>11 DEF Typed, Image
<1>14. \A k \in Keys : req'[r].image[k] = Image(r)[k]
  BY <1>9, <1>11 DEF Image
<1>15. /\ active' \in [Counters -> Nat] /\ granted' \in [Keys -> Nat]
  BY <1>1, <1>2 DEF Typed
<1> QED
  BY <1>2, <1>4, <1>5, <1>6, <1>7, <1>11, <1>12, <1>13, <1>14, <1>15, StepHolds

\* Counters written from a count stay, or become, exact; others are noted.
LEMMA CommitRecountKeeps ==
    ASSUME IInv, NEW r \in Requests, CommitRecount(r)
    PROVE  IInv'
<1> DEFINE written == {u \in req[r].users : req[r].counts[u] # req[r].loaded[u]}
           undisturbed(u) == /\ ActiveOf(row, u) = ActiveOf(Image(r), u)
                             /\ u \in written \/ active[u] = req[r].loaded[u]
<1>1. Typed /\ req[r] \in Session /\ req[r].pc = "recounted"
  BY DEF IInv, Typed, CommitRecount
<1>2. /\ active' = [c \in Counters |-> IF c \in written THEN req[r].counts[c] ELSE active[c]]
      /\ drifted' = (drifted \ {u \in req[r].users : undisturbed(u)})
                     \cup {u \in req[r].users : ~undisturbed(u)}
      /\ req' = Finished(r, "over")
      /\ scene' = scene /\ now' = now /\ row' = row /\ granted' = granted
  BY DEF CommitRecount
<1>3. \A c \in Counters : req[r].counts[c] = Cardinality(ActiveOf(Image(r), c))
  BY <1>1 DEF IInv, SessionsInOrder, InOrder, Image
<1>4. /\ active' \in [Counters -> Nat] /\ drifted' \in SUBSET Counters
      /\ req[r].users \subseteq Counters
  BY <1>1, <1>2 DEF Typed, Session, Counters
<1>5. CountersExact'
  <2> SUFFICES ASSUME NEW c \in Counters \ drifted'
               PROVE  active'[c] = Cardinality(ActiveOf(row, c))
    BY <1>2 DEF CountersExact
  <2>1. CASE c \in req[r].users
    <3>1. undisturbed(c)
      BY <1>2, <2>1
    <3>2. CASE c \in written
      BY <1>2, <1>3, <3>1, <3>2
    <3>3. CASE c \notin written
      <4>1. active'[c] = active[c]
        BY <1>2, <3>3
      <4>2. active[c] = req[r].loaded[c] /\ req[r].counts[c] = req[r].loaded[c]
        BY <2>1, <3>1, <3>3
      <4> QED
        BY <1>3, <3>1, <4>1, <4>2
    <3> QED
      BY <3>2, <3>3
  <2>2. CASE c \notin req[r].users
    <3>1. c \notin drifted /\ active'[c] = active[c]
      BY <1>2, <2>2
    <3> QED
      BY <3>1 DEF IInv, CountersExact
  <2> QED
    BY <2>1, <2>2
<1>6. RowsBounded' /\ \A k \in Keys : granted[k] <= granted'[k]
  BY <1>1, <1>2 DEF IInv, RowsBounded, Bounded, Typed
<1> QED
  BY <1>1, <1>2, <1>4, <1>5, <1>6, RowsStep DEF Typed

\* One key more or less changes the number by one.
LEMMA CountChanges ==
    ASSUME NEW s, NEW t, IsFiniteSet(s), NEW k
    PROVE  /\ k \notin s /\ t = s \cup {k} => Cardinality(t) = Cardinality(s) + 1
           /\ k \in s /\ t = s \ {k} => Cardinality(t) = Cardinality(s) - 1 /\ Cardinality(s) # 0
           /\ Cardinality(s) \in Nat
BY FS_AddElement, FS_RemoveElement, FS_CardinalityType, FS_EmptySet

LEMMA CommitStatusKeeps ==
    ASSUME IInv, NEW r \in Requests, CommitStatus(r)
    PROVE  IInv'
<1>1. Typed /\ req[r] \in Session /\ req[r].pc = "counted" /\ req[r].kind \in StatusKinds
  BY DEF IInv, Typed, CommitStatus, SessionsInOrder, InOrder
<1>2. PICK k \in Keys : k = TheKey(r) /\ Image(r)[k] \in Row
  BY <1>1, OneKey
<1>3. PICK target \in {"paused", "archived", "active", "blocked"} : target = Target(r)
  BY <1>1 DEF Target
<1> DEFINE image == Image(r)[k]
           counted == {image.owner, Project}
           new == [c \in counted |-> Count(req[r].counts[c], image.status, target)]
           changed == (image.status = "active") # (target = "active")
<1>4. /\ row' = [row EXCEPT ![k].status = target]
      /\ active' = [c \in Counters |->
                       IF c \in counted /\ new[c] # req[r].counts[c] THEN new[c] ELSE active[c]]
      /\ drifted' = drifted
            \cup (IF (row[k].status = "active") # (image.status = "active")
                     \/ row[k].owner # image.owner
                  THEN counted \cup {row[k].owner} ELSE {})
            \cup {c \in counted : changed /\ active[c] # req[r].counts[c]}
      /\ req' = Finished(r, "over")
      /\ scene' = scene /\ now' = now /\ granted' = granted
  BY <1>2, <1>3 DEF CommitStatus
<1>5. row \in [Keys -> Row] /\ counted \subseteq Counters /\ row[k].owner \in Counters
  BY <1>1, <1>2 DEF Typed, Row, Counters
<1>6. /\ row' \in [Keys -> Row]
      /\ \A j \in Keys : /\ row'[j].created = row[j].created /\ row'[j].expires = row[j].expires
                         /\ row'[j].owner = row[j].owner /\ row'[j].armed = row[j].armed
                         /\ row'[j].status = IF j = k THEN target ELSE row[j].status
  BY <1>2, <1>4, <1>5 DEF Row, Statuses
<1>7. active' \in [Counters -> Nat]
  <2>1. \A c \in counted : req[r].counts[c] \in Nat
    BY <1>1, <1>5 DEF Session
  <2>2. \A c \in counted : new[c] \in Nat
    BY <2>1 DEF Count
  <2> HIDE DEF new
  <2> QED
    BY <1>1, <1>4, <2>2 DEF Typed
<1>8. drifted' \in SUBSET Counters /\ drifted \subseteq drifted'
  BY <1>1, <1>4, <1>5 DEF Typed
<1>9. CountersExact'
  <2> SUFFICES ASSUME NEW c \in Counters \ drifted'
               PROVE  active'[c] = Cardinality(ActiveOf(row', c))
    BY DEF CountersExact
  <2>1. active[c] = Cardinality(ActiveOf(row, c))
    BY <1>8 DEF IInv, CountersExact
  <2>2. CASE c \notin counted
    <3>1. row[k].owner # c /\ c # Project
      BY <1>4, <2>2
    <3>2. ActiveOf(row', c) = ActiveOf(row, c)
      BY <1>6, <3>1 DEF ActiveOf
    <3> QED
      BY <1>4, <2>1, <2>2, <3>2
  <2>3. CASE c \in counted
    <3>1. /\ row[k].status = "active" <=> image.status = "active"
          /\ row[k].owner = image.owner
          /\ changed => active[c] = req[r].counts[c]
      <4> HIDE DEF changed
      <4> QED
        BY <1>4, <2>3
    <3>2. IsFiniteSet(ActiveOf(row, c))
      BY KeysAssumption, FS_Subset DEF ActiveOf
    <3>3. new[c] = Count(req[r].counts[c], image.status, target) /\ active[c] \in Nat
      BY <1>1, <2>3 DEF Typed
    <3>4. active'[c] = IF new[c] # req[r].counts[c] THEN new[c] ELSE active[c]
      <4> HIDE DEF new, counted
      <4> QED
        BY <1>4, <2>3
    <3> HIDE DEF new
    <3>5. CASE ~changed
      <4>1. ActiveOf(row', c) = ActiveOf(row, c)
        BY <1>2, <1>6, <3>1, <3>5 DEF ActiveOf
      <4>2. new[c] = req[r].counts[c]
        BY <3>3, <3>5 DEF Count
      <4> QED
        BY <2>1, <3>4, <4>1, <4>2
    <3>6. CASE changed /\ target = "active"
      <4>1. k \notin ActiveOf(row, c) /\ ActiveOf(row', c) = ActiveOf(row, c) \cup {k}
        BY <1>2, <1>6, <2>3, <3>1, <3>6 DEF ActiveOf
      <4>2. Cardinality(ActiveOf(row', c)) = active[c] + 1
        BY <2>1, <3>2, <4>1, CountChanges
      <4>3. new[c] = active[c] + 1 /\ active[c] = req[r].counts[c]
        BY <3>1, <3>3, <3>6 DEF Count
      <4> QED
        BY <3>3, <3>4, <4>2, <4>3
    <3>7. CASE changed /\ target # "active"
      <4>1. k \in ActiveOf(row, c) /\ ActiveOf(row', c) = ActiveOf(row, c) \ {k}
        BY <1>2, <1>6, <2>3, <3>1, <3>7 DEF ActiveOf
      <4>2. Cardinality(ActiveOf(row', c)) = active[c] - 1 /\ active[c] # 0
        BY <2>1, <3>2, <4>1, CountChanges
      <4>3. new[c] = active[c] - 1 /\ active[c] = req[r].counts[c]
        BY <3>1, <3>3, <3>7, <4>2 DEF Count
      <4> QED
        BY <3>3, <3>4, <4>2, <4>3
    <3> QED
      BY <3>5, <3>6, <3>7
  <2> QED
    BY <2>2, <2>3
<1>10. \A j \in Keys : granted[j] <= granted'[j]
  BY <1>1, <1>4 DEF Typed
<1>11. RowsBounded'
  <2>1. \A j \in Keys : row'[j].status = "new" => row[j].status = "new"
    BY <1>6
  <2> QED
    BY <1>1, <1>4, <1>6, <1>10, <2>1, HoursBounded DEF Typed
<1> QED
  BY <1>1, <1>4, <1>6, <1>7, <1>8, <1>9, <1>10, <1>11, RowsStep DEF Typed

\* An hour ends for everybody at once.
LEMMA TickKeeps ==
    ASSUME IInv, Tick
    PROVE  IInv'
<1>1. /\ Typed /\ now \in Nat /\ now' = now + 1 /\ now' \in 0 .. Horizon
      /\ scene' = scene /\ row' = row /\ active' = active
      /\ drifted' = drifted /\ granted' = granted
  BY NumbersAssumption DEF IInv, Typed, Tick, history
<1>2. req' \in [Requests -> Session] /\ \A r \in Requests :
          /\ req'[r].pc = req[r].pc /\ req'[r].kind = req[r].kind /\ req'[r].keys = req[r].keys
          /\ req'[r].number = req[r].number /\ req'[r].image = req[r].image
          /\ req'[r].counts = req[r].counts /\ req'[r].answer = req[r].answer
          /\ (req'[r].late <=> r \in InFlight) /\ req[r] \in Session
  <2>1. req' = [r \in Requests |-> [req[r] EXCEPT !.late = r \in InFlight]]
    BY DEF Tick
  <2>2. ASSUME NEW r \in Requests, NEW q \in Session, q = req[r],
               NEW late \in BOOLEAN, late = (r \in InFlight)
        PROVE  /\ req'[r] \in Session
               /\ req'[r].pc = q.pc /\ req'[r].kind = q.kind /\ req'[r].keys = q.keys
               /\ req'[r].number = q.number /\ req'[r].image = q.image
               /\ req'[r].counts = q.counts /\ req'[r].answer = q.answer
               /\ (req'[r].late <=> late)
    <3>1. req'[r] = [q EXCEPT !.late = late]
      BY <2>1, <2>2
    <3> QED
      BY <3>1 DEF Session
  <2>3. \A r \in Requests : req[r] \in Session /\ (r \in InFlight) \in BOOLEAN
    BY <1>1 DEF Typed
  <2>4. \A r \in Requests :
          /\ req'[r] \in Session
          /\ req'[r].pc = req[r].pc /\ req'[r].kind = req[r].kind /\ req'[r].keys = req[r].keys
          /\ req'[r].number = req[r].number /\ req'[r].image = req[r].image
          /\ req'[r].counts = req[r].counts /\ req'[r].answer = req[r].answer
          /\ (req'[r].late <=> r \in InFlight)
    <3> SUFFICES ASSUME NEW r \in Requests
                 PROVE  /\ req'[r] \in Session
                        /\ req'[r].pc = req[r].pc /\ req'[r].kind = req[r].kind
                        /\ req'[r].keys = req[r].keys /\ req'[r].number = req[r].number
                        /\ req'[r].image = req[r].image /\ req'[r].counts = req[r].counts
                        /\ req'[r].answer = req[r].answer /\ (req'[r].late <=> r \in InFlight)
      OBVIOUS
    <3>1. req[r] \in Session /\ (r \in InFlight) \in BOOLEAN
      BY <2>3
    <3> QED
      BY <2>2, <3>1
  <2>5. req' \in [Requests -> Session]
    BY <2>1, <2>4
  <2> QED
    BY <2>3, <2>4, <2>5
<1>3. InFlight' = InFlight
  BY <1>2 DEF InFlight
<1>4. Typed'
  BY <1>1, <1>2, <1>3 DEF Typed, Image, InFlight
<1>5. SessionsInOrder'
  BY <1>2 DEF IInv, SessionsInOrder, InOrder
<1>6. ASSUME NEW k \in Keys, NEW key \in Row, Bounded(key, k)
      PROVE  Bounded(key, k)'
  <2>1. now' \in Nat /\ now <= now'
    BY <1>1
  <2>2. granted' \in [Keys -> Nat] /\ \A j \in Keys : granted[j] <= granted'[j]
    BY <1>1 DEF Typed
  <2> QED
    BY <1>1, <1>6, <2>1, <2>2, BoundedKept
<1>7. RowsBounded'
  <2> SUFFICES ASSUME NEW k \in Keys
               PROVE  Bounded(row[k], k)'
    BY DEF RowsBounded
  <2>1. row[k] \in Row /\ Bounded(row[k], k)
    BY <1>1 DEF Typed, IInv, RowsBounded
  <2>2. ASSUME NEW key \in Row, key = row[k]
        PROVE  Bounded(row[k], k)'
    <3>1. Bounded(key, k)'
      BY <1>6, <2>1, <2>2
    <3> QED
      BY <1>1, <2>2, <3>1 DEF Bounded
  <2> QED
    BY <2>1, <2>2
<1>8. ImagesBounded'
  <2> SUFFICES ASSUME NEW r \in Requests, NEW k \in Keys, req'[r].image[k] # NoRow
               PROVE  Bounded(Image(r)[k], k)'
    BY DEF ImagesBounded, Image
  <2>1. Image(r)[k] \in Row /\ Bounded(Image(r)[k], k)
    BY <1>2 DEF Session, Image, IInv, ImagesBounded
  <2>2. ASSUME NEW key \in Row, key = Image(r)[k]
        PROVE  Bounded(Image(r)[k], k)'
    <3>1. Bounded(key, k)'
      BY <1>6, <2>1, <2>2
    <3> QED
      BY <1>2, <2>2, <3>1 DEF Bounded, Image
  <2> QED
    BY <2>1, <2>2
<1>10. CountersExact'
  BY <1>1 DEF IInv, CountersExact, ActiveOf
<1> QED
  BY <1>4, <1>5, <1>7, <1>8, <1>10 DEF IInv

-----------------------------------------------------------------------------
(* The theorems.                                                           *)

LEMMA InitHolds == Init => IInv
<1> SUFFICES ASSUME Init PROVE IInv
  OBVIOUS
<1>1. PICK owner \in [Keys -> Users], live \in SUBSET Keys, running \in SUBSET Keys :
          row = [k \in Keys |->
                    [InitialRow(owner[k]) EXCEPT
                        !.status = IF k \in running THEN "active"
                                   ELSE IF k \in live THEN "paused" ELSE "new"]]
  BY ZenonT(40) DEF Init
<1>2. /\ row \in [Keys -> Row]
      /\ \A k \in Keys : row[k].expires = NoTime /\ row[k].created = 0 /\ row[k].armed
  BY <1>1 DEF InitialRow, Row, Statuses, Times
<1>3. /\ now = 0 /\ active = [c \in Counters |-> 0] /\ req = [r \in Requests |-> Idle]
      /\ drifted = {c \in Counters : ActiveOf(row, c) # {}}
  BY DEF Init
<1>4. \A r \in Requests : /\ req[r] = Idle /\ Idle.pc = "idle" /\ Idle.answer = "none"
                          /\ \A k \in Keys : Idle.image[k] = NoRow
  BY <1>3 DEF Idle
<1>5. Typed
  <2>1. InFlight = {}
    BY <1>4 DEF InFlight
  <2> QED
    BY <1>2, <1>3, <2>1, IdleType, NumbersAssumption DEF Init, Typed
<1>6. SessionsInOrder /\ ImagesBounded
  BY <1>4 DEF SessionsInOrder, InOrder, ImagesBounded, Image
<1>7. RowsBounded
  BY <1>2, <1>3 DEF RowsBounded, Bounded
<1>8. CountersExact
  BY <1>3, FS_EmptySet DEF CountersExact
<1> QED
  BY <1>5, <1>6, <1>7, <1>8 DEF IInv

\* A request that a scene allows.
LEMMA SceneKinds == Typed => scene \subseteq AllKinds
BY ScenesAssumption DEF Typed

LEMMA EndsKeep ==
    ASSUME IInv, NEW r \in Requests, Unchanged(r) \/ Refuse(r) \/ Serve(r) \/ Fails(r)
    PROVE  IInv'
<1>1. CASE Unchanged(r)
  BY <1>1, QuietEnd DEF Unchanged
<1>2. CASE Refuse(r)
  <2>1. PICK answer \in {"inactive", "expired"} : req' = Finished(r, answer)
    BY <1>2 DEF Refuse
  <2> QED
    BY <1>2, <2>1, QuietEnd DEF Refuse
<1>3. CASE Serve(r)
  BY <1>3, QuietEnd DEF Serve
<1>4. CASE Fails(r)
  BY <1>4, QuietEnd DEF Fails
<1> QED
  BY <1>1, <1>2, <1>3, <1>4

LEMMA NextHolds == IInv /\ [Next]_vars => IInv'
<1> SUFFICES ASSUME IInv, [Next]_vars PROVE IInv'
  OBVIOUS
<1>1. ASSUME NEW r \in Requests, NEW kind \in scene, NEW ks \in TargetsOf(kind),
             NEW n \in NumbersOf(kind), NEW us \in UsersOf(kind), Arrive(r, kind, ks, n, us)
      PROVE  IInv'
  BY <1>1, SceneKinds, ArriveKeeps DEF IInv
<1>2. ASSUME NEW r \in Requests, ChangeStatus(r)
      PROVE  IInv'
  BY <1>2, EndsKeep, FlushStatusKeeps, CommitStatusKeeps, AgentCommitsKeeps, RecountKeeps,
     CommitRecountKeeps DEF ChangeStatus
<1>3. ASSUME NEW r \in Requests, ChangeKey(r)
      PROVE  IInv'
  BY <1>3, CreateKeyKeeps, MoveKeyKeeps, DeleteKeyKeeps, ResetKeyKeeps, ExtendKeeps,
     UpdateDurationKeeps DEF ChangeKey
<1>4. ASSUME NEW r \in Requests, Connect(r) \/ Fails(r)
      PROVE  IInv'
  BY <1>4, EndsKeep, ReloadKeeps, AdmitKeeps, Activated DEF Connect
<1>5. CASE UNCHANGED <<scene, now, row, active, req, history>>
  BY <1>5 DEF history, IInv, Typed, SessionsInOrder, InOrder, RowsBounded, ImagesBounded, Bounded,
              CountersExact, ActiveOf, InFlight, Image
<1> QED
  BY <1>1, <1>2, <1>3, <1>4, <1>5, TickKeeps DEF Next, Step, Rest, vars

LEMMA LifecycleInvariant == Spec => []IInv
BY InitHolds, NextHolds, PTL DEF Spec

\* User.active_keys and Project.active_keys are the numbers of active keys as long
\* as no handler that does not account for them, and no race, came between.
THEOREM CountersCorrect == Spec => []CountersExact
<1>1. IInv => CountersExact
  BY DEF IInv
<1> QED
  BY <1>1, LifecycleInvariant, PTL

\* However activations, extensions, resets and durations interleave, a key never
\* expires later than its duration and all hours managers gave it, from now.
THEOREM HoursAreGranted == Spec => []HoursGranted
<1>1. IInv => HoursGranted
  BY DEF IInv, RowsBounded, Bounded, HoursGranted
<1> QED
  BY <1>1, LifecycleInvariant, PTL

-----------------------------------------------------------------------------
(* The hours of the keys.                                                  *)

\* What an action leaves of the hours of the keys.
LEMMA ExpiryStays ==
    ASSUME IInv, NEW r \in Requests,
           ChangeStatus(r) \/ MoveKey(r) \/ DeleteKey(r) \/ ResetKey(r)
           \/ Reload(r) \/ Refuse(r) \/ Admit(r) \/ Proceed(r) \/ Serve(r) \/ Fails(r)
    PROVE  \A k \in Keys : row'[k].expires = row[k].expires
<1>1. row \in [Keys -> Row]
  BY DEF IInv, Typed
<1>2. CASE Unchanged(r) \/ FlushStatus(r) \/ Recount(r) \/ CommitRecount(r)
           \/ Reload(r) \/ Refuse(r) \/ Admit(r) \/ Proceed(r) \/ Serve(r) \/ Fails(r)
  <2>1. row' = row
    BY <1>2 DEF Unchanged, FlushStatus, Recount, CommitRecount, Reload, Refuse, Admit, Proceed,
                Serve, Fails
  <2> QED
    BY <2>1
<1>3. CASE CommitStatus(r)
  <2>1. row' = [row EXCEPT ![TheKey(r)].status = Target(r)]
    BY <1>3 DEF CommitStatus
  <2> QED
    BY <1>1, <2>1 DEF Row
<1>4. CASE AgentCommits(r)
  <2>1. row' = [k \in Keys |->
                   IF k \in req[r].keys /\ Image(r)[k].status # Target(r)
                   THEN [row[k] EXCEPT !.status = Target(r)] ELSE row[k]]
    BY <1>4 DEF AgentCommits
  <2> QED
    BY <1>1, <2>1 DEF Row
<1>5. CASE MoveKey(r)
  <2>1. \E u \in req[r].users : row' = [row EXCEPT ![TheKey(r)].owner = u]
    BY <1>5 DEF MoveKey, Commits
  <2> QED
    BY <1>1, <2>1 DEF Row
<1>6. CASE DeleteKey(r)
  <2>1. row' = [row EXCEPT ![TheKey(r)].status = "deleted"]
    BY <1>6 DEF DeleteKey, Commits
  <2> QED
    BY <1>1, <2>1 DEF Row
<1>7. CASE ResetKey(r)
  <2>1. \E armed : row' = [row EXCEPT ![TheKey(r)].armed = armed]
    BY <1>7 DEF ResetKey, Commits
  <2> QED
    BY <1>1, <2>1 DEF Row
<1> QED
  BY <1>2, <1>3, <1>4, <1>5, <1>6, <1>7 DEF ChangeStatus

\* Four actions write hours.
LEMMA Writers ==
    ASSUME IInv, Step, NEW k \in Keys, row'[k].expires # row[k].expires
    PROVE  \E r \in Requests : CreateKey(r) \/ Extend(r) \/ UpdateDuration(r) \/ Activate(r)
<1>1. row' # row
  OBVIOUS
<1>2. ~Tick /\ ~Rest
  BY <1>1 DEF Tick, Rest
<1>3. PICK r \in Requests : ChangeStatus(r) \/ ChangeKey(r) \/ Connect(r) \/ Fails(r)
  <2>1. \A r, kind, ks, n, us : ~Arrive(r, kind, ks, n, us)
    BY <1>1 DEF Arrive
  <2> QED
    BY <1>2, <2>1 DEF Step
<1> QED
  BY <1>3, ExpiryStays DEF ChangeKey, Connect

\* A row that is created had no hours, and the other rows stay.
LEMMA CreateHours ==
    ASSUME IInv, NEW r \in Requests, CreateKey(r), NEW k \in Keys,
           row'[k].expires # row[k].expires
    PROVE  row[k].expires = NoTime
<1>1. row \in [Keys -> Row]
  BY DEF IInv, Typed
<1>2. row[TheKey(r)].status = "new" /\ TheKey(r) \in Keys
  BY OneKey DEF CreateKey, At
<1>3. \A j \in Keys : j # TheKey(r) => row'[j] = row[j]
  BY <1>1 DEF CreateKey, Commits
<1> QED
  BY <1>2, <1>3 DEF IInv, RowsBounded, Bounded

LEMMA ExtendHours ==
    ASSUME IInv, NEW r \in Requests, Extend(r), NEW k \in Keys,
           row'[k].expires # row[k].expires
    PROVE  /\ r \in InFlight /\ req[r].kind = "extend" /\ req'[r].pc = "done" /\ k \in req[r].keys
           /\ row'[k].expires =
                (IF Image(r)[k].expires = NoTime THEN now ELSE Image(r)[k].expires) + req[r].number
           /\ row'[k].expires \in Nat /\ req[r].number \in Nat
<1>1. Typed /\ row \in [Keys -> Row] /\ now \in Nat
  BY NumbersAssumption DEF IInv, Typed
<1>2. /\ r \in InFlight /\ req[r].kind = "extend" /\ req[r] \in Session /\ req'[r].pc = "done"
      /\ req[r].pc = "found"
  BY <1>1, FinishedStep DEF Extend, Commits, At, InFlight, Typed
<1>3. k \in req[r].keys
  BY DEF Extend, Commits
<1>4. row'[k].expires =
          (IF Image(r)[k].expires = NoTime THEN now ELSE Image(r)[k].expires) + req[r].number
  BY <1>1, <1>3 DEF Extend, Commits, Row
<1>5. Image(r)[k] \in Row /\ req[r].number \in Nat
  BY <1>2, <1>3, Images DEF Session
<1> QED
  BY <1>1, <1>2, <1>3, <1>4, <1>5 DEF Row, Times

LEMMA UpdateHours ==
    ASSUME IInv, NEW r \in Requests, UpdateDuration(r), NEW k \in Keys,
           row'[k].expires # row[k].expires
    PROVE  /\ r \in InFlight /\ req[r].kind = "update" /\ req'[r].pc = "done" /\ k \in req[r].keys
           /\ row'[k].expires \in Nat
<1>1. Typed /\ row \in [Keys -> Row] /\ now \in Nat
  BY NumbersAssumption DEF IInv, Typed
<1>2. /\ r \in InFlight /\ req[r].kind = "update" /\ req'[r].pc = "done" /\ req[r].pc = "found"
      /\ req[r] \in Session
  BY <1>1, FinishedStep DEF UpdateDuration, Commits, At, InFlight, Typed
<1>3. req[r].keys = {TheKey(r)} /\ Image(r)[TheKey(r)] \in Row
  BY <1>2, OneKey
<1>4. k = TheKey(r)
  BY <1>1 DEF UpdateDuration, Commits
<1> DEFINE image == Image(r)[k]
           from == IF image.expires # NoTime /\ image.expires > now THEN image.created ELSE now
<1>5. from + req[r].number \in Nat
  BY <1>1, <1>2, <1>3, <1>4 DEF Session, Row
<1>6. row'[k].expires = from + req[r].number
  BY <1>1, <1>4 DEF UpdateDuration, Commits, Row
<1> QED
  BY <1>2, <1>3, <1>4, <1>5, <1>6

LEMMA ActivateHours ==
    ASSUME IInv, NEW r \in Requests, Activate(r), NEW k \in Keys,
           row'[k].expires # row[k].expires
    PROVE  /\ r \in InFlight /\ req[r].kind = "connect" /\ Image(r)[k].armed
           /\ req'[r].pc # req[r].pc /\ k \in req[r].keys /\ row'[k].expires # NoTime
<1>1. row \in [Keys -> Row] /\ req[r].pc = "live" /\ r \in InFlight /\ req[r].kind = "connect"
  BY DEF IInv, Typed, Activate, InFlight, SessionsInOrder, InOrder
<1>2. k = TheKey(r)
  BY <1>1 DEF Activate
<1>3. req[r].keys = {TheKey(r)}
  BY <1>1, OneKey
<1> QED
  BY <1>1, <1>2, <1>3, Activated DEF Activate

LEMMA HoursKeptStep ==
    ASSUME IInv, Step, NEW k \in Keys, Shortened(k)
    PROVE  \/ row[k].armed /\ ~row'[k].armed
           \/ \E r \in InFlight :
                 /\ k \in req[r].keys /\ req'[r].pc # req[r].pc
                 /\ \/ req[r].kind = "update"
                    \/ req[r].kind = "connect" /\ Image(r)[k].armed
                    \/ req[r].kind = "extend" /\ Image(r)[k].expires # row[k].expires
<1>1. Typed /\ row \in [Keys -> Row] /\ now \in Nat
  BY NumbersAssumption DEF IInv, Typed
<1>2. row'[k].expires # row[k].expires /\ row[k].expires # NoTime
  BY DEF Shortened
<1>3. PICK r \in Requests : CreateKey(r) \/ Extend(r) \/ UpdateDuration(r) \/ Activate(r)
  BY <1>2, Writers
<1>4. ~CreateKey(r)
  BY <1>2, CreateHours
<1>5. CASE Extend(r)
  <2>1. /\ r \in InFlight /\ req[r].kind = "extend" /\ req'[r].pc = "done" /\ k \in req[r].keys
        /\ row'[k].expires =
             (IF Image(r)[k].expires = NoTime THEN now ELSE Image(r)[k].expires) + req[r].number
        /\ row'[k].expires \in Nat /\ req[r].number \in Nat
    BY <1>2, <1>5, ExtendHours
  <2>2. Image(r)[k].expires # row[k].expires
    <3>1. SUFFICES ASSUME Image(r)[k].expires = row[k].expires PROVE FALSE
      OBVIOUS
    <3>2. row'[k].expires = row[k].expires + req[r].number /\ row[k].expires \in Nat
      BY <1>1, <1>2, <2>1, <3>1 DEF Row, Times
    <3> QED
      BY <2>1, <3>2, NumbersAssumption DEF Shortened
  <2>3. req[r].pc # "done"
    BY <2>1 DEF InFlight
  <2> QED
    BY <2>1, <2>2, <2>3
<1>6. CASE UpdateDuration(r)
  <2>1. r \in InFlight /\ req[r].kind = "update" /\ req'[r].pc = "done" /\ k \in req[r].keys
    BY <1>2, <1>6, UpdateHours
  <2> QED
    BY <2>1 DEF InFlight
<1>7. CASE Activate(r)
  BY <1>2, <1>7, ActivateHours
<1> QED
  BY <1>3, <1>4, <1>5, <1>6, <1>7

\* The expiry of a key moves to an earlier hour only when an armed key is activated,
\* when a duration is set, or when an extension is written from a stale image.
THEOREM HoursAreKept == Spec => HoursKept
<1>1. IInv /\ [Next]_vars =>
        [\A k \in Keys : Shortened(k) =>
            \/ row[k].armed /\ ~row'[k].armed
            \/ \E r \in InFlight :
                  /\ k \in req[r].keys /\ req'[r].pc # req[r].pc
                  /\ \/ req[r].kind = "update"
                     \/ req[r].kind = "connect" /\ Image(r)[k].armed
                     \/ req[r].kind = "extend" /\ Image(r)[k].expires # row[k].expires]_vars
  BY HoursKeptStep DEF Next
<1> QED
  BY <1>1, LifecycleInvariant, PTL DEF Spec, HoursKept

\* Hours may become more or less, and never go.
LEMMA TimedStays ==
    ASSUME IInv, Step, NEW k \in Keys, row[k].expires # NoTime
    PROVE  row'[k].expires # NoTime
<1> SUFFICES ASSUME row'[k].expires # row[k].expires
             PROVE  row'[k].expires # NoTime
  OBVIOUS
<1>1. PICK r \in Requests : CreateKey(r) \/ Extend(r) \/ UpdateDuration(r) \/ Activate(r)
  BY Writers
<1>2. ~CreateKey(r)
  BY CreateHours
<1>3. row'[k].expires \in Nat => row'[k].expires # NoTime
  BY NumbersAssumption
<1> QED
  BY <1>1, <1>2, <1>3, ExtendHours, UpdateHours, ActivateHours

-----------------------------------------------------------------------------
(* What a client is served.                                                *)

\* A connect that holds a usable key, or goes on, was noted; and the key of one
\* that goes on has hours, in its row and in its image.
Noted(r) ==
    LET q == req[r] IN
    r \in InFlight /\ q.kind = "connect" =>
        /\ q.pc = "found" => \A k \in q.keys : Usable(q.image[k]) => r \in usable
        /\ q.pc \in {"live", "admitted"} => r \in usable
        /\ \A k \in Keys : q.image[k] # NoRow /\ q.image[k].expires # NoTime =>
               row[k].expires # NoTime
        /\ q.pc = "admitted" => \A k \in q.keys :
               row[k].expires # NoTime /\ (q.image[k] # NoRow => q.image[k].expires # NoTime)

AllNoted == usable \in SUBSET Requests /\ \A r \in Requests : Noted(r)

\* The same session, whatever the hour.
SameSession(r) ==
    /\ r \in InFlight
    /\ req'[r].pc = req[r].pc /\ req'[r].kind = req[r].kind
    /\ req'[r].keys = req[r].keys /\ req'[r].image = req[r].image

\* A connect has just arrived and loaded its keys.
Arrived(r) ==
    /\ req'[r].pc = "found" /\ req'[r].image = Loaded(req'[r].keys)
    /\ row' = row /\ now' = now

\* A request that ends, and every other, is no connect under way.
LEMMA Ended ==
    ASSUME Typed, NEW s \in Requests, NEW answer \in Answers, req' = Finished(s, answer),
           NEW r \in Requests, r \in InFlight'
    PROVE  SameSession(r)
<1>1. s \notin InFlight' /\ Others(s)
  BY FinishedStep
<1> QED
  BY <1>1 DEF SameSession, Others, InFlight

\* How a connect under way comes about.
LEMMA ConnectSteps ==
    ASSUME IInv, Step, NEW r \in Requests, r \in InFlight', req'[r].kind = "connect"
    PROVE  \/ Arrived(r) \/ SameSession(r)
           \/ Reload(r) \/ Admit(r) \/ Proceed(r) \/ Activate(r)
<1>1. Typed /\ req \in [Requests -> Session]
  BY DEF IInv, Typed
<1>2. ASSUME Tick \/ Rest
      PROVE  SameSession(r)
  <2>1. CASE Tick
    <3>1. req'[r] = [req[r] EXCEPT !.late = r \in InFlight]
      BY <2>1 DEF Tick
    <3>2. /\ req'[r].pc = req[r].pc /\ req'[r].kind = req[r].kind
          /\ req'[r].keys = req[r].keys /\ req'[r].image = req[r].image
      BY <1>1, <3>1 DEF Session
    <3> QED
      BY <3>2 DEF SameSession, InFlight
  <2>2. CASE Rest
    BY <2>2 DEF Rest, SameSession, InFlight
  <2> QED
    BY <1>2, <2>1, <2>2
<1>3. ASSUME NEW s \in Requests, NEW kind \in scene, NEW ks \in TargetsOf(kind),
             NEW n \in NumbersOf(kind), NEW us \in UsersOf(kind), Arrive(s, kind, ks, n, us)
      PROVE  Arrived(r) \/ SameSession(r)
  <2>1. CASE s = r
    <3>1. req'[r].pc = "found" /\ req'[r].keys = ks /\ req'[r].image = Loaded(ks)
      BY <1>1, <1>3, <2>1 DEF Arrive, Session
    <3> QED
      BY <1>3, <3>1 DEF Arrive, Arrived
  <2>2. CASE s # r
    <3>1. req'[r] = req[r]
      BY <1>1, <1>3, <2>2 DEF Arrive
    <3> QED
      BY <3>1 DEF SameSession, InFlight
  <2> QED
    BY <2>1, <2>2
<1> SUFFICES ASSUME ~Arrived(r), ~SameSession(r)
             PROVE  Reload(r) \/ Admit(r) \/ Proceed(r) \/ Activate(r)
  OBVIOUS
<1>4. PICK s \in Requests : ChangeStatus(s) \/ ChangeKey(s) \/ Connect(s) \/ Fails(s)
  <2>1. ~\E s \in Requests : \E kind \in scene : \E ks \in TargetsOf(kind),
              n \in NumbersOf(kind), us \in UsersOf(kind) : Arrive(s, kind, ks, n, us)
    BY <1>3
  <2>2. ~Tick /\ ~Rest
    BY <1>2
  <2> QED
    BY <2>1, <2>2 DEF Step
<1>5. CASE Unchanged(s) \/ CommitStatus(s) \/ CommitRecount(s) \/ ChangeKey(s)
  <2>1. req' = Finished(s, "over")
    BY <1>5 DEF Unchanged, CommitStatus, CommitRecount, ChangeKey, CreateKey, MoveKey, DeleteKey,
                ResetKey, Extend, UpdateDuration, Commits
  <2> QED
    BY <1>1, <2>1, Ended
<1>6. CASE Refuse(s) \/ Serve(s) \/ Fails(s)
  <2>1. PICK answer \in {"inactive", "expired", "served", "failed"} : req' = Finished(s, answer)
    BY <1>6 DEF Refuse, Serve, Fails
  <2> QED
    BY <1>1, <2>1, Ended
<1>7. CASE FlushStatus(s) \/ AgentCommits(s) \/ Recount(s)
  <2>1. \A t \in Requests \ {s} : req'[t] = req[t]
    <3>1. CASE FlushStatus(s)
      BY <1>1, <3>1 DEF FlushStatus
    <3>2. CASE AgentCommits(s)
      BY <1>1, <3>2 DEF AgentCommits
    <3>3. CASE Recount(s)
      BY <1>1, <3>3 DEF Recount
    <3> QED
      BY <1>7, <3>1, <3>2, <3>3
  <2>2. req'[s].kind # "connect"
    <3>1. CASE FlushStatus(s)
      BY <1>1, <3>1 DEF FlushStatus, At, Session
    <3>2. CASE AgentCommits(s)
      <4>1. \E us : req' = [req EXCEPT ![s].pc = "recount", ![s].users = us]
        BY <3>2 DEF AgentCommits
      <4> QED
        BY <1>1, <3>2, <4>1 DEF AgentCommits, At, Session
    <3>3. CASE Recount(s)
      <4>1. req[s].kind \in {"agentPause", "agentResume"}
        BY <3>3 DEF Recount, IInv, SessionsInOrder, InOrder
      <4> QED
        BY <1>1, <3>3, <4>1 DEF Recount, Session
    <3> QED
      BY <1>7, <3>1, <3>2, <3>3
  <2> QED
    BY <2>1, <2>2 DEF SameSession, InFlight
<1>8. CASE Reload(s) \/ Admit(s) \/ Proceed(s) \/ Activate(s)
  <2>1. \A t \in Requests \ {s} : req'[t] = req[t]
    <3>1. CASE Reload(s)
      BY <1>1, <3>1 DEF Reload
    <3>2. CASE Admit(s) \/ Proceed(s)
      BY <1>1, <3>2 DEF Admit, Proceed, Goto
    <3>3. CASE Activate(s)
      BY <1>1, <3>3 DEF Activate
    <3> QED
      BY <1>8, <3>1, <3>2, <3>3
  <2> QED
    BY <1>8, <2>1 DEF SameSession, InFlight
<1> QED
  BY <1>4, <1>5, <1>6, <1>7, <1>8 DEF ChangeStatus, Connect

\* A connect with a key that is usable in the database, or one noted before, is noted.
LEMMA UsableNoted ==
    ASSUME Next, NEW r \in Requests, r \in InFlight', req'[r].kind = "connect",
           r \in usable \/ \E k \in req'[r].keys : Usable(row[k])'
    PROVE  r \in usable'
<1>1. usable' = {s \in Connecting' : s \in usable \/ s \in UsableNow'}
  BY DEF Next
<1>2. r \in Connecting'
  BY DEF Connecting
<1>3. (\E k \in req'[r].keys : Usable(row[k])') => r \in UsableNow'
  BY <1>2 DEF UsableNow
<1> QED
  BY <1>1, <1>2, <1>3

\* The key a connect goes on with, whose image may have been dropped.
LEMMA AdmittedKey ==
    ASSUME IInv, NEW r \in Requests, req[r].pc = "admitted"
    PROVE  /\ r \in InFlight /\ req[r].kind = "connect"
           /\ TheKey(r) \in Keys /\ req[r].keys = {TheKey(r)}
<1>1. r \in InFlight
  BY DEF InFlight
<1>2. req[r].kind = "connect"
  BY DEF IInv, SessionsInOrder, InOrder
<1>3. PICK k \in Keys : req[r].keys = {k}
  BY <1>2 DEF IInv, SessionsInOrder, InOrder
<1>4. TheKey(r) = k
  BY <1>3 DEF TheKey
<1> QED
  BY <1>1, <1>2, <1>3, <1>4

LEMMA NowGrows ==
    ASSUME Step, now \in Nat
    PROVE  now <= now'
<1>1. CASE Tick
  BY <1>1 DEF Tick
<1>2. CASE Rest
  BY <1>2 DEF Rest
<1>3. ASSUME NEW r \in Requests, NEW kind, NEW ks, NEW n, NEW us, Arrive(r, kind, ks, n, us)
      PROVE  now' = now
  BY <1>3 DEF Arrive
<1>4. ASSUME NEW r \in Requests, ChangeStatus(r) \/ ChangeKey(r) \/ Connect(r) \/ Fails(r)
      PROVE  now' = now
  <2>1. CASE ChangeStatus(r)
    BY <2>1 DEF ChangeStatus, Unchanged, FlushStatus, CommitStatus, AgentCommits, Recount,
                CommitRecount
  <2>2. CASE ChangeKey(r)
    BY <2>2 DEF ChangeKey, CreateKey, MoveKey, DeleteKey, ResetKey, Extend, UpdateDuration, Commits
  <2>3. CASE Connect(r) \/ Fails(r)
    BY <2>3 DEF Connect, Reload, Refuse, Admit, Activate, Proceed, Serve, Fails
  <2> QED
    BY <1>4, <2>1, <2>2, <2>3
<1>5. now' = now => now <= now'
  OBVIOUS
<1> QED
  BY <1>1, <1>2, <1>3, <1>4, <1>5 DEF Step

\* Every step keeps what is noted of a connect.
LEMMA NotedStep ==
    ASSUME IInv, AllNoted, Next, NEW r \in Requests
    PROVE  Noted(r)'
<1> SUFFICES ASSUME r \in InFlight', req'[r].kind = "connect"
             PROVE  Noted(r)'
  BY DEF Noted
<1>1. Step /\ IInv' /\ Noted(r) /\ Typed
  BY NextHolds DEF Next, AllNoted, IInv
<1>2. now \in Nat /\ now' \in Nat /\ req' \in [Requests -> Session]
  BY <1>1, NumbersAssumption DEF IInv, Typed
<1>3. \A k \in Keys : row[k].expires # NoTime => row'[k].expires # NoTime
  BY <1>1, TimedStays
<1>4. req'[r].keys \in SUBSET Keys
  BY <1>2 DEF Session
<1>5. CASE Arrived(r)
  <2>1. \A k \in req'[r].keys : req'[r].image[k] = row[k] /\ row' = row /\ now' = now
    BY <1>4, <1>5 DEF Arrived, Loaded
  <2>2. \A k \in Keys : req'[r].image[k] # NoRow => req'[r].image[k] = row'[k]
    BY <1>5 DEF Arrived, Loaded
  <2>3. ASSUME NEW k \in req'[r].keys, Usable(req[r].image[k])'
        PROVE  r \in usable'
    <3>1. Usable(row[k])'
      BY <2>1, <2>3 DEF Usable, Expired
    <3> QED
      BY <3>1, UsableNoted
  <2> QED
    BY <1>5, <2>2, <2>3 DEF Noted, Arrived
<1>6. CASE SameSession(r)
  <2>1. r \in usable => r \in usable'
    BY UsableNoted
  <2>2. ASSUME NEW k \in req[r].keys, Usable(req[r].image[k])', req[r].pc = "found"
        PROVE  r \in usable'
    <3>1. req[r].image[k] \in Row
      BY <1>1, <1>6, <2>2, Images DEF SameSession, Image
    <3>2. now <= now'
      BY <1>1, <1>2, NowGrows
    <3>3. Usable(req[r].image[k])
      BY <1>2, <1>6, <2>2, <3>1, <3>2 DEF SameSession, Usable, Expired, Row, Times
    <3> QED
      BY <1>1, <1>6, <2>1, <2>2, <3>3 DEF Noted, SameSession
  <2> QED
    BY <1>1, <1>3, <1>4, <1>6, <2>1, <2>2 DEF Noted, SameSession
<1>7. CASE Reload(r)
  <2>1. /\ row' = row /\ now' = now /\ req[r] \in Session /\ r \in InFlight
        /\ req[r].pc \in {"found", "admitted"} /\ req[r].kind = "connect"
        /\ req' = [req EXCEPT ![r].image = Loaded(req[r].keys)]
    BY <1>1, <1>7 DEF Reload, At, Typed, InFlight, IInv, SessionsInOrder, InOrder
  <2>2. req'[r].pc = req[r].pc /\ req'[r].keys = req[r].keys /\ req'[r].image = Loaded(req[r].keys)
    BY <1>1, <2>1 DEF Typed, Session
  <2>3. \A k \in Keys : req'[r].image[k] # NoRow => req'[r].image[k] = row[k]
    BY <2>2 DEF Loaded
  <2>4. ASSUME NEW k \in req'[r].keys, Usable(req[r].image[k])'
        PROVE  r \in usable'
    <3>1. req'[r].image[k] = row[k]
      BY <1>4, <2>2 DEF Loaded
    <3>2. Usable(row[k])'
      BY <2>1, <2>4, <3>1 DEF Usable, Expired
    <3> QED
      BY <3>2, UsableNoted
  <2>5. r \in usable => r \in usable'
    BY UsableNoted
  <2> QED
    BY <1>1, <1>4, <2>1, <2>2, <2>3, <2>4, <2>5 DEF Noted
<1>8. CASE Admit(r)
  <2>1. /\ req[r].pc = "found" /\ req[r].kind = "connect" /\ Usable(Image(r)[TheKey(r)])
        /\ r \in InFlight /\ req'[r].pc = "live" /\ req'[r].image = req[r].image
    BY <1>8, GoesOn DEF Admit, At, InFlight
  <2>2. TheKey(r) \in req[r].keys
    BY <2>1, OneKey
  <2>3. r \in usable
    BY <1>1, <2>1, <2>2 DEF Noted, Image
  <2> QED
    BY <1>1, <1>3, <2>1, <2>3, UsableNoted DEF Noted
<1>9. CASE Proceed(r)
  <2>1. /\ req[r].pc = "live" /\ req[r].kind = "connect" /\ ~Image(r)[TheKey(r)].armed
        /\ r \in InFlight
    BY <1>9 DEF Proceed, InFlight, IInv, SessionsInOrder, InOrder
  <2>2. req'[r].pc = "admitted" /\ req'[r].image = req[r].image /\ req'[r].keys = req[r].keys
    BY <1>9, <2>1, GoesOn DEF Proceed
  <2>3. req[r].keys = {TheKey(r)} /\ TheKey(r) \in Keys /\ Image(r)[TheKey(r)].expires # NoTime
        /\ Image(r)[TheKey(r)] \in Row
    BY <2>1, OneKey DEF Bounded
  <2>4. Image(r)[TheKey(r)] # NoRow
    BY <2>3, NoRowAssumption
  <2>5. r \in usable /\ row[TheKey(r)].expires # NoTime
    BY <1>1, <2>1, <2>3, <2>4 DEF Noted, Image
  <2> QED
    BY <1>1, <1>3, <2>1, <2>2, <2>3, <2>5, UsableNoted DEF Noted, Image
<1>10. CASE Activate(r)
  <2>1. req[r].pc = "live" /\ req[r].kind = "connect" /\ r \in InFlight
    BY <1>10 DEF Activate, InFlight, IInv, SessionsInOrder, InOrder
  <2>2. /\ req'[r].pc = "admitted" /\ req'[r].keys = {TheKey(r)} /\ TheKey(r) \in Keys
        /\ \A k \in Keys : req'[r].image[k] = NoRow
        /\ row'[TheKey(r)].expires # NoTime
    BY <1>10, Activated
  <2>3. r \in usable
    BY <1>1, <2>1 DEF Noted
  <2> QED
    BY <2>2, <2>3, UsableNoted DEF Noted
<1> QED
  BY <1>1, <1>5, <1>6, <1>7, <1>8, <1>9, <1>10, ConnectSteps

LEMMA NotedInvariant == Spec => []AllNoted
<1>1. Init => AllNoted
  <2> SUFFICES ASSUME Init PROVE AllNoted
    OBVIOUS
  <2>1. \A r \in Requests : req[r] = Idle /\ Idle.pc = "idle"
    BY DEF Init, Idle
  <2> QED
    BY <2>1 DEF Init, AllNoted, Noted, InFlight
<1>2. IInv /\ AllNoted /\ [Next]_vars => AllNoted'
  <2> SUFFICES ASSUME IInv, AllNoted, [Next]_vars PROVE AllNoted'
    OBVIOUS
  <2>1. CASE Next
    <3>1. usable' \in SUBSET Requests
      BY <2>1 DEF Next, Connecting, InFlight
    <3> QED
      BY <2>1, <3>1, NotedStep DEF AllNoted
  <2>2. CASE UNCHANGED vars
    BY <2>2 DEF vars, AllNoted, Noted, InFlight, Usable, Expired
  <2> QED
    BY <2>1, <2>2
<1> QED
  BY <1>1, <1>2, LifecycleInvariant, PTL DEF Spec

\* Every variable keeps its type; a session holds images of the keys it is about.
THEOREM LifecycleTyped == Spec => []TypeOK
<1>1. IInv /\ AllNoted => TypeOK
  BY DEF IInv, AllNoted, TypeOK
<1> QED
  BY <1>1, LifecycleInvariant, NotedInvariant, PTL

\* Only one action answers that a client is served.
LEMMA ServedBy ==
    ASSUME IInv, Step, NEW r \in InFlight, req'[r].answer = "served"
    PROVE  Serve(r)
<1>1. Typed /\ r \in Requests /\ req \in [Requests -> Session] /\ req[r].answer = "none"
  BY DEF InFlight, IInv, Typed, SessionsInOrder, InOrder
<1>2. req' # req
  BY <1>1
<1>3. ~Tick
  <2>1. Tick => req'[r] = [req[r] EXCEPT !.late = r \in InFlight]
    BY <1>1 DEF Tick
  <2> QED
    BY <1>1, <2>1 DEF Session
<1>4. PICK s \in Requests :
          \/ \E kind \in scene : \E ks \in TargetsOf(kind), n \in NumbersOf(kind),
                                  us \in UsersOf(kind) : Arrive(s, kind, ks, n, us)
          \/ ChangeStatus(s) \/ ChangeKey(s) \/ Connect(s) \/ Fails(s)
  BY <1>2, <1>3 DEF Step, Rest
<1>5. ASSUME NEW answer \in Answers, req' = Finished(s, answer)
      PROVE  s = r /\ answer = "served"
  BY <1>1, <1>5, FinishedStep DEF Others
<1>6. ~\E kind \in scene : \E ks \in TargetsOf(kind), n \in NumbersOf(kind),
                                  us \in UsersOf(kind) : Arrive(s, kind, ks, n, us)
  <2> SUFFICES ASSUME NEW kind \in scene, NEW ks \in TargetsOf(kind), NEW n \in NumbersOf(kind),
                      NEW us \in UsersOf(kind), Arrive(s, kind, ks, n, us)
               PROVE  FALSE
    OBVIOUS
  <2>1. req'[r].answer = req[r].answer
    BY <1>1 DEF Arrive, Session
  <2> QED
    BY <1>1, <2>1
<1>7. ~(FlushStatus(s) \/ AgentCommits(s) \/ Recount(s) \/ Reload(s) \/ Admit(s)
        \/ Proceed(s) \/ Activate(s))
  <2> SUFFICES ASSUME FlushStatus(s) \/ AgentCommits(s) \/ Recount(s) \/ Reload(s) \/ Admit(s)
                      \/ Proceed(s) \/ Activate(s)
               PROVE  FALSE
    OBVIOUS
  <2>1. req'[r].answer = req[r].answer
    <3>1. CASE FlushStatus(s)
      <4>1. PICK reread \in SUBSET Counters :
              req' = [req EXCEPT ![s].pc = "counted",
                                 ![s].counts = [c \in Counters |->
                                     IF c \in reread THEN active[c] ELSE @[c]]]
        BY <3>1 DEF FlushStatus
      <4>2. CASE s # r
        BY <1>1, <4>1, <4>2
      <4>3. CASE s = r
        BY <1>1, <4>1, <4>3 DEF Session
      <4> QED
        BY <4>2, <4>3
    <3>2. CASE AgentCommits(s)
      <4>1. \E us : req' = [req EXCEPT ![s].pc = "recount", ![s].users = us]
        BY <3>2 DEF AgentCommits
      <4> QED
        BY <1>1, <4>1 DEF Session
    <3>3. CASE Recount(s)
      BY <1>1, <3>3 DEF Recount, Session
    <3>4. CASE Reload(s)
      <4>1. \E image : req' = [req EXCEPT ![s].image = image]
        BY <3>4 DEF Reload
      <4> QED
        BY <1>1, <4>1 DEF Session
    <3>5. CASE Admit(s) \/ Proceed(s)
      <4>1. \E pc : req' = [req EXCEPT ![s].pc = pc]
        BY <3>5 DEF Admit, Proceed, Goto
      <4> QED
        BY <1>1, <4>1 DEF Session
    <3>6. CASE Activate(s)
      <4>1. \E image : req' = [req EXCEPT ![s].pc = "admitted", ![s].image = image]
        BY <3>6 DEF Activate
      <4> QED
        BY <1>1, <4>1 DEF Session
    <3> QED
      BY <3>1, <3>2, <3>3, <3>4, <3>5, <3>6
  <2> QED
    BY <1>1, <2>1
<1>8. ~(Unchanged(s) \/ CommitStatus(s) \/ CommitRecount(s) \/ ChangeKey(s))
  <2>1. Unchanged(s) \/ CommitStatus(s) \/ CommitRecount(s) \/ ChangeKey(s)
        => req' = Finished(s, "over")
    BY DEF Unchanged, CommitStatus, CommitRecount, ChangeKey, CreateKey, MoveKey, DeleteKey,
           ResetKey, Extend, UpdateDuration, Commits
  <2> QED
    BY <1>5, <2>1
<1>9. ~Fails(s) /\ ~Refuse(s)
  <2>1. Fails(s) \/ Refuse(s) =>
          \E answer \in {"failed", "inactive", "expired"} : req' = Finished(s, answer)
    BY DEF Fails, Refuse
  <2> QED
    BY <1>5, <2>1
<1>10. CASE Serve(s)
  BY <1>5, <1>10 DEF Serve
<1> QED
  BY <1>4, <1>6, <1>7, <1>8, <1>9, <1>10 DEF ChangeStatus, Connect

LEMMA ServedStep ==
    ASSUME IInv, AllNoted, Step, NEW r \in InFlight, req'[r].answer = "served"
    PROVE  LET ends == Image(r)[TheKey(r)].expires IN
           /\ r \in usable
           /\ ends # NoTime /\ ends <= now + Duration + granted[TheKey(r)]
<1>1. r \in Requests /\ Serve(r) /\ Noted(r)
  BY ServedBy DEF InFlight, AllNoted
<1>2. req[r].pc = "admitted" /\ Image(r)[TheKey(r)] # NoRow
  BY <1>1 DEF Serve
<1>3. req[r].kind = "connect" /\ TheKey(r) \in Keys /\ req[r].keys = {TheKey(r)}
  BY <1>1, <1>2, AdmittedKey
<1>4. r \in usable /\ Image(r)[TheKey(r)].expires # NoTime
  BY <1>1, <1>2, <1>3 DEF Noted, Image
<1> QED
  BY <1>1, <1>2, <1>3, <1>4 DEF IInv, ImagesBounded, Bounded

\* A client is served only with a key that was active and not expired in the database
\* at a moment of its request, and with a token that ends no later than the hours its
\* key was given.
THEOREM ServedIsUsable == Spec => ServedWasUsable
<1>1. IInv /\ AllNoted /\ [Next]_vars =>
        [\A r \in InFlight : req'[r].answer = "served" =>
            LET ends == Image(r)[TheKey(r)].expires IN
            /\ r \in usable
            /\ ends # NoTime /\ ends <= now + Duration + granted[TheKey(r)]]_vars
  BY ServedStep DEF Next
<1> QED
  BY <1>1, LifecycleInvariant, NotedInvariant, PTL DEF Spec, ServedWasUsable
=============================================================================
