--------------------------- MODULE FileStoreProofs ---------------------------
(***************************************************************************)
(* Proofs about FileStore, for any number of requests, threads, seconds    *)
(* and faults, any names and any way to make them safe, and files of any   *)
(* number of chunks.                                                       *)
(***************************************************************************)
EXTENDS FileStore, TotalsProofs, FiniteSetTheorems, TLAPS

-----------------------------------------------------------------------------
(* The inductive invariant.                                                *)

Before == {"new", "beginning", "sending", "finding", "checking", "replacing", "deleting",
           "saving", "assembling"}
Holding == {"validating", "hashing", "storing", "stored"}
Pathed == {"writing"} \cup Holding
Kinds == {"extra", "config", "chunked"}

\* What a request is and holds at each point of its handler.
InOrder(r) ==
    LET q == req[r] IN
    /\ q.pc \in Before => q.path = NoPath
    /\ q.pc \in Pathed => q.path \in Paths
    /\ q.pc \in {"storing", "stored"} => q.hash # Nobody
    /\ q.pc \in {"beginning", "sending", "assembling"} => q.kind = "chunked"
    /\ q.pc = "finding" => q.kind = "extra"
    /\ q.pc \in {"replacing", "deleting"} => q.victim \in Requests
    /\ q.pc \in {"saving", "writing"} => q.kind \in {"extra", "config"}
    /\ q.pc \in {"new", "beginning", "sending", "finding", "assembling"} => q.victim = Nobody
    /\ q.kind \in Kinds => q.name \in Names
    /\ q.victim # Nobody => q.kind \in {"extra", "delete"}
    /\ q.pc \in {"checking"} \cup Holding => q.kind \in Kinds

\* The path of a file tells which handler took it.
PathTells(r) ==
    LET q == req[r] IN
    q.path # NoPath =>
        /\ q.kind \in Kinds
        /\ q.kind = "extra" => q.path = <<"files", SafeName[q.name], 0>>
        /\ q.kind = "config" => \E t \in 0 .. Horizon : q.path = <<"configs", SafeName[q.name], t>>
        /\ q.kind = "chunked" => \E t \in 0 .. Horizon : q.path = <<"extra", SafeName[q.name], t>>

\* A row is of a request that stored it; what is replaced or deleted was a row.
RowInOrder(r) ==
    /\ r \in rows => req[r].pc \in {"stored", "done", "failed", "lost"} /\ Took(r)
    /\ req[r].victim # Nobody => Took(req[r].victim)

\* Requests that run at once have met, both of them, and stay so unless one is forgotten.
MetInOrder(r) ==
    /\ r \notin req[r].met
    /\ \A s \in Running : r \in Running /\ r # s => s \in req[r].met
    /\ \A s \in req[r].met : s \in Running \/ Took(s) => r \in req[s].met
    /\ req[r].pc = "new" => req[r].met = {} /\ \A s \in Requests : r \notin req[s].met

RequestsInOrder ==
    \A r \in Requests : InOrder(r) /\ PathTells(r) /\ RowInOrder(r) /\ MetInOrder(r)

\* The metadata of an upload whose writes succeeded.
UploadInOrder(r) ==
    LET u == upload[r] IN
    /\ req[r].pc \in {"new", "beginning"} => u = NoUpload
    /\ req[r].pc = "sending" => u.acked < Chunks
    /\ req[r].pc = "assembling" \/ (req[r].pc = "checking" /\ req[r].kind = "chunked")
       => u.acked = Chunks
    /\ /\ req[r].pc \in {"sending", "checking", "assembling"} /\ req[r].kind = "chunked"
       /\ ~u.unwritten
       => u.file = 1 .. u.acked /\ u.redis \in {u.file, Lost}
    /\ req[r].pc = "missing" => u.unwritten

UploadsInOrder == \A r \in Requests : UploadInOrder(r)

Named(r, name) == req[r].kind = "extra" /\ req[r].name = name

\* Two rows of one name come of an overlap, or of a chunked upload.
TwinRows == \A r, s \in rows : \A n \in Names :
                r # s /\ Named(r, n) /\ Named(s, n) => Ambiguous(n)

\* An extra upload has found the rows of its name that were there before it.
Looked(s) ==
    req[s].kind = "extra" /\ req[s].pc \in {"checking", "replacing", "deleting", "saving"} \cup Pathed
    => \A r \in rows \ req[s].met :
          r # s /\ Named(r, req[s].name) => req[s].victim = r \/ Ambiguous(req[s].name)

\* The rows that share a path with the one chosen for replacement were overwritten.
Chosen(s) ==
    req[s].pc \in {"checking", "replacing"} /\ req[s].victim # Nobody
    => \A r \in rows \ req[s].met :
          r # req[s].victim /\ req[r].path = req[req[s].victim].path => Overwrites(req[s].victim, r)

Excused(r) == \E s \in Requests : HalfDeleted(s, r) \/ Overwrites(s, r) \/ RemovesToo(s, r)

\* A file that is or may be a row's.
Live(r) == req[r].pc \in Holding \/ (r \in rows /\ ~(req[r].kind = "chunked" /\ At(r, "failed")))

\* The path of a request that runs is not another's, unless one was overwritten.
Apart(s) == req[s].pc \in Pathed =>
                \A r \in Requests : r # s /\ Live(r) /\ req[r].path = req[s].path => Excused(r)

Kept(r) ==
    /\ Live(r) => Excused(r) \/ disk[req[r].path] = r
    /\ Live(r) /\ req[r].pc \notin {"validating", "hashing"} => Excused(r) \/ req[r].hash = r

FilesInOrder ==
    /\ TwinRows
    /\ \A r \in Requests : Looked(r) /\ Chosen(r) /\ Apart(r) /\ Kept(r)

IInv == TypeOK /\ RequestsInOrder /\ UploadsInOrder /\ FilesInOrder

\* The rows whose requests ran alone and asked for the room that their files take.
UnmetRows == {r \in rows : req[r].met = {} /\ req[r].claim >= req[r].size}

Sizes == [r \in rows |-> req[r].size]
UnmetSizes == [r \in UnmetRows |-> req[r].size]

\* An upload that runs alone still finds the row it replaces, and the room it was
\* promised.
Uploading == {"checking", "replacing", "deleting", "saving", "writing", "assembling", "validating", "hashing",
              "storing"}

RoomFor(s) ==
    req[s].met = {} /\ req[s].kind \in Kinds /\ req[s].pc \in Uploading =>
        /\ req[s].victim # Nobody => req[s].victim \in rows
        /\ req[s].pc # "checking" => HasRoom(req[s])

RoomInOrder ==
    /\ IsFiniteSet(rows)
    /\ Limit = 0 \/ Total(UnmetSizes) <= Limit
    /\ \A s \in Requests : RoomFor(s)

-----------------------------------------------------------------------------
(* What the operators of the model are and do.                             *)

\* Where no file is, is no path.
LEMMA NoPathIsNone == NoPath \notin Paths
BY DEF NoPath, Paths

\* The paths of the three handlers, and how they differ.
LEMMA PathsApart ==
    \A n, m \in Names : \A t, u \in 0 .. Horizon :
        /\ <<"files", n, 0>> \in Paths /\ <<"configs", n, t>> \in Paths /\ <<"extra", n, t>> \in Paths
        /\ <<"files", n, 0>> # <<"configs", m, t>> /\ <<"files", n, 0>> # <<"extra", m, t>>
        /\ <<"configs", n, t>> # <<"extra", m, u>>
BY DEF Paths

Struck == {"read", "redis", "file", "remove", "write", "commit", "cut"}

\* What fails is counted, and is no more than MaxFaults.
LEMMA Striking ==
    ASSUME TypeOK, NEW struck \in SUBSET Struck, Strikes(struck)
    PROVE  faults' \in 0 .. MaxFaults
<1>1. IsFiniteSet(Struck)
  <2>1. IsFiniteSet({"read"}) /\ IsFiniteSet({"redis"}) /\ IsFiniteSet({"file"})
        /\ IsFiniteSet({"remove"}) /\ IsFiniteSet({"write"}) /\ IsFiniteSet({"commit"}) /\ IsFiniteSet({"cut"})
    BY FS_Singleton
  <2>2. IsFiniteSet({"read"} \cup {"redis"}) /\ IsFiniteSet({"file"} \cup {"remove"})
        /\ IsFiniteSet({"write"} \cup {"commit"})
    BY <2>1, FS_Union
  <2>3. IsFiniteSet(({"read"} \cup {"redis"}) \cup ({"file"} \cup {"remove"}))
    BY <2>2, FS_Union
  <2>4. IsFiniteSet(({"write"} \cup {"commit"}) \cup {"cut"})
    BY <2>1, <2>2, FS_Union
  <2>a. IsFiniteSet((({"read"} \cup {"redis"}) \cup ({"file"} \cup {"remove"}))
                    \cup (({"write"} \cup {"commit"}) \cup {"cut"}))
    BY <2>3, <2>4, FS_Union
  <2>5. Struck = (({"read"} \cup {"redis"}) \cup ({"file"} \cup {"remove"}))
                 \cup (({"write"} \cup {"commit"}) \cup {"cut"})
    BY DEF Struck
  <2> QED
    BY <2>a, <2>5
<1>2. Cardinality(struck) \in Nat
  BY <1>1, FS_Subset, FS_CardinalityType
<1> QED
  BY <1>2, BoundsAssumption DEF TypeOK, Strikes

\* A request that was not asked yet, or that is forgotten.
LEMMA UnaskedTyped ==
    ASSUME NEW pc \in Steps
    PROVE  LET q == [Unasked EXCEPT !.pc = pc] IN
           /\ q \in Request /\ q.pc = pc /\ q.kind = "none" /\ q.path = NoPath
           /\ q.victim = Nobody /\ q.hash = Nobody /\ q.met = {}
BY DEF Unasked, Request

\* Only one request moves.
Others(r) ==
    /\ req' \in [Requests -> Request]
    /\ \A s \in Requests \ {r} : req'[s] = req[s]

Keeps(r) ==
    /\ Others(r)
    /\ req'[r].kind = req[r].kind /\ req'[r].name = req[r].name
    /\ req'[r].size = req[r].size /\ req'[r].claim = req[r].claim /\ req'[r].met = req[r].met

SameData(r) ==
    req'[r].victim = req[r].victim /\ req'[r].path = req[r].path /\ req'[r].hash = req[r].hash

SameFiles == rows' = rows /\ disk' = disk

LEMMA Going ==
    ASSUME TypeOK, NEW r \in Requests, NEW pc \in Steps, Goto(r, pc)
    PROVE  Keeps(r) /\ SameData(r) /\ req'[r].pc = pc
BY DEF TypeOK, Goto, Request, Keeps, Others, SameData

\* A record with a new place, and a new victim, path or hash.
LEMMA Amending ==
    ASSUME NEW q \in Request, NEW pc \in Steps
    PROVE  /\ \A v \in Requests \cup {Nobody} : /\ [q EXCEPT !.pc = pc, !.victim = v] \in Request
                                              /\ [q EXCEPT !.pc = pc, !.hash = v] \in Request
           /\ \A p \in Paths : [q EXCEPT !.pc = pc, !.path = p] \in Request
<1>1. ASSUME NEW v \in Requests \cup {Nobody}
      PROVE  [q EXCEPT !.pc = pc, !.victim = v] \in Request
  BY DEF Request
<1>2. ASSUME NEW v \in Requests \cup {Nobody}
      PROVE  [q EXCEPT !.pc = pc, !.hash = v] \in Request
  BY DEF Request
<1>3. ASSUME NEW p \in Paths
      PROVE  [q EXCEPT !.pc = pc, !.path = p] \in Request
  BY DEF Request
<1> QED
  BY <1>1, <1>2, <1>3

\* The path of a request is set when its file is about to be written.
LEMMA Writing ==
    ASSUME TypeOK, NEW r \in Requests, NEW p \in Paths, NEW pc \in Steps,
           req' = [req EXCEPT ![r].pc = pc, ![r].path = p]
    PROVE  /\ Keeps(r) /\ req'[r].pc = pc /\ req'[r].path = p
           /\ req'[r].victim = req[r].victim /\ req'[r].hash = req[r].hash
<1> DEFINE q == [req[r] EXCEPT !.pc = pc, !.path = p]
<1>0. req[r] \in Request
  BY DEF TypeOK
<1>1. /\ q \in Request /\ q.pc = pc /\ q.path = p /\ q.victim = req[r].victim
      /\ q.hash = req[r].hash /\ q.kind = req[r].kind /\ q.name = req[r].name
      /\ q.size = req[r].size /\ q.claim = req[r].claim /\ q.met = req[r].met
  <2>1. q \in Request
    BY <1>0, Amending
  <2> QED
    BY <1>0, <2>1 DEF Request
<1>2. req' = [req EXCEPT ![r] = q]
  BY DEF TypeOK, Request
<1> HIDE DEF q
<1>3. req' \in [Requests -> Request] /\ req'[r] = q /\ \A s \in Requests \ {r} : req'[s] = req[s]
  <2>1. req \in [Requests -> Request] /\ q \in Request
    BY <1>1 DEF TypeOK
  <2> QED
    BY <1>2, <2>1
<1> QED
  BY <1>1, <1>3 DEF Keeps, Others

Forgets(r) ==
    /\ Others(r)
    /\ req'[r].path = NoPath /\ req'[r].victim = Nobody /\ req'[r].kind = "none"
    /\ req'[r].met = {} /\ req'[r].hash = Nobody

LEMMA Forgetting ==
    ASSUME TypeOK, NEW r \in Requests, NEW pc \in Steps, Ends(r, pc)
    PROVE  Forgets(r) /\ req'[r].pc = pc
<1> DEFINE q == [Unasked EXCEPT !.pc = pc]
<1>1. /\ q \in Request /\ q.pc = pc /\ q.kind = "none" /\ q.path = NoPath
      /\ q.victim = Nobody /\ q.hash = Nobody /\ q.met = {}
  BY UnaskedTyped
<1>2. req' = [req EXCEPT ![r] = q]
  BY DEF Ends
<1> HIDE DEF q
<1> QED
  BY <1>1, <1>2 DEF TypeOK, Forgets, Others

\* A request that runs, by where it is.
LEMMA RunningAre ==
    ASSUME TypeOK, NEW r \in Requests
    PROVE  r \in Running <=> req[r].pc \in (Before \ {"new"}) \cup Pathed
<1>1. req[r].pc \in Steps
  BY DEF TypeOK, Request
<1> QED
  BY <1>1 DEF Running, Over, Steps, Before, Pathed, Holding

-----------------------------------------------------------------------------
(* What the steps do, field by field.                                      *)

\* A request begins; those that run have met it.
Meets(s, r) ==
    /\ req'[s].pc = req[s].pc /\ req'[s].kind = req[s].kind /\ req'[s].name = req[s].name
    /\ req'[s].size = req[s].size /\ req'[s].claim = req[s].claim /\ SameData(s)
    /\ req'[s].met = IF s \in Running THEN req[s].met \cup {r} ELSE req[s].met

AskDoes(r) ==
    /\ req[r].pc = "new" /\ req' \in [Requests -> Request] /\ SameFiles
    /\ \A s \in Requests \ {r} : Meets(s, r)
    /\ req'[r].met = Running /\ req'[r].path = NoPath /\ req'[r].hash = Nobody
    /\ \/ /\ req'[r].kind \in Kinds /\ req'[r].name \in Names /\ req'[r].victim = Nobody
          /\ req'[r].pc = FirstStep(req'[r].kind)
       \/ /\ req'[r].kind = "delete" /\ req'[r].pc = "replacing" /\ req'[r].victim \in rows
    /\ upload' = upload

LEMMA BeginsEffect ==
    ASSUME TypeOK, NEW r \in Requests, NEW asked \in Request, Begins(r, asked)
    PROVE  /\ req[r].pc = "new" /\ req' \in [Requests -> Request] /\ SameFiles
           /\ \A s \in Requests \ {r} : Meets(s, r)
           /\ req'[r] = [asked EXCEPT !.met = Running]
           /\ upload' = upload /\ now' = now /\ faults' = faults
<1> DEFINE met == [asked EXCEPT !.met = Running]
           new(s) == [req[s] EXCEPT !.met = @ \cup {r}]
           next(s) == CASE s = r -> met [] s \in Running -> new(s) [] OTHER -> req[s]
<1>1. /\ req[r].pc = "new" /\ req' = [s \in Requests |-> next(s)]
      /\ SameFiles /\ upload' = upload /\ now' = now /\ faults' = faults
  BY DEF Begins, At, SameFiles
<1>2. Running \in SUBSET Requests
  BY DEF Running
<1>3. met \in Request
  BY <1>2 DEF Request
<1>4. ASSUME NEW s \in Requests
      PROVE  /\ new(s) \in Request /\ new(s).pc = req[s].pc /\ new(s).kind = req[s].kind
             /\ new(s).name = req[s].name /\ new(s).size = req[s].size /\ new(s).claim = req[s].claim
             /\ new(s).victim = req[s].victim /\ new(s).path = req[s].path
             /\ new(s).hash = req[s].hash /\ new(s).met = req[s].met \cup {r}
  <2>1. req[s] \in Request
    BY DEF TypeOK
  <2> QED
    BY <2>1 DEF Request
<1> HIDE DEF met, new
<1>5. \A s \in Requests : next(s) \in Request
  BY <1>3, <1>4 DEF TypeOK
<1>6. next(r) = met
  <2>1. r \notin Running
    BY <1>1 DEF Running
  <2> QED
    BY <2>1
<1>7. \A s \in Requests \ {r} : next(s) = IF s \in Running THEN new(s) ELSE req[s]
  OBVIOUS
<1> HIDE DEF next
<1>8. ASSUME NEW s \in Requests \ {r} PROVE Meets(s, r)
  <2>1. req'[s] = IF s \in Running THEN new(s) ELSE req[s]
    BY <1>1, <1>7
  <2>2. CASE s \in Running
    BY <1>4, <2>1, <2>2 DEF Meets, SameData
  <2>3. CASE s \notin Running
    BY <2>1, <2>3 DEF Meets, SameData
  <2> QED
    BY <2>2, <2>3
<1>9. req' \in [Requests -> Request]
  BY <1>1, <1>5
<1>10. req'[r] = met
  BY <1>1, <1>6
<1> QED
  BY <1>1, <1>8, <1>9, <1>10 DEF met

LEMMA AskUploadEffect ==
    ASSUME TypeOK, NEW r \in Requests, NEW u \in Uploads, AskUpload(r, u)
    PROVE  AskDoes(r) /\ now' = now /\ faults' = faults
<1> DEFINE asked == [Unasked EXCEPT !.pc = FirstStep(u.kind), !.kind = u.kind, !.name = u.name,
                                    !.title = u.title, !.size = u.size, !.claim = u.claim,
                                    !.valid = u.valid]
<1>1. /\ u.kind \in Kinds /\ u.name \in Names /\ u.title \in Names \cup {NoTitle}
      /\ u.size \in Nat /\ u.claim \in Nat /\ u.valid \in BOOLEAN
  BY UploadsAssumption DEF Kinds
<1>2. FirstStep(u.kind) \in Steps
  BY <1>1 DEF FirstStep, Kinds, Steps
<1>3. asked \in Request /\ asked.pc = FirstStep(u.kind) /\ asked.kind = u.kind
      /\ asked.name = u.name /\ asked.path = NoPath /\ asked.hash = Nobody /\ asked.victim = Nobody
  BY <1>1, <1>2 DEF Unasked, Request, Kinds
<1>4. Begins(r, asked)
  BY DEF AskUpload
<1> HIDE DEF asked
<1>5. /\ req[r].pc = "new" /\ req' \in [Requests -> Request] /\ SameFiles
      /\ \A s \in Requests \ {r} : Meets(s, r)
      /\ req'[r] = [asked EXCEPT !.met = Running]
      /\ upload' = upload /\ now' = now /\ faults' = faults
  BY <1>3, <1>4, BeginsEffect
<1>6. /\ req'[r].met = Running /\ req'[r].path = NoPath /\ req'[r].hash = Nobody
      /\ req'[r].kind = u.kind /\ req'[r].name = u.name /\ req'[r].victim = Nobody
      /\ req'[r].pc = FirstStep(u.kind)
  BY <1>3, <1>5 DEF Request
<1> HIDE DEF FirstStep
<1> QED
  BY <1>1, <1>5, <1>6 DEF AskDoes

LEMMA AskDeleteEffect ==
    ASSUME TypeOK, NEW r \in Requests, NEW v \in Requests, AskDelete(r, v)
    PROVE  AskDoes(r) /\ now' = now /\ faults' = faults
<1> DEFINE asked == [Unasked EXCEPT !.pc = "replacing", !.kind = "delete", !.victim = v]
<1>1. asked \in Request /\ asked.pc = "replacing" /\ asked.kind = "delete"
      /\ asked.path = NoPath /\ asked.hash = Nobody /\ asked.victim = v
  BY DEF Unasked, Request, Steps
<1>2. Begins(r, asked) /\ v \in rows
  BY DEF AskDelete
<1> HIDE DEF asked
<1>3. /\ req[r].pc = "new" /\ req' \in [Requests -> Request] /\ SameFiles
      /\ \A s \in Requests \ {r} : Meets(s, r)
      /\ req'[r] = [asked EXCEPT !.met = Running]
      /\ upload' = upload /\ now' = now /\ faults' = faults
  BY <1>1, <1>2, BeginsEffect
<1>4. /\ req'[r].met = Running /\ req'[r].path = NoPath /\ req'[r].hash = Nobody
      /\ req'[r].kind = "delete" /\ req'[r].victim = v /\ req'[r].pc = "replacing"
  BY <1>1, <1>3 DEF Request
<1> QED
  BY <1>2, <1>3, <1>4 DEF AskDoes

\* A request that has no file yet is forgotten.
ForgetDoes(r) ==
    /\ Forgets(r) /\ SameFiles
    /\ req[r].pc \in Before \ {"new", "deleting", "saving"}
    /\ req'[r].pc \in {"refused", "missing", "failed", "lost"}

\* A request goes on, and no file or row is touched.
GoDoes(r) ==
    /\ Keeps(r) /\ SameData(r) /\ SameFiles
    /\ \/ req[r].pc \in {"beginning", "sending"} /\ req[r].kind = "chunked"
          /\ req'[r].pc \in {"sending", "checking"}
       \/ req[r].pc = "checking" /\ req[r].kind = "chunked" /\ req'[r].pc = "assembling"
       \/ req[r].pc = "checking" /\ req[r].victim \in Requests /\ req'[r].pc = "replacing"
       \/ /\ req[r].pc = "checking" /\ req[r].kind # "chunked" /\ req[r].victim \notin Requests
          /\ req'[r].pc = "saving"
       \/ req[r].pc = "replacing" /\ req[r].kind # "delete" /\ req'[r].pc = "deleting"
       \/ req[r].pc = "deleting" /\ req[r].kind = "extra" /\ req'[r].pc = "saving"
       \/ req[r].pc = "validating" /\ req'[r].pc = "hashing"
       \/ /\ req[r].pc \in {"deleting", "saving", "assembling"} \cup Pathed
          /\ req'[r].pc = "lost"
       \/ req[r].pc = "stored" /\ req'[r].pc = "done"
       \/ /\ req[r].pc \in {"storing", "stored"} /\ req[r].kind # "chunked"
          /\ req'[r].pc = "failed"

\* What an extra upload replaces is looked up.
FindDoes(r) ==
    /\ Keeps(r) /\ SameFiles /\ req[r].pc = "finding" /\ req'[r].pc = "checking"
    /\ req'[r].path = req[r].path /\ req'[r].hash = req[r].hash
    /\ LET old == Replaceable(req[r]) IN
       IF old = {} THEN req'[r].victim = Nobody ELSE req'[r].victim \in old

\* Its file is removed.
RemoveDoes(r) ==
    /\ Keeps(r) /\ SameData(r) /\ rows' = rows
    /\ req[r].pc = "replacing" /\ req'[r].pc = "deleting"
    /\ disk' = [disk EXCEPT ![req[req[r].victim].path] = Nobody]

\* Its row is deleted.
DeleteDoes(r) ==
    /\ Keeps(r) /\ SameData(r) /\ disk' = disk
    /\ req[r].pc = "deleting" /\ req[r].kind = "delete" /\ req'[r].pc = "done"
    /\ rows' = rows \ {req[r].victim}

\* A path is taken and cleared, the file is written there, or the writing fails and
\* leaves what was there, nothing or a part of the file.
SaveDoes(r) ==
    /\ Keeps(r) /\ rows' = rows
    /\ req[r].pc \in {"saving", "writing", "assembling"}
    /\ req'[r].pc \in {"writing", "validating", "failed"}
    /\ req'[r].pc = "writing" => req[r].pc = "saving"
    /\ req'[r].victim = req[r].victim /\ req'[r].hash = req[r].hash
    /\ req'[r].path \in Paths /\ (req[r].pc = "writing" => req'[r].path = req[r].path)
    /\ \E w \in {disk[req'[r].path], Nobody, r} : disk' = [disk EXCEPT ![req'[r].path] = w]
    /\ req'[r].pc = "validating" => disk' = [disk EXCEPT ![req'[r].path] = r]
    /\ req[r].kind \in Kinds
    /\ req[r].kind = "extra" => req'[r].path = <<"files", SafeName[req[r].name], 0>>
    /\ req[r].kind = "config" =>
          \E t \in 0 .. Horizon : req'[r].path = <<"configs", SafeName[req[r].name], t>>
    /\ req[r].kind = "chunked" =>
          \E t \in 0 .. Horizon : req'[r].path = <<"extra", SafeName[req[r].name], t>>

\* A file is removed by the upload that wrote it.
UnsaveDoes(r) ==
    /\ Keeps(r) /\ SameData(r) /\ rows' = rows
    /\ disk' = [disk EXCEPT ![req[r].path] = Nobody]
    /\ \/ req[r].pc = "validating" /\ req'[r].pc = "refused"
       \/ req[r].pc \in {"storing", "stored"} /\ req[r].kind = "chunked" /\ req'[r].pc = "failed"

\* A file is hashed, or is not there to be.
HashDoes(r) ==
    /\ Keeps(r) /\ SameFiles /\ req[r].pc = "hashing"
    /\ req'[r].victim = req[r].victim /\ req'[r].path = req[r].path
    /\ req'[r].hash = disk[req[r].path]
    /\ req'[r].pc = IF disk[req[r].path] = Nobody THEN "failed" ELSE "storing"

\* The row is stored, in the place of the one it replaces.
StoreDoes(r) ==
    /\ Keeps(r) /\ SameData(r) /\ disk' = disk
    /\ req[r].pc = "storing" /\ req'[r].pc = "stored"
    /\ rows' = (rows \ {req[r].victim}) \cup {r}

StepDoes(r) ==
    \/ AskDoes(r) \/ ForgetDoes(r) \/ GoDoes(r) \/ FindDoes(r) \/ RemoveDoes(r) \/ DeleteDoes(r)
    \/ SaveDoes(r) \/ UnsaveDoes(r) \/ HashDoes(r) \/ StoreDoes(r)
    \/ req' = req /\ SameFiles

Counts == now' \in 0 .. Horizon /\ faults' \in 0 .. MaxFaults

\* The parts of the invariant that tell what a request may do.
LEMMA Ordered ==
    ASSUME IInv, NEW r \in Requests
    PROVE  TypeOK /\ InOrder(r) /\ PathTells(r) /\ RowInOrder(r) /\ MetInOrder(r) /\ UploadInOrder(r)
BY DEF IInv, RequestsInOrder, UploadsInOrder

LEMMA ChunkEffect ==
    ASSUME IInv, NEW r \in Requests, Chunked(r)
    PROVE  GoDoes(r) /\ Counts
<1>1. TypeOK /\ InOrder(r)
  BY Ordered
<1>2. PICK struck \in SUBSET {"read", "redis", "file"} :
        BeginUpload(r, struck) \/ SaveChunk(r, struck)
  BY DEF Chunked
<1>3. struck \in SUBSET Struck /\ Strikes(struck) /\ now' = now
  BY <1>2 DEF BeginUpload, SaveChunk, Struck
<1>4. Counts
  BY <1>1, <1>3, Striking DEF Counts, TypeOK
<1>5. /\ req[r].pc \in {"beginning", "sending"} /\ req[r].kind = "chunked"
      /\ \E pc \in {"sending", "checking"} : Goto(r, pc)
      /\ SameFiles
  BY <1>1, <1>2 DEF BeginUpload, SaveChunk, InOrder, At, SameFiles
<1>6. PICK pc \in {"sending", "checking"} : Goto(r, pc)
  BY <1>5
<1>7. Keeps(r) /\ SameData(r) /\ req'[r].pc = pc
  BY <1>1, <1>6, Going DEF Steps
<1>8. GoDoes(r)
  BY <1>5, <1>6, <1>7 DEF GoDoes
<1> QED
  BY <1>4, <1>8

\* Where a file goes is one of the paths.
LEMMA TargetIs ==
    ASSUME TypeOK, NEW r \in Requests, req[r].kind \in Kinds, req[r].name \in Names
    PROVE  /\ Target(r) \in Paths
           /\ req[r].kind = "extra" => Target(r) = <<"files", SafeName[req[r].name], 0>>
           /\ req[r].kind = "config" =>
                 \E t \in 0 .. Horizon : Target(r) = <<"configs", SafeName[req[r].name], t>>
           /\ req[r].kind = "chunked" =>
                 \E t \in 0 .. Horizon : Target(r) = <<"extra", SafeName[req[r].name], t>>
<1>1. SafeName[req[r].name] \in Names /\ now \in 0 .. Horizon
  BY NamesAssumption DEF TypeOK
<1>2. CASE req[r].kind = "extra"
  <2>1. Target(r) = <<"files", SafeName[req[r].name], 0>>
    BY <1>2 DEF Target
  <2> QED
    BY <1>1, <1>2, <2>1, PathsApart
<1>3. CASE req[r].kind = "config"
  <2>1. Target(r) = <<"configs", SafeName[req[r].name], now>>
    BY <1>3 DEF Target
  <2> QED
    BY <1>1, <1>3, <2>1, PathsApart
<1>4. CASE req[r].kind = "chunked"
  <2>1. Target(r) = <<"extra", SafeName[req[r].name], now>>
    BY <1>4 DEF Target
  <2> QED
    BY <1>1, <1>4, <2>1, PathsApart
<1> QED
  BY <1>2, <1>3, <1>4 DEF Kinds

\* What the disk may be when a path is taken or written to.
LEMMA DiskAfter ==
    ASSUME TypeOK, NEW p \in Paths, NEW r \in Requests,
           disk' \in {disk, Written(p, r), Removed(p)}
    PROVE  \E w \in {disk[p], Nobody, r} : disk' = [disk EXCEPT ![p] = w]
<1>1. disk = [disk EXCEPT ![p] = disk[p]]
  BY DEF TypeOK
<1> QED
  BY <1>1 DEF Written, Removed

\* A path is taken, and the file there may be written.
LEMMA TakesPath ==
    ASSUME IInv, NEW r \in Requests, NEW p, p = Target(r),
           NEW pc \in {"writing", "validating", "failed"},
           req[r].pc \in {"saving", "assembling"}, pc = "writing" => req[r].pc = "saving",
           rows' = rows, req' = [req EXCEPT ![r].pc = pc, ![r].path = p],
           disk' \in {disk, Written(p, r), Removed(p)},
           pc = "validating" => disk' = Written(p, r)
    PROVE  SaveDoes(r)
<1>1. TypeOK /\ InOrder(r)
  BY Ordered
<1>2. req[r].kind \in Kinds /\ req[r].name \in Names
  BY <1>1 DEF InOrder, Kinds
<1>3. /\ p \in Paths
      /\ req[r].kind = "extra" => p = <<"files", SafeName[req[r].name], 0>>
      /\ req[r].kind = "config" =>
            \E t \in 0 .. Horizon : p = <<"configs", SafeName[req[r].name], t>>
      /\ req[r].kind = "chunked" =>
            \E t \in 0 .. Horizon : p = <<"extra", SafeName[req[r].name], t>>
  BY <1>1, <1>2, TargetIs
<1>4. /\ Keeps(r) /\ req'[r].pc = pc /\ req'[r].path = p
      /\ req'[r].victim = req[r].victim /\ req'[r].hash = req[r].hash
  BY <1>1, <1>3, Writing DEF Steps, Over
<1>5. \E w \in {disk[p], Nobody, r} : disk' = [disk EXCEPT ![p] = w]
  BY <1>1, <1>3, DiskAfter
<1> QED
  BY <1>2, <1>3, <1>4, <1>5 DEF SaveDoes, Written

LEMMA FinalizeEffect ==
    ASSUME IInv, NEW r \in Requests, Finalize(r)
    PROVE  (ForgetDoes(r) \/ SaveDoes(r)) /\ Counts
<1>1. TypeOK /\ InOrder(r)
  BY Ordered
<1>2. PICK struck \in SUBSET {"read"} :
        \/ LoseUpload(r, struck) \/ RefuseIncomplete(r, struck)
        \/ Assemble(r, struck) \/ AssembleFails(r, struck)
  BY DEF Finalize
<1>3. /\ struck \in SUBSET Struck /\ struck \cup {"write"} \in SUBSET Struck
      /\ Strikes(struck) \/ Strikes(struck \cup {"write"})
      /\ now' = now
  BY <1>2 DEF LoseUpload, Assemble, AssembleFails, RefuseIncomplete, Struck
<1>4. Counts
  BY <1>1, <1>3, Striking DEF Counts, TypeOK
<1>5. CASE LoseUpload(r, struck) \/ RefuseIncomplete(r, struck)
  <2>1. Ends(r, "missing") /\ SameFiles /\ req[r].pc \in {"sending", "checking", "assembling"}
    BY <1>5 DEF LoseUpload, RefuseIncomplete, SameFiles, At
  <2>2. Forgets(r) /\ req'[r].pc = "missing"
    BY <1>1, <2>1, Forgetting DEF Steps, Over
  <2> QED
    BY <1>4, <2>1, <2>2 DEF ForgetDoes, Before
<1>6. CASE Assemble(r, struck)
  BY <1>4, <1>6, TakesPath DEF Assemble, At
<1>7. CASE AssembleFails(r, struck)
  BY <1>4, <1>7, TakesPath DEF AssembleFails, At
<1> QED
  BY <1>2, <1>5, <1>6, <1>7

LEMMA FindOldEffect ==
    ASSUME IInv, NEW r \in Requests, FindOld(r)
    PROVE  FindDoes(r) /\ Counts
<1>1. TypeOK
  BY Ordered
<1> DEFINE old == Replaceable(req[r])
<1>2. PICK v \in IF old = {} THEN {Nobody} ELSE old :
        req' = [req EXCEPT ![r].pc = "checking", ![r].victim = v]
  BY DEF FindOld
<1>3. v \in Requests \cup {Nobody}
  BY <1>1, <1>2 DEF Replaceable, ExtraRows, TypeOK
<1>4. req[r].pc = "finding" /\ SameFiles /\ now' = now /\ faults' = faults
  BY DEF FindOld, At, SameFiles
<1>5. (old = {} => v = Nobody) /\ (old # {} => v \in old)
  BY <1>2
<1> HIDE DEF old
<1> DEFINE q == [req[r] EXCEPT !.pc = "checking", !.victim = v]
<1>a. /\ q \in Request /\ q.pc = "checking" /\ q.victim = v /\ q.path = req[r].path
      /\ q.hash = req[r].hash /\ q.kind = req[r].kind /\ q.name = req[r].name
      /\ q.size = req[r].size /\ q.claim = req[r].claim /\ q.met = req[r].met
  <2>1. req[r] \in Request /\ "checking" \in Steps
    BY <1>1 DEF TypeOK, Steps
  <2>2. q \in Request
    BY <1>3, <2>1, Amending
  <2> QED
    BY <1>3, <2>1, <2>2 DEF Request
<1>b. req' = [req EXCEPT ![r] = q]
  BY <1>1, <1>2 DEF TypeOK, Request
<1> HIDE DEF q
<1>6. /\ Keeps(r) /\ req'[r].pc = "checking" /\ req'[r].victim = v
      /\ req'[r].path = req[r].path /\ req'[r].hash = req[r].hash
  BY <1>1, <1>a, <1>b DEF TypeOK, Keeps, Others
<1>7. FindDoes(r)
  BY <1>4, <1>5, <1>6 DEF FindDoes, old
<1> QED
  BY <1>1, <1>4, <1>7 DEF Counts, TypeOK

LEMMA LimitEffect ==
    ASSUME IInv, NEW r \in Requests, CheckLimit(r) \/ RefuseForRoom(r)
    PROVE  (GoDoes(r) \/ ForgetDoes(r)) /\ Counts
<1>1. TypeOK
  BY Ordered
<1>2. req[r].pc = "checking" /\ SameFiles /\ now' = now /\ faults' = faults
  BY DEF CheckLimit, RefuseForRoom, At, SameFiles
<1>3. CASE RefuseForRoom(r)
  <2>1. Forgets(r) /\ req'[r].pc = "refused"
    BY <1>1, <1>3, Forgetting DEF RefuseForRoom, Steps, Over
  <2> QED
    BY <1>1, <1>2, <2>1 DEF ForgetDoes, Before, Counts, TypeOK
<1>4. CASE CheckLimit(r) /\ req[r].kind = "chunked"
  <2>1. req[r].victim \notin Requests \/ Goto(r, "assembling") \/ Goto(r, "replacing")
    BY <1>4 DEF CheckLimit
  <2>2. req[r].victim = Nobody
    BY <1>1, <1>4, Ordered DEF InOrder
  <2>3. Goto(r, "assembling")
    BY <1>4, <2>2, NobodyAssumption DEF CheckLimit
  <2>4. Keeps(r) /\ SameData(r) /\ req'[r].pc = "assembling"
    BY <1>1, <2>3, Going DEF Steps
  <2> QED
    BY <1>1, <1>2, <1>4, <2>4 DEF GoDoes, Counts, TypeOK
<1>5. CASE CheckLimit(r) /\ req[r].kind # "chunked" /\ req[r].victim \in Requests
  <2>1. Goto(r, "replacing")
    BY <1>5 DEF CheckLimit
  <2>2. Keeps(r) /\ SameData(r) /\ req'[r].pc = "replacing"
    BY <1>1, <2>1, Going DEF Steps
  <2> QED
    BY <1>1, <1>2, <1>5, <2>2 DEF GoDoes, Counts, TypeOK
<1>6. CASE CheckLimit(r) /\ req[r].kind # "chunked" /\ req[r].victim \notin Requests
  <2>1. Goto(r, "saving")
    BY <1>6 DEF CheckLimit
  <2>2. Keeps(r) /\ SameData(r) /\ req'[r].pc = "saving"
    BY <1>1, <2>1, Going DEF Steps
  <2> QED
    BY <1>1, <1>2, <1>6, <2>2 DEF GoDoes, Counts, TypeOK
<1> QED
  BY <1>3, <1>4, <1>5, <1>6

LEMMA ReplaceEffect ==
    ASSUME IInv, NEW r \in Requests, RemoveOld(r) \/ RemoveOldFails(r)
    PROVE  (RemoveDoes(r) \/ GoDoes(r) \/ ForgetDoes(r)) /\ Counts
<1>1. TypeOK
  BY Ordered
<1>2. req[r].pc = "replacing" /\ rows' = rows /\ now' = now
  BY DEF RemoveOld, RemoveOldFails, At
<1>3. CASE RemoveOld(r)
  <2>1. Goto(r, "deleting") /\ disk' = [disk EXCEPT ![req[req[r].victim].path] = Nobody]
        /\ faults' = faults
    BY <1>3 DEF RemoveOld, Removed
  <2>2. Keeps(r) /\ SameData(r) /\ req'[r].pc = "deleting"
    BY <1>1, <2>1, Going DEF Steps
  <2> QED
    BY <1>1, <1>2, <2>1, <2>2 DEF RemoveDoes, Counts, TypeOK
<1>4. CASE RemoveOldFails(r)
  <2>1. {"remove"} \in SUBSET Struck /\ Strikes({"remove"}) /\ SameFiles
    BY <1>4 DEF RemoveOldFails, Struck, SameFiles
  <2>2. Counts
    BY <1>1, <1>2, <2>1, Striking DEF Counts, TypeOK
  <2>3. CASE req[r].kind = "delete"
    <3>1. Forgets(r) /\ req'[r].pc = "failed"
      BY <1>1, <1>4, <2>3, Forgetting DEF RemoveOldFails, Steps, Over
    <3> QED
      BY <1>2, <2>1, <2>2, <3>1 DEF ForgetDoes, Before
  <2>4. CASE req[r].kind # "delete"
    <3>1. Keeps(r) /\ SameData(r) /\ req'[r].pc = "deleting"
      BY <1>1, <1>4, <2>4, Going DEF RemoveOldFails, Steps
    <3> QED
      BY <1>2, <2>1, <2>2, <2>4, <3>1 DEF GoDoes
  <2> QED
    BY <2>3, <2>4
<1> QED
  BY <1>3, <1>4

LEMMA DeleteEffect ==
    ASSUME IInv, NEW r \in Requests, FlushDelete(r) \/ CommitDelete(r)
    PROVE  (GoDoes(r) \/ DeleteDoes(r)) /\ Counts
<1>1. TypeOK
  BY Ordered
<1>2. req[r].pc = "deleting" /\ disk' = disk /\ now' = now /\ faults' = faults
  BY DEF FlushDelete, CommitDelete, At
<1>3. CASE FlushDelete(r)
  <2>1. Goto(r, "saving") /\ req[r].kind = "extra" /\ SameFiles
    BY <1>3 DEF FlushDelete, SameFiles
  <2>2. Keeps(r) /\ SameData(r) /\ req'[r].pc = "saving"
    BY <1>1, <2>1, Going DEF Steps
  <2> QED
    BY <1>1, <1>2, <2>1, <2>2 DEF GoDoes, Counts, TypeOK
<1>4. CASE CommitDelete(r)
  <2>1. Goto(r, "done") /\ req[r].kind = "delete" /\ rows' = rows \ {req[r].victim}
    BY <1>4 DEF CommitDelete
  <2>2. Keeps(r) /\ SameData(r) /\ req'[r].pc = "done"
    BY <1>1, <2>1, Going DEF Steps, Over
  <2> QED
    BY <1>1, <1>2, <2>1, <2>2 DEF DeleteDoes, Counts, TypeOK
<1> QED
  BY <1>3, <1>4

LEMMA SaveEffect ==
    ASSUME IInv, NEW r \in Requests,
           ClearPath(r) \/ ClearPathFails(r) \/ SaveFile(r) \/ SaveFileFails(r)
    PROVE  SaveDoes(r) /\ Counts
<1>1. TypeOK /\ InOrder(r) /\ PathTells(r)
  BY Ordered
<1>2. Counts
  <2>1. CASE ClearPath(r) \/ SaveFile(r)
    BY <1>1, <2>1 DEF ClearPath, SaveFile, Counts, TypeOK
  <2>2. CASE ClearPathFails(r)
    <3>1. {"remove"} \in SUBSET Struck /\ Strikes({"remove"}) /\ now' = now
      BY <2>2 DEF ClearPathFails, Struck
    <3> QED
      BY <1>1, <3>1, Striking DEF Counts, TypeOK
  <2>3. CASE SaveFileFails(r)
    <3>1. {"write"} \in SUBSET Struck /\ Strikes({"write"}) /\ now' = now
      BY <2>3 DEF SaveFileFails, Struck
    <3> QED
      BY <1>1, <3>1, Striking DEF Counts, TypeOK
  <2> QED
    BY <2>1, <2>2, <2>3
<1>3. CASE ClearPath(r)
  BY <1>2, <1>3, TakesPath DEF ClearPath, At
<1>4. CASE ClearPathFails(r)
  BY <1>2, <1>4, TakesPath DEF ClearPathFails, At
<1>5. CASE SaveFile(r) \/ SaveFileFails(r)
  <2> DEFINE p == req[r].path
  <2>1. PICK pc \in {"validating", "failed"} :
          /\ Goto(r, pc) /\ req[r].pc = "writing" /\ rows' = rows
          /\ disk' \in {disk, Written(p, r)} /\ (pc = "validating" => disk' = Written(p, r))
    BY <1>5 DEF SaveFile, SaveFileFails, At
  <2>2. Keeps(r) /\ SameData(r) /\ req'[r].pc = pc
    BY <1>1, <2>1, Going DEF Steps, Over
  <2>3. /\ p \in Paths /\ req[r].kind \in {"extra", "config"} /\ req'[r].path = p
        /\ req[r].kind = "extra" => p = <<"files", SafeName[req[r].name], 0>>
        /\ req[r].kind = "config" =>
              \E t \in 0 .. Horizon : p = <<"configs", SafeName[req[r].name], t>>
    BY <1>1, <2>1, <2>2, NoPathIsNone DEF InOrder, Pathed, PathTells, SameData
  <2>4. \E w \in {disk[p], Nobody, r} : disk' = [disk EXCEPT ![p] = w]
    BY <1>1, <2>1, <2>3, DiskAfter
  <2> QED
    BY <1>2, <2>1, <2>2, <2>3, <2>4 DEF SaveDoes, SameData, Written, Kinds
<1> QED
  BY <1>3, <1>4, <1>5

LEMMA SignatureEffect ==
    ASSUME IInv, NEW r \in Requests, PassSignature(r) \/ RefuseSignature(r)
    PROVE  (GoDoes(r) \/ UnsaveDoes(r)) /\ Counts
<1>1. TypeOK
  BY Ordered
<1>2. req[r].pc = "validating" /\ rows' = rows /\ now' = now /\ faults' = faults
  BY DEF PassSignature, RefuseSignature, At
<1>3. CASE PassSignature(r)
  <2>1. Keeps(r) /\ SameData(r) /\ req'[r].pc = "hashing"
    BY <1>1, <1>3, Going DEF PassSignature, Steps
  <2> QED
    BY <1>1, <1>2, <1>3, <2>1 DEF PassSignature, GoDoes, Counts, TypeOK, SameFiles
<1>4. CASE RefuseSignature(r)
  <2>1. Goto(r, "refused") /\ disk' = [disk EXCEPT ![req[r].path] = Nobody]
    BY <1>4 DEF RefuseSignature, Removed
  <2>2. Keeps(r) /\ SameData(r) /\ req'[r].pc = "refused"
    BY <1>1, <2>1, Going DEF Steps, Over
  <2> QED
    BY <1>1, <1>2, <2>1, <2>2 DEF UnsaveDoes, Counts, TypeOK
<1> QED
  BY <1>3, <1>4

LEMMA HashEffect ==
    ASSUME IInv, NEW r \in Requests, HashFile(r)
    PROVE  HashDoes(r) /\ Counts
<1>1. TypeOK /\ InOrder(r)
  BY Ordered
<1> DEFINE writer == disk[req[r].path]
           pc == IF writer = Nobody THEN "failed" ELSE "storing"
           q == [req[r] EXCEPT !.pc = pc, !.hash = writer]
<1>2. /\ req[r].pc = "hashing" /\ SameFiles /\ now' = now /\ faults' = faults
      /\ req' = [req EXCEPT ![r].pc = pc, ![r].hash = writer]
  BY DEF HashFile, At, SameFiles
<1>3. writer \in Requests \cup {Nobody} /\ pc \in Steps
  BY <1>1, <1>2 DEF InOrder, Pathed, Holding, TypeOK, Steps, Over
<1> HIDE DEF writer, pc
<1>4. /\ q \in Request /\ q.pc = pc /\ q.hash = writer /\ q.victim = req[r].victim
      /\ q.path = req[r].path /\ q.kind = req[r].kind /\ q.name = req[r].name
      /\ q.size = req[r].size /\ q.claim = req[r].claim /\ q.met = req[r].met
  <2>1. req[r] \in Request
    BY <1>1 DEF TypeOK
  <2>2. q \in Request
    BY <1>3, <2>1, Amending
  <2> QED
    BY <1>3, <2>1, <2>2 DEF Request
<1>5. req' = [req EXCEPT ![r] = q]
  BY <1>1, <1>2 DEF TypeOK, Request
<1> HIDE DEF q
<1>6. /\ Keeps(r) /\ req'[r].pc = pc /\ req'[r].hash = writer
      /\ req'[r].victim = req[r].victim /\ req'[r].path = req[r].path
  BY <1>1, <1>4, <1>5 DEF TypeOK, Keeps, Others
<1>7. HashDoes(r)
  BY <1>2, <1>6 DEF HashDoes, pc, writer
<1> QED
  BY <1>1, <1>2, <1>7 DEF Counts, TypeOK

LEMMA StoreEffect ==
    ASSUME IInv, NEW r \in Requests, StoreRow(r) \/ Answer(r) \/ StoringFails(r)
    PROVE  (StoreDoes(r) \/ GoDoes(r) \/ UnsaveDoes(r)) /\ Counts
<1>1. TypeOK
  BY Ordered
<1>2. CASE StoreRow(r)
  <2>1. Keeps(r) /\ SameData(r) /\ req'[r].pc = "stored"
    BY <1>1, <1>2, Going DEF StoreRow, Steps
  <2> QED
    BY <1>1, <1>2, <2>1 DEF StoreRow, StoreDoes, Counts, TypeOK, At
<1>3. CASE Answer(r)
  <2>1. Keeps(r) /\ SameData(r) /\ req'[r].pc = "done"
    BY <1>1, <1>3, Going DEF Answer, Steps, Over
  <2> QED
    BY <1>1, <1>3, <2>1 DEF Answer, GoDoes, Counts, TypeOK, At, SameFiles
<1>4. CASE StoringFails(r)
  <2>1. {"commit"} \in SUBSET Struck /\ Strikes({"commit"}) /\ now' = now
    BY <1>4 DEF StoringFails, Struck
  <2>2. Counts
    BY <1>1, <2>1, Striking DEF Counts, TypeOK
  <2>3. Keeps(r) /\ SameData(r) /\ req'[r].pc = "failed"
    BY <1>1, <1>4, Going DEF StoringFails, Steps, Over
  <2>4. CASE req[r].kind = "chunked"
    BY <1>4, <2>2, <2>3, <2>4 DEF StoringFails, UnsaveDoes, Removed
  <2>5. CASE req[r].kind # "chunked"
    BY <1>4, <2>2, <2>3, <2>5 DEF StoringFails, GoDoes, SameFiles
  <2> QED
    BY <2>4, <2>5
<1> QED
  BY <1>2, <1>3, <1>4

LEMMA CutOffEffect ==
    ASSUME IInv, NEW r \in Requests, CutOff(r)
    PROVE  (GoDoes(r) \/ ForgetDoes(r)) /\ Counts
<1>1. TypeOK
  BY Ordered
<1>2. {"cut"} \in SUBSET Struck /\ Strikes({"cut"}) /\ SameFiles /\ now' = now
  BY DEF CutOff, Struck, SameFiles
<1>3. Counts
  BY <1>1, <1>2, Striking DEF Counts, TypeOK
<1>4. req[r].pc \in (Before \ {"new"}) \cup Pathed
  BY <1>1, RunningAre DEF CutOff
<1> DEFINE early == {"beginning", "sending", "finding", "checking", "replacing"}
<1>5. CASE req[r].pc \in early
  <2>1. Forgets(r) /\ req'[r].pc = "lost"
    BY <1>1, <1>5, Forgetting DEF CutOff, Steps, Over
  <2> QED
    BY <1>2, <1>3, <1>5, <2>1 DEF ForgetDoes, Before
<1>6. CASE req[r].pc \notin early
  <2>1. Keeps(r) /\ SameData(r) /\ req'[r].pc = "lost"
    BY <1>1, <1>6, Going DEF CutOff, Steps, Over
  <2>2. req[r].pc \in {"deleting", "saving", "assembling"} \cup Pathed
    BY <1>4, <1>6 DEF Before
  <2> QED
    BY <1>2, <1>3, <2>1, <2>2 DEF GoDoes
<1> QED
  BY <1>5, <1>6

\* Every step is one of these.
LEMMA StepEffect ==
    ASSUME IInv, [Next]_vars
    PROVE  Counts /\ ((req' = req /\ SameFiles) \/ \E r \in Requests : StepDoes(r))
<1>1. TypeOK
  BY DEF IInv
<1>2. CASE Tick
  BY <1>1, <1>2, BoundsAssumption DEF Tick, Counts, TypeOK, SameFiles
<1>3. CASE \E r \in Requests : Expire(r)
  BY <1>1, <1>3 DEF Expire, Counts, TypeOK, SameFiles
<1>4. CASE UNCHANGED vars
  BY <1>1, <1>4 DEF vars, Counts, TypeOK, SameFiles
<1>5. ASSUME NEW r \in Requests,
             (\E u \in Uploads : AskUpload(r, u)) \/ (\E v \in Requests : AskDelete(r, v))
      PROVE  StepDoes(r) /\ Counts
  <2>1. AskDoes(r) /\ now' = now /\ faults' = faults
    BY <1>1, <1>5, AskUploadEffect, AskDeleteEffect
  <2> QED
    BY <1>1, <2>1 DEF StepDoes, Counts, TypeOK
<1>6. ASSUME NEW r \in Requests,
             \/ Chunked(r) \/ Finalize(r)
             \/ FindOld(r) \/ CheckLimit(r) \/ RefuseForRoom(r)
             \/ RemoveOld(r) \/ RemoveOldFails(r) \/ FlushDelete(r) \/ CommitDelete(r)
             \/ ClearPath(r) \/ ClearPathFails(r) \/ SaveFile(r) \/ SaveFileFails(r)
             \/ PassSignature(r) \/ RefuseSignature(r) \/ HashFile(r)
             \/ StoreRow(r) \/ Answer(r) \/ StoringFails(r) \/ CutOff(r)
      PROVE  StepDoes(r) /\ Counts
  BY <1>6, ChunkEffect, FinalizeEffect, FindOldEffect, LimitEffect, ReplaceEffect, DeleteEffect,
     SaveEffect, SignatureEffect, HashEffect, StoreEffect, CutOffEffect DEF StepDoes
<1> QED
  BY <1>2, <1>3, <1>4, <1>5, <1>6 DEF Next

-----------------------------------------------------------------------------
(* What no step undoes.                                                    *)

\* What was written stays written where it was, by whom it was, and met whom it met;
\* what was removed stays removed by whom it was.
Lasts(x) ==
    /\ Took(x) => /\ req'[x].path = req[x].path /\ req'[x].kind = req[x].kind
                   /\ req'[x].name = req[x].name /\ req[x].met \subseteq req'[x].met
                   /\ req'[x].pc \notin Before
    /\ req[x].victim # Nobody /\ Acted(x) =>
          req'[x].victim = req[x].victim /\ req'[x].pc \notin {"checking", "replacing"}

LEMMA Lasting ==
    ASSUME IInv, [Next]_vars, NEW x \in Requests
    PROVE  Lasts(x)
<1>1. TypeOK /\ InOrder(x) /\ RowInOrder(x) /\ PathTells(x)
  BY Ordered
<1>2. Took(x) => req[x].pc \notin Before
  BY <1>1 DEF InOrder, Took
<1>3. ASSUME req'[x] = req[x] PROVE Lasts(x)
  BY <1>2, <1>3 DEF Lasts, Acted
<1>4. ASSUME NEW r \in Requests, StepDoes(r) PROVE Lasts(x)
  <2>1. CASE AskDoes(r)
    <3>1. CASE x = r
      BY <1>1, <1>2, <2>1, <3>1 DEF AskDoes, Lasts, Before, InOrder
    <3>2. CASE x # r
      <4>1. Meets(x, r)
        BY <2>1, <3>2 DEF AskDoes
      <4> QED
        BY <1>2, <4>1 DEF Meets, SameData, Lasts, Acted
    <3> QED
      BY <3>1, <3>2
  <2>2. CASE x # r /\ Others(r)
    BY <1>3, <2>2 DEF Others
  <2>3. CASE x = r /\ ForgetDoes(r)
    BY <1>1, <1>2, <2>3 DEF ForgetDoes, Forgets, Lasts, Before, InOrder, Acted, Kinds
  <2>4. CASE x = r /\ GoDoes(r)
    <3>1. req[r].pc \in Before => ~Took(r)
      BY <1>2, <2>4
    <3>2. req[r].pc \notin Before => req'[r].pc \notin Before
      BY <2>4 DEF GoDoes, Before, Holding
    <3>3. req[r].victim # Nobody /\ req[r].pc \notin {"checking", "replacing"} =>
             req'[r].pc \notin {"checking", "replacing"}
      BY <1>1, <2>4 DEF GoDoes, InOrder, Kinds
    <3> QED
      BY <2>4, <3>1, <3>2, <3>3 DEF GoDoes, Keeps, SameData, Lasts, Acted
  <2>5. CASE x = r /\ FindDoes(r)
    BY <1>1, <1>2, <2>5 DEF FindDoes, Keeps, Lasts, Before, InOrder
  <2>6. CASE x = r /\ (RemoveDoes(r) \/ DeleteDoes(r))
    BY <1>1, <1>2, <2>6 DEF RemoveDoes, DeleteDoes, Keeps, SameData, Lasts, Before
  <2>7. CASE x = r /\ SaveDoes(r)
    BY <1>1, <1>2, <2>7 DEF SaveDoes, Keeps, Lasts, Before
  <2>8. CASE x = r /\ (UnsaveDoes(r) \/ HashDoes(r) \/ StoreDoes(r))
    BY <1>1, <1>2, <2>8 DEF UnsaveDoes, HashDoes, StoreDoes, Keeps, SameData, Lasts, Before
  <2>9. AskDoes(r) \/ Others(r) \/ req' = req
    BY <1>4 DEF StepDoes, ForgetDoes, Forgets, GoDoes, FindDoes, RemoveDoes, DeleteDoes, SaveDoes,
                UnsaveDoes, HashDoes, StoreDoes, Keeps
  <2>10. CASE req' = req
    BY <1>3, <2>10
  <2> QED
    BY <1>4, <2>1, <2>2, <2>3, <2>4, <2>5, <2>6, <2>7, <2>8, <2>9, <2>10 DEF StepDoes
<1> QED
  BY <1>3, <1>4, StepEffect

LEMMA TookLasts ==
    ASSUME IInv, [Next]_vars, NEW x \in Requests, Took(x)
    PROVE  Took(x)'
BY Lasting DEF Lasts, Took

LEMMA AmbiguousLasts ==
    ASSUME IInv, [Next]_vars, NEW name \in Names, Ambiguous(name)
    PROVE  Ambiguous(name)'
<1>1. ASSUME NEW x \in Requests, Took(x)
      PROVE  /\ Took(x)' /\ req'[x].kind = req[x].kind /\ req'[x].name = req[x].name
             /\ req[x].met \subseteq req'[x].met
  BY <1>1, TookLasts, Lasting DEF Lasts
<1>2. CASE \E t \in Requests : Took(t) /\ req[t].kind = "chunked" /\ FileName(req[t]) = name
  BY <1>1, <1>2 DEF Ambiguous, FileName
<1>3. CASE \E s, t \in Requests :
              /\ s # t /\ s \in req[t].met
              /\ \A u \in {s, t} : Took(u) /\ req[u].kind = "extra" /\ req[u].name = name
  BY <1>1, <1>3 DEF Ambiguous
<1> QED
  BY <1>2, <1>3 DEF Ambiguous

LEMMA OverwritesLasts ==
    ASSUME IInv, [Next]_vars, NEW s \in Requests, NEW r \in Requests, Took(r), Overwrites(s, r)
    PROVE  Overwrites(s, r)'
<1>1. /\ Took(r)' /\ req'[r].path = req[r].path /\ req'[r].kind = req[r].kind
      /\ req'[r].name = req[r].name
  BY TookLasts, Lasting DEF Lasts
<1>2. /\ Took(s)' /\ req'[s].path = req[s].path /\ req'[s].name = req[s].name
  BY TookLasts, Lasting DEF Lasts, Overwrites
<1>3. CASE req[r].kind # "extra"
  BY <1>1, <1>2, <1>3 DEF Overwrites
<1>4. CASE req[r].kind = "extra"
  <2>1. req[r].name \in Names
    BY <1>4, Ordered DEF InOrder, Kinds
  <2>2. PICK name \in Names : name = req[r].name
    BY <2>1
  <2>3. CASE req[s].name # name
    BY <1>1, <1>2, <2>2, <2>3 DEF Overwrites
  <2>4. CASE Ambiguous(name)
    <3>1. Ambiguous(name)'
      BY <2>4, AmbiguousLasts
    <3>2. name = req'[r].name
      BY <1>1, <2>2
    <3>3. Ambiguous(req[r].name)'
      BY <3>1, <3>2 DEF Ambiguous
    <3> QED
      BY <1>1, <1>2, <3>3 DEF Overwrites
  <2> QED
    BY <1>4, <2>2, <2>3, <2>4 DEF Overwrites
<1> QED
  BY <1>3, <1>4

LEMMA ExcuseLasts ==
    ASSUME IInv, [Next]_vars, NEW r \in Requests, Took(r), Excused(r)
    PROVE  Excused(r)'
<1>1. PICK s \in Requests : HalfDeleted(s, r) \/ Overwrites(s, r) \/ RemovesToo(s, r)
  BY DEF Excused
<1>2. /\ Took(r)' /\ req'[r].path = req[r].path /\ req'[r].kind = req[r].kind
      /\ req'[r].name = req[r].name /\ req[r].met \subseteq req'[r].met
  BY TookLasts, Lasting DEF Lasts
<1>3. CASE HalfDeleted(s, r)
  <2>1. HalfDeleted(s, r)'
    BY <1>3, Lasting, NobodyAssumption DEF Lasts, HalfDeleted, Acted
  <2> QED
    BY <2>1 DEF Excused
<1>4. CASE Overwrites(s, r)
  <2>1. Overwrites(s, r)'
    BY <1>4, OverwritesLasts
  <2> QED
    BY <2>1 DEF Excused
<1>5. CASE RemovesToo(s, r)
  <2> DEFINE v == req[s].victim
  <2>1. v \in Requests \ {r} /\ Acted(s) /\ req[v].path = req[r].path
    BY <1>5 DEF RemovesToo
  <2>2. req'[s].victim = v /\ Acted(s)'
    BY <2>1, Lasting, NobodyAssumption DEF Lasts, Acted
  <2>3. req'[v].path = req[v].path
    <3>1. Took(v)
      BY <2>1 DEF Took
    <3> QED
      BY <2>1, <3>1, Lasting DEF Lasts
  <2>4. RemovesToo(s, r)'
    BY <1>2, <1>5, <2>1, <2>2, <2>3 DEF RemovesToo
  <2> QED
    BY <2>4 DEF Excused
<1> QED
  BY <1>1, <1>3, <1>4, <1>5

-----------------------------------------------------------------------------
(* The metadata of the uploads.                                            *)

\* The request of x is where its metadata is not looked at, or where it was.
Quiet(x) ==
    \/ req'[x].pc = req[x].pc /\ req'[x].kind = req[x].kind
    \/ req'[x].pc \notin {"new", "beginning", "sending", "checking", "assembling", "missing"}
    \/ req[x].pc = "new" /\ req'[x].pc = "beginning"
    \/ req'[x].pc = "checking" /\ req'[x].kind # "chunked"
    \/ req[x].pc = "checking" /\ req[x].kind = "chunked" /\ req'[x].pc = "assembling"

LEMMA QuietUpload ==
    ASSUME NEW x \in Requests, UploadInOrder(x), Quiet(x), upload'[x] = upload[x]
    PROVE  UploadInOrder(x)'
BY DEF UploadInOrder, Quiet

\* The metadata that is read, and what is made of it.
LEMMA ReceivedTyped ==
    ASSUME TypeOK, NEW r \in Requests, NEW struck
    PROVE  Received(r, struck) \in Marks
BY DEF TypeOK, Upload, Received

LEMMA OneMore ==
    ASSUME NEW n \in 0 .. Chunks, n < Chunks
    PROVE  /\ (1 .. n) \cup {n + 1} = 1 .. (n + 1) /\ n + 1 \in 0 .. Chunks
           /\ 1 .. n # Lost
           /\ \A marks \in Marks \ {Lost} : marks \cup {n + 1} \in Marks
<1>1. Chunks \in Nat \ {0}
  BY BoundsAssumption
<1>2. (1 .. n) \cup {n + 1} = 1 .. (n + 1) /\ n + 1 \in 0 .. Chunks
  BY <1>1
<1>3. 1 .. n # Lost
  <2>1. 0 \notin 1 .. n
    OBVIOUS
  <2> QED
    BY <2>1 DEF Lost
<1>4. ASSUME NEW marks \in Marks \ {Lost} PROVE marks \cup {n + 1} \in Marks
  <2>1. n + 1 \in 1 .. Chunks
    BY <1>1
  <2> QED
    BY <2>1 DEF Marks
<1> QED
  BY <1>2, <1>3, <1>4

\* A chunk is marked in what was read.
LEMMA ChunkUpload ==
    ASSUME IInv, NEW r \in Requests, Chunked(r)
    PROVE  upload' \in [Requests -> Upload] /\ \A x \in Requests : UploadInOrder(x)'
<1>1. TypeOK /\ UploadInOrder(r) /\ upload[r] \in Upload
  BY Ordered DEF TypeOK
<1>2. GoDoes(r)
  BY ChunkEffect
<1> DEFINE u == upload'[r]
<1>3. /\ upload' \in [Requests -> Upload]
      /\ \A x \in Requests \ {r} : upload'[x] = upload[x]
      /\ req[r].pc \in {"beginning", "sending"}
      /\ req'[r].pc = "sending" => u.acked < Chunks
      /\ req'[r].pc = "checking" => u.acked = Chunks
      /\ req'[r].pc \in {"sending", "checking"}
      /\ ~u.unwritten => u.file = 1 .. u.acked /\ u.redis \in {u.file, Lost}
  <2>1. PICK struck \in SUBSET {"read", "redis", "file"} :
          BeginUpload(r, struck) \/ SaveChunk(r, struck)
    BY DEF Chunked
  <2>2. CASE BeginUpload(r, struck)
    <3> DEFINE redis == IF "redis" \in struck THEN Lost ELSE {}
               new == [redis |-> redis, file |-> {}, acked |-> 0, unwritten |-> "redis" \in struck]
    <3>1. upload[r] = NoUpload /\ req[r].pc = "beginning"
      BY <1>1, <2>2 DEF BeginUpload, At, UploadInOrder
    <3>2. upload' = [upload EXCEPT ![r] = new]
      BY <2>2 DEF BeginUpload
    <3>3. /\ new \in Upload /\ new.acked = 0 /\ new.file = {}
          /\ new.redis = redis /\ (new.unwritten <=> "redis" \in struck)
      <4>1. {} \in Marks /\ redis \in Marks /\ 0 \in 0 .. Chunks
        BY BoundsAssumption DEF Marks
      <4>2. ("redis" \in struck) \in BOOLEAN
        OBVIOUS
      <4> HIDE DEF redis
      <4>3. new.acked = 0 /\ new.file = {} /\ new.redis = redis
        OBVIOUS
      <4>4. new.unwritten <=> "redis" \in struck
        OBVIOUS
      <4>5. new \in Upload
        BY <4>1, <4>2 DEF Upload
      <4> QED
        BY <4>3, <4>4, <4>5
    <3> HIDE DEF new
    <3>4. req'[r].pc = "sending"
      BY <1>1, <2>2, Going DEF BeginUpload, Steps
    <3>5. 1 .. 0 = {}
      OBVIOUS
    <3>6. upload' \in [Requests -> Upload] /\ u = new
          /\ \A x \in Requests \ {r} : upload'[x] = upload[x]
      BY <1>1, <3>2, <3>3 DEF TypeOK
    <3>7. ~u.unwritten => u.file = 1 .. u.acked /\ u.redis \in {u.file, Lost}
      BY <3>3, <3>5, <3>6
    <3>8. u.acked < Chunks
      BY <3>3, <3>6, BoundsAssumption
    <3> QED
      BY <3>1, <3>4, <3>6, <3>7, <3>8
  <2>3. CASE SaveChunk(r, struck)
    <3> DEFINE marks == Received(r, struck) \cup {upload[r].acked + 1}
    <3>1. req[r].pc = "sending" /\ Received(r, struck) # Lost /\ upload[r].acked < Chunks
          /\ req[r].kind = "chunked"
      BY <1>1, <2>3, Ordered DEF SaveChunk, At, UploadInOrder, InOrder
    <3>2. Received(r, struck) \in Marks \ {Lost} /\ upload[r].acked \in 0 .. Chunks
          /\ upload[r].redis \in Marks /\ upload[r].file \in Marks /\ upload[r].unwritten \in BOOLEAN
      BY <1>1, <3>1, ReceivedTyped DEF Upload
    <3>3. marks \in Marks /\ upload[r].acked + 1 \in 0 .. Chunks
          /\ (1 .. upload[r].acked) \cup {upload[r].acked + 1} = 1 .. (upload[r].acked + 1)
          /\ 1 .. upload[r].acked # Lost
      BY <3>1, <3>2, OneMore
    <3>4. PICK file \in IF "file" \in struck THEN {upload[r].file, Lost} ELSE {marks} :
            upload' = [upload EXCEPT ![r].acked = @ + 1,
                                     ![r].redis = IF "redis" \in struck THEN @ ELSE marks,
                                     ![r].file = file,
                                     ![r].unwritten = @ \/ {"redis", "file"} \cap struck # {}]
      BY <2>3 DEF SaveChunk
    <3> DEFINE new == [upload[r] EXCEPT !.acked = upload[r].acked + 1,
                                        !.redis = IF "redis" \in struck THEN upload[r].redis ELSE marks,
                                        !.file = file,
                                        !.unwritten = upload[r].unwritten
                                                         \/ {"redis", "file"} \cap struck # {}]
    <3>5. upload' = [upload EXCEPT ![r] = new]
      BY <1>1, <3>4 DEF TypeOK, Upload
    <3>6. file \in Marks /\ ("file" \notin struck => file = marks)
      <4>1. Lost \in Marks
        BY DEF Marks
      <4> QED
        BY <3>2, <3>3, <3>4, <4>1
    <3>7. ~upload[r].unwritten => marks = 1 .. (upload[r].acked + 1)
      <4>1. ASSUME ~upload[r].unwritten PROVE Received(r, struck) = 1 .. upload[r].acked
        BY <1>1, <3>1, <3>3, <4>1 DEF UploadInOrder, Received
      <4> QED
        BY <3>3, <4>1
    <3> HIDE DEF marks
    <3>8. /\ new \in Upload /\ new.acked = upload[r].acked + 1 /\ new.file = file
          /\ new.redis = IF "redis" \in struck THEN upload[r].redis ELSE marks
          /\ new.unwritten <=> upload[r].unwritten \/ {"redis", "file"} \cap struck # {}
      BY <1>1, <3>2, <3>3, <3>6 DEF Upload
    <3> HIDE DEF new
    <3>9. upload' \in [Requests -> Upload] /\ u = new
          /\ \A x \in Requests \ {r} : upload'[x] = upload[x]
      BY <1>1, <3>5, <3>8 DEF TypeOK
    <3>10. ~u.unwritten => u.file = 1 .. u.acked /\ u.redis \in {u.file, Lost}
      <4>1. ASSUME ~new.unwritten
            PROVE  ~upload[r].unwritten /\ "redis" \notin struck /\ "file" \notin struck
        BY <3>8, <4>1
      <4> QED
        BY <3>6, <3>7, <3>8, <3>9, <4>1
    <3>11. req'[r].pc = IF u.acked = Chunks THEN "checking" ELSE "sending"
      <4>1. PICK pc \in {"checking", "sending"} :
              Goto(r, pc) /\ pc = IF u.acked = Chunks THEN "checking" ELSE "sending"
        BY <2>3 DEF SaveChunk
      <4>2. pc \in Steps
        BY DEF Steps
      <4> QED
        BY <1>1, <4>1, <4>2, Going
    <3>12. u.acked # Chunks => u.acked < Chunks
      BY <3>1, <3>2, <3>8, <3>9, BoundsAssumption
    <3> QED
      BY <3>1, <3>9, <3>10, <3>11, <3>12
  <2> QED
    BY <2>1, <2>2, <2>3
<1>4. ASSUME NEW x \in Requests PROVE UploadInOrder(x)'
  <2>1. CASE x = r
    BY <1>3, <2>1 DEF UploadInOrder
  <2>2. CASE x # r
    <3>1. Quiet(x) /\ upload'[x] = upload[x]
      BY <1>2, <1>3, <2>2 DEF Quiet, GoDoes, Keeps, Others
    <3> QED
      BY <3>1, Ordered, QuietUpload
  <2> QED
    BY <2>1, <2>2
<1> QED
  BY <1>3, <1>4

LEMMA NoUploadTyped == NoUpload \in Upload /\ Lost \in Marks
BY BoundsAssumption DEF NoUpload, Upload, Marks

\* The file is complete, or an upload is turned away of which a write failed.
LEMMA FinalizeUpload ==
    ASSUME IInv, NEW r \in Requests, Finalize(r)
    PROVE  upload' \in [Requests -> Upload] /\ \A x \in Requests : UploadInOrder(x)'
<1>1. TypeOK /\ UploadInOrder(r) /\ InOrder(r) /\ upload[r] \in Upload
  BY Ordered DEF TypeOK
<1>2. PICK struck \in SUBSET {"read"} :
        \/ LoseUpload(r, struck) \/ RefuseIncomplete(r, struck)
        \/ Assemble(r, struck) \/ AssembleFails(r, struck)
  BY DEF Finalize
<1>3. CASE Assemble(r, struck) \/ AssembleFails(r, struck)
  <2>1. upload' = [upload EXCEPT ![r] = NoUpload] \/ upload' = upload
    BY <1>3 DEF Assemble, AssembleFails
  <2>2. SaveDoes(r) /\ req[r].pc = "assembling"
    BY <1>3, TakesPath DEF Assemble, AssembleFails, At
  <2>3. ASSUME NEW x \in Requests PROVE UploadInOrder(x)'
    <3>1. CASE x = r
      BY <2>2, <3>1 DEF SaveDoes, UploadInOrder
    <3>2. CASE x # r
      <4>1. Quiet(x) /\ upload'[x] = upload[x]
        BY <1>1, <2>1, <2>2, <3>2 DEF Quiet, SaveDoes, Keeps, Others, TypeOK
      <4> QED
        BY <4>1, Ordered, QuietUpload
    <3> QED
      BY <3>1, <3>2
  <2> QED
    BY <1>1, <2>1, <2>3, NoUploadTyped DEF TypeOK
<1>4. CASE LoseUpload(r, struck) \/ RefuseIncomplete(r, struck)
  <2>1. upload' = upload /\ Ends(r, "missing")
    BY <1>4 DEF LoseUpload, RefuseIncomplete
  <2>2. Forgets(r) /\ req'[r].pc = "missing"
    BY <1>1, <2>1, Forgetting DEF Steps, Over
  <2>3. upload[r].unwritten
    <3>1. /\ req[r].pc \in {"sending", "checking", "assembling"} /\ req[r].kind = "chunked"
          /\ upload[r].acked \in 0 .. Chunks
          /\ req[r].pc = "assembling" => upload[r].acked = Chunks
      BY <1>1, <1>4 DEF LoseUpload, RefuseIncomplete, At, InOrder, UploadInOrder, Upload
    <3>2. 1 .. upload[r].acked # Lost
      <4>1. 0 \notin 1 .. upload[r].acked
        BY <3>1
      <4> QED
        BY <4>1 DEF Lost
    <3>3. ~upload[r].unwritten => Received(r, struck) = 1 .. upload[r].acked
      BY <1>1, <3>1, <3>2 DEF UploadInOrder, Received
    <3>4. Received(r, struck) = Lost \/ (Received(r, struck) # 1 .. Chunks /\ req[r].pc = "assembling")
      BY <1>4 DEF LoseUpload, RefuseIncomplete, At
    <3> QED
      BY <3>1, <3>2, <3>3, <3>4
  <2>4. ASSUME NEW x \in Requests PROVE UploadInOrder(x)'
    <3>1. CASE x = r
      BY <2>1, <2>2, <2>3, <3>1 DEF UploadInOrder
    <3>2. CASE x # r
      <4>1. Quiet(x) /\ upload'[x] = upload[x]
        BY <2>1, <2>2, <3>2 DEF Quiet, Forgets, Others
      <4> QED
        BY <4>1, Ordered, QuietUpload
    <3> QED
      BY <3>1, <3>2
  <2> QED
    BY <1>1, <2>1, <2>4 DEF TypeOK
<1> QED
  BY <1>2, <1>3, <1>4

\* The record in Redis expires.
LEMMA ExpireUpload ==
    ASSUME IInv, NEW r \in Requests, Expire(r)
    PROVE  upload' \in [Requests -> Upload] /\ \A x \in Requests : UploadInOrder(x)'
<1>1. TypeOK /\ UploadInOrder(r) /\ upload[r] \in Upload
  BY Ordered DEF TypeOK
<1> DEFINE new == [upload[r] EXCEPT !.redis = Lost]
<1>2. upload' = [upload EXCEPT ![r] = new] /\ req' = req /\ req[r].pc \in {"sending", "checking"}
  BY <1>1 DEF Expire, TypeOK, Upload
<1>3. /\ new \in Upload /\ new.redis = Lost /\ new.file = upload[r].file
      /\ new.acked = upload[r].acked /\ new.unwritten = upload[r].unwritten
  BY <1>1, NoUploadTyped DEF Upload
<1> HIDE DEF new
<1>4. ASSUME NEW x \in Requests PROVE UploadInOrder(x)'
  <2>1. CASE x = r
    <3>1. upload'[r] = new
      BY <1>1, <1>2 DEF TypeOK
    <3> QED
      BY <1>1, <1>2, <1>3, <2>1, <3>1 DEF UploadInOrder
  <2>2. CASE x # r
    <3>1. Quiet(x) /\ upload'[x] = upload[x]
      BY <1>1, <1>2, <2>2 DEF Quiet, TypeOK
    <3> QED
      BY <3>1, Ordered, QuietUpload
  <2> QED
    BY <2>1, <2>2
<1> QED
  BY <1>1, <1>2, <1>3, <1>4 DEF TypeOK

\* There is no room, and the upload is cleaned up.
LEMMA RefuseUpload ==
    ASSUME IInv, NEW r \in Requests, RefuseForRoom(r)
    PROVE  upload' \in [Requests -> Upload] /\ \A x \in Requests : UploadInOrder(x)'
<1>1. TypeOK
  BY Ordered
<1>2. upload' = [upload EXCEPT ![r] = NoUpload] /\ Ends(r, "refused")
  BY DEF RefuseForRoom
<1>3. Forgets(r) /\ req'[r].pc = "refused"
  BY <1>1, <1>2, Forgetting DEF Steps, Over
<1>4. ASSUME NEW x \in Requests PROVE UploadInOrder(x)'
  <2>1. CASE x = r
    BY <1>3, <2>1 DEF UploadInOrder
  <2>2. CASE x # r
    <3>1. Quiet(x) /\ upload'[x] = upload[x]
      BY <1>1, <1>2, <1>3, <2>2 DEF Quiet, Forgets, Others, TypeOK
    <3> QED
      BY <3>1, Ordered, QuietUpload
  <2> QED
    BY <2>1, <2>2
<1> QED
  BY <1>1, <1>2, <1>4, NoUploadTyped DEF TypeOK

\* The other steps leave the metadata alone.
LEMMA OtherUpload ==
    ASSUME IInv, NEW r \in Requests, StepDoes(r), upload' = upload,
           req[r].pc \in {"beginning", "sending"} => req'[r].pc = "lost",
           req'[r].pc # "missing"
    PROVE  upload' \in [Requests -> Upload] /\ \A x \in Requests : UploadInOrder(x)'
<1>1. TypeOK /\ InOrder(r)
  BY Ordered
<1>2. ASSUME NEW x \in Requests \ {r} PROVE Quiet(x)
  BY <1>2 DEF StepDoes, AskDoes, Meets, ForgetDoes, Forgets, GoDoes, FindDoes, RemoveDoes, DeleteDoes,
              SaveDoes, UnsaveDoes, HashDoes, StoreDoes, Keeps, Others, Quiet
<1>3. Quiet(r)
  <2>1. CASE AskDoes(r)
    <3>1. req'[r].kind \in Kinds => req'[r].pc = FirstStep(req'[r].kind) \/ req'[r].pc = "replacing"
      BY <2>1 DEF AskDoes
    <3>2. FirstStep("chunked") = "beginning" /\ FirstStep("extra") = "finding"
          /\ FirstStep("config") = "checking"
      BY DEF FirstStep
    <3>3. req'[r].kind = "delete" => req'[r].pc = "replacing"
      BY <2>1 DEF AskDoes, Kinds
    <3>4. req'[r].kind \in Kinds \cup {"delete"} /\ req[r].pc = "new"
      BY <2>1 DEF AskDoes
    <3>5. CASE req'[r].kind = "chunked"
      <4>1. req'[r].pc = "beginning" \/ req'[r].pc = "replacing"
        BY <3>1, <3>2, <3>5 DEF Kinds
      <4> QED
        BY <3>4, <4>1 DEF Quiet
    <3>6. CASE req'[r].kind = "extra"
      <4>1. req'[r].pc = "finding" \/ req'[r].pc = "replacing"
        BY <3>1, <3>2, <3>6 DEF Kinds
      <4> QED
        BY <4>1 DEF Quiet
    <3>7. CASE req'[r].kind = "config"
      <4>1. req'[r].pc = "checking" \/ req'[r].pc = "replacing"
        BY <3>1, <3>2, <3>7 DEF Kinds
      <4> QED
        BY <3>7, <4>1 DEF Quiet
    <3>8. CASE req'[r].kind = "delete"
      BY <3>3, <3>8 DEF Quiet
    <3> QED
      BY <3>4, <3>5, <3>6, <3>7, <3>8 DEF Kinds
  <2>2. CASE ForgetDoes(r)
    BY <2>2 DEF ForgetDoes, Quiet
  <2>3. CASE GoDoes(r)
    BY <2>3 DEF GoDoes, Keeps, Quiet
  <2>4. CASE FindDoes(r)
    <3>1. req'[r].kind = "extra" /\ req'[r].pc = "checking"
      BY <1>1, <2>4 DEF FindDoes, Keeps, InOrder
    <3> QED
      BY <3>1 DEF Quiet
  <2>5. CASE RemoveDoes(r) \/ DeleteDoes(r) \/ SaveDoes(r) \/ UnsaveDoes(r) \/ HashDoes(r) \/ StoreDoes(r)
    BY <2>5 DEF RemoveDoes, DeleteDoes, SaveDoes, UnsaveDoes, HashDoes, StoreDoes, Quiet
  <2>6. CASE req' = req
    BY <2>6 DEF Quiet
  <2> QED
    BY <2>1, <2>2, <2>3, <2>4, <2>5, <2>6 DEF StepDoes
<1>4. ASSUME NEW x \in Requests PROVE UploadInOrder(x)'
  <2>1. Quiet(x) /\ upload'[x] = upload[x]
    BY <1>2, <1>3
  <2> QED
    BY <2>1, Ordered, QuietUpload
<1> QED
  BY <1>1, <1>4 DEF TypeOK

LEMMA UploadStep ==
    ASSUME IInv, [Next]_vars
    PROVE  upload' \in [Requests -> Upload] /\ UploadsInOrder'
<1> SUFFICES upload' \in [Requests -> Upload] /\ \A x \in Requests : UploadInOrder(x)'
  BY DEF UploadsInOrder
<1>1. TypeOK
  BY Ordered DEF IInv
<1>2. ASSUME upload' = upload, req' = req
      PROVE  upload' \in [Requests -> Upload] /\ \A x \in Requests : UploadInOrder(x)'
  BY <1>1, <1>2, Ordered, QuietUpload DEF Quiet, TypeOK
<1>3. ASSUME NEW r \in Requests,
             (\E u \in Uploads : AskUpload(r, u)) \/ (\E v \in Requests : AskDelete(r, v))
      PROVE  upload' \in [Requests -> Upload] /\ \A x \in Requests : UploadInOrder(x)'
  <2>1. AskDoes(r)
    BY <1>1, <1>3, AskUploadEffect, AskDeleteEffect
  <2>2. req[r].pc = "new" /\ upload' = upload
    BY <2>1 DEF AskDoes
  <2>3. req'[r].pc # "missing"
    BY <2>1 DEF AskDoes, FirstStep, Kinds
  <2> QED
    BY <2>1, <2>2, <2>3, OtherUpload DEF StepDoes
<1>4. ASSUME NEW r \in Requests,
             \/ FindOld(r) \/ CheckLimit(r)
             \/ RemoveOld(r) \/ RemoveOldFails(r) \/ FlushDelete(r) \/ CommitDelete(r)
             \/ ClearPath(r) \/ ClearPathFails(r) \/ SaveFile(r) \/ SaveFileFails(r)
             \/ PassSignature(r) \/ RefuseSignature(r) \/ HashFile(r)
             \/ StoreRow(r) \/ Answer(r) \/ StoringFails(r) \/ CutOff(r)
      PROVE  upload' \in [Requests -> Upload] /\ \A x \in Requests : UploadInOrder(x)'
  <2>1. StepDoes(r) /\ upload' = upload
    BY <1>4, FindOldEffect, LimitEffect, ReplaceEffect, DeleteEffect,
       SaveEffect, SignatureEffect, HashEffect, StoreEffect, CutOffEffect
    DEF StepDoes, FindOld, CheckLimit, RemoveOld, RemoveOldFails, FlushDelete, CommitDelete,
      ClearPath, ClearPathFails, SaveFile, SaveFileFails,
        PassSignature, RefuseSignature, HashFile, StoreRow, Answer, StoringFails, CutOff
  <2>2. CASE CutOff(r)
    <3>1. Goto(r, "lost") \/ Ends(r, "lost")
      BY <2>2 DEF CutOff
    <3>2. req'[r].pc = "lost"
      BY <1>1, <3>1, Going, Forgetting DEF Steps, Over
    <3> QED
      BY <2>1, <3>2, OtherUpload
  <2>3. CASE RemoveOldFails(r)
    <3>1. Goto(r, "deleting") \/ Ends(r, "failed")
      BY <2>3 DEF RemoveOldFails
    <3>2. req'[r].pc \in {"deleting", "failed"} /\ req[r].pc = "replacing"
      BY <1>1, <2>3, <3>1, Going, Forgetting DEF Steps, Over, RemoveOldFails, At
    <3> QED
      BY <2>1, <3>2, OtherUpload
  <2>4. CASE CheckLimit(r)
    <3>1. PICK pc \in {"assembling", "replacing", "saving"} : Goto(r, pc)
      BY <2>4 DEF CheckLimit
    <3>2. req'[r].pc = pc /\ req[r].pc = "checking"
      BY <1>1, <2>4, <3>1, Going DEF Steps, CheckLimit, At
    <3> QED
      BY <2>1, <3>1, <3>2, OtherUpload
  <2>5. CASE \/ FindOld(r) \/ RemoveOld(r) \/ FlushDelete(r) \/ CommitDelete(r)
             \/ ClearPath(r) \/ ClearPathFails(r) \/ SaveFile(r) \/ SaveFileFails(r)
             \/ PassSignature(r) \/ RefuseSignature(r) \/ HashFile(r)
             \/ StoreRow(r) \/ Answer(r) \/ StoringFails(r)
    <3>1. /\ req[r].pc \in {"finding", "replacing", "deleting", "saving"} \cup Pathed
      BY <2>5 DEF FindOld, RemoveOld, FlushDelete, CommitDelete, ClearPath, ClearPathFails,
        SaveFile, SaveFileFails, PassSignature,
                  RefuseSignature, HashFile, StoreRow, Answer, StoringFails, At, Pathed, Holding
    <3>2. ~ForgetDoes(r) \/ RemoveOld(r)
      <4>1. FindOld(r) => req'[r].pc = "checking"
        BY FindOldEffect DEF FindDoes
      <4>2. ~FindOld(r) /\ ~RemoveOld(r) => req[r].pc \in {"deleting", "saving"} \cup Pathed
        BY <2>5 DEF FlushDelete, CommitDelete, ClearPath, ClearPathFails, SaveFile,
          SaveFileFails, PassSignature, RefuseSignature, HashFile,
                    StoreRow, Answer, StoringFails, At, Pathed, Holding
      <4> QED
        BY <4>1, <4>2 DEF ForgetDoes, Before, Pathed, Holding
    <3>3. RemoveOld(r) => req'[r].pc = "deleting"
      BY <1>1, Going DEF RemoveOld, Steps
    <3>4. AskDoes(r) => req[r].pc = "new"
      BY DEF AskDoes
    <3>5. req'[r].pc # "missing"
      BY <2>1, <3>1, <3>2, <3>3, <3>4
      DEF StepDoes, GoDoes, FindDoes, RemoveDoes, DeleteDoes, SaveDoes, UnsaveDoes, HashDoes, StoreDoes,
          Pathed, Holding
    <3> QED
      BY <2>1, <3>1, <3>5, OtherUpload DEF Pathed, Holding
  <2> QED
    BY <1>4, <2>2, <2>3, <2>4, <2>5
<1> QED
  BY <1>2, <1>3, <1>4, ChunkUpload, FinalizeUpload, ExpireUpload, RefuseUpload
  DEF Next, Tick, vars

-----------------------------------------------------------------------------
(* The order of the requests.                                              *)

\* A step of r is of r alone, unless it is asked for.
LEMMA Alone ==
    ASSUME NEW r \in Requests, StepDoes(r)
    PROVE  AskDoes(r) \/ Others(r) \/ (req' = req /\ SameFiles)
BY DEF StepDoes, ForgetDoes, Forgets, GoDoes, FindDoes, RemoveDoes, DeleteDoes, SaveDoes,
       UnsaveDoes, HashDoes, StoreDoes, Keeps

LEMMA RequestsTyped ==
    ASSUME IInv, [Next]_vars
    PROVE  req' \in [Requests -> Request]
<1>1. req \in [Requests -> Request]
  BY DEF IInv, TypeOK
<1> QED
  BY <1>1, StepEffect, Alone DEF AskDoes, Others

LEMMA VictimLasts ==
    ASSUME IInv, [Next]_vars, NEW v \in Requests \cup {Nobody}, v # Nobody => Took(v)
    PROVE  v # Nobody => Took(v)'
BY TookLasts

LEMMA InOrderStep ==
    ASSUME IInv, [Next]_vars, NEW x \in Requests
    PROVE  InOrder(x)'
<1>1. TypeOK /\ InOrder(x) /\ PathTells(x) /\ RowInOrder(x) /\ req[x] \in Request
  BY Ordered DEF TypeOK
<1>2. CASE req'[x] = req[x]
  BY <1>1, <1>2 DEF InOrder
<1>3. ASSUME NEW r \in Requests, StepDoes(r) PROVE InOrder(x)'
  <2>1. CASE AskDoes(r) /\ x = r
    <3>1. /\ req'[x].path = NoPath
          /\ \/ /\ req'[r].kind \in Kinds /\ req'[r].name \in Names /\ req'[r].victim = Nobody
                /\ req'[r].pc = FirstStep(req'[r].kind)
             \/ req'[r].kind = "delete" /\ req'[r].pc = "replacing" /\ req'[r].victim \in rows
      BY <2>1 DEF AskDoes
    <3>2. FirstStep("chunked") = "beginning" /\ FirstStep("extra") = "finding"
          /\ FirstStep("config") = "checking"
      BY DEF FirstStep
    <3>3. rows \subseteq Requests
      BY <1>1 DEF TypeOK
    <3>4. CASE req'[r].kind = "delete"
      <4>1. req'[r].pc = "replacing" /\ req'[r].victim \in rows
        BY <3>1, <3>4 DEF Kinds
      <4> QED
        BY <2>1, <3>1, <3>3, <3>4, <4>1 DEF InOrder, Before, Pathed, Holding, Kinds
    <3>5. CASE req'[r].kind # "delete"
      <4>1. /\ req'[r].name \in Names /\ req'[r].victim = Nobody /\ req'[r].kind \in Kinds
            /\ req'[r].kind = "chunked" => req'[r].pc = "beginning"
            /\ req'[r].kind = "extra" => req'[r].pc = "finding"
            /\ req'[r].kind = "config" => req'[r].pc = "checking"
        BY <3>1, <3>2, <3>5
      <4>2. req'[r].kind \in {"extra", "config", "chunked"}
        BY <4>1 DEF Kinds
      <4> QED
        BY <2>1, <3>1, <4>1, <4>2 DEF InOrder, Before, Pathed, Holding, Kinds
    <3> QED
      BY <3>4, <3>5
  <2>2. CASE AskDoes(r) /\ x # r
    <3>1. Meets(x, r)
      BY <2>2 DEF AskDoes
    <3> QED
      BY <1>1, <3>1 DEF Meets, SameData, InOrder
  <2>3. CASE Others(r) /\ x # r
    BY <1>2, <2>3 DEF Others
  <2>4. CASE x = r /\ ForgetDoes(r)
    BY <2>4 DEF ForgetDoes, Forgets, InOrder, Before, Pathed, Holding, Kinds
  <2>5. CASE x = r /\ GoDoes(r)
    <3>1. /\ req'[x].kind = req[x].kind /\ req'[x].name = req[x].name /\ req'[x].victim = req[x].victim
          /\ req'[x].path = req[x].path /\ req'[x].hash = req[x].hash
      BY <2>5 DEF GoDoes, Keeps, SameData
    <3>2. /\ req[x].kind \in Kinds => req[x].name \in Names
          /\ req[x].victim # Nobody => req[x].kind \in {"extra", "delete"}
          /\ req[x].victim \in Requests \cup {Nobody}
      BY <1>1 DEF InOrder, Request
    <3>3. CASE req[x].pc \in {"beginning", "sending"} /\ req[x].kind = "chunked"
               /\ req'[x].pc \in {"sending", "checking"}
      BY <1>1, <3>1, <3>2, <3>3 DEF InOrder, Before, Pathed, Holding, Kinds
    <3>4. CASE req[x].pc = "checking" /\ req[x].kind = "chunked" /\ req'[x].pc = "assembling"
      BY <1>1, <3>1, <3>2, <3>4 DEF InOrder, Before, Pathed, Holding, Kinds
    <3>5. CASE req[x].pc = "checking" /\ req[x].victim \in Requests /\ req'[x].pc = "replacing"
      BY <1>1, <3>1, <3>2, <3>5 DEF InOrder, Before, Pathed, Holding
    <3>6. CASE req[x].pc = "checking" /\ req[x].kind # "chunked" /\ req[x].victim \notin Requests
               /\ req'[x].pc = "saving"
      BY <1>1, <3>1, <3>2, <3>6 DEF InOrder, Before, Pathed, Holding, Kinds
    <3>7. CASE req[x].pc = "replacing" /\ req'[x].pc = "deleting"
      BY <1>1, <3>1, <3>2, <3>7 DEF InOrder, Before, Pathed, Holding
    <3>8. CASE req[x].pc = "deleting" /\ req[x].kind = "extra" /\ req'[x].pc = "saving"
      BY <1>1, <3>1, <3>2, <3>8 DEF InOrder, Before, Pathed, Holding
    <3>9. CASE req[x].pc = "validating" /\ req'[x].pc = "hashing"
      BY <1>1, <3>1, <3>2, <3>9 DEF InOrder, Before, Pathed, Holding
    <3>10. CASE req'[x].pc \in {"lost", "done", "failed"}
      BY <3>1, <3>2, <3>10 DEF InOrder, Before, Pathed, Holding
    <3> QED
      BY <2>5, <3>3, <3>4, <3>5, <3>6, <3>7, <3>8, <3>9, <3>10 DEF GoDoes
  <2>6. CASE x = r /\ FindDoes(r)
    BY <1>1, <2>6 DEF FindDoes, Keeps, InOrder, Before, Pathed, Holding, Kinds
  <2>7. CASE x = r /\ (RemoveDoes(r) \/ DeleteDoes(r))
    BY <1>1, <2>7 DEF RemoveDoes, DeleteDoes, Keeps, SameData, InOrder, Before, Pathed, Holding
  <2>8. CASE x = r /\ SaveDoes(r)
    BY <1>1, <2>8 DEF SaveDoes, Keeps, InOrder, Before, Holding
  <2>9. CASE x = r /\ (UnsaveDoes(r) \/ StoreDoes(r))
    BY <1>1, <2>9 DEF UnsaveDoes, StoreDoes, Keeps, SameData, InOrder, Before, Pathed, Holding
  <2>10. CASE x = r /\ HashDoes(r)
    BY <1>1, <2>10 DEF HashDoes, Keeps, InOrder, Before, Pathed, Holding
  <2> QED
    BY <1>2, <1>3, <2>1, <2>2, <2>3, <2>4, <2>5, <2>6, <2>7, <2>8, <2>9, <2>10, Alone DEF StepDoes
<1> QED
  BY <1>2, <1>3, StepEffect

LEMMA PathTellsStep ==
    ASSUME IInv, [Next]_vars, NEW x \in Requests
    PROVE  PathTells(x)'
<1>1. TypeOK /\ InOrder(x) /\ PathTells(x)
  BY Ordered
<1>2. CASE Took(x)
  BY <1>1, <1>2, Lasting DEF Lasts, PathTells, Took
<1>3. CASE ~Took(x)
  <2>1. ASSUME NEW r \in Requests, SaveDoes(r), x = r PROVE PathTells(x)'
    BY <1>1, <2>1 DEF SaveDoes, Keeps, PathTells, TypeOK
  <2>2. ASSUME NEW r \in Requests, StepDoes(r), ~(SaveDoes(r) /\ x = r) PROVE req'[x].path = NoPath
    BY <1>3, <2>2 DEF StepDoes, AskDoes, Meets, ForgetDoes, Forgets, GoDoes, FindDoes, RemoveDoes,
       DeleteDoes, SaveDoes, UnsaveDoes, HashDoes, StoreDoes, Keeps, Others, SameData, Took
  <2>3. req' = req => req'[x].path = NoPath
    BY <1>3 DEF Took
  <2> QED
    BY <2>1, <2>2, <2>3, StepEffect DEF PathTells
<1> QED
  BY <1>2, <1>3

\* What becomes of the rows, of what a request replaces or deletes, and of the hash of a row.
LEMMA RowsStep ==
    ASSUME IInv, [Next]_vars, NEW x \in Requests
    PROVE  /\ x \in rows' => \/ x \in rows
                             \/ /\ req[x].pc = "storing" /\ req'[x].pc = "stored"
                                /\ req'[x].path = req[x].path /\ req'[x].hash = req[x].hash
           /\ x \in rows => /\ req'[x].pc \in {"stored", "done", "failed", "lost"}
                            /\ req'[x].hash = req[x].hash /\ req'[x].path = req[x].path
           /\ req'[x].victim \in {req[x].victim, Nobody} \cup rows
<1>1. TypeOK /\ RowInOrder(x) /\ req[x] \in Request
  BY Ordered DEF TypeOK
<1>2. ASSUME req'[x] = req[x], rows' \subseteq rows \cup (Requests \ {x})
      PROVE  /\ x \in rows' => x \in rows
             /\ x \in rows => /\ req'[x].pc \in {"stored", "done", "failed", "lost"}
                              /\ req'[x].hash = req[x].hash /\ req'[x].path = req[x].path
             /\ req'[x].victim = req[x].victim
  BY <1>1, <1>2 DEF RowInOrder
<1>3. ASSUME NEW r \in Requests, StepDoes(r)
      PROVE  /\ x \in rows' => \/ x \in rows
                               \/ /\ req[x].pc = "storing" /\ req'[x].pc = "stored"
                                  /\ req'[x].path = req[x].path /\ req'[x].hash = req[x].hash
             /\ x \in rows => /\ req'[x].pc \in {"stored", "done", "failed", "lost"}
                              /\ req'[x].hash = req[x].hash /\ req'[x].path = req[x].path
             /\ req'[x].victim \in {req[x].victim, Nobody} \cup rows
  <2>1. CASE AskDoes(r) /\ x = r
    BY <1>1, <2>1 DEF AskDoes, RowInOrder, SameFiles
  <2>2. CASE AskDoes(r) /\ x # r
    <3>1. Meets(x, r)
      BY <2>2 DEF AskDoes
    <3> QED
      BY <1>1, <2>2, <3>1 DEF Meets, SameData, RowInOrder, AskDoes, SameFiles
  <2>3. CASE Others(r) /\ x # r
    <3>1. rows' \subseteq rows \cup {r}
      BY <1>3 DEF StepDoes, AskDoes, ForgetDoes, Forgets, GoDoes, FindDoes, RemoveDoes, DeleteDoes, SaveDoes,
         UnsaveDoes, HashDoes, StoreDoes, SameFiles
    <3> QED
      BY <1>1, <1>2, <2>3, <3>1 DEF Others, TypeOK
  <2>4. CASE x = r /\ ForgetDoes(r)
    BY <1>1, <2>4 DEF ForgetDoes, Forgets, RowInOrder, SameFiles, Before
  <2>5. CASE x = r /\ GoDoes(r)
    BY <1>1, <2>5 DEF GoDoes, SameData, RowInOrder, SameFiles
  <2>6. CASE x = r /\ FindDoes(r)
    BY <1>1, <2>6 DEF FindDoes, RowInOrder, SameFiles, Replaceable, ExtraRows
  <2>7. CASE x = r /\ (RemoveDoes(r) \/ DeleteDoes(r) \/ StoreDoes(r))
    BY <1>1, <2>7 DEF RemoveDoes, DeleteDoes, StoreDoes, SameData, RowInOrder
  <2>8. CASE x = r /\ (SaveDoes(r) \/ HashDoes(r) \/ UnsaveDoes(r))
    BY <1>1, <2>8 DEF SaveDoes, HashDoes, UnsaveDoes, SameData, RowInOrder, SameFiles
  <2>9. CASE req' = req /\ SameFiles
    BY <1>1, <2>9 DEF RowInOrder, SameFiles
  <2> QED
    BY <1>3, <2>1, <2>2, <2>3, <2>4, <2>5, <2>6, <2>7, <2>8, <2>9, Alone DEF StepDoes
<1>4. CASE req' = req /\ SameFiles
  BY <1>1, <1>4 DEF RowInOrder, SameFiles
<1> QED
  BY <1>3, <1>4, StepEffect

LEMMA RowInOrderStep ==
    ASSUME IInv, [Next]_vars, NEW x \in Requests
    PROVE  RowInOrder(x)'
<1>1. TypeOK /\ InOrder(x) /\ RowInOrder(x) /\ req'[x] \in Request
  BY Ordered, RequestsTyped
<1>2. x \in rows' => req'[x].pc \in {"stored", "done", "failed", "lost"} /\ Took(x)'
  <2>1. x \in rows \/ req[x].pc = "storing" => Took(x)
    BY <1>1, NoPathIsNone DEF RowInOrder, InOrder, Took, Pathed, Holding
  <2> QED
    BY <2>1, RowsStep, TookLasts
<1>3. PICK v \in Requests \cup {Nobody} : v = req'[x].victim
  BY <1>1 DEF Request
<1>4. v # Nobody => Took(v)
  <2>1. v \in {req[x].victim, Nobody} \cup rows
    BY <1>3, RowsStep
  <2>2. v \in rows => Took(v)
    BY <1>1, Ordered DEF RowInOrder, TypeOK
  <2>3. v = req[x].victim /\ v # Nobody => Took(v)
    BY <1>1 DEF RowInOrder
  <2> QED
    BY <2>1, <2>2, <2>3
<1>5. v # Nobody => Took(v)'
  BY <1>4, VictimLasts
<1> QED
  BY <1>2, <1>3, <1>5 DEF RowInOrder, Took

\* Who runs and who wrote, and whom they met, when nobody is asked for.
LEMMA Settling ==
    ASSUME IInv, NEW r \in Requests, StepDoes(r), ~AskDoes(r), NEW x \in Requests
    PROVE  /\ x \in Running' => x \in Running
           /\ Took(x)' => x \in Running \/ Took(x)
           /\ \/ req'[x].met = req[x].met /\ (Took(x) => Took(x)')
              \/ req'[x].met = {} /\ x \notin Running' /\ ~Took(x)'
           /\ req'[x].pc = "new" => req[x].pc = "new"
<1>1. TypeOK /\ InOrder(x)
  BY Ordered
<1>2. x \in Running <=> req[x].pc \in (Before \ {"new"}) \cup Pathed
  BY <1>1, RunningAre
<1>3. x \in Running' <=> req'[x].pc \notin Over \cup {"new"}
  BY DEF Running
<1>4. CASE req'[x] = req[x]
  <2>1. x \in Running' <=> x \in Running
    BY <1>3, <1>4 DEF Running
  <2> QED
    BY <1>4, <2>1 DEF Took
<1>5. CASE x = r /\ ForgetDoes(r)
  BY <1>2, <1>3, <1>5 DEF ForgetDoes, Forgets, Took, Over
<1>6. CASE x = r /\ GoDoes(r)
  <2>1. req'[x].met = req[x].met /\ req'[x].path = req[x].path
    BY <1>6 DEF GoDoes, Keeps, SameData
  <2>2. x \in Running
    BY <1>2, <1>6 DEF GoDoes, Before, Pathed, Holding
  <2>3. req'[x].pc # "new"
    BY <1>6 DEF GoDoes
  <2> QED
    BY <2>1, <2>2, <2>3 DEF Took
<1>7. CASE x = r /\ (FindDoes(r) \/ RemoveDoes(r) \/ DeleteDoes(r) \/ SaveDoes(r) \/ UnsaveDoes(r)
                        \/ HashDoes(r) \/ StoreDoes(r))
  <2>1. x \in Running /\ req'[x].pc # "new"
    BY <1>2, <1>7 DEF FindDoes, RemoveDoes, DeleteDoes, SaveDoes, UnsaveDoes, HashDoes, StoreDoes,
                      Before, Pathed, Holding
  <2>2. req'[x].met = req[x].met
    BY <1>7 DEF FindDoes, RemoveDoes, DeleteDoes, SaveDoes, UnsaveDoes, HashDoes, StoreDoes, Keeps
  <2>3. Took(x) => Took(x)'
    BY <1>7, NoPathIsNone DEF FindDoes, RemoveDoes, DeleteDoes, SaveDoes, UnsaveDoes, HashDoes,
                              StoreDoes, SameData, Took
  <2> QED
    BY <2>1, <2>2, <2>3
<1> QED
  BY <1>4, <1>5, <1>6, <1>7, Alone DEF StepDoes, Others

\* Those who meet have met each other.
LEMMA MetStep ==
    ASSUME IInv, [Next]_vars, NEW x \in Requests
    PROVE  MetInOrder(x)'
<1>1. TypeOK /\ \A s \in Requests : MetInOrder(s) /\ req[s].met \subseteq Requests
  BY Ordered DEF TypeOK, Request
<1>2. \A s \in Running' : s \in Requests
  BY DEF Running
<1>3. ASSUME NEW r \in Requests, AskDoes(r) PROVE MetInOrder(x)'
  <2>1. \A s \in Requests \ {r} : Meets(s, r)
    BY <1>3 DEF AskDoes
  <2>2. /\ req[r].pc = "new" /\ r \notin Running /\ req'[r].met = Running /\ ~Took(r)'
        /\ \A s \in Requests : r \notin req[s].met
    BY <1>1, <1>3 DEF AskDoes, Running, Took, MetInOrder
  <2>3. \A s \in Requests \ {r} : /\ s \in Running' <=> s \in Running
                                  /\ Took(s)' <=> Took(s)
                                  /\ req'[s].pc = req[s].pc
                                  /\ req'[s].met \ {r} = req[s].met
                                  /\ r \in req'[s].met <=> s \in Running
    <3> SUFFICES ASSUME NEW s \in Requests \ {r}
                 PROVE  /\ s \in Running' <=> s \in Running
                        /\ Took(s)' <=> Took(s)
                        /\ req'[s].pc = req[s].pc
                        /\ req'[s].met \ {r} = req[s].met
                        /\ r \in req'[s].met <=> s \in Running
      OBVIOUS
    <3>1. req'[s].met = IF s \in Running THEN req[s].met \cup {r} ELSE req[s].met
      BY <2>1 DEF Meets
    <3>2. r \notin req[s].met
      BY <2>2
    <3>3. req'[s].met \ {r} = req[s].met /\ (r \in req'[s].met <=> s \in Running)
      BY <3>1, <3>2
    <3>4. req'[s].pc = req[s].pc /\ req'[s].path = req[s].path
      BY <2>1 DEF Meets, SameData
    <3> QED
      BY <3>3, <3>4 DEF Running, Took
  <2>4. req'[r].pc # "new"
    BY <1>3 DEF AskDoes, FirstStep, Kinds
  <2>5. Running \subseteq Requests
    BY DEF Running
  <2>6. CASE x = r
    <3>1. \A s \in req'[r].met : r \in req'[s].met
      BY <2>2, <2>3, <2>5
    <3>2. \A s \in Running' : r # s => s \in req'[r].met
      BY <1>2, <2>2, <2>3
    <3> QED
      BY <2>2, <2>4, <2>6, <3>1, <3>2 DEF MetInOrder
  <2>7. CASE x # r
    <3>1. x \notin req'[x].met
      BY <1>1, <2>3, <2>7 DEF MetInOrder
    <3>2. ASSUME NEW s \in Running', x \in Running', x # s PROVE s \in req'[x].met
      <4>1. CASE s = r
        BY <2>3, <2>7, <3>2, <4>1
      <4>2. CASE s # r
        BY <1>1, <1>2, <2>3, <2>7, <3>2, <4>2 DEF MetInOrder
      <4> QED
        BY <4>1, <4>2
    <3>3. ASSUME NEW s \in req'[x].met, s \in Running' \/ Took(s)' PROVE x \in req'[s].met
      <4>1. CASE s = r
        BY <2>2, <2>3, <2>7, <4>1
      <4>2. CASE s # r
        <5>1. s \in req[x].met /\ s \in Requests \ {r}
          BY <1>1, <2>3, <2>7, <4>2
        <5> QED
          BY <1>1, <2>3, <3>3, <5>1 DEF MetInOrder
      <4> QED
        BY <4>1, <4>2
    <3>4. ASSUME req'[x].pc = "new"
          PROVE  req'[x].met = {} /\ \A s \in Requests : x \notin req'[s].met
      <4>1. req[x].pc = "new" /\ x \notin Running
        BY <2>3, <2>7, <3>4 DEF Running
      <4>2. req[x].met = {} /\ \A s \in Requests : x \notin req[s].met
        BY <1>1, <4>1 DEF MetInOrder
      <4> QED
        BY <2>2, <2>3, <2>7, <4>1, <4>2
    <3> QED
      BY <3>1, <3>2, <3>3, <3>4 DEF MetInOrder
  <2> QED
    BY <2>6, <2>7
<1>4. ASSUME NEW r \in Requests, StepDoes(r), ~AskDoes(r) PROVE MetInOrder(x)'
  <2>1. \A s \in Requests :
           /\ s \in Running' => s \in Running
           /\ Took(s)' => s \in Running \/ Took(s)
           /\ \/ req'[s].met = req[s].met /\ (Took(s) => Took(s)')
              \/ req'[s].met = {} /\ s \notin Running' /\ ~Took(s)'
           /\ req'[s].pc = "new" => req[s].pc = "new"
    BY <1>4, Settling
  <2>2. \A s \in Requests : req'[s].met \subseteq req[s].met
    BY <2>1
  <2>3. \A s \in Running' : x \in Running' /\ x # s => s \in req'[x].met
    BY <1>1, <1>2, <2>1 DEF MetInOrder
  <2>4. ASSUME NEW s \in req'[x].met, s \in Running' \/ Took(s)' PROVE x \in req'[s].met
    <3>1. s \in Requests /\ s \in req[x].met
      BY <1>1, <2>2
    <3> QED
      BY <1>1, <2>1, <2>4, <3>1 DEF MetInOrder
  <2>5. req'[x].pc = "new" => req'[x].met = {} /\ \A s \in Requests : x \notin req'[s].met
    BY <1>1, <2>1, <2>2 DEF MetInOrder
  <2>6. x \notin req'[x].met
    BY <1>1, <2>2 DEF MetInOrder
  <2> QED
    BY <2>3, <2>4, <2>5, <2>6 DEF MetInOrder
<1>5. CASE req' = req
  BY <1>1, <1>5 DEF MetInOrder, Running, Took
<1> QED
  BY <1>3, <1>4, <1>5, StepEffect

LEMMA TypeStep ==
    ASSUME IInv, [Next]_vars
    PROVE  TypeOK'
<1>1. TypeOK /\ Counts
  BY StepEffect DEF IInv
<1>2. rows' \subseteq {r \in Requests : req'[r].path \in Paths /\ req'[r].hash # Nobody}
  <2>1. rows' \subseteq Requests
    BY <1>1, StepEffect DEF TypeOK, StepDoes, AskDoes, ForgetDoes, GoDoes, FindDoes, RemoveDoes,
       DeleteDoes, SaveDoes, UnsaveDoes, HashDoes, StoreDoes, SameFiles
  <2>2. ASSUME NEW r \in rows' PROVE req'[r].path \in Paths /\ req'[r].hash # Nobody
    <3>1. r \in Requests /\ InOrder(r)
      BY <2>1, Ordered
    <3>2. r \in rows \/ req[r].pc = "storing" =>
            /\ req[r].path \in Paths /\ req[r].hash # Nobody
      BY <1>1, <3>1 DEF TypeOK, InOrder, Pathed, Holding
    <3> QED
      BY <2>2, <3>1, <3>2, RowsStep
  <2> QED
    BY <2>1, <2>2
<1>3. disk' \in [Paths -> Requests \cup {Nobody}]
  <2>1. ASSUME NEW r \in Requests, StepDoes(r)
        PROVE  \/ disk' = disk
               \/ \E p, w : w \in Requests \cup {Nobody} /\ disk' = [disk EXCEPT ![p] = w]
    <3>1. CASE RemoveDoes(r) \/ UnsaveDoes(r) \/ SaveDoes(r)
      <4>1. \E p : \E w \in Requests \cup {Nobody} : disk' = [disk EXCEPT ![p] = w]
        <5>1. CASE RemoveDoes(r)
          BY <5>1 DEF RemoveDoes
        <5>2. CASE UnsaveDoes(r)
          BY <5>2 DEF UnsaveDoes
        <5>3. CASE SaveDoes(r)
          <6>1. PICK w \in {disk[req'[r].path], Nobody, r} : disk' = [disk EXCEPT ![req'[r].path] = w]
            BY <5>3 DEF SaveDoes
          <6>2. w \in Requests \cup {Nobody}
            BY <1>1, <5>3, <6>1 DEF SaveDoes, TypeOK
          <6> QED
            BY <6>1, <6>2
        <5> QED
          BY <3>1, <5>1, <5>2, <5>3
      <4> QED
        BY <4>1
    <3>2. CASE ~(RemoveDoes(r) \/ UnsaveDoes(r) \/ SaveDoes(r))
      BY <2>1, <3>2 DEF StepDoes, AskDoes, ForgetDoes, GoDoes, FindDoes, DeleteDoes, HashDoes, StoreDoes,
                        SameFiles
    <3> QED
      BY <3>1, <3>2
  <2> QED
    BY <1>1, <2>1, StepEffect DEF TypeOK, SameFiles
<1> QED
  BY <1>1, <1>2, <1>3, RequestsTyped, UploadStep DEF TypeOK, Counts

LEMMA RequestsStep ==
    ASSUME IInv, [Next]_vars
    PROVE  RequestsInOrder'
<1>1. \A r \in Requests : InOrder(r)' /\ PathTells(r)' /\ RowInOrder(r)' /\ MetInOrder(r)'
  BY InOrderStep, PathTellsStep, RowInOrderStep, MetStep
<1> QED
  BY <1>1 DEF RequestsInOrder

-----------------------------------------------------------------------------
(* The rows and their files.                                               *)

\* A new row is stored by its own request.
LEMMA NewRow ==
    ASSUME IInv, [Next]_vars, NEW x \in rows', x \notin rows
    PROVE  x \in Requests /\ StoreDoes(x)
<1>1. ASSUME NEW r \in Requests, StepDoes(r) PROVE x \in Requests /\ StoreDoes(x)
  BY <1>1 DEF StepDoes, AskDoes, ForgetDoes, GoDoes, FindDoes, RemoveDoes, DeleteDoes, SaveDoes,
     UnsaveDoes, HashDoes, StoreDoes, SameFiles
<1> QED
  BY <1>1, StepEffect DEF SameFiles

\* A row, or what is about to be one, is of a request that wrote and stays what it is.
LEMMA RowStays ==
    ASSUME IInv, [Next]_vars, NEW x \in rows'
    PROVE  /\ x \in Requests /\ Took(x) /\ Took(x)'
           /\ req'[x].path = req[x].path /\ req'[x].kind = req[x].kind /\ req'[x].name = req[x].name
           /\ x \in rows \/ x \in Running
<1>1. x \in rows \/ (x \in Requests /\ req[x].pc = "storing")
  BY NewRow DEF StoreDoes
<1>2. x \in Requests
  BY <1>1 DEF IInv, TypeOK
<1>3. InOrder(x) /\ RowInOrder(x) /\ TypeOK
  BY <1>2, Ordered
<1>4. Took(x)
  BY <1>1, <1>3, NoPathIsNone DEF InOrder, RowInOrder, Pathed, Holding, Took
<1>5. req[x].pc = "storing" => x \in Running
  BY <1>2 DEF Running, Over
<1> QED
  BY <1>1, <1>2, <1>4, <1>5, Lasting, TookLasts DEF Lasts

\* Two that met and wrote under one name make it ambiguous.
LEMMA MetAmbiguous ==
    ASSUME NEW s \in Requests, NEW t \in Requests, s # t, s \in req[t].met \/ t \in req[s].met,
           Took(s), Took(t), NEW n \in Names, Named(s, n), Named(t, n)
    PROVE  Ambiguous(n)
BY DEF Named, Ambiguous

\* Requests that run have met each other.
LEMMA RunnersMet ==
    ASSUME IInv, NEW s \in Running, NEW t \in Running, s # t
    PROVE  s \in req[t].met /\ t \in req[s].met
BY Ordered DEF MetInOrder, Running

LEMMA TwinRowsStep ==
    ASSUME IInv, [Next]_vars
    PROVE  TwinRows'
<1> SUFFICES ASSUME NEW r \in rows', NEW s \in rows', NEW n \in Names, r # s,
                    Named(r, n)', Named(s, n)'
             PROVE  Ambiguous(n)'
  BY DEF TwinRows
<1>1. /\ r \in Requests /\ Took(r) /\ Named(r, n) /\ (r \in rows \/ r \in Running)
      /\ s \in Requests /\ Took(s) /\ Named(s, n) /\ (s \in rows \/ s \in Running)
  BY RowStays DEF Named
<1>2. ASSUME NEW x \in Requests, NEW y \in Requests, x # y, x \in rows', y \in rows',
             x \notin rows, y \in rows, Took(x), Took(y), Named(x, n), Named(y, n)
      PROVE  Ambiguous(n)
  <2>1. StoreDoes(x)
    BY <1>2, NewRow
  <2>2. Looked(x)
    BY DEF IInv, FilesInOrder
  <2>3. CASE y \in req[x].met
    BY <1>2, <2>3, MetAmbiguous
  <2>4. CASE y \notin req[x].met
    BY <1>2, <2>1, <2>2, <2>4 DEF Looked, StoreDoes, Named, Pathed, Holding
  <2> QED
    BY <2>3, <2>4
<1>3. Ambiguous(n)
  <2>1. CASE r \in rows /\ s \in rows
    BY <1>1, <2>1 DEF IInv, FilesInOrder, TwinRows
  <2>2. CASE r \notin rows /\ s \notin rows
    BY <1>1, <2>2, RunnersMet, MetAmbiguous
  <2>3. CASE r \notin rows /\ s \in rows
    BY <1>1, <1>2, <2>3
  <2>4. CASE r \in rows /\ s \notin rows
    BY <1>1, <1>2, <2>4
  <2> QED
    BY <2>1, <2>2, <2>3, <2>4
<1> QED
  BY <1>3, AmbiguousLasts

LookedAt == {"checking", "replacing", "deleting", "saving"} \cup Pathed

\* An extra upload is past the lookup, or has just done it.
LEMMA LookedBefore ==
    ASSUME IInv, [Next]_vars, NEW s \in Requests, req'[s].kind = "extra", req'[s].pc \in LookedAt
    PROVE  \/ FindDoes(s) /\ req[s].kind = "extra"
           \/ /\ req[s].kind = "extra" /\ req[s].pc \in LookedAt /\ req'[s].name = req[s].name
              /\ req'[s].victim = req[s].victim /\ req[s].met \subseteq req'[s].met
<1>1. InOrder(s)
  BY Ordered
<1>2. CASE req'[s] = req[s]
  BY <1>2
<1>3. ASSUME NEW r \in Requests, StepDoes(r)
      PROVE  \/ FindDoes(s) /\ req[s].kind = "extra"
             \/ /\ req[s].kind = "extra" /\ req[s].pc \in LookedAt /\ req'[s].name = req[s].name
                /\ req'[s].victim = req[s].victim /\ req[s].met \subseteq req'[s].met
  <2>1. CASE AskDoes(r) /\ s = r
    <3>1. FirstStep("extra") = "finding"
      BY DEF FirstStep
    <3>2. req'[s].pc = FirstStep("extra")
      BY <2>1 DEF AskDoes
    <3> QED
      BY <3>1, <3>2 DEF LookedAt, Pathed, Holding
  <2>2. CASE AskDoes(r) /\ s # r
    <3>1. Meets(s, r)
      BY <2>2 DEF AskDoes
    <3> QED
      BY <3>1 DEF Meets, SameData
  <2>3. CASE Others(r) /\ s # r
    BY <1>2, <2>3 DEF Others
  <2>4. CASE s = r /\ ForgetDoes(r)
    BY <2>4 DEF ForgetDoes, LookedAt, Pathed, Holding
  <2>5. CASE s = r /\ GoDoes(r)
    BY <2>5 DEF GoDoes, Keeps, SameData, LookedAt, Pathed, Holding
  <2>6. CASE s = r /\ FindDoes(r)
    BY <2>6 DEF FindDoes, Keeps
  <2>7. CASE s = r /\ (RemoveDoes(r) \/ DeleteDoes(r) \/ UnsaveDoes(r) \/ StoreDoes(r))
    BY <2>7 DEF RemoveDoes, DeleteDoes, UnsaveDoes, StoreDoes, Keeps, SameData, LookedAt, Pathed, Holding
  <2>8. CASE s = r /\ SaveDoes(r)
    BY <1>1, <2>8 DEF SaveDoes, Keeps, LookedAt, Pathed, Holding, InOrder
  <2>9. CASE s = r /\ HashDoes(r)
    BY <2>9 DEF HashDoes, Keeps, LookedAt, Pathed, Holding
  <2> QED
    BY <1>2, <1>3, <2>1, <2>2, <2>3, <2>4, <2>5, <2>6, <2>7, <2>8, <2>9, Alone DEF StepDoes
<1> QED
  BY <1>2, <1>3, StepEffect

\* What is looked up is a row of the name, when there is one.
LEMMA FoundNamed ==
    ASSUME IInv, NEW s \in Requests, FindDoes(s), NEW n \in Names, req[s].name = n,
           NEW r \in rows, Named(r, n)
    PROVE  \/ req'[s].victim = r \/ Ambiguous(n)
<1>1. rows \subseteq Requests
  BY DEF IInv, TypeOK
<1> DEFINE named == {v \in ExtraRows : FileName(req[v]) = n}
<1>2. r \in named
  BY DEF Named, ExtraRows, FileName
<1>3. Replaceable(req[s]) = named
  BY <1>2 DEF Replaceable
<1>4. req'[s].victim \in named
  BY <1>2, <1>3 DEF FindDoes
<1>5. PICK v \in named : v = req'[s].victim
  BY <1>4
<1>6. v \in rows /\ req[v].kind \in {"extra", "chunked"} /\ FileName(req[v]) = n
  BY <1>5 DEF ExtraRows
<1>7. CASE req[v].kind = "chunked"
  <2>1. Took(v)
    BY <1>1, <1>6, Ordered DEF RowInOrder
  <2> QED
    BY <1>1, <1>6, <1>7, <2>1 DEF Ambiguous
<1>8. CASE req[v].kind = "extra" /\ v # r
  <2>1. Named(v, n)
    BY <1>6, <1>8 DEF Named, FileName
  <2> QED
    BY <1>6, <1>8, <2>1 DEF IInv, FilesInOrder, TwinRows
<1> QED
  BY <1>5, <1>6, <1>7, <1>8

LEMMA LookedStep ==
    ASSUME IInv, [Next]_vars, NEW s \in Requests
    PROVE  Looked(s)'
<1> SUFFICES ASSUME req'[s].kind = "extra", req'[s].pc \in LookedAt,
                    NEW n \in Names, n = req'[s].name,
                    NEW r \in rows', r \notin req'[s].met, r # s, Named(r, n)'
             PROVE  req'[s].victim = r \/ Ambiguous(n)'
  <2>1. req'[s].kind = "extra" => req'[s].name \in Names
    <3>1. InOrder(s)'
      BY InOrderStep
    <3> QED
      BY <3>1 DEF InOrder, Kinds
  <2> QED
    BY <2>1 DEF Looked, LookedAt, Ambiguous
<1>1. /\ r \in Requests /\ Named(r, n) /\ (r \in rows \/ r \in Running)
  BY RowStays DEF Named
<1>2. CASE FindDoes(s)
  <2>1. r \in rows /\ req[s].name = n
    BY <1>2 DEF FindDoes, Keeps, SameFiles
  <2> QED
    BY <1>1, <1>2, <2>1, FoundNamed, AmbiguousLasts
<1>3. CASE /\ req[s].kind = "extra" /\ req[s].pc \in LookedAt /\ req'[s].name = req[s].name
           /\ req'[s].victim = req[s].victim /\ req[s].met \subseteq req'[s].met
  <2>1. s \in Running
    BY <1>3 DEF Running, LookedAt, Pathed, Holding, Over
  <2>2. r \notin req[s].met
    BY <1>3
  <2>3. r \in rows
    BY <1>1, <2>1, <2>2, RunnersMet
  <2>4. Looked(s)
    BY DEF IInv, FilesInOrder
  <2>5. req[s].victim = r \/ Ambiguous(n)
    <3>1. req[s].name = n
      BY <1>3
    <3> QED
      BY <1>1, <1>3, <2>2, <2>3, <2>4, <3>1 DEF Looked, LookedAt
  <2> QED
    BY <1>3, <2>5, AmbiguousLasts
<1> QED
  BY <1>2, <1>3, LookedBefore

\* Rows that share a path: one was overwritten.
LEMMA SamePath ==
    ASSUME IInv, NEW v \in rows, NEW r \in rows, v # r, req[r].path = req[v].path
    PROVE  Overwrites(v, r)
<1>1. /\ v \in Requests /\ r \in Requests
      /\ TypeOK /\ PathTells(v) /\ PathTells(r) /\ InOrder(r) /\ InOrder(v) /\ Took(v) /\ Took(r)
  <2>1. rows \subseteq Requests
    BY DEF IInv, TypeOK
  <2> QED
    BY <2>1, Ordered DEF RowInOrder
<1>2. CASE req[r].kind = "extra" /\ req[v].name = req[r].name
  <2>1. PICK n \in Names : n = req[r].name
    BY <1>1, <1>2 DEF InOrder, Kinds
  <2>2. SafeName[n] \in Names /\ \A k \in Kinds : k = req[v].kind => SafeName[req[v].name] \in Names
    BY <1>1, <2>1, NamesAssumption DEF InOrder
  <2>3. req[v].kind = "extra"
    BY <1>1, <1>2, <2>1, <2>2, PathsApart DEF PathTells, Took, Kinds
  <2>4. Ambiguous(n)
    BY <1>2, <2>1, <2>3 DEF IInv, FilesInOrder, TwinRows, Named
  <2>5. Ambiguous(req[r].name)
    BY <2>1, <2>4
  <2> QED
    BY <1>1, <2>5 DEF Overwrites
<1> QED
  BY <1>1, <1>2 DEF Overwrites

\* What a request replaces or deletes is chosen once.
LEMMA ChosenBefore ==
    ASSUME IInv, [Next]_vars, NEW s \in Requests, req'[s].victim # Nobody,
           req'[s].pc \in {"checking", "replacing"}
    PROVE  \/ (FindDoes(s) \/ AskDoes(s)) /\ req'[s].victim \in rows /\ rows' = rows
           \/ /\ req[s].pc \in {"checking", "replacing"} /\ req'[s].victim = req[s].victim
              /\ req[s].met \subseteq req'[s].met
<1>1. InOrder(s)
  BY Ordered
<1>2. CASE req'[s] = req[s]
  BY <1>2
<1>3. ASSUME NEW r \in Requests, StepDoes(r)
      PROVE  \/ (FindDoes(s) \/ AskDoes(s)) /\ req'[s].victim \in rows /\ rows' = rows
             \/ /\ req[s].pc \in {"checking", "replacing"} /\ req'[s].victim = req[s].victim
                /\ req[s].met \subseteq req'[s].met
  <2>1. CASE AskDoes(r) /\ s = r
    BY <2>1 DEF AskDoes, SameFiles
  <2>2. CASE AskDoes(r) /\ s # r
    <3>1. Meets(s, r)
      BY <2>2 DEF AskDoes
    <3> QED
      BY <3>1 DEF Meets, SameData
  <2>3. CASE Others(r) /\ s # r
    BY <1>2, <2>3 DEF Others
  <2>4. CASE s = r /\ ForgetDoes(r)
    BY <2>4 DEF ForgetDoes
  <2>5. CASE s = r /\ GoDoes(r)
    BY <1>1, <2>5 DEF GoDoes, Keeps, SameData, InOrder
  <2>6. CASE s = r /\ FindDoes(r)
    BY <2>6 DEF FindDoes, SameFiles, Replaceable, ExtraRows
  <2>7. CASE s = r /\ (RemoveDoes(r) \/ DeleteDoes(r) \/ UnsaveDoes(r) \/ StoreDoes(r)
                          \/ SaveDoes(r) \/ HashDoes(r))
    BY <2>7 DEF RemoveDoes, DeleteDoes, UnsaveDoes, StoreDoes, SaveDoes, HashDoes
  <2> QED
    BY <1>2, <1>3, <2>1, <2>2, <2>3, <2>4, <2>5, <2>6, <2>7, Alone DEF StepDoes
<1> QED
  BY <1>2, <1>3, StepEffect

LEMMA ChosenStep ==
    ASSUME IInv, [Next]_vars, NEW s \in Requests
    PROVE  Chosen(s)'
<1>1. TypeOK /\ RowInOrder(s)' /\ req'[s] \in Request
  BY RowInOrderStep, RequestsTyped DEF IInv
<1> SUFFICES ASSUME req'[s].pc \in {"checking", "replacing"},
                    NEW v \in Requests, v = req'[s].victim,
                    NEW r \in rows', r \notin req'[s].met, r # v, req'[r].path = req'[v].path
             PROVE  Overwrites(v, r)'
  <2>1. req'[s].victim \in Requests \cup {Nobody}
    BY <1>1 DEF Request
  <2> QED
    BY <2>1 DEF Chosen, Overwrites, Ambiguous, Took
<1>2. /\ r \in Requests /\ Took(r) /\ req'[r].path = req[r].path /\ (r \in rows \/ r \in Running)
  BY RowStays
<1>3. v # Nobody
  BY NobodyAssumption
<1>4. CASE (FindDoes(s) \/ AskDoes(s)) /\ v \in rows /\ rows' = rows
  <2>1. req'[v].path = req[v].path
    BY <1>4, RowStays
  <2>2. Overwrites(v, r)
    BY <1>2, <1>4, <2>1, SamePath
  <2> QED
    BY <1>2, <2>2, OverwritesLasts
<1>5. CASE /\ req[s].pc \in {"checking", "replacing"} /\ v = req[s].victim
           /\ req[s].met \subseteq req'[s].met
  <2>1. s \in Running /\ r \notin req[s].met
    BY <1>5 DEF Running, Over
  <2>2. r \in rows
    <3>1. CASE r \in Running /\ r \notin rows
      <4>1. r # s
        BY <1>5, <3>1, NewRow DEF StoreDoes
      <4> QED
        BY <2>1, <3>1, <4>1, RunnersMet
    <3> QED
      BY <1>2, <3>1
  <2>3. Took(v)
    BY <1>3, <1>5, Ordered DEF RowInOrder
  <2>4. req'[v].path = req[v].path
    BY <2>3, Lasting DEF Lasts
  <2>5. Chosen(s)
    BY DEF IInv, FilesInOrder
  <2>6. Overwrites(v, r)
    BY <1>2, <1>3, <1>5, <2>1, <2>2, <2>4, <2>5 DEF Chosen
  <2> QED
    BY <1>2, <2>6, OverwritesLasts
<1> QED
  BY <1>3, <1>4, <1>5, ChosenBefore

\* Two that met, one of which wrote to the path of the other.
LEMMA MetOnPath ==
    ASSUME IInv, [Next]_vars, NEW s \in Requests, NEW r \in Requests, s # r, Took(s)', Took(r)',
           req'[s].path = req'[r].path, s \in req'[r].met \/ r \in req'[s].met
    PROVE  Overwrites(s, r)'
<1>1. /\ TypeOK' /\ PathTells(s)' /\ PathTells(r)' /\ InOrder(s)' /\ InOrder(r)'
  BY TypeStep, PathTellsStep, InOrderStep
<1>2. CASE req'[r].kind = "extra" /\ req'[s].name = req'[r].name
  <2>1. PICK n \in Names : n = req'[r].name
    BY <1>1, <1>2 DEF InOrder, Kinds
  <2>2. SafeName[n] \in Names
    BY <2>1, NamesAssumption
  <2>3. req'[s].kind = "extra"
    BY <1>1, <1>2, <2>1, <2>2, PathsApart DEF PathTells, Took, Kinds
  <2>4. Ambiguous(n)'
    BY <1>2, <2>1, <2>3 DEF Ambiguous
  <2>5. Ambiguous(req[r].name)'
    BY <2>1, <2>4 DEF Ambiguous
  <2> QED
    BY <2>5 DEF Overwrites
<1>3. CASE req'[r].kind # "extra" \/ req'[s].name # req'[r].name
  BY <1>3 DEF Overwrites
<1> QED
  BY <1>2, <1>3

\* A file comes to be a row's only when it is written.
LEMMA LiveBefore ==
    ASSUME IInv, [Next]_vars, NEW r \in Requests, Live(r)'
    PROVE  \/ SaveDoes(r)
           \/ /\ Live(r) /\ Took(r) /\ req'[r].path = req[r].path
              /\ req[r].pc \in Holding \/ r \in rows
<1>1. InOrder(r) /\ RowInOrder(r)
  BY Ordered
<1>2. Live(r) => Took(r) /\ (req[r].pc \in Holding \/ r \in rows)
  BY <1>1, NoPathIsNone DEF Live, InOrder, Pathed, RowInOrder, Took
<1>3. Took(r) => req'[r].path = req[r].path
  BY Lasting DEF Lasts
<1> SUFFICES SaveDoes(r) \/ Live(r)
  BY <1>2, <1>3
<1>4. CASE r \in rows'
  <2>1. r \notin rows => Live(r)
    BY <1>4, NewRow DEF StoreDoes, Live, Holding
  <2>2. CASE r \in rows /\ req[r].kind = "chunked" /\ req[r].pc = "failed"
    <3>1. Took(r)
      BY <1>1, <2>2 DEF RowInOrder
    <3>2. req'[r].kind = "chunked"
      BY <2>2, <3>1, Lasting DEF Lasts
    <3>3. ASSUME NEW x \in Requests, StepDoes(x) PROVE req'[r].pc = "failed"
      BY <2>2, <3>3 DEF StepDoes, AskDoes, Meets, ForgetDoes, Forgets, GoDoes, FindDoes, RemoveDoes,
         DeleteDoes, SaveDoes, UnsaveDoes, HashDoes, StoreDoes, Keeps, Others, Before, Pathed, Holding
    <3>4. req'[r].pc = "failed"
      BY <2>2, <3>3, StepEffect
    <3> QED
      BY <3>2, <3>4 DEF Live, At, Holding
  <2> QED
    BY <2>1, <2>2 DEF Live, At
<1>5. CASE req'[r].pc \in Holding
  <2>1. ASSUME NEW x \in Requests, StepDoes(x) PROVE SaveDoes(r) \/ req[r].pc \in Holding
    <3>1. CASE AskDoes(x)
      <4>1. x # r
        BY <1>5, <3>1 DEF AskDoes, FirstStep, Kinds, Holding
      <4> QED
        BY <1>5, <3>1, <4>1 DEF AskDoes, Meets
    <3>2. CASE Others(x) /\ x # r
      BY <1>5, <3>2 DEF Others
    <3>3. CASE x = r /\ ~AskDoes(r)
      BY <1>5, <2>1, <3>3 DEF StepDoes, ForgetDoes, GoDoes, FindDoes, RemoveDoes, DeleteDoes,
         UnsaveDoes, HashDoes, StoreDoes, Holding
    <3>4. CASE req' = req
      BY <1>5, <3>4
    <3> QED
      BY <2>1, <3>1, <3>2, <3>3, <3>4, Alone
  <2> QED
    BY <1>5, <2>1, StepEffect DEF Live
<1> QED
  BY <1>4, <1>5 DEF Live

\* What a request writes is a row's only when it is written.
LEMMA SavedLive ==
    ASSUME IInv, [Next]_vars, NEW r \in Requests, SaveDoes(r), Live(r)'
    PROVE  req'[r].pc = "validating"
<1>1. r \notin rows
  BY Ordered DEF RowInOrder, SaveDoes
<1>2. r \notin rows'
  BY <1>1 DEF SaveDoes
<1> QED
  BY <1>2 DEF SaveDoes, Live, Holding

\* A request that has a path took it before, or has just.
LEMMA PathedBefore ==
    ASSUME IInv, [Next]_vars, NEW s \in Requests, req'[s].pc \in Pathed
    PROVE  SaveDoes(s) \/ (req[s].pc \in Pathed /\ Took(s) /\ req'[s].path = req[s].path)
<1>1. ASSUME NEW x \in Requests, StepDoes(x) PROVE SaveDoes(s) \/ req[s].pc \in Pathed
  <2>1. CASE AskDoes(x)
    <3>1. x # s
      BY <2>1 DEF AskDoes, FirstStep, Kinds, Pathed, Holding
    <3> QED
      BY <2>1, <3>1 DEF AskDoes, Meets
  <2>2. CASE Others(x) /\ x # s
    BY <2>2 DEF Others
  <2>3. CASE x = s /\ ~AskDoes(s)
    BY <1>1, <2>3 DEF StepDoes, ForgetDoes, GoDoes, FindDoes, RemoveDoes, DeleteDoes,
       UnsaveDoes, HashDoes, StoreDoes, Pathed, Holding
  <2>4. CASE req' = req
    BY <2>4
  <2> QED
    BY <1>1, <2>1, <2>2, <2>3, <2>4, Alone
<1>2. SaveDoes(s) \/ req[s].pc \in Pathed
  BY <1>1, StepEffect
<1>3. req[s].pc \in Pathed => Took(s)
  BY Ordered, NoPathIsNone DEF InOrder, Took
<1>4. Took(s) => req'[s].path = req[s].path
  BY Lasting DEF Lasts
<1> QED
  BY <1>2, <1>3, <1>4

\* A file is written to the path of another's.
LEMMA SavedOver ==
    ASSUME IInv, [Next]_vars, NEW s \in Requests, SaveDoes(s),
           NEW r \in Requests, r # s, Live(r), Took(r), req'[r].path = req[r].path,
           req[r].pc \in Holding \/ r \in rows, req'[s].path = req'[r].path
    PROVE  Excused(r)'
<1>1. Took(s)' /\ Took(r)' /\ s \in Running
  BY NoPathIsNone DEF SaveDoes, Took, Running, Over
<1>2. req'[r].met = req[r].met /\ req'[s].met = req[s].met /\ req'[s].victim = req[s].victim
      /\ req'[r].kind = req[r].kind /\ req'[r].name = req[r].name
      /\ req'[s].kind = req[s].kind /\ req'[s].name = req[s].name
  BY DEF SaveDoes, Keeps, Others
<1>3. CASE s \in req[r].met \/ r \in req[s].met
  BY <1>1, <1>2, <1>3, MetOnPath DEF Excused
<1>4. CASE r \notin req[s].met /\ s \notin req[r].met
  <2>1. r \in rows
    <3>1. req[r].pc \in Holding => r \in Running
      BY DEF Running, Over, Holding
    <3> QED
      BY <1>1, <1>4, <3>1, RunnersMet
  <2>2. CASE req[r].kind = "extra" /\ req[s].name = req[r].name
    <3>1. InOrder(r) /\ InOrder(s)' /\ PathTells(s)' /\ PathTells(r)' /\ TypeOK'
      BY Ordered, InOrderStep, PathTellsStep, TypeStep
    <3>2. PICK n \in Names : n = req[r].name
      BY <2>2, <3>1 DEF InOrder, Kinds
    <3>3. SafeName[n] \in Names
      BY NamesAssumption
    <3>4. req[s].kind = "extra"
      BY <1>1, <1>2, <2>2, <3>1, <3>2, <3>3, PathsApart DEF PathTells, Took, Kinds
    <3>5. req[s].pc \in {"saving", "writing"}
      BY <3>4, Ordered DEF SaveDoes, InOrder
    <3>6. Looked(s) /\ Named(r, n) /\ req[s].name = n
      BY <2>2, <3>2 DEF IInv, FilesInOrder, Named
    <3>7. req[s].victim = r \/ Ambiguous(n)
      BY <1>4, <2>1, <3>4, <3>5, <3>6 DEF Looked, Pathed
    <3>8. CASE req[s].victim = r
      <4>1. HalfDeleted(s, r)'
        BY <1>2, <3>8 DEF HalfDeleted, Acted, SaveDoes
      <4> QED
        BY <4>1 DEF Excused
    <3>9. CASE Ambiguous(n)
      <4>1. Ambiguous(n)'
        BY <3>9, AmbiguousLasts
      <4>2. n = req'[r].name
        BY <1>2, <3>2
      <4>3. Ambiguous(req[r].name)'
        BY <4>1, <4>2 DEF Ambiguous
      <4>4. Overwrites(s, r)'
        BY <1>1, <4>3 DEF Overwrites
      <4> QED
        BY <4>4 DEF Excused
    <3> QED
      BY <3>7, <3>8, <3>9
  <2>3. CASE req[r].kind # "extra" \/ req[s].name # req[r].name
    <3>1. Overwrites(s, r)'
      BY <1>1, <1>2, <2>3 DEF Overwrites
    <3> QED
      BY <3>1 DEF Excused
  <2> QED
    BY <2>2, <2>3
<1> QED
  BY <1>3, <1>4

LEMMA ApartStep ==
    ASSUME IInv, [Next]_vars, NEW s \in Requests
    PROVE  Apart(s)'
<1> SUFFICES ASSUME req'[s].pc \in Pathed, NEW r \in Requests, r # s, Live(r)',
                    req'[r].path = req'[s].path
             PROVE  Excused(r)'
  BY DEF Apart
<1>1. CASE SaveDoes(s)
  <2>1. ~SaveDoes(r)
    BY <1>1 DEF SaveDoes, Keeps, Others
  <2>2. /\ Live(r) /\ Took(r) /\ req'[r].path = req[r].path
        /\ req[r].pc \in Holding \/ r \in rows
    BY <2>1, LiveBefore
  <2> QED
    BY <1>1, <2>2, SavedOver
<1>2. CASE req[s].pc \in Pathed /\ Took(s) /\ req'[s].path = req[s].path /\ SaveDoes(r)
  <2>1. Took(r)' /\ Took(s)'
    BY <1>2, TookLasts, NoPathIsNone DEF SaveDoes, Took
  <2>2. r \in Running /\ s \in Running
    BY <1>2 DEF Running, SaveDoes, Pathed, Holding, Over
  <2>3. s \in req'[r].met
    BY <1>2, <2>2, RunnersMet DEF SaveDoes, Keeps
  <2>4. Overwrites(s, r)'
    BY <2>1, <2>3, MetOnPath
  <2> QED
    BY <2>4 DEF Excused
<1>3. CASE req[s].pc \in Pathed /\ Took(s) /\ req'[s].path = req[s].path /\ ~SaveDoes(r)
  <2>1. Live(r) /\ Took(r) /\ req'[r].path = req[r].path
    BY <1>3, LiveBefore
  <2>2. Apart(s)
    BY DEF IInv, FilesInOrder
  <2>3. Excused(r)
    BY <1>3, <2>1, <2>2 DEF Apart
  <2> QED
    BY <2>1, <2>3, ExcuseLasts
<1> QED
  BY <1>1, <1>2, <1>3, PathedBefore

\* A file is removed that was chosen, or one on the same path.
LEMMA RemovedAt ==
    ASSUME IInv, [Next]_vars, NEW s \in Requests, RemoveDoes(s),
           NEW r \in Requests, Live(r), Took(r), req[r].pc \in Holding \/ r \in rows,
           req[req[s].victim].path = req[r].path
    PROVE  Excused(r)'
<1>1. PICK v \in Requests : v = req[s].victim
  BY Ordered DEF RemoveDoes, InOrder
<1>2. s \in Running /\ req'[s].victim = v /\ Acted(s)' /\ Took(v)
  BY <1>1, Ordered, NobodyAssumption
  DEF Running, Over, RemoveDoes, SameData, Acted, RowInOrder
<1>3. req'[r].path = req[r].path /\ req'[v].path = req[v].path /\ req[r].met \subseteq req'[r].met
  BY <1>2, Lasting DEF Lasts
<1>4. CASE v = r
  <2>1. HalfDeleted(s, r)'
    BY <1>2, <1>4 DEF HalfDeleted
  <2> QED
    BY <2>1 DEF Excused
<1>5. CASE v # r /\ s \in req[r].met
  <2>1. RemovesToo(s, r)'
    BY <1>1, <1>2, <1>3, <1>5 DEF RemovesToo
  <2> QED
    BY <2>1 DEF Excused
<1>6. CASE v # r /\ s \notin req[r].met
  <2>1. r # s
    <3>1. req[r].pc # "replacing"
      BY Ordered DEF RowInOrder, Holding
    <3> QED
      BY <3>1 DEF RemoveDoes
  <2>2. r \in rows
    <3>1. req[r].pc \in Holding => r \in Running
      BY DEF Running, Over, Holding
    <3> QED
      BY <1>2, <1>6, <2>1, <3>1, RunnersMet
  <2>3. r \notin req[s].met
    BY <1>6, Ordered DEF MetInOrder
  <2>4. Chosen(s) /\ v # Nobody
    BY NobodyAssumption DEF IInv, FilesInOrder
  <2>5. Overwrites(v, r)
    BY <1>1, <1>6, <2>2, <2>3, <2>4 DEF Chosen, RemoveDoes
  <2>6. Overwrites(v, r)'
    BY <2>5, OverwritesLasts
  <2> QED
    BY <2>6 DEF Excused
<1> QED
  BY <1>4, <1>5, <1>6

LEMMA DiskStep ==
    ASSUME IInv, [Next]_vars, NEW r \in Requests, Live(r)'
    PROVE  Excused(r)' \/ disk'[req'[r].path] = r
<1>1. TypeOK /\ TypeOK' /\ InOrder(r)' /\ RowInOrder(r)' /\ Kept(r)
  BY Ordered, TypeStep, InOrderStep, RowInOrderStep DEF IInv, FilesInOrder
<1>2. CASE SaveDoes(r)
  <2>1. req'[r].pc = "validating"
    BY <1>2, SavedLive
  <2> QED
    BY <1>1, <1>2, <2>1 DEF SaveDoes, TypeOK
<1>3. CASE ~SaveDoes(r)
  <2>1. /\ Live(r) /\ Took(r) /\ req'[r].path = req[r].path
        /\ req[r].pc \in Holding \/ r \in rows
    BY <1>3, LiveBefore
  <2>2. CASE Excused(r)
    BY <2>1, <2>2, ExcuseLasts
  <2>3. CASE disk[req[r].path] = r
    <3> DEFINE p == req[r].path
    <3>1. p \in Paths
      BY <1>1, <2>1 DEF TypeOK, Request, Took
    <3>2. CASE disk' = disk
      BY <2>1, <2>3, <3>2
    <3>3. ASSUME NEW s \in Requests, RemoveDoes(s) PROVE Excused(r)' \/ disk'[p] = r
      <4>1. CASE req[req[s].victim].path = p
        BY <2>1, <3>3, <4>1, RemovedAt
      <4>2. CASE req[req[s].victim].path # p
        BY <1>1, <2>3, <3>1, <3>3, <4>2 DEF RemoveDoes, TypeOK
      <4> QED
        BY <4>1, <4>2
    <3>4. ASSUME NEW s \in Requests, SaveDoes(s) PROVE Excused(r)' \/ disk'[p] = r
      <4>1. CASE req'[s].path = p
        BY <1>3, <2>1, <3>4, <4>1, SavedOver
      <4>2. CASE req'[s].path # p
        BY <1>1, <2>3, <3>1, <3>4, <4>2 DEF SaveDoes, TypeOK
      <4> QED
        BY <4>1, <4>2
    <3>5. ASSUME NEW s \in Requests, UnsaveDoes(s) PROVE Excused(r)' \/ disk'[p] = r
      <4>1. CASE s = r
        <5>1. \/ req[r].pc = "validating" /\ req'[r].pc = "refused"
              \/ req'[r].kind = "chunked" /\ req'[r].pc = "failed"
          BY <3>5, <4>1 DEF UnsaveDoes, Keeps
        <5>2. req'[r].pc # "refused"
          BY <1>1, <5>1 DEF Live, RowInOrder, Holding
        <5> QED
          BY <5>1, <5>2 DEF Live, At, Holding
      <4>2. CASE s # r /\ req[s].path = p
        <5>1. Apart(s) /\ req[s].pc \in Pathed
          BY <3>5 DEF IInv, FilesInOrder, UnsaveDoes, Pathed, Holding
        <5>2. Excused(r)
          BY <2>1, <4>2, <5>1 DEF Apart
        <5> QED
          BY <2>1, <5>2, ExcuseLasts
      <4>3. CASE req[s].path # p
        BY <1>1, <2>3, <3>1, <3>5, <4>3 DEF UnsaveDoes, TypeOK
      <4> QED
        BY <4>1, <4>2, <4>3
    <3>6. ASSUME NEW s \in Requests, StepDoes(s), ~RemoveDoes(s), ~SaveDoes(s), ~UnsaveDoes(s)
          PROVE  disk' = disk
      BY <3>6 DEF StepDoes, AskDoes, ForgetDoes, GoDoes, FindDoes, DeleteDoes, HashDoes, StoreDoes,
                  SameFiles
    <3>7. Excused(r)' \/ disk'[p] = r
      BY <2>3, <3>2, <3>3, <3>4, <3>5, <3>6, StepEffect DEF SameFiles
    <3> QED
      BY <2>1, <3>7
  <2> QED
    BY <1>1, <2>1, <2>2, <2>3 DEF Kept
<1> QED
  BY <1>2, <1>3

\* A hash is what was read from the file.
LEMMA HashBefore ==
    ASSUME IInv, [Next]_vars, NEW r \in Requests, Live(r)', req'[r].pc \notin {"validating", "hashing"}
    PROVE  HashDoes(r) \/ (req[r].pc \notin {"validating", "hashing"} /\ req'[r].hash = req[r].hash)
<1>1. InOrder(r) /\ RowInOrder(r) /\ RowInOrder(r)'
  BY Ordered, RowInOrderStep
<1>2. req'[r].pc \in {"storing", "stored"} \/ r \in rows'
  BY DEF Live, Holding
<1>3. req'[r].pc \in {"storing", "stored", "done", "failed", "lost"}
  BY <1>1, <1>2 DEF RowInOrder
<1>4. CASE req'[r] = req[r]
  BY <1>4
<1>5. CASE r \in rows' /\ r \notin rows
  <2>1. StoreDoes(r)
    BY <1>5, NewRow
  <2> QED
    BY <2>1 DEF StoreDoes, SameData
<1>6. CASE r \in rows
  BY <1>1, <1>6, RowsStep DEF RowInOrder
<1>7. ASSUME req'[r].pc \in {"storing", "stored"}, NEW x \in Requests, StepDoes(x)
      PROVE  HashDoes(r) \/ (req[r].pc \notin {"validating", "hashing"} /\ req'[r].hash = req[r].hash)
  <2>1. CASE AskDoes(x)
    <3>1. x # r
      BY <1>7, <2>1 DEF AskDoes, FirstStep, Kinds
    <3> QED
      BY <1>7, <2>1, <3>1 DEF AskDoes, Meets, SameData
  <2>2. CASE Others(x) /\ x # r
    BY <1>4, <2>2 DEF Others
  <2>3. CASE x = r /\ ~AskDoes(r)
    BY <1>4, <1>7, <2>3 DEF StepDoes, ForgetDoes, GoDoes, FindDoes, RemoveDoes, DeleteDoes, SaveDoes,
       UnsaveDoes, StoreDoes, SameData
  <2>4. CASE req' = req
    BY <1>4, <2>4
  <2> QED
    BY <1>7, <2>1, <2>2, <2>3, <2>4, Alone
<1> QED
  BY <1>2, <1>4, <1>5, <1>6, <1>7, StepEffect

LEMMA KeptStep ==
    ASSUME IInv, [Next]_vars, NEW r \in Requests
    PROVE  Kept(r)'
<1>1. Live(r)' => Excused(r)' \/ disk'[req'[r].path] = r
  BY DiskStep
<1>2. ASSUME Live(r)', req'[r].pc \notin {"validating", "hashing"}
      PROVE  Excused(r)' \/ req'[r].hash = r
  <2>1. ~SaveDoes(r)
    BY <1>2, SavedLive
  <2>2. Live(r) /\ Took(r) /\ Kept(r)
    BY <1>2, <2>1, LiveBefore DEF IInv, FilesInOrder
  <2>3. Excused(r) => Excused(r)'
    BY <2>2, ExcuseLasts
  <2>4. CASE HashDoes(r)
    BY <2>2, <2>3, <2>4 DEF Kept, HashDoes
  <2>5. CASE req[r].pc \notin {"validating", "hashing"} /\ req'[r].hash = req[r].hash
    BY <2>2, <2>3, <2>5 DEF Kept
  <2> QED
    BY <1>2, <2>4, <2>5, HashBefore
<1> QED
  BY <1>1, <1>2 DEF Kept

-----------------------------------------------------------------------------
(* The storage limit.                                                      *)

LEMMA SizesTyped ==
    ASSUME TypeOK, IsFiniteSet(rows)
    PROVE  /\ Sizes \in [rows -> Nat] /\ IsFiniteSet(UnmetRows) /\ UnmetRows \subseteq rows
           /\ UnmetSizes \in [UnmetRows -> Nat] /\ Total(Sizes) \in Nat /\ Used = Total(Sizes)
<1>1. \A r \in rows : req[r].size \in Nat
  BY DEF TypeOK, Request
<1>2. UnmetRows \subseteq rows
  BY DEF UnmetRows
<1>3. Sizes \in [rows -> Nat] /\ UnmetSizes \in [UnmetRows -> Nat]
  BY <1>1, <1>2 DEF Sizes, UnmetSizes
<1>4. Used = Total(Sizes)
  BY DEF Used, Sizes
<1> QED
  BY <1>2, <1>3, <1>4, FS_Subset, TotalType

\* A row keeps its size and its claim, and has met whom it met.
LEMMA SizesLast ==
    ASSUME IInv, [Next]_vars, NEW x \in rows
    PROVE  /\ req'[x].size = req[x].size /\ req'[x].claim = req[x].claim
           /\ req'[x].met = {} => req[x].met = {}
<1>1. x \in Requests /\ TypeOK
  BY DEF IInv, TypeOK
<1>2. RowInOrder(x)
  BY <1>1, Ordered
<1>3. req[x].pc \in {"stored", "done", "failed", "lost"} /\ Took(x)
  BY <1>2 DEF RowInOrder
<1>4. req[x].met \subseteq req'[x].met
  BY <1>1, <1>3, Lasting DEF Lasts
<1>5. ASSUME NEW r \in Requests, StepDoes(r)
      PROVE  req'[x].size = req[x].size /\ req'[x].claim = req[x].claim
  <2>1. CASE AskDoes(r)
    <3>1. x # r
      BY <1>3, <2>1 DEF AskDoes
    <3> QED
      BY <1>1, <2>1, <3>1 DEF AskDoes, Meets
  <2>2. CASE Others(r) /\ x # r
    BY <1>1, <2>2 DEF Others
  <2>3. CASE ForgetDoes(r) /\ x = r
    BY <1>3, <2>3 DEF ForgetDoes, Before
  <2>4. CASE Keeps(r) /\ x = r
    BY <2>4 DEF Keeps
  <2>5. CASE req' = req
    BY <2>5
  <2> QED
    BY <1>5, <2>1, <2>2, <2>3, <2>4, <2>5, Alone DEF StepDoes, GoDoes, FindDoes, RemoveDoes,
       DeleteDoes, SaveDoes, UnsaveDoes, HashDoes, StoreDoes
<1> QED
  BY <1>4, <1>5, StepEffect

\* check_storage_limit is passed only where there is room.
LEMMA RoomChecked ==
    ASSUME IInv, [Next]_vars, NEW s \in Requests, req[s].pc = "checking",
           req'[s].pc \in Uploading \ {"checking"}
    PROVE  HasRoom(req[s])
<1>1. TypeOK
  BY DEF IInv
<1>2. req'[s].pc # req[s].pc /\ req'[s].pc \notin Over
  BY DEF Uploading, Over
<1>3. PICK r \in Requests :
          \/ (\E u \in Uploads : AskUpload(r, u)) \/ (\E v \in Requests : AskDelete(r, v))
          \/ Chunked(r) \/ Finalize(r)
          \/ FindOld(r) \/ CheckLimit(r) \/ RefuseForRoom(r)
          \/ RemoveOld(r) \/ RemoveOldFails(r) \/ FlushDelete(r) \/ CommitDelete(r)
          \/ ClearPath(r) \/ ClearPathFails(r) \/ SaveFile(r) \/ SaveFileFails(r)
          \/ PassSignature(r) \/ RefuseSignature(r) \/ HashFile(r)
          \/ StoreRow(r) \/ Answer(r) \/ StoringFails(r) \/ CutOff(r)
  BY <1>2 DEF Next, vars, Tick, Expire
<1>4. CASE (\E u \in Uploads : AskUpload(r, u)) \/ (\E v \in Requests : AskDelete(r, v))
  <2>1. AskDoes(r)
    BY <1>1, <1>4, AskUploadEffect, AskDeleteEffect
  <2> QED
    BY <1>2, <2>1 DEF AskDoes, Meets
<1>5. CASE ~((\E u \in Uploads : AskUpload(r, u)) \/ (\E v \in Requests : AskDelete(r, v)))
  <2>1. StepDoes(r) /\ req[r].pc # "new"
    <3>1. StepDoes(r)
      BY <1>3, <1>5, ChunkEffect, FinalizeEffect, FindOldEffect, LimitEffect, ReplaceEffect, DeleteEffect,
         SaveEffect, SignatureEffect, HashEffect, StoreEffect, CutOffEffect DEF StepDoes
    <3>2. req[r].pc # "new"
      BY <1>3, <1>5 DEF Chunked, BeginUpload, SaveChunk, Finalize, LoseUpload, Assemble,
         AssembleFails, RefuseIncomplete, FindOld, CheckLimit, RefuseForRoom, RemoveOld, RemoveOldFails,
         FlushDelete, CommitDelete, ClearPath, ClearPathFails, SaveFile,
         SaveFileFails, PassSignature, RefuseSignature, HashFile, StoreRow,
         Answer, StoringFails, CutOff, Running, At
    <3> QED
      BY <3>1, <3>2
  <2>2. r = s
    <3>1. Others(r)
      BY <1>2, <2>1, Alone DEF AskDoes
    <3> QED
      BY <1>2, <3>1 DEF Others
  <2>3. CASE CheckLimit(r)
    BY <2>2, <2>3 DEF CheckLimit
  <2>4. CASE \/ Finalize(r) \/ RefuseForRoom(r) \/ CutOff(r)
    <3>1. PICK pc \in Over : Ends(r, pc)
      BY <2>2, <2>4 DEF Finalize, LoseUpload, Assemble, AssembleFails, RefuseIncomplete,
                        RefuseForRoom, CutOff, At, Over
    <3>2. req'[r].pc = pc
      BY <1>1, <3>1, Forgetting DEF Steps
    <3> QED
      BY <1>2, <2>2, <3>2
  <2> QED
    BY <1>3, <1>5, <2>2, <2>3, <2>4 DEF Chunked, BeginUpload, SaveChunk, FindOld, RemoveOld,
       RemoveOldFails, FlushDelete, CommitDelete, ClearPath, ClearPathFails, SaveFile,
         SaveFileFails, PassSignature, RefuseSignature,
       HashFile, StoreRow, Answer, StoringFails, At
<1> QED
  BY <1>4, <1>5

\* Who uploads runs, and alone if it met nobody.
LEMMA AloneRuns ==
    ASSUME IInv, NEW s \in Requests, req[s].pc \in Uploading
    PROVE  s \in Running /\ (req[s].met = {} => \A r \in Running : r = s)
<1>1. s \in Running
  BY DEF Running, Uploading, Over
<1> QED
  BY <1>1, RunnersMet
\* Who runs alone is the only one who steps, unless another is asked for.
LEMMA AloneSteps ==
    ASSUME IInv, NEW s \in Requests, req[s].pc \in Uploading, req[s].met = {},
           NEW r \in Requests, StepDoes(r), r # s
    PROVE  AskDoes(r) \/ (req' = req /\ SameFiles)
<1>1. TypeOK /\ r \notin Running /\ InOrder(r)
  BY AloneRuns, Ordered
<1>2. req[r].pc \notin (Before \ {"new"}) \cup Pathed
  BY <1>1, RunningAre
<1> QED
  BY <1>2 DEF StepDoes, ForgetDoes, GoDoes, FindDoes, RemoveDoes, DeleteDoes, SaveDoes, UnsaveDoes,
     HashDoes, StoreDoes, Before, Pathed, Holding

\* The room that was promised is there as long as no row and no request changes.
LEMMA RoomLasts ==
    ASSUME IInv, [Next]_vars, NEW s \in Requests, HasRoom(req[s]), rows' = rows,
           req'[s].claim = req[s].claim, req'[s].victim = req[s].victim,
           req[s].victim # Nobody => req[s].victim \in rows
    PROVE  HasRoom(req[s])'
<1>1. \A r \in rows : req'[r].size = req[r].size
  BY SizesLast
<1>2. [r \in rows |-> req'[r].size] = [r \in rows |-> req[r].size]
  BY <1>1
<1>3. Used' = Used
  BY <1>2 DEF Used
<1>4. SizeNeeded(req[s])' = SizeNeeded(req[s])
  BY <1>1 DEF SizeNeeded
<1> QED
  BY <1>3, <1>4 DEF HasRoom

LEMMA RoomForStep ==
    ASSUME IInv, RoomInOrder, [Next]_vars, NEW s \in Requests
    PROVE  RoomFor(s)'
<1> SUFFICES ASSUME req'[s].met = {}, req'[s].kind \in Kinds, req'[s].pc \in Uploading
             PROVE  /\ req'[s].victim # Nobody => req'[s].victim \in rows'
                    /\ req'[s].pc # "checking" => HasRoom(req[s])'
  BY DEF RoomFor
<1>1. TypeOK /\ InOrder(s) /\ RoomFor(s)
  BY Ordered DEF RoomInOrder
<1>2. ASSUME rows' = rows, req[s].pc \in Uploading, req[s].met = {}, req[s].kind \in Kinds,
             req'[s].claim = req[s].claim, req'[s].victim = req[s].victim
      PROVE  /\ req'[s].victim # Nobody => req'[s].victim \in rows'
             /\ req'[s].pc # "checking" => HasRoom(req[s])'
  <2>1. req[s].victim # Nobody => req[s].victim \in rows
    BY <1>1, <1>2 DEF RoomFor
  <2>2. ASSUME req'[s].pc # "checking" PROVE HasRoom(req[s])
    BY <1>1, <1>2, <2>2, RoomChecked DEF RoomFor
  <2> QED
    BY <1>2, <2>1, <2>2, RoomLasts
<1>3. CASE req' = req /\ SameFiles
  BY <1>2, <1>3 DEF SameFiles
<1>4. ASSUME NEW r \in Requests, StepDoes(r), r # s
      PROVE  /\ req'[s].victim # Nobody => req'[s].victim \in rows'
             /\ req'[s].pc # "checking" => HasRoom(req[s])'
  <2>1. CASE AskDoes(r)
    <3>1. Meets(s, r)
      BY <1>4, <2>1 DEF AskDoes
    <3>2. s \notin Running /\ req[s].pc = req'[s].pc
      BY <3>1 DEF Meets
    <3> QED
      BY <3>2, AloneRuns
  <2>2. CASE ~AskDoes(r)
    <3>1. req'[s] = req[s] \/ (req' = req /\ SameFiles)
      BY <1>4, <2>2, Alone DEF Others
    <3>2. req[s].pc \in Uploading /\ req[s].met = {}
      BY <3>1
    <3> QED
      BY <1>3, <1>4, <2>2, <3>2, AloneSteps
  <2> QED
    BY <2>1, <2>2
<1>5. ASSUME StepDoes(s)
      PROVE  /\ req'[s].victim # Nobody => req'[s].victim \in rows'
             /\ req'[s].pc # "checking" => HasRoom(req[s])'
  <2>1. CASE AskDoes(s)
    <3>1. req'[s].victim = Nobody /\ req'[s].pc = FirstStep(req'[s].kind)
      BY <2>1 DEF AskDoes, Kinds
    <3>2. req'[s].pc \in {"finding", "checking", "beginning"}
      BY <3>1 DEF FirstStep, Kinds
    <3> QED
      BY <3>1, <3>2 DEF Uploading
  <2>2. CASE ForgetDoes(s)
    BY <2>2 DEF ForgetDoes, Uploading
  <2>3. CASE GoDoes(s) /\ req[s].pc \in {"beginning", "sending"}
    BY <1>1, <2>3 DEF GoDoes, SameData, InOrder, Uploading
  <2>4. CASE GoDoes(s) /\ req[s].pc \notin {"beginning", "sending"}
    <3>1. req[s].pc \in Uploading
      BY <2>4 DEF GoDoes, Uploading
    <3> QED
      BY <1>2, <2>4, <3>1 DEF GoDoes, Keeps, SameData, SameFiles
  <2>5. CASE FindDoes(s)
    <3>1. req'[s].victim # Nobody => req'[s].victim \in Replaceable(req[s])
      BY <2>5 DEF FindDoes
    <3>2. Replaceable(req[s]) \subseteq rows
      BY DEF Replaceable, ExtraRows
    <3> QED
      BY <2>5, <3>1, <3>2 DEF FindDoes, SameFiles
  <2>6. CASE RemoveDoes(s) \/ SaveDoes(s) \/ HashDoes(s)
    <3>1. req[s].pc \in Uploading
      BY <2>6 DEF RemoveDoes, SaveDoes, HashDoes, Uploading
    <3> QED
      BY <1>2, <2>6, <3>1 DEF RemoveDoes, SaveDoes, HashDoes, Keeps, SameData, SameFiles
  <2>7. CASE DeleteDoes(s) \/ UnsaveDoes(s) \/ StoreDoes(s)
    BY <2>7 DEF DeleteDoes, UnsaveDoes, StoreDoes, Uploading
  <2> QED
    BY <1>3, <1>5, <2>1, <2>2, <2>3, <2>4, <2>5, <2>6, <2>7 DEF StepDoes
<1> QED
  BY <1>3, <1>4, <1>5, StepEffect

\* An upload that ran alone and asked for the room its file takes stores its row where
\* there is room.
LEMMA AloneStores ==
    ASSUME IInv, RoomInOrder, [Next]_vars, Limit # 0, NEW s \in Requests, StoreDoes(s),
           req[s].met = {}, req[s].claim >= req[s].size
    PROVE  Total(Sizes') <= Limit
<1> DEFINE v == req[s].victim
           rest == [r \in rows \ {v} |-> req[r].size]
<1>1. TypeOK /\ InOrder(s) /\ RowInOrder(s) /\ RoomFor(s) /\ IsFiniteSet(rows) /\ Limit \in Nat
  BY Ordered, BoundsAssumption DEF RoomInOrder
<1>2. /\ s \notin rows /\ rows' = (rows \ {v}) \cup {s} /\ req[s].kind \in Kinds
      /\ req[s].pc = "storing" /\ req'[s].size = req[s].size
  BY <1>1 DEF StoreDoes, RowInOrder, InOrder, Holding, Keeps
<1>3. (v # Nobody => v \in rows) /\ HasRoom(req[s])
  BY <1>1, <1>2 DEF RoomFor, Uploading
<1>4. req[s].size \in Nat /\ req[s].claim \in Nat /\ \A r \in rows : req[r].size \in Nat
  BY <1>1 DEF TypeOK, Request
<1>5. Used = Total(Sizes) /\ Sizes \in [rows -> Nat] /\ Total(Sizes) \in Nat
  BY <1>1, SizesTyped
<1>6. Total(Sizes) + SizeNeeded(req[s]) <= Limit
  BY <1>3, <1>5 DEF HasRoom
<1>7. IsFiniteSet(rows \ {v}) /\ rest \in [rows \ {v} -> Nat]
  BY <1>1, <1>4, FS_RemoveElement
<1>8. Total(Sizes') = Total(rest) + req[s].size
  <2>1. /\ Sizes' \in [(rows \ {v}) \cup {s} -> Nat] /\ Sizes'[s] = req[s].size
        /\ \A r \in rows \ {v} : Sizes'[r] = rest[r]
    <3>1. \A r \in rows : req'[r].size = req[r].size
      BY SizesLast
    <3> QED
      BY <1>2, <1>4, <3>1 DEF Sizes
  <2>2. s \notin rows \ {v}
    BY <1>2
  <2> HIDE DEF Sizes, rest
  <2>3. Total(Sizes') = Total(rest) + Sizes'[s]
    BY <1>7, <2>1, <2>2, TotalMore
  <2> QED
    BY <2>1, <2>3
<1>9. Total(rest) + req[s].size <= Total(Sizes) + SizeNeeded(req[s])
  <2>1. CASE v = Nobody
    <3>1. rows \ {v} = rows
      BY <1>1, <2>1, NobodyAssumption DEF TypeOK
    <3>2. rest = Sizes
      BY <3>1 DEF Sizes
    <3>3. SizeNeeded(req[s]) = req[s].claim
      BY <2>1 DEF SizeNeeded
    <3> QED
      BY <1>4, <1>5, <3>2, <3>3
  <2>2. CASE v \in rows
    <3>1. Total(Sizes) = Total([r \in rows \ {v} |-> Sizes[r]]) + Sizes[v]
      BY <1>1, <1>5, <2>2, TotalSplit
    <3>2. [r \in rows \ {v} |-> Sizes[r]] = rest /\ Sizes[v] = req[v].size
      BY <2>2 DEF Sizes
    <3>3. Total(Sizes) = Total(rest) + req[v].size
      BY <3>1, <3>2
    <3>4. Total(rest) \in Nat
      BY <1>7, TotalType
    <3>5. v # Nobody
      BY <1>1, <2>2, NobodyAssumption DEF TypeOK
    <3>6. SizeNeeded(req[s]) = IF req[s].claim > req[v].size THEN req[s].claim - req[v].size ELSE 0
      BY <3>5 DEF SizeNeeded
    <3>7. req[v].size \in Nat
      BY <1>4, <2>2
    <3> HIDE DEF v, rest
    <3> QED
      BY <1>4, <1>5, <3>3, <3>4, <3>6, <3>7
  <2> QED
    BY <1>3, <2>1, <2>2
<1>10. Total(rest) \in Nat /\ SizeNeeded(req[s]) \in Nat
  <2>1. Total(rest) \in Nat
    BY <1>7, TotalType
  <2>2. v # Nobody => req[v].size \in Nat
    BY <1>3, <1>4
  <2> QED
    BY <1>4, <2>1, <2>2 DEF SizeNeeded
<1> HIDE DEF rest, v
<1> QED
  BY <1>1, <1>4, <1>5, <1>6, <1>8, <1>9, <1>10

\* The rows whose requests ran alone, and asked for what they store, stay within the limit.
LEMMA UnmetStep ==
    ASSUME IInv, RoomInOrder, [Next]_vars
    PROVE  IsFiniteSet(rows') /\ (Limit = 0 \/ Total(UnmetSizes') <= Limit)
<1>1. TypeOK /\ IsFiniteSet(rows) /\ Limit \in Nat /\ TypeOK'
  BY TypeStep, BoundsAssumption DEF IInv, RoomInOrder
<1>2. \/ rows' \subseteq rows
      \/ \E s \in Requests : StoreDoes(s)
  <2>1. ASSUME NEW s \in Requests, StepDoes(s) PROVE rows' \subseteq rows \/ StoreDoes(s)
    BY <2>1 DEF StepDoes, AskDoes, ForgetDoes, GoDoes, FindDoes, RemoveDoes, DeleteDoes, SaveDoes,
                UnsaveDoes, HashDoes, SameFiles
  <2> QED
    BY <2>1, StepEffect DEF SameFiles
<1>3. IsFiniteSet(rows')
  <2>1. CASE rows' \subseteq rows
    BY <1>1, <2>1, FS_Subset
  <2>2. ASSUME NEW s \in Requests, StoreDoes(s) PROVE IsFiniteSet(rows')
    <3>1. IsFiniteSet(rows \ {req[s].victim})
      BY <1>1, FS_RemoveElement
    <3>2. IsFiniteSet((rows \ {req[s].victim}) \cup {s})
      BY <3>1, FS_AddElement
    <3> QED
      BY <2>2, <3>2 DEF StoreDoes
  <2> QED
    BY <1>2, <2>1, <2>2
<1>4. /\ IsFiniteSet(UnmetRows) /\ UnmetSizes \in [UnmetRows -> Nat]
      /\ UnmetSizes' \in [UnmetRows' -> Nat] /\ UnmetRows' \subseteq rows'
      /\ Sizes' \in [rows' -> Nat] /\ Total(Sizes') \in Nat
      /\ Total(UnmetSizes) \in Nat /\ Total(UnmetSizes') \in Nat
  <2>1. /\ IsFiniteSet(UnmetRows) /\ UnmetSizes \in [UnmetRows -> Nat]
    BY <1>1, SizesTyped
  <2>2. /\ UnmetSizes' \in [UnmetRows' -> Nat] /\ UnmetRows' \subseteq rows'
        /\ Sizes' \in [rows' -> Nat] /\ Total(Sizes') \in Nat /\ IsFiniteSet(UnmetRows')
    <3>1. \A r \in rows' : req'[r].size \in Nat
      BY <1>1 DEF TypeOK, Request
    <3>2. UnmetRows' \subseteq rows'
      BY DEF UnmetRows
    <3>3. Sizes' \in [rows' -> Nat] /\ UnmetSizes' \in [UnmetRows' -> Nat]
      BY <3>1, <3>2 DEF Sizes, UnmetSizes
    <3> HIDE DEF UnmetRows, Sizes, UnmetSizes
    <3> QED
      BY <1>3, <3>2, <3>3, FS_Subset, TotalType
  <2> HIDE DEF UnmetRows, UnmetSizes, Sizes
  <2> QED
    BY <2>1, <2>2, TotalType
<1>5. ASSUME Limit # 0, UnmetRows' \subseteq UnmetRows PROVE Total(UnmetSizes') <= Limit
  <2>1. \A r \in UnmetRows' : UnmetSizes'[r] <= UnmetSizes[r]
    <3>1. \A r \in UnmetRows' : r \in rows /\ r \in UnmetRows
      BY <1>5 DEF UnmetRows
    <3>2. \A r \in UnmetRows' : UnmetSizes'[r] = UnmetSizes[r]
      BY <3>1, SizesLast DEF UnmetSizes
    <3>3. \A r \in UnmetRows' : UnmetSizes[r] \in Nat
      BY <1>4, <3>1
    <3> HIDE DEF UnmetRows, UnmetSizes
    <3> QED
      BY <3>2, <3>3
  <2>2. Total(UnmetSizes) <= Limit
    BY <1>5 DEF RoomInOrder
  <2> HIDE DEF UnmetRows, UnmetSizes
  <2>3. Total(UnmetSizes') <= Total(UnmetSizes)
    BY <1>4, <1>5, <2>1, TotalLess
  <2> QED
    BY <1>1, <1>4, <2>2, <2>3
<1>6. CASE rows' \subseteq rows
  <2>1. UnmetRows' \subseteq UnmetRows
    BY <1>6, SizesLast DEF UnmetRows
  <2> QED
    BY <1>3, <1>5, <2>1
<1>7. ASSUME NEW s \in Requests, StoreDoes(s), Limit # 0 PROVE Total(UnmetSizes') <= Limit
  <2>1. CASE ~(req[s].met = {} /\ req[s].claim >= req[s].size)
    <3>1. UnmetRows' \subseteq UnmetRows
      BY <1>7, <2>1, SizesLast DEF UnmetRows, StoreDoes, Keeps
    <3> QED
      BY <1>5, <1>7, <3>1
  <2>2. CASE req[s].met = {} /\ req[s].claim >= req[s].size
    <3>1. Total(Sizes') <= Limit
      BY <1>7, <2>2, AloneStores
    <3>2. \A r \in UnmetRows' : UnmetSizes'[r] <= Sizes'[r]
      <4>1. \A r \in UnmetRows' : UnmetSizes'[r] = Sizes'[r] /\ r \in rows'
        BY DEF UnmetSizes, Sizes, UnmetRows
      <4>2. \A r \in UnmetRows' : Sizes'[r] \in Nat
        BY <1>4, <4>1
      <4> HIDE DEF UnmetRows, UnmetSizes, Sizes
      <4> QED
        BY <4>1, <4>2
    <3> HIDE DEF UnmetRows, UnmetSizes, Sizes
    <3>3. Total(UnmetSizes') <= Total(Sizes')
      BY <1>3, <1>4, <3>2, TotalLess
    <3> QED
      BY <1>1, <1>4, <3>1, <3>3
  <2> QED
    BY <2>1, <2>2
<1> QED
  BY <1>2, <1>3, <1>6, <1>7

-----------------------------------------------------------------------------
(* The theorems.                                                           *)

LEMMA FilesStep ==
    ASSUME IInv, [Next]_vars
    PROVE  FilesInOrder'
BY TwinRowsStep, LookedStep, ChosenStep, ApartStep, KeptStep DEF FilesInOrder

LEMMA Invariant == Spec => []IInv
<1>1. Init => IInv
  <2> SUFFICES ASSUME Init PROVE IInv
    OBVIOUS
  <2>1. Unasked \in Request /\ NoUpload \in Upload
    BY UnaskedTyped, NoUploadTyped DEF Steps, Request, Unasked
  <2>2. TypeOK
    BY <2>1, BoundsAssumption DEF Init, TypeOK
  <2>3. \A r \in Requests : /\ req[r].pc = "new" /\ req[r].kind = "none" /\ req[r].path = NoPath
                            /\ req[r].victim = Nobody /\ req[r].met = {} /\ upload[r] = NoUpload
    BY DEF Init, Unasked
  <2>4. ASSUME NEW r \in Requests
        PROVE  InOrder(r) /\ PathTells(r) /\ RowInOrder(r) /\ UploadInOrder(r)
    BY <2>3 DEF Init, InOrder, PathTells, RowInOrder, UploadInOrder, Before, Pathed, Holding, Kinds
  <2>5. ASSUME NEW r \in Requests PROVE MetInOrder(r)
    BY <2>3 DEF MetInOrder, Running
  <2>6. ASSUME NEW r \in Requests PROVE Looked(r) /\ Chosen(r) /\ Apart(r) /\ Kept(r)
    BY <2>3 DEF Init, Looked, Chosen, Apart, Kept, Live, Holding
  <2> QED
    BY <2>2, <2>4, <2>5, <2>6
    DEF IInv, RequestsInOrder, UploadsInOrder, FilesInOrder, TwinRows, Init
<1>2. IInv /\ [Next]_vars => IInv'
  BY TypeStep, RequestsStep, UploadStep, FilesStep DEF IInv
<1> QED
  BY <1>1, <1>2, PTL DEF Spec

\* Every behaviour keeps its types.
THEOREM StoreTyped == Spec => []TypeOK
<1>1. IInv => TypeOK
  BY DEF IInv
<1> QED
  BY <1>1, Invariant, PTL

\* The file that a row names is there and has the row's hash, unless one of the causes
\* that RowsKeepTheirFiles names took it: for any number of requests, however they overlap.
THEOREM RowsAreBacked == Spec => []RowsKeepTheirFiles
<1>1. IInv => RowsKeepTheirFiles
  <2> SUFFICES ASSUME IInv, NEW r \in rows,
                      ~(req[r].kind = "chunked" /\ At(r, "failed"))
               PROVE  \/ disk[req[r].path] = req[r].hash
                      \/ \E s \in Requests : HalfDeleted(s, r) \/ Overwrites(s, r) \/ RemovesToo(s, r)
    BY DEF RowsKeepTheirFiles
  <2>1. r \in Requests
    BY DEF IInv, TypeOK
  <2>2. Live(r) /\ Kept(r) /\ req[r].pc \notin {"validating", "hashing"}
    BY <2>1, Ordered DEF Live, IInv, FilesInOrder, RowInOrder
  <2> QED
    BY <2>2 DEF Kept, Excused
<1> QED
  BY <1>1, Invariant, PTL

LEMMA RoomInvariant == Spec => [](IInv /\ RoomInOrder)
<1>1. Init => RoomInOrder
  <2> SUFFICES ASSUME Init PROVE RoomInOrder
    OBVIOUS
  <2>1. rows = {} /\ Limit \in Nat /\ \A s \in Requests : req[s].pc = "new"
    BY BoundsAssumption DEF Init, Unasked
  <2>2. DOMAIN UnmetSizes = {}
    BY <2>1 DEF UnmetSizes, UnmetRows
  <2>3. Total(UnmetSizes) = 0
    <3> HIDE DEF UnmetSizes
    <3> QED
      BY <2>2, TotalOfNone
  <2>4. \A s \in Requests : RoomFor(s)
    BY <2>1 DEF RoomFor, Uploading
  <2>5. IsFiniteSet(rows)
    BY <2>1, FS_EmptySet
  <2> QED
    BY <2>1, <2>3, <2>4, <2>5 DEF RoomInOrder
<1>2. IInv /\ RoomInOrder /\ [Next]_vars => RoomInOrder'
  BY RoomForStep, UnmetStep DEF RoomInOrder
<1> QED
  BY <1>1, <1>2, Invariant, PTL DEF Spec

\* The rows of a project exceed its storage limit only when an upload among them
\* overlapped another request or asked for less room than its file takes, for any sizes
\* and any number of requests.
THEOREM SequentialUploadsFit == Spec => []StorageWithinLimit
<1>1. IInv /\ RoomInOrder => StorageWithinLimit
  <2> SUFFICES ASSUME IInv, RoomInOrder, Limit # 0,
                      \A r \in rows : req[r].met = {} /\ ~(req[r].claim < req[r].size)
               PROVE  Used <= Limit
    BY DEF StorageWithinLimit
  <2>1. TypeOK /\ IsFiniteSet(rows)
    BY DEF IInv, RoomInOrder
  <2>2. UnmetRows = rows
    <3>1. \A r \in rows : req[r].claim \in Nat /\ req[r].size \in Nat
      BY <2>1 DEF TypeOK, Request
    <3> QED
      BY <3>1 DEF UnmetRows
  <2>3. UnmetSizes = Sizes
    BY <2>2 DEF UnmetSizes, Sizes
  <2>4. Used = Total(Sizes)
    BY <2>1, SizesTyped
  <2> QED
    BY <2>3, <2>4 DEF RoomInOrder
<1> QED
  BY <1>1, RoomInvariant, PTL

\* No upload whose every chunk was acknowledged is turned away as incomplete or unknown
\* unless a write of its metadata failed, whatever expires and whatever read fails.
THEOREM AcknowledgedUploads == Spec => []AcknowledgedIsWhole
<1>1. IInv => AcknowledgedIsWhole
  BY DEF IInv, UploadsInOrder, UploadInOrder, AcknowledgedIsWhole, At
<1> QED
  BY <1>1, Invariant, PTL
=============================================================================
