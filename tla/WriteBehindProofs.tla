-------------------------- MODULE WriteBehindProofs --------------------------
(***************************************************************************)
(* Proofs about WriteBehind, for any number of flushers, devices, requests *)
(* and faults, and batches of any size.                                    *)
(***************************************************************************)
EXTENDS WriteBehind, TotalsProofs, SequenceTheorems

-----------------------------------------------------------------------------
(* The inductive invariant.                                                *)

Lone(steps) == \A f, g \in Within(steps) : f = g

\* The activities are logged one after the other, and what is buffered, read or stored was.
LoggedInOrder ==
    /\ \E n \in Nat : accepted = 1 .. n
    /\ ToSet(log) \subseteq accepted
    /\ \A f \in Flushers : ToSet(flusher[f].batch) \subseteq accepted
    /\ \A a \in Activities \ accepted : stored[a] = 0

\* What a flusher is about to trim was inserted, by it or by another.
TrimmedIsStored ==
    \A f \in Within({"trim"}) : \A a \in ToSet(flusher[f].batch) : stored[a] > 0

Heads(batch) ==
    /\ Len(batch) <= Len(log)
    /\ \A i \in 1 .. Len(batch) : log[i] = batch[i]

Apart(batch) == ToSet(batch) \cap ToSet(log) = {}

\* Unless two flushers held a batch at once, the one that does has the head of the list,
\* or nothing of the list if it expired meanwhile.
HeadIsHeld ==
    "activityOverlap" \notin incidents =>
        /\ Lone(ActivityWindow)
        /\ \A f \in Within(ActivityWindow) :
              \/ Heads(flusher[f].batch)
              \/ "heldExpiry" \in incidents /\ Apart(flusher[f].batch)

NoCause == incidents \cap {"activityOverlap", "untrimmed", "fallback"} = {}

\* Unless there was a cause, no activity is buffered twice, or stored and buffered,
\* but for those that are about to be trimmed; and a batch about to be inserted holds
\* none twice, and none that is stored.
StoredOnce ==
    NoCause =>
        /\ \A i, j \in DOMAIN log : log[i] = log[j] => i = j
        /\ \A a \in Activities : stored[a] \in {0, 1}
        /\ \A a \in ToSet(log) :
              stored[a] = 1 => \E f \in Within({"trim"}) : a \in ToSet(flusher[f].batch)
        /\ \A f \in Within({"insert"}) :
              /\ \A i, j \in DOMAIN flusher[f].batch :
                    flusher[f].batch[i] = flusher[f].batch[j] => i = j
              /\ \A a \in ToSet(flusher[f].batch) : stored[a] = 0

Kept == incidents \cap {"deviceOverlap", "lateDevice", "groupFailed"} = {}

\* Unless something came between, a flusher holds the whole set, and once it is
\* written nothing is owed.
MembersInOrder ==
    Kept =>
        /\ Lone(DeviceWindow)
        /\ \A f \in Within({"write"}) : recent \subseteq flusher[f].members
        /\ \A f \in Within({"drop"}) : owed = {}

IInv ==
    /\ TypeOK /\ LoggedInOrder /\ IsFiniteSet(hll)
    /\ TrimmedIsStored /\ HeadIsHeld /\ LossNeedsOverlap
    /\ StoredOnce /\ MembersInOrder /\ UpdatesKept

-----------------------------------------------------------------------------
(* What the operators of the model are and do.                             *)

\* The part of a list that is read, and the part that is left when it is trimmed.
LEMMA HeadOfLog ==
    ASSUME NEW S, NEW s \in Seq(S), NEW n \in 0 .. Len(s)
    PROVE  /\ SubSeq(s, 1, n) \in Seq(S) /\ Len(SubSeq(s, 1, n)) = n
           /\ \A i \in 1 .. n : SubSeq(s, 1, n)[i] = s[i]
<1>1. 1 \in 1 .. (Len(s) + 1) /\ n \in (1 - 1) .. Len(s)
  OBVIOUS
<1> QED
  BY <1>1, SubSeqProperties

LEMMA RestOfLog ==
    ASSUME NEW S, NEW s \in Seq(S), NEW n \in Nat
    PROVE  /\ SubSeq(s, n + 1, Len(s)) \in Seq(S)
           /\ Len(SubSeq(s, n + 1, Len(s))) = IF n <= Len(s) THEN Len(s) - n ELSE 0
           /\ \A i \in 1 .. Len(SubSeq(s, n + 1, Len(s))) :
                 i + n \in 1 .. Len(s) /\ SubSeq(s, n + 1, Len(s))[i] = s[i + n]
<1>1. Len(s) \in Nat
  OBVIOUS
<1>2. CASE n <= Len(s)
  <2>1. n + 1 \in 1 .. (Len(s) + 1) /\ Len(s) \in ((n + 1) - 1) .. Len(s)
    BY <1>1, <1>2
  <2> QED
    BY <1>1, <1>2, <2>1, SubSeqProperties
<1>3. CASE n > Len(s)
  <2>1. SubSeq(s, n + 1, Len(s)) = <<>>
    BY <1>1, <1>3
  <2> QED
    BY <1>3, <2>1
<1> QED
  BY <1>1, <1>2, <1>3

\* The elements of a list.
LEMMA Elements ==
    ASSUME NEW S, NEW s \in Seq(S)
    PROVE  /\ ToSet(s) \subseteq S
           /\ \A x : x \in ToSet(s) <=> \E i \in 1 .. Len(s) : s[i] = x
           /\ \A x \in S : ToSet(Append(s, x)) = ToSet(s) \cup {x}
           /\ ToSet(<<>>) = {}
<1>1. DOMAIN s = 1 .. Len(s) /\ Len(s) \in Nat
  OBVIOUS
<1>2. ASSUME NEW x \in S PROVE ToSet(Append(s, x)) = ToSet(s) \cup {x}
  <2>1. /\ DOMAIN Append(s, x) = 1 .. (Len(s) + 1)
        /\ \A i \in 1 .. Len(s) : Append(s, x)[i] = s[i]
        /\ Append(s, x)[Len(s) + 1] = x
    BY <1>2
  <2>2. 1 .. (Len(s) + 1) = (1 .. Len(s)) \cup {Len(s) + 1}
    BY <1>1
  <2> QED
    BY <1>1, <2>1, <2>2 DEF ToSet
<1>3. ToSet(<<>>) = {}
  BY DEF ToSet
<1>4. \A i \in 1 .. Len(s) : s[i] \in S
  OBVIOUS
<1>5. \A x : x \in ToSet(s) <=> \E i \in 1 .. Len(s) : s[i] = x
  BY <1>1 DEF ToSet
<1> QED
  BY <1>2, <1>3, <1>4, <1>5

\* The head of the list that is read has no more than BatchSize entries.
LEMMA BatchLength ==
    ASSUME NEW n \in Nat
    PROVE  Min({BatchSize, n}) \in 0 .. n /\ (n > 0 => Min({BatchSize, n}) > 0)
<1>1. BatchSize \in Nat \ {0}
  BY SizesAssumption
<1>2. Min({BatchSize, n}) = IF BatchSize <= n THEN BatchSize ELSE n
  BY <1>1 DEF Min
<1> QED
  BY <1>1, <1>2

\* How often a batch has an entry.
LEMMA CopiesCount ==
    ASSUME NEW S, NEW batch \in Seq(S), NEW a
    PROVE  /\ Copies(a, batch) \in Nat
           /\ Copies(a, batch) > 0 <=> a \in ToSet(batch)
           /\ (\A i, j \in 1 .. Len(batch) : batch[i] = batch[j] => i = j) => Copies(a, batch) \in {0, 1}
<1> DEFINE at == {i \in DOMAIN batch : batch[i] = a}
<1>1. DOMAIN batch = 1 .. Len(batch) /\ Len(batch) \in Nat
  OBVIOUS
<1>2. IsFiniteSet(at)
  <2>1. IsFiniteSet(1 .. Len(batch))
    BY <1>1, FS_Interval
  <2> QED
    BY <1>1, <2>1, FS_Subset
<1>3. Copies(a, batch) = Cardinality(at) /\ Cardinality(at) \in Nat
  BY <1>2, FS_CardinalityType DEF Copies
<1>4. Cardinality(at) = 0 <=> at = {}
  BY <1>2, FS_EmptySet
<1>5. at # {} <=> a \in ToSet(batch)
  BY DEF ToSet
<1>6. ASSUME \A i, j \in 1 .. Len(batch) : batch[i] = batch[j] => i = j
      PROVE  Cardinality(at) \in {0, 1}
  <2>1. CASE at = {}
    BY <1>4, <2>1
  <2>2. CASE at # {}
    <3>1. PICK i \in at : TRUE
      BY <2>2
    <3>2. at = {i}
      BY <1>1, <1>6, <3>1
    <3> QED
      BY <3>2, FS_Singleton
  <2> QED
    BY <2>1, <2>2
<1> QED
  BY <1>3, <1>4, <1>5, <1>6

\* The activities accepted are numbered.
LEMMA NextActivity ==
    ASSUME NEW n \in Nat, accepted = 1 .. n
    PROVE  /\ Cardinality(accepted) + 1 = n + 1 /\ n + 1 \notin accepted
           /\ accepted \cup {n + 1} = 1 .. (n + 1)
<1>1. Cardinality(1 .. n) = n
  BY FS_Interval
<1> QED
  BY <1>1

-----------------------------------------------------------------------------
(* What the steps do to the activities and to the devices.                 *)

\* One flusher moves.
Moves(f) ==
    /\ flusher' \in [Flushers -> Flusher]
    /\ \A g \in Flushers \ {f} : flusher'[g] = flusher[g]

\* It holds no batch any more, or does not get one.
NoBatch(f) ==
    /\ Moves(f)
    /\ flusher'[f].pc \notin ActivityWindow
    /\ flusher'[f].batch \in {<<>>, flusher[f].batch}
    /\ flusher[f].pc = "trim" => "untrimmed" \in incidents'

NoMembers(f) == Moves(f) /\ flusher'[f].pc \notin DeviceWindow

\* It holds nothing of the usage.
Fresh(f) ==
    flusher'[f].pc \notin UsageWindow /\ flusher'[f].row = NoRow /\ flusher'[f].image = 0

SameFlushers == flusher' = flusher
SameActs == log' = log /\ stored' = stored /\ accepted' = accepted /\ expired' = expired
SameDevices == recent' = recent /\ owed' = owed

\* An activity is buffered, or stored at once, or both.
Logs(a) ==
    /\ Cardinality(accepted) + 1 = a /\ accepted' = accepted \cup {a} /\ expired' = expired
    /\ log' = Append(log, a) /\ stored' = stored
    /\ SameFlushers \/ \E f \in Flushers : NoBatch(f)

Stores(a) ==
    /\ Cardinality(accepted) + 1 = a /\ accepted' = accepted \cup {a} /\ expired' = expired
    /\ stored' = [stored EXCEPT ![a] = @ + 1]
    /\ log' = log \/ (log' = Append(log, a) /\ "fallback" \in incidents')
    /\ SameFlushers

Empties ==
    /\ SameFlushers
    /\ Within(ActivityWindow) # {} => "heldExpiry" \in incidents'
    /\ log' = <<>> /\ expired' = expired \cup ToSet(log)
    /\ stored' = stored /\ accepted' = accepted

\* A batch is read, inserted, trimmed.
Reads(f) ==
    /\ Moves(f) /\ SameActs
    /\ flusher[f].pc = "read" /\ flusher'[f].pc = "insert"
    /\ flusher'[f].batch = SubSeq(log, 1, Min({BatchSize, Len(log)}))
    /\ Within(ActivityWindow) # {} => "activityOverlap" \in incidents'

Inserts(f) ==
    /\ Moves(f) /\ log' = log /\ accepted' = accepted /\ expired' = expired
    /\ flusher[f].pc = "insert" /\ flusher'[f].pc = "trim" /\ flusher'[f].batch = flusher[f].batch
    /\ stored' = [a \in Activities |-> stored[a] + Copies(a, flusher[f].batch)]

Trims(f) ==
    /\ Moves(f) /\ stored' = stored /\ accepted' = accepted /\ expired' = expired
    /\ flusher[f].pc = "trim" /\ flusher'[f].pc = "read" /\ flusher'[f].batch = <<>>
    /\ log' = SubSeq(log, Len(flusher[f].batch) + 1, Len(log))

Acts ==
    \/ \E a \in Activities : Logs(a) \/ Stores(a)
    \/ Empties
    \/ \E f \in Flushers : Reads(f) \/ Inserts(f) \/ Trims(f)
    \/ SameActs /\ (SameFlushers \/ \E f \in Flushers : NoBatch(f))

\* The set of devices is added to, read, written and dropped.
Updates(d) ==
    /\ recent' = recent \cup {d} /\ owed' = owed \cup {d} /\ SameFlushers
    /\ Within(DeviceWindow) # {} => "lateDevice" \in incidents'

Gets(f) ==
    /\ Moves(f) /\ SameDevices /\ flusher'[f].pc = "write" /\ flusher'[f].members = recent
    /\ Within(DeviceWindow) # {} => "deviceOverlap" \in incidents'

Writes(f) ==
    /\ Moves(f) /\ recent' = recent /\ flusher[f].pc = "write" /\ flusher'[f].pc = "drop"
    /\ owed' \subseteq owed
    /\ owed' = owed \ flusher[f].members \/ "groupFailed" \in incidents'

Drops(f) ==
    /\ NoMembers(f) /\ flusher[f].pc = "drop" /\ recent' = {} /\ owed' = owed

Fades == recent' = {} /\ owed' = owed \ recent /\ SameFlushers

Touches ==
    \/ Fades \/ \E d \in Devices : Updates(d)
    \/ \E f \in Flushers : Gets(f) \/ Writes(f) \/ Drops(f)
    \/ SameDevices /\ (SameFlushers \/ \E f \in Flushers : NoMembers(f))

\* What the step of every action has in common.
Step == TypeOK' /\ IsFiniteSet(hll)' /\ incidents \subseteq incidents' /\ Acts /\ Touches

LEMMA IdleTyped == Idle \in Flusher
BY EmptySeq DEF Idle, Flusher, Steps, Programs

LEMMA Moved ==
    ASSUME TypeOK, NEW f \in Flushers, NEW new \in Flusher, flusher' = [flusher EXCEPT ![f] = new]
    PROVE  Moves(f) /\ flusher'[f] = new
BY DEF TypeOK, Moves

\* A flusher starts, goes on to the next buffer or is done.
LEMMA StartedMoves ==
    ASSUME TypeOK, NEW f \in Flushers, NEW program \in Programs, NEW pc \in {"read", "hash"},
           flusher' = Started(f, program, pc), flusher[f].pc = "idle"
    PROVE  NoBatch(f) /\ NoMembers(f) /\ Fresh(f)
<1> DEFINE new == [Idle EXCEPT !.pc = pc, !.program = program]
<1>1. new \in Flusher /\ new.pc = pc /\ new.batch = <<>> /\ new.row = NoRow /\ new.image = 0
  <2>1. Idle \in Flusher /\ Idle.batch = <<>> /\ Idle.row = NoRow /\ Idle.image = 0
    BY IdleTyped DEF Idle
  <2> QED
    BY <2>1 DEF Flusher, Steps
<1> HIDE DEF new
<1>2. Moves(f) /\ flusher'[f] = new
  BY <1>1, Moved DEF Started, new
<1> QED
  BY <1>1, <1>2 DEF NoBatch, NoMembers, Fresh, ActivityWindow, DeviceWindow, UsageWindow

LEMMA ContinuedMoves ==
    ASSUME TypeOK, NEW f \in Flushers, NEW pc \in {"hash", "members", "idle"},
           flusher' = Continued(f, pc)
    PROVE  /\ NoMembers(f) /\ Moves(f) /\ flusher'[f].pc \notin ActivityWindow
           /\ flusher'[f].batch = <<>> /\ Fresh(f)
<1> DEFINE going == [Idle EXCEPT !.pc = pc, !.program = "task"]
           new == IF flusher[f].program = "task" /\ pc # "idle" THEN going ELSE Idle
<1>1. going \in Flusher /\ going.pc = pc /\ going.batch = <<>> /\ going.row = NoRow /\ going.image = 0
  <2>1. Idle \in Flusher /\ Idle.batch = <<>> /\ Idle.row = NoRow /\ Idle.image = 0
    BY IdleTyped DEF Idle
  <2> QED
    BY <2>1 DEF Flusher, Steps, Programs
<1>2. Idle.pc = "idle" /\ Idle.batch = <<>> /\ Idle.row = NoRow /\ Idle.image = 0 /\ Idle \in Flusher
  BY IdleTyped DEF Idle
<1>3. flusher' = [flusher EXCEPT ![f] = new]
  BY DEF Continued
<1> HIDE DEF going
<1>4. new \in Flusher /\ new.pc \in {pc, "idle"} /\ new.batch = <<>> /\ new.row = NoRow /\ new.image = 0
  BY <1>1, <1>2
<1> HIDE DEF new
<1>5. Moves(f) /\ flusher'[f] = new
  BY <1>3, <1>4, Moved
<1> QED
  BY <1>4, <1>5 DEF NoMembers, Fresh, ActivityWindow, DeviceWindow, UsageWindow

\* A flusher goes to another point, with what it holds.
LEMMA PcMoves ==
    ASSUME TypeOK, NEW f \in Flushers, NEW pc \in Steps, flusher' = [flusher EXCEPT ![f].pc = pc]
    PROVE  Moves(f) /\ flusher'[f].pc = pc /\ flusher'[f].batch = flusher[f].batch
<1> DEFINE new == [flusher[f] EXCEPT !.pc = pc]
<1>1. flusher[f] \in Flusher
  BY DEF TypeOK
<1>2. new \in Flusher /\ new.pc = pc /\ new.batch = flusher[f].batch
  BY <1>1 DEF Flusher
<1>3. flusher' = [flusher EXCEPT ![f] = new]
  BY DEF TypeOK, Flusher
<1> HIDE DEF new
<1> QED
  BY <1>2, <1>3, Moved

LEMMA Faulty ==
    ASSUME TypeOK, NEW kinds \in SUBSET Incidents, Fault(kinds)
    PROVE  /\ faults' \in 0 .. MaxFaults /\ incidents' \in SUBSET Incidents
           /\ incidents' = incidents \cup kinds
BY BoundsAssumption DEF TypeOK, Fault

LEMMA NotedTyped ==
    ASSUME TypeOK, NEW steps, NEW incident \in Incidents,
           incidents' = incidents \cup Noted(steps, incident)
    PROVE  /\ incidents' \in SUBSET Incidents /\ incidents \subseteq incidents'
           /\ Within(steps) # {} => incident \in incidents'
BY DEF TypeOK, Noted

\* A key of Redis expires, while flushers work on it or not.
LEMMA Expired ==
    ASSUME TypeOK, NEW steps, Expires(steps)
    PROVE  /\ faults' \in 0 .. MaxFaults /\ incidents' \in SUBSET Incidents
           /\ incidents \subseteq incidents'
           /\ Within(steps) # {} => "heldExpiry" \in incidents'
<1> DEFINE kinds == Noted(steps, "heldExpiry")
<1>1. kinds \in SUBSET Incidents /\ Fault(kinds)
  BY DEF Expires, Noted, Incidents
<1>2. Within(steps) # {} => "heldExpiry" \in kinds
  BY DEF Noted
<1> HIDE DEF kinds
<1> QED
  BY <1>1, <1>2, Faulty

-----------------------------------------------------------------------------
(* The requests.                                                           *)

LEMMA LogActivityStep ==
    ASSUME IInv, NEW a \in Activities, NEW f \in Flushers, LogActivity(a, f)
    PROVE  Step
<1>1. TypeOK /\ IsFiniteSet(hll)
  BY DEF IInv
<1>2. flusher' = flusher \/ (NoBatch(f) /\ NoMembers(f) /\ Moves(f))
  BY <1>1, StartedMoves DEF LogActivity, MayStart, Programs, NoBatch
<1>3. flusher' \in [Flushers -> Flusher]
  BY <1>1, <1>2 DEF Moves, TypeOK
<1>4. log' \in Seq(Activities)
  BY <1>1 DEF LogActivity, TypeOK
<1>5. TypeOK' /\ IsFiniteSet(hll)' /\ incidents' = incidents
  BY <1>1, <1>3, <1>4 DEF LogActivity, TypeOK, database
<1>6. Logs(a)
  BY <1>2 DEF LogActivity, Logs, SameFlushers, database
<1>7. SameDevices
  BY DEF LogActivity, SameDevices
<1> QED
  BY <1>2, <1>5, <1>6, <1>7 DEF Step, Acts, Touches, SameFlushers

LEMMA LogDirectlyStep ==
    ASSUME IInv, NEW a \in Activities, LogDirectly(a)
    PROVE  Step
<1>1. TypeOK /\ IsFiniteSet(hll)
  BY DEF IInv
<1>2. /\ faults' \in 0 .. MaxFaults /\ incidents' \in SUBSET Incidents /\ incidents \subseteq incidents'
      /\ log' = log \/ (log' = Append(log, a) /\ "fallback" \in incidents')
  <2>1. {} \in SUBSET Incidents /\ {"fallback"} \in SUBSET Incidents
    BY DEF Incidents
  <2>2. CASE log' = log /\ Fault({})
    BY <1>1, <2>1, <2>2, Faulty
  <2>3. CASE log' = Append(log, a) /\ Fault({"fallback"})
    BY <1>1, <2>1, <2>3, Faulty
  <2> QED
    BY <2>2, <2>3 DEF LogDirectly
<1>3. log' \in Seq(Activities) /\ stored' \in [Activities -> Nat]
  <2>1. log \in Seq(Activities) /\ stored \in [Activities -> Nat]
    BY <1>1 DEF TypeOK
  <2>2. stored' = [stored EXCEPT ![a] = @ + 1]
    BY DEF LogDirectly
  <2>3. log' \in Seq(Activities)
    <3>1. Append(log, a) \in Seq(Activities)
      BY <2>1, AppendProperties
    <3> QED
      BY <1>2, <2>1, <3>1
  <2> QED
    BY <2>1, <2>2, <2>3
<1>4. TypeOK' /\ IsFiniteSet(hll)'
  BY <1>1, <1>2, <1>3 DEF LogDirectly, TypeOK
<1>5. Stores(a) /\ SameDevices
  BY <1>2 DEF LogDirectly, Stores, SameDevices, SameFlushers
<1> QED
  BY <1>2, <1>4, <1>5 DEF Step, Acts, Touches, Stores

LEMMA UseStep ==
    ASSUME IInv, NEW d \in Devices, BufferUpdate(d) \/ \E f \in Flushers : RecordUse(d, f)
    PROVE  Step
<1>1. TypeOK /\ IsFiniteSet(hll)
  BY DEF IInv
<1>2. CASE BufferUpdate(d)
  <2>1. /\ incidents' \in SUBSET Incidents /\ incidents \subseteq incidents'
        /\ Within(DeviceWindow) # {} => "lateDevice" \in incidents'
    BY <1>1, <1>2, NotedTyped DEF BufferUpdate, Incidents
  <2>2. TypeOK' /\ IsFiniteSet(hll)'
    BY <1>1, <1>2, <2>1 DEF BufferUpdate, TypeOK, database
  <2>3. Updates(d) /\ SameActs /\ SameFlushers
    BY <1>2, <2>1 DEF BufferUpdate, Updates, SameActs, SameFlushers, database
  <2> QED
    BY <2>1, <2>2, <2>3 DEF Step, Acts, Touches
<1>3. ASSUME NEW f \in Flushers, RecordUse(d, f) PROVE Step
  <2>1. incidents' \in SUBSET Incidents /\ incidents \subseteq incidents'
    BY <1>1, <1>3, NotedTyped DEF RecordUse, Incidents
  <2>2. flusher' = flusher \/ (NoBatch(f) /\ NoMembers(f) /\ Moves(f))
    BY <1>1, <1>3, StartedMoves DEF RecordUse, Programs, NoBatch
  <2>3. flusher' \in [Flushers -> Flusher]
    BY <1>1, <2>2 DEF Moves, TypeOK
  <2>4. hll' \in SUBSET Devices /\ IsFiniteSet(hll)'
    <3>1. hll' = hll \cup {d}
      BY <1>3 DEF RecordUse
    <3> QED
      BY <1>1, <3>1, FS_AddElement DEF TypeOK
  <2>5. TypeOK'
    <3>1. hits' \in Nat /\ connects' \in Nat /\ listed' \in BOOLEAN /\ products' \in BOOLEAN
      BY <1>1, <1>3 DEF RecordUse, TypeOK
    <3>2. UNCHANGED <<fed, log, recent, stored, usage, deleted, accepted, updates, owed, expired,
                      lapsed, faults>>
      BY <1>3 DEF RecordUse, database
    <3> QED
      BY <1>1, <2>1, <2>3, <2>4, <3>1, <3>2 DEF TypeOK
  <2>6. SameActs /\ SameDevices
    BY <1>3 DEF RecordUse, SameActs, SameDevices, database
  <2> QED
    BY <2>1, <2>2, <2>4, <2>5, <2>6 DEF Step, Acts, Touches, SameFlushers
<1> QED
  BY <1>2, <1>3

LEMMA OutsideStep ==
    ASSUME IInv, (\E a \in Activities : DeleteUser(a)) \/ Rest \/ UNCHANGED vars
    PROVE  Step
<1>1. TypeOK /\ IsFiniteSet(hll)
  BY DEF IInv
<1>2. TypeOK' /\ IsFiniteSet(hll)'
  BY <1>1 DEF DeleteUser, Rest, vars, redis, database, history, TypeOK
<1>3. SameActs /\ SameDevices /\ SameFlushers /\ incidents' = incidents
  BY DEF DeleteUser, Rest, vars, redis, database, history, SameActs, SameDevices, SameFlushers
<1> QED
  BY <1>2, <1>3 DEF Step, Acts, Touches

LEMMA ExpiryStep ==
    ASSUME IInv, ExpireLog \/ ExpireUsage \/ ExpireUpdates
    PROVE  Step
<1>1. TypeOK /\ IsFiniteSet(hll)
  BY DEF IInv
<1>2. CASE ExpireLog
  <2>1. <<>> \in Seq(Activities) /\ ToSet(log) \in SUBSET Activities
    BY <1>1, Elements, EmptySeq DEF TypeOK
  <2>2. /\ faults' \in 0 .. MaxFaults /\ incidents' \in SUBSET Incidents
        /\ incidents \subseteq incidents'
        /\ Within(ActivityWindow) # {} => "heldExpiry" \in incidents'
    BY <1>1, <1>2, Expired DEF ExpireLog
  <2>3. TypeOK' /\ IsFiniteSet(hll)'
    BY <1>1, <1>2, <2>1, <2>2 DEF ExpireLog, TypeOK, database
  <2>4. Empties /\ SameDevices
    BY <1>2, <2>2 DEF ExpireLog, Empties, SameFlushers, SameDevices, database
  <2> QED
    BY <2>2, <2>3, <2>4 DEF Step, Acts, Touches, Empties
<1>3. CASE ExpireUsage
  <2>1. /\ hll' = {} /\ hits' \in {0, hits} /\ lapsed' \in {lapsed, lapsed + hits}
        /\ products' \in BOOLEAN /\ listed' \in BOOLEAN /\ (\E steps : Expires(steps))
        /\ UNCHANGED <<fed, log, recent, stored, usage, deleted, flusher, accepted, connects,
                       updates, owed, expired>>
    BY <1>3 DEF ExpireUsage, database
  <2>2. /\ faults' \in 0 .. MaxFaults /\ incidents' \in SUBSET Incidents
        /\ incidents \subseteq incidents'
    BY <1>1, <2>1, Expired
  <2>3. hits' \in Nat /\ lapsed' \in Nat /\ hll' \in SUBSET Devices /\ IsFiniteSet(hll)'
    BY <1>1, <2>1, FS_EmptySet DEF TypeOK
  <2>4. TypeOK'
    BY <1>1, <2>1, <2>2, <2>3 DEF TypeOK
  <2>5. SameActs /\ SameDevices /\ SameFlushers
    BY <2>1 DEF SameActs, SameDevices, SameFlushers
  <2> QED
    BY <2>2, <2>3, <2>4, <2>5 DEF Step, Acts, Touches
<1>4. CASE ExpireUpdates
  <2>1. faults' \in 0 .. MaxFaults /\ incidents' = incidents /\ incidents' \in SUBSET Incidents
    <3>1. {} \in SUBSET Incidents /\ Fault({})
      BY <1>4 DEF ExpireUpdates
    <3> QED
      BY <1>1, <3>1, Faulty
  <2>2. TypeOK' /\ IsFiniteSet(hll)'
    BY <1>1, <1>4, <2>1 DEF ExpireUpdates, TypeOK, database
  <2>3. Fades /\ SameActs
    BY <1>4 DEF ExpireUpdates, Fades, SameFlushers, SameActs, database
  <2> QED
    BY <2>1, <2>2, <2>3 DEF Step, Acts, Touches, Fades
<1> QED
  BY <1>2, <1>3, <1>4

-----------------------------------------------------------------------------
(* The flushers.                                                           *)

\* What a step of a flusher leaves alone, but for what it is about.
Others == hits' = hits /\ products' = products /\ hll' = hll /\ usage' = usage
          /\ deleted' = deleted /\ fed' = fed /\ connects' = connects /\ updates' = updates
          /\ lapsed' = lapsed

LEMMA Typed ==
    ASSUME IInv, flusher' \in [Flushers -> Flusher], Others, log' \in Seq(Activities),
           stored' \in [Activities -> Nat], recent' \in SUBSET Devices, owed' \in SUBSET Devices,
           accepted' = accepted, expired' = expired, listed' \in BOOLEAN,
           faults' \in 0 .. MaxFaults, incidents' \in SUBSET Incidents
    PROVE  TypeOK' /\ IsFiniteSet(hll)'
BY DEF IInv, TypeOK, Others

\* A flusher that does nothing to the activities or the devices.
LEMMA Elsewhere ==
    ASSUME IInv, NEW f \in Flushers, NoBatch(f), NoMembers(f), SameActs, SameDevices, Others,
           listed' \in BOOLEAN,
           faults' \in 0 .. MaxFaults, incidents' \in SUBSET Incidents, incidents \subseteq incidents'
    PROVE  Step
<1>1. TypeOK
  BY DEF IInv
<1>2. TypeOK' /\ IsFiniteSet(hll)'
  BY <1>1, Typed DEF TypeOK, SameActs, SameDevices, NoBatch, Moves
<1> QED
  BY <1>2 DEF Step, Acts, Touches

LEMMA TaskStep ==
    ASSUME IInv, NEW f \in Flushers, StartTask(f)
    PROVE  Step
<1>1. TypeOK
  BY DEF IInv
<1>2. NoBatch(f) /\ NoMembers(f)
  BY <1>1, StartedMoves DEF StartTask, Programs
<1>3. SameActs /\ SameDevices /\ Others /\ listed' = listed /\ faults' = faults /\ incidents' = incidents
  BY DEF StartTask, SameActs, SameDevices, Others, redis, database, history
<1> QED
  BY <1>1, <1>2, <1>3, Elsewhere DEF TypeOK

LEMMA KillStep ==
    ASSUME IInv, NEW f \in Flushers, Kill(f)
    PROVE  Step
<1>1. TypeOK
  BY DEF IInv
<1> DEFINE kinds == (IF flusher[f].pc = "trim" THEN {"untrimmed"} ELSE {}) \cup
                    (IF flusher[f].pc = "clear" THEN {"uncleared"} ELSE {})
<1>2. kinds \in SUBSET Incidents /\ Fault(kinds)
  BY DEF Kill, Incidents
<1>3. faults' \in 0 .. MaxFaults /\ incidents' \in SUBSET Incidents /\ incidents' = incidents \cup kinds
  <2> HIDE DEF kinds
  <2> QED
    BY <1>1, <1>2, Faulty
<1>4. Moves(f) /\ flusher'[f] = Idle
  BY <1>1, IdleTyped, Moved DEF Kill
<1>5. NoBatch(f) /\ NoMembers(f)
  BY <1>3, <1>4 DEF NoBatch, NoMembers, Idle, ActivityWindow, DeviceWindow
<1>6. SameActs /\ SameDevices /\ Others /\ listed' = listed
  BY DEF Kill, SameActs, SameDevices, Others, redis, database, history
<1> QED
  BY <1>1, <1>3, <1>5, <1>6, Elsewhere DEF TypeOK

LEMMA BatchStep ==
    ASSUME IInv, NEW f \in Flushers, ReadBatch(f)
    PROVE  Step
<1>1. TypeOK
  BY DEF IInv
<1> DEFINE batch == SubSeq(log, 1, Min({BatchSize, Len(log)}))
<1>2. SameActs /\ SameDevices /\ Others /\ listed' = listed /\ faults' = faults
  BY DEF ReadBatch, SameActs, SameDevices, Others, redis, database, history
<1>3. CASE batch = <<>>
  <2>1. flusher' = Continued(f, "hash") /\ incidents' = incidents
    BY <1>3 DEF ReadBatch
  <2>2. NoBatch(f) /\ NoMembers(f)
    BY <1>1, <2>1, ContinuedMoves DEF NoBatch, ReadBatch
  <2> QED
    BY <1>1, <1>2, <2>1, <2>2, Elsewhere DEF TypeOK
<1>4. CASE batch # <<>>
  <2> DEFINE new == [flusher[f] EXCEPT !.pc = "insert", !.batch = batch]
  <2>1. batch \in Seq(Activities)
    <3>1. log \in Seq(Activities) /\ Len(log) \in Nat
      BY <1>1 DEF TypeOK
    <3>2. Min({BatchSize, Len(log)}) \in 0 .. Len(log)
      BY <3>1, BatchLength
    <3> QED
      BY <3>1, <3>2, HeadOfLog
  <2>2. /\ flusher' = [flusher EXCEPT ![f].pc = "insert", ![f].batch = batch]
        /\ incidents' = incidents \cup Noted(ActivityWindow, "activityOverlap")
        /\ flusher[f].pc = "read"
    BY <1>4 DEF ReadBatch
  <2> HIDE DEF batch
  <2>3. flusher' = [flusher EXCEPT ![f] = new]
    BY <1>1, <2>2 DEF TypeOK, Flusher
  <2>4. new \in Flusher /\ new.pc = "insert" /\ new.batch = batch
    <3>1. flusher[f] \in Flusher
      BY <1>1 DEF TypeOK
    <3> QED
      BY <2>1, <3>1 DEF Flusher, Steps
  <2> HIDE DEF new
  <2>5. Moves(f) /\ flusher'[f] = new
    BY <1>1, <2>3, <2>4, Moved
  <2>6. /\ incidents' \in SUBSET Incidents /\ incidents \subseteq incidents'
        /\ Within(ActivityWindow) # {} => "activityOverlap" \in incidents'
    BY <1>1, <2>2, NotedTyped DEF Incidents
  <2>7. Reads(f) /\ NoMembers(f)
    BY <1>2, <2>2, <2>4, <2>5, <2>6 DEF Reads, NoMembers, DeviceWindow, batch
  <2>8. TypeOK' /\ IsFiniteSet(hll)'
    BY <1>1, <1>2, <2>5, <2>6, Typed DEF TypeOK, SameActs, SameDevices, Moves
  <2> QED
    BY <1>2, <2>6, <2>7, <2>8 DEF Step, Acts, Touches
<1> QED
  BY <1>3, <1>4

LEMMA InsertStep ==
    ASSUME IInv, NEW f \in Flushers, InsertBatch(f)
    PROVE  Step
<1>1. TypeOK /\ flusher[f].batch \in Seq(Activities)
  BY DEF IInv, TypeOK, Flusher
<1>2. /\ flusher[f].pc = "insert" /\ flusher' = [flusher EXCEPT ![f].pc = "trim"]
      /\ stored' = [a \in Activities |-> stored[a] + Copies(a, flusher[f].batch)]
      /\ log' = log /\ accepted' = accepted /\ expired' = expired /\ listed' = listed
      /\ faults' = faults /\ incidents' = incidents /\ SameDevices /\ Others
  BY DEF InsertBatch, SameDevices, Others, redis, history
<1>3. Moves(f) /\ flusher'[f].pc = "trim" /\ flusher'[f].batch = flusher[f].batch
  BY <1>1, <1>2, PcMoves DEF Steps
<1>4. stored' \in [Activities -> Nat]
  <2>1. \A a \in Activities : stored[a] \in Nat /\ Copies(a, flusher[f].batch) \in Nat
    BY <1>1, CopiesCount DEF TypeOK
  <2>2. \A a \in Activities : stored[a] + Copies(a, flusher[f].batch) \in Nat
    BY <2>1
  <2> QED
    BY <1>2, <2>2
<1>5. Inserts(f) /\ NoMembers(f)
  BY <1>2, <1>3 DEF Inserts, NoMembers, DeviceWindow
<1>6. TypeOK' /\ IsFiniteSet(hll)'
  BY <1>1, <1>2, <1>3, <1>4, Typed DEF TypeOK, SameDevices, Moves
<1> QED
  BY <1>2, <1>5, <1>6 DEF Step, Acts, Touches

LEMMA TrimStep ==
    ASSUME IInv, NEW f \in Flushers, TrimBatch(f)
    PROVE  Step
<1>1. TypeOK /\ flusher[f] \in Flusher /\ flusher[f].batch \in Seq(Activities)
  BY DEF IInv, TypeOK, Flusher
<1> DEFINE none == <<>>
           new == [flusher[f] EXCEPT !.pc = "read", !.batch = none]
<1>2. /\ flusher[f].pc = "trim" /\ flusher' = [flusher EXCEPT ![f].pc = "read", ![f].batch = none]
      /\ log' = SubSeq(log, Len(flusher[f].batch) + 1, Len(log))
      /\ stored' = stored /\ accepted' = accepted /\ expired' = expired /\ listed' = listed
      /\ faults' = faults /\ incidents' = incidents /\ SameDevices /\ Others
  BY DEF TrimBatch, SameDevices, Others, database, history
<1>3. none \in Seq(Activities)
  BY EmptySeq
<1>4. new \in Flusher /\ new.pc = "read" /\ new.batch = none
  <2> HIDE DEF none
  <2>1. flusher[f] \in Flusher
    BY <1>1
  <2> QED
    BY <1>3, <2>1 DEF Flusher, Steps
<1>5. flusher' = [flusher EXCEPT ![f] = new]
  <2> HIDE DEF none
  <2> QED
    BY <1>1, <1>2 DEF TypeOK, Flusher
<1> HIDE DEF new
<1>6. Moves(f) /\ flusher'[f] = new
  BY <1>1, <1>4, <1>5, Moved
<1>7. log' \in Seq(Activities)
  <2>1. log \in Seq(Activities) /\ Len(flusher[f].batch) \in Nat
    BY <1>1 DEF TypeOK
  <2> QED
    BY <1>2, <2>1, RestOfLog
<1>8. Trims(f) /\ NoMembers(f)
  BY <1>2, <1>4, <1>6 DEF Trims, NoMembers, DeviceWindow
<1>9. TypeOK' /\ IsFiniteSet(hll)'
  BY <1>1, <1>2, <1>6, <1>7, Typed DEF TypeOK, SameDevices, Moves
<1> QED
  BY <1>2, <1>8, <1>9 DEF Step, Acts, Touches

\* A flusher stops at what it was doing and goes on to another buffer, or is done.
LEMMA FailStep ==
    ASSUME IInv, NEW f \in Flushers,
           InsertFails(f) \/ TrimFails(f) \/ WriteRowFails(f) \/ ClearFails(f) \/ WriteMembersFails(f)
    PROVE  Step
<1>1. TypeOK
  BY DEF IInv
<1>2. \E pc \in {"hash", "members", "idle"} : flusher' = Continued(f, pc)
  BY DEF InsertFails, TrimFails, WriteRowFails, ClearFails, WriteMembersFails
<1>3. /\ NoMembers(f) /\ Moves(f) /\ flusher'[f].pc \notin ActivityWindow
      /\ flusher'[f].batch = <<>>
  BY <1>1, <1>2, ContinuedMoves
<1>4. SameActs /\ SameDevices /\ Others /\ listed' = listed
  BY DEF InsertFails, TrimFails, WriteRowFails, ClearFails, WriteMembersFails, SameActs, SameDevices, Others,
         redis, database, history
<1>5. \/ faults' = faults /\ incidents' = incidents /\ flusher[f].pc # "trim"
      \/ Fault({}) /\ flusher[f].pc # "trim"
      \/ Fault({"uncleared"}) /\ flusher[f].pc # "trim"
      \/ Fault({"untrimmed"})
  BY DEF InsertFails, TrimFails, WriteRowFails, ClearFails, WriteMembersFails
<1>6. {} \in SUBSET Incidents /\ {"untrimmed"} \in SUBSET Incidents /\ {"uncleared"} \in SUBSET Incidents
  BY DEF Incidents
<1>7. /\ faults' \in 0 .. MaxFaults /\ incidents' \in SUBSET Incidents /\ incidents \subseteq incidents'
      /\ flusher[f].pc = "trim" => "untrimmed" \in incidents'
  <2>1. CASE faults' = faults /\ incidents' = incidents /\ flusher[f].pc # "trim"
    BY <1>1, <2>1 DEF TypeOK
  <2>2. CASE Fault({}) /\ flusher[f].pc # "trim"
    BY <1>1, <1>6, <2>2, Faulty
  <2>3. CASE Fault({"untrimmed"})
    BY <1>1, <1>6, <2>3, Faulty
  <2>4. CASE Fault({"uncleared"}) /\ flusher[f].pc # "trim"
    BY <1>1, <1>6, <2>4, Faulty
  <2> QED
    BY <1>5, <2>1, <2>2, <2>3, <2>4
<1>8. NoBatch(f)
  BY <1>3, <1>7 DEF NoBatch
<1> QED
  BY <1>1, <1>3, <1>4, <1>7, <1>8, Elsewhere DEF TypeOK

LEMMA HashStep ==
    ASSUME IInv, NEW f \in Flushers, ReadHash(f)
    PROVE  Step
<1>1. TypeOK /\ flusher[f] \in Flusher /\ hits \in Nat
  BY DEF IInv, TypeOK
<1>2. flusher[f].pc = "hash" /\ SameActs /\ SameDevices /\ Others /\ faults' = faults
  BY DEF ReadHash, SameActs, SameDevices, Others, database, history
<1>3. CASE listed /\ (hits > 0 \/ products)
  <2> DEFINE new == [flusher[f] EXCEPT !.pc = "row", !.pulled = hits]
  <2>1. /\ flusher' = [flusher EXCEPT ![f].pc = "row", ![f].pulled = hits]
        /\ incidents' = incidents \cup Noted(UsageWindow, "usageOverlap") /\ listed' = listed
    BY <1>3 DEF ReadHash
  <2>2. flusher' = [flusher EXCEPT ![f] = new]
    BY <1>1, <2>1 DEF TypeOK, Flusher
  <2>3. new \in Flusher /\ new.pc = "row" /\ new.batch = flusher[f].batch
    BY <1>1 DEF Flusher, Steps
  <2> HIDE DEF new
  <2>4. Moves(f) /\ flusher'[f] = new
    BY <1>1, <2>2, <2>3, Moved
  <2>5. NoBatch(f) /\ NoMembers(f)
    BY <1>2, <2>3, <2>4 DEF NoBatch, NoMembers, ActivityWindow, DeviceWindow
  <2>6. incidents' \in SUBSET Incidents /\ incidents \subseteq incidents'
    BY <1>1, <2>1, NotedTyped DEF Incidents
  <2> QED
    BY <1>1, <1>2, <2>1, <2>5, <2>6, Elsewhere DEF TypeOK
<1>4. CASE ~(listed /\ (hits > 0 \/ products))
  <2>1. listed' = FALSE /\ flusher' = Continued(f, "members") /\ incidents' = incidents
    BY <1>4 DEF ReadHash
  <2>2. NoBatch(f) /\ NoMembers(f)
    BY <1>1, <1>2, <2>1, ContinuedMoves DEF NoBatch
  <2> QED
    BY <1>1, <1>2, <2>1, <2>2, Elsewhere DEF TypeOK
<1> QED
  BY <1>3, <1>4

LEMMA LoadStep ==
    ASSUME IInv, NEW f \in Flushers, LoadRow(f)
    PROVE  Step
<1>1. TypeOK /\ flusher[f] \in Flusher
  BY DEF IInv, TypeOK
<1>2. flusher[f].pc = "row" /\ SameActs /\ SameDevices /\ Others /\ listed' = listed
      /\ faults' = faults /\ incidents' = incidents
  BY DEF LoadRow, SameActs, SameDevices, Others, redis, database, history
<1>3. NoBatch(f) /\ NoMembers(f)
  <2>1. CASE flusher' = [flusher EXCEPT ![f].pc = "add"]
    <3>1. Moves(f) /\ flusher'[f].pc = "add" /\ flusher'[f].batch = flusher[f].batch
      BY <1>1, <2>1, PcMoves DEF Steps
    <3> QED
      BY <1>2, <3>1 DEF NoBatch, NoMembers, ActivityWindow, DeviceWindow
  <2>2. ASSUME NEW i \in DOMAIN usage,
               flusher' = [flusher EXCEPT ![f].pc = "add", ![f].row = i, ![f].image = usage[i].hits]
        PROVE  NoBatch(f) /\ NoMembers(f)
    <3> DEFINE n == usage[i].hits
               new == [flusher[f] EXCEPT !.pc = "add", !.row = i, !.image = n]
    <3>1. i \in Nat /\ n \in Nat
      <4>1. usage \in Seq(Row)
        BY <1>1 DEF TypeOK
      <4>2. i \in 1 .. Len(usage) /\ usage[i] \in Row
        BY <4>1, ElementOfSeq, LenProperties
      <4> QED
        BY <4>2 DEF Row
    <3>2. flusher' = [flusher EXCEPT ![f] = new]
      BY <1>1, <2>2 DEF TypeOK, Flusher
    <3> HIDE DEF n
    <3>3. new \in Flusher /\ new.pc = "add" /\ new.batch = flusher[f].batch
      BY <1>1, <3>1 DEF Flusher, Steps
    <3> HIDE DEF new
    <3>4. Moves(f) /\ flusher'[f] = new
      BY <1>1, <3>2, <3>3, Moved
    <3> QED
      BY <1>2, <3>3, <3>4 DEF NoBatch, NoMembers, ActivityWindow, DeviceWindow
  <2> QED
    BY <2>1, <2>2 DEF LoadRow
<1> QED
  BY <1>1, <1>2, <1>3, Elsewhere DEF TypeOK

LEMMA WriteStep ==
    ASSUME IInv, NEW f \in Flushers, WriteRow(f)
    PROVE  Step
<1>1. TypeOK /\ IsFiniteSet(hll) /\ flusher[f] \in Flusher /\ usage \in Seq(Row)
  BY DEF IInv, TypeOK
<1> DEFINE none == 0
           new == [flusher[f] EXCEPT !.pc = "clear", !.row = NoRow, !.image = none]
<1>2. /\ flusher[f].pc = "add"
      /\ flusher' = [flusher EXCEPT ![f].pc = "clear", ![f].row = NoRow, ![f].image = none]
      /\ SameActs /\ SameDevices /\ deleted' = deleted /\ fed' = fed /\ faults' = faults
      /\ incidents' = incidents /\ hits' = hits /\ hll' = hll /\ listed' = listed
      /\ products' = products /\ connects' = connects /\ updates' = updates /\ lapsed' = lapsed
  BY DEF WriteRow, SameActs, SameDevices, redis, history
<1>3. Moves(f) /\ flusher'[f].pc = "clear" /\ flusher'[f].batch = flusher[f].batch
  <2>1. flusher' = [flusher EXCEPT ![f] = new]
    BY <1>1, <1>2 DEF TypeOK, Flusher
  <2>2. none \in Nat
    OBVIOUS
  <2> HIDE DEF none
  <2>3. new \in Flusher /\ new.pc = "clear" /\ new.batch = flusher[f].batch
    BY <1>1, <2>2 DEF Flusher, Steps
  <2> HIDE DEF new
  <2> QED
    BY <1>1, <2>1, <2>3, Moved
<1>4. usage' \in Seq(Row)
  <2>1. PICK n \in DevicesCounted :
          usage' = IF flusher[f].row = NoRow
                   THEN Append(usage, [hits |-> flusher[f].image + flusher[f].pulled, devices |-> n])
                   ELSE [usage EXCEPT ![flusher[f].row] =
                            [hits |-> flusher[f].image + flusher[f].pulled, devices |-> n]]
    BY DEF WriteRow
  <2>2. n \in Nat
    BY <1>1, <2>1, FS_CardinalityType DEF DevicesCounted
  <2> DEFINE row == [hits |-> flusher[f].image + flusher[f].pulled, devices |-> n]
  <2>3. row \in Row
    BY <1>1, <2>2 DEF Flusher, Row
  <2>4. usage' = Append(usage, row) \/ \E i : usage' = [usage EXCEPT ![i] = row]
    BY <2>1
  <2> HIDE DEF row
  <2>5. CASE usage' = Append(usage, row)
    BY <1>1, <2>3, <2>5, AppendProperties
  <2>6. ASSUME NEW i, usage' = [usage EXCEPT ![i] = row] PROVE usage' \in Seq(Row)
    <3>1. Len(usage) \in Nat /\ usage \in [1 .. Len(usage) -> Row]
      BY <1>1, LenProperties
    <3>2. usage' \in [1 .. Len(usage) -> Row]
      BY <2>3, <2>6, <3>1
    <3> QED
      BY <3>1, <3>2, SeqDef
  <2> QED
    BY <2>4, <2>5, <2>6
<1>5. TypeOK' /\ IsFiniteSet(hll)'
  BY <1>1, <1>2, <1>3, <1>4 DEF TypeOK, SameActs, SameDevices, Moves
<1>6. NoBatch(f) /\ NoMembers(f)
  BY <1>2, <1>3 DEF NoBatch, NoMembers, ActivityWindow, DeviceWindow
<1> QED
  BY <1>2, <1>5, <1>6 DEF Step, Acts, Touches

LEMMA ClearStep ==
    ASSUME IInv, NEW f \in Flushers,
           ClearHash(f) \/ ClearProducts(f) \/ ClearDevices(f) \/ Unlist(f)
    PROVE  Step
<1>1. TypeOK /\ IsFiniteSet(hll) /\ flusher[f] \in Flusher
  BY DEF IInv, TypeOK
<1>2. /\ SameActs /\ SameDevices /\ faults' = faults /\ incidents' = incidents /\ fed' = fed
      /\ usage' = usage /\ deleted' = deleted /\ connects' = connects /\ updates' = updates
      /\ lapsed' = lapsed /\ flusher[f].pc \in {"clear", "clearProducts", "clearDevices", "unlist"}
  BY DEF ClearHash, ClearProducts, ClearDevices, Unlist, SameActs, SameDevices, database, history
<1>3. CASE ClearHash(f)
  <2> DEFINE none == 0
             new == [flusher[f] EXCEPT !.pc = "clearProducts", !.pulled = none]
  <2>1. /\ flusher' = [flusher EXCEPT ![f].pc = "clearProducts", ![f].pulled = none]
        /\ hits' = 0 /\ hll' = hll /\ listed' = listed /\ products' = products
    BY <1>3 DEF ClearHash
  <2>2. flusher' = [flusher EXCEPT ![f] = new]
    BY <1>1, <2>1 DEF TypeOK, Flusher
  <2>3. new \in Flusher /\ new.pc = "clearProducts" /\ new.batch = flusher[f].batch
    BY <1>1 DEF Flusher, Steps
  <2> HIDE DEF new
  <2>4. Moves(f) /\ flusher'[f] = new
    BY <1>1, <2>2, <2>3, Moved
  <2>5. NoBatch(f) /\ NoMembers(f)
    BY <1>2, <2>3, <2>4 DEF NoBatch, NoMembers, ActivityWindow, DeviceWindow
  <2>6. TypeOK' /\ IsFiniteSet(hll)'
    BY <1>1, <1>2, <2>1, <2>4 DEF TypeOK, SameActs, SameDevices, Moves
  <2> QED
    BY <1>2, <2>5, <2>6 DEF Step, Acts, Touches
<1>4. CASE ClearProducts(f) \/ ClearDevices(f)
  <2>1. /\ \E pc \in {"clearDevices", "unlist"} : flusher' = [flusher EXCEPT ![f].pc = pc]
        /\ hll' \in {hll, {}} /\ products' \in {products, FALSE} /\ hits' = hits /\ listed' = listed
    BY <1>4 DEF ClearProducts, ClearDevices
  <2>2. Moves(f) /\ flusher'[f].pc \in {"clearDevices", "unlist"} /\ flusher'[f].batch = flusher[f].batch
    BY <1>1, <2>1, PcMoves DEF Steps
  <2>3. NoBatch(f) /\ NoMembers(f)
    BY <1>2, <2>2 DEF NoBatch, NoMembers, ActivityWindow, DeviceWindow
  <2>4. TypeOK' /\ IsFiniteSet(hll)'
    BY <1>1, <1>2, <2>1, <2>2, FS_EmptySet DEF TypeOK, SameActs, SameDevices, Moves
  <2> QED
    BY <1>2, <2>3, <2>4 DEF Step, Acts, Touches
<1>5. CASE Unlist(f)
  <2>1. listed' = FALSE /\ flusher' = Continued(f, "members") /\ Others
    BY <1>5 DEF Unlist, Others, database, history
  <2>2. NoBatch(f) /\ NoMembers(f)
    BY <1>1, <1>2, <2>1, ContinuedMoves DEF NoBatch
  <2> QED
    BY <1>1, <1>2, <2>1, <2>2, Elsewhere DEF TypeOK
<1> QED
  BY <1>3, <1>4, <1>5

LEMMA MembersStep ==
    ASSUME IInv, NEW f \in Flushers, ReadMembers(f)
    PROVE  Step
<1>1. TypeOK /\ flusher[f] \in Flusher /\ recent \in SUBSET Devices
  BY DEF IInv, TypeOK
<1>2. flusher[f].pc = "members" /\ SameActs /\ SameDevices /\ Others /\ listed' = listed
      /\ faults' = faults
  BY DEF ReadMembers, SameActs, SameDevices, Others, redis, database, history
<1>3. CASE recent = {}
  <2>1. flusher' = Continued(f, "idle") /\ incidents' = incidents
    BY <1>3 DEF ReadMembers
  <2>2. NoBatch(f) /\ NoMembers(f)
    BY <1>1, <1>2, <2>1, ContinuedMoves DEF NoBatch
  <2> QED
    BY <1>1, <1>2, <2>1, <2>2, Elsewhere DEF TypeOK
<1>4. CASE recent # {}
  <2> DEFINE new == [flusher[f] EXCEPT !.pc = "write", !.members = recent]
  <2>1. /\ flusher' = [flusher EXCEPT ![f].pc = "write", ![f].members = recent]
        /\ incidents' = incidents \cup Noted(DeviceWindow, "deviceOverlap")
    BY <1>4 DEF ReadMembers
  <2>2. flusher' = [flusher EXCEPT ![f] = new]
    BY <1>1, <2>1 DEF TypeOK, Flusher
  <2>3. new \in Flusher /\ new.pc = "write" /\ new.batch = flusher[f].batch /\ new.members = recent
    BY <1>1 DEF Flusher, Steps
  <2> HIDE DEF new
  <2>4. Moves(f) /\ flusher'[f] = new
    BY <1>1, <2>2, <2>3, Moved
  <2>5. /\ incidents' \in SUBSET Incidents /\ incidents \subseteq incidents'
        /\ Within(DeviceWindow) # {} => "deviceOverlap" \in incidents'
    BY <1>1, <2>1, NotedTyped DEF Incidents
  <2>6. NoBatch(f) /\ Gets(f)
    BY <1>2, <2>3, <2>4, <2>5 DEF NoBatch, Gets, ActivityWindow
  <2>7. TypeOK' /\ IsFiniteSet(hll)'
    BY <1>1, <1>2, <2>4, <2>5, Typed DEF TypeOK, SameActs, SameDevices, Moves
  <2> QED
    BY <1>2, <2>5, <2>6, <2>7 DEF Step, Acts, Touches
<1> QED
  BY <1>3, <1>4

LEMMA WriteMembersStep ==
    ASSUME IInv, NEW f \in Flushers, WriteMembers(f) \/ WriteSomeMembers(f)
    PROVE  Step
<1>1. TypeOK /\ flusher[f] \in Flusher
  BY DEF IInv, TypeOK
<1>2. /\ flusher[f].pc = "write" /\ flusher' = [flusher EXCEPT ![f].pc = "drop"]
      /\ SameActs /\ Others /\ recent' = recent /\ listed' = listed /\ owed' \subseteq owed
  BY DEF WriteMembers, WriteSomeMembers, SameActs, Others, redis, database
<1>3. Moves(f) /\ flusher'[f].pc = "drop" /\ flusher'[f].batch = flusher[f].batch
  BY <1>1, <1>2, PcMoves DEF Steps
<1>4. /\ faults' \in 0 .. MaxFaults /\ incidents' \in SUBSET Incidents /\ incidents \subseteq incidents'
      /\ owed' = owed \ flusher[f].members \/ "groupFailed" \in incidents'
  <2>1. CASE WriteMembers(f)
    BY <1>1, <2>1 DEF WriteMembers, TypeOK
  <2>2. CASE WriteSomeMembers(f)
    <3>1. Fault({"groupFailed"}) /\ {"groupFailed"} \in SUBSET Incidents
      BY <2>2 DEF WriteSomeMembers, Incidents
    <3> QED
      BY <1>1, <3>1, Faulty
  <2> QED
    BY <2>1, <2>2
<1>5. TypeOK' /\ IsFiniteSet(hll)'
  BY <1>1, <1>2, <1>3, <1>4, Typed DEF TypeOK, SameActs, Moves
<1>6. NoBatch(f) /\ Writes(f)
  BY <1>2, <1>3, <1>4 DEF NoBatch, Writes, ActivityWindow
<1> QED
  BY <1>2, <1>4, <1>5, <1>6 DEF Step, Acts, Touches

LEMMA DropStep ==
    ASSUME IInv, NEW f \in Flushers, DropMembers(f)
    PROVE  Step
<1>1. TypeOK /\ flusher[f] \in Flusher
  BY DEF IInv, TypeOK
<1>2. /\ flusher[f].pc = "drop" /\ flusher' = Continued(f, "idle") /\ recent' = {} /\ owed' = owed
      /\ SameActs /\ Others /\ listed' = listed /\ faults' = faults /\ incidents' = incidents
  BY DEF DropMembers, SameActs, Others, database, history
<1>3. NoBatch(f) /\ NoMembers(f) /\ Moves(f)
  BY <1>1, <1>2, ContinuedMoves DEF NoBatch
<1>4. TypeOK' /\ IsFiniteSet(hll)'
  BY <1>1, <1>2, <1>3, Typed DEF TypeOK, SameActs, Moves
<1>5. Drops(f)
  BY <1>2, <1>3 DEF Drops
<1> QED
  BY <1>2, <1>3, <1>4, <1>5 DEF Step, Acts, Touches

LEMMA StepEffect ==
    ASSUME IInv, [Next]_vars
    PROVE  Step
<1>1. ASSUME NEW f \in Flushers, StartTask(f) \/ Flush(f) \/ Kill(f) PROVE Step
  BY <1>1, TaskStep, KillStep, BatchStep, InsertStep, TrimStep, FailStep, HashStep, LoadStep,
     WriteStep, ClearStep, MembersStep, WriteMembersStep, DropStep DEF Flush
<1>2. CASE Request
  BY <1>2, LogActivityStep, LogDirectlyStep, UseStep, OutsideStep DEF Request
<1> QED
  BY <1>1, <1>2, OutsideStep, ExpiryStep DEF Next

-----------------------------------------------------------------------------
(* Each part of the invariant is kept.                                     *)

LEMMA Lists ==
    ASSUME TypeOK
    PROVE  /\ log \in Seq(Activities) /\ Len(log) \in Nat /\ DOMAIN log = 1 .. Len(log)
           /\ \A f \in Flushers : /\ flusher[f].batch \in Seq(Activities)
                                  /\ Len(flusher[f].batch) \in Nat
           /\ \A a \in Activities : stored[a] \in Nat
<1>1. log \in Seq(Activities) /\ stored \in [Activities -> Nat]
  BY DEF TypeOK
<1>2. ASSUME NEW f \in Flushers PROVE flusher[f].batch \in Seq(Activities)
  BY DEF TypeOK, Flusher
<1> QED
  BY <1>1, <1>2, LenProperties

\* Who works on a batch after a step did before, with the same batch, or has just read it.
LEMMA WindowFrom ==
    ASSUME Acts, NEW f \in Flushers, flusher'[f].pc \in ActivityWindow
    PROVE  flusher'[f] = flusher[f] \/ Reads(f) \/ Inserts(f)
<1>1. ASSUME NEW g \in Flushers, NoBatch(g) PROVE flusher'[f] = flusher[f]
  BY <1>1 DEF NoBatch, Moves
<1>2. ASSUME NEW g \in Flushers, Reads(g) PROVE flusher'[f] = flusher[f] \/ Reads(f)
  BY <1>2 DEF Reads, Moves
<1>3. ASSUME NEW g \in Flushers, Inserts(g) PROVE flusher'[f] = flusher[f] \/ Inserts(f)
  BY <1>3 DEF Inserts, Moves
<1>4. ASSUME NEW g \in Flushers, Trims(g) PROVE flusher'[f] = flusher[f]
  BY <1>4 DEF Trims, Moves, ActivityWindow
<1> QED
  BY <1>1, <1>2, <1>3, <1>4 DEF Acts, Logs, Stores, Empties, SameFlushers

\* What is stored stays stored.
LEMMA StoredGrows ==
    ASSUME TypeOK, Acts, NEW a \in Activities
    PROVE  /\ stored'[a] >= stored[a]
           /\ stored'[a] = stored[a] \/ Stores(a)
              \/ \E f \in Flushers : Inserts(f) /\ a \in ToSet(flusher[f].batch)
<1>1. stored \in [Activities -> Nat] /\ stored[a] \in Nat
  BY DEF TypeOK
<1>2. ASSUME NEW b \in Activities, Stores(b)
      PROVE  stored'[a] >= stored[a] /\ (stored'[a] = stored[a] \/ Stores(a))
  <2>1. stored' = [stored EXCEPT ![b] = @ + 1]
    BY <1>2 DEF Stores
  <2>2. CASE b = a
    BY <1>1, <1>2, <2>1, <2>2
  <2>3. CASE b # a
    BY <1>1, <2>1, <2>3
  <2> QED
    BY <2>2, <2>3
<1>3. ASSUME NEW f \in Flushers, Inserts(f)
      PROVE  stored'[a] >= stored[a] /\ (stored'[a] = stored[a] \/ a \in ToSet(flusher[f].batch))
  <2>1. stored'[a] = stored[a] + Copies(a, flusher[f].batch)
    BY <1>3 DEF Inserts
  <2>2. flusher[f].batch \in Seq(Activities)
    BY Lists
  <2>3. Copies(a, flusher[f].batch) \in Nat
        /\ (Copies(a, flusher[f].batch) > 0 <=> a \in ToSet(flusher[f].batch))
    BY <2>2, CopiesCount
  <2> QED
    BY <1>1, <2>1, <2>3
<1>4. stored' = stored \/ (\E b \in Activities : Stores(b)) \/ \E f \in Flushers : Inserts(f)
  BY DEF Acts, Logs, Empties, Reads, Trims, SameActs
<1>5. CASE stored' = stored
  BY <1>1, <1>5
<1> QED
  BY <1>2, <1>3, <1>4, <1>5

\* What the list is after a step.
LEMMA LogFrom ==
    ASSUME Acts
    PROVE  \/ log' = log
           \/ \E a \in Activities : /\ log' = Append(log, a) /\ accepted' = accepted \cup {a}
                                    /\ Cardinality(accepted) + 1 = a
                                    /\ Logs(a) \/ "fallback" \in incidents'
           \/ Empties
           \/ \E f \in Flushers : Trims(f)
BY DEF Acts, Logs, Stores, Reads, Inserts, SameActs

LEMMA AcceptedGrows ==
    ASSUME LoggedInOrder, Acts
    PROVE  /\ \E n \in Nat : accepted' = 1 .. n
           /\ accepted \subseteq accepted'
           /\ \A a : Cardinality(accepted) + 1 = a => a \notin accepted
<1>1. PICK n \in Nat : accepted = 1 .. n
  BY DEF LoggedInOrder
<1>2. /\ Cardinality(accepted) + 1 = n + 1 /\ n + 1 \notin accepted
      /\ accepted \cup {n + 1} = 1 .. (n + 1)
  BY <1>1, NextActivity
<1>3. accepted' = accepted \/ accepted' = accepted \cup {n + 1}
  BY <1>2 DEF Acts, Logs, Stores, Empties, Reads, Inserts, Trims, SameActs
<1>4. n + 1 \in Nat
  BY <1>1
<1> QED
  BY <1>1, <1>2, <1>3, <1>4

LEMMA LoggedKept ==
    ASSUME IInv, Step
    PROVE  LoggedInOrder'
<1>1. TypeOK /\ Acts /\ LoggedInOrder
  BY DEF IInv, Step
<1>2. /\ \E n \in Nat : accepted' = 1 .. n
      /\ accepted \subseteq accepted'
      /\ \A a : Cardinality(accepted) + 1 = a => a \notin accepted
  BY <1>1, AcceptedGrows
<1>3. log \in Seq(Activities) /\ Len(log) \in Nat
  BY <1>1, Lists
<1>4. ToSet(log') \subseteq accepted'
  <2>1. ASSUME NEW a \in Activities, log' = Append(log, a), accepted' = accepted \cup {a}
        PROVE  ToSet(log') \subseteq accepted'
    BY <1>1, <1>3, <2>1, Elements DEF LoggedInOrder
  <2>2. ASSUME NEW f \in Flushers, Trims(f) PROVE ToSet(log') \subseteq accepted'
    <3> DEFINE n == Len(flusher[f].batch)
               rest == SubSeq(log, n + 1, Len(log))
    <3>1. n \in Nat /\ log' = rest
      BY <1>1, <2>2, Lists DEF Trims
    <3> HIDE DEF n
    <3>2. /\ rest \in Seq(Activities)
          /\ \A i \in 1 .. Len(rest) : i + n \in 1 .. Len(log) /\ rest[i] = log[i + n]
      BY <1>3, <3>1, RestOfLog
    <3> HIDE DEF rest
    <3>3. \A i \in 1 .. Len(log) : log[i] \in accepted
      BY <1>1, <1>3, Elements DEF LoggedInOrder
    <3>4. \A x : x \in ToSet(rest) => x \in accepted
      BY <3>2, <3>3, Elements
    <3> QED
      BY <1>2, <3>1, <3>4
  <2>3. CASE Empties
    <3>1. log' = <<>> /\ ToSet(<<>>) = {}
      BY <1>3, <2>3, Elements DEF Empties
    <3> QED
      BY <3>1
  <2>4. CASE log' = log
    BY <1>1, <1>2, <2>4 DEF LoggedInOrder
  <2> QED
    BY <1>1, <2>1, <2>2, <2>3, <2>4, LogFrom
<1>5. ASSUME NEW f \in Flushers PROVE ToSet(flusher'[f].batch) \subseteq accepted'
  <2>1. CASE flusher'[f].batch = flusher[f].batch
    BY <1>1, <1>2, <2>1 DEF LoggedInOrder
  <2>2. CASE flusher'[f].batch = <<>>
    BY <1>3, <2>2, Elements
  <2>3. CASE Reads(f)
    <3> DEFINE n == Min({BatchSize, Len(log)})
               batch == SubSeq(log, 1, n)
    <3>1. n \in 0 .. Len(log) /\ flusher'[f].batch = batch
      BY <1>3, <2>3, BatchLength DEF Reads
    <3> HIDE DEF n
    <3>2. batch \in Seq(Activities) /\ Len(batch) = n /\ \A i \in 1 .. n : batch[i] = log[i]
      BY <1>3, <3>1, HeadOfLog
    <3> HIDE DEF batch
    <3>3. \A i \in 1 .. Len(log) : log[i] \in accepted
      BY <1>1, <1>3, Elements DEF LoggedInOrder
    <3>4. \A i \in 1 .. n : i \in 1 .. Len(log)
      BY <1>3, <3>1
    <3>5. \A x : x \in ToSet(batch) => x \in accepted
      BY <3>2, <3>3, <3>4, Elements
    <3> QED
      BY <1>2, <3>1, <3>5
  <2> QED
    BY <1>1, <2>1, <2>2, <2>3
    DEF Acts, Logs, Stores, Empties, Reads, Inserts, Trims, NoBatch, Moves, SameFlushers
<1>6. ASSUME NEW a \in Activities \ accepted' PROVE stored'[a] = 0
  <2>1. a \notin accepted /\ stored[a] = 0
    BY <1>1, <1>2, <1>6 DEF LoggedInOrder
  <2>2. \A f \in Flushers : a \notin ToSet(flusher[f].batch)
    BY <1>1, <2>1 DEF LoggedInOrder
  <2>3. ~Stores(a)
    BY <1>6 DEF Stores
  <2> QED
    BY <1>1, <2>1, <2>2, <2>3, StoredGrows
<1> QED
  BY <1>2, <1>4, <1>5, <1>6 DEF LoggedInOrder

LEMMA TrimmedKept ==
    ASSUME IInv, Step
    PROVE  TrimmedIsStored'
<1>1. TypeOK /\ Acts /\ LoggedInOrder /\ TrimmedIsStored
  BY DEF IInv, Step
<1>2. SUFFICES ASSUME NEW f \in Flushers, flusher'[f].pc = "trim", NEW a \in ToSet(flusher'[f].batch)
               PROVE  stored'[a] > 0
  BY DEF TrimmedIsStored, Within
<1>3. CASE flusher'[f] = flusher[f]
  <2>1. flusher[f].batch \in Seq(Activities)
    BY <1>1, Lists
  <2>2. a \in Activities
    BY <1>2, <1>3, <2>1, Elements
  <2>3. stored[a] > 0 /\ stored[a] \in Nat
    BY <1>1, <1>2, <1>3, <2>2, Lists DEF TrimmedIsStored, Within
  <2>4. stored'[a] >= stored[a]
    BY <1>1, <2>2, StoredGrows
  <2>5. stored'[a] = stored[a] \/ stored'[a] \in Nat
    BY <2>2 DEF Step, TypeOK
  <2> QED
    BY <2>3, <2>4, <2>5
<1>4. CASE Inserts(f)
  <2>1. flusher[f].batch \in Seq(Activities) /\ a \in ToSet(flusher[f].batch)
    BY <1>1, <1>2, <1>4, Lists DEF Inserts
  <2>2. a \in Activities
    BY <2>1, Elements
  <2>3. stored[a] \in Nat /\ Copies(a, flusher[f].batch) \in Nat /\ Copies(a, flusher[f].batch) > 0
    BY <1>1, <2>1, <2>2, Lists, CopiesCount
  <2>4. stored'[a] = stored[a] + Copies(a, flusher[f].batch)
    BY <1>4, <2>2 DEF Inserts
  <2> QED
    BY <2>3, <2>4
<1> QED
  BY <1>1, <1>2, <1>3, <1>4, WindowFrom DEF Reads, ActivityWindow

LEMMA HeadKept ==
    ASSUME IInv, Step
    PROVE  HeadIsHeld'
<1>1. TypeOK /\ Acts /\ incidents \subseteq incidents' /\ LoggedInOrder
  BY DEF IInv, Step
<1> DEFINE Headed(f) == /\ Len(flusher'[f].batch) <= Len(log')
                        /\ \A i \in 1 .. Len(flusher'[f].batch) : log'[i] = flusher'[f].batch[i]
           Parted(f) == "heldExpiry" \in incidents' /\ ToSet(flusher'[f].batch) \cap ToSet(log') = {}
<1>2. SUFFICES ASSUME "activityOverlap" \notin incidents'
               PROVE  /\ \A f, g \in Flushers : flusher'[f].pc \in ActivityWindow
                                                /\ flusher'[g].pc \in ActivityWindow => f = g
                      /\ \A f \in Flushers : flusher'[f].pc \in ActivityWindow =>
                            Headed(f) \/ Parted(f)
  BY DEF HeadIsHeld, Lone, Heads, Apart, Within
<1>3. /\ \A f, g \in Flushers : flusher[f].pc \in ActivityWindow
                                /\ flusher[g].pc \in ActivityWindow => f = g
      /\ \A f \in Flushers : flusher[f].pc \in ActivityWindow =>
            \/ Heads(flusher[f].batch)
            \/ "heldExpiry" \in incidents /\ Apart(flusher[f].batch)
  BY <1>1, <1>2 DEF IInv, HeadIsHeld, Lone, Within
<1>4. log \in Seq(Activities) /\ Len(log) \in Nat
  BY <1>1, Lists
\* Who reads does so alone.
<1>5. ASSUME NEW f \in Flushers, Reads(f), NEW g \in Flushers, flusher'[g].pc \in ActivityWindow
      PROVE  f = g
  <2>1. \A h \in Flushers : flusher[h].pc \notin ActivityWindow
    BY <1>2, <1>5 DEF Reads, Within
  <2>2. g # f => flusher'[g] = flusher[g]
    BY <1>5 DEF Reads, Moves
  <2> QED
    BY <1>5, <2>1, <2>2
<1>6. ASSUME NEW f \in Flushers, flusher'[f].pc \in ActivityWindow, ~Reads(f)
      PROVE  flusher[f].pc \in ActivityWindow /\ flusher'[f].batch = flusher[f].batch
  BY <1>1, <1>6, WindowFrom DEF Inserts, ActivityWindow
<1>7. ASSUME NEW f \in Flushers, NEW g \in Flushers, flusher'[f].pc \in ActivityWindow,
             flusher'[g].pc \in ActivityWindow
      PROVE  f = g
  BY <1>3, <1>5, <1>6, <1>7
<1>8. ASSUME NEW f \in Flushers, flusher'[f].pc \in ActivityWindow
      PROVE  Headed(f) \/ Parted(f)
  <2>1. CASE Reads(f)
    <3> DEFINE n == Min({BatchSize, Len(log)})
               batch == SubSeq(log, 1, n)
    <3>1. n \in 0 .. Len(log) /\ flusher'[f].batch = batch /\ log' = log
      BY <1>4, <2>1, BatchLength DEF Reads, SameActs
    <3> HIDE DEF n
    <3>2. Len(batch) = n /\ \A i \in 1 .. n : batch[i] = log[i]
      BY <1>4, <3>1, HeadOfLog
    <3> HIDE DEF batch
    <3> QED
      BY <1>4, <3>1, <3>2
  <2>2. CASE ~Reads(f)
    <3>1. /\ flusher[f].pc \in ActivityWindow /\ flusher'[f].batch = flusher[f].batch
          /\ Len(flusher[f].batch) \in Nat /\ flusher[f].batch \in Seq(Activities)
          /\ ToSet(flusher[f].batch) \subseteq accepted
      BY <1>1, <1>6, <1>8, <2>2, Lists DEF LoggedInOrder
    <3>2. \/ log' = log
          \/ \E a \in Activities : log' = Append(log, a) /\ a \notin accepted
          \/ Empties
      <4>1. ASSUME NEW g \in Flushers, Trims(g) PROVE FALSE
        <5>1. flusher[g].pc \in ActivityWindow /\ flusher'[g].pc \notin ActivityWindow
          BY <4>1 DEF Trims, ActivityWindow
        <5> QED
          BY <1>3, <1>8, <3>1, <5>1
      <4> QED
        BY <1>1, <4>1, LogFrom, AcceptedGrows
    <3>3. CASE Empties
      <4>1. "heldExpiry" \in incidents' /\ log' = <<>>
        BY <3>1, <3>3 DEF Empties, Within
      <4>2. ToSet(<<>>) = {}
        BY <1>4, Elements
      <4> QED
        BY <4>1, <4>2
    <3>4. CASE ~Empties /\ Heads(flusher[f].batch)
      <4>1. /\ Len(flusher[f].batch) <= Len(log)
            /\ \A i \in 1 .. Len(flusher[f].batch) : log[i] = flusher[f].batch[i]
        BY <3>4 DEF Heads
      <4>2. CASE log' = log
        BY <3>1, <4>1, <4>2
      <4>3. ASSUME NEW a \in Activities, log' = Append(log, a) PROVE Headed(f)
        <5>1. Len(log') = Len(log) + 1 /\ \A i \in 1 .. Len(log) : log'[i] = log[i]
          BY <1>4, <4>3, AppendProperties
        <5>2. \A i \in 1 .. Len(flusher[f].batch) : i \in 1 .. Len(log)
          BY <1>4, <3>1, <4>1
        <5> HIDE <4>3
        <5> QED
          BY <1>4, <3>1, <4>1, <5>1, <5>2
      <4> QED
        BY <3>2, <3>4, <4>2, <4>3
    <3>5. CASE ~Empties /\ "heldExpiry" \in incidents /\ Apart(flusher[f].batch)
      <4>1. CASE log' = log
        BY <1>1, <3>1, <3>5, <4>1 DEF Apart
      <4>2. ASSUME NEW a \in Activities, log' = Append(log, a), a \notin accepted PROVE Parted(f)
        <5>1. ToSet(log') = ToSet(log) \cup {a}
          BY <1>4, <4>2, Elements
        <5> QED
          BY <1>1, <3>1, <3>5, <4>2, <5>1 DEF Apart
      <4> QED
        BY <3>2, <3>5, <4>1, <4>2
    <3> QED
      BY <1>3, <3>1, <3>3, <3>4, <3>5
  <2> QED
    BY <2>1, <2>2
<1> QED
  BY <1>7, <1>8

LEMMA LossKept ==
    ASSUME IInv, Step
    PROVE  LossNeedsOverlap'
<1>1. TypeOK /\ Acts /\ incidents \subseteq incidents' /\ LoggedInOrder /\ TrimmedIsStored
  BY DEF IInv, Step
<1>2. SUFFICES ASSUME NEW a \in accepted', a \notin expired', a \notin ToSet(log'), stored'[a] = 0,
                      "activityOverlap" \notin incidents', "heldExpiry" \notin incidents'
               PROVE  FALSE
  BY DEF LossNeedsOverlap
<1>3. log \in Seq(Activities) /\ Len(log) \in Nat
  BY <1>1, Lists
<1>4. a \in Activities
  BY DEF Step, TypeOK
<1>5. stored[a] = 0
  <2>1. stored[a] \in Nat /\ stored'[a] >= stored[a]
    BY <1>1, <1>4, Lists, StoredGrows
  <2> QED
    BY <1>2, <2>1
<1>6. a \in accepted
  <2>1. ASSUME a \notin accepted PROVE FALSE
    <3>1. \/ Logs(a)
          \/ Stores(a)
      BY <1>2, <2>1 DEF Step, Acts, Logs, Stores, Empties, Reads, Inserts, Trims, SameActs
    <3>2. ~Logs(a)
      <4>1. ToSet(Append(log, a)) = ToSet(log) \cup {a}
        BY <1>3, <1>4, Elements
      <4> QED
        BY <1>2, <4>1 DEF Logs
    <3>3. ~Stores(a)
      BY <1>1, <1>2, <1>4, <1>5 DEF Stores, TypeOK
    <3> QED
      BY <3>1, <3>2, <3>3
  <2> QED
    BY <2>1
<1>7. a \notin expired
  BY <1>2, <1>6 DEF Step, Acts, Logs, Stores, Empties, Reads, Inserts, Trims, SameActs
<1>8. a \in ToSet(log)
  BY <1>1, <1>2, <1>5, <1>6, <1>7 DEF IInv, LossNeedsOverlap
<1>9. ~Empties
  BY <1>2, <1>8 DEF Empties
<1>10. ASSUME NEW b \in Activities, log' = Append(log, b) PROVE FALSE
  BY <1>2, <1>3, <1>8, <1>10, Elements
<1>11. ASSUME NEW f \in Flushers, Trims(f) PROVE FALSE
  <2> DEFINE n == Len(flusher[f].batch)
             rest == SubSeq(log, n + 1, Len(log))
  <2>1. n \in Nat /\ log' = rest /\ flusher[f].pc = "trim" /\ flusher[f].batch \in Seq(Activities)
    BY <1>1, <1>11, Lists DEF Trims
  <2>2. Heads(flusher[f].batch)
    BY <1>1, <1>2, <2>1 DEF IInv, HeadIsHeld, Within, ActivityWindow
  <2>3. \A b \in ToSet(flusher[f].batch) : stored[b] > 0
    BY <1>1, <2>1 DEF TrimmedIsStored, Within
  <2>4. n <= Len(log) /\ \A i \in 1 .. n : log[i] = flusher[f].batch[i]
    BY <2>2 DEF Heads
  <2>5. PICK i \in 1 .. Len(log) : log[i] = a
    BY <1>3, <1>8, Elements
  <2>6. a \notin ToSet(flusher[f].batch)
    BY <1>5, <2>3
  <2>7. \A j \in 1 .. n : flusher[f].batch[j] # a
    BY <2>1, <2>6, Elements
  <2> HIDE DEF n
  <2>8. i > n
    BY <2>1, <2>4, <2>5, <2>7
  <2>9. /\ rest \in Seq(Activities) /\ Len(rest) = Len(log) - n
        /\ \A j \in 1 .. Len(rest) : rest[j] = log[j + n]
    BY <1>3, <2>1, <2>4, RestOfLog
  <2> HIDE DEF rest
  <2>10. i - n \in 1 .. Len(rest) /\ (i - n) + n = i
    BY <1>3, <2>1, <2>5, <2>8, <2>9
  <2>11. rest[i - n] = a
    BY <2>5, <2>9, <2>10
  <2>12. a \in ToSet(rest)
    BY <2>9, <2>10, <2>11, Elements
  <2> QED
    BY <1>2, <2>1, <2>12
<1>12. log' # log
  BY <1>2, <1>8
<1> QED
  BY <1>1, <1>9, <1>10, <1>11, <1>12, LogFrom

\* What a flusher inserts was not stored yet, and is inserted once.
LEMMA InsertedOnce ==
    ASSUME IInv, NoCause, NEW f \in Flushers, flusher[f].pc = "insert", NEW a \in Activities
    PROVE  /\ Copies(a, flusher[f].batch) \in {0, 1}
           /\ Copies(a, flusher[f].batch) = 1 <=> a \in ToSet(flusher[f].batch)
           /\ a \in ToSet(flusher[f].batch) => stored[a] = 0
<1> DEFINE batch == flusher[f].batch
<1>1. batch \in Seq(Activities) /\ DOMAIN batch = 1 .. Len(batch)
  BY Lists, LenProperties DEF IInv
<1>2. /\ \A i, j \in 1 .. Len(batch) : batch[i] = batch[j] => i = j
      /\ \A b \in ToSet(batch) : stored[b] = 0
  BY <1>1 DEF IInv, StoredOnce, Within
<1> HIDE DEF batch
<1>3. /\ Copies(a, batch) \in Nat
      /\ Copies(a, batch) > 0 <=> a \in ToSet(batch)
      /\ Copies(a, batch) \in {0, 1}
  BY <1>1, <1>2, CopiesCount
<1> QED
  BY <1>2, <1>3 DEF batch

\* What is left of the list when its head was trimmed, or as much after it had expired.
LEMMA TrimLeaves ==
    ASSUME TypeOK, NEW f \in Flushers, Trims(f),
           Heads(flusher[f].batch) \/ Apart(flusher[f].batch),
           \A i, j \in 1 .. Len(log) : log[i] = log[j] => i = j
    PROVE  /\ ToSet(log') \subseteq ToSet(log)
           /\ \A a \in ToSet(log') : a \notin ToSet(flusher[f].batch)
           /\ \A i, j \in DOMAIN log' : log'[i] = log'[j] => i = j
<1> DEFINE n == Len(flusher[f].batch)
           rest == SubSeq(log, n + 1, Len(log))
<1>1. /\ log \in Seq(Activities) /\ Len(log) \in Nat
      /\ n \in Nat /\ log' = rest /\ flusher[f].batch \in Seq(Activities)
  BY Lists DEF Trims
<1>2. \/ n <= Len(log) /\ \A i \in 1 .. n : log[i] = flusher[f].batch[i]
      \/ ToSet(flusher[f].batch) \cap ToSet(log) = {}
  BY DEF Heads, Apart
<1>3. \A a : a \in ToSet(flusher[f].batch) => \E i \in 1 .. n : flusher[f].batch[i] = a
  BY <1>1, Elements
<1> HIDE DEF n
<1>4. /\ rest \in Seq(Activities) /\ DOMAIN rest = 1 .. Len(rest) /\ Len(rest) \in Nat
      /\ \A i \in 1 .. Len(rest) : i + n \in 1 .. Len(log) /\ rest[i] = log[i + n]
  <2>1. /\ rest \in Seq(Activities)
        /\ \A i \in 1 .. Len(rest) : i + n \in 1 .. Len(log) /\ rest[i] = log[i + n]
    BY <1>1, RestOfLog
  <2> HIDE DEF rest
  <2> QED
    BY <2>1, LenProperties
<1> HIDE DEF rest
<1>5. \A a : a \in ToSet(rest) => \E i \in 1 .. Len(rest) : log[i + n] = a
  BY <1>4, Elements
<1>6. ToSet(rest) \subseteq ToSet(log)
  BY <1>1, <1>4, <1>5, Elements
<1>7. ASSUME NEW a \in ToSet(rest), a \in ToSet(flusher[f].batch) PROVE FALSE
  <2>1. PICK i \in 1 .. Len(rest) : log[i + n] = a
    BY <1>5, <1>7
  <2>2. n <= Len(log) /\ \E j \in 1 .. n : log[j] = a
    BY <1>2, <1>3, <1>6, <1>7
  <2> PICK j \in 1 .. n : log[j] = a
    BY <2>2
  <2>3. i + n \in 1 .. Len(log) /\ j \in 1 .. Len(log) /\ i + n # j
    BY <1>1, <1>4, <2>1, <2>2
  <2> QED
    BY <2>1, <2>3
<1>8. ASSUME NEW i \in 1 .. Len(rest), NEW j \in 1 .. Len(rest), rest[i] = rest[j] PROVE i = j
  <2>1. i + n = j + n
    BY <1>4, <1>8
  <2> QED
    BY <1>1, <1>4, <2>1
<1> QED
  BY <1>1, <1>4, <1>6, <1>7, <1>8

LEMMA OnceKept ==
    ASSUME IInv, Step
    PROVE  StoredOnce'
<1>1. TypeOK /\ Acts /\ incidents \subseteq incidents' /\ LoggedInOrder
  BY DEF IInv, Step
<1>2. SUFFICES ASSUME /\ "activityOverlap" \notin incidents' /\ "untrimmed" \notin incidents'
                      /\ "fallback" \notin incidents'
               PROVE  /\ \A i, j \in DOMAIN log' : log'[i] = log'[j] => i = j
                      /\ \A a \in Activities : stored'[a] \in {0, 1}
                      /\ \A a \in ToSet(log') : stored'[a] = 1 =>
                            \E f \in Flushers : flusher'[f].pc = "trim" /\ a \in ToSet(flusher'[f].batch)
                      /\ \A f \in Flushers : flusher'[f].pc = "insert" =>
                            /\ \A i, j \in DOMAIN flusher'[f].batch :
                                  flusher'[f].batch[i] = flusher'[f].batch[j] => i = j
                            /\ \A a \in ToSet(flusher'[f].batch) : stored'[a] = 0
  BY DEF StoredOnce, NoCause, Within
<1>3. NoCause
  BY <1>1, <1>2 DEF NoCause
<1>4. /\ log \in Seq(Activities) /\ Len(log) \in Nat /\ DOMAIN log = 1 .. Len(log)
      /\ \A f \in Flushers : flusher[f].batch \in Seq(Activities)
  BY <1>1, Lists
<1>5. /\ \A i, j \in 1 .. Len(log) : log[i] = log[j] => i = j
      /\ \A a \in Activities : stored[a] \in {0, 1}
      /\ \A a \in ToSet(log) : stored[a] = 1 =>
            \E f \in Flushers : flusher[f].pc = "trim" /\ a \in ToSet(flusher[f].batch)
      /\ \A f \in Flushers : flusher[f].pc = "insert" =>
            /\ \A i, j \in DOMAIN flusher[f].batch :
                  flusher[f].batch[i] = flusher[f].batch[j] => i = j
            /\ \A a \in ToSet(flusher[f].batch) : stored[a] = 0
  BY <1>3, <1>4 DEF IInv, StoredOnce, Within
<1>6. /\ \A f, g \in Flushers : flusher[f].pc \in ActivityWindow
                                /\ flusher[g].pc \in ActivityWindow => f = g
      /\ \A f \in Flushers : flusher[f].pc \in ActivityWindow =>
            Heads(flusher[f].batch) \/ Apart(flusher[f].batch)
  BY <1>1, <1>2 DEF IInv, HeadIsHeld, Lone, Within
<1>7. /\ ToSet(log) \subseteq accepted
      /\ \A a : Cardinality(accepted) + 1 = a => a \notin accepted
      /\ \A a \in Activities \ accepted : stored[a] = 0
  BY <1>1, AcceptedGrows DEF LoggedInOrder
<1>8. \A a \in Activities : stored'[a] \in {0, 1}
  <2>1. SUFFICES ASSUME NEW a \in Activities PROVE stored'[a] \in {0, 1}
    OBVIOUS
  <2>2. CASE stored'[a] = stored[a]
    BY <1>5, <2>2
  <2>3. CASE Stores(a)
    <3>1. stored[a] = 0 /\ stored'[a] = stored[a] + 1
      BY <1>1, <1>7, <2>3 DEF Stores, TypeOK
    <3> QED
      BY <3>1
  <2>4. ASSUME NEW f \in Flushers, Inserts(f), a \in ToSet(flusher[f].batch)
        PROVE  stored'[a] \in {0, 1}
    <3>1. flusher[f].pc = "insert" /\ stored'[a] = stored[a] + Copies(a, flusher[f].batch)
      BY <2>4 DEF Inserts
    <3>2. stored[a] = 0 /\ Copies(a, flusher[f].batch) = 1
      BY <1>3, <2>4, <3>1, InsertedOnce
    <3> QED
      BY <3>1, <3>2
  <2> QED
    BY <1>1, <2>2, <2>3, <2>4, StoredGrows
<1>9. ASSUME NEW f \in Flushers, Trims(f)
      PROVE  /\ ToSet(log') \subseteq ToSet(log)
             /\ \A a \in ToSet(log') : a \notin ToSet(flusher[f].batch)
             /\ \A i, j \in DOMAIN log' : log'[i] = log'[j] => i = j
  <2>1. Heads(flusher[f].batch) \/ Apart(flusher[f].batch)
    BY <1>6, <1>9 DEF Trims, ActivityWindow
  <2> QED
    BY <1>1, <1>5, <1>9, <2>1, TrimLeaves
<1>10. \A i, j \in DOMAIN log' : log'[i] = log'[j] => i = j
  <2>1. CASE log' = log
    BY <1>4, <1>5, <2>1
  <2>2. ASSUME NEW a \in Activities, log' = Append(log, a), a \notin accepted
        PROVE  \A i, j \in DOMAIN log' : log'[i] = log'[j] => i = j
    <3>1. /\ \A i \in 1 .. Len(log) : log[i] # a
      BY <1>4, <1>7, <2>2, Elements
    <3>2. /\ Len(log') = Len(log) + 1 /\ log' \in Seq(Activities)
          /\ \A i \in 1 .. Len(log) : log'[i] = log[i]
          /\ log'[Len(log) + 1] = a
      BY <1>4, <2>2, AppendProperties
    <3>3. DOMAIN log' = 1 .. (Len(log) + 1)
      BY <3>2, LenProperties
    <3> HIDE <2>2
    <3> QED
      BY <1>4, <1>5, <3>1, <3>2, <3>3
  <2>3. CASE Empties
    <3>1. log' = <<>>
      BY <2>3 DEF Empties
    <3> QED
      BY <3>1
  <2> QED
    BY <1>1, <1>7, <1>9, <2>1, <2>2, <2>3, LogFrom
<1>11. ASSUME NEW a \in ToSet(log'), stored'[a] = 1
       PROVE  \E f \in Flushers : flusher'[f].pc = "trim" /\ a \in ToSet(flusher'[f].batch)
  \* What was about to be trimmed still is.
  <2>1. ASSUME a \in ToSet(log), stored[a] = 1, NEW g \in Flushers,
               \A f \in Flushers \ {g} : flusher'[f] = flusher[f],
               flusher[g].pc = "trim" => a \notin ToSet(flusher[g].batch)
        PROVE  \E f \in Flushers : flusher'[f].pc = "trim" /\ a \in ToSet(flusher'[f].batch)
    BY <1>5, <2>1
  <2>2. ASSUME a \in ToSet(log), stored[a] = 1, flusher' = flusher
        PROVE  \E f \in Flushers : flusher'[f].pc = "trim" /\ a \in ToSet(flusher'[f].batch)
    BY <1>5, <2>2
  <2>3. ASSUME a \in ToSet(log), stored[a] = 1, NEW g \in Flushers, NoBatch(g)
        PROVE  \E f \in Flushers : flusher'[f].pc = "trim" /\ a \in ToSet(flusher'[f].batch)
    BY <1>2, <2>1, <2>3 DEF NoBatch, Moves
  <2>4. ASSUME NEW b \in Activities, Logs(b)
        PROVE  a \in ToSet(log) /\ stored[a] = 1
    <3>1. ToSet(log') = ToSet(log) \cup {b}
      BY <1>4, <2>4, Elements DEF Logs
    <3>2. stored[b] = 0 /\ stored' = stored
      BY <1>7, <2>4 DEF Logs
    <3> QED
      BY <1>11, <3>1, <3>2
  <2>5. ASSUME NEW b \in Activities, Stores(b)
        PROVE  a \in ToSet(log) /\ stored[a] = 1
    <3>1. log' = log /\ b \notin accepted /\ stored' = [stored EXCEPT ![b] = @ + 1]
      BY <1>2, <1>7, <2>5 DEF Stores
    <3>2. a \in accepted /\ a # b
      BY <1>7, <1>11, <3>1
    <3>3. stored'[a] = stored[a]
      BY <1>1, <3>1, <3>2 DEF TypeOK
    <3> QED
      BY <1>11, <3>1, <3>3
  <2>6. ~Empties
    <3>1. ToSet(<<>>) = {}
      BY <1>4, Elements
    <3> QED
      BY <1>11, <3>1 DEF Empties
  <2>7. ASSUME NEW g \in Flushers, Reads(g)
        PROVE  \E f \in Flushers : flusher'[f].pc = "trim" /\ a \in ToSet(flusher'[f].batch)
    <3>1. a \in ToSet(log) /\ stored[a] = 1 /\ flusher[g].pc = "read"
          /\ \A f \in Flushers \ {g} : flusher'[f] = flusher[f]
      BY <1>11, <2>7 DEF Reads, SameActs, Moves
    <3> QED
      BY <2>1, <3>1
  <2>8. ASSUME NEW g \in Flushers, Inserts(g)
        PROVE  \E f \in Flushers : flusher'[f].pc = "trim" /\ a \in ToSet(flusher'[f].batch)
    <3>1. /\ log' = log /\ flusher[g].pc = "insert" /\ flusher'[g].pc = "trim"
          /\ flusher'[g].batch = flusher[g].batch
          /\ \A f \in Flushers \ {g} : flusher'[f] = flusher[f]
      BY <2>8 DEF Inserts, Moves
    <3>2. CASE a \in ToSet(flusher[g].batch)
      BY <3>1, <3>2
    <3>3. CASE a \notin ToSet(flusher[g].batch)
      <4>1. a \in Activities
        BY <1>4, <1>11, <3>1, Elements
      <4>2. Copies(a, flusher[g].batch) = 0
        BY <1>3, <3>1, <3>3, <4>1, InsertedOnce
      <4>3. stored'[a] = stored[a] + 0
        BY <2>8, <4>1, <4>2 DEF Inserts
      <4>4. stored[a] = 1
        BY <1>5, <1>11, <4>1, <4>3
      <4> QED
        BY <1>11, <2>1, <3>1, <4>4
    <3> QED
      BY <3>2, <3>3
  <2>9. ASSUME NEW g \in Flushers, Trims(g) PROVE FALSE
    <3>1. a \in ToSet(log) /\ a \notin ToSet(flusher[g].batch)
      BY <1>9, <1>11, <2>9
    <3>2. stored[a] = 1 /\ flusher[g].pc = "trim"
      BY <1>11, <2>9 DEF Trims
    <3>3. PICK f \in Flushers : flusher[f].pc = "trim" /\ a \in ToSet(flusher[f].batch)
      BY <1>5, <3>1, <3>2
    <3>4. f = g
      BY <1>6, <3>2, <3>3 DEF ActivityWindow
    <3> QED
      BY <3>1, <3>3, <3>4
  <2>10. ASSUME NEW b \in Activities, Logs(b) \/ Stores(b)
         PROVE  \E f \in Flushers : flusher'[f].pc = "trim" /\ a \in ToSet(flusher'[f].batch)
    <3>1. a \in ToSet(log) /\ stored[a] = 1
      BY <2>4, <2>5, <2>10
    <3>2. flusher' = flusher \/ \E g \in Flushers : NoBatch(g)
      BY <2>10 DEF Logs, Stores, SameFlushers
    <3> QED
      BY <2>2, <2>3, <3>1, <3>2
  <2>11. CASE SameActs /\ (SameFlushers \/ \E f \in Flushers : NoBatch(f))
    <3>1. a \in ToSet(log) /\ stored[a] = 1
      BY <1>11, <2>11 DEF SameActs
    <3> QED
      BY <2>2, <2>3, <2>11, <3>1 DEF SameFlushers
  <2> QED
    BY <1>1, <2>6, <2>7, <2>8, <2>9, <2>10, <2>11 DEF Acts
\* A batch about to be inserted was before, or has just been read.
<1>12. ASSUME NEW f \in Flushers, flusher'[f].pc = "insert"
       PROVE  /\ \A i, j \in DOMAIN flusher'[f].batch :
                    flusher'[f].batch[i] = flusher'[f].batch[j] => i = j
              /\ \A a \in ToSet(flusher'[f].batch) : stored'[a] = 0
  <2>1. CASE Reads(f)
    <3> DEFINE n == Min({BatchSize, Len(log)})
               batch == SubSeq(log, 1, n)
    <3>1. n \in 0 .. Len(log) /\ flusher'[f].batch = batch /\ stored' = stored
      BY <1>4, <2>1, BatchLength DEF Reads, SameActs
    <3>2. \A g \in Flushers : flusher[g].pc # "trim"
      BY <1>2, <2>1 DEF Reads, Within, ActivityWindow
    <3> HIDE DEF n
    <3>3. batch \in Seq(Activities) /\ Len(batch) = n /\ \A i \in 1 .. n : batch[i] = log[i]
      BY <1>4, <3>1, HeadOfLog
    <3> HIDE DEF batch
    <3>4. DOMAIN batch = 1 .. n /\ \A i \in 1 .. n : i \in 1 .. Len(log)
      BY <1>4, <3>1, <3>3, LenProperties
    <3>5. \A i, j \in DOMAIN batch : batch[i] = batch[j] => i = j
      BY <1>5, <3>3, <3>4
    <3>6. ASSUME NEW a \in ToSet(batch) PROVE stored[a] = 0
      <4>1. PICK i \in 1 .. n : batch[i] = a
        BY <3>3, Elements
      <4>2. a \in ToSet(log) /\ a \in Activities
        BY <1>4, <3>3, <3>4, <4>1, Elements
      <4> QED
        BY <1>5, <3>2, <4>2
    <3> QED
      BY <3>1, <3>5, <3>6
  <2>2. CASE flusher'[f] = flusher[f]
    <3>1. ASSUME NEW a \in ToSet(flusher[f].batch) PROVE stored'[a] = 0
      <4>1. a \in Activities /\ a \in accepted /\ stored[a] = 0
        BY <1>1, <1>4, <1>5, <1>12, <2>2, Elements DEF LoggedInOrder
      <4>2. ~Stores(a)
        BY <1>7, <4>1 DEF Stores
      <4>3. ASSUME NEW g \in Flushers, Inserts(g) PROVE FALSE
        <5>1. flusher[g].pc = "insert" /\ flusher'[g].pc = "trim"
          BY <4>3 DEF Inserts
        <5>2. f = g
          BY <1>6, <1>12, <2>2, <5>1 DEF ActivityWindow
        <5> QED
          BY <1>12, <5>1, <5>2
      <4> QED
        BY <1>1, <4>1, <4>2, <4>3, StoredGrows
    <3> QED
      BY <1>5, <1>12, <2>2, <3>1
  <2> QED
    BY <1>1, <1>12, <2>1, <2>2, WindowFrom DEF Inserts, ActivityWindow
<1> QED
  BY <1>8, <1>10, <1>11, <1>12

LEMMA MembersKept ==
    ASSUME IInv, Step
    PROVE  MembersInOrder' /\ UpdatesKept'
<1>1. Touches /\ incidents \subseteq incidents'
  BY DEF Step
<1>2. SUFFICES ASSUME /\ "deviceOverlap" \notin incidents' /\ "lateDevice" \notin incidents'
                      /\ "groupFailed" \notin incidents'
               PROVE  /\ \A f, g \in Flushers : flusher'[f].pc \in DeviceWindow
                                                /\ flusher'[g].pc \in DeviceWindow => f = g
                      /\ \A f \in Flushers : flusher'[f].pc = "write" => recent' \subseteq flusher'[f].members
                      /\ \A f \in Flushers : flusher'[f].pc = "drop" => owed' = {}
                      /\ owed' \subseteq recent'
  BY DEF MembersInOrder, UpdatesKept, Kept, Lone, Within
<1>3. /\ \A f, g \in Flushers : flusher[f].pc \in DeviceWindow
                                /\ flusher[g].pc \in DeviceWindow => f = g
      /\ \A f \in Flushers : flusher[f].pc = "write" => recent \subseteq flusher[f].members
      /\ \A f \in Flushers : flusher[f].pc = "drop" => owed = {}
      /\ owed \subseteq recent
  BY <1>1, <1>2 DEF IInv, MembersInOrder, UpdatesKept, Kept, Lone, Within
<1>4. CASE \E d \in Devices : Updates(d)
  <2>1. /\ \A f \in Flushers : flusher[f].pc \notin DeviceWindow
        /\ flusher' = flusher /\ owed' \subseteq recent'
    BY <1>2, <1>3, <1>4 DEF Updates, SameFlushers, Within
  <2> QED
    BY <2>1 DEF DeviceWindow
<1>5. ASSUME NEW f \in Flushers, Gets(f)
      PROVE  /\ \A g, h \in Flushers : flusher'[g].pc \in DeviceWindow
                                       /\ flusher'[h].pc \in DeviceWindow => g = h
             /\ \A g \in Flushers : flusher'[g].pc = "write" => recent' \subseteq flusher'[g].members
             /\ \A g \in Flushers : flusher'[g].pc = "drop" => owed' = {}
             /\ owed' \subseteq recent'
  <2>1. /\ \A g \in Flushers : flusher[g].pc \notin DeviceWindow
        /\ \A g \in Flushers \ {f} : flusher'[g] = flusher[g]
        /\ flusher'[f].pc = "write" /\ flusher'[f].members = recent'
        /\ owed' \subseteq recent'
    BY <1>2, <1>3, <1>5 DEF Gets, Moves, SameDevices, Within
  <2>2. \A g \in Flushers : flusher'[g].pc \in DeviceWindow => g = f
    BY <2>1
  <2> QED
    BY <2>1, <2>2 DEF DeviceWindow
<1>6. ASSUME NEW f \in Flushers, Writes(f)
      PROVE  /\ \A g, h \in Flushers : flusher'[g].pc \in DeviceWindow
                                       /\ flusher'[h].pc \in DeviceWindow => g = h
             /\ \A g \in Flushers : flusher'[g].pc = "write" => recent' \subseteq flusher'[g].members
             /\ \A g \in Flushers : flusher'[g].pc = "drop" => owed' = {}
             /\ owed' \subseteq recent'
  <2>1. /\ \A g \in Flushers \ {f} : flusher'[g] = flusher[g]
        /\ flusher[f].pc = "write" /\ flusher'[f].pc = "drop"
        /\ owed' = {} /\ recent' = recent
    BY <1>2, <1>3, <1>6 DEF Writes, Moves
  <2>2. \A g \in Flushers : flusher'[g].pc \in DeviceWindow => g = f
    BY <1>3, <2>1 DEF DeviceWindow
  <2> QED
    BY <2>1, <2>2 DEF DeviceWindow
<1>7. ASSUME NEW f \in Flushers, Drops(f)
      PROVE  (\A g \in Flushers : flusher'[g].pc \notin DeviceWindow) /\ owed' \subseteq recent'
  <2>1. /\ \A g \in Flushers \ {f} : flusher'[g] = flusher[g]
        /\ flusher[f].pc = "drop" /\ flusher'[f].pc \notin DeviceWindow
        /\ owed' = {}
    BY <1>3, <1>7 DEF Drops, NoMembers, Moves
  <2> QED
    BY <1>3, <2>1 DEF DeviceWindow
<1>8. CASE SameDevices /\ (SameFlushers \/ \E f \in Flushers : NoMembers(f))
  <2>1. owed' \subseteq recent' /\ owed' = owed /\ recent' = recent
    BY <1>3, <1>8 DEF SameDevices
  <2>2. \A g \in Flushers : flusher'[g].pc \in DeviceWindow => flusher'[g] = flusher[g]
    BY <1>8 DEF SameFlushers, NoMembers, Moves
  <2> QED
    BY <1>3, <2>1, <2>2 DEF DeviceWindow
<1>9. CASE Fades
  <2>1. flusher' = flusher /\ owed' = {} /\ recent' = {}
    BY <1>3, <1>9 DEF Fades, SameFlushers
  <2> QED
    BY <1>3, <2>1
<1> QED
  BY <1>1, <1>4, <1>5, <1>6, <1>7, <1>8, <1>9 DEF Touches, DeviceWindow

-----------------------------------------------------------------------------
LEMMA InitHolds ==
    ASSUME Init
    PROVE  IInv
<1>1. TypeOK
  <2>1. log \in Seq(Activities) /\ usage \in Seq(Row)
    BY EmptySeq DEF Init
  <2>2. stored \in [Activities -> Nat] /\ flusher \in [Flushers -> Flusher]
    BY IdleTyped DEF Init
  <2>3. faults \in 0 .. MaxFaults /\ connects \in Nat /\ updates \in Nat /\ hits \in Nat /\ lapsed \in Nat
    BY BoundsAssumption DEF Init
  <2> QED
    BY <2>1, <2>2, <2>3 DEF Init, TypeOK
<1>2. ToSet(<<>>) = {} /\ 1 .. 0 = {} /\ IsFiniteSet({})
  <2>1. <<>> \in Seq(Activities)
    BY EmptySeq
  <2>2. ToSet(<<>>) = {}
    BY <2>1, Elements
  <2>3. IsFiniteSet({})
    BY FS_EmptySet
  <2> QED
    BY <2>2, <2>3
<1>3. \A f \in Flushers : flusher[f] = Idle /\ Idle.pc = "idle" /\ Idle.batch = <<>>
  BY DEF Init, Idle
<1>4. LoggedInOrder
  BY <1>2, <1>3 DEF Init, LoggedInOrder
<1>5. Within({"trim"}) = {} /\ Within({"insert"}) = {} /\ Within(ActivityWindow) = {}
  BY <1>3 DEF Within, ActivityWindow
<1>6. TrimmedIsStored /\ HeadIsHeld /\ LossNeedsOverlap
  BY <1>5 DEF TrimmedIsStored, HeadIsHeld, Lone, LossNeedsOverlap, Init
<1>7. StoredOnce
  BY <1>2, <1>5 DEF Init, StoredOnce
<1>8. MembersInOrder /\ UpdatesKept
  BY <1>3 DEF Init, MembersInOrder, UpdatesKept, Lone, Within, DeviceWindow
<1> QED
  BY <1>1, <1>2, <1>4, <1>6, <1>7, <1>8 DEF IInv, Init

LEMMA Invariant == Spec => []IInv
<1>1. ASSUME IInv, [Next]_vars PROVE IInv'
  <2>1. Step
    BY <1>1, StepEffect
  <2> QED
    BY <1>1, <2>1, LoggedKept, TrimmedKept, HeadKept, LossKept, OnceKept, MembersKept DEF IInv, Step
<1> QED
  BY <1>1, InitHolds, PTL DEF Spec

\* The buffers, the tables and the flushers keep their types.
THEOREM BuffersTyped == Spec => []TypeOK
<1>1. IInv => TypeOK
  BY DEF IInv
<1> QED
  BY <1>1, Invariant, PTL

\* An activity that is neither stored, nor buffered, nor expired was trimmed by a
\* flusher that had not read it, which takes two that worked on the list at once, or a
\* list that expired under one: neither a failed insert or trim, nor a kill, nor a
\* deleted user loses one.
THEOREM LossTakesOverlap == Spec => []LossNeedsOverlap
<1>1. IInv => LossNeedsOverlap
  BY DEF IInv
<1> QED
  BY <1>1, Invariant, PTL

\* An activity that is stored twice was read by two flushers at once, committed and
\* not trimmed, or written directly after the RPUSH.
THEOREM TwiceTakesCause == Spec => []TwiceNeedsCause
<1>1. IInv => TwiceNeedsCause
  BY DEF IInv, StoredOnce, NoCause, TwiceNeedsCause
<1> QED
  BY <1>1, Invariant, PTL

\* A device whose last_seen is still to be written is in the set until that expires,
\* unless it was added while a flusher held what it had read, two flushed at once or an
\* UPDATE failed.
THEOREM UpdatesAreKept == Spec => []UpdatesKept
<1>1. IInv => UpdatesKept
  BY DEF IInv
<1> QED
  BY <1>1, Invariant, PTL

-----------------------------------------------------------------------------
(* The connects that are counted.                                          *)

RowHits(rows) == Total([i \in DOMAIN rows |-> rows[i].hits])

UseKept == incidents \cap {"usageOverlap", "lateUse", "uncleared", "heldExpiry"} = {}

\* A flusher that has not looked for the row yet holds none.
RowsUnread ==
    \A f \in Within({"hash", "row"}) : flusher[f].row = NoRow /\ flusher[f].image = 0

\* Unless something came between, one flusher at most works on the hash, it holds the
\* hits of the hash and the row as it is, and the hits of the hash are in a row as well
\* from its commit until it deletes them.
UsageInOrder ==
    UseKept =>
        /\ Lone(UsageWindow)
        /\ \A f \in Within(UsageWindow) : flusher[f].pulled = hits
        /\ \A f \in Within({"add"}) :
              \/ flusher[f].row = NoRow /\ flusher[f].image = 0
              \/ flusher[f].row \in DOMAIN usage /\ flusher[f].image = usage[flusher[f].row].hits
        /\ connects = RowHits(usage) + (IF Within({"clear"}) = {} THEN hits ELSE 0) + lapsed

\* What the steps do to them.
SameUse == hits' = hits /\ usage' = usage /\ connects' = connects /\ lapsed' = lapsed

Leaves(f) ==
    /\ Moves(f) /\ flusher'[f].pc \notin UsageWindow
    /\ flusher[f].pc = "clear" => "uncleared" \in incidents'
    /\ flusher'[f].pc = "hash" => Fresh(f)

Counts ==
    /\ hits' = hits + 1 /\ connects' = connects + 1 /\ usage' = usage /\ lapsed' = lapsed
    /\ Within(UsageWindow) # {} => "lateUse" \in incidents'
    /\ SameFlushers \/ \E f \in Flushers : Leaves(f)

Pulls(f) ==
    /\ Moves(f) /\ SameUse /\ flusher[f].pc = "hash" /\ flusher'[f].pc = "row"
    /\ flusher'[f].pulled = hits /\ flusher'[f].row = flusher[f].row
    /\ flusher'[f].image = flusher[f].image
    /\ Within(UsageWindow) # {} => "usageOverlap" \in incidents'

Loads(f) ==
    /\ Moves(f) /\ SameUse /\ flusher[f].pc = "row" /\ flusher'[f].pc = "add"
    /\ flusher'[f].pulled = flusher[f].pulled
    /\ \/ flusher'[f].row = flusher[f].row /\ flusher'[f].image = flusher[f].image
       \/ flusher'[f].row \in DOMAIN usage /\ flusher'[f].image = usage[flusher'[f].row].hits

Adds(f) ==
    /\ Moves(f) /\ flusher[f].pc = "add" /\ flusher'[f].pc = "clear"
    /\ flusher'[f].pulled = flusher[f].pulled /\ hits' = hits /\ connects' = connects
    /\ lapsed' = lapsed
    /\ \E row \in Row :
          /\ row.hits = flusher[f].image + flusher[f].pulled
          /\ usage' = IF flusher[f].row = NoRow THEN Append(usage, row)
                      ELSE [usage EXCEPT ![flusher[f].row] = row]

Clears(f) ==
    /\ Moves(f) /\ flusher[f].pc = "clear" /\ flusher'[f].pc = "clearProducts"
    /\ hits' = 0 /\ usage' = usage /\ connects' = connects /\ lapsed' = lapsed

\* The hash expires.
Lapses ==
    /\ hits' = 0 /\ lapsed' = lapsed + hits /\ usage' = usage /\ connects' = connects
    /\ Within(UsageWindow) # {} => "heldExpiry" \in incidents'
    /\ SameFlushers

Uses ==
    \/ Counts \/ Lapses
    \/ \E f \in Flushers : Pulls(f) \/ Loads(f) \/ Adds(f) \/ Clears(f)
    \/ SameUse /\ (SameFlushers \/ \E f \in Flushers : Leaves(f))

\* The rows' total with a row more, and with another value of a row.
LEMMA RowsCount ==
    ASSUME NEW rows \in Seq(Row), NEW row \in Row
    PROVE  /\ RowHits(rows) \in Nat
           /\ RowHits(Append(rows, row)) = RowHits(rows) + row.hits
           /\ \A i \in DOMAIN rows :
                 RowHits([rows EXCEPT ![i] = row]) = RowHits(rows) - rows[i].hits + row.hits
<1> DEFINE S == 1 .. Len(rows)
           h == [i \in S |-> rows[i].hits]
<1>1. Len(rows) \in Nat /\ DOMAIN rows = S /\ IsFiniteSet(S)
  BY FS_Interval
<1>2. h \in [S -> Nat] /\ row.hits \in Nat
  <2>1. \A i \in S : rows[i] \in Row
    BY <1>1
  <2> QED
    BY <2>1 DEF Row
<1>3. RowHits(rows) = Total(h)
  BY <1>1 DEF RowHits
<1>4. RowHits(rows) \in Nat
  <2> HIDE DEF S, h
  <2> QED
    BY <1>1, <1>2, <1>3, TotalType
<1>5. RowHits(Append(rows, row)) = RowHits(rows) + row.hits
  <2> DEFINE n == Len(rows)
             more == Append(rows, row)
             g == [i \in DOMAIN more |-> more[i].hits]
  <2>1. n \in Nat /\ DOMAIN more = 1 .. (n + 1) /\ S = 1 .. n
    BY <1>1
  <2>2. more[n + 1] = row /\ \A i \in 1 .. n : more[i] = rows[i]
    BY <1>1
  <2>3. RowHits(more) = Total(g)
    BY DEF RowHits
  <2> HIDE DEF n, more
  <2>4. g \in [1 .. (n + 1) -> Nat] /\ g[n + 1] = row.hits /\ \A i \in 1 .. n : g[i] = h[i]
    <3>1. \A i \in 1 .. (n + 1) : i = n + 1 \/ i \in 1 .. n
      BY <2>1
    <3>2. \A i \in 1 .. (n + 1) : more[i].hits \in Nat
      BY <1>2, <2>1, <2>2, <3>1
    <3>3. n + 1 \in 1 .. (n + 1) /\ \A i \in 1 .. n : i \in 1 .. (n + 1)
      BY <2>1
    <3> QED
      BY <2>1, <2>2, <3>2, <3>3
  <2>5. h \in [1 .. n -> Nat]
    BY <1>2, <2>1
  <2> HIDE DEF S, h, g
  <2>6. Total(g) = Total(h) + g[n + 1]
    BY <2>1, <2>4, <2>5, TotalNext
  <2>7. RowHits(more) = RowHits(rows) + row.hits
    BY <1>3, <2>3, <2>4, <2>6
  <2> QED
    BY <2>7 DEF more
<1>6. ASSUME NEW x \in DOMAIN rows
      PROVE  RowHits([rows EXCEPT ![x] = row]) = RowHits(rows) - rows[x].hits + row.hits
  <2> DEFINE other == [rows EXCEPT ![x] = row]
             g == [i \in DOMAIN other |-> other[i].hits]
  <2>1. DOMAIN other = S /\ x \in S
    BY <1>1
  <2>2. other[x] = row /\ \A i \in S \ {x} : other[i] = rows[i]
    BY <1>1
  <2>3. RowHits(other) = Total(g)
    BY DEF RowHits
  <2> HIDE DEF other
  <2>4. g \in [S -> Nat] /\ g[x] = row.hits /\ \A i \in S \ {x} : g[i] = h[i]
    BY <1>2, <2>1, <2>2
  <2>5. h[x] = rows[x].hits
    BY <2>1
  <2> HIDE DEF S, h, g
  <2>6. Total(g) = Total(h) - h[x] + g[x]
    <3>1. IsFiniteSet(S) /\ h \in [S -> Nat] /\ x \in S
      BY <1>1, <1>2, <2>1
    <3>2. g \in [S -> Nat] /\ \A i \in S \ {x} : g[i] = h[i]
      BY <2>4
    <3> QED
      BY <3>1, <3>2, TotalChange
  <2>7. RowHits(other) = RowHits(rows) - rows[x].hits + row.hits
    BY <1>3, <2>3, <2>4, <2>5, <2>6
  <2> QED
    BY <2>7 DEF other
<1> QED
  BY <1>4, <1>5, <1>6

\* The steps that do nothing to the usage but move a flusher.
LEMMA LeavesUse ==
    ASSUME IInv, Step, NEW f \in Flushers,
           \/ ReadBatch(f) \/ InsertBatch(f) \/ InsertFails(f) \/ TrimBatch(f) \/ TrimFails(f)
           \/ WriteRowFails(f) \/ ClearProducts(f) \/ ClearDevices(f) \/ Unlist(f) \/ ClearFails(f)
           \/ ReadMembers(f) \/ WriteMembers(f)
           \/ WriteSomeMembers(f) \/ WriteMembersFails(f) \/ DropMembers(f)
    PROVE  SameUse /\ Leaves(f)
<1>1. TypeOK /\ flusher \in [Flushers -> Flusher] /\ flusher' \in [Flushers -> Flusher]
  BY DEF IInv, Step, TypeOK
<1>2. SameUse
  BY DEF ReadBatch, InsertBatch, InsertFails, TrimBatch, TrimFails, WriteRowFails,
         ClearProducts, ClearDevices, Unlist, ClearFails, ReadMembers, WriteMembers, WriteSomeMembers, WriteMembersFails, DropMembers,
         SameUse, redis, database, history
<1> SUFFICES Leaves(f)
  BY <1>2
<1>3. flusher[f].pc = "clear" => "uncleared" \in incidents'
  BY DEF ReadBatch, InsertBatch, InsertFails, TrimBatch, TrimFails, WriteRowFails,
         ClearProducts, ClearDevices, Unlist, ClearFails, ReadMembers, WriteMembers, WriteSomeMembers, WriteMembersFails, DropMembers, Fault
<1>4. ASSUME NEW pc \in {"hash", "members", "idle"}, flusher' = Continued(f, pc)
      PROVE  Leaves(f)
  BY <1>1, <1>3, <1>4, ContinuedMoves DEF Leaves, Fresh
<1>5. ASSUME NEW pc \in Steps \ (UsageWindow \cup {"hash"}), flusher' = [flusher EXCEPT ![f].pc = pc]
      PROVE  Leaves(f)
  BY <1>1, <1>3, <1>5, PcMoves DEF Leaves
<1>6. CASE ReadBatch(f)
  <2>1. CASE flusher' = Continued(f, "hash")
    BY <1>4, <2>1
  <2>2. ASSUME NEW batch, flusher' = [flusher EXCEPT ![f].pc = "insert", ![f].batch = batch]
        PROVE  Leaves(f)
    <3>1. flusher'[f].pc = "insert" /\ \A g \in Flushers \ {f} : flusher'[g] = flusher[g]
      BY <1>1, <2>2 DEF Flusher
    <3> QED
      BY <1>1, <1>3, <3>1 DEF Leaves, Moves, UsageWindow
  <2> QED
    BY <1>6, <2>1, <2>2 DEF ReadBatch
<1>7. CASE TrimBatch(f)
  <2> DEFINE none == <<>>
  <2>1. flusher' = [flusher EXCEPT ![f].pc = "read", ![f].batch = none]
    BY <1>7 DEF TrimBatch
  <2> HIDE DEF none
  <2>2. flusher'[f].pc = "read" /\ \A g \in Flushers \ {f} : flusher'[g] = flusher[g]
    BY <1>1, <2>1 DEF Flusher
  <2> QED
    BY <1>1, <1>3, <2>2 DEF Leaves, Moves, UsageWindow
<1>8. CASE ReadMembers(f)
  <2>1. CASE flusher' = Continued(f, "idle")
    BY <1>4, <2>1
  <2>2. CASE flusher' = [flusher EXCEPT ![f].pc = "write", ![f].members = recent]
    <3>1. flusher'[f].pc = "write" /\ \A g \in Flushers \ {f} : flusher'[g] = flusher[g]
      BY <1>1, <2>2 DEF Flusher
    <3> QED
      BY <1>1, <1>3, <3>1 DEF Leaves, Moves, UsageWindow
  <2> QED
    BY <1>8, <2>1, <2>2 DEF ReadMembers
<1>9. CASE \/ InsertBatch(f) \/ WriteMembers(f) \/ WriteSomeMembers(f)
           \/ ClearProducts(f) \/ ClearDevices(f)
  <2>1. \E pc \in {"trim", "drop", "clearDevices", "unlist"} : flusher' = [flusher EXCEPT ![f].pc = pc]
    BY <1>9 DEF InsertBatch, WriteMembers, WriteSomeMembers, ClearProducts, ClearDevices
  <2>2. {"trim", "drop", "clearDevices", "unlist"} \subseteq Steps \ (UsageWindow \cup {"hash"})
    BY DEF Steps, UsageWindow
  <2> QED
    BY <1>5, <2>1, <2>2
<1>10. CASE \/ InsertFails(f) \/ TrimFails(f) \/ WriteRowFails(f) \/ Unlist(f)
            \/ ClearFails(f) \/ WriteMembersFails(f) \/ DropMembers(f)
  <2>1. \E pc \in {"hash", "members", "idle"} : flusher' = Continued(f, pc)
    BY <1>10 DEF InsertFails, TrimFails, WriteRowFails, Unlist, ClearFails, WriteMembersFails,
              DropMembers
  <2> QED
    BY <1>4, <2>1
<1> QED
  BY <1>6, <1>7, <1>8, <1>9, <1>10

LEMMA RequestUses ==
    ASSUME IInv, Step,
           Request \/ ExpireLog \/ ExpireUsage \/ ExpireUpdates \/ Rest \/ UNCHANGED vars
    PROVE  Uses
<1>1. TypeOK
  BY DEF IInv
<1>2. ASSUME NEW f \in Flushers, NEW program \in Programs, NEW pc \in {"read", "hash"},
             flusher' = Started(f, program, pc), flusher[f].pc = "idle"
      PROVE  Leaves(f)
  BY <1>1, <1>2, StartedMoves DEF Leaves, Fresh, NoBatch
<1>3. ASSUME NEW a \in Activities, NEW f \in Flushers, LogActivity(a, f) PROVE Uses
  <2>1. SameUse
    BY <1>3 DEF LogActivity, SameUse, database
  <2>2. flusher' = flusher \/ Leaves(f)
    BY <1>2, <1>3 DEF LogActivity, MayStart, Programs
  <2> QED
    BY <2>1, <2>2 DEF Uses, SameFlushers
<1>4. ASSUME NEW d \in Devices, NEW f \in Flushers, RecordUse(d, f) PROVE Uses
  <2>1. hits' = hits + 1 /\ connects' = connects + 1 /\ usage' = usage /\ lapsed' = lapsed
    BY <1>4 DEF RecordUse, database
  <2>2. flusher' = flusher \/ Leaves(f)
    BY <1>2, <1>4 DEF RecordUse, Programs
  <2>3. Within(UsageWindow) # {} => "lateUse" \in incidents'
    <3>1. incidents' = incidents \cup Noted(UsageWindow, "lateUse")
      BY <1>4 DEF RecordUse
    <3> QED
      BY <3>1 DEF Noted, Within
  <2>4. Counts
    BY <2>1, <2>2, <2>3 DEF Counts, SameFlushers
  <2> QED
    BY <2>4 DEF Uses
<1>5. CASE \/ \E a \in Activities : LogDirectly(a) \/ DeleteUser(a)
           \/ \E d \in Devices : BufferUpdate(d)
           \/ ExpireLog \/ ExpireUpdates \/ Rest \/ UNCHANGED vars
  <2>1. SameUse /\ SameFlushers
    BY <1>5 DEF LogDirectly, DeleteUser, BufferUpdate, ExpireLog, ExpireUpdates, Rest, vars, redis,
                database, history, SameUse, SameFlushers
  <2> QED
    BY <2>1 DEF Uses
<1>6. CASE ExpireUsage
  <2>1. /\ usage' = usage /\ connects' = connects /\ SameFlushers
        /\ \/ hits' = hits /\ lapsed' = lapsed
           \/ hits' = 0 /\ lapsed' = lapsed + hits /\ Expires(UsageWindow)
    BY <1>6 DEF ExpireUsage, SameFlushers, database
  <2>2. Expires(UsageWindow) => (Within(UsageWindow) # {} => "heldExpiry" \in incidents')
    BY <1>1, Expired
  <2> QED
    BY <2>1, <2>2 DEF Uses, SameUse, Lapses
<1> QED
  BY <1>3, <1>4, <1>5, <1>6 DEF Request

LEMMA FlusherUses ==
    ASSUME IInv, Step, NEW f \in Flushers, StartTask(f) \/ Flush(f) \/ Kill(f)
    PROVE  Uses
<1>1. /\ TypeOK /\ IsFiniteSet(hll) /\ flusher \in [Flushers -> Flusher] /\ flusher[f] \in Flusher
      /\ flusher' \in [Flushers -> Flusher] /\ hits \in Nat /\ usage \in Seq(Row)
  BY DEF IInv, Step, TypeOK
<1>2. CASE StartTask(f)
  <2>1. SameUse
    BY <1>2 DEF StartTask, SameUse, redis, database, history
  <2>2. Leaves(f)
    BY <1>1, <1>2, StartedMoves DEF StartTask, Leaves, Fresh, NoBatch, Programs
  <2> QED
    BY <2>1, <2>2 DEF Uses
<1>3. CASE Kill(f)
  <2>1. SameUse
    BY <1>3 DEF Kill, SameUse, redis, database, history
  <2>2. flusher[f].pc = "clear" => "uncleared" \in incidents'
    BY <1>3 DEF Kill, Fault
  <2>3. Moves(f) /\ flusher'[f] = Idle
    BY <1>1, <1>3, IdleTyped, Moved DEF Kill
  <2>4. Leaves(f)
    BY <2>2, <2>3 DEF Leaves, Idle, UsageWindow
  <2> QED
    BY <2>1, <2>4 DEF Uses
<1>4. CASE ReadHash(f)
  <2>1. SameUse /\ flusher[f].pc = "hash"
    BY <1>4 DEF ReadHash, SameUse, database, history
  <2>2. CASE listed /\ (hits > 0 \/ products)
    <3>1. /\ flusher' = [flusher EXCEPT ![f].pc = "row", ![f].pulled = hits]
          /\ incidents' = incidents \cup Noted(UsageWindow, "usageOverlap")
      BY <1>4, <2>2 DEF ReadHash
    <3>2. /\ flusher'[f].pc = "row" /\ flusher'[f].pulled = hits
          /\ flusher'[f].row = flusher[f].row /\ flusher'[f].image = flusher[f].image
          /\ \A g \in Flushers \ {f} : flusher'[g] = flusher[g]
      BY <1>1, <3>1 DEF Flusher
    <3>3. Within(UsageWindow) # {} => "usageOverlap" \in incidents'
      BY <3>1 DEF Noted
    <3>4. Pulls(f)
      BY <1>1, <2>1, <3>2, <3>3 DEF Pulls, Moves
    <3> QED
      BY <3>4 DEF Uses
  <2>3. CASE ~(listed /\ (hits > 0 \/ products))
    <3>1. flusher' = Continued(f, "members")
      BY <1>4, <2>3 DEF ReadHash
    <3>2. Leaves(f)
      BY <1>1, <2>1, <3>1, ContinuedMoves DEF Leaves, Fresh
    <3> QED
      BY <2>1, <3>2 DEF Uses
  <2> QED
    BY <2>2, <2>3
<1>5. CASE LoadRow(f)
  <2>1. SameUse /\ flusher[f].pc = "row"
    BY <1>5 DEF LoadRow, SameUse, redis, database, history
  <2>2. CASE flusher' = [flusher EXCEPT ![f].pc = "add"]
    <3>1. /\ flusher'[f].pc = "add" /\ flusher'[f].pulled = flusher[f].pulled
          /\ flusher'[f].row = flusher[f].row /\ flusher'[f].image = flusher[f].image
          /\ \A g \in Flushers \ {f} : flusher'[g] = flusher[g]
      BY <1>1, <2>2 DEF Flusher
    <3>2. Loads(f)
      BY <1>1, <2>1, <3>1 DEF Loads, Moves
    <3> QED
      BY <3>2 DEF Uses
  <2>3. ASSUME NEW i \in DOMAIN usage,
               flusher' = [flusher EXCEPT ![f].pc = "add", ![f].row = i, ![f].image = usage[i].hits]
        PROVE  Uses
    <3> DEFINE n == usage[i].hits
    <3>1. flusher' = [flusher EXCEPT ![f].pc = "add", ![f].row = i, ![f].image = n]
      BY <2>3
    <3> HIDE DEF n
    <3>2. /\ flusher'[f].pc = "add" /\ flusher'[f].pulled = flusher[f].pulled
          /\ flusher'[f].row = i /\ flusher'[f].image = n
          /\ \A g \in Flushers \ {f} : flusher'[g] = flusher[g]
      BY <1>1, <3>1 DEF Flusher
    <3>3. Loads(f)
      BY <1>1, <2>1, <3>2 DEF Loads, Moves, n
    <3> QED
      BY <3>3 DEF Uses
  <2> QED
    BY <1>5, <2>2, <2>3 DEF LoadRow
<1>6. CASE WriteRow(f)
  <2> DEFINE none == 0
  <2>1. /\ flusher[f].pc = "add"
        /\ flusher' = [flusher EXCEPT ![f].pc = "clear", ![f].row = NoRow, ![f].image = none]
        /\ hits' = hits /\ connects' = connects /\ lapsed' = lapsed
    BY <1>6 DEF WriteRow, redis, history
  <2> HIDE DEF none
  <2>2. /\ flusher'[f].pc = "clear" /\ flusher'[f].pulled = flusher[f].pulled
        /\ \A g \in Flushers \ {f} : flusher'[g] = flusher[g]
    BY <1>1, <2>1 DEF Flusher
  <2>3. PICK n \in DevicesCounted :
          usage' = IF flusher[f].row = NoRow
                   THEN Append(usage, [hits |-> flusher[f].image + flusher[f].pulled, devices |-> n])
                   ELSE [usage EXCEPT ![flusher[f].row] =
                            [hits |-> flusher[f].image + flusher[f].pulled, devices |-> n]]
    BY <1>6 DEF WriteRow
  <2>4. n \in Nat
    BY <1>1, <2>3, FS_CardinalityType DEF DevicesCounted
  <2> DEFINE row == [hits |-> flusher[f].image + flusher[f].pulled, devices |-> n]
  <2>5. row \in Row /\ row.hits = flusher[f].image + flusher[f].pulled
    BY <1>1, <2>4 DEF Flusher, Row
  <2>6. usage' = IF flusher[f].row = NoRow THEN Append(usage, row)
                 ELSE [usage EXCEPT ![flusher[f].row] = row]
    BY <2>3
  <2> HIDE DEF row
  <2>7. Adds(f)
    BY <1>1, <2>1, <2>2, <2>5, <2>6 DEF Adds, Moves
  <2> QED
    BY <2>7 DEF Uses
<1>7. CASE ClearHash(f)
  <2> DEFINE none == 0
  <2>1. /\ flusher[f].pc = "clear" /\ hits' = 0 /\ usage' = usage /\ connects' = connects
        /\ lapsed' = lapsed
        /\ flusher' = [flusher EXCEPT ![f].pc = "clearProducts", ![f].pulled = none]
    BY <1>7 DEF ClearHash, database, history
  <2> HIDE DEF none
  <2>2. flusher'[f].pc = "clearProducts" /\ \A g \in Flushers \ {f} : flusher'[g] = flusher[g]
    BY <1>1, <2>1 DEF Flusher
  <2>3. Clears(f)
    BY <1>1, <2>1, <2>2 DEF Clears, Moves
  <2> QED
    BY <2>3 DEF Uses
<1>8. CASE \/ ReadBatch(f) \/ InsertBatch(f) \/ InsertFails(f) \/ TrimBatch(f) \/ TrimFails(f)
           \/ WriteRowFails(f) \/ ClearProducts(f) \/ ClearDevices(f) \/ Unlist(f) \/ ClearFails(f)
           \/ ReadMembers(f) \/ WriteMembers(f)
           \/ WriteSomeMembers(f) \/ WriteMembersFails(f) \/ DropMembers(f)
  <2>1. SameUse /\ Leaves(f)
    BY <1>8, LeavesUse
  <2> QED
    BY <2>1 DEF Uses
<1> QED
  BY <1>2, <1>3, <1>4, <1>5, <1>6, <1>7, <1>8 DEF Flush

LEMMA UseEffect ==
    ASSUME IInv, [Next]_vars
    PROVE  Step /\ Uses
<1>1. Step
  BY StepEffect
<1>2. CASE \E f \in Flushers : StartTask(f) \/ Flush(f) \/ Kill(f)
  BY <1>1, <1>2, FlusherUses
<1>3. CASE Request \/ ExpireLog \/ ExpireUsage \/ ExpireUpdates \/ Rest \/ UNCHANGED vars
  BY <1>1, <1>3, RequestUses
<1> QED
  BY <1>1, <1>2, <1>3 DEF Next

\* Who is at a point of the usage after a step was there before, or has just got there.
LEMMA UserFrom ==
    ASSUME Uses, NEW f \in Flushers
    PROVE  flusher'[f] = flusher[f] \/ Leaves(f) \/ Pulls(f) \/ Loads(f) \/ Adds(f) \/ Clears(f)
<1>1. ASSUME NEW g \in Flushers, Leaves(g) PROVE flusher'[f] = flusher[f] \/ Leaves(f)
  BY <1>1 DEF Leaves, Moves
<1>2. ASSUME NEW g \in Flushers, Pulls(g) PROVE flusher'[f] = flusher[f] \/ Pulls(f)
  BY <1>2 DEF Pulls, Moves
<1>3. ASSUME NEW g \in Flushers, Loads(g) PROVE flusher'[f] = flusher[f] \/ Loads(f)
  BY <1>3 DEF Loads, Moves
<1>4. ASSUME NEW g \in Flushers, Adds(g) PROVE flusher'[f] = flusher[f] \/ Adds(f)
  BY <1>4 DEF Adds, Moves
<1>5. ASSUME NEW g \in Flushers, Clears(g) PROVE flusher'[f] = flusher[f] \/ Clears(f)
  BY <1>5 DEF Clears, Moves
<1> QED
  BY <1>1, <1>2, <1>3, <1>4, <1>5 DEF Uses, Counts, Lapses, SameFlushers

LEMMA RowsUnreadKept ==
    ASSUME RowsUnread, Uses
    PROVE  RowsUnread'
<1>1. SUFFICES ASSUME NEW f \in Flushers, flusher'[f].pc \in {"hash", "row"}
               PROVE  flusher'[f].row = NoRow /\ flusher'[f].image = 0
  BY DEF RowsUnread, Within
<1>2. CASE flusher'[f] = flusher[f]
  BY <1>1, <1>2 DEF RowsUnread, Within
<1>3. CASE Leaves(f)
  BY <1>1, <1>3 DEF Leaves, Fresh, UsageWindow
<1>4. CASE Pulls(f)
  BY <1>4 DEF Pulls, RowsUnread, Within
<1> QED
  BY <1>1, <1>2, <1>3, <1>4, UserFrom DEF Loads, Adds, Clears

LEMMA UsageInOrderKept ==
    ASSUME IInv, RowsUnread, UsageInOrder, Step, Uses
    PROVE  UsageInOrder'
<1> DEFINE exact == connects = RowHits(usage) + (IF Within({"clear"}) = {} THEN hits ELSE 0) + lapsed
<1>1. /\ incidents \subseteq incidents' /\ usage \in Seq(Row) /\ usage' \in Seq(Row)
      /\ hits \in Nat /\ lapsed \in Nat /\ connects \in Nat /\ \A f \in Flushers : flusher[f] \in Flusher
  BY DEF IInv, Step, TypeOK
<1>2. RowHits(usage) \in Nat
  <2>1. [hits |-> 0, devices |-> 0] \in Row
    BY DEF Row
  <2> QED
    BY <1>1, <2>1, RowsCount
<1>3. SUFFICES ASSUME incidents' \cap {"usageOverlap", "lateUse", "uncleared", "heldExpiry"} = {}
               PROVE  /\ \A f, g \in Flushers : flusher'[f].pc \in UsageWindow
                                                /\ flusher'[g].pc \in UsageWindow => f = g
                      /\ \A f \in Flushers : flusher'[f].pc \in UsageWindow => flusher'[f].pulled = hits'
                      /\ \A f \in Flushers : flusher'[f].pc = "add" =>
                            \/ flusher'[f].row = NoRow /\ flusher'[f].image = 0
                            \/ /\ flusher'[f].row \in DOMAIN usage'
                               /\ flusher'[f].image = usage'[flusher'[f].row].hits
                      /\ exact'
  BY DEF UsageInOrder, UseKept, Lone, Within
<1>4. /\ \A f, g \in Flushers : flusher[f].pc \in UsageWindow
                                /\ flusher[g].pc \in UsageWindow => f = g
      /\ \A f \in Flushers : flusher[f].pc \in UsageWindow => flusher[f].pulled = hits
      /\ \A f \in Flushers : flusher[f].pc = "add" =>
            \/ flusher[f].row = NoRow /\ flusher[f].image = 0
            \/ flusher[f].row \in DOMAIN usage /\ flusher[f].image = usage[flusher[f].row].hits
      /\ exact
  BY <1>1, <1>3 DEF UsageInOrder, UseKept, Lone, Within
<1>5. /\ (\A f \in Flushers : flusher[f].pc # "clear") => connects = RowHits(usage) + hits + lapsed
      /\ (\E f \in Flushers : flusher[f].pc = "clear") => connects = RowHits(usage) + lapsed
  BY <1>2, <1>4 DEF Within
<1>6. /\ (\A f \in Flushers : flusher'[f].pc # "clear") /\ connects' = RowHits(usage') + hits' + lapsed' => exact'
      /\ (\E f \in Flushers : flusher'[f].pc = "clear") /\ connects' = RowHits(usage') + 0 + lapsed' => exact'
  BY DEF Within
<1> HIDE DEF exact
<1>7. CASE Counts
  <2>1. \A f \in Flushers : flusher[f].pc \notin UsageWindow
    BY <1>3, <1>7 DEF Counts, Within
  <2>2. \A f \in Flushers : flusher'[f].pc \notin UsageWindow
    BY <1>7, <2>1 DEF Counts, SameFlushers, Leaves, Moves
  <2>3. connects' = RowHits(usage') + hits' + lapsed'
    <3>1. connects = RowHits(usage) + hits + lapsed
      BY <1>5, <2>1 DEF UsageWindow
    <3>2. connects' = connects + 1 /\ hits' = hits + 1 /\ usage' = usage /\ lapsed' = lapsed
      BY <1>7 DEF Counts
    <3> QED
      BY <1>1, <1>2, <3>1, <3>2
  <2> QED
    BY <1>6, <2>2, <2>3 DEF UsageWindow
<1>8. ASSUME NEW f \in Flushers, Pulls(f)
      PROVE  /\ \A g \in Flushers : flusher'[g].pc \in UsageWindow => g = f
             /\ flusher'[f].pc = "row" /\ flusher'[f].pulled = hits' /\ exact'
  <2>1. \A g \in Flushers : flusher[g].pc \notin UsageWindow
    BY <1>3, <1>8 DEF Pulls, Within
  <2>2. /\ flusher'[f].pc = "row" /\ flusher'[f].pulled = hits' /\ SameUse
        /\ \A g \in Flushers \ {f} : flusher'[g] = flusher[g]
    BY <1>8 DEF Pulls, Moves, SameUse
  <2>3. \A g \in Flushers : flusher'[g].pc \in UsageWindow => g = f
    BY <2>1, <2>2
  <2>4. \A g \in Flushers : flusher'[g].pc # "clear"
    BY <2>2, <2>3 DEF UsageWindow
  <2>5. connects' = RowHits(usage') + hits' + lapsed'
    BY <1>5, <2>1, <2>2 DEF SameUse, UsageWindow
  <2> QED
    BY <1>6, <2>2, <2>3, <2>4, <2>5
<1>9. ASSUME NEW f \in Flushers, Loads(f)
      PROVE  /\ \A g \in Flushers : flusher'[g].pc \in UsageWindow => g = f
             /\ flusher'[f].pc = "add" /\ flusher'[f].pulled = hits' /\ exact'
             /\ \/ flusher'[f].row = NoRow /\ flusher'[f].image = 0
                \/ /\ flusher'[f].row \in DOMAIN usage'
                   /\ flusher'[f].image = usage'[flusher'[f].row].hits
  <2>1. /\ flusher[f].pc = "row" /\ flusher'[f].pc = "add" /\ SameUse
        /\ flusher'[f].pulled = flusher[f].pulled
        /\ \A g \in Flushers \ {f} : flusher'[g] = flusher[g]
    BY <1>9 DEF Loads, Moves
  <2>2. \A g \in Flushers : flusher[g].pc \in UsageWindow => g = f
    BY <1>4, <2>1 DEF UsageWindow
  <2>3. \A g \in Flushers : flusher'[g].pc \in UsageWindow => g = f
    BY <2>1, <2>2
  <2>4. flusher'[f].pulled = hits'
    BY <1>4, <2>1 DEF SameUse, UsageWindow
  <2>5. \A g \in Flushers : flusher[g].pc # "clear" /\ flusher'[g].pc # "clear"
    BY <2>1, <2>2, <2>3 DEF UsageWindow
  <2>6. connects' = RowHits(usage') + hits' + lapsed'
    BY <1>5, <2>1, <2>5 DEF SameUse
  <2>7. flusher[f].row = NoRow /\ flusher[f].image = 0
    BY <2>1 DEF RowsUnread, Within
  <2>8. \/ flusher'[f].row = NoRow /\ flusher'[f].image = 0
        \/ /\ flusher'[f].row \in DOMAIN usage'
           /\ flusher'[f].image = usage'[flusher'[f].row].hits
    BY <1>9, <2>7 DEF Loads, SameUse
  <2> QED
    BY <1>6, <2>1, <2>3, <2>4, <2>5, <2>6, <2>8
<1>10. ASSUME NEW f \in Flushers, Adds(f)
       PROVE  /\ \A g \in Flushers : flusher'[g].pc \in UsageWindow => g = f
              /\ flusher'[f].pc = "clear" /\ flusher'[f].pulled = hits' /\ exact'
  <2>1. /\ flusher[f].pc = "add" /\ flusher'[f].pc = "clear" /\ hits' = hits /\ connects' = connects /\ lapsed' = lapsed
        /\ flusher'[f].pulled = flusher[f].pulled
        /\ \A g \in Flushers \ {f} : flusher'[g] = flusher[g]
    BY <1>10 DEF Adds, Moves
  <2>2. \A g \in Flushers : flusher[g].pc \in UsageWindow => g = f
    BY <1>4, <2>1 DEF UsageWindow
  <2>3. \A g \in Flushers : flusher'[g].pc \in UsageWindow => g = f
    BY <2>1, <2>2
  <2>4. flusher[f].pulled = hits /\ flusher'[f].pulled = hits'
    BY <1>4, <2>1 DEF UsageWindow
  <2>5. connects = RowHits(usage) + hits + lapsed
    BY <1>5, <2>1, <2>2 DEF UsageWindow
  <2>6. PICK row \in Row :
          /\ row.hits = flusher[f].image + flusher[f].pulled
          /\ usage' = IF flusher[f].row = NoRow THEN Append(usage, row)
                      ELSE [usage EXCEPT ![flusher[f].row] = row]
    BY <1>10 DEF Adds
  <2>7. RowHits(usage') = RowHits(usage) + hits
    <3>1. CASE flusher[f].row = NoRow
      <4>1. flusher[f].row \notin DOMAIN usage
        <5>1. DOMAIN usage \subseteq Nat
          BY <1>1
        <5> QED
          BY <3>1, <5>1, NoRowAssumption
      <4>2. flusher[f].image = 0 /\ row.hits = hits
        BY <1>1, <1>4, <2>1, <2>4, <2>6, <4>1
      <4>3. usage' = Append(usage, row)
        BY <2>6, <3>1
      <4> QED
        BY <1>1, <4>2, <4>3, RowsCount
    <3>2. CASE flusher[f].row # NoRow
      <4> DEFINE i == flusher[f].row
      <4>1. i \in DOMAIN usage /\ row.hits = usage[i].hits + hits
        BY <1>4, <2>1, <2>4, <2>6, <3>2
      <4>2. usage' = [usage EXCEPT ![i] = row]
        BY <2>6, <3>2
      <4>3. usage[i].hits \in Nat
        <5>1. usage[i] \in Row
          BY <1>1, <4>1
        <5> QED
          BY <5>1 DEF Row
      <4> HIDE DEF i
      <4>4. RowHits(usage') = RowHits(usage) - usage[i].hits + row.hits
        BY <1>1, <4>1, <4>2, RowsCount
      <4> QED
        BY <1>1, <1>2, <4>1, <4>3, <4>4
    <3> QED
      BY <3>1, <3>2
  <2>8. connects' = RowHits(usage') + 0 + lapsed'
    BY <1>1, <1>2, <2>1, <2>5, <2>7
  <2> QED
    BY <1>6, <2>1, <2>3, <2>4, <2>8
<1>11. ASSUME NEW f \in Flushers, Clears(f)
       PROVE  (\A g \in Flushers : flusher'[g].pc \notin UsageWindow) /\ exact'
  <2>1. /\ flusher[f].pc = "clear" /\ flusher'[f].pc = "clearProducts"
        /\ hits' = 0 /\ usage' = usage /\ connects' = connects /\ lapsed' = lapsed
        /\ \A g \in Flushers \ {f} : flusher'[g] = flusher[g]
    BY <1>11 DEF Clears, Moves
  <2>2. \A g \in Flushers : flusher[g].pc \in UsageWindow => g = f
    BY <1>4, <2>1 DEF UsageWindow
  <2>3. \A g \in Flushers : flusher'[g].pc \notin UsageWindow
    BY <2>1, <2>2 DEF UsageWindow
  <2>4. connects' = RowHits(usage') + hits' + lapsed'
    BY <1>2, <1>5, <2>1
  <2> QED
    BY <1>6, <2>3, <2>4 DEF UsageWindow
<1>12. CASE SameUse /\ SameFlushers
  BY <1>4, <1>5, <1>6, <1>12, <1>2 DEF SameUse, SameFlushers
<1>13. ASSUME NEW f \in Flushers, SameUse, Leaves(f)
       PROVE  /\ \A g \in Flushers : flusher'[g].pc \in UsageWindow => flusher'[g] = flusher[g]
              /\ exact'
  <2>1. /\ flusher[f].pc # "clear" /\ flusher'[f].pc \notin UsageWindow
        /\ \A g \in Flushers \ {f} : flusher'[g] = flusher[g]
    BY <1>3, <1>13 DEF Leaves, Moves
  <2>2. \A g \in Flushers : flusher'[g].pc = "clear" <=> flusher[g].pc = "clear"
    BY <2>1 DEF UsageWindow
  <2>3. hits' = hits /\ usage' = usage /\ connects' = connects /\ lapsed' = lapsed
    BY <1>13 DEF SameUse
  <2>4. exact'
    BY <1>2, <1>5, <1>6, <2>2, <2>3
  <2> QED
    BY <2>1, <2>4
<1>14. CASE Lapses
  <2>1. /\ \A f \in Flushers : flusher[f].pc \notin UsageWindow
        /\ flusher' = flusher
    BY <1>3, <1>14 DEF Lapses, SameFlushers, Within
  <2>2. connects' = RowHits(usage') + hits' + lapsed'
    <3>1. connects = RowHits(usage) + hits + lapsed
      BY <1>5, <2>1 DEF UsageWindow
    <3>2. connects' = connects /\ hits' = 0 /\ usage' = usage /\ lapsed' = lapsed + hits
      BY <1>14 DEF Lapses
    <3> QED
      BY <1>1, <1>2, <3>1, <3>2
  <2> QED
    BY <1>6, <2>1, <2>2 DEF UsageWindow
<1> QED
  BY <1>4, <1>7, <1>8, <1>9, <1>10, <1>11, <1>12, <1>13, <1>14 DEF Uses, SameUse, UsageWindow

LEMMA UsageInvariant == Spec => [](IInv /\ RowsUnread /\ UsageInOrder)
<1>1. Init => RowsUnread /\ UsageInOrder
  <2> SUFFICES ASSUME Init PROVE RowsUnread /\ UsageInOrder
    OBVIOUS
  <2>1. \A f \in Flushers : flusher[f].pc = "idle"
    BY DEF Init, Idle
  <2>2. Within({"hash", "row"}) = {} /\ Within(UsageWindow) = {} /\ Within({"add"}) = {}
    BY <2>1 DEF Within, UsageWindow
  <2>3. connects = RowHits(usage) + (IF Within({"clear"}) = {} THEN hits ELSE 0) + lapsed
    <3>1. usage = <<>> /\ hits = 0 /\ connects = 0 /\ lapsed = 0
      BY DEF Init
    <3>2. RowHits(usage) = 0
      BY <3>1, TotalOfNone DEF RowHits
    <3> QED
      BY <3>1, <3>2
  <2> QED
    BY <2>2, <2>3 DEF RowsUnread, UsageInOrder, Lone
<1>2. IInv /\ RowsUnread /\ UsageInOrder /\ [Next]_vars => (RowsUnread /\ UsageInOrder)'
  BY UseEffect, RowsUnreadKept, UsageInOrderKept
<1> QED
  BY <1>1, <1>2, Invariant, PTL DEF Spec

\* What the flushers have committed and not deleted is the hash, or nothing.
LEMMA CountedIsExact ==
    ASSUME TypeOK, UsageInOrder
    PROVE  UsageExact
<1> SUFFICES ASSUME UseKept
             PROVE  RowHits(usage) + hits + lapsed
                      = connects + Total([f \in Within({"clear"}) |-> flusher[f].pulled])
  BY DEF UsageExact, UseKept, RowHits
<1>1. hits \in Nat /\ lapsed \in Nat /\ usage \in Seq(Row)
  BY DEF TypeOK
<1>2. RowHits(usage) \in Nat
  <2>1. [hits |-> 0, devices |-> 0] \in Row
    BY DEF Row
  <2> QED
    BY <1>1, <2>1, RowsCount
<1> DEFINE held == [f \in Within({"clear"}) |-> flusher[f].pulled]
<1>3. connects = RowHits(usage) + (IF Within({"clear"}) = {} THEN hits ELSE 0) + lapsed
  BY DEF UsageInOrder
<1>4. CASE Within({"clear"}) = {}
  <2>1. Total(held) = 0
    BY <1>4, TotalOfNone
  <2> QED
    BY <1>1, <1>2, <1>3, <1>4, <2>1
<1>5. CASE Within({"clear"}) # {}
  <2>1. PICK f \in Within({"clear"}) : TRUE
    BY <1>5
  <2>2. f \in Within(UsageWindow) /\ \A g \in Within({"clear"}) : g \in Within(UsageWindow)
    BY <2>1 DEF Within, UsageWindow
  <2>3. Within({"clear"}) = {f}
    BY <2>1, <2>2 DEF UsageInOrder, Lone
  <2>4. flusher[f].pulled = hits
    BY <2>2 DEF UsageInOrder
  <2>5. DOMAIN held = {f} /\ held[f] = hits
    BY <2>3, <2>4
  <2> HIDE DEF held
  <2>6. Total(held) = hits
    BY <1>1, <2>5, TotalOfOne
  <2>7. RowHits(usage) + hits + lapsed = connects + Total(held)
    BY <1>1, <1>2, <1>3, <1>5, <2>6
  <2> QED
    BY <2>7 DEF held
<1> QED
  BY <1>4, <1>5

\* The connects in the rows and in the hash, and those that expired, are those that were
\* made, unless one was recorded between a flusher's read and its delete, two flushed at
\* once, the hash expired under a flusher, or one was killed after its commit or could not
\* delete: neither a failed commit nor any other kill or failure loses or doubles one.
THEOREM UsageIsExact == Spec => []UsageExact
<1>1. IInv /\ UsageInOrder => UsageExact
  BY CountedIsExact DEF IInv
<1> QED
  BY <1>1, UsageInvariant, PTL
=============================================================================
