--------------------------- MODULE KeyBillingProofs ---------------------------
(***************************************************************************)
(* Proofs about KeyBilling, for any number of users, requests and handler  *)
(* threads.                                                                *)
(***************************************************************************)
EXTENDS KeyBilling, TLAPS

USE DEF AllKinds, Steps

\* The arithmetic of a request stays within the integers.
LEMMA RequestArithmetic ==
    ASSUME NEW q \in Handler
    PROVE  /\ Total(q) \in Nat
           /\ Debit(q) \in Nat
           /\ \A u \in Users : Delta(q, u) \in Int /\ Entry(q, u) \in Int
<1>1. q.price \in Nat /\ q.count \in Nat
  BY DEF Handler
<1>2. Total(q) \in Nat
  BY <1>1 DEF Total
<1> QED
  BY <1>2 DEF Delta, Entry, Debit

\* The attribute changes and the TokenTransaction rows of a request agree.
LEMMA EntryIsDelta ==
    ASSUME NEW q \in Handler, NEW u \in Users
    PROVE  Entry(q, u) = Delta(q, u)
<1>1. Total(q) \in Nat
  BY RequestArithmetic
<1> QED
  BY <1>1 DEF Entry, Delta

\* A commit keeps the type of every variable it writes.
LEMMA CommitType ==
    ASSUME Typed, NEW r \in Requests, NEW made \in Nat, Commit(r, made)
    PROVE  /\ balance' \in [Users -> Int]
           /\ ledger' \in [Users -> Int]
           /\ rowLock' \in [Users -> Requests \cup {NoOne}]
           /\ paid' \in [Requests -> Nat]
           /\ goods' \in [Requests -> Nat]
           /\ fresh' \in [Requests -> SUBSET Users]
           /\ clobbered' \in SUBSET Users
<1> DEFINE q == req[r]
<1>1. q \in Handler /\ q.seen \in [Users -> Int]
  BY DEF Typed, Handler
<1>2. \A u \in Users : Delta(q, u) \in Int /\ Entry(q, u) \in Int
  BY <1>1, RequestArithmetic
<1>3. Debit(q) \in Nat /\ Touched(q) \subseteq Users
  BY <1>1, RequestArithmetic DEF Touched
<1> HIDE DEF q
<1>4. balance' = [u \in Users |-> IF u \in Touched(q) THEN q.seen[u] + Delta(q, u)
                                  ELSE balance[u]]
  BY DEF Commit, q
<1>5. balance' \in [Users -> Int]
  BY <1>1, <1>2, <1>4 DEF Typed
<1>6. ledger' = [u \in Users |-> ledger[u] + Entry(q, u)]
  BY DEF Commit, q
<1>7. ledger' \in [Users -> Int]
  BY <1>2, <1>6 DEF Typed
<1>8. paid' \in [Requests -> Nat]
  <2>1. paid' = [paid EXCEPT ![r] = @ + Debit(q)]
    BY DEF Commit, q
  <2> QED
    BY <2>1, <1>3 DEF Typed
<1>9. goods' \in [Requests -> Nat]
  BY DEF Commit, Typed
<1>10. rowLock' \in [Users -> Requests \cup {NoOne}]
  BY DEF Commit, Released, Typed
<1>11. /\ fresh' \in [Requests -> SUBSET Users]
       /\ clobbered' \in SUBSET Users
  <2>1. /\ fresh' = [s \in Requests |-> fresh[s] \ Touched(q)]
        /\ clobbered' = clobbered \cup (Touched(q) \ fresh[r])
    BY DEF Commit, q
  <2> QED
    BY <2>1, <1>3 DEF Typed
<1> QED
  BY <1>5, <1>7, <1>8, <1>9, <1>10, <1>11

\* A rollback keeps the type of every variable but req.
LEMMA RollbackType ==
    ASSUME Typed, NEW r \in Requests, Rollback(r)
    PROVE  /\ balance' \in [Users -> Int]
           /\ ledger' \in [Users -> Int]
           /\ rowLock' \in [Users -> Requests \cup {NoOne}]
           /\ paid' \in [Requests -> Nat]
           /\ goods' \in [Requests -> Nat]
           /\ fresh' \in [Requests -> SUBSET Users]
           /\ clobbered' \in SUBSET Users
BY DEF Rollback, Released, Typed

\* All of a handler but its program counter and its answer.
SameRequest(p, q) ==
    /\ p.kind = q.kind /\ p.actor = q.actor /\ p.target = q.target
    /\ p.price = q.price /\ p.count = q.count /\ p.seen = q.seen

\* Moving the program counter, or answering, keeps the handler a handler and
\* changes nothing else of it.
LEMMA GotoType ==
    ASSUME Typed, NEW r \in Requests, NEW pc \in Steps, Goto(r, pc)
    PROVE  /\ req' \in [Requests -> Handler]
           /\ req'[r].pc = pc
           /\ SameRequest(req'[r], req[r])
           /\ \A s \in Requests \ {r} : req'[s] = req[s]
<1>1. req[r] \in Handler /\ req \in [Requests -> Handler]
  BY DEF Typed
<1>2. [req[r] EXCEPT !.pc = pc] \in Handler
  BY <1>1 DEF Handler
<1>3. req' = [req EXCEPT ![r] = [req[r] EXCEPT !.pc = pc]]
  BY <1>1 DEF Goto
<1>4. /\ [req[r] EXCEPT !.pc = pc].pc = pc
      /\ SameRequest([req[r] EXCEPT !.pc = pc], req[r])
  BY <1>1 DEF Handler, SameRequest
<1> QED
  BY <1>1, <1>2, <1>3, <1>4

LEMMA AnswerType ==
    ASSUME Typed, NEW r \in Requests, Answered(r)
    PROVE  /\ req' \in [Requests -> Handler]
           /\ req'[r].pc = "done"
           /\ SameRequest(req'[r], req[r])
           /\ \A s \in Requests \ {r} : req'[s] = req[s]
<1>0. PICK value \in {"ok", "error"} : Answer(r, value)
  BY DEF Answered
<1>1. req[r] \in Handler /\ req \in [Requests -> Handler]
  BY DEF Typed
<1>2. [req[r] EXCEPT !.pc = "done", !.answer = value] \in Handler
  BY <1>1 DEF Handler
<1>3. req' = [req EXCEPT ![r] = [req[r] EXCEPT !.pc = "done", !.answer = value]]
  BY <1>0, <1>1 DEF Answer
<1>4. /\ [req[r] EXCEPT !.pc = "done", !.answer = value].pc = "done"
      /\ SameRequest([req[r] EXCEPT !.pc = "done", !.answer = value], req[r])
  BY <1>1 DEF Handler, SameRequest
<1> QED
  BY <1>1, <1>2, <1>3, <1>4

\* The steps of a handler grouped by what they do to its transaction.
CommitStep(r) ==
    /\ req[r].pc \in {"dirty", "signalled"}
    /\ \E made \in Nat : Commit(r, made)
    /\ \/ \E pc \in {"early", "endowed"} : Goto(r, pc)
       \/ Answered(r)

RollbackStep(r) ==
    /\ IsActive(req[r])
    /\ Rollback(r)
    /\ \/ \E pc \in {"undone", "killed"} : Goto(r, pc)
       \/ Answered(r)

\* Every step of a handler loads rows, locks one, ends a transaction, or leaves
\* the database alone: the case split the invariants are proved along.
LEMMA StepKinds ==
    ASSUME NEW r \in Requests, Progress(r) \/ Kill(r)
    PROVE  \/ Approve(r)
           \/ \E u \in Users : FlushRow(r, u)
           \/ SignalQueued(r)
           \/ CommitStep(r)
           \/ RollbackStep(r)
<1>1. CASE Kill(r) \/ Refuse(r) \/ SignalNotStored(r)
  BY <1>1 DEF Kill, Refuse, SignalNotStored, RollbackStep, Flushed, IsActive, Answered
<1>2. CASE CreateKeyReturns(r) \/ UserSetupEnds(r) \/ HandlerFails(r)
  BY <1>2 DEF CreateKeyReturns, UserSetupEnds, HandlerFails, RollbackStep, IsActive,
              Answered
<1>3. CASE SignalStored(r) \/ CreateKeyCommits(r) \/ UserSetupCommits(r)
  BY <1>3 DEF SignalStored, CreateKeyCommits, UserSetupCommits,
              CommitStep, Flushed
<1>4. CASE \E made \in Counts : BulkCreateCommits(r, made)
  <2>1. PICK made \in Counts : BulkCreateCommits(r, made)
    BY <1>4
  <2>2. made \in Nat
    BY CountsAssumption
  <2> QED
    BY <2>1, <2>2 DEF BulkCreateCommits, CommitStep, Flushed
<1>5. CASE HandlerCommits(r)
  <2>1. PICK kind \in OneCommitKinds :
          /\ Flushed(r, kind)
          /\ Answered(r)
          /\ Commit(r, IF kind \in GoodsKinds THEN 1 ELSE 0)
    BY <1>5 DEF HandlerCommits
  <2>2. (IF kind \in GoodsKinds THEN 1 ELSE 0) \in Nat
    OBVIOUS
  <2> QED
    BY <2>1, <2>2 DEF CommitStep, Flushed
<1> QED
  BY <1>1, <1>2, <1>3, <1>4, <1>5 DEF Progress

-----------------------------------------------------------------------------
(* Type correctness.                                                       *)

LEMMA InitType == Init => Typed
<1> SUFFICES ASSUME Init PROVE Typed
  OBVIOUS
<1>1. AnyUser \in Users
  BY UsersAssumption DEF AnyUser
<1>2. NotArrived \in Handler
  BY <1>1 DEF NotArrived, Handler
<1> QED
  BY <1>2, BalanceAssumption DEF Init, Typed

LEMMA AuthenticateType ==
    ASSUME Typed, NEW r \in Requests, Arrive(r)
    PROVE  Typed'
<1>1. PICK kind \in Kinds, actor \in Users, target \in Users, price \in Prices,
           count \in Counts \cup {1} :
             Authenticate(r, kind, actor, target, price, count)
  BY DEF Arrive
<1> DEFINE new == [pc |-> "authenticated", kind |-> kind, actor |-> actor,
                   target |-> target, price |-> price, count |-> count,
                   seen |-> [u \in Users |-> IF u = actor THEN balance[u] ELSE 0],
                   answer |-> "none"]
<1>2. new \in Handler
  <2>1. price \in Nat /\ count \in Nat /\ kind \in AllKinds
    BY PricesAssumption, CountsAssumption, KindsAssumption
  <2>2. [u \in Users |-> IF u = actor THEN balance[u] ELSE 0] \in [Users -> Int]
    BY DEF Typed
  <2> QED
    BY <2>1, <2>2 DEF Handler
<1>3. req' = [req EXCEPT ![r] = new]
  BY <1>1 DEF Authenticate
<1>4. req' \in [Requests -> Handler]
  BY <1>2, <1>3 DEF Typed
<1> QED
  BY <1>1, <1>4 DEF Authenticate, Typed

LEMMA ApproveType ==
    ASSUME Typed, NEW r \in Requests, Approve(r)
    PROVE  Typed'
<1> DEFINE q == req[r]
<1>1. q \in Handler /\ q.seen \in [Users -> Int]
  BY DEF Typed, Handler
<1>2. Loaded(q) \in [Users -> Int]
  BY <1>1 DEF Loaded, Typed
<1>3. [q EXCEPT !.pc = "dirty", !.seen = Loaded(q)] \in Handler
  BY <1>1, <1>2 DEF Handler
<1>4. req' = [req EXCEPT ![r] = [q EXCEPT !.pc = "dirty", !.seen = Loaded(q)]]
  BY DEF Approve, Typed
<1>5. Reloads(q) \subseteq Users
  BY <1>1 DEF Reloads, Handler
<1>6. fresh' = [fresh EXCEPT ![r] = @ \cup Reloads(q)]
  BY DEF Approve
<1> QED
  BY <1>3, <1>4, <1>5, <1>6 DEF Approve, Typed

\* No step of any handler leaves the types.
LEMMA NextType == Typed /\ [Next]_vars => Typed'
<1> SUFFICES ASSUME Typed, [Next]_vars PROVE Typed'
  OBVIOUS
<1>1. CASE UNCHANGED vars \/ Served
  BY <1>1 DEF vars, Served, Typed
<1>2. ASSUME NEW r \in Requests, Arrive(r) PROVE Typed'
  BY <1>2, AuthenticateType
<1>3. ASSUME NEW r \in Requests, Progress(r) \/ Kill(r) PROVE Typed'
  <2>1. CASE Approve(r)
    BY <2>1, ApproveType
  <2>2. CASE \E u \in Users : FlushRow(r, u)
    BY <2>2 DEF FlushRow, Typed
  <2>3. CASE SignalQueued(r)
    BY <2>3, GotoType DEF SignalQueued, Typed
  <2>4. CASE CommitStep(r)
    <3>1. req' \in [Requests -> Handler]
      BY <2>4, GotoType, AnswerType DEF CommitStep
    <3> QED
      BY <2>4, <3>1, CommitType DEF CommitStep, Typed
  <2>5. CASE RollbackStep(r)
    <3>1. req' \in [Requests -> Handler]
      BY <2>5, GotoType, AnswerType DEF RollbackStep
    <3> QED
      BY <2>5, <3>1, RollbackType DEF RollbackStep, Typed
  <2> QED
    BY <1>3, <2>1, <2>2, <2>3, <2>4, <2>5, StepKinds
<1> QED
  BY <1>1, <1>2, <1>3 DEF Next

LEMMA TypeInvariant == Spec => []Typed
BY InitType, NextType, PTL DEF Spec

-----------------------------------------------------------------------------
(* The row locks.                                                          *)

\* A handler that is where it was, or only moves on with its locks, keeps them.
LEMMA LockStays ==
    ASSUME LocksHeld, NEW u \in Users, rowLock'[u] = rowLock[u], rowLock[u] # NoOne,
           \/ req'[rowLock[u]] = req[rowLock[u]]
           \/ /\ req'[rowLock[u]].pc \in {"dirty", "signalled"}
              /\ SameRequest(req'[rowLock[u]], req[rowLock[u]])
    PROVE  req'[rowLock'[u]].pc \in {"dirty", "signalled"} /\ u \in Touched(req'[rowLock'[u]])
<1> DEFINE p == req[rowLock[u]]
           q == req'[rowLock[u]]
<1>1. p.pc \in {"dirty", "signalled"} /\ u \in Touched(p)
  BY DEF LocksHeld
<1>2. q = p \/ (q.pc \in {"dirty", "signalled"} /\ SameRequest(q, p))
  OBVIOUS
<1> HIDE DEF p, q
<1>3. SameRequest(q, p) => Delta(q, u) = Delta(p, u)
  BY DEF SameRequest, Delta, Receives, Pays, Total
<1>4. q.pc \in {"dirty", "signalled"} /\ u \in Touched(q)
  BY <1>1, <1>2, <1>3 DEF Touched
<1> QED
  BY <1>4 DEF q

\* The end of a transaction releases what it held and moves no other handler.
LEMMA LocksReleased ==
    ASSUME Typed, LocksHeld, NEW r \in Requests, rowLock' = Released(r),
           \A s \in Requests \ {r} : req'[s] = req[s]
    PROVE  LocksHeld'
<1> SUFFICES ASSUME NEW u \in Users, rowLock'[u] # NoOne
             PROVE  req'[rowLock'[u]].pc \in {"dirty", "signalled"} /\ u \in Touched(req'[rowLock'[u]])
  BY DEF LocksHeld
<1>1. rowLock[u] # r /\ rowLock'[u] = rowLock[u] /\ rowLock[u] \in Requests
  BY DEF Released, Typed
<1> QED
  BY <1>1, LockStays

LEMMA LocksStep == Typed /\ LocksHeld /\ [Next]_vars => LocksHeld'
<1> SUFFICES ASSUME Typed, LocksHeld, [Next]_vars PROVE LocksHeld'
  OBVIOUS
<1>1. CASE UNCHANGED vars \/ Served
  BY <1>1 DEF vars, Served, LocksHeld
\* Who has not decided yet holds no lock.
<1>2. ASSUME NEW r \in Requests, req[r].pc \notin {"dirty", "signalled"}, rowLock' = rowLock,
             \A s \in Requests \ {r} : req'[s] = req[s]
      PROVE  LocksHeld'
  <2> SUFFICES ASSUME NEW u \in Users, rowLock'[u] # NoOne
               PROVE  req'[rowLock'[u]].pc \in {"dirty", "signalled"} /\ u \in Touched(req'[rowLock'[u]])
    BY DEF LocksHeld
  <2>1. rowLock[u] # r /\ rowLock[u] \in Requests
    BY <1>2 DEF LocksHeld, Typed
  <2> QED
    BY <1>2, <2>1, LockStays
<1>3. ASSUME NEW r \in Requests, Arrive(r)
      PROVE  LocksHeld'
  <2>1. /\ req[r].pc = "idle" /\ rowLock' = rowLock
        /\ \A s \in Requests \ {r} : req'[s] = req[s]
    BY <1>3 DEF Arrive, Authenticate, Typed
  <2> QED
    BY <1>2, <2>1
<1>4. ASSUME NEW r \in Requests, Progress(r) \/ Kill(r)
      PROVE  LocksHeld'
  <2>1. CASE Approve(r)
    <3>1. /\ req[r].pc = "authenticated" /\ rowLock' = rowLock
          /\ \A s \in Requests \ {r} : req'[s] = req[s]
      BY <2>1 DEF Approve, Typed
    <3> QED
      BY <1>2, <3>1
  <2>2. CASE \E u \in Users : FlushRow(r, u)
    <3>1. PICK v \in Users : FlushRow(r, v)
      BY <2>2
    <3> SUFFICES ASSUME NEW u \in Users, rowLock'[u] # NoOne
                 PROVE  /\ req'[rowLock'[u]].pc \in {"dirty", "signalled"}
                        /\ u \in Touched(req'[rowLock'[u]])
      BY DEF LocksHeld
    <3>2. req' = req /\ req[r].pc = "dirty" /\ v \in Touched(req[r])
          /\ rowLock' = [rowLock EXCEPT ![v] = r]
      BY <3>1 DEF FlushRow
    <3>3. CASE u = v
      <4>1. rowLock'[u] = r
        BY <3>2, <3>3 DEF Typed
      <4> QED
        BY <3>2, <3>3, <4>1
    <3>4. CASE u # v
      <4>1. rowLock'[u] = rowLock[u]
        BY <3>2, <3>4 DEF Typed
      <4> QED
        BY <3>2, <4>1, LockStays
    <3> QED
      BY <3>3, <3>4
  <2>3. CASE SignalQueued(r)
    <3>1. /\ req'[r].pc = "signalled" /\ SameRequest(req'[r], req[r]) /\ rowLock' = rowLock
          /\ \A s \in Requests \ {r} : req'[s] = req[s]
      BY <2>3, GotoType DEF SignalQueued
    <3> SUFFICES ASSUME NEW u \in Users, rowLock'[u] # NoOne
                 PROVE  /\ req'[rowLock'[u]].pc \in {"dirty", "signalled"}
                        /\ u \in Touched(req'[rowLock'[u]])
      BY DEF LocksHeld
    <3>2. rowLock[u] \in Requests
      BY <3>1 DEF Typed
    <3> QED
      BY <3>1, <3>2, LockStays
  <2>4. CASE CommitStep(r) \/ RollbackStep(r)
    <3>1. \A s \in Requests \ {r} : req'[s] = req[s]
      BY <2>4, GotoType, AnswerType DEF CommitStep, RollbackStep
    <3>2. rowLock' = Released(r)
      BY <2>4 DEF CommitStep, RollbackStep, Commit, Rollback
    <3> QED
      BY <3>1, <3>2, LocksReleased
  <2> QED
    BY <1>4, <2>1, <2>2, <2>3, <2>4, StepKinds
<1> QED
  BY <1>1, <1>3, <1>4 DEF Next

\* Every variable keeps its type in every behaviour of the handlers, and every row
\* lock is held by a live handler that has written the row.
THEOREM TypeCorrect == Spec => []TypeOK
<1>1. Init => LocksHeld
  BY DEF Init, LocksHeld
<1> QED
  BY <1>1, LocksStep, TypeInvariant, PTL DEF Spec, TypeOK

-----------------------------------------------------------------------------
(* The ledger.  Each step is shown first for the session images, then for  *)
(* the balances.                                                           *)

\* A step that leaves a handler's record and the balances alone keeps images.
LEMMA OtherFresh ==
    ASSUME Typed, FreshImages, NEW s \in Requests,
           req'[s] = req[s], fresh'[s] \subseteq fresh[s],
           \A u \in fresh'[s] : balance'[u] = balance[u],
           IsActive(req'[s])
    PROVE  \A u \in fresh'[s] : req'[s].seen[u] = balance'[u]
BY DEF FreshImages

\* What a commit does, row by row.
LEMMA CommitRows ==
    ASSUME Typed, NEW r \in Requests, NEW made \in Nat, Commit(r, made)
    PROVE  /\ \A u \in Touched(req[r]) : balance'[u] = req[r].seen[u] + Delta(req[r], u)
           /\ \A u \in Users \ Touched(req[r]) : balance'[u] = balance[u]
           /\ \A u \in Users \ Touched(req[r]) : Delta(req[r], u) = 0
           /\ \A u \in Users : ledger'[u] = ledger[u] + Delta(req[r], u)
           /\ \A s \in Requests : fresh'[s] = fresh[s] \ Touched(req[r])
           /\ clobbered' = clobbered \cup (Touched(req[r]) \ fresh[r])
<1> DEFINE q == req[r]
<1>1. q \in Handler
  BY DEF Typed
<1>2. \A u \in Users : Entry(q, u) = Delta(q, u)
  BY <1>1, EntryIsDelta
<1>3. \A u \in Users : u \in Touched(q) \/ Delta(q, u) = 0
  BY DEF Touched
<1>4. Touched(q) \subseteq Users
  BY DEF Touched
<1> HIDE DEF q
<1>5. /\ balance' = [u \in Users |-> IF u \in Touched(q) THEN q.seen[u] + Delta(q, u)
                                     ELSE balance[u]]
      /\ ledger' = [u \in Users |-> ledger[u] + Entry(q, u)]
      /\ fresh' = [s \in Requests |-> fresh[s] \ Touched(q)]
      /\ clobbered' = clobbered \cup (Touched(q) \ fresh[r])
  BY DEF Commit, q
<1>6. \A u \in Users : ledger'[u] = ledger[u] + Delta(q, u)
  BY <1>2, <1>5
<1> QED
  BY <1>3, <1>4, <1>5, <1>6 DEF q

LEMMA FreshStep ==
    Typed /\ FreshImages /\ [Next]_vars => FreshImages'
<1> SUFFICES ASSUME Typed, FreshImages, [Next]_vars,
                    NEW s \in Requests, IsActive(req'[s])
             PROVE  \A u \in fresh'[s] : req'[s].seen[u] = balance'[u]
  BY DEF FreshImages
<1>1. CASE UNCHANGED vars \/ Served
  BY <1>1 DEF vars, Served, FreshImages
<1>2. ASSUME NEW r \in Requests, Arrive(r)
      PROVE  \A u \in fresh'[s] : req'[s].seen[u] = balance'[u]
  <2>1. PICK kind \in Kinds, actor \in Users, target \in Users, price \in Prices,
             count \in Counts \cup {1} :
               Authenticate(r, kind, actor, target, price, count)
    BY <1>2 DEF Arrive
  <2>2. balance' = balance
    BY <2>1 DEF Authenticate
  <2>3. CASE s = r
    <3>1. /\ req'[r].seen = [u \in Users |-> IF u = actor THEN balance[u] ELSE 0]
          /\ fresh'[r] = {actor}
      BY <2>1 DEF Authenticate, Typed
    <3> QED
      BY <2>2, <2>3, <3>1
  <2>4. CASE s # r
    <3>1. req'[s] = req[s] /\ fresh'[s] = fresh[s]
      BY <2>1, <2>4 DEF Authenticate, Typed
    <3> QED
      BY <2>2, <3>1, OtherFresh
  <2> QED
    BY <2>3, <2>4
<1>3. ASSUME NEW r \in Requests, Progress(r) \/ Kill(r)
      PROVE  \A u \in fresh'[s] : req'[s].seen[u] = balance'[u]
  <2>1. CASE Approve(r)
    <3>1. /\ balance' = balance
          /\ req' = [req EXCEPT ![r].pc = "dirty", ![r].seen = Loaded(req[r])]
          /\ fresh' = [fresh EXCEPT ![r] = @ \cup Reloads(req[r])]
          /\ req[r].pc = "authenticated"
      BY <2>1 DEF Approve
    <3>2. CASE s = r
      <4>1. req'[r].seen = Loaded(req[r]) /\ fresh'[r] = fresh[r] \cup Reloads(req[r])
        BY <3>1 DEF Typed, Handler
      <4>2. IsActive(req[r])
        BY <3>1 DEF IsActive
      <4>3. fresh'[r] \subseteq Users
        BY <2>1, ApproveType DEF Typed
      <4>4. \A u \in fresh'[r] : Loaded(req[r])[u] = balance[u]
        BY <4>1, <4>2, <4>3 DEF Loaded, FreshImages
      <4> QED
        BY <3>1, <3>2, <4>1, <4>4
    <3>3. CASE s # r
      <4>1. req'[s] = req[s] /\ fresh'[s] = fresh[s]
        BY <3>1, <3>3 DEF Typed
      <4> QED
        BY <3>1, <4>1, OtherFresh
    <3> QED
      BY <3>2, <3>3
  <2>2. CASE \E u \in Users : FlushRow(r, u)
    BY <2>2, OtherFresh DEF FlushRow
  <2>3. CASE SignalQueued(r) \/ RollbackStep(r)
    <3>1. balance' = balance /\ fresh' = fresh
      BY <2>3 DEF SignalQueued, RollbackStep, Rollback
    <3>2. req'[s].seen = req[s].seen /\ (IsActive(req'[s]) => IsActive(req[s]))
      <4>1. s = r \/ req'[s] = req[s]
        BY <2>3, GotoType, AnswerType DEF SignalQueued, RollbackStep
      <4>2. CASE s = r
        <5>1. IsActive(req[r])
          BY <2>3 DEF SignalQueued, RollbackStep, Flushed, IsActive
        <5>2. req'[r].seen = req[r].seen
          BY <2>3, GotoType, AnswerType
             DEF SignalQueued, RollbackStep, SameRequest
        <5> QED
          BY <4>2, <5>1, <5>2
      <4> QED
        BY <4>1, <4>2
    <3> QED
      BY <3>1, <3>2 DEF FreshImages
  <2>4. CASE CommitStep(r)
    <3>1. PICK made \in Nat : Commit(r, made)
      BY <2>4 DEF CommitStep
    <3>2. /\ fresh'[s] = fresh[s] \ Touched(req[r])
          /\ \A u \in Users \ Touched(req[r]) : balance'[u] = balance[u]
      BY <3>1, CommitRows
    <3>3. \A u \in fresh'[s] : balance'[u] = balance[u]
      BY <3>2 DEF Typed
    <3>4. s = r \/ req'[s] = req[s]
      BY <2>4, GotoType, AnswerType DEF CommitStep
    <3>5. CASE s = r
      <4>1. IsActive(req[r]) /\ req[r] \in Handler
        BY <2>4 DEF CommitStep, IsActive, Typed
      <4>2. req'[r].seen = req[r].seen
        BY <2>4, GotoType, AnswerType DEF CommitStep, SameRequest
      <4> QED
        BY <3>2, <3>3, <3>5, <4>1, <4>2 DEF FreshImages
    <3> QED
      BY <3>2, <3>3, <3>4, <3>5, OtherFresh
  <2> QED
    BY <1>3, <2>1, <2>2, <2>3, <2>4, StepKinds
<1> QED
  BY <1>1, <1>2, <1>3 DEF Next

LEMMA LedgerStep ==
    Typed /\ FreshImages /\ LedgerExact /\ [Next]_vars => LedgerExact'
<1> SUFFICES ASSUME Typed, FreshImages, LedgerExact, [Next]_vars,
                    NEW u \in Users, u \notin clobbered'
             PROVE  balance'[u] = InitBalance[u] + ledger'[u]
  BY DEF LedgerExact
<1>1. CASE UNCHANGED <<balance, ledger, clobbered>>
  BY <1>1 DEF LedgerExact
<1>2. ASSUME NEW r \in Requests, CommitStep(r)
      PROVE  balance'[u] = InitBalance[u] + ledger'[u]
  <2> DEFINE q == req[r]
  <2>1. PICK made \in Nat : Commit(r, made)
    BY <1>2 DEF CommitStep
  <2>2. q \in Handler /\ IsActive(q)
    BY <1>2 DEF Typed, CommitStep, IsActive
  <2>3. u \notin clobbered /\ (u \in Touched(q) => u \in fresh[r])
    BY <2>1, CommitRows
  <2>4. balance[u] = InitBalance[u] + ledger[u]
    BY <2>3 DEF LedgerExact
  <2>5. u \in fresh[r] => q.seen[u] = balance[u]
    BY <2>2 DEF FreshImages
  <2>6. balance'[u] = balance[u] + Delta(q, u) /\ ledger'[u] = ledger[u] + Delta(q, u)
    <3>1. balance[u] \in Int
      BY DEF Typed
    <3> QED
      BY <2>1, <2>3, <2>5, <3>1, CommitRows
  <2>7. Delta(q, u) \in Int /\ ledger[u] \in Int /\ InitBalance[u] \in Int
    BY <2>2, RequestArithmetic, BalanceAssumption DEF Typed
  <2> QED
    BY <2>4, <2>6, <2>7
<1>3. ASSUME NEW r \in Requests, Arrive(r)
      PROVE  UNCHANGED <<balance, ledger, clobbered>>
  BY <1>3 DEF Arrive, Authenticate
<1>4. ASSUME NEW r \in Requests, Progress(r) \/ Kill(r), ~CommitStep(r)
      PROVE  UNCHANGED <<balance, ledger, clobbered>>
  BY <1>4, StepKinds
     DEF Approve, FlushRow, SignalQueued, RollbackStep, Rollback
<1> QED
  BY <1>1, <1>2, <1>3, <1>4 DEF Next, Served, vars

\* In every behaviour, for every user whose row was never overwritten from a
\* stale image, the balance is the initial one plus the committed history.
THEOREM LedgerCorrect == Spec => []LedgerExact
<1>1. Init => Typed /\ FreshImages /\ LedgerExact
  <2>1. Init => FreshImages
    BY DEF Init, FreshImages
  <2>2. Init => LedgerExact
    BY BalanceAssumption DEF Init, LedgerExact
  <2> QED
    BY <2>1, <2>2, InitType
<1>2. Typed /\ FreshImages /\ LedgerExact /\ [Next]_vars
        => Typed' /\ FreshImages' /\ LedgerExact'
  BY NextType, FreshStep, LedgerStep
<1> QED
  BY <1>1, <1>2, PTL DEF Spec

-----------------------------------------------------------------------------
(* Balances below zero.                                                    *)

\* A request stays the one that was sent, and what it paid stays paid.
RequestStays(t) ==
    /\ req[t].pc # "idle" => /\ req'[t].pc # "idle"
                             /\ req'[t].kind = req[t].kind
                             /\ req'[t].actor = req[t].actor
                             /\ paid'[t] >= paid[t]
    /\ req[t].pc = "idle" => paid'[t] = paid[t]

LEMMA RequestsStay ==
    ASSUME Typed, [Next]_vars, NEW t \in Requests
    PROVE  RequestStays(t)
<1>0. paid[t] \in Nat /\ paid \in [Requests -> Nat]
  BY DEF Typed
<1>1. CASE UNCHANGED vars \/ Served
  BY <1>0, <1>1 DEF vars, Served, RequestStays
<1>2. ASSUME NEW r \in Requests, Arrive(r) PROVE RequestStays(t)
  <2>1. paid' = paid /\ req[r].pc = "idle"
    BY <1>2 DEF Arrive, Authenticate
  <2>2. t # r => req'[t] = req[t]
    BY <1>2 DEF Arrive, Authenticate, Typed
  <2> QED
    BY <1>0, <2>1, <2>2 DEF RequestStays
<1>3. ASSUME NEW r \in Requests, Progress(r) \/ Kill(r) PROVE RequestStays(t)
  <2>1. CASE Approve(r)
    <3>1. paid' = paid
      BY <2>1 DEF Approve
    <3>2. /\ req'[t].pc # "idle" \/ req'[t].pc = req[t].pc
          /\ req'[t].kind = req[t].kind /\ req'[t].actor = req[t].actor
      BY <2>1 DEF Approve, Typed, Handler
    <3> QED
      BY <1>0, <3>1, <3>2 DEF RequestStays
  <2>2. CASE \E u \in Users : FlushRow(r, u)
    BY <1>0, <2>2 DEF FlushRow, RequestStays
  <2>3. CASE SignalQueued(r) \/ RollbackStep(r) \/ CommitStep(r)
    <3>1. SameRequest(req'[r], req[r]) /\ \A s \in Requests \ {r} : req'[s] = req[s]
      BY <2>3, GotoType, AnswerType DEF SignalQueued, RollbackStep, CommitStep
    <3>2. req[r].pc # "idle" /\ req'[r].pc # "idle"
      BY <2>3, GotoType, AnswerType
         DEF SignalQueued, RollbackStep, CommitStep, Flushed, IsActive
    <3>3. paid'[t] >= paid[t] /\ (t # r => paid'[t] = paid[t])
      <4>1. CASE SignalQueued(r) \/ RollbackStep(r)
        BY <1>0, <4>1 DEF SignalQueued, RollbackStep, Rollback
      <4>2. CASE CommitStep(r)
        <5>1. Debit(req[r]) \in Nat
          BY RequestArithmetic DEF Typed
        <5>2. paid' = [paid EXCEPT ![r] = @ + Debit(req[r])]
          BY <4>2 DEF CommitStep, Commit
        <5> QED
          BY <1>0, <5>1, <5>2
      <4> QED
        BY <2>3, <4>1, <4>2
    <3> QED
      BY <3>1, <3>2, <3>3 DEF RequestStays, SameRequest
  <2> QED
    BY <1>3, <2>1, <2>2, <2>3, StepKinds
<1> QED
  BY <1>1, <1>2, <1>3 DEF Next

LEMMA UnpaidStep == Typed /\ UnpaidUntilSent /\ [Next]_vars => UnpaidUntilSent'
BY RequestsStay DEF RequestStays, UnpaidUntilSent

\* A user who has overdrawn by endowing an account counts as such for ever.
LEMMA OverdrawnStays ==
    ASSUME Typed, Typed', UnpaidUntilSent, [Next]_vars, NEW u \in Users, Overdrawn(u)
    PROVE  Overdrawn(u)'
<1>1. PICK t \in Requests : /\ req[t].kind = "adminCreateUser"
                            /\ req[t].actor = u
                            /\ paid[t] > 0
  BY DEF Overdrawn
<1>2. req[t].pc # "idle"
  BY <1>1 DEF UnpaidUntilSent
<1>3. paid[t] \in Nat /\ paid'[t] \in Nat
  BY DEF Typed
<1>4. paid'[t] > 0 /\ req'[t].kind = "adminCreateUser" /\ req'[t].actor = u
  BY <1>1, <1>2, <1>3, RequestsStay DEF RequestStays
<1> QED
  BY <1>4 DEF Overdrawn

\* A funded request does not take an image below zero.
LEMMA FundedWrite ==
    ASSUME NEW q \in Handler, NEW u \in Users, Funded(q), q.seen[u] >= 0
    PROVE  q.seen[u] + Delta(q, u) >= 0
<1>1. Total(q) \in Nat /\ q.seen[u] \in Int
  BY RequestArithmetic DEF Handler
<1>2. CASE Pays(q, u)
  <2>1. Total(q) = 0 \/ q.seen[u] >= Total(q)
    BY <1>2 DEF Funded
  <2> QED
    BY <1>1, <1>2, <2>1 DEF Delta
<1>3. CASE ~Pays(q, u)
  BY <1>1, <1>3 DEF Delta
<1> QED
  BY <1>2, <1>3

\* Whether a request is funded depends on the request and its images alone.
LEMMA FundedSame ==
    ASSUME NEW p, NEW q, SameRequest(p, q), Funded(q)
    PROVE  Funded(p)
BY DEF SameRequest, Funded, Pays, Total

ArrivedStep(s) ==
    IsActive(req'[s]) =>
        /\ req'[s].kind \in Kinds
        /\ req'[s].price \in Prices
        /\ req'[s].count \in Counts \cup {1}

\* What a handler serves is what the client sent.
LEMMA ArrivedAsSentStep ==
    Typed /\ ArrivedAsSent /\ [Next]_vars => ArrivedAsSent'
<1> SUFFICES ASSUME Typed, ArrivedAsSent, [Next]_vars, NEW s \in Requests
             PROVE  ArrivedStep(s)
  BY DEF ArrivedAsSent, ArrivedStep
<1>1. ASSUME req'[s] = req[s] PROVE ArrivedStep(s)
  BY <1>1 DEF ArrivedAsSent, ArrivedStep
<1>2. ASSUME IsActive(req[s]), SameRequest(req'[s], req[s]) PROVE ArrivedStep(s)
  BY <1>2 DEF ArrivedAsSent, ArrivedStep, SameRequest
<1>3. CASE UNCHANGED vars \/ Served
  BY <1>1, <1>3 DEF vars, Served
<1>4. ASSUME NEW r \in Requests, Arrive(r) PROVE ArrivedStep(s)
  <2>1. PICK kind \in Kinds, actor \in Users, target \in Users, price \in Prices,
             count \in Counts \cup {1} :
               Authenticate(r, kind, actor, target, price, count)
    BY <1>4 DEF Arrive
  <2>2. CASE s = r
    <3>1. req'[r].kind = kind /\ req'[r].price = price /\ req'[r].count = count
      BY <2>1 DEF Authenticate, Typed
    <3> QED
      BY <2>2, <3>1 DEF ArrivedStep
  <2>3. CASE s # r
    BY <2>1, <2>3, <1>1 DEF Authenticate, Typed
  <2> QED
    BY <2>2, <2>3
<1>5. ASSUME NEW r \in Requests, Progress(r) \/ Kill(r) PROVE ArrivedStep(s)
  <2>1. CASE Approve(r)
    <3>1. CASE s = r
      <4>1. IsActive(req[r])
        BY <2>1 DEF Approve, IsActive
      <4>2. /\ req'[r].kind = req[r].kind /\ req'[r].price = req[r].price
            /\ req'[r].count = req[r].count
        BY <2>1 DEF Approve, Typed, Handler
      <4> QED
        BY <3>1, <4>1, <4>2 DEF ArrivedAsSent, ArrivedStep
    <3> QED
      BY <2>1, <3>1, <1>1 DEF Approve, Typed
  <2>2. CASE \E u \in Users : FlushRow(r, u)
    BY <2>2, <1>1 DEF FlushRow
  <2>3. CASE SignalQueued(r) \/ RollbackStep(r) \/ CommitStep(r)
    <3>1. IsActive(req[r])
      BY <2>3 DEF SignalQueued, RollbackStep, CommitStep, Flushed, IsActive
    <3>2. SameRequest(req'[r], req[r]) /\ \A t \in Requests \ {r} : req'[t] = req[t]
      BY <2>3, GotoType, AnswerType DEF SignalQueued, RollbackStep, CommitStep
    <3> QED
      BY <3>1, <3>2, <1>1, <1>2
  <2> QED
    BY <1>5, <2>1, <2>2, <2>3, StepKinds
<1> QED
  BY <1>3, <1>4, <1>5 DEF Next

FundedStep(s) ==
    /\ \A u \in Users : req'[s].seen[u] < 0 => Overdrawn(u)
    /\ req'[s].pc \in {"dirty", "signalled"} =>
           req'[s].kind = "adminCreateUser" \/ Funded(req'[s])

\* Before it may commit, a transaction has checked the image it writes back, or
\* is an admin's.
LEMMA FundedImages ==
    Typed /\ Typed' /\ UnpaidUntilSent /\ ImagesAreFunded /\ OverdrawnByAdminsOnly
      /\ [Next]_vars => ImagesAreFunded'
<1> SUFFICES ASSUME Typed, Typed', UnpaidUntilSent, ImagesAreFunded,
                    OverdrawnByAdminsOnly, [Next]_vars
             PROVE  \A s \in Requests : FundedStep(s)
  BY OverdrawnStays DEF ImagesAreFunded, FundedStep
<1> SUFFICES ASSUME NEW s \in Requests PROVE FundedStep(s)
  OBVIOUS
<1>1. ASSUME req'[s] = req[s] PROVE FundedStep(s)
  BY <1>1 DEF ImagesAreFunded, FundedStep
<1>2. ASSUME SameRequest(req'[s], req[s]),
             req'[s].pc \in {"dirty", "signalled"} => req[s].pc \in {"dirty", "signalled"}
      PROVE  FundedStep(s)
  BY <1>2, FundedSame DEF ImagesAreFunded, FundedStep, SameRequest
<1>3. CASE UNCHANGED vars \/ Served
  BY <1>1, <1>3 DEF vars, Served
<1>4. ASSUME NEW r \in Requests, Arrive(r) PROVE FundedStep(s)
  <2>1. PICK kind \in Kinds, actor \in Users, target \in Users, price \in Prices,
             count \in Counts \cup {1} :
               Authenticate(r, kind, actor, target, price, count)
    BY <1>4 DEF Arrive
  <2>2. CASE s = r
    <3>1. /\ req'[r].seen = [u \in Users |-> IF u = actor THEN balance[u] ELSE 0]
          /\ req'[r].pc = "authenticated"
      BY <2>1 DEF Authenticate, Typed
    <3>2. \A u \in Users : req'[r].seen[u] < 0 => Overdrawn(u)
      BY <3>1 DEF OverdrawnByAdminsOnly
    <3> QED
      BY <2>2, <3>1, <3>2 DEF FundedStep
  <2>3. CASE s # r
    BY <2>1, <2>3, <1>1 DEF Authenticate, Typed
  <2> QED
    BY <2>2, <2>3
<1>5. ASSUME NEW r \in Requests, Progress(r) \/ Kill(r) PROVE FundedStep(s)
  <2>1. CASE Approve(r)
    <3> DEFINE q == req[r]
               p == req'[r]
    <3>1. CASE s = r
      <4>1. /\ q \in Handler /\ q.pc = "authenticated"
            /\ HasFunds(q, Loaded(q))
        BY <2>1 DEF Approve, Typed
      <4>2. /\ p.kind = q.kind /\ p.actor = q.actor /\ p.target = q.target
            /\ p.price = q.price /\ p.count = q.count /\ p.seen = Loaded(q)
        BY <2>1 DEF Approve, Typed, Handler
      <4>3. \A u \in Users : Loaded(q)[u] < 0 => Overdrawn(u)
        BY DEF Loaded, ImagesAreFunded, OverdrawnByAdminsOnly
      <4>4. q.kind # "adminCreateUser" =>
              \A u \in Users : Pays(q, u) => Total(q) = 0 \/ Loaded(q)[u] >= Total(q)
        BY <4>1 DEF HasFunds, Pays
      <4>5. Total(p) = Total(q) /\ \A u \in Users : Pays(p, u) = Pays(q, u)
        BY <4>2 DEF Total, Pays
      <4>6. p.kind # "adminCreateUser" => Funded(p)
        BY <4>2, <4>4, <4>5 DEF Funded
      <4> QED
        BY <3>1, <4>2, <4>3, <4>6 DEF FundedStep
    <3> QED
      BY <2>1, <3>1, <1>1 DEF Approve, Typed
  <2>2. CASE \E u \in Users : FlushRow(r, u)
    BY <2>2, <1>1 DEF FlushRow
  <2>3. CASE SignalQueued(r) \/ RollbackStep(r) \/ CommitStep(r)
    <3>1. SameRequest(req'[r], req[r]) /\ \A t \in Requests \ {r} : req'[t] = req[t]
      BY <2>3, GotoType, AnswerType DEF SignalQueued, RollbackStep, CommitStep
    <3>2. req'[r].pc \in {"dirty", "signalled"} => req[r].pc \in {"dirty", "signalled"}
      BY <2>3, GotoType, AnswerType
         DEF SignalQueued, RollbackStep, CommitStep, Flushed
    <3> QED
      BY <3>1, <3>2, <1>1, <1>2
  <2> QED
    BY <1>5, <2>1, <2>2, <2>3, StepKinds
<1> QED
  BY <1>3, <1>4, <1>5 DEF Next

\* A commit takes a row below zero only for an admin, or from an image below zero.
LEMMA OverdrawingCommit ==
    ASSUME Typed, Typed', UnpaidUntilSent, ImagesAreFunded, OverdrawnByAdminsOnly,
           [Next]_vars, NEW r \in Requests, CommitStep(r),
           NEW u \in Users, balance'[u] < 0
    PROVE  Overdrawn(u)'
<1> DEFINE q == req[r]
<1>1. PICK made \in Nat : Commit(r, made)
  BY DEF CommitStep
<1>2. q \in Handler /\ q.seen[u] \in Int /\ Total(q) \in Nat
  BY RequestArithmetic DEF Handler, Typed
<1>3. CASE balance'[u] = balance[u]
  BY <1>3, OverdrawnStays DEF OverdrawnByAdminsOnly
<1>4. CASE q.seen[u] < 0
  BY <1>4, OverdrawnStays DEF ImagesAreFunded
<1>5. CASE q.seen[u] >= 0 /\ balance'[u] = q.seen[u] + Delta(q, u)
  <2>1. ~Funded(q)
    <3>1. Funded(q) => q.seen[u] + Delta(q, u) >= 0
      BY <1>2, <1>5, FundedWrite
    <3>2. Delta(q, u) \in Int
      BY <1>2, RequestArithmetic
    <3> QED
      BY <1>2, <1>5, <3>1, <3>2
  <2>2. q.kind = "adminCreateUser"
    BY <2>1 DEF CommitStep, ImagesAreFunded
  <2>3. Delta(q, u) # 0 /\ Delta(q, u) \in Int
    BY <1>2, <1>5, RequestArithmetic
  <2>4. q.actor = u /\ Total(q) > 0
    BY <1>2, <2>2, <2>3 DEF Delta, Pays, Receives
  <2>5. paid'[r] > 0
    <3>1. Debit(q) = Total(q)
      BY <2>2 DEF Debit
    <3>2. paid[r] \in Nat /\ paid \in [Requests -> Nat]
      BY DEF Typed
    <3>3. paid' = [paid EXCEPT ![r] = @ + Debit(q)]
      BY <1>1 DEF Commit
    <3> QED
      BY <1>2, <2>4, <3>1, <3>2, <3>3
  <2>6. req'[r].kind = q.kind /\ req'[r].actor = q.actor
    BY GotoType, AnswerType DEF CommitStep, SameRequest
  <2> QED
    BY <2>2, <2>4, <2>5, <2>6 DEF Overdrawn
<1>6. balance'[u] = q.seen[u] + Delta(q, u) \/ balance'[u] = balance[u]
  BY <1>1, CommitRows
<1> QED
  BY <1>2, <1>3, <1>4, <1>5, <1>6

LEMMA BalanceStep ==
    Typed /\ Typed' /\ UnpaidUntilSent /\ ImagesAreFunded /\ OverdrawnByAdminsOnly
      /\ [Next]_vars => OverdrawnByAdminsOnly'
<1> SUFFICES ASSUME Typed, Typed', UnpaidUntilSent, ImagesAreFunded,
                    OverdrawnByAdminsOnly, [Next]_vars,
                    NEW u \in Users, balance'[u] < 0
             PROVE  Overdrawn(u)'
  BY DEF OverdrawnByAdminsOnly
<1>1. CASE balance' = balance
  BY <1>1, OverdrawnStays DEF OverdrawnByAdminsOnly
<1>2. ASSUME NEW r \in Requests, CommitStep(r) PROVE Overdrawn(u)'
  BY <1>2, OverdrawingCommit
<1>3. ASSUME NEW r \in Requests, Arrive(r) PROVE balance' = balance
  BY <1>3 DEF Arrive, Authenticate
<1>4. ASSUME NEW r \in Requests, Progress(r) \/ Kill(r), ~CommitStep(r)
      PROVE  balance' = balance
  BY <1>4, StepKinds
     DEF Approve, FlushRow, SignalQueued, RollbackStep, Rollback
<1> QED
  BY <1>1, <1>2, <1>3, <1>4 DEF Next, Served, vars

BillingInv ==
    /\ Typed
    /\ ArrivedAsSent
    /\ UnpaidUntilSent
    /\ ImagesAreFunded
    /\ OverdrawnByAdminsOnly

LEMMA BillingInvariant == Spec => []BillingInv
<1>1. Init => BillingInv
  <2>1. SUFFICES ASSUME Init
                 PROVE  /\ ArrivedAsSent /\ UnpaidUntilSent
                        /\ ImagesAreFunded /\ OverdrawnByAdminsOnly
    BY InitType DEF BillingInv
  <2>2. \A r \in Requests : req[r] = NotArrived /\ paid[r] = 0
    BY <2>1 DEF Init
  <2>3. NotArrived.pc = "idle" /\ \A u \in Users : NotArrived.seen[u] = 0
    BY DEF NotArrived
  <2>4. ArrivedAsSent /\ UnpaidUntilSent /\ ImagesAreFunded
    BY <2>2, <2>3 DEF ArrivedAsSent, UnpaidUntilSent, ImagesAreFunded, IsActive
  <2>5. OverdrawnByAdminsOnly
    BY <2>1, BalanceAssumption DEF Init, OverdrawnByAdminsOnly
  <2> QED
    BY <2>4, <2>5
<1>2. BillingInv /\ [Next]_vars => BillingInv'
  BY NextType, ArrivedAsSentStep, UnpaidStep, FundedImages, BalanceStep DEF BillingInv
<1> QED
  BY <1>1, <1>2, PTL DEF Spec

\* No interleaving of handlers, lost updates included, takes a balance below
\* zero, except that of an admin or owner who endowed an account.
THEOREM NoOverdraft == Spec => []OverdrawnByAdminsOnly
<1>1. BillingInv => OverdrawnByAdminsOnly
  BY DEF BillingInv
<1> QED
  BY <1>1, BillingInvariant, PTL

-----------------------------------------------------------------------------
(* Refinement of the token ledger.                                         *)

\* The amounts of the ledger that KeyBilling instantiates it with.
Amounts == {p * n : p \in Prices, n \in Counts \cup {1}}

\* A commit that overwrites no stale image adds its amounts to what is there.
LEMMA FreshCommit ==
    ASSUME Typed, FreshImages, NEW r \in Requests, CommitStep(r), clobbered' = {}
    PROVE  \A u \in Users : /\ balance'[u] = balance[u] + Delta(req[r], u)
                            /\ ledger'[u] = ledger[u] + Delta(req[r], u)
                            /\ Delta(req[r], u) # 0 => req[r].seen[u] = balance[u]
<1> DEFINE q == req[r]
<1>1. PICK made \in Nat : Commit(r, made)
  BY DEF CommitStep
<1>2. IsActive(q)
  BY DEF CommitStep, IsActive
<1> SUFFICES ASSUME NEW u \in Users
             PROVE  /\ balance'[u] = balance[u] + Delta(q, u)
                    /\ ledger'[u] = ledger[u] + Delta(q, u)
                    /\ Delta(q, u) # 0 => q.seen[u] = balance[u]
  OBVIOUS
<1>3. u \in Touched(q) => u \in fresh[r]
  BY <1>1, CommitRows
<1>4. u \in Touched(q) => q.seen[u] = balance[u]
  BY <1>2, <1>3 DEF FreshImages
<1>5. balance[u] \in Int
  BY DEF Typed
<1>6. Delta(q, u) # 0 => u \in Touched(q)
  BY DEF Touched
<1> QED
  BY <1>1, <1>4, <1>5, <1>6, CommitRows

\* Such a commit is one step of the ledger, or changes nothing.
LEMMA CommitIsLedgerStep ==
    ASSUME Typed, Typed', FreshImages, ArrivedAsSent, ImagesAreFunded,
           NEW r \in Requests, CommitStep(r), clobbered' = {},
           req[r].kind # "adminCreateUser"
    PROVE  Ledger!Next \/ UNCHANGED <<balance, ledger>>
<1> DEFINE q == req[r]
           a == Total(q)
<1>0. q.kind # "adminCreateUser"
  OBVIOUS
<1>1. q \in Handler /\ a \in Nat /\ Funded(q)
  BY <1>0, RequestArithmetic DEF Typed, CommitStep, ImagesAreFunded
<1>2. a \in Amounts
  BY DEF CommitStep, IsActive, ArrivedAsSent, Total, Amounts
<1>3. q.actor \in Users /\ q.target \in Users
  BY <1>1 DEF Handler
<1>4. \A u \in Users : /\ balance'[u] = balance[u] + Delta(q, u)
                       /\ ledger'[u] = ledger[u] + Delta(q, u)
                       /\ Delta(q, u) # 0 => q.seen[u] = balance[u]
  BY FreshCommit
<1>5. /\ balance \in [Users -> Int] /\ balance' \in [Users -> Int]
      /\ ledger \in [Users -> Int] /\ ledger' \in [Users -> Int]
  BY DEF Typed
<1>6. ASSUME NEW changes \in [Users -> Int], \A u \in Users : changes[u] = Delta(q, u)
      PROVE  Ledger!Entered(changes)
  <2>1. balance' = [u \in Users |-> balance[u] + changes[u]]
    BY <1>4, <1>5, <1>6
  <2>2. ledger' = [u \in Users |-> ledger[u] + changes[u]]
    BY <1>4, <1>5, <1>6
  <2> QED
    BY <2>1, <2>2 DEF Ledger!Entered
<1>7. ASSUME NEW u \in Users, Pays(q, u), Delta(q, u) = -a, a # 0
      PROVE  balance[u] >= a
  <2>1. q.seen[u] >= a
    BY <1>1, <1>7 DEF Funded
  <2> QED
    BY <1>1, <1>4, <1>7, <2>1
<1>8. CASE \A u \in Users : Delta(q, u) = 0
  BY <1>4, <1>5, <1>8
<1>9. CASE q.kind = "mint" /\ a # 0
  <2> DEFINE changes == [u \in Users |-> IF u = q.target THEN a ELSE 0]
  <2>1. \A u \in Users : changes[u] = Delta(q, u)
    BY <1>1, <1>9 DEF Delta, Pays, Receives
  <2>2. changes \in [Users -> Int]
    BY <1>1
  <2>3. Ledger!Grant(q.target, a)
    BY <1>6, <2>1, <2>2 DEF Ledger!Grant
  <2> QED
    BY <1>2, <1>3, <2>3 DEF Ledger!Next, Amounts
<1>10. CASE q.kind = "topup" /\ q.actor # q.target /\ a # 0
  <2> DEFINE changes == [u \in Users |-> IF u = q.actor THEN -a
                                         ELSE IF u = q.target THEN a ELSE 0]
  <2>1. \A u \in Users : changes[u] = Delta(q, u)
    BY <1>1, <1>10 DEF Delta, Pays, Receives
  <2>2. changes \in [Users -> Int]
    BY <1>1
  <2>3. balance[q.actor] >= a
    <3>1. Pays(q, q.actor) /\ Delta(q, q.actor) = -a
      BY <1>1, <1>3, <1>10 DEF Delta, Pays, Receives
    <3> QED
      BY <1>3, <1>7, <1>10, <3>1
  <2>4. Ledger!Transfer(q.actor, q.target, a)
    BY <1>6, <1>10, <2>1, <2>2, <2>3 DEF Ledger!Transfer
  <2> QED
    BY <1>2, <1>3, <2>4 DEF Ledger!Next, Amounts
<1>11. CASE q.kind \notin {"mint", "topup"} /\ a # 0
  <2> DEFINE payer == IF q.kind = "deduct" THEN q.target ELSE q.actor
             changes == [u \in Users |-> IF u = payer THEN -a ELSE 0]
  <2>1. payer \in Users /\ Pays(q, payer)
    BY <1>3, <1>11 DEF Pays
  <2>2. \A u \in Users : changes[u] = Delta(q, u)
    BY <1>1, <1>11 DEF Delta, Pays, Receives
  <2>3. changes \in [Users -> Int]
    BY <1>1
  <2>4. balance[payer] >= a
    BY <1>7, <1>11, <2>1, <2>2
  <2>5. Ledger!Spend(payer, a)
    BY <1>6, <2>2, <2>3, <2>4 DEF Ledger!Spend
  <2> QED
    <3>1. \E amount \in Amounts, u \in Users : Ledger!Spend(u, amount)
      BY <1>2, <2>1, <2>5
    <3> QED
      BY <3>1 DEF Ledger!Next, Amounts
<1>12. (a = 0 \/ (q.kind = "topup" /\ q.actor = q.target))
         => \A u \in Users : Delta(q, u) = 0
  BY <1>1 DEF Delta, Pays, Receives
<1> QED
  BY <1>8, <1>9, <1>10, <1>11, <1>12

\* An admin's commit that charges nothing changes no balance.
LEMMA FreeEndowment ==
    ASSUME Typed, Typed', FreshImages,
           NEW r \in Requests, CommitStep(r), clobbered' = {},
           req[r].kind = "adminCreateUser", paid'[r] = paid[r]
    PROVE  UNCHANGED <<balance, ledger>>
<1> DEFINE q == req[r]
<1>1. q \in Handler /\ paid[r] \in Nat /\ Total(q) \in Nat
  BY RequestArithmetic DEF Typed
<1>2. paid'[r] = paid[r] + Debit(q)
  BY DEF CommitStep, Commit, Typed
<1>3. Total(q) = 0
  BY <1>1, <1>2 DEF Debit
<1>4. \A u \in Users : Delta(q, u) = 0
  BY <1>3 DEF Delta
<1>5. \A u \in Users : /\ balance'[u] = balance[u] + Delta(q, u)
                       /\ ledger'[u] = ledger[u] + Delta(q, u)
  BY FreshCommit
<1>6. /\ balance \in [Users -> Int] /\ balance' \in [Users -> Int]
      /\ ledger \in [Users -> Int] /\ ledger' \in [Users -> Int]
  BY DEF Typed
<1>7. \A u \in Users : balance'[u] = balance[u] /\ ledger'[u] = ledger[u]
  BY <1>4, <1>5, <1>6
<1> QED
  BY <1>6, <1>7

\* What the refinement rests on: the inductive invariant and fresh images.
RefinementInv == BillingInv /\ FreshImages

LEMMA LedgerInvariant == Spec => []RefinementInv
<1>1. Init => FreshImages
  BY DEF Init, FreshImages
<1>2. BillingInv /\ FreshImages /\ [Next]_vars => FreshImages'
  BY FreshStep DEF BillingInv
<1> QED
  BY <1>1, <1>2, BillingInvariant, PTL DEF Spec, RefinementInv

\* A step that loses no update is a step of the ledger, or an admin's endowment.
LEMMA RefinementStep ==
    RefinementInv /\ RefinementInv' /\ [Next]_vars /\ clobbered' = {} =>
        \/ Ledger!Next
        \/ AdminEndows
        \/ UNCHANGED <<balance, ledger>>
<1> SUFFICES ASSUME RefinementInv, RefinementInv', [Next]_vars, clobbered' = {},
                    ~AdminEndows
             PROVE  Ledger!Next \/ UNCHANGED <<balance, ledger>>
  OBVIOUS
<1> USE DEF RefinementInv
<1>1. CASE UNCHANGED vars \/ Served
  BY <1>1 DEF vars, Served
<1>2. ASSUME NEW r \in Requests, Arrive(r) PROVE UNCHANGED <<balance, ledger>>
  BY <1>2 DEF Arrive, Authenticate
<1>3. ASSUME NEW r \in Requests, Progress(r) \/ Kill(r), ~CommitStep(r)
      PROVE  UNCHANGED <<balance, ledger>>
  BY <1>3, StepKinds
     DEF Approve, FlushRow, SignalQueued, RollbackStep, Rollback
<1>4. ASSUME NEW r \in Requests, CommitStep(r)
      PROVE  Ledger!Next \/ UNCHANGED <<balance, ledger>>
  <2>1. CASE req[r].kind = "adminCreateUser"
    BY <1>4, <2>1, FreeEndowment DEF BillingInv, AdminEndows
  <2>2. CASE req[r].kind # "adminCreateUser"
    BY <1>4, <2>2, CommitIsLedgerStep DEF BillingInv
  <2> QED
    BY <2>1, <2>2
<1>5. \/ UNCHANGED vars \/ Served
      \/ \E r \in Requests : Arrive(r) \/ Progress(r) \/ Kill(r)
  BY DEF Next
<1>6. CASE \E r \in Requests : Arrive(r) \/ Progress(r) \/ Kill(r)
  <2>1. PICK r \in Requests : Arrive(r) \/ Progress(r) \/ Kill(r)
    BY <1>6
  <2> QED
    BY <2>1, <1>2, <1>3, <1>4
<1> QED
  BY <1>1, <1>5, <1>6

\* However requests of any kind interleave, fail or are killed, until the first
\* lost update of any row the balances change only as the token ledger allows: payments,
\* grants and transfers are atomic, funded and recorded, admins' gifts aside.
THEOREM FollowsLedger == Spec => LedgerKept
<1>1. Init => Ledger!Init
  BY DEF Init, Ledger!Init
<1>2. RefinementInv /\ RefinementInv' /\ [Next]_vars
        => [clobbered' = {} => Ledger!Next \/ AdminEndows]_(Ledger!ledgerVars)
  <2> SUFFICES ASSUME RefinementInv, RefinementInv', [Next]_vars, clobbered' = {}
               PROVE  \/ Ledger!Next
                      \/ AdminEndows
                      \/ UNCHANGED <<balance, ledger>>
    BY DEF Ledger!ledgerVars
  <2> QED
    BY RefinementStep
<1> QED
  BY <1>1, <1>2, LedgerInvariant, PTL DEF Spec, LedgerKept

\* Only a commit of its own charges a request.
LEMMA OnlyCommitsCharge ==
    ASSUME Typed, [Next]_vars, NEW r \in Requests, paid'[r] # paid[r]
    PROVE  CommitStep(r)
<1>1. ASSUME NEW s \in Requests, Arrive(s) PROVE FALSE
  BY <1>1 DEF Arrive, Authenticate
<1>2. ASSUME NEW s \in Requests, Progress(s) \/ Kill(s) PROVE CommitStep(r)
  <2>1. CommitStep(s)
    BY <1>2, StepKinds DEF Approve, FlushRow, SignalQueued, RollbackStep, Rollback
  <2>2. paid' = [paid EXCEPT ![s] = @ + Debit(req[s])]
    BY <2>1 DEF CommitStep, Commit
  <2> QED
    BY <2>1, <2>2 DEF Typed
<1>3. CASE UNCHANGED vars \/ Served
  BY <1>3 DEF vars, Served
<1> QED
  BY <1>1, <1>2, <1>3 DEF Next

\* Where no admin endows accounts and no update is lost, the handlers implement
\* the token ledger, step for step.
THEOREM ImplementsLedger ==
    ASSUME "adminCreateUser" \notin Kinds
    PROVE  Spec /\ [](clobbered = {}) => LedgerSpec
<1>1. Init => Ledger!Init
  BY DEF Init, Ledger!Init
<1>2. RefinementInv /\ RefinementInv' /\ (clobbered = {})' /\ [Next]_vars
        => [Ledger!Next]_(Ledger!ledgerVars)
  <2> SUFFICES ASSUME RefinementInv, RefinementInv', clobbered' = {}, [Next]_vars
               PROVE  Ledger!Next \/ UNCHANGED <<balance, ledger>>
    BY DEF Ledger!ledgerVars
  <2>1. CASE AdminEndows
    <3>1. PICK r \in Requests : req[r].kind = "adminCreateUser" /\ paid'[r] # paid[r]
      BY <2>1 DEF AdminEndows
    <3>2. CommitStep(r)
      BY <3>1, OnlyCommitsCharge DEF RefinementInv, BillingInv
    <3>3. IsActive(req[r])
      BY <3>2 DEF CommitStep, IsActive
    <3> QED
      BY <3>1, <3>3 DEF RefinementInv, BillingInv, ArrivedAsSent
  <2> QED
    BY <2>1, RefinementStep
<1> QED
  BY <1>1, <1>2, LedgerInvariant, PTL DEF Spec, LedgerSpec, Ledger!Spec

-----------------------------------------------------------------------------
(* What is charged and what is bought.                                     *)

\* Nothing is charged or made before the commit.
UnchargedUntilCommit ==
    \A r \in Requests : req[r].pc \in {"idle", "authenticated", "dirty", "signalled"} =>
        paid[r] = 0 /\ goods[r] = 0

\* Goods are those of a request charged once for all it asked for, and a charge for
\* goods bought some.
GoodsAsCharged ==
    \A r \in Requests :
        /\ goods[r] > 0 => /\ goods[r] <= req[r].count
                           /\ paid[r] = Debit(req[r]) /\ req[r].kind \in GoodsKinds
        /\ paid[r] > 0 /\ req[r].kind \in GoodsKinds => goods[r] > 0

\* The event "key.created" is signalled for the key of create_key.
SignalledForKey == \A r \in Requests : req[r].pc = "signalled" => req[r].kind = "createKey"

PurchaseInv ==
    Typed /\ ArrivedAsSent /\ SignalledForKey /\ UnchargedUntilCommit /\ GoodsAsCharged

\* A commit makes at least one of the goods and at most all of them; a request for
\* none makes none.
LEMMA CommitMakes ==
    ASSUME Typed, ArrivedAsSent, SignalledForKey, NEW r \in Requests, Progress(r) \/ Kill(r)
    PROVE  \/ Approve(r) \/ (\E u \in Users : FlushRow(r, u)) \/ SignalQueued(r) \/ RollbackStep(r)
           \/ /\ CommitStep(r)
              /\ \E made \in Nat :
                    /\ Commit(r, made)
                    /\ req[r].kind \in GoodsKinds => made >= 1 /\ made <= req[r].count
                    /\ req[r].kind \notin GoodsKinds => made = 0
<1>1. ASSUME CommitStep(r) PROVE req[r].count \in Nat /\ req[r].count >= 1
  <2>1. IsActive(req[r])
    BY <1>1 DEF CommitStep, IsActive
  <2>2. req[r].count \in Counts \cup {1}
    BY <2>1 DEF ArrivedAsSent
  <2>3. CASE req[r].count \in Counts
    <3>1. \A n \in Counts : n \in Nat /\ n # 0
      BY CountsAssumption
    <3>2. \A n \in Nat : n # 0 => n >= 1
      OBVIOUS
    <3> QED
      BY <2>3, <3>1, <3>2
  <2>4. CASE req[r].count = 1
    BY <2>4
  <2> QED
    BY <2>2, <2>3, <2>4
<1>2. CASE SignalStored(r) \/ CreateKeyCommits(r) \/ UserSetupCommits(r)
  <2>1. Commit(r, 1) /\ req[r].kind \in GoodsKinds
    BY <1>2 DEF SignalStored, CreateKeyCommits, UserSetupCommits, Flushed, SignalledForKey,
                GoodsKinds, KeyKinds, FreeKinds
  <2>2. CommitStep(r)
    BY <1>2 DEF SignalStored, CreateKeyCommits, UserSetupCommits, CommitStep, Flushed
  <2> QED
    BY <1>1, <2>1, <2>2
<1>3. CASE \E made \in Counts : BulkCreateCommits(r, made)
  <2>1. PICK made \in Counts : BulkCreateCommits(r, made)
    BY <1>3
  <2>2. made \in Nat /\ made >= 1
    BY CountsAssumption
  <2>3. CommitStep(r)
    BY <2>1, <2>2 DEF BulkCreateCommits, CommitStep, Flushed
  <2>4. made <= req[r].count /\ Commit(r, made)
    BY <1>1, <2>1, <2>3 DEF BulkCreateCommits
  <2>5. req[r].kind \in GoodsKinds
    BY <2>1 DEF BulkCreateCommits, Flushed, GoodsKinds, KeyKinds
  <2> QED
    BY <2>2, <2>3, <2>4, <2>5
<1>4. CASE HandlerCommits(r)
  <2>1. PICK kind \in OneCommitKinds :
          /\ Flushed(r, kind)
          /\ Answered(r)
          /\ Commit(r, IF kind \in GoodsKinds THEN 1 ELSE 0)
    BY <1>4 DEF HandlerCommits
  <2> DEFINE made == IF kind \in GoodsKinds THEN 1 ELSE 0
  <2>2. made \in Nat /\ Commit(r, made) /\ req[r].kind = kind
    BY <2>1 DEF Flushed
  <2>3. CommitStep(r)
    BY <2>1, <2>2 DEF CommitStep, Flushed
  <2> QED
    BY <1>1, <2>2, <2>3
<1>5. CASE Kill(r) \/ Refuse(r) \/ SignalNotStored(r)
  BY <1>5 DEF Kill, Refuse, SignalNotStored, RollbackStep, Flushed, IsActive, Answered
<1>6. CASE CreateKeyReturns(r) \/ UserSetupEnds(r) \/ HandlerFails(r)
  BY <1>6 DEF CreateKeyReturns, UserSetupEnds, HandlerFails, RollbackStep, IsActive, Answered
<1> QED
  BY <1>2, <1>3, <1>4, <1>5, <1>6 DEF Progress

LEMMA PurchaseStep == PurchaseInv /\ [Next]_vars =>
    SignalledForKey' /\ UnchargedUntilCommit' /\ GoodsAsCharged'
<1> SUFFICES ASSUME PurchaseInv, [Next]_vars, NEW t \in Requests
             PROVE  /\ req'[t].pc = "signalled" => req'[t].kind = "createKey"
                    /\ req'[t].pc \in {"idle", "authenticated", "dirty", "signalled"} =>
                          paid'[t] = 0 /\ goods'[t] = 0
                    /\ goods'[t] > 0 => /\ goods'[t] <= req'[t].count
                                        /\ paid'[t] = Debit(req'[t]) /\ req'[t].kind \in GoodsKinds
                    /\ paid'[t] > 0 /\ req'[t].kind \in GoodsKinds => goods'[t] > 0
  BY DEF SignalledForKey, UnchargedUntilCommit, GoodsAsCharged, Debit, Total
<1> DEFINE Bought == /\ goods'[t] > 0 => /\ goods'[t] <= req'[t].count
                                         /\ paid'[t] = Debit(req'[t]) /\ req'[t].kind \in GoodsKinds
                     /\ paid'[t] > 0 /\ req'[t].kind \in GoodsKinds => goods'[t] > 0
           Early == /\ req'[t].pc = "signalled" => req'[t].kind = "createKey"
                    /\ req'[t].pc \in {"idle", "authenticated", "dirty", "signalled"} =>
                          paid'[t] = 0 /\ goods'[t] = 0
<1>1. /\ Typed /\ ArrivedAsSent /\ SignalledForKey
      /\ paid[t] \in Nat /\ goods[t] \in Nat /\ paid \in [Requests -> Nat] /\ goods \in [Requests -> Nat]
  BY DEF PurchaseInv, Typed
<1>2. /\ req[t].pc = "signalled" => req[t].kind = "createKey"
      /\ req[t].pc \in {"idle", "authenticated", "dirty", "signalled"} => paid[t] = 0 /\ goods[t] = 0
      /\ goods[t] > 0 => /\ goods[t] <= req[t].count
                         /\ paid[t] = Debit(req[t]) /\ req[t].kind \in GoodsKinds
      /\ paid[t] > 0 /\ req[t].kind \in GoodsKinds => goods[t] > 0
  BY DEF PurchaseInv, SignalledForKey, UnchargedUntilCommit, GoodsAsCharged
\* A request that is charged nothing by the step and stays the same request.
<1>3. ASSUME paid'[t] = paid[t], goods'[t] = goods[t], req'[t].kind = req[t].kind,
             req'[t].price = req[t].price, req'[t].count = req[t].count
      PROVE  Bought
  <2>1. Debit(req'[t]) = Debit(req[t])
    BY <1>3 DEF Debit, Total
  <2> QED
    BY <1>2, <1>3, <2>1
<1>4. ASSUME paid' = paid, goods' = goods, req'[t] = req[t]
      PROVE  Early /\ Bought
  BY <1>2, <1>4
<1>5. CASE UNCHANGED vars \/ Served
  BY <1>4, <1>5 DEF vars, Served
<1>6. ASSUME NEW r \in Requests, Arrive(r) PROVE Early /\ Bought
  <2>1. PICK kind \in Kinds, actor \in Users, target \in Users, price \in Prices,
             count \in Counts \cup {1} :
               Authenticate(r, kind, actor, target, price, count)
    BY <1>6 DEF Arrive
  <2>2. paid' = paid /\ goods' = goods /\ req[r].pc = "idle"
    BY <2>1 DEF Authenticate
  <2>3. CASE t = r
    <3>1. req'[r].pc = "authenticated"
      BY <1>1, <2>1 DEF Authenticate, Typed
    <3> QED
      BY <1>2, <2>2, <2>3, <3>1
  <2>4. CASE t # r
    <3>1. req'[t] = req[t]
      BY <1>1, <2>1, <2>4 DEF Authenticate, Typed
    <3> QED
      BY <1>4, <2>2, <3>1
  <2> QED
    BY <2>3, <2>4
<1>7. ASSUME NEW r \in Requests, Progress(r) \/ Kill(r) PROVE Early /\ Bought
  <2>1. CASE Approve(r)
    <3>1. /\ req'[t].kind = req[t].kind /\ req'[t].price = req[t].price
          /\ req'[t].count = req[t].count
          /\ req'[t].pc = IF t = r THEN "dirty" ELSE req[t].pc
      BY <1>1, <2>1 DEF Approve, Typed, Handler
    <3>2. paid' = paid /\ goods' = goods /\ req[r].pc = "authenticated"
      BY <2>1 DEF Approve
    <3> QED
      BY <1>2, <1>3, <3>1, <3>2
  <2>2. CASE \E u \in Users : FlushRow(r, u)
    BY <1>4, <2>2 DEF FlushRow
  <2>3. CASE SignalQueued(r) \/ RollbackStep(r)
    <3>1. paid' = paid /\ goods' = goods
      BY <2>3 DEF SignalQueued, RollbackStep, Rollback
    <3>2. /\ SameRequest(req'[r], req[r]) /\ \A s \in Requests \ {r} : req'[s] = req[s]
          /\ \/ req'[r].pc \in {"undone", "killed", "done"}
             \/ req'[r].pc = "signalled" /\ req[r].pc = "dirty" /\ req[r].kind = "createKey"
      BY <1>1, <2>3, GotoType, AnswerType DEF SignalQueued, RollbackStep, Flushed
    <3>3. CASE t # r
      BY <1>4, <3>1, <3>2, <3>3
    <3>4. CASE t = r
      <4>1. req'[t].kind = req[t].kind /\ req'[t].price = req[t].price /\ req'[t].count = req[t].count
        BY <3>2, <3>4 DEF SameRequest
      <4>2. Bought
        BY <1>3, <3>1, <4>1
      <4>3. Early
        BY <1>2, <3>1, <3>2, <3>4, <4>1
      <4> QED
        BY <4>2, <4>3
    <3> QED
      BY <3>3, <3>4
  <2>4. ASSUME CommitStep(r), NEW made \in Nat, Commit(r, made),
               req[r].kind \in GoodsKinds => made >= 1 /\ made <= req[r].count,
               req[r].kind \notin GoodsKinds => made = 0
        PROVE  Early /\ Bought
    <3>1. /\ paid' = [paid EXCEPT ![r] = @ + Debit(req[r])]
          /\ goods' = [goods EXCEPT ![r] = made]
      BY <2>4 DEF Commit
    <3>2. /\ SameRequest(req'[r], req[r]) /\ \A s \in Requests \ {r} : req'[s] = req[s]
          /\ req'[r].pc \in {"early", "endowed", "done"}
      BY <1>1, <2>4, GotoType, AnswerType DEF CommitStep
    <3>3. CASE t # r
      <4>1. paid'[t] = paid[t] /\ goods'[t] = goods[t] /\ req'[t] = req[t]
        BY <1>1, <3>1, <3>2, <3>3
      <4> QED
        BY <1>2, <1>3, <4>1
    <3>4. CASE t = r
      <4>1. /\ req'[t].kind = req[t].kind /\ req'[t].price = req[t].price
            /\ req'[t].count = req[t].count
        BY <3>2, <3>4 DEF SameRequest
      <4>2. Debit(req'[t]) = Debit(req[t]) /\ Debit(req[t]) \in Nat
        BY <1>1, <4>1, RequestArithmetic DEF Debit, Total, Typed
      <4>3. paid[t] = 0
        BY <1>2, <2>4, <3>4 DEF CommitStep
      <4>4. paid'[t] = Debit(req[t]) /\ goods'[t] = made
        BY <1>1, <3>1, <3>4, <4>2, <4>3
      <4>5. Early
        BY <3>2, <3>4
      <4>6. Bought
        BY <2>4, <3>4, <4>1, <4>2, <4>4
      <4> QED
        BY <4>5, <4>6
    <3> QED
      BY <3>3, <3>4
  <2> QED
    BY <1>1, <1>7, <2>1, <2>2, <2>3, <2>4, CommitMakes
<1> QED
  BY <1>5, <1>6, <1>7 DEF Next

LEMMA PurchaseInvariant == Spec => []PurchaseInv
<1>1. Init => PurchaseInv
  <2>1. SUFFICES ASSUME Init
                 PROVE  ArrivedAsSent /\ SignalledForKey /\ UnchargedUntilCommit /\ GoodsAsCharged
    BY InitType DEF PurchaseInv
  <2>2. \A r \in Requests : req[r].pc = "idle" /\ paid[r] = 0 /\ goods[r] = 0
    BY <2>1 DEF Init, NotArrived
  <2> QED
    BY <2>2 DEF ArrivedAsSent, SignalledForKey, UnchargedUntilCommit, GoodsAsCharged, IsActive
<1>2. PurchaseInv /\ [Next]_vars => PurchaseInv'
  <2> SUFFICES ASSUME PurchaseInv, [Next]_vars PROVE PurchaseInv'
    OBVIOUS
  <2>1. Typed' /\ ArrivedAsSent'
    BY NextType, ArrivedAsSentStep DEF PurchaseInv
  <2>2. SignalledForKey' /\ UnchargedUntilCommit' /\ GoodsAsCharged'
    BY PurchaseStep
  <2> QED
    BY <2>1, <2>2 DEF PurchaseInv
<1> QED
  BY <1>1, <1>2, PTL DEF Spec

\* Keys and accounts exist only where the debit that pays for all of them does:
\* no early commit, rollback, failure or kill leaves goods that were not paid for.
THEOREM GoodsPaidFor == Spec => []GoodsArePaid
<1>1. PurchaseInv => GoodsArePaid
  <2> SUFFICES ASSUME PurchaseInv, NEW r \in Requests, goods[r] > 0
               PROVE  paid[r] >= req[r].price * goods[r]
    BY DEF GoodsArePaid
  <2>1. req[r] \in Handler /\ goods[r] \in Nat
    BY DEF PurchaseInv, Typed
  <2>2. req[r].price \in Nat /\ req[r].count \in Nat
    BY <2>1 DEF Handler
  <2>3. goods[r] <= req[r].count /\ paid[r] = Debit(req[r]) /\ req[r].kind # "mint"
    BY DEF PurchaseInv, GoodsAsCharged, GoodsKinds, KeyKinds, FreeKinds
  <2>4. paid[r] = req[r].price * req[r].count
    BY <2>3 DEF Debit, Total
  <2>5. \A p, m, n \in Nat : m <= n => p * n >= p * m
    <3> TAKE p, m, n \in Nat
    <3> HAVE m <= n
    <3>1. n - m \in Nat /\ n = m + (n - m)
      OBVIOUS
    <3>2. p * (n - m) \in Nat /\ p * n = p * m + p * (n - m)
      BY <3>1
    <3> QED
      BY <3>2
  <2> QED
    BY <2>1, <2>2, <2>3, <2>4, <2>5
<1> QED
  BY <1>1, PurchaseInvariant, PTL

\* Whoever is charged for keys or an account gets at least one of them.
THEOREM ChargesBuyGoods == Spec => []ChargeBuysGoods
<1>1. PurchaseInv => ChargeBuysGoods
  BY DEF PurchaseInv, GoodsAsCharged, ChargeBuysGoods
<1> QED
  BY <1>1, PurchaseInvariant, PTL

\* A step charges at most one request, and none that was charged before: the early
\* commit of a stored webhook event is not repeated by create_key.
THEOREM ChargesAreSingle == Spec => ChargedOnce
<1>1. PurchaseInv /\ [Next]_vars =>
        [\A r \in Requests : paid'[r] # paid[r] =>
            paid[r] = 0 /\ \A s \in Requests \ {r} : paid'[s] = paid[s]]_vars
  <2> SUFFICES ASSUME PurchaseInv, [Next]_vars, NEW r \in Requests, paid'[r] # paid[r]
               PROVE  paid[r] = 0 /\ \A s \in Requests \ {r} : paid'[s] = paid[s]
    OBVIOUS
  <2>1. Typed /\ CommitStep(r)
    BY OnlyCommitsCharge DEF PurchaseInv
  <2>2. paid[r] = 0
    BY <2>1 DEF PurchaseInv, UnchargedUntilCommit, CommitStep
  <2>3. paid' = [paid EXCEPT ![r] = @ + Debit(req[r])]
    BY <2>1 DEF CommitStep, Commit
  <2> QED
    BY <2>1, <2>2, <2>3 DEF Typed
<1> QED
  BY <1>1, PurchaseInvariant, PTL DEF Spec, ChargedOnce
=============================================================================
