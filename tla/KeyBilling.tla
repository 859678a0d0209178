----------------------------- MODULE KeyBilling -----------------------------
(***************************************************************************)
(* The request handlers that spend or grant a user's tokens, and the       *)
(* PostgreSQL rows they share.                                             *)
(*                                                                         *)
(* A handler runs in a gunicorn thread with a SQLAlchemy session of its    *)
(* own.  It loads User rows into the session (seen), computes the new      *)
(* balance in Python, writes the absolute value back when the session is   *)
(* flushed, taking the row lock, and commits or rolls back.  Transactions  *)
(* are READ COMMITTED and nothing reads FOR UPDATE, so a row may change    *)
(* between a handler's read and its write.                                 *)
(*                                                                         *)
(* Kinds of request (constant Kinds, the ones a run lets clients send):    *)
(*   createKey, customKey, bulkCreate  the actor buys keys                 *)
(*   updateKey, resetKey   the actor would pay for a larger device limit,  *)
(*               or for unbinding the devices of a key                     *)
(*   deduct      the actor takes tokens from the target                    *)
(*   topup       a reseller gives own tokens to the target                 *)
(*   mint        an owner or admin gives new tokens to the target          *)
(*   createUser, adminCreateUser   the actor endows a new account          *)
(***************************************************************************)
EXTENDS Integers, FiniteSets

CONSTANTS
    Users,        \* primary keys of the User rows
    Requests,     \* the requests clients send, each served once
    Kinds,        \* which kinds of request arrive
    Prices,       \* prices and amounts a request may carry
    Counts,       \* how many keys one bulk request may ask for
    InitBalance,  \* token_balance of each user at the start
    Threads,      \* handlers that may run at once (gunicorn workers * threads)
    NoOne         \* no request: the row is not locked

AllKinds == {"createKey", "customKey", "bulkCreate", "updateKey", "resetKey",
             "deduct", "topup", "mint", "createUser", "adminCreateUser"}

ASSUME UsersAssumption == Users \subseteq Nat /\ Users # {}
ASSUME KindsAssumption == Kinds \subseteq AllKinds
ASSUME PricesAssumption == Prices \subseteq Nat
ASSUME CountsAssumption == Counts \subseteq Nat \ {0}
ASSUME BalanceAssumption == InitBalance \in [Users -> Nat]
ASSUME ThreadsAssumption == Threads \in Nat
ASSUME NoOneAssumption == NoOne \notin Requests

VARIABLES
    balance,    \* committed User.token_balance
    ledger,     \* per user, the signed sum of the committed TokenTransaction rows
    rowLock,    \* which request's open transaction has updated the User row
    req,        \* the handler of each request: program counter and session
    paid,       \* per request, the tokens of its committed debit rows
    goods,      \* per request, the keys (or accounts) committed for it
    fresh,      \* history: the loaded rows no one has overwritten since
    clobbered   \* history: the rows some commit overwrote from a stale image

vars == <<balance, ledger, rowLock, req, paid, goods, fresh, clobbered>>

-----------------------------------------------------------------------------
(* The request record and what its kind implies.                           *)

TargetKinds  == {"deduct", "topup", "mint"}
ManageKinds  == {"updateKey", "resetKey"}
KeyKinds     == {"createKey", "customKey", "bulkCreate"}
FreeKinds    == {"createUser", "adminCreateUser"}
GoodsKinds   == KeyKinds \cup FreeKinds

Steps == {"idle", "authenticated", "dirty", "signalled", "early", "undone",
          "endowed", "done", "killed"}

Handler == [pc: Steps, kind: AllKinds, actor: Users, target: Users,
            price: Nat, count: Nat, seen: [Users -> Int],
            answer: {"none", "ok", "error"}]

IsActive(q)   == q.pc \notin {"idle", "done", "killed"}
IsFinished(q) == q.pc \in {"done", "killed"}

Total(q) == q.price * q.count

\* deduct_balance takes from its target, every other paying kind from the actor.
Pays(q, u) ==
    \/ q.kind = "deduct" /\ u = q.target
    \/ q.kind \notin {"deduct", "mint"} /\ u = q.actor

Receives(q, u) == q.kind \in {"topup", "mint"} /\ u = q.target

\* What the handler does to the token_balance attributes.
Delta(q, u) == (IF Receives(q, u) THEN Total(q) ELSE 0)
             - (IF Pays(q, u) THEN Total(q) ELSE 0)

\* The TokenTransaction rows it adds: credits count up, debits down.
EntryOneSided(q, u) == IF Receives(q, u) THEN Total(q)
                       ELSE IF Pays(q, u) /\ q.kind # "topup" THEN -Total(q) ELSE 0
Entry(q, u) == IF Receives(q, u) /\ Pays(q, u) THEN 0
               ELSE IF Receives(q, u) THEN Total(q)
               ELSE IF Pays(q, u) THEN -Total(q) ELSE 0

DebitSigned(q)  == IF q.kind = "mint" THEN -Total(q) ELSE Total(q)
DebitOneUnit(q) == IF q.kind = "mint" THEN 0 ELSE q.price
Debit(q)        == IF q.kind = "mint" THEN 0 ELSE Total(q)

\* SQLAlchemy updates only the rows whose attribute really changed.
Touched(q) == {u \in Users : Delta(q, u) # 0}

LockedAll(r) == \A u \in Touched(req[r]) : rowLock[u] = r

-----------------------------------------------------------------------------
(* Effects on the database shared by several actions.                      *)

Released(r) == [u \in Users |-> IF rowLock[u] = r THEN NoOne ELSE rowLock[u]]

\* COMMIT: the flushed images become visible with the TokenTransaction rows.
Commit(r, made) ==
    LET q == req[r] IN
    /\ balance' = [u \in Users |-> IF u \in Touched(q)
                                   THEN q.seen[u] + Delta(q, u)
                                   ELSE balance[u]]
    /\ ledger' = [u \in Users |-> ledger[u] + Entry(q, u)]
    /\ paid' = [paid EXCEPT ![r] = @ + Debit(q)]
    /\ goods' = [goods EXCEPT ![r] = made]
    /\ rowLock' = Released(r)
    /\ clobbered' = clobbered \cup (Touched(q) \ fresh[r])
    /\ fresh' = [s \in Requests |-> fresh[s] \ Touched(q)]

\* ROLLBACK, by the handler, at teardown, or by the server for a lost client.
Rollback(r) ==
    /\ rowLock' = Released(r)
    /\ UNCHANGED <<balance, ledger, paid, goods, fresh, clobbered>>

Goto(r, pc)      == req' = [req EXCEPT ![r].pc = pc]
Answer(r, value) == req' = [req EXCEPT ![r].pc = "done", ![r].answer = value]

\* After a commit the handler logs the activity and builds the response from
\* the expired rows; a reload that fails turns the answer into an error.
Answered(r) == \E value \in {"ok", "error"} : Answer(r, value)

-----------------------------------------------------------------------------
(* The handlers.                                                           *)

\* The middleware loads current_user.
Authenticate(r, kind, actor, target, price, count) ==
    /\ req[r].pc = "idle"
    /\ Cardinality({s \in Requests : IsActive(req[s])}) < Threads
    /\ kind \in TargetKinds \/ target = actor
    /\ kind = "bulkCreate" \/ count = 1
    /\ req' = [req EXCEPT ![r] =
                 [pc |-> "authenticated", kind |-> kind, actor |-> actor,
                  target |-> target, price |-> price, count |-> count,
                  seen |-> [u \in Users |-> IF u = actor THEN balance[u] ELSE 0],
                  answer |-> "none"]]
    /\ fresh' = [fresh EXCEPT ![r] = {actor}]
    /\ UNCHANGED <<balance, ledger, rowLock, paid, goods, clobbered>>

\* The rows the handler reads before it decides: refresh(user) before buying,
\* the target of deduct and topup unless the session already holds it.
Reloads(q) ==
    CASE q.kind \in KeyKinds     -> {q.actor}
      [] q.kind \in TargetKinds  -> {q.target} \ {q.actor}
      [] OTHER                   -> {}

Loaded(q) == [u \in Users |-> IF u \in Reloads(q) THEN balance[u] ELSE q.seen[u]]

HasPrice(q) == q.kind \in FreeKinds \/ q.price > 0

\* Admins and owners endow new users without a check of their own balance.
HasFundsUnchecked(q, image) == \A u \in Users : Pays(q, u) => image[u] >= 0
HasFunds(q, image) ==
    \/ q.kind \in {"mint", "adminCreateUser"}
    \/ Total(q) = 0
    \/ \A u \in Users : Pays(q, u) => image[u] >= Total(q)

\* can_manage_key reads a name bound nowhere but in its docstring: it raises for
\* every user except owners and admins, who do not pay.
CanManage(q) == q.kind \notin ManageKinds

Approve(r) ==
    LET q == req[r] IN
    /\ q.pc = "authenticated"
    /\ CanManage(q)
    /\ HasPrice(q)
    /\ HasFunds(q, Loaded(q))
    /\ req' = [req EXCEPT ![r].pc = "dirty", ![r].seen = Loaded(q)]
    /\ fresh' = [fresh EXCEPT ![r] = @ \cup Reloads(q)]
    /\ UNCHANGED <<balance, ledger, rowLock, paid, goods, clobbered>>

Refuse(r) ==
    LET q == req[r] IN
    /\ q.pc = "authenticated"
    /\ ~(CanManage(q) /\ HasPrice(q) /\ HasFunds(q, Loaded(q)))
    /\ Answer(r, "error")
    /\ Rollback(r)

\* One UPDATE of a flush.  The handlers change every attribute before they let
\* the session flush, and the unit of work then orders the rows by primary key.
FlushRowPayerFirst(r, u) ==
    /\ req[r].pc = "dirty"
    /\ u \in Touched(req[r])
    /\ \A v \in Touched(req[r]) \ {u} : Pays(req[r], v) => rowLock[v] = r
    /\ rowLock[u] = NoOne
    /\ rowLock' = [rowLock EXCEPT ![u] = r]
    /\ UNCHANGED <<balance, ledger, req, paid, goods, fresh, clobbered>>
FlushRow(r, u) ==
    /\ req[r].pc = "dirty"
    /\ u \in Touched(req[r])
    /\ \A v \in Touched(req[r]) : v < u => rowLock[v] = r
    /\ rowLock[u] = NoOne
    /\ rowLock' = [rowLock EXCEPT ![u] = r]
    /\ UNCHANGED <<balance, ledger, req, paid, goods, fresh, clobbered>>

Flushed(r, kind) == req[r].pc = "dirty" /\ req[r].kind = kind /\ LockedAll(r)

\* create_key: trigger_webhook("key.created") inside the open transaction.  With
\* no Celery broker the event is stored as a pending task in the SAME session,
\* which commits it, or rolls it back when storing fails.
SignalQueued(r) ==
    /\ Flushed(r, "createKey")
    /\ Goto(r, "signalled")
    /\ UNCHANGED <<balance, ledger, rowLock, paid, goods, fresh, clobbered>>

SignalStored(r) ==
    /\ Flushed(r, "createKey")
    /\ Goto(r, "early")
    /\ Commit(r, 1)

SignalNotStored(r) ==
    /\ Flushed(r, "createKey")
    /\ Goto(r, "undone")
    /\ Rollback(r)

\* create_key: refresh and commit; whatever they raise, the key is returned,
\* and the route may still fail to look up its product.
CreateKeyChargesAgain(r) ==
    /\ req[r].pc \in {"signalled", "early"}
    /\ Answered(r)
    /\ Commit(r, 1)
CreateKeyCommits(r) ==
    /\ req[r].pc = "signalled"
    /\ Answered(r)
    /\ Commit(r, 1)

CreateKeyReturns(r) ==
    /\ req[r].pc \in {"signalled", "early", "undone"}
    /\ Answered(r)
    /\ Rollback(r)

\* bulk_create_keys: one debit for all of them, then key by key; a key that
\* cannot be generated is skipped, and only if none was made nothing commits.
BulkCreateCommitsNone(r, made) ==
    /\ Flushed(r, "bulkCreate")
    /\ Answered(r)
    /\ \E n \in 0 .. req[r].count : Commit(r, n)
BulkCreateCommits(r, made) ==
    /\ Flushed(r, "bulkCreate")
    /\ made \in 1 .. req[r].count
    /\ Answered(r)
    /\ Commit(r, made)

\* create_user_with_roles_and_products: assigning the permissions and roles
\* commits the account and its tokens; what follows may still raise.
UserSetupCommits(r) ==
    /\ Flushed(r, "createUser") \/ Flushed(r, "adminCreateUser")
    /\ Goto(r, "endowed")
    /\ Commit(r, 1)

UserSetupEnds(r) ==
    /\ req[r].pc = "endowed"
    /\ Answered(r)
    /\ Rollback(r)

\* The kinds that commit once, charge and goods together.
OneCommitKinds == {"customKey", "deduct", "topup", "mint"}

HandlerCommits(r) ==
    \E kind \in OneCommitKinds :
        /\ Flushed(r, kind)
        /\ Answered(r)
        /\ Commit(r, IF kind \in GoodsKinds THEN 1 ELSE 0)

\* A step after the flush raises (a failed query or commit, no key generated).
HandlerFails(r) ==
    /\ req[r].pc = "dirty" /\ LockedAll(r)
    /\ Answer(r, "error")
    /\ Rollback(r)

\* The worker is killed (timeout, deploy); the server rolls its transaction back.
Kill(r) ==
    /\ IsActive(req[r])
    /\ Goto(r, "killed")
    /\ Rollback(r)

-----------------------------------------------------------------------------
AnyUser == CHOOSE u \in Users : TRUE

NotArrived == [pc |-> "idle", kind |-> "mint", actor |-> AnyUser,
               target |-> AnyUser, price |-> 0, count |-> 0,
               seen |-> [u \in Users |-> 0], answer |-> "none"]

Init ==
    /\ balance = InitBalance
    /\ ledger = [u \in Users |-> 0]
    /\ rowLock = [u \in Users |-> NoOne]
    /\ req = [r \in Requests |-> NotArrived]
    /\ paid = [r \in Requests |-> 0]
    /\ goods = [r \in Requests |-> 0]
    /\ fresh = [r \in Requests |-> {}]
    /\ clobbered = {}

Arrive(r) ==
    \E kind \in Kinds, actor, target \in Users, price \in Prices,
       count \in Counts \cup {1} :
        Authenticate(r, kind, actor, target, price, count)

\* What the handler does by itself once the request has arrived.
Progress(r) ==
    \/ Approve(r)
    \/ Refuse(r)
    \/ \E u \in Users : FlushRow(r, u)
    \/ SignalQueued(r)
    \/ SignalStored(r)
    \/ SignalNotStored(r)
    \/ CreateKeyCommits(r)
    \/ CreateKeyReturns(r)
    \/ \E made \in Counts : BulkCreateCommits(r, made)
    \/ UserSetupCommits(r)
    \/ UserSetupEnds(r)
    \/ HandlerCommits(r)
    \/ HandlerFails(r)

Served ==
    /\ \A r \in Requests : IsFinished(req[r])
    /\ UNCHANGED vars

Next ==
    \/ \E r \in Requests : Arrive(r) \/ Progress(r) \/ Kill(r)
    \/ Served

Spec == Init /\ [][Next]_vars

\* A handler thread keeps running; clients need not send, workers need not die.
FairSpec == Spec /\ \A r \in Requests : WF_vars(Progress(r))

-----------------------------------------------------------------------------
(* Properties.                                                             *)

\* The rows, the locks, the handlers and what is noted of them.
Typed ==
    /\ balance \in [Users -> Int]
    /\ ledger \in [Users -> Int]
    /\ rowLock \in [Users -> Requests \cup {NoOne}]
    /\ req \in [Requests -> Handler]
    /\ paid \in [Requests -> Nat]
    /\ goods \in [Requests -> Nat]
    /\ fresh \in [Requests -> SUBSET Users]
    /\ clobbered \in SUBSET Users

\* A row lock is held by an open transaction that writes the row.
LocksHeld ==
    \A u \in Users : rowLock[u] # NoOne =>
        LET q == req[rowLock[u]] IN q.pc \in {"dirty", "signalled"} /\ u \in Touched(q)

\* Every variable keeps its type; only live handlers hold row locks, those that have
\* written the row and neither committed nor rolled back.
TypeOK == Typed /\ LocksHeld

\* An admin or owner who endowed a new account, which debits without a check.
Overdrawn(u) ==
    \E r \in Requests : /\ req[r].kind = "adminCreateUser"
                        /\ req[r].actor = u
                        /\ paid[r] > 0

\* Only such a user's balance is ever below zero, although no handler re-checks
\* the row it overwrites: what is written back was checked when its image was
\* loaded (deduct_balance, _create_key_within_transaction, topup_balance).
OverdrawnByAdminsOnly == \A u \in Users : balance[u] < 0 => Overdrawn(u)

\* The only way a balance can disagree with the TokenTransaction history is a
\* lost update: a commit that overwrote the row from a stale image.  Every
\* other interleaving, failure, rollback or early commit keeps them equal.
LedgerExact ==
    \A u \in Users \ clobbered : balance[u] = InitBalance[u] + ledger[u]

\* Keys and accounts are durable only if the debit that pays
\* for all of them is (commit=False debits live or die with the Key rows).
GoodsArePaid ==
    \A r \in Requests : goods[r] > 0 => paid[r] >= req[r].price * goods[r]

\* No request is charged for goods of which none is committed: not even a bulk
\* creation, which is charged for the keys it fails to make as well.
ChargeBuysGoods ==
    \A r \in Requests :
        paid[r] > 0 /\ req[r].kind \in GoodsKinds => goods[r] > 0

\* A step charges at most one request, and one that was never charged before:
\* the early commit of a stored webhook event is not repeated by create_key.
ChargedOnce ==
    [][\A r \in Requests : paid'[r] # paid[r] =>
          paid[r] = 0 /\ \A s \in Requests \ {r} : paid'[s] = paid[s]]_vars

\* Again and again no request is on its way, so each that a handler has started is
\* answered or killed (none arrives twice): row locks taken in primary-key order
\* cannot deadlock two token transfers.
EveryRequestEnds == []<>(\A r \in Requests : ~IsActive(req[r]))

\* What makes the invariants above inductive: a fresh image is the row's
\* committed value, a request is served as it was sent, and a transaction about
\* to commit has checked the image it writes back.
FreshImages ==
    \A r \in Requests : IsActive(req[r]) =>
        \A u \in fresh[r] : req[r].seen[u] = balance[u]

ArrivedAsSent ==
    \A r \in Requests : IsActive(req[r]) =>
        /\ req[r].kind \in Kinds
        /\ req[r].price \in Prices
        /\ req[r].count \in Counts \cup {1}

UnpaidUntilSent == \A r \in Requests : req[r].pc = "idle" => paid[r] = 0

Funded(q) == \A u \in Users : Pays(q, u) => Total(q) = 0 \/ q.seen[u] >= Total(q)

ImagesAreFunded ==
    \A r \in Requests :
        /\ \A u \in Users : req[r].seen[u] < 0 => Overdrawn(u)
        /\ req[r].pc \in {"dirty", "signalled"} =>
               req[r].kind = "adminCreateUser" \/ Funded(req[r])

\* The token ledger, in which a payment, a grant or a transfer is one
\* indivisible, funded step.
Ledger == INSTANCE TokenLedger WITH Amounts <- {p * n : p \in Prices, n \in Counts \cup {1}}
LedgerSpec == Ledger!Spec

\* An admin or owner pays for a new account without a check of the balance.
AdminEndows ==
    \E r \in Requests : req[r].kind = "adminCreateUser" /\ paid'[r] # paid[r]

\* However the handlers interleave, until the first lost update of any row every
\* change of a balance is a step of the token ledger, or an admin endowing an account.
LedgerKept ==
    /\ Ledger!Init
    /\ [][clobbered' = {} => Ledger!Next \/ AdminEndows]_(Ledger!ledgerVars)

-----------------------------------------------------------------------------
(* What the repository says of the program and the code does not keep.     *)

\* test_race_conditions.py: the final balance is the initial one less the
\* successful deductions.
TokensConserved == \A u \in Users : balance[u] = InitBalance[u] + ledger[u]

\* create_key: a database operation that fails raises ServiceError, so a key
\* that is returned has been stored.
ReturnedKeyExists ==
    \A r \in Requests :
        req[r].kind = "createKey" /\ req[r].answer = "ok" => goods[r] = 1
=============================================================================
