-------------------------- MODULE RegistrationProofs --------------------------
(***************************************************************************)
(* Proofs about Registration, for any number of requests, users, projects, *)
(* codes and faults.                                                       *)
(***************************************************************************)
EXTENDS Registration, TLAPS

-----------------------------------------------------------------------------
(* The inductive invariant.                                                *)

\* What a request holds at each point of its chain.
InOrder(r) ==
    LET q == req[r] IN
    /\ q.pc = "new" => q = Unasked
    /\ q.pc \in Over /\ ~q.added => q.name = Nothing /\ q.email = Nothing /\ q.code = Nothing
    /\ r \in Running \/ q.added => q.name \in Names /\ q.project \in Projects
    /\ q.pc \in {"check", "user"} => ~q.added /\ ~q.struck
    /\ q.pc \in {"project", "permissions", "roles", "admit", "use", "registered"} => q.added
    /\ q.pc = "project" => q.code = Nothing /\ ~q.struck
    /\ q.pc = "use" => q.code \in Codes
    /\ q.seen # Nothing => q.pc \in {"check", "user"} /\ q.code \in Codes

RequestsInOrder == \A r \in Requests : InOrder(r)

\* Each user is the user of one registration.
UsersAreTheirs ==
    \A r \in Requests : req[r].added =>
        /\ UserOf(r) # Nothing /\ UserOf(r).email = req[r].email
        /\ \A s \in Requests \ {r} : req[s].added => req[s].name # req[r].name

\* The user has no project while the chain has not come to it.
UsersProjects ==
    \A r \in Requests : req[r].added =>
        (req[r].pc \in {"project", "refused"} => UserOf(r).project = Nothing)

\* A registration has its project before it gives it rights, and none before.
ProjectsAreTheirs ==
    \A r \in Requests : req[r].added =>
        /\ req[r].pc \in {"permissions", "roles", "admit"} =>
             ProjectTaken(r) /\ project[req[r].project].admin = req[r].name
        /\ req[r].pc \in {"project", "refused"} =>
             \A p \in Projects : project[p] # Nothing => project[p].admin # req[r].name
        /\ req[r].pc = "refused" => req[r].code = Nothing /\ ProjectTaken(r)

\* Who administers a project is a user.
AdminsExist == \A p \in Projects : project[p] # Nothing => user[project[p].admin] # Nothing

\* What runs at the same time has met.
Met(r, s) == s \in req[r].met /\ r \in req[s].met

RunningHaveMet == \A r, s \in Running : r = s \/ Met(r, s)

\* A registration past its look-ups has met all others of its email.
Passed(r) == req[r].added \/ At(r, "user")

EmailsHaveMet ==
    \A r, s \in Requests :
        /\ Passed(r) /\ req[s].added /\ r # s
        /\ req[r].email # Nothing /\ req[r].email = req[s].email
        => Met(r, s)

\* A code that cannot be validated any more.
Spent(c) == code[c].used \/ code[c].state = "deleted"

CodesAreSpent ==
    /\ \A r \in Requests \ Running :
           req[r].code \in Codes => req[r].struck \/ Spent(req[r].code)
    /\ \A r, s \in Requests :
           /\ r # s /\ req[r].code \in Codes /\ req[r].code = req[s].code
           => Met(r, s) \/ req[r].struck \/ req[s].struck

IInv ==
    /\ TypeOK
    /\ RequestsInOrder
    /\ UsersAreTheirs
    /\ UsersProjects
    /\ ProjectsAreTheirs
    /\ AdminsExist
    /\ BoundCodeIsUsed
    /\ RunningHaveMet
    /\ EmailsHaveMet
    /\ CodesAreSpent

USE DEF Over, Steps

-----------------------------------------------------------------------------
(* What a step does to the request it is a step of.                        *)

\* What was asked for, and whom the request has met.
SameAsked(q, p) ==
    /\ q.name = p.name /\ q.email = p.email /\ q.project = p.project
    /\ q.code = p.code /\ q.seen = p.seen /\ q.met = p.met

Kept(r) == SameAsked(req'[r], req[r]) /\ (req[r].struck => req'[r].struck)

Forgotten(r) ==
    /\ ~req[r].added /\ ~req'[r].added /\ req'[r].pc \in Over
    /\ req'[r].name = Nothing /\ req'[r].email = Nothing /\ req'[r].code = Nothing
    /\ req'[r].seen = Nothing

Alone(r) ==
    /\ req' \in [Requests -> Registration]
    /\ \A s \in Requests \ {r} : req'[s] = req[s]

LEMMA UnaskedType == Unasked \in Registration
BY DEF Unasked, Registration

\* The program counter moves and nothing else.
LEMMA GotoStep ==
    ASSUME TypeOK, NEW r \in Requests, NEW pc \in Steps, Goto(r, pc)
    PROVE  /\ Alone(r) /\ Kept(r)
           /\ req'[r].pc = pc /\ (req'[r].added <=> req[r].added) /\ (req'[r].struck <=> req[r].struck)
<1>1. req[r] \in Registration /\ req \in [Requests -> Registration]
  BY DEF TypeOK
<1>2. [req[r] EXCEPT !.pc = pc] \in Registration
  BY <1>1 DEF Registration
<1>3. req' = [req EXCEPT ![r] = [req[r] EXCEPT !.pc = pc]]
  BY <1>1 DEF Goto
<1> QED
  BY <1>1, <1>2, <1>3 DEF Alone, Kept, SameAsked, Registration

\* The request has made its user.
LEMMA AddedStep ==
    ASSUME TypeOK, NEW r \in Requests, NEW pc \in Steps, Added(r, pc)
    PROVE  /\ Alone(r) /\ Kept(r)
           /\ req'[r].pc = pc /\ req'[r].added /\ (req'[r].struck <=> req[r].struck)
<1>1. req[r] \in Registration /\ req \in [Requests -> Registration]
  BY DEF TypeOK
<1>2. [req[r] EXCEPT !.pc = pc, !.added = TRUE] \in Registration
  BY <1>1 DEF Registration
<1>3. req' = [req EXCEPT ![r] = [req[r] EXCEPT !.pc = pc, !.added = TRUE]]
  BY <1>1 DEF Added
<1> QED
  BY <1>1, <1>2, <1>3 DEF Alone, Kept, SameAsked, Registration

\* The request ends with its user made, or is forgotten.
LEMMA EndsStep ==
    ASSUME TypeOK, NEW r \in Requests, NEW pc \in Over, NEW struck \in BOOLEAN,
           Ends(r, pc, struck), req[r].added /\ req[r].struck => struck
    PROVE  /\ Alone(r)
           /\ req'[r].pc = pc /\ (req'[r].added <=> req[r].added)
           /\ \/ req[r].added /\ Kept(r) /\ (req'[r].struck <=> struck)
              \/ Forgotten(r)
<1>1. req[r] \in Registration /\ req \in [Requests -> Registration]
  BY DEF TypeOK
<1>2. CASE req[r].added
  <2>1. [req[r] EXCEPT !.pc = pc, !.struck = struck] \in Registration
    BY <1>1 DEF Registration
  <2>2. req' = [req EXCEPT ![r] = [req[r] EXCEPT !.pc = pc, !.struck = struck]]
    BY <1>1, <1>2 DEF Ends
  <2> QED
    BY <1>1, <1>2, <2>1, <2>2 DEF Alone, Kept, SameAsked, Registration
<1>3. CASE ~req[r].added
  <2>1. [Unasked EXCEPT !.pc = pc] \in Registration
    BY DEF Unasked, Registration
  <2>2. req' = [req EXCEPT ![r] = [Unasked EXCEPT !.pc = pc]]
    BY <1>1, <1>3 DEF Ends
  <2>3. req'[r] = [Unasked EXCEPT !.pc = pc] /\ Alone(r)
    BY <1>1, <2>1, <2>2 DEF Alone
  <2>4. Forgotten(r) /\ req'[r].pc = pc /\ ~req'[r].added
    BY <1>3, <2>3 DEF Forgotten, Unasked
  <2> QED
    BY <1>1, <1>3, <2>3, <2>4 DEF Registration
<1> QED
  BY <1>2, <1>3

\* A fault strikes and the request goes on, or answers.
LEMMA StruckStep ==
    ASSUME TypeOK, NEW r \in Requests, NEW pc \in Steps,
           req' = [req EXCEPT ![r].pc = pc, ![r].struck = TRUE]
    PROVE  /\ Alone(r) /\ Kept(r)
           /\ req'[r].pc = pc /\ (req'[r].added <=> req[r].added) /\ req'[r].struck
<1>1. req[r] \in Registration /\ req \in [Requests -> Registration]
  BY DEF TypeOK
<1>2. [req[r] EXCEPT !.pc = pc, !.struck = TRUE] \in Registration
  BY <1>1 DEF Registration
<1>3. req' = [req EXCEPT ![r] = [req[r] EXCEPT !.pc = pc, !.struck = TRUE]]
  BY <1>1
<1> QED
  BY <1>1, <1>2, <1>3 DEF Alone, Kept, SameAsked, Registration

-----------------------------------------------------------------------------
(* What a step of a running request leaves true, conjunct by conjunct.     *)

Moves(r) ==
    /\ r \in Running /\ Alone(r) /\ req'[r].pc # "new"
    /\ (Kept(r) /\ (req[r].added => req'[r].added)) \/ Forgotten(r)

UsersGrow ==
    \A n \in Names : user[n] # Nothing => user'[n] # Nothing /\ user'[n].email = user[n].email

ProjectsGrow ==
    \A p \in Projects :
        project[p] # Nothing => project'[p] # Nothing /\ project'[p].admin = project[p].admin

CodesGrow == \A c \in Codes : Spent(c) => Spent(c)'

LEMMA OrderKept ==
    ASSUME IInv, NEW r \in Requests, Alone(r), InOrder(r)'
    PROVE  RequestsInOrder'
BY DEF IInv, RequestsInOrder, InOrder, Alone, Running

LEMMA RunningKept ==
    ASSUME IInv, NEW r \in Requests, Moves(r)
    PROVE  /\ Running' \subseteq Running
           /\ \A s \in Running' : req'[s].met = req[s].met
BY DEF IInv, TypeOK, Moves, Alone, Kept, SameAsked, Forgotten, Running

LEMMA MetKept ==
    ASSUME IInv, NEW r \in Requests, Moves(r)
    PROVE  RunningHaveMet'
BY RunningKept DEF IInv, RunningHaveMet, Met

LEMMA EmailsKept ==
    ASSUME IInv, NEW r \in Requests, Moves(r), Passed(r)' => Passed(r)
    PROVE  EmailsHaveMet'
<1> SUFFICES ASSUME NEW a \in Requests, NEW b \in Requests,
                    Passed(a)', req'[b].added, a # b,
                    req'[a].email # Nothing, req'[a].email = req'[b].email
             PROVE  Met(a, b)'
  BY DEF EmailsHaveMet
<1>1. /\ req'[a].email = req[a].email /\ req'[a].met = req[a].met
      /\ req'[b].email = req[b].email /\ req'[b].met = req[b].met
  BY DEF Moves, Alone, Kept, SameAsked, Forgotten
<1>2. Passed(a) /\ Passed(b)
  BY DEF Moves, Alone, Passed, At
<1>3. CASE req[a].added \/ req[b].added
  BY <1>1, <1>2, <1>3 DEF IInv, EmailsHaveMet, Met
<1>4. CASE ~req[a].added /\ ~req[b].added
  BY <1>1, <1>2, <1>4 DEF IInv, RunningHaveMet, Met, Passed, At, Running
<1> QED
  BY <1>3, <1>4

LEMMA SpentKept ==
    ASSUME IInv, NEW r \in Requests, Moves(r), CodesGrow,
           r \notin Running' /\ req'[r].code \in Codes
             => req'[r].struck \/ Spent(req[r].code)'
    PROVE  CodesAreSpent'
<1>1. ASSUME NEW a \in Requests \ Running', req'[a].code \in Codes
      PROVE  req'[a].struck \/ Spent(req[a].code)'
  <2>1. CASE a = r
    BY <1>1, <2>1
  <2>2. CASE a # r
    <3>1. req'[a] = req[a] /\ a \notin Running
      BY <1>1, <2>2 DEF Moves, Alone, Running
    <3>2. req[a].struck \/ Spent(req[a].code)
      BY <1>1, <3>1 DEF IInv, CodesAreSpent
    <3> QED
      BY <1>1, <3>1, <3>2 DEF CodesGrow
  <2> QED
    BY <2>1, <2>2
<1>2. ASSUME NEW a \in Requests, NEW b \in Requests, a # b,
             req'[a].code \in Codes, req'[a].code = req'[b].code
      PROVE  Met(a, b)' \/ req'[a].struck \/ req'[b].struck
  <2>1. \A s \in {a, b} : req'[s].code = req[s].code /\ req'[s].met = req[s].met
                          /\ (req[s].struck => req'[s].struck)
    BY <1>2, NothingAssumption DEF Moves, Alone, Kept, SameAsked, Forgotten
  <2>2. Met(a, b) \/ req[a].struck \/ req[b].struck
    BY <1>2, <2>1 DEF IInv, CodesAreSpent
  <2> QED
    BY <2>1, <2>2 DEF Met
<1> QED
  BY <1>1, <1>2 DEF CodesAreSpent

\* Who bound the code goes on to use it, or a fault strikes it.
LEMMA BoundKept ==
    ASSUME IInv, NEW r \in Requests, Moves(r),
           \A c \in Codes : Bound(c)' =>
               \/ Bound(c) /\ (At(r, "use") /\ req[r].code = c => req'[r].struck)
               \/ r \in Admitted(c)' /\ At(r, "use")'
    PROVE  BoundCodeIsUsed'
<1> SUFFICES ASSUME NEW c \in Codes, Bound(c)'
             PROVE  \E s \in Admitted(c)' : At(s, "use")' \/ req'[s].struck
  BY DEF BoundCodeIsUsed
<1>1. CASE Bound(c) /\ (At(r, "use") /\ req[r].code = c => req'[r].struck)
  <2>1. PICK s \in Admitted(c) : At(s, "use") \/ req[s].struck
    BY <1>1 DEF IInv, BoundCodeIsUsed
  <2>2. s \in Admitted(c)'
    BY DEF Admitted, Moves, Alone, Kept, SameAsked, Forgotten
  <2>3. At(s, "use")' \/ req'[s].struck
    BY <1>1, <2>1 DEF Admitted, Moves, Alone, Kept, Forgotten, At
  <2> QED
    BY <2>2, <2>3
<1>2. CASE r \in Admitted(c)' /\ At(r, "use")'
  BY <1>2
<1> QED
  BY <1>1, <1>2

LEMMA UsersKept ==
    ASSUME IInv, NEW r \in Requests, Moves(r), UsersGrow, req'[r].added => req[r].added
    PROVE  UsersAreTheirs'
<1> SUFFICES ASSUME NEW s \in Requests, req'[s].added
             PROVE  /\ UserOf(s)' # Nothing /\ UserOf(s)'.email = req'[s].email
                    /\ \A a \in Requests \ {s} : req'[a].added => req'[a].name # req'[s].name
  BY DEF UsersAreTheirs
<1>1. \A a \in Requests : req'[a].added =>
          req[a].added /\ req'[a].name = req[a].name /\ req'[a].email = req[a].email
  BY DEF Moves, Alone, Kept, SameAsked, Forgotten
<1>2. req[s].name \in Names
  BY <1>1 DEF IInv, RequestsInOrder, InOrder
<1>3. UserOf(s)' # Nothing /\ UserOf(s)'.email = req'[s].email
  BY <1>1, <1>2 DEF UsersGrow, UserOf, IInv, UsersAreTheirs
<1> QED
  BY <1>1, <1>3 DEF IInv, UsersAreTheirs

LEMMA AdminsKept ==
    ASSUME IInv, UsersGrow, ProjectsGrow,
           \A p \in Projects : project'[p] # Nothing => project[p] # Nothing
    PROVE  AdminsExist'
<1> SUFFICES ASSUME NEW p \in Projects, project'[p] # Nothing
             PROVE  user'[project'[p].admin] # Nothing
  BY DEF AdminsExist
<1>1. project[p] # Nothing /\ project'[p].admin = project[p].admin
  BY DEF ProjectsGrow
<1>2. project[p].admin \in Names /\ user[project[p].admin] # Nothing
  BY <1>1 DEF IInv, TypeOK, ProjectRow, AdminsExist
<1> QED
  BY <1>1, <1>2 DEF UsersGrow

LEMMA UsersProjectsKept ==
    ASSUME IInv, NEW r \in Requests, Moves(r), req'[r].added => req[r].added,
           \A n \in Names : user[n] # Nothing => user'[n].project = user[n].project,
           req'[r].added /\ req'[r].pc \in {"project", "refused"}
             => req[r].pc \in {"project", "refused"}
    PROVE  UsersProjects'
<1> SUFFICES ASSUME NEW s \in Requests, req'[s].added
             PROVE  req'[s].pc \in {"project", "refused"} => UserOf(s)'.project = Nothing
  BY DEF UsersProjects
<1>1. req[s].added /\ req'[s].name = req[s].name /\ req'[s].seen = req[s].seen
  BY DEF Moves, Alone, Kept, SameAsked, Forgotten
<1>2. req[s].name \in Names /\ UserOf(s) # Nothing
  BY <1>1 DEF IInv, RequestsInOrder, InOrder, UsersAreTheirs
<1>3. UserOf(s)'.project = UserOf(s).project
  BY <1>1, <1>2 DEF UserOf
<1>4. req'[s].pc \in {"project", "refused"} => req[s].pc \in {"project", "refused"}
  BY DEF Moves, Alone
<1> QED
  BY <1>1, <1>3, <1>4 DEF IInv, UsersProjects, Joins

LEMMA ProjectsKept ==
    ASSUME IInv, NEW r \in Requests, Moves(r), req'[r].added => req[r].added,
           ProjectsGrow, \A p \in Projects : project'[p] # Nothing => project[p] # Nothing,
           req'[r].added /\ req'[r].pc \in {"project", "refused"}
             => req[r].pc = req'[r].pc,
           req'[r].added /\ req'[r].pc \in {"permissions", "roles", "admit"}
             => req[r].pc \in {"permissions", "roles", "admit"}
    PROVE  ProjectsAreTheirs'
<1> SUFFICES ASSUME NEW s \in Requests, req'[s].added
             PROVE  /\ req'[s].pc \in {"permissions", "roles", "admit"} =>
                         ProjectTaken(s)' /\ project'[req'[s].project].admin = req'[s].name
                    /\ req'[s].pc \in {"project", "refused"} =>
                         \A p \in Projects : project'[p] # Nothing => project'[p].admin # req'[s].name
                    /\ req'[s].pc = "refused" => req'[s].code = Nothing /\ ProjectTaken(s)'
  BY DEF ProjectsAreTheirs
<1>1. /\ req[s].added /\ req'[s].name = req[s].name /\ req'[s].project = req[s].project
      /\ req'[s].code = req[s].code
  BY DEF Moves, Alone, Kept, SameAsked, Forgotten
<1>2. req[s].project \in Projects
  BY <1>1 DEF IInv, RequestsInOrder, InOrder
<1>3. ProjectTaken(s) =>
        ProjectTaken(s)' /\ project'[req'[s].project].admin = project[req[s].project].admin
  BY <1>1, <1>2 DEF ProjectsGrow, ProjectTaken
<1>4. CASE req'[s].pc \in {"permissions", "roles", "admit"}
  <2>1. req[s].pc \in {"permissions", "roles", "admit"}
    BY <1>4 DEF Moves, Alone
  <2> QED
    BY <1>1, <1>3, <1>4, <2>1 DEF IInv, ProjectsAreTheirs
<1>5. CASE req'[s].pc \in {"project", "refused"}
  <2>1. req[s].pc = req'[s].pc
    BY <1>5 DEF Moves, Alone
  <2>2. \A p \in Projects : project'[p] # Nothing =>
            project[p] # Nothing /\ project'[p].admin = project[p].admin
    BY DEF ProjectsGrow
  <2> QED
    BY <1>1, <1>3, <1>5, <2>1, <2>2 DEF IInv, ProjectsAreTheirs
<1> QED
  BY <1>4, <1>5

-----------------------------------------------------------------------------
(* Each action.                                                            *)

\* A request goes on or ends, and the rows stay.
LEMMA QuietStep ==
    ASSUME IInv, NEW r \in Requests, Moves(r), InOrder(r)', UNCHANGED rows,
           faults' \in 0 .. MaxFaults,
           req'[r].added => req[r].added, Passed(r)' => Passed(r),
           req'[r].added /\ req'[r].pc \in {"project", "refused"} => req[r].pc = req'[r].pc,
           req'[r].added /\ req'[r].pc \in {"permissions", "roles", "admit"}
             => req[r].pc \in {"permissions", "roles", "admit"},
           r \notin Running' /\ req'[r].code \in Codes
             => req'[r].struck \/ Spent(req[r].code)',
           At(r, "use") => req'[r].struck
    PROVE  IInv'
<1>1. user' = user /\ project' = project /\ code' = code
  BY DEF rows
<1>2. TypeOK'
  BY <1>1 DEF IInv, TypeOK, Moves, Alone
<1>3. RequestsInOrder'
  BY OrderKept DEF Moves
<1>4. UsersAreTheirs' /\ UsersProjects'
  BY <1>1, UsersKept, UsersProjectsKept DEF UsersGrow
<1>5. ProjectsAreTheirs' /\ AdminsExist'
  BY <1>1, ProjectsKept, AdminsKept DEF ProjectsGrow, UsersGrow
<1>6. BoundCodeIsUsed'
  BY <1>1, BoundKept DEF Bound
<1>7. RunningHaveMet' /\ EmailsHaveMet'
  BY MetKept, EmailsKept
<1>8. CodesAreSpent'
  BY <1>1, SpentKept DEF CodesGrow, Spent
<1> QED
  BY <1>2, <1>3, <1>4, <1>5, <1>6, <1>7, <1>8 DEF IInv

\* A request ends early: with its user made only when a fault struck it.
LEMMA EndingStep ==
    ASSUME IInv, NEW r \in Requests, r \in Running,
           NEW pc \in {"refused", "failed", "lost"}, NEW struck \in BOOLEAN,
           Ends(r, pc, struck), req[r].added => struck /\ pc # "refused",
           UNCHANGED rows, faults' \in 0 .. MaxFaults
    PROVE  IInv'
<1>1. /\ Alone(r)
      /\ req'[r].pc = pc /\ (req'[r].added <=> req[r].added)
      /\ \/ req[r].added /\ Kept(r) /\ (req'[r].struck <=> struck)
         \/ Forgotten(r)
  BY EndsStep DEF IInv
<1>2. Moves(r) /\ r \notin Running'
  BY <1>1 DEF Moves, Running
<1>3. InOrder(r)'
  BY <1>1, <1>2 DEF IInv, RequestsInOrder, InOrder, Kept, SameAsked, Forgotten
<1>4. Passed(r)' => Passed(r)
  BY <1>1 DEF Passed, At
<1>5. req'[r].code \in Codes => req'[r].struck
  BY <1>1, NothingAssumption DEF Forgotten
<1>6. At(r, "use") => req'[r].struck
  <2> SUFFICES ASSUME At(r, "use") PROVE req'[r].struck
    OBVIOUS
  <2>1. req[r].added
    BY DEF IInv, RequestsInOrder, InOrder, At
  <2>2. (req'[r].struck <=> struck) /\ struck
    BY <1>1, <2>1 DEF Forgotten
  <2> QED
    BY <2>2
<1> QED
  BY <1>1, <1>2, <1>3, <1>4, <1>5, <1>6, QuietStep

LEMMA CheckKeeps ==
    ASSUME IInv, NEW r \in Requests, Check(r)
    PROVE  IInv'
<1>1. r \in Running /\ ~req[r].added /\ UNCHANGED rows /\ faults' \in 0 .. MaxFaults
  BY DEF Check, At, Running, IInv, RequestsInOrder, InOrder, TypeOK
<1>2. CASE NameTaken(r) \/ EmailTaken(r)
  BY <1>1, <1>2, EndingStep DEF Check
<1>3. CASE ~(NameTaken(r) \/ EmailTaken(r))
  <2>1. Goto(r, "user")
    BY <1>3 DEF Check
  <2>2. /\ Alone(r) /\ Kept(r) /\ req'[r].pc = "user"
        /\ (req'[r].added <=> req[r].added) /\ (req'[r].struck <=> req[r].struck)
    BY <2>1, GotoStep DEF IInv
  <2>3. Moves(r) /\ InOrder(r)' /\ r \in Running'
    BY <1>1, <2>2 DEF Check, At, Moves, Running, IInv, RequestsInOrder, InOrder, Kept, SameAsked
  <2>4. user' = user /\ project' = project /\ code' = code
    BY <1>1 DEF rows
  <2>5. TypeOK' /\ RequestsInOrder'
    BY <1>1, <2>2, <2>3, <2>4, OrderKept DEF IInv, TypeOK, Alone
  <2>6. UsersAreTheirs' /\ UsersProjects' /\ ProjectsAreTheirs' /\ AdminsExist'
    BY <1>1, <2>2, <2>3, <2>4, UsersKept, UsersProjectsKept, ProjectsKept, AdminsKept
       DEF UsersGrow, ProjectsGrow
  <2>7. RunningHaveMet' /\ CodesAreSpent' /\ BoundCodeIsUsed'
    BY <2>3, <2>4, MetKept, SpentKept, BoundKept DEF Check, At, Bound, CodesGrow, Spent
  <2>8. EmailsHaveMet'
    <3> SUFFICES ASSUME NEW a \in Requests, NEW b \in Requests,
                        Passed(a)', req'[b].added, a # b,
                        req'[a].email # Nothing, req'[a].email = req'[b].email
                 PROVE  Met(a, b)'
      BY DEF EmailsHaveMet
    <3>1. /\ req'[a].email = req[a].email /\ req'[a].met = req[a].met
          /\ req'[b].email = req[b].email /\ req'[b].met = req[b].met
          /\ req[b].added /\ b # r
      BY <1>1, <2>2 DEF Alone, Kept, SameAsked
    <3>2. CASE a = r
      \* The look-up would have found the email.
      <4>1. req[b].name \in Names /\ UserOf(b) # Nothing /\ UserOf(b).email = req[b].email
        BY <3>1 DEF IInv, RequestsInOrder, InOrder, UsersAreTheirs
      <4> QED
        BY <1>3, <3>1, <3>2, <4>1 DEF EmailTaken, UserOf
    <3>3. CASE a # r
      BY <2>2, <3>1, <3>3 DEF IInv, EmailsHaveMet, Passed, At, Alone, Met
    <3> QED
      BY <3>2, <3>3
  <2> QED
    BY <2>5, <2>6, <2>7, <2>8 DEF IInv
<1> QED
  BY <1>2, <1>3

\* Faults and deletions cut a request off.
LEMMA CutOffKeeps ==
    ASSUME IInv, NEW r \in Requests, AdmitFails(r) \/ Fails(r) \/ Dies(r)
    PROVE  IInv'
<1>1. r \in Running
  BY DEF AdmitFails, Fails, Dies, At, Running
<1>2. UNCHANGED rows /\ faults' \in 0 .. MaxFaults
  <2>1. CASE AdmitFails(r)
    BY <2>1 DEF AdmitFails, IInv, TypeOK, rows
  <2>2. CASE Fails(r) \/ Dies(r)
    <3>1. UNCHANGED rows /\ faults < MaxFaults /\ faults' = faults + 1
      BY <2>2 DEF Fails, Dies
    <3> QED
      BY <3>1, FaultsAssumption DEF IInv, TypeOK
  <2> QED
    BY <2>1, <2>2
<1>3. \E pc \in {"failed", "lost"} : Ends(r, pc, TRUE)
  BY DEF AdmitFails, Fails, Dies
<1> QED
  BY <1>1, <1>2, <1>3, EndingStep

LEMMA InitializeFailsKeeps ==
    ASSUME IInv, NEW r \in Requests, InitializeFails(r)
    PROVE  IInv'
<1>1. PICK pc \in {"admit", "failed"} :
          req' = [req EXCEPT ![r].pc = pc, ![r].struck = TRUE]
  BY DEF InitializeFails
<1>2. /\ Alone(r) /\ Kept(r) /\ req'[r].pc = pc
      /\ (req'[r].added <=> req[r].added) /\ req'[r].struck
  BY <1>1, StruckStep DEF IInv
<1>3. r \in Running /\ req[r].added
  BY DEF InitializeFails, Running, IInv, RequestsInOrder, InOrder
<1>4. Moves(r) /\ InOrder(r)'
  BY <1>2, <1>3
     DEF InitializeFails, Moves, Running, IInv, RequestsInOrder, InOrder, Kept, SameAsked
<1>5. UNCHANGED rows /\ faults' \in 0 .. MaxFaults
  BY FaultsAssumption DEF InitializeFails, IInv, TypeOK
<1> QED
  BY <1>2, <1>3, <1>4, <1>5, QuietStep DEF InitializeFails, Passed

LEMMA UseCodeFailsKeeps ==
    ASSUME IInv, NEW r \in Requests, UseCodeFails(r)
    PROVE  IInv'
<1>1. /\ Alone(r) /\ Kept(r) /\ req'[r].pc = "registered"
      /\ (req'[r].added <=> req[r].added) /\ req'[r].struck
  BY StruckStep DEF IInv, UseCodeFails
<1>2. r \in Running /\ req[r].added
  BY DEF UseCodeFails, At, Running, IInv, RequestsInOrder, InOrder
<1>3. Moves(r) /\ InOrder(r)'
  BY <1>1, <1>2 DEF UseCodeFails, Moves, Running, IInv, RequestsInOrder, InOrder, Kept, SameAsked
<1>4. UNCHANGED rows /\ faults' \in 0 .. MaxFaults
  BY FaultsAssumption DEF UseCodeFails, IInv, TypeOK
<1> QED
  BY <1>1, <1>2, <1>3, <1>4, QuietStep DEF Passed

\* A request makes its user, of a name that no user has.
MakesUser(r, pc) ==
    /\ At(r, "user") /\ ~NameTaken(r) /\ ~Joins(r)
    /\ Added(r, pc) /\ user' = NewUser(r)

LEMMA NewUserStep ==
    ASSUME IInv, NEW r \in Requests, NEW pc \in {"project", "permissions"}, MakesUser(r, pc)
    PROVE  /\ Moves(r) /\ Alone(r) /\ Kept(r) /\ req'[r].pc = pc /\ req'[r].added /\ ~req[r].added
           /\ ~req'[r].struck
           /\ req[r].name \in Names /\ req[r].project \in Projects
           /\ \A s \in Requests \ {r} : req[s].added =>
                  req[s].name # req[r].name /\ UserOf(s)' = UserOf(s)
           /\ user' \in [Names -> UserRow \cup {Nothing}] /\ UsersGrow
           /\ UserOf(r)' # Nothing /\ UserOf(r)'.project = Nothing
           /\ UsersAreTheirs' /\ UsersProjects' /\ RunningHaveMet' /\ EmailsHaveMet' /\ r \in Running'
<1>1. /\ Alone(r) /\ Kept(r) /\ req'[r].pc = pc /\ req'[r].added
      /\ ~req'[r].struck
  BY AddedStep DEF MakesUser, IInv, At, RequestsInOrder, InOrder
<1>2. /\ r \in Running /\ ~req[r].added
      /\ req[r].name \in Names /\ req[r].project \in Projects
  BY DEF MakesUser, At, Running, IInv, RequestsInOrder, InOrder
<1>3. Moves(r) /\ r \in Running'
  BY <1>1, <1>2 DEF Moves, Running
<1>4. req[r].email \in Emails \cup {Nothing} /\ user \in [Names -> UserRow \cup {Nothing}]
  BY DEF IInv, TypeOK, Registration
<1> DEFINE row == [email |-> req[r].email, project |-> Nothing, role |-> "none"]
<1>5. row \in UserRow /\ row # Nothing
  BY <1>4, NoRowAssumption DEF UserRow
<1>6. user' = [user EXCEPT ![req[r].name] = row]
  BY DEF MakesUser, NewUser
<1>7. /\ user' \in [Names -> UserRow \cup {Nothing}] /\ user'[req[r].name] = row
      /\ \A n \in Names : n # req[r].name => user'[n] = user[n]
  BY <1>2, <1>4, <1>5, <1>6
<1>8. UsersGrow
  BY <1>7 DEF UsersGrow, MakesUser, NameTaken, UserOf
<1>9. \A s \in Requests \ {r} : req[s].added =>
          /\ req[s].name # req[r].name /\ UserOf(s)' = UserOf(s)
          /\ UserOf(s) # Nothing /\ UserOf(s).email = req[s].email
  <2> SUFFICES ASSUME NEW s \in Requests \ {r}, req[s].added
               PROVE  /\ req[s].name # req[r].name /\ UserOf(s)' = UserOf(s)
                      /\ UserOf(s) # Nothing /\ UserOf(s).email = req[s].email
    OBVIOUS
  <2>1. req[s].name \in Names /\ UserOf(s) # Nothing /\ UserOf(s).email = req[s].email
    BY DEF IInv, RequestsInOrder, InOrder, UsersAreTheirs
  <2>2. req[s].name # req[r].name
    BY <2>1 DEF MakesUser, NameTaken, UserOf
  <2>3. UserOf(s)' = UserOf(s)
    BY <1>1, <1>7, <2>1, <2>2 DEF Alone, UserOf
  <2> QED
    BY <2>1, <2>2, <2>3
<1>10. UserOf(r)' = row
  BY <1>1, <1>7 DEF UserOf, Kept, SameAsked
<1>11. UsersAreTheirs'
  <2> SUFFICES ASSUME NEW s \in Requests, req'[s].added
               PROVE  /\ UserOf(s)' # Nothing /\ UserOf(s)'.email = req'[s].email
                      /\ \A a \in Requests \ {s} : req'[a].added => req'[a].name # req'[s].name
    BY DEF UsersAreTheirs
  <2>1. CASE s = r
    BY <1>1, <1>5, <1>9, <1>10, <2>1 DEF Alone, Kept, SameAsked
  <2>2. CASE s # r
    BY <1>1, <1>9, <2>2 DEF Alone, Kept, SameAsked, IInv, UsersAreTheirs
  <2> QED
    BY <2>1, <2>2
<1>12. RunningHaveMet' /\ EmailsHaveMet'
  BY <1>3, MetKept, EmailsKept DEF Passed, MakesUser
<1>13. UserOf(r)' # Nothing /\ UserOf(r)'.project = Nothing
  BY <1>5, <1>10
<1> HIDE DEF row
<1>14. UsersProjects'
  BY <1>1, <1>9, <1>13 DEF IInv, UsersProjects, Alone
<1> QED
  BY <1>1, <1>2, <1>3, <1>7, <1>8, <1>9, <1>11, <1>12, <1>13, <1>14

\* A request makes its project, of a name that no project has; its user is there.
LEMMA NewProjectStep ==
    ASSUME IInv, NEW r \in Requests, Alone(r), Kept(r), req'[r].added, req'[r].pc = "permissions",
           req[r].name \in Names, req[r].project \in Projects,
           ~ProjectTaken(r), project' = NewProject(r),
           UsersGrow, UserOf(r)' # Nothing,
           \A s \in Requests \ {r} : req[s].added => req[s].name # req[r].name
    PROVE  /\ project' \in [Projects -> ProjectRow \cup {Nothing}]
           /\ ProjectsGrow /\ ProjectsAreTheirs' /\ AdminsExist'
<1> DEFINE row == [admin |-> req[r].name, rights |-> "none"]
<1>1. row \in ProjectRow /\ row # Nothing
  BY NoRowAssumption DEF ProjectRow
<1>2. project \in [Projects -> ProjectRow \cup {Nothing}]
  BY DEF IInv, TypeOK
<1>3. /\ project' \in [Projects -> ProjectRow \cup {Nothing}] /\ project'[req[r].project] = row
      /\ \A p \in Projects : p # req[r].project => project'[p] = project[p]
  BY <1>1, <1>2 DEF NewProject
<1>4. row.admin = req[r].name
  OBVIOUS
<1> HIDE DEF row
<1>5. ProjectsGrow
  BY <1>3 DEF ProjectsGrow, ProjectTaken
<1>6. ProjectsAreTheirs'
  <2> SUFFICES ASSUME NEW s \in Requests, req'[s].added
               PROVE  /\ req'[s].pc \in {"permissions", "roles", "admit"} =>
                           ProjectTaken(s)' /\ project'[req'[s].project].admin = req'[s].name
                      /\ req'[s].pc \in {"project", "refused"} =>
                           \A p \in Projects : project'[p] # Nothing => project'[p].admin # req'[s].name
                      /\ req'[s].pc = "refused" => req'[s].code = Nothing /\ ProjectTaken(s)'
    BY DEF ProjectsAreTheirs
  <2>1. CASE s = r
    BY <1>1, <1>3, <1>4, <2>1 DEF ProjectTaken, Kept, SameAsked
  <2>2. CASE s # r
    <3>1. req'[s] = req[s] /\ req[s].added /\ req[s].name # req[r].name
      BY <2>2 DEF Alone
    <3>2. req[s].project \in Projects
      BY <3>1 DEF IInv, RequestsInOrder, InOrder
    <3>3. ProjectTaken(s) =>
            ProjectTaken(s)' /\ project'[req'[s].project].admin = project[req[s].project].admin
      BY <1>5, <3>1, <3>2 DEF ProjectsGrow, ProjectTaken
    <3>4. \A p \in Projects :
              project'[p] # Nothing /\ project'[p].admin = req[s].name => project'[p] = project[p]
      BY <1>3, <1>4, <3>1
    <3> QED
      BY <3>1, <3>3, <3>4 DEF IInv, ProjectsAreTheirs
  <2> QED
    BY <2>1, <2>2
<1>7. AdminsExist'
  <2> SUFFICES ASSUME NEW p \in Projects, project'[p] # Nothing
               PROVE  user'[project'[p].admin] # Nothing
    BY DEF AdminsExist
  <2>1. CASE p = req[r].project
    BY <1>3, <1>4, <2>1 DEF UserOf, Kept, SameAsked
  <2>2. CASE p # req[r].project
    <3>1. project'[p] = project[p] /\ project[p] # Nothing
      BY <1>3, <2>2
    <3>2. project[p].admin \in Names /\ user[project[p].admin] # Nothing
      BY <1>2, <3>1 DEF ProjectRow, IInv, AdminsExist
    <3> QED
      BY <3>1, <3>2 DEF UsersGrow
  <2> QED
    BY <2>1, <2>2
<1> QED
  BY <1>3, <1>5, <1>6, <1>7

LEMMA CreateUserKeeps ==
    ASSUME IInv, NEW r \in Requests, CreateUser(r)
    PROVE  IInv'
<1>1. r \in Running /\ ~req[r].added /\ faults' \in 0 .. MaxFaults
      /\ project' = project /\ code' = code /\ req[r].code = Nothing /\ ~Joins(r)
  BY NothingAssumption
     DEF CreateUser, At, Running, IInv, RequestsInOrder, InOrder, TypeOK, Joins
<1>2. CASE NameTaken(r)
  BY <1>1, <1>2, EndingStep DEF CreateUser, rows
<1>3. CASE ~NameTaken(r)
  <2>1. MakesUser(r, "project")
    BY <1>1, <1>3 DEF CreateUser, MakesUser
  <2>2. /\ Moves(r) /\ Alone(r) /\ Kept(r) /\ req'[r].pc = "project" /\ req'[r].added
        /\ ~req'[r].struck
        /\ req[r].name \in Names /\ req[r].project \in Projects
        /\ \A s \in Requests \ {r} : req[s].added =>
               req[s].name # req[r].name /\ UserOf(s)' = UserOf(s)
        /\ user' \in [Names -> UserRow \cup {Nothing}] /\ UsersGrow
        /\ UsersAreTheirs' /\ RunningHaveMet' /\ EmailsHaveMet' /\ r \in Running'
    BY <2>1, NewUserStep
  <2>3. UsersProjects'
    BY <2>1, NewUserStep
  <2>4. TypeOK'
    BY <1>1, <2>2 DEF IInv, TypeOK, Alone
  <2>5. RequestsInOrder'
    <3>1. InOrder(r)'
      BY <1>1, <2>2 DEF IInv, RequestsInOrder, InOrder, Kept, SameAsked, Joins
    <3> QED
      BY <2>2, <3>1, OrderKept
  <2>6. ProjectsAreTheirs'
    <3>1. \A p \in Projects : project[p] # Nothing => project[p].admin # req[r].name
      BY <1>3, <2>2 DEF IInv, TypeOK, ProjectRow, AdminsExist, NameTaken, UserOf
    <3>2. ASSUME NEW s \in Requests \ {r}
          PROVE  req'[s] = req[s] /\ (ProjectTaken(s)' <=> ProjectTaken(s))
      BY <1>1, <2>2 DEF Alone, ProjectTaken
    <3> QED
      BY <1>1, <2>2, <3>1, <3>2 DEF IInv, ProjectsAreTheirs, Kept, SameAsked
  <2>7. AdminsExist' /\ BoundCodeIsUsed' /\ CodesAreSpent'
    BY <1>1, <2>2, AdminsKept, BoundKept, SpentKept
       DEF CreateUser, At, ProjectsGrow, Bound, CodesGrow, Spent
  <2> QED
    BY <2>2, <2>3, <2>4, <2>5, <2>6, <2>7 DEF IInv
<1> QED
  BY <1>2, <1>3

LEMMA CreateUserAndProjectKeeps ==
    ASSUME IInv, NEW r \in Requests, CreateUserAndProject(r)
    PROVE  IInv'
<1>1. /\ r \in Running /\ ~req[r].added /\ faults' \in 0 .. MaxFaults
      /\ code' = code /\ req[r].code # Nothing /\ ~Joins(r)
  BY DEF CreateUserAndProject, At, Running, IInv, RequestsInOrder, InOrder, TypeOK
<1>2. CASE NameTaken(r) \/ ProjectTaken(r)
  BY <1>1, <1>2, EndingStep DEF CreateUserAndProject, rows
<1>3. CASE ~NameTaken(r) /\ ~ProjectTaken(r)
  <2>1. MakesUser(r, "permissions") /\ project' = NewProject(r)
    BY <1>1, <1>3 DEF CreateUserAndProject, MakesUser
  <2>2. /\ Moves(r) /\ Alone(r) /\ Kept(r) /\ req'[r].pc = "permissions" /\ req'[r].added
        /\ req[r].name \in Names /\ req[r].project \in Projects
        /\ \A s \in Requests \ {r} : req[s].added => req[s].name # req[r].name
        /\ user' \in [Names -> UserRow \cup {Nothing}] /\ UsersGrow
        /\ UserOf(r)' # Nothing
        /\ UsersAreTheirs' /\ RunningHaveMet' /\ EmailsHaveMet' /\ r \in Running'
    BY <2>1, NewUserStep
  <2>3. UsersProjects'
    BY <2>1, NewUserStep
  <2>4. /\ project' \in [Projects -> ProjectRow \cup {Nothing}]
        /\ ProjectsGrow /\ ProjectsAreTheirs' /\ AdminsExist'
    BY <1>3, <2>1, <2>2, NewProjectStep
  <2>5. TypeOK'
    BY <1>1, <2>2, <2>4 DEF IInv, TypeOK, Alone
  <2>6. RequestsInOrder'
    <3>1. InOrder(r)'
      BY <1>1, <2>2 DEF IInv, RequestsInOrder, InOrder, Kept, SameAsked, Joins
    <3> QED
      BY <2>2, <3>1, OrderKept
  <2>7. BoundCodeIsUsed' /\ CodesAreSpent'
    BY <1>1, <2>2, <2>4, BoundKept, SpentKept
       DEF CreateUserAndProject, At, Bound, CodesGrow, Spent
  <2> QED
    BY <2>2, <2>3, <2>4, <2>5, <2>6, <2>7 DEF IInv
<1> QED
  BY <1>2, <1>3

\* Nobody joins: the request is forgotten.
LEMMA JoinProjectKeeps ==
    ASSUME IInv, NEW r \in Requests, JoinProject(r)
    PROVE  IInv'
<1>1. r \in Running /\ ~req[r].added /\ UNCHANGED rows /\ faults' \in 0 .. MaxFaults
  BY DEF JoinProject, At, Running, IInv, RequestsInOrder, InOrder, TypeOK
<1> QED
  BY <1>1, EndingStep DEF JoinProject

\* The user stays, whether the project is refused or made.
LEMMA CreateProjectKeeps ==
    ASSUME IInv, NEW r \in Requests, CreateProject(r)
    PROVE  IInv'
<1>1. /\ r \in Running /\ req[r].added /\ faults' \in 0 .. MaxFaults /\ At(r, "project")
      /\ user' = user /\ code' = code /\ req[r].code = Nothing /\ ~Joins(r)
      /\ req[r].name \in Names /\ req[r].project \in Projects
  BY DEF CreateProject, At, Running, IInv, RequestsInOrder, InOrder, TypeOK, Joins
<1>2. /\ Alone(r) /\ Kept(r) /\ req'[r].added
      /\ \/ ProjectTaken(r) /\ project' = project /\ req'[r].pc = "refused"
         \/ ~ProjectTaken(r) /\ project' = NewProject(r) /\ req'[r].pc = "permissions"
  <2>1. CASE ProjectTaken(r)
    <3>1. Ends(r, "refused", FALSE) /\ project' = project
      BY <2>1 DEF CreateProject
    <3>2. req'[r] = [req[r] EXCEPT !.pc = "refused", !.struck = FALSE]
      BY <1>1, <3>1 DEF Ends, IInv, TypeOK
    <3>3. ~req[r].struck
      BY <1>1 DEF IInv, RequestsInOrder, InOrder, At
    <3> QED
      BY <1>1, <2>1, <3>1, <3>3, EndsStep DEF IInv, Forgotten
  <2>2. CASE ~ProjectTaken(r)
    <3>1. Goto(r, "permissions") /\ project' = NewProject(r)
      BY <2>2 DEF CreateProject
    <3> QED
      BY <1>1, <2>2, <3>1, GotoStep DEF IInv
  <2> QED
    BY <2>1, <2>2
<1>3. Moves(r) /\ UsersGrow
  BY <1>1, <1>2 DEF Moves, UsersGrow
<1>4. \A s \in Requests \ {r} : req[s].added => req[s].name # req[r].name
  BY <1>1 DEF IInv, UsersAreTheirs
<1>5. /\ project' \in [Projects -> ProjectRow \cup {Nothing}]
      /\ ProjectsGrow /\ ProjectsAreTheirs' /\ AdminsExist'
  <2>1. CASE ProjectTaken(r)
    <3>1. project' = project /\ req'[r].pc = "refused" /\ ProjectsGrow
      BY <1>2, <2>1 DEF ProjectsGrow
    <3>2. AdminsExist'
      BY <1>3, <3>1, AdminsKept
    <3>3. ASSUME NEW s \in Requests
          PROVE  req'[s].project = req[s].project /\ (ProjectTaken(s)' <=> ProjectTaken(s))
      BY <1>2, <3>1 DEF Alone, Kept, SameAsked, ProjectTaken
    <3>4. ProjectsAreTheirs'
      BY <1>1, <1>2, <2>1, <3>1, <3>3 DEF IInv, ProjectsAreTheirs, Alone, Kept, SameAsked, At
    <3> QED
      BY <3>1, <3>2, <3>4 DEF IInv, TypeOK
  <2>2. CASE ~ProjectTaken(r)
    <3>1. UserOf(r)' # Nothing
      BY <1>1, <1>2 DEF IInv, UsersAreTheirs, UserOf, Kept, SameAsked
    <3> QED
      BY <1>1, <1>2, <1>3, <1>4, <2>2, <3>1, NewProjectStep
  <2> QED
    BY <2>1, <2>2
<1>6. TypeOK'
  BY <1>1, <1>2, <1>5 DEF IInv, TypeOK, Alone
<1>7. RequestsInOrder'
  <2>1. InOrder(r)'
    BY <1>1, <1>2 DEF IInv, RequestsInOrder, InOrder, Kept, SameAsked, Joins
  <2> QED
    BY <1>2, <2>1, OrderKept
<1>8. UsersAreTheirs' /\ UsersProjects' /\ RunningHaveMet' /\ EmailsHaveMet'
  BY <1>1, <1>2, <1>3, UsersKept, UsersProjectsKept, MetKept, EmailsKept DEF At, Passed
<1>9. BoundCodeIsUsed' /\ CodesAreSpent'
  BY <1>1, <1>2, <1>3, <1>5, BoundKept, SpentKept, NothingAssumption
     DEF At, Bound, CodesGrow, Spent, Kept, SameAsked
<1> QED
  BY <1>5, <1>6, <1>7, <1>8, <1>9 DEF IInv

\* A request in the middle of its chain holds its user and its project.
LEMMA HoldsProject ==
    ASSUME IInv, NEW r \in Requests, req[r].pc \in {"permissions", "roles", "admit"}
    PROVE  /\ r \in Running /\ req[r].added /\ ~Joins(r)
           /\ req[r].name \in Names /\ UserOf(r) \in UserRow
           /\ req[r].project \in Projects /\ project[req[r].project] \in ProjectRow
           /\ project[req[r].project].admin = req[r].name
           /\ \A s \in Requests \ {r} : req[s].added => req[s].name # req[r].name
<1>1. r \in Running /\ req[r].added /\ ~Joins(r)
  BY DEF Running, IInv, RequestsInOrder, InOrder, Joins
<1>2. req[r].name \in Names /\ req[r].project \in Projects
  BY <1>1 DEF IInv, RequestsInOrder, InOrder
<1>3. UserOf(r) # Nothing /\ ProjectTaken(r) /\ project[req[r].project].admin = req[r].name
  BY <1>1 DEF IInv, UsersAreTheirs, ProjectsAreTheirs
<1>4. \A s \in Requests \ {r} : req[s].added => req[s].name # req[r].name
  BY <1>1 DEF IInv, UsersAreTheirs
<1> QED
  BY <1>1, <1>2, <1>3, <1>4 DEF IInv, TypeOK, UserOf, ProjectTaken

\* The rights of its project change, and the project or the role of its user.
LEMMA OwnRowsStep ==
    ASSUME IInv, NEW r \in Requests, Alone(r), Kept(r), req'[r].added,
           req[r].pc \in {"permissions", "roles", "admit"},
           req'[r].pc \in {"roles", "admit", "use", "registered"},
           NEW home \in Projects \cup {Nothing}, NEW role \in {"none", "admin"},
           NEW rights \in {"none", "permissions", "roles"},
           user' = [user EXCEPT ![req[r].name] = [@ EXCEPT !.project = home, !.role = role]],
           project' = [project EXCEPT ![req[r].project].rights = rights]
    PROVE  /\ Moves(r) /\ ProjectsGrow
           /\ user' \in [Names -> UserRow \cup {Nothing}]
           /\ project' \in [Projects -> ProjectRow \cup {Nothing}]
           /\ UsersAreTheirs' /\ UsersProjects' /\ ProjectsAreTheirs' /\ AdminsExist'
           /\ RunningHaveMet' /\ EmailsHaveMet'
<1> DEFINE u == [UserOf(r) EXCEPT !.project = home, !.role = role]
           p == [project[req[r].project] EXCEPT !.rights = rights]
<1>1. /\ r \in Running /\ req[r].added /\ ~Joins(r)
      /\ req[r].name \in Names /\ UserOf(r) \in UserRow
      /\ req[r].project \in Projects /\ project[req[r].project] \in ProjectRow
      /\ project[req[r].project].admin = req[r].name
      /\ \A s \in Requests \ {r} : req[s].added => req[s].name # req[r].name
  BY HoldsProject
<1>2. u \in UserRow /\ u # Nothing /\ u.email = UserOf(r).email
  BY <1>1, NoRowAssumption DEF UserRow
<1>3. p \in ProjectRow /\ p # Nothing /\ p.admin = req[r].name
  BY <1>1, NoRowAssumption DEF ProjectRow
<1>4. /\ user' = [user EXCEPT ![req[r].name] = u]
      /\ project' = [project EXCEPT ![req[r].project] = p]
  BY <1>1 DEF UserOf, IInv, TypeOK
<1> HIDE DEF u, p
<1>5. /\ user' \in [Names -> UserRow \cup {Nothing}] /\ user'[req[r].name] = u
      /\ \A n \in Names : n # req[r].name => user'[n] = user[n]
  <2>1. user \in [Names -> UserRow \cup {Nothing}]
    BY DEF IInv, TypeOK
  <2>2. user' = [user EXCEPT ![req[r].name] = u] /\ u \in UserRow \cup {Nothing}
    BY <1>2, <1>4
  <2>3. req[r].name \in Names
    BY <1>1
  <2> QED
    BY <2>1, <2>2, <2>3
<1>6. /\ project' \in [Projects -> ProjectRow \cup {Nothing}] /\ project'[req[r].project] = p
      /\ \A q \in Projects : q # req[r].project => project'[q] = project[q]
  BY <1>1, <1>3, <1>4 DEF IInv, TypeOK
<1>7. Moves(r)
  BY <1>1 DEF Moves
<1>8. UsersGrow
  BY <1>2, <1>5 DEF UsersGrow, UserOf
<1>9. ProjectsGrow /\ \A q \in Projects : project'[q] # Nothing => project[q] # Nothing
  BY <1>1, <1>3, <1>6, NoRowAssumption, SMTT(30) DEF ProjectsGrow
<1>10. UsersAreTheirs' /\ AdminsExist' /\ RunningHaveMet'
  BY <1>1, <1>7, <1>8, <1>9, UsersKept, AdminsKept, MetKept
<1>11. EmailsHaveMet' /\ ProjectsAreTheirs'
  BY <1>1, <1>7, <1>9, EmailsKept, ProjectsKept DEF Passed
<1>12. UsersProjects'
  <2> SUFFICES ASSUME NEW s \in Requests, req'[s].added
               PROVE  req'[s].pc \in {"project", "refused"} => UserOf(s)'.project = Nothing
    BY DEF UsersProjects
  <2>1. CASE s = r
    BY <1>1, <2>1 DEF Joins, Kept, SameAsked
  <2>2. CASE s # r
    <3>1. req'[s] = req[s] /\ req[s].name \in Names /\ req[s].name # req[r].name
      BY <1>1, <2>2 DEF Alone, IInv, RequestsInOrder, InOrder
    <3>2. UserOf(s)' = UserOf(s)
      BY <1>5, <3>1 DEF UserOf
    <3> QED
      BY <3>1, <3>2 DEF IInv, UsersProjects, Joins
  <2> QED
    BY <2>1, <2>2
<1> QED
  BY <1>5, <1>6, <1>7, <1>9, <1>10, <1>11, <1>12

\* What a request in the middle of its chain holds stays in order.
LEMMA ChainInOrder ==
    ASSUME IInv, NEW r \in Requests, Alone(r), Kept(r), req'[r].added,
           req[r].pc \in {"permissions", "roles", "admit"},
           \/ req'[r].pc \in {"roles", "admit", "registered"}
           \/ req'[r].pc = "use" /\ req[r].code # Nothing
    PROVE  RequestsInOrder' /\ req' \in [Requests -> Registration]
<1>1. r \in Running /\ req[r].code \in Codes \cup {Nothing}
  BY DEF Running, IInv, TypeOK, Registration
<1>2. InOrder(r)'
  BY <1>1 DEF IInv, RequestsInOrder, InOrder, Kept, SameAsked
<1> QED
  BY <1>2, OrderKept DEF Alone

LEMMA CreatePermissionsKeeps ==
    ASSUME IInv, NEW r \in Requests, CreatePermissions(r)
    PROVE  IInv'
<1>1. /\ r \in Running /\ req[r].added /\ ~Joins(r)
      /\ req[r].name \in Names /\ UserOf(r) \in UserRow
      /\ req[r].project \in Projects /\ project[req[r].project] \in ProjectRow
  BY HoldsProject DEF CreatePermissions, At
<1>2. /\ Alone(r) /\ Kept(r) /\ req'[r].pc = "roles" /\ req'[r].added
      /\ req[r].pc = "permissions"
  BY <1>1, GotoStep DEF CreatePermissions, At, IInv
<1>3. ASSUME NEW home \in Projects \cup {Nothing}, home = req[r].project,
             NEW role \in {"none", "admin"}, role = UserOf(r).role
      PROVE  /\ Moves(r) /\ ProjectsGrow
             /\ user' \in [Names -> UserRow \cup {Nothing}]
             /\ project' \in [Projects -> ProjectRow \cup {Nothing}]
             /\ UsersAreTheirs' /\ UsersProjects' /\ ProjectsAreTheirs' /\ AdminsExist'
             /\ RunningHaveMet' /\ EmailsHaveMet'
  <2>1. [UserOf(r) EXCEPT !.project = req[r].project]
          = [UserOf(r) EXCEPT !.project = home, !.role = role]
    BY <1>1, <1>3 DEF UserRow
  <2>2. user' = [user EXCEPT ![req[r].name] = [@ EXCEPT !.project = home, !.role = role]]
    BY <1>1, <2>1 DEF CreatePermissions, UserOf, IInv, TypeOK
  <2>3. project' = [project EXCEPT ![req[r].project].rights = "permissions"]
    BY DEF CreatePermissions
  <2> QED
    BY <1>2, <2>2, <2>3, OwnRowsStep
<1>4. UserOf(r).role \in {"none", "admin"}
  BY <1>1 DEF UserRow
<1>5. /\ Moves(r) /\ ProjectsGrow
      /\ user' \in [Names -> UserRow \cup {Nothing}]
      /\ project' \in [Projects -> ProjectRow \cup {Nothing}]
      /\ UsersAreTheirs' /\ UsersProjects' /\ ProjectsAreTheirs' /\ AdminsExist'
      /\ RunningHaveMet' /\ EmailsHaveMet'
  BY <1>1, <1>3, <1>4
<1>6. code' = code /\ faults' = faults
  BY DEF CreatePermissions
<1>7. RequestsInOrder' /\ TypeOK'
  BY <1>2, <1>5, <1>6, ChainInOrder DEF IInv, TypeOK
<1>8. BoundCodeIsUsed' /\ CodesAreSpent'
  BY <1>2, <1>5, <1>6, BoundKept, SpentKept DEF At, Bound, CodesGrow, Spent, Running
<1> QED
  BY <1>5, <1>7, <1>8 DEF IInv

LEMMA CreateRolesKeeps ==
    ASSUME IInv, NEW r \in Requests, CreateRoles(r)
    PROVE  IInv'
<1>1. /\ r \in Running /\ req[r].added /\ ~Joins(r)
      /\ req[r].name \in Names /\ UserOf(r) \in UserRow
      /\ req[r].project \in Projects /\ project[req[r].project] \in ProjectRow
  BY HoldsProject DEF CreateRoles, At
<1>2. /\ Alone(r) /\ Kept(r) /\ req'[r].pc = "admit" /\ req'[r].added /\ req[r].pc = "roles"
  BY <1>1, GotoStep DEF CreateRoles, At, IInv
<1>3. ASSUME NEW home \in Projects \cup {Nothing}, home = UserOf(r).project,
             NEW role \in {"none", "admin"}, role = UserOf(r).role
      PROVE  /\ Moves(r) /\ ProjectsGrow
             /\ user' \in [Names -> UserRow \cup {Nothing}]
             /\ project' \in [Projects -> ProjectRow \cup {Nothing}]
             /\ UsersAreTheirs' /\ UsersProjects' /\ ProjectsAreTheirs' /\ AdminsExist'
             /\ RunningHaveMet' /\ EmailsHaveMet'
  <2>1. UserOf(r) = [UserOf(r) EXCEPT !.project = home, !.role = role]
    BY <1>1, <1>3 DEF UserRow
  <2>2. user' = [user EXCEPT ![req[r].name] = [@ EXCEPT !.project = home, !.role = role]]
    BY <1>1, <2>1 DEF CreateRoles, UserOf, IInv, TypeOK
  <2>3. project' = [project EXCEPT ![req[r].project].rights = "roles"]
    BY DEF CreateRoles
  <2> QED
    BY <1>2, <2>2, <2>3, OwnRowsStep
<1>4. UserOf(r).role \in {"none", "admin"} /\ UserOf(r).project \in Projects \cup {Nothing}
  BY <1>1 DEF UserRow
<1>5. /\ Moves(r) /\ ProjectsGrow
      /\ user' \in [Names -> UserRow \cup {Nothing}]
      /\ project' \in [Projects -> ProjectRow \cup {Nothing}]
      /\ UsersAreTheirs' /\ UsersProjects' /\ ProjectsAreTheirs' /\ AdminsExist'
      /\ RunningHaveMet' /\ EmailsHaveMet'
  BY <1>1, <1>3, <1>4
<1>6. code' = code /\ faults' = faults
  BY DEF CreateRoles
<1>7. RequestsInOrder' /\ TypeOK'
  BY <1>2, <1>5, <1>6, ChainInOrder DEF IInv, TypeOK
<1>8. BoundCodeIsUsed' /\ CodesAreSpent'
  BY <1>2, <1>5, <1>6, BoundKept, SpentKept DEF At, Bound, CodesGrow, Spent, Running
<1> QED
  BY <1>5, <1>7, <1>8 DEF IInv

\* The code gets its project, and the request goes on to use it.
LEMMA AdmitKeeps ==
    ASSUME IInv, NEW r \in Requests, Admit(r)
    PROVE  IInv'
<1>1. /\ r \in Running /\ req[r].added /\ ~Joins(r)
      /\ req[r].name \in Names /\ UserOf(r) \in UserRow
      /\ req[r].project \in Projects /\ project[req[r].project] \in ProjectRow
      /\ project[req[r].project].admin = req[r].name
  BY HoldsProject DEF Admit, At
<1>2. /\ Alone(r) /\ Kept(r) /\ req'[r].added /\ req[r].pc = "admit"
      /\ \/ req'[r].pc = "registered" /\ req[r].code = Nothing /\ code' = code
         \/ req'[r].pc = "use" /\ req[r].code # Nothing
  <2>1. CASE req[r].code = Nothing
    BY <1>1, <2>1, GotoStep DEF Admit, At, IInv
  <2>2. CASE req[r].code # Nothing
    BY <1>1, <2>2, GotoStep DEF Admit, At, IInv
  <2> QED
    BY <2>1, <2>2
<1>3. ASSUME NEW home \in Projects \cup {Nothing}, home = UserOf(r).project,
             NEW role \in {"none", "admin"},
             role = IF project[req[r].project].rights = "roles" THEN "admin" ELSE UserOf(r).role,
             NEW rights \in {"none", "permissions", "roles"},
             rights = project[req[r].project].rights
      PROVE  /\ Moves(r) /\ ProjectsGrow
             /\ user' \in [Names -> UserRow \cup {Nothing}]
             /\ project' \in [Projects -> ProjectRow \cup {Nothing}]
             /\ UsersAreTheirs' /\ UsersProjects' /\ ProjectsAreTheirs' /\ AdminsExist'
             /\ RunningHaveMet' /\ EmailsHaveMet'
  <2>1. /\ UserOf(r) = [UserOf(r) EXCEPT !.project = home, !.role = UserOf(r).role]
        /\ [UserOf(r) EXCEPT !.role = "admin"]
             = [UserOf(r) EXCEPT !.project = home, !.role = "admin"]
    BY <1>1, <1>3 DEF UserRow
  <2>2. user' = [user EXCEPT ![req[r].name] = [@ EXCEPT !.project = home, !.role = role]]
    BY <1>1, <1>3, <2>1 DEF Admit, Roled, UserOf, IInv, TypeOK
  <2>3. project[req[r].project] = [project[req[r].project] EXCEPT !.rights = rights]
    BY <1>1, <1>3 DEF ProjectRow
  <2>4. project' = [project EXCEPT ![req[r].project].rights = rights]
    BY <1>1, <2>3 DEF Admit, IInv, TypeOK
  <2> QED
    BY <1>2, <2>2, <2>4, OwnRowsStep
<1>4. /\ UserOf(r).role \in {"none", "admin"} /\ UserOf(r).project \in Projects \cup {Nothing}
      /\ project[req[r].project].rights \in {"none", "permissions", "roles"}
  BY <1>1 DEF UserRow, ProjectRow
<1>5. /\ Moves(r) /\ ProjectsGrow
      /\ user' \in [Names -> UserRow \cup {Nothing}]
      /\ project' \in [Projects -> ProjectRow \cup {Nothing}]
      /\ UsersAreTheirs' /\ UsersProjects' /\ ProjectsAreTheirs' /\ AdminsExist'
      /\ RunningHaveMet' /\ EmailsHaveMet'
  BY <1>1, <1>3, <1>4
<1>6. RequestsInOrder' /\ req' \in [Requests -> Registration]
  BY <1>2, ChainInOrder
<1>7. /\ code' \in [Codes -> CodeRow]
      /\ \A c \in Codes : /\ code'[c].state = code[c].state /\ (code'[c].used <=> code[c].used)
                          /\ \/ code'[c].project = code[c].project
                             \/ c = req[r].code /\ code'[c].project = req[r].project
  <2>1. code \in [Codes -> CodeRow] /\ req[r].code \in Codes \cup {Nothing}
    BY DEF IInv, TypeOK, Registration
  <2>2. CASE code' = code
    BY <2>1, <2>2
  <2>3. CASE code' # code
    <3>1. req[r].code \in Codes /\ code' = [code EXCEPT ![req[r].code].project = req[r].project]
      BY <2>1, <2>3 DEF Admit
    <3> QED
      BY <1>1, <2>1, <3>1 DEF CodeRow
  <2> QED
    BY <2>2, <2>3
<1>8. TypeOK'
  BY <1>5, <1>6, <1>7 DEF Admit, IInv, TypeOK
<1>9. BoundCodeIsUsed'
  <2>1. ASSUME NEW c \in Codes, Bound(c)'
        PROVE  Bound(c) \/ (r \in Admitted(c)' /\ At(r, "use")')
    <3>1. CASE code'[c].project = code[c].project
      BY <1>7, <2>1, <3>1 DEF Bound
    <3>2. CASE c = req[r].code /\ code'[c].project = req[r].project
      BY <1>2, <3>2, NothingAssumption DEF Admitted, At, Kept, SameAsked
    <3> QED
      BY <1>7, <3>1, <3>2
  <2> QED
    BY <1>2, <1>5, <2>1, BoundKept DEF At
<1>10. CodesAreSpent'
  <2>1. CodesGrow
    BY <1>7 DEF CodesGrow, Spent
  <2>2. r \in Running' \/ req'[r].code = Nothing
    BY <1>2 DEF Running, Kept, SameAsked
  <2> QED
    BY <1>5, <2>1, <2>2, SpentKept, NothingAssumption
<1> QED
  BY <1>5, <1>6, <1>8, <1>9, <1>10 DEF IInv

\* The code is spent, whoever registered with it.
LEMMA UseCodeKeeps ==
    ASSUME IInv, NEW r \in Requests, UseCode(r)
    PROVE  IInv'
<1>1. r \in Running /\ req[r].added /\ req[r].code \in Codes /\ req[r].pc = "use"
  BY DEF UseCode, At, Running, IInv, RequestsInOrder, InOrder
<1>2. Alone(r) /\ Kept(r) /\ req'[r].pc = "registered" /\ req'[r].added
  BY <1>1, GotoStep DEF UseCode, IInv
<1>3. user' = user /\ project' = project /\ faults' = faults
  BY DEF UseCode
<1>4. Moves(r) /\ UsersGrow /\ ProjectsGrow
  BY <1>1, <1>2, <1>3 DEF Moves, UsersGrow, ProjectsGrow
<1>5. /\ code' \in [Codes -> CodeRow] /\ Spent(req[r].code)'
      /\ \A c \in Codes : /\ code'[c].project = code[c].project /\ (Spent(c) => Spent(c)')
                          /\ Bound(c)' => Bound(c) /\ c # req[r].code
  <2>1. code \in [Codes -> CodeRow]
    BY DEF IInv, TypeOK
  <2>2. CASE code[req[r].code].state = "deleted"
    <3>1. code' = code
      BY <2>2 DEF UseCode
    <3>2. req'[r].code = req[r].code
      BY <1>2 DEF Kept, SameAsked
    <3> QED
      BY <2>1, <2>2, <3>1, <3>2 DEF Spent, Bound
  <2>3. CASE code[req[r].code].state # "deleted"
    <3>1. code' = [code EXCEPT ![req[r].code].used = TRUE]
      BY <2>3 DEF UseCode
    <3>2. req'[r].code = req[r].code
      BY <1>2 DEF Kept, SameAsked
    <3> QED
      BY <1>1, <2>1, <3>1, <3>2 DEF Spent, Bound, CodeRow
  <2> QED
    BY <2>2, <2>3
<1>6. RequestsInOrder' /\ TypeOK'
  <2>1. InOrder(r)'
    BY <1>1, <1>2 DEF IInv, RequestsInOrder, InOrder, Kept, SameAsked, Running
  <2> QED
    BY <1>2, <1>3, <1>5, <2>1, OrderKept DEF IInv, TypeOK, Alone
<1>7. UsersAreTheirs' /\ UsersProjects' /\ ProjectsAreTheirs' /\ AdminsExist'
  BY <1>1, <1>2, <1>3, <1>4, UsersKept, UsersProjectsKept, ProjectsKept, AdminsKept
<1>8. RunningHaveMet' /\ EmailsHaveMet' /\ BoundCodeIsUsed'
  BY <1>1, <1>4, <1>5, MetKept, EmailsKept, BoundKept DEF Passed
<1>9. CodesAreSpent'
  BY <1>4, <1>5, SpentKept DEF CodesGrow
<1> QED
  BY <1>6, <1>7, <1>8, <1>9 DEF IInv

-----------------------------------------------------------------------------
(* A request begins, the owner acts.                                       *)

\* Everything a request was asked to do, and has done, stays; it may meet others.
LEMMA BeginsKeeps ==
    ASSUME IInv, NEW r \in Requests, NEW asked \in Registration, Begins(r, asked),
           UNCHANGED <<rows, faults>>,
           asked.met = {}, ~asked.added, ~asked.struck,
           \/ asked.pc = "refused" /\ asked = [Unasked EXCEPT !.pc = "refused"]
           \/ /\ asked.pc = "check" /\ asked.name \in Names /\ asked.project \in Projects
              /\ \/ asked.code = Nothing /\ asked.seen = Nothing
                 \/ /\ asked.code \in Codes /\ Admissible(asked.code)
                    /\ asked.seen = code[asked.code].project
    PROVE  IInv'
<1> DEFINE new == [asked EXCEPT !.met = Running]
<1>1. /\ req \in [Requests -> Registration] /\ r \notin Running /\ ~req[r].added
      /\ req[r].seen = Nothing /\ req[r].code = Nothing
  BY DEF IInv, TypeOK, Begins, At, RequestsInOrder, InOrder, Running, Unasked
<1>2. /\ new \in Registration /\ new.met = Running
      /\ new.pc = asked.pc /\ new.name = asked.name /\ new.email = asked.email
      /\ new.project = asked.project /\ new.code = asked.code /\ new.seen = asked.seen
      /\ ~new.added /\ ~new.struck
  BY DEF Registration, Running
<1> HIDE DEF new
<1>3. req'[r] = new
  <2>1. req'[r] = CASE r = r -> [asked EXCEPT !.met = Running]
                    [] r \in Running -> [req[r] EXCEPT !.met = @ \cup {r}]
                    [] OTHER -> req[r]
    BY DEF Begins
  <2> QED
    BY <1>1, <2>1 DEF new
<1>4. \A s \in Requests \ {r} :
          /\ req'[s] \in Registration /\ SameAsked([req'[s] EXCEPT !.met = req[s].met], req[s])
          /\ req'[s].pc = req[s].pc /\ (req'[s].added <=> req[s].added)
          /\ (req'[s].struck <=> req[s].struck)
          /\ req[s].met \subseteq req'[s].met /\ (s \in Running => r \in req'[s].met)
  <2> SUFFICES ASSUME NEW s \in Requests \ {r}
               PROVE  /\ req'[s] \in Registration
                      /\ SameAsked([req'[s] EXCEPT !.met = req[s].met], req[s])
                      /\ req'[s].pc = req[s].pc /\ (req'[s].added <=> req[s].added)
                      /\ (req'[s].struck <=> req[s].struck)
                      /\ req[s].met \subseteq req'[s].met /\ (s \in Running => r \in req'[s].met)
    OBVIOUS
  <2>1. req[s] \in Registration
    BY <1>1
  <2>2. CASE s \in Running
    <3>1. req'[s] = [req[s] EXCEPT !.met = @ \cup {r}]
      BY <2>2 DEF Begins
    <3> QED
      BY <2>1, <3>1 DEF Registration, SameAsked
  <2>3. CASE s \notin Running
    <3>1. req'[s] = req[s]
      BY <2>3 DEF Begins
    <3> QED
      BY <2>1, <2>3, <3>1 DEF Registration, SameAsked
  <2> QED
    BY <2>2, <2>3
<1>5. \A s \in Requests \ {r} :
          /\ req'[s].name = req[s].name /\ req'[s].email = req[s].email
          /\ req'[s].project = req[s].project /\ req'[s].code = req[s].code
          /\ req'[s].seen = req[s].seen
          /\ req'[s].pc = req[s].pc /\ (req'[s].added <=> req[s].added)
          /\ (req'[s].struck <=> req[s].struck)
          /\ req[s].met \subseteq req'[s].met /\ (s \in Running => r \in req'[s].met)
  BY <1>4 DEF SameAsked, Registration
<1>6. Running' = IF asked.pc = "check" THEN Running \cup {r} ELSE Running
  <2>1. asked.pc \in {"check", "refused"} /\ req'[r].pc = asked.pc
    BY <1>2, <1>3 DEF Unasked
  <2>2. \A s \in Requests \ {r} : s \in Running' <=> s \in Running
    BY <1>5 DEF Running
  <2>3. r \in Running' <=> asked.pc = "check"
    BY <2>1 DEF Running
  <2> QED
    BY <1>1, <2>2, <2>3 DEF Running
<1>7. user' = user /\ project' = project /\ code' = code /\ faults' = faults
  BY DEF rows
<1>8. TypeOK'
  BY <1>1, <1>2, <1>3, <1>4, <1>7 DEF IInv, TypeOK, Begins
<1>9. RequestsInOrder'
  <2>1. InOrder(r)'
    <3>1. CASE asked.pc = "refused"
      <4>1. asked.name = Nothing /\ asked.email = Nothing /\ asked.code = Nothing /\ asked.seen = Nothing
        BY <3>1 DEF Unasked
      <4> QED
        BY <1>1, <1>2, <1>3, <1>6, <3>1, <4>1 DEF InOrder
    <3>2. CASE asked.pc = "check"
      BY <1>2, <1>3, <3>2 DEF InOrder
    <3> QED
      BY <3>1, <3>2
  <2>2. ASSUME NEW s \in Requests \ {r}
        PROVE  InOrder(s)'
    <3>1. req[s].pc = "new" => req'[s] = req[s]
      BY DEF Begins, Running
    <3> QED
      BY <1>5, <1>6, <3>1 DEF IInv, RequestsInOrder, InOrder
  <2> QED
    BY <2>1, <2>2 DEF RequestsInOrder
<1>10. UsersAreTheirs' /\ UsersProjects'
  BY <1>2, <1>3, <1>5, <1>7 DEF IInv, UsersAreTheirs, UsersProjects, UserOf
<1>11. ProjectsAreTheirs' /\ AdminsExist'
  BY <1>2, <1>3, <1>5, <1>7 DEF IInv, ProjectsAreTheirs, AdminsExist, ProjectTaken
<1>13. BoundCodeIsUsed'
  <2> SUFFICES ASSUME NEW c \in Codes, Bound(c)
               PROVE  \E s \in Admitted(c)' : At(s, "use")' \/ req'[s].struck
    BY <1>7 DEF BoundCodeIsUsed, Bound
  <2>1. PICK s \in Admitted(c) : At(s, "use") \/ req[s].struck
    BY DEF IInv, BoundCodeIsUsed
  <2>2. s \in Requests \ {r}
    BY <1>1 DEF Admitted
  <2> QED
    BY <1>5, <2>1, <2>2 DEF Admitted, At
<1>14. RunningHaveMet'
  <2> SUFFICES ASSUME NEW a \in Running', NEW b \in Running', a # b
               PROVE  Met(a, b)'
    BY DEF RunningHaveMet
  <2>1. a \in Requests /\ b \in Requests
    BY DEF Running
  <2>2. CASE a # r /\ b # r
    <3>1. a \in Running /\ b \in Running
      BY <1>6, <2>2
    <3> QED
      BY <1>5, <2>1, <2>2, <3>1 DEF IInv, RunningHaveMet, Met
  <2>3. CASE a = r \/ b = r
    BY <1>2, <1>3, <1>5, <1>6, <2>1, <2>3 DEF Met
  <2> QED
    BY <2>2, <2>3
<1>15. EmailsHaveMet'
  <2>1. \A s \in Requests : Passed(s)' => s # r /\ Passed(s)
    BY <1>2, <1>3, <1>5 DEF Passed, At
  <2>2. \A s \in Requests : req'[s].added => s # r /\ req[s].added
    BY <1>2, <1>3, <1>5
  <2> QED
    BY <1>5, <2>1, <2>2 DEF IInv, EmailsHaveMet, Met
<1>16. CodesAreSpent'
  <2>1. ASSUME NEW a \in Requests \ Running', req'[a].code \in Codes
        PROVE  req'[a].struck \/ Spent(req[a].code)'
    <3>1. a # r
      BY <1>2, <1>3, <1>6, <2>1, NothingAssumption DEF Unasked
    <3>2. a \notin Running
      BY <1>6, <2>1
    <3> QED
      BY <1>5, <1>7, <2>1, <3>1, <3>2 DEF IInv, CodesAreSpent, Spent
  <2>2. ASSUME NEW b \in Requests \ {r}, asked.code \in Codes, asked.code = req[b].code
        PROVE  Met(r, b)' \/ req'[b].struck
    <3>1. CASE b \in Running
      BY <1>2, <1>3, <1>5, <3>1 DEF Met
    <3>2. CASE b \notin Running
      <4>1. ~Spent(asked.code)
        BY <2>2, NothingAssumption DEF Admissible, Spent, Unasked
      <4> QED
        BY <1>5, <2>2, <3>2, <4>1 DEF IInv, CodesAreSpent
    <3> QED
      BY <3>1, <3>2
  <2>3. ASSUME NEW a \in Requests, NEW b \in Requests, a # b,
               req'[a].code \in Codes, req'[a].code = req'[b].code
        PROVE  Met(a, b)' \/ req'[a].struck \/ req'[b].struck
    <3>1. CASE a # r /\ b # r
      BY <1>5, <2>3, <3>1 DEF IInv, CodesAreSpent, Met
    <3>2. CASE a = r
      BY <1>2, <1>3, <1>5, <2>2, <2>3, <3>2
    <3>3. CASE b = r
      <4>1. Met(b, a)' \/ req'[a].struck
        BY <1>2, <1>3, <1>5, <2>2, <2>3, <3>3
      <4> QED
        BY <4>1 DEF Met
    <3> QED
      BY <3>1, <3>2, <3>3
  <2> QED
    BY <2>1, <2>3 DEF CodesAreSpent
<1> QED
  BY <1>8, <1>9, <1>10, <1>11, <1>13, <1>14, <1>15, <1>16 DEF IInv

LEMMA ArrivesKeeps ==
    ASSUME IInv, NEW r \in Requests, Arrives(r)
    PROVE  IInv'
<1>1. PICK n \in Names, p \in Projects :
          \/ \E e \in Emails : Register(r, n, e, p)
          \/ \E e \in Emails \cup {Nothing}, c \in Codes : RegisterWithInvite(r, n, e, p, c)
  BY DEF Arrives
<1>2. ASSUME NEW e \in Emails, Register(r, n, e, p)
      PROVE  IInv'
  <2> DEFINE asked == [Unasked EXCEPT !.pc = "check", !.name = n, !.email = e, !.project = p]
  <2>1. /\ asked \in Registration /\ asked.met = {} /\ ~asked.added /\ ~asked.struck
        /\ asked.pc = "check" /\ asked.name = n /\ asked.project = p
        /\ asked.code = Nothing /\ asked.seen = Nothing
    BY DEF Unasked, Registration
  <2>2. Begins(r, asked) /\ UNCHANGED <<rows, faults>>
    BY <1>2 DEF Register
  <2> HIDE DEF asked
  <2> QED
    BY <2>1, <2>2, BeginsKeeps
<1>3. ASSUME NEW e \in Emails \cup {Nothing}, NEW c \in Codes, RegisterWithInvite(r, n, e, p, c)
      PROVE  IInv'
  <2>1. CASE Admissible(c)
    <3> DEFINE asked == [Unasked EXCEPT !.pc = "check", !.name = n, !.email = e, !.project = p,
                                        !.code = c, !.seen = code[c].project]
    <3>1. code[c].project \in Projects \cup {Nothing}
      BY DEF IInv, TypeOK, CodeRow
    <3>2. /\ asked \in Registration /\ asked.met = {} /\ ~asked.added /\ ~asked.struck
          /\ asked.pc = "check" /\ asked.name = n /\ asked.project = p
          /\ asked.code = c /\ asked.seen = code[c].project
      BY <3>1 DEF Unasked, Registration
    <3>3. Begins(r, asked) /\ UNCHANGED <<rows, faults>>
      BY <1>3, <2>1 DEF RegisterWithInvite
    <3> HIDE DEF asked
    <3> QED
      BY <2>1, <3>2, <3>3, BeginsKeeps
  <2>2. CASE ~Admissible(c)
    <3> DEFINE asked == [Unasked EXCEPT !.pc = "refused"]
    <3>1. /\ asked \in Registration /\ asked.met = {} /\ ~asked.added /\ ~asked.struck
          /\ asked.pc = "refused"
      BY DEF Unasked, Registration
    <3>2. Begins(r, asked) /\ UNCHANGED <<rows, faults>>
      BY <1>3, <2>2 DEF RegisterWithInvite
    <3> QED
      BY <3>1, <3>2, BeginsKeeps
  <2> QED
    BY <2>1, <2>2
<1> QED
  BY <1>1, <1>2, <1>3

LEMMA OwnerActsKeeps ==
    ASSUME IInv, OwnerActs
    PROVE  IInv'
<1>1. /\ user' = user /\ project' = project /\ req' = req /\ faults' = faults
      /\ code' \in [Codes -> CodeRow]
      /\ \A c \in Codes : code'[c].project = code[c].project /\ (Spent(c) => Spent(c)')
  <2>1. PICK c \in Codes : CreateCode(c) \/ DeleteCode(c) \/ CodeLapses(c)
    BY DEF OwnerActs
  <2>2. PICK state \in {"valid", "deleted", "lapsed"} :
            /\ code' = [code EXCEPT ![c].state = state]
            /\ code[c].state # "deleted"
    BY <2>1 DEF CreateCode, DeleteCode, CodeLapses
  <2>3. code \in [Codes -> CodeRow]
    BY DEF IInv, TypeOK
  <2> QED
    BY <2>1, <2>2, <2>3 DEF CreateCode, DeleteCode, CodeLapses, CodeRow, Spent
<1>2. Running' = Running
  BY <1>1 DEF Running
<1>3. TypeOK' /\ RequestsInOrder' /\ UsersAreTheirs' /\ UsersProjects' /\ ProjectsAreTheirs'
  BY <1>1, <1>2 DEF IInv, TypeOK, RequestsInOrder, InOrder, UsersAreTheirs, UsersProjects,
                    ProjectsAreTheirs, UserOf, Joins, ProjectTaken
<1>4. AdminsExist' /\ RunningHaveMet' /\ EmailsHaveMet'
  BY <1>1, <1>2 DEF IInv, AdminsExist, RunningHaveMet, EmailsHaveMet, Passed, At, Met
<1>5. BoundCodeIsUsed'
  <2>1. \A c \in Codes : Bound(c)' => Bound(c)
    BY <1>1 DEF Bound, Spent
  <2> QED
    BY <1>1, <2>1 DEF IInv, BoundCodeIsUsed, Admitted, At
<1>6. CodesAreSpent'
  BY <1>1, <1>2 DEF IInv, CodesAreSpent, Met
<1> QED
  BY <1>3, <1>4, <1>5, <1>6 DEF IInv

LEMMA IdleKeeps == IInv /\ UNCHANGED vars => IInv'
BY DEF vars, IInv, TypeOK, RequestsInOrder, InOrder, UsersAreTheirs, UsersProjects,
       ProjectsAreTheirs, AdminsExist, BoundCodeIsUsed, Bound, Admitted, RunningHaveMet,
       EmailsHaveMet, CodesAreSpent, UserOf, Joins, ProjectTaken, Passed, At, Met, Spent, Running

-----------------------------------------------------------------------------
(* The theorems.                                                           *)

LEMMA InitHolds == Init => IInv
<1> SUFFICES ASSUME Init PROVE IInv
  OBVIOUS
<1>1. /\ user = [n \in Names |-> Nothing] /\ project = [p \in Projects |-> Nothing]
      /\ \A c \in Codes : code[c].project = Nothing
      /\ \A r \in Requests : req[r] = Unasked
  BY DEF Init
<1>2. TypeOK
  BY UnaskedType, FaultsAssumption DEF Init, TypeOK, CodeRow
<1>3. Running = {} /\ RequestsInOrder
  <2>1. Running = {}
    BY <1>1 DEF Running, Unasked
  <2>2. RequestsInOrder
    <3>1. Unasked.pc = "new" /\ ~Unasked.added /\ Unasked.seen = Nothing
      BY DEF Unasked
    <3> QED
      BY <1>1, <2>1, <3>1 DEF RequestsInOrder, InOrder
  <2> QED
    BY <2>1, <2>2
<1>4. UsersAreTheirs /\ UsersProjects /\ ProjectsAreTheirs /\ AdminsExist
  BY <1>1 DEF Unasked, UsersAreTheirs, UsersProjects, ProjectsAreTheirs, AdminsExist
<1>5. BoundCodeIsUsed /\ RunningHaveMet /\ EmailsHaveMet /\ CodesAreSpent
  BY <1>1, <1>3, NothingAssumption
     DEF Unasked, BoundCodeIsUsed, Bound, RunningHaveMet, EmailsHaveMet, CodesAreSpent
<1> QED
  BY <1>2, <1>3, <1>4, <1>5 DEF IInv

LEMMA NextHolds == IInv /\ [Next]_vars => IInv'
<1> SUFFICES ASSUME IInv, [Next]_vars PROVE IInv'
  OBVIOUS
<1>1. CASE OwnerActs
  BY <1>1, OwnerActsKeeps
<1>2. ASSUME NEW r \in Requests, Arrives(r)
      PROVE  IInv'
  BY <1>2, ArrivesKeeps
<1>3. ASSUME NEW r \in Requests, Advances(r)
      PROVE  IInv'
  BY <1>3, CheckKeeps, CreateUserKeeps, CreateProjectKeeps, CreateUserAndProjectKeeps,
     JoinProjectKeeps, CreatePermissionsKeeps, CreateRolesKeeps, AdmitKeeps, CutOffKeeps,
     UseCodeKeeps DEF Advances
<1>4. ASSUME NEW r \in Requests, Struck(r)
      PROVE  IInv'
  BY <1>4, InitializeFailsKeeps, UseCodeFailsKeeps, CutOffKeeps DEF Struck
<1>5. CASE UNCHANGED vars
  BY <1>5, IdleKeeps
<1> QED
  BY <1>1, <1>2, <1>3, <1>4, <1>5 DEF Next, Rest

LEMMA RegistrationInvariant == Spec => []IInv
BY InitHolds, NextHolds, PTL DEF Spec

\* The variables stay in their types.
THEOREM RegistrationTyped == Spec => []TypeOK
<1>1. IInv => TypeOK
  BY DEF IInv
<1> QED
  BY <1>1, RegistrationInvariant, PTL

\* A project code makes a second user only for registrations that overlapped, or
\* when a fault kept one of them from marking the code: use_invite_code comes in a
\* later transaction than validate_invite_code.
THEOREM CodeIsForOne == Spec => []CodeAdmitsOnce
<1>1. IInv => CodeAdmitsOnce
  BY DEF IInv, CodesAreSpent, CodeAdmitsOnce, Admitted, Met
<1> QED
  BY <1>1, RegistrationInvariant, PTL

\* A code that has its project and is not used was left so by a fault, or the
\* registration that made the project is still about to use it.
THEOREM BoundCodesAreUsed == Spec => []BoundCodeIsUsed
<1>1. IInv => BoundCodeIsUsed
  BY DEF IInv
<1> QED
  BY <1>1, RegistrationInvariant, PTL

\* Two users have one email only when their registrations overlapped: no column is
\* unique, the look-up of the email is all there is.
THEOREM EmailsOverlap == Spec => []EmailTwiceNeedsOverlap
<1>1. IInv => EmailTwiceNeedsOverlap
  BY DEF IInv, EmailsHaveMet, EmailTwiceNeedsOverlap, Passed, Met
<1> QED
  BY <1>1, RegistrationInvariant, PTL

\* A registration that is refused leaves no row, but for the user of /register
\* whose project has a name that is taken.
THEOREM RefusalIsClean == Spec => []RefusedLeavesNothing
<1>1. ASSUME IInv PROVE RefusedLeavesNothing
  <2> SUFFICES ASSUME NEW r \in Requests, At(r, "refused"), req[r].added
               PROVE  /\ req[r].code = Nothing
                      /\ ProjectTaken(r)
                      /\ project[req[r].project].admin # req[r].name
                      /\ UserOf(r).project = Nothing
    BY DEF RefusedLeavesNothing
  <2>1. req[r].project \in Projects
    BY <1>1 DEF IInv, RequestsInOrder, InOrder
  <2> QED
    BY <1>1, <2>1 DEF IInv, ProjectsAreTheirs, UsersProjects, At, ProjectTaken
<1> QED
  BY <1>1, RegistrationInvariant, PTL
=============================================================================
