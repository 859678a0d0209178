---------------------------- MODULE Registration ----------------------------
(***************************************************************************)
(* How users and projects come to be: POST /register makes a user and a    *)
(* project of its own, POST /register-with-invite does so with a project   *)
(* code.  With a code that belongs to a project already it fails.          *)
(*                                                                         *)
(* A registration is a chain of transactions: every service it calls       *)
(* commits what the session holds.  A request that is cut off leaves what  *)
(* it had committed, and nothing takes it up again.  User names and names  *)
(* of projects are unique columns; that an email is free is only looked    *)
(* up.  Users, projects and codes stand for their rows; a user is known by *)
(* the name, a code by its normalised text.                                *)
(***************************************************************************)
EXTENDS Integers

CONSTANTS
    Requests,   \* bound: the registrations of a behaviour
    Names,      \* usernames
    Emails,
    Projects,   \* names of projects
    Codes,      \* project invite codes
    Nothing,    \* NULL, or no row
    MaxFaults   \* bound: the faults of a behaviour

ASSUME NothingAssumption == Nothing \notin Names \cup Emails \cup Projects \cup Codes
ASSUME FaultsAssumption == MaxFaults \in Nat

VARIABLES
    user,     \* the User rows
    project,  \* the Project rows
    code,     \* the ProjectInviteCode rows
    req,      \* the registrations
    faults    \* how many faults have struck

vars == <<user, project, code, req, faults>>
rows == <<user, project, code>>

-----------------------------------------------------------------------------
UserRow == [email : Emails \cup {Nothing}, project : Projects \cup {Nothing},
            role : {"none", "admin"}]

\* "rights": which of the default permissions and roles are there.
ProjectRow == [admin : Names, rights : {"none", "permissions", "roles"}]

CodeRow == [state : {"unborn", "valid", "lapsed", "deleted"}, used : BOOLEAN,
            project : Projects \cup {Nothing}]

ASSUME NoRowAssumption == Nothing \notin UserRow \cup ProjectRow

Steps == {"new", "check", "user", "project", "permissions", "roles", "admit", "use",
          "registered", "refused", "failed", "lost"}

\* What is asked for; the project of the code when it was validated; history:
\* whether the request has made its user, whether a fault struck it, and the
\* requests that ran while it did.
Registration == [pc : Steps, name : Names \cup {Nothing}, email : Emails \cup {Nothing},
                 project : Projects \cup {Nothing}, code : Codes \cup {Nothing},
                 seen : Projects \cup {Nothing}, added : BOOLEAN, struck : BOOLEAN,
                 met : SUBSET Requests]

Unasked == [pc |-> "new", name |-> Nothing, email |-> Nothing, project |-> Nothing,
            code |-> Nothing, seen |-> Nothing, added |-> FALSE, struck |-> FALSE, met |-> {}]

Over == {"registered", "refused", "failed", "lost"}
Running == {r \in Requests : req[r].pc \notin Over \cup {"new"}}

At(r, pc) == req[r].pc = pc
Goto(r, pc) == req' = [req EXCEPT ![r].pc = pc]
\* What ends before it has made its user is forgotten.
Ends(r, pc, struck) ==
    req' = [req EXCEPT ![r] = IF req[r].added THEN [@ EXCEPT !.pc = pc, !.struck = struck]
                              ELSE [Unasked EXCEPT !.pc = pc]]
Added(r, pc) == req' = [req EXCEPT ![r].pc = pc, ![r].added = TRUE]

\* The code of the registration had a project when it was validated.
Joins(r) == req[r].seen # Nothing

UserOf(r) == user[req[r].name]

NewUserUnclean(r) == [user EXCEPT ![req[r].name] =
                        [email |-> req[r].email, project |-> Nothing, role |-> "user"]]

NewUser(r) == [user EXCEPT ![req[r].name] =
                  [email |-> req[r].email, project |-> Nothing, role |-> "none"]]
NewProject(r) == [project EXCEPT ![req[r].project] = [admin |-> req[r].name, rights |-> "none"]]
NameTaken(r) == UserOf(r) # Nothing

EmailTakenInProject(r) == \E n \in Names : /\ user[n] # Nothing
                                           /\ user[n].email # Nothing
                                           /\ user[n].email = req[r].email
                                           /\ user[n].project = req[r].project

EmailTaken(r) == \E n \in Names : /\ user[n] # Nothing
                                  /\ user[n].email # Nothing
                                  /\ user[n].email = req[r].email
ProjectTaken(r) == project[req[r].project] # Nothing

\* The request begins among those that run.
Begins(r, asked) ==
    /\ At(r, "new")
    /\ req' = [s \in Requests |->
                 CASE s = r -> [asked EXCEPT !.met = Running]
                   [] s \in Running -> [req[s] EXCEPT !.met = @ \cup {r}]
                   [] OTHER -> req[s]]

-----------------------------------------------------------------------------
(* The owner makes a code, which belongs to no project yet, deletes it, or *)
(* lets it expire.                                                         *)

CreateCode(c) ==
    /\ code[c].state = "unborn"
    /\ code' = [code EXCEPT ![c].state = "valid"]
    /\ UNCHANGED <<user, project, req, faults>>

DeleteCode(c) ==
    /\ code[c].state \in {"valid", "lapsed"}
    /\ code' = [code EXCEPT ![c].state = "deleted"]
    /\ UNCHANGED <<user, project, req, faults>>

CodeLapses(c) ==
    /\ code[c].state = "valid"
    /\ code' = [code EXCEPT ![c].state = "lapsed"]
    /\ UNCHANGED <<user, project, req, faults>>

-----------------------------------------------------------------------------
\* POST /register.
Register(r, n, e, p) ==
    /\ Begins(r, [Unasked EXCEPT !.pc = "check", !.name = n, !.email = e, !.project = p])
    /\ UNCHANGED <<rows, faults>>

Admissible(c) == code[c].state = "valid" /\ ~code[c].used

\* POST /register-with-invite, up to the answer of validate_invite_code.
RegisterWithInvite(r, n, e, p, c) ==
    /\ Begins(r, IF Admissible(c)
                 THEN [Unasked EXCEPT !.pc = "check", !.name = n, !.email = e, !.project = p,
                                      !.code = c, !.seen = code[c].project]
                 ELSE [Unasked EXCEPT !.pc = "refused"])
    /\ UNCHANGED <<rows, faults>>

\* The name and the email are looked up.
Check(r) ==
    /\ At(r, "check")
    /\ IF NameTaken(r) \/ EmailTaken(r) THEN Ends(r, "refused", FALSE) ELSE Goto(r, "user")
    /\ UNCHANGED <<rows, faults>>

\* create_user of /register commits.
CreateUser(r) ==
    /\ At(r, "user") /\ req[r].code = Nothing
    /\ IF NameTaken(r)
       THEN Ends(r, "refused", FALSE) /\ UNCHANGED user
       ELSE Added(r, "project") /\ user' = NewUser(r)
    /\ UNCHANGED <<project, code, faults>>

\* create_project of /register: the user stays when the name is taken.
CreateProject(r) ==
    /\ At(r, "project")
    /\ IF ProjectTaken(r)
       THEN Ends(r, "refused", FALSE) /\ UNCHANGED project
       ELSE Goto(r, "permissions") /\ project' = NewProject(r)
    /\ UNCHANGED <<user, code, faults>>

CreateUserThenProject(r) ==
    /\ At(r, "user") /\ req[r].code # Nothing /\ ~Joins(r)
    /\ IF NameTaken(r)
       THEN Ends(r, "refused", FALSE) /\ UNCHANGED <<user, project>>
       ELSE /\ user' = NewUser(r)
            /\ IF ProjectTaken(r)
               THEN Added(r, "refused") /\ UNCHANGED project
               ELSE Added(r, "permissions") /\ project' = NewProject(r)
    /\ UNCHANGED <<code, faults>>

\* With a code without a project, create_project commits the flushed user too
\* or rolls it back.
CreateUserAndProject(r) ==
    /\ At(r, "user") /\ req[r].code # Nothing /\ ~Joins(r)
    /\ IF NameTaken(r) \/ ProjectTaken(r)
       THEN Ends(r, "refused", FALSE) /\ UNCHANGED <<user, project>>
       ELSE /\ Added(r, "permissions")
            /\ user' = NewUser(r)
            /\ project' = NewProject(r)
    /\ UNCHANGED <<code, faults>>

\* With a code of a project the handler calls get_user_permission_service, a name
\* it binds for referral codes only: the flushed user is rolled back.
JoinProject(r) ==
    /\ At(r, "user") /\ Joins(r)
    /\ Ends(r, "failed", FALSE)
    /\ UNCHANGED <<rows, faults>>

\* _create_permissions commits, and with it the project_id of the user.
CreatePermissions(r) ==
    /\ At(r, "permissions")
    /\ user' = [user EXCEPT ![req[r].name].project = req[r].project]
    /\ project' = [project EXCEPT ![req[r].project].rights = "permissions"]
    /\ Goto(r, "roles")
    /\ UNCHANGED <<code, faults>>

CreateRoles(r) ==
    /\ At(r, "roles")
    /\ project' = [project EXCEPT ![req[r].project].rights = "roles"]
    /\ Goto(r, "admit")
    /\ UNCHANGED <<user, code, faults>>

\* initialize_default_data swallows a failure; what was not committed is gone,
\* and either the session serves the rest of the handler or it does not.
InitializeFails(r) ==
    /\ req[r].pc \in {"permissions", "roles"} /\ faults < MaxFaults
    /\ \E pc \in {"admit", "failed"} :
           req' = [req EXCEPT ![r].pc = pc, ![r].struck = TRUE]
    /\ faults' = faults + 1
    /\ UNCHANGED rows

Roled(r) == IF project[req[r].project].rights = "roles"
            THEN [user EXCEPT ![req[r].name].role = "admin"]
            ELSE user

AdmitAtOnce(r) ==
    /\ At(r, "admit")
    /\ user' = Roled(r)
    /\ Goto(r, "registered")
    /\ UNCHANGED <<project, code, faults>>

\* The role of the user and the project of the code, in one transaction.  A code
\* that is deleted is passed over, or fails the transaction if it was read.
Admit(r) ==
    /\ At(r, "admit")
    /\ user' = Roled(r)
    /\ IF req[r].code = Nothing
       THEN Goto(r, "registered") /\ UNCHANGED code
       ELSE /\ Goto(r, "use")
            /\ code' = IF code[req[r].code].state = "deleted" THEN code
                       ELSE [code EXCEPT ![req[r].code].project = req[r].project]
    /\ UNCHANGED <<project, faults>>

AdmitFails(r) ==
    /\ At(r, "admit") /\ req[r].code # Nothing
    /\ code[req[r].code].state = "deleted"
    /\ Ends(r, "failed", TRUE)
    /\ UNCHANGED <<rows, faults>>

UseCodeValid(r) ==
    /\ At(r, "use")
    /\ code' = IF code[req[r].code].state = "valid"
               THEN [code EXCEPT ![req[r].code].used = TRUE] ELSE code
    /\ Goto(r, "registered")
    /\ UNCHANGED <<user, project, faults>>

\* use_invite_code; that the code is gone is only logged.
UseCode(r) ==
    /\ At(r, "use")
    /\ code' = IF code[req[r].code].state = "deleted" THEN code
               ELSE [code EXCEPT ![req[r].code].used = TRUE]
    /\ Goto(r, "registered")
    /\ UNCHANGED <<user, project, faults>>

\* The answer is the same when the use could not be committed.
UseCodeFails(r) ==
    /\ At(r, "use") /\ faults < MaxFaults
    /\ req' = [req EXCEPT ![r].pc = "registered", ![r].struck = TRUE]
    /\ faults' = faults + 1
    /\ UNCHANGED rows

-----------------------------------------------------------------------------
\* Any other query or commit fails: the client is told so.
Fails(r) ==
    /\ req[r].pc \in {"check", "user", "project", "admit"} /\ faults < MaxFaults
    /\ Ends(r, "failed", TRUE)
    /\ faults' = faults + 1
    /\ UNCHANGED rows

\* The process that serves the request dies.
Dies(r) ==
    /\ r \in Running /\ faults < MaxFaults
    /\ Ends(r, "lost", TRUE)
    /\ faults' = faults + 1
    /\ UNCHANGED rows

Rest ==
    /\ \A r \in Requests : req[r].pc \in Over
    /\ UNCHANGED vars

Init ==
    /\ user = [n \in Names |-> Nothing]
    /\ project = [p \in Projects |-> Nothing]
    /\ code = [c \in Codes |-> [state |-> "unborn", used |-> FALSE, project |-> Nothing]]
    /\ req = [r \in Requests |-> Unasked]
    /\ faults = 0

OwnerActs == \E c \in Codes : CreateCode(c) \/ DeleteCode(c) \/ CodeLapses(c)

Arrives(r) ==
    \E n \in Names, p \in Projects :
       \/ \E e \in Emails : Register(r, n, e, p)
       \/ \E e \in Emails \cup {Nothing}, c \in Codes : RegisterWithInvite(r, n, e, p, c)

Advances(r) ==
    \/ Check(r)
    \/ CreateUser(r) \/ CreateProject(r) \/ CreateUserAndProject(r) \/ JoinProject(r)
    \/ CreatePermissions(r) \/ CreateRoles(r) \/ Admit(r) \/ AdmitFails(r)
    \/ UseCode(r)

Struck(r) == InitializeFails(r) \/ UseCodeFails(r) \/ Fails(r) \/ Dies(r)

Next ==
    \/ OwnerActs
    \/ \E r \in Requests : Arrives(r) \/ Advances(r) \/ Struck(r)
    \/ Rest

Spec == Init /\ [][Next]_vars

-----------------------------------------------------------------------------
(* What holds.                                                             *)

\* The variables stay in their types.
TypeOK ==
    /\ user \in [Names -> UserRow \cup {Nothing}]
    /\ project \in [Projects -> ProjectRow \cup {Nothing}]
    /\ code \in [Codes -> CodeRow]
    /\ req \in [Requests -> Registration]
    /\ faults \in 0 .. MaxFaults

\* The registrations that made a user with the code.
Admitted(c) == {r \in Requests : req[r].added /\ req[r].code = c}

\* A code is for one user (max_uses is 1).  It is validated in the first step of a
\* registration and marked as used in the last: it makes two users only when their
\* registrations overlapped or a fault struck one of them.
CodeAdmitsOnce ==
    \A c \in Codes : \A r, s \in Admitted(c) :
        r = s \/ s \in req[r].met \/ req[r].struck \/ req[s].struck

Bound(c) == code[c].project # Nothing /\ ~code[c].used /\ code[c].state # "deleted"

\* A code gets its project in one transaction and is marked as used in the next.
\* One that has its project and is not used is still accepted, and fails every
\* registration that comes with it: it is left behind only when a fault struck the
\* registration that made the project, whatever becomes of the code meanwhile.
BoundCodeIsUsed ==
    \A c \in Codes : Bound(c) => \E r \in Admitted(c) : At(r, "use") \/ req[r].struck

\* No column constraint keeps an email from being taken twice: two users share one
\* only when their registrations overlapped (email is what resets a password).
EmailTwiceNeedsOverlap ==
    \A r, s \in Requests :
        /\ req[r].added /\ req[s].added /\ r # s
        /\ req[r].email # Nothing /\ req[r].email = req[s].email
        => s \in req[r].met

\* A registration that is refused has left neither a user nor a project behind,
\* except /register when the name of the project is taken: its user is committed
\* by then, and stays without a project.
RefusedLeavesNothing ==
    \A r \in Requests : At(r, "refused") /\ req[r].added =>
        /\ req[r].code = Nothing
        /\ ProjectTaken(r)
        /\ project[req[r].project].admin # req[r].name
        /\ UserOf(r).project = Nothing

=============================================================================
