------------------------------ MODULE Accounts ------------------------------
(***************************************************************************)
(* Users, projects and the access of users to projects: the routes         *)
(* users_*, projects_* and auth_*, auth/auth_service.py, crud/user.py and  *)
(* crud/project.py.                                                        *)
(*                                                                         *)
(* A request is checked by require_admin, reads what it is about, decides, *)
(* and writes in one or two commits.  Each of these is an action: between  *)
(* them other requests run.  One that is refused changes nothing and is no *)
(* action.  The database lets one writer in at a time and enforces the     *)
(* constraints; when it refuses, the request ends and what it committed    *)
(* before stays.                                                           *)
(***************************************************************************)
EXTENDS Integers, FiniteSets

CONSTANTS
    UserIds, ProjectIds,    \* each one given once
    Names,                  \* of users and of projects
    Folded,                 \* Names -> the name in lower case
    Changes,                \* bodies of PUT /users/{id}
    AccessLists,            \* lists of projects: sets of names
    AccountRequests,
    MaxRequests,            \* bound on the requests
    FirstAdmins,            \* administrators at the beginning -> their names
    Nothing                 \* None

Roles == {"admin", "developer", "viewer"}

\* A change gives Nothing for what it leaves as it is.
Change == [name : Names \cup {Nothing}, role : Roles \cup {Nothing},
           active : BOOLEAN \cup {Nothing}, lists : SUBSET AccessLists]

ASSUME AccountsAssumption ==
    /\ DOMAIN FirstAdmins \subseteq UserIds /\ DOMAIN FirstAdmins # {}
    /\ \A u \in DOMAIN FirstAdmins : FirstAdmins[u] \in Names
    /\ \A u, v \in DOMAIN FirstAdmins : FirstAdmins[u] = FirstAdmins[v] => u = v
    /\ Changes \subseteq Change
    /\ \A c \in Changes : Cardinality(c.lists) \in {0, 1}
    /\ AccessLists \subseteq SUBSET Names /\ {} \in AccessLists
    /\ MaxRequests \in Nat

VARIABLES
    user,       \* table users: UserIds -> row
    project,    \* table projects: ProjectIds -> name, or Nothing
    access,     \* table project_access: set of <<user, project>>
    request,    \* AccountRequests -> what each one is doing
    begun,
    selfOff,    \* history: an administrator has deactivated itself
    stale,      \* history: a request changed or deleted a user when its own
                \* user was no longer an administrator
    unchanged   \* history: users whose change of password passed every check and
                \* failed

accountVars == <<user, project, access, request, begun, selfOff, stale, unchanged>>
historyVars == <<begun, selfOff, stale, unchanged>>

UserRow == [exists : BOOLEAN, name : Names, role : Roles, active : BOOLEAN]

Steps == {"idle", "ready", "insert user", "update user", "delete user",
          "read lists", "write lists", "insert project", "rename project",
          "delete project"}

AccountRequest ==
    [pc : Steps, by : UserIds \cup {Nothing}, user : UserIds \cup {Nothing},
     project : ProjectIds \cup {Nothing}, change : Change,
     found : SUBSET ProjectIds,     \* projects that get_or_create_projects found
     rows : SUBSET (UserIds \X ProjectIds)]     \* project_access as it was read

AccountsTypeOK ==
    /\ user \in [UserIds -> UserRow]
    /\ project \in [ProjectIds -> Names \cup {Nothing}]
    /\ access \subseteq UserIds \X ProjectIds
    /\ \A a \in AccountRequests :
        /\ request[a].pc \in Steps /\ request[a].change \in Change
        /\ request[a].found \subseteq ProjectIds

NoChange == [name |-> Nothing, role |-> Nothing, active |-> Nothing, lists |-> {}]
IdleRequest == [pc |-> "idle", by |-> Nothing, user |-> Nothing, project |-> Nothing,
                change |-> NoChange, found |-> {}, rows |-> {}]

\* Some time after the first start of the server, which made the first of them
\* (maybe_bootstrap_admin).
AccountsInit ==
    /\ user = [u \in UserIds |->
                [exists |-> u \in DOMAIN FirstAdmins, role |-> "admin", active |-> TRUE,
                 name |-> IF u \in DOMAIN FirstAdmins THEN FirstAdmins[u]
                          ELSE CHOOSE n \in Names : TRUE]]
    /\ project = [i \in ProjectIds |-> Nothing]
    /\ access = {}
    /\ request = [a \in AccountRequests |-> IdleRequest]
    /\ begun = 0 /\ selfOff = FALSE /\ stale = FALSE /\ unchanged = {}

-----------------------------------------------------------------------------

Set(a, r) == request' = [request EXCEPT ![a] = r]
Answer(a) == Set(a, IdleRequest)

IsAdmin(u) == user[u].exists /\ user[u].active /\ user[u].role = "admin"
Exists(i) == project[i] # Nothing

\* get_user_by_username and get_project_by_name: names compare in lower case.
UsersNamed(n) == {u \in UserIds : user[u].exists /\ Folded[user[u].name] = Folded[n]}
ProjectsNamed(n) == {i \in ProjectIds : Exists(i) /\ Folded[project[i]] = Folded[n]}

\* The check before x gets a name: of several that hold it, first() finds any.
MayTake(x, holders) == holders = {} \/ x \in holders

\* get_current_user and require_admin.
Authorize(a) ==
    /\ request[a].pc = "idle" /\ begun < MaxRequests
    /\ \E u \in UserIds :
        IsAdmin(u) /\ Set(a, [IdleRequest EXCEPT !.pc = "ready", !.by = u])
    /\ begun' = begun + 1
    /\ UNCHANGED <<user, project, access, selfOff, stale, unchanged>>

\* auth_bootstrap_admin asks for no token, as long as there are no users.
BootstrapAdmin ==
    /\ \A u \in UserIds : ~user[u].exists
    /\ begun < MaxRequests /\ begun' = begun + 1
    /\ \E a \in AccountRequests, n \in Names :
        /\ request[a].pc = "idle"
        /\ Set(a, [IdleRequest EXCEPT !.pc = "insert user",
                   !.change = [NoChange EXCEPT !.name = n, !.role = "admin",
                                               !.active = TRUE, !.lists = {{}}]])
    /\ UNCHANGED <<user, project, access, selfOff, stale, unchanged>>

-----------------------------------------------------------------------------
(* Users.                                                                  *)

\* create_user_record up to its first commit.
CheckNewUser(a) ==
    /\ request[a].pc = "ready"
    /\ \E n \in Names, r \in Roles, l \in AccessLists :
        /\ UsersNamed(n) = {}
        /\ Set(a, [request[a] EXCEPT !.pc = "insert user",
                   !.change = [NoChange EXCEPT !.name = n, !.role = r,
                                               !.active = TRUE, !.lists = {l}]])
    /\ UNCHANGED <<user, project, access, historyVars>>

\* uq_users_username compares names as they are.
NameTaken(u, n) == \E v \in UserIds \ {u} : user[v].exists /\ user[v].name = n

InsertUser(a) ==
    /\ request[a].pc = "insert user"
    /\ LET c == request[a].change
       IN  \/ /\ NameTaken(Nothing, c.name)
              /\ Answer(a)
              /\ UNCHANGED user
           \/ \E u \in UserIds :
              /\ ~NameTaken(Nothing, c.name)
              /\ ~user[u].exists
              /\ \A b \in AccountRequests : u \notin {request[b].user, request[b].by}
              /\ user' = [user EXCEPT ![u] = [exists |-> TRUE, name |-> c.name,
                                              role |-> c.role, active |-> c.active]]
              /\ Set(a, [request[a] EXCEPT !.pc = "read lists", !.user = u])
    /\ UNCHANGED <<project, access, historyVars>>

MayChangeAnything(a, u, c) == TRUE

\* "Admin cannot remove own admin role".
MayChange(a, u, c) == ~(request[a].by = u /\ c.role \notin {Nothing, "admin"})

\* The session writes only what differs from the row that it has loaded.
Differing(c, row) ==
    [c EXCEPT !.name = IF @ = row.name THEN Nothing ELSE @,
              !.role = IF @ = row.role THEN Nothing ELSE @,
              !.active = IF @ = row.active THEN Nothing ELSE @]

\* update_user_route and update_user_record up to the first commit.
FindUser(a) ==
    /\ request[a].pc = "ready"
    /\ \E u \in UserIds, c \in Changes :
        /\ user[u].exists
        /\ MayChange(a, u, c)
        /\ c.name # Nothing => MayTake(u, UsersNamed(c.name))
        /\ Set(a, [request[a] EXCEPT !.pc = "update user", !.user = u,
                                      !.change = Differing(c, user[u])])
    /\ UNCHANGED <<user, project, access, historyVars>>

Or(x, y) == IF x = Nothing THEN y ELSE x

\* A change or a deletion by a request whose user has been changed meanwhile.
NoteAuthority(a) == stale' = (stale \/ ~IsAdmin(request[a].by))

\* update_user: the row must still be there and its new name be free.
UpdateUser(a) ==
    /\ request[a].pc = "update user"
    /\ LET u == request[a].user
           c == request[a].change
           allowed == user[u].exists /\ (c.name # Nothing => ~NameTaken(u, c.name))
       IN  IF allowed
           THEN /\ user' = [user EXCEPT ![u] =
                        [exists |-> TRUE, name |-> Or(c.name, @.name),
                         role |-> Or(c.role, @.role),
                         active |-> Or(c.active, @.active)]]
                /\ NoteAuthority(a)
                /\ selfOff' = (selfOff \/ (request[a].by = u /\ c.active = FALSE))
                /\ IF c.lists = {} THEN Answer(a)
                   ELSE Set(a, [request[a] EXCEPT !.pc = "read lists"])
           ELSE Answer(a) /\ UNCHANGED <<user, stale, selfOff>>
    /\ UNCHANGED <<project, access, begun, unchanged>>

\* delete_user_route; "Admin cannot delete self".
FindUserToDelete(a) ==
    /\ request[a].pc = "ready"
    /\ \E u \in UserIds \ {request[a].by} :
        user[u].exists /\ Set(a, [request[a] EXCEPT !.pc = "delete user", !.user = u])
    /\ UNCHANGED <<user, project, access, historyVars>>

\* With the rows of project_access; one that is gone already stays so.
DeleteUser(a) ==
    /\ request[a].pc = "delete user"
    /\ LET u == request[a].user
       IN  IF user[u].exists
           THEN /\ user' = [user EXCEPT ![u].exists = FALSE]
                /\ access' = {x \in access : x[1] # u}
                /\ NoteAuthority(a)
           ELSE UNCHANGED <<user, access, stale>>
    /\ Answer(a)
    /\ UNCHANGED <<project, begun, selfOff, unchanged>>

-----------------------------------------------------------------------------
(* Access to projects: set_user_projects.                                  *)

AccessOf(u) == {x \in access : x[1] = u}
Found(l) == {i \in ProjectIds : Exists(i) /\ project[i] \in l}
ListOf(a) == UNION request[a].change.lists

\* update_user_projects_route reads the user with the rows of project_access.
FindUserForList(a) ==
    /\ request[a].pc = "ready"
    /\ \E u \in UserIds, l \in AccessLists :
        /\ user[u].exists
        /\ Set(a, [request[a] EXCEPT !.pc = "write lists", !.user = u,
                   !.change = [NoChange EXCEPT !.lists = {l}],
                   !.found = Found(l), !.rows = AccessOf(u)])
    /\ UNCHANGED <<user, project, access, historyVars>>

\* After a commit of its own the request refreshes the user, which may be gone,
\* and reads the rows again.
ReadLists(a) ==
    /\ request[a].pc = "read lists"
    /\ IF user[request[a].user].exists
       THEN Set(a, [request[a] EXCEPT !.pc = "write lists", !.found = Found(ListOf(a)),
                                      !.rows = AccessOf(request[a].user)])
       ELSE Answer(a)
    /\ UNCHANGED <<user, project, access, historyVars>>

\* get_or_create_projects compares names as they are.  The unit of work inserts
\* the new rows before it deletes the old ones: a project that stays in the
\* list violates uq_project_access_user_project_id.
WriteLists(a) ==
    /\ request[a].pc = "write lists"
    /\ LET u == request[a].user
           missing == ListOf(a) \ {project[i] : i \in request[a].found}
       IN  \/ /\ Answer(a)      \* a constraint is violated
              /\ \/ ~user[u].exists
                 \/ \E i \in request[a].found : ~Exists(i) \/ <<u, i>> \in access
                 \/ \E i \in ProjectIds : Exists(i) /\ project[i] \in missing
              /\ UNCHANGED <<project, access>>
           \/ /\ user[u].exists
              /\ \A i \in request[a].found : Exists(i) /\ <<u, i>> \notin access
              /\ \A i \in ProjectIds : project[i] \notin missing
              /\ \E new \in SUBSET {i \in ProjectIds : ~Exists(i)} :
                 \E name \in [new -> missing] :
                    /\ Cardinality(new) = Cardinality(missing)
                    /\ \A n \in missing : \E i \in new : name[i] = n
                    /\ \A i \in new, b \in AccountRequests : i # request[b].project
                    /\ project' = [i \in ProjectIds |->
                            IF i \in new THEN name[i] ELSE project[i]]
                    /\ access' = (access \ request[a].rows)
                                    \cup ({u} \X (request[a].found \cup new))
              /\ Answer(a)
    /\ UNCHANGED <<user, historyVars>>

-----------------------------------------------------------------------------
(* Projects.                                                               *)

\* create_project and update_project: a name that is free in lower case.
FindProject(a) ==
    /\ request[a].pc = "ready"
    /\ \/ \E n \in Names :
            /\ ProjectsNamed(n) = {}
            /\ Set(a, [request[a] EXCEPT !.pc = "insert project",
                       !.change = [NoChange EXCEPT !.name = n]])
       \/ \E i \in ProjectIds, n \in Names :
            /\ Exists(i) /\ project[i] # n /\ MayTake(i, ProjectsNamed(n))
            /\ Set(a, [request[a] EXCEPT !.pc = "rename project", !.project = i,
                       !.change = [NoChange EXCEPT !.name = n]])
       \/ \E i \in ProjectIds :
            /\ Exists(i)
            /\ Set(a, [request[a] EXCEPT !.pc = "delete project", !.project = i])
    /\ UNCHANGED <<user, project, access, historyVars>>

\* uq_projects_name compares names as they are.
ProjectNameTaken(i, n) == \E j \in ProjectIds \ {i} : project[j] = n

InsertProject(a) ==
    /\ request[a].pc = "insert project"
    /\ LET n == request[a].change.name
       IN  \/ ProjectNameTaken(Nothing, n) /\ UNCHANGED project
           \/ \E i \in ProjectIds :
                /\ ~ProjectNameTaken(Nothing, n) /\ ~Exists(i)
                /\ \A b \in AccountRequests : i # request[b].project
                /\ project' = [project EXCEPT ![i] = n]
    /\ Answer(a)
    /\ UNCHANGED <<user, access, historyVars>>

RenameProject(a) ==
    /\ request[a].pc = "rename project"
    /\ LET i == request[a].project
           n == request[a].change.name
       IN  project' = IF Exists(i) /\ ~ProjectNameTaken(i, n)
                      THEN [project EXCEPT ![i] = n] ELSE project
    /\ Answer(a)
    /\ UNCHANGED <<user, access, historyVars>>

DeleteProject(a) ==
    /\ request[a].pc = "delete project"
    /\ project' = [project EXCEPT ![request[a].project] = Nothing]
    /\ access' = {x \in access : x[2] # request[a].project}
    /\ Answer(a)
    /\ UNCHANGED <<user, historyVars>>

-----------------------------------------------------------------------------
(* The user's own password.                                                *)

\* FastAPI opens one session for each dependency: get_current_user loads the
\* user in the session of get_db_session, the route works on that of get_db.
SessionOf == [current_user |-> "get_db_session", route |-> "get_db"]
CanAdd(owner, session) == SessionOf[owner] = SessionOf[session]

\* change_own_password, when the password is right and the last change long ago:
\* update_user adds the user to the session of the route, which refuses an object
\* of another session.
ChangePassword(u) ==
    /\ user[u].exists /\ user[u].active /\ begun < MaxRequests
    /\ begun' = begun + 1
    /\ unchanged' = IF CanAdd("current_user", "route") THEN unchanged
                    ELSE unchanged \cup {u}
    /\ UNCHANGED <<user, project, access, request, selfOff, stale>>

AccountStep(a) ==
    \/ Authorize(a) \/ CheckNewUser(a) \/ InsertUser(a) \/ FindUser(a) \/ UpdateUser(a)
    \/ FindUserToDelete(a) \/ DeleteUser(a) \/ FindUserForList(a) \/ ReadLists(a)
    \/ WriteLists(a) \/ FindProject(a) \/ InsertProject(a) \/ RenameProject(a)
    \/ DeleteProject(a)

AccountsNext ==
    \/ BootstrapAdmin
    \/ \E a \in AccountRequests : AccountStep(a)
    \/ \E u \in UserIds : ChangePassword(u)

AccountsSpec == AccountsInit /\ [][AccountsNext]_accountVars

-----------------------------------------------------------------------------
(* Properties.                                                             *)

\* There is an active administrator, so that somebody can manage users, as long
\* as none has deactivated itself and none has been changed or deleted by a
\* request whose own user had lost that role meanwhile.
AnAdminRemains == selfOff \/ stale \/ \E u \in UserIds : IsAdmin(u)

\* README.md:191: after signing in a user changes its password with
\* POST /v1/auth/me/password.
PasswordsCanChange == unchanged = {}
=============================================================================
