--------------------------- MODULE AccountProofs ----------------------------
(***************************************************************************)
(* The invariants of Accounts, for every number of users, projects and     *)
(* requests.                                                               *)
(***************************************************************************)
EXTENDS Accounts, TLAPS

-----------------------------------------------------------------------------
(* What a request knows at each step.                                      *)

NamesAUser(c) == c.name \in Names /\ c.role \in Roles /\ c.active \in BOOLEAN

Sound(r) ==
    /\ r \in AccountRequest
    /\ r.pc \in {"ready", "update user", "delete user"} => r.by \in UserIds
    /\ r.pc \in {"update user", "delete user", "read lists", "write lists"} =>
          r.user \in UserIds
    /\ r.pc \in {"rename project", "delete project"} => r.project \in ProjectIds
    /\ r.pc = "insert user" => NamesAUser(r.change)
    /\ r.pc \in {"insert project", "rename project"} => r.change.name \in Names
    /\ r.pc = "update user" /\ r.by = r.user => r.change.role \in {Nothing, "admin"}
    /\ r.pc = "delete user" => r.by # r.user

Requests ==
    /\ request \in [AccountRequests -> AccountRequest]
    /\ \A a \in AccountRequests : Sound(request[a])

Tables ==
    /\ user \in [UserIds -> UserRow]
    /\ project \in [ProjectIds -> Names \cup {Nothing}]
    /\ access \subseteq UserIds \X ProjectIds
    /\ selfOff \in BOOLEAN /\ stale \in BOOLEAN

AccountsInv == Requests /\ Tables /\ AnAdminRemains

LEMMA IdleSound == Sound(IdleRequest)
BY DEF Sound, IdleRequest, NoChange, AccountRequest, Change, Steps

LEMMA OneRequest ==
    ASSUME Requests, NEW a \in AccountRequests, NEW r, Sound(r), Set(a, r)
    PROVE  Requests'
BY DEF Requests, Set, Sound

LEMMA Answered ==
    ASSUME Requests, NEW a \in AccountRequests, Answer(a)
    PROVE  Requests'
BY IdleSound, OneRequest DEF Answer

LEMMA NoTableChanges ==
    ASSUME Tables, AnAdminRemains, UNCHANGED <<user, project, access, selfOff, stale>>
    PROVE  Tables' /\ AnAdminRemains'
BY DEF Tables, AnAdminRemains, IsAdmin

-----------------------------------------------------------------------------
(* The steps that only read.                                               *)

LEMMA AuthorizeKeeps ==
    ASSUME AccountsInv, NEW a \in AccountRequests, Authorize(a)
    PROVE  AccountsInv'
<1>1. PICK u \in UserIds : Set(a, [IdleRequest EXCEPT !.pc = "ready", !.by = u])
    BY DEF Authorize
<1> DEFINE r == [IdleRequest EXCEPT !.pc = "ready", !.by = u]
<1>2. Sound(r)
    BY IdleSound DEF Sound, IdleRequest, AccountRequest, Steps
<1> HIDE DEF r
<1>3. Requests'
    BY <1>1, <1>2, OneRequest DEF AccountsInv, r
<1> QED BY <1>3, NoTableChanges DEF AccountsInv, Authorize

LEMMA NewUserChange ==
    ASSUME NEW n \in Names, NEW r \in Roles, NEW l \in AccessLists
    PROVE  [NoChange EXCEPT !.name = n, !.role = r, !.active = TRUE, !.lists = {l}]
              \in {c \in Change : NamesAUser(c)}
BY DEF NoChange, Change, NamesAUser

LEMMA BootstrapKeeps ==
    ASSUME AccountsInv, BootstrapAdmin
    PROVE  AccountsInv'
<1> DEFINE c(n) == [NoChange EXCEPT !.name = n, !.role = "admin", !.active = TRUE,
                                    !.lists = {{}}]
           r(n) == [IdleRequest EXCEPT !.pc = "insert user", !.change = c(n)]
<1>1. PICK a \in AccountRequests, n \in Names : Set(a, r(n))
    BY DEF BootstrapAdmin
<1>2. c(n) \in Change /\ NamesAUser(c(n))
    <2>1. "admin" \in Roles /\ {} \in AccessLists
        BY AccountsAssumption DEF Roles
    <2> QED BY <2>1, NewUserChange
<1> HIDE DEF c
<1>3. Sound(r(n))
    BY <1>2 DEF Sound, IdleRequest, AccountRequest, Steps
<1> HIDE DEF r
<1>4. Requests'
    BY <1>1, <1>3, OneRequest DEF AccountsInv
<1> QED BY <1>4, NoTableChanges DEF AccountsInv, BootstrapAdmin

LEMMA CheckNewUserKeeps ==
    ASSUME AccountsInv, NEW a \in AccountRequests, CheckNewUser(a)
    PROVE  AccountsInv'
<1> DEFINE c(n, ro, l) == [NoChange EXCEPT !.name = n, !.role = ro, !.active = TRUE,
                                           !.lists = {l}]
           r(n, ro, l) == [request[a] EXCEPT !.pc = "insert user",
                                             !.change = c(n, ro, l)]
<1>1. PICK n \in Names, ro \in Roles, l \in AccessLists : Set(a, r(n, ro, l))
    BY DEF CheckNewUser
<1>2. c(n, ro, l) \in Change /\ NamesAUser(c(n, ro, l))
    BY NewUserChange
<1> HIDE DEF c
<1>3. Sound(r(n, ro, l))
    <2>1. request[a] \in AccountRequest
        BY DEF AccountsInv, Requests
    <2> QED BY <1>2, <2>1 DEF Sound, AccountRequest, Steps
<1> HIDE DEF r
<1>4. Requests'
    BY <1>1, <1>3, OneRequest DEF AccountsInv
<1> QED BY <1>4, NoTableChanges DEF AccountsInv, CheckNewUser, historyVars

\* A change keeps its type, and gives no role to one who may not get it.
LEMMA DifferingChange ==
    ASSUME NEW c \in Change, NEW row \in UserRow
    PROVE  /\ Differing(c, row) \in Change
           /\ Differing(c, row).role \in {c.role, Nothing}
BY DEF Differing, Change, UserRow

LEMMA FindUserKeeps ==
    ASSUME AccountsInv, NEW a \in AccountRequests, FindUser(a)
    PROVE  AccountsInv'
<1> DEFINE d(u, c) == Differing(c, user[u])
           r(u, c) == [request[a] EXCEPT !.pc = "update user", !.user = u,
                                         !.change = d(u, c)]
<1>1. PICK u \in UserIds, c \in Changes : MayChange(a, u, c) /\ Set(a, r(u, c))
    BY DEF FindUser
<1>2. d(u, c) \in Change /\ d(u, c).role \in {c.role, Nothing}
    BY AccountsAssumption, DifferingChange DEF AccountsInv, Tables
<1> HIDE DEF d
<1>3. request[a] \in AccountRequest /\ request[a].by \in UserIds
    BY DEF AccountsInv, Requests, Sound, FindUser
<1>4. request[a].by = u => c.role \in {Nothing, "admin"}
    BY <1>1 DEF MayChange
<1>5. Sound(r(u, c))
    BY <1>2, <1>3, <1>4 DEF Sound, AccountRequest, Steps
<1> HIDE DEF r
<1>6. Requests'
    BY <1>1, <1>5, OneRequest DEF AccountsInv
<1> QED BY <1>6, NoTableChanges DEF AccountsInv, FindUser, historyVars

LEMMA FindUserToDeleteKeeps ==
    ASSUME AccountsInv, NEW a \in AccountRequests, FindUserToDelete(a)
    PROVE  AccountsInv'
<1> DEFINE r(u) == [request[a] EXCEPT !.pc = "delete user", !.user = u]
<1>1. PICK u \in UserIds \ {request[a].by} : Set(a, r(u))
    BY DEF FindUserToDelete
<1>2. request[a] \in AccountRequest /\ request[a].by \in UserIds
    BY DEF AccountsInv, Requests, Sound, FindUserToDelete
<1>3. Sound(r(u))
    BY <1>1, <1>2 DEF Sound, AccountRequest, Steps
<1> HIDE DEF r
<1>4. Requests'
    BY <1>1, <1>3, OneRequest DEF AccountsInv
<1> QED BY <1>4, NoTableChanges DEF AccountsInv, FindUserToDelete, historyVars

LEMMA ReadTypes ==
    ASSUME Tables
    PROVE  /\ \A l : Found(l) \in SUBSET ProjectIds
           /\ \A u : AccessOf(u) \in SUBSET (UserIds \X ProjectIds)
BY DEF Tables, Found, AccessOf

LEMMA FindUserForListKeeps ==
    ASSUME AccountsInv, NEW a \in AccountRequests, FindUserForList(a)
    PROVE  AccountsInv'
<1> DEFINE c(l) == [NoChange EXCEPT !.lists = {l}]
           r(u, l) == [request[a] EXCEPT !.pc = "write lists", !.user = u,
                           !.change = c(l), !.found = Found(l), !.rows = AccessOf(u)]
<1>1. PICK u \in UserIds, l \in AccessLists : Set(a, r(u, l))
    BY DEF FindUserForList
<1>2. c(l) \in Change
    BY DEF NoChange, Change
<1>3. Found(l) \in SUBSET ProjectIds /\ AccessOf(u) \in SUBSET (UserIds \X ProjectIds)
    BY ReadTypes DEF AccountsInv
<1>4. request[a] \in AccountRequest
    BY DEF AccountsInv, Requests
<1> HIDE DEF c
<1>5. Sound(r(u, l))
    BY <1>2, <1>3, <1>4 DEF Sound, AccountRequest, Steps
<1> HIDE DEF r
<1>6. Requests'
    BY <1>1, <1>5, OneRequest DEF AccountsInv
<1> QED BY <1>6, NoTableChanges DEF AccountsInv, FindUserForList, historyVars

LEMMA ReadListsKeeps ==
    ASSUME AccountsInv, NEW a \in AccountRequests, ReadLists(a)
    PROVE  AccountsInv'
<1> DEFINE f == Found(ListOf(a))
           rows == AccessOf(request[a].user)
           r == [request[a] EXCEPT !.pc = "write lists", !.found = f, !.rows = rows]
<1>1. Set(a, r) \/ Answer(a)
    BY DEF ReadLists
<1>2. f \in SUBSET ProjectIds /\ rows \in SUBSET (UserIds \X ProjectIds)
    BY ReadTypes DEF AccountsInv
<1>3. request[a] \in AccountRequest /\ request[a].user \in UserIds
    BY DEF AccountsInv, Requests, Sound, ReadLists
<1> HIDE DEF f, rows
<1>4. Sound(r)
    BY <1>2, <1>3 DEF Sound, AccountRequest, Steps
<1> HIDE DEF r
<1>5. Requests'
    BY <1>1, <1>4, OneRequest, Answered DEF AccountsInv
<1> QED BY <1>5, NoTableChanges DEF AccountsInv, ReadLists, historyVars

LEMMA FindProjectKeeps ==
    ASSUME AccountsInv, NEW a \in AccountRequests, FindProject(a)
    PROVE  AccountsInv'
<1>1. request[a] \in AccountRequest
    BY DEF AccountsInv, Requests
<1>2. ASSUME NEW n \in Names PROVE [NoChange EXCEPT !.name = n] \in Change
                                   /\ [NoChange EXCEPT !.name = n].name = n
    BY DEF NoChange, Change
<1>3. \E r : Sound(r) /\ Set(a, r)
    <2>1. ASSUME NEW n \in Names,
                 Set(a, [request[a] EXCEPT !.pc = "insert project",
                                           !.change = [NoChange EXCEPT !.name = n]])
          PROVE  \E r : Sound(r) /\ Set(a, r)
        <3> DEFINE c == [NoChange EXCEPT !.name = n]
        <3>1. c \in Change /\ c.name = n
            BY <1>2
        <3> HIDE DEF c
        <3>2. Sound([request[a] EXCEPT !.pc = "insert project", !.change = c])
            BY <1>1, <3>1 DEF Sound, AccountRequest, Steps
        <3> QED BY <2>1, <3>2 DEF c
    <2>2. ASSUME NEW i \in ProjectIds, NEW n \in Names,
                 Set(a, [request[a] EXCEPT !.pc = "rename project", !.project = i,
                                           !.change = [NoChange EXCEPT !.name = n]])
          PROVE  \E r : Sound(r) /\ Set(a, r)
        <3> DEFINE c == [NoChange EXCEPT !.name = n]
        <3>1. c \in Change /\ c.name = n
            BY <1>2
        <3> HIDE DEF c
        <3>2. Sound([request[a] EXCEPT !.pc = "rename project", !.project = i,
                                       !.change = c])
            BY <1>1, <3>1 DEF Sound, AccountRequest, Steps
        <3> QED BY <2>2, <3>2 DEF c
    <2>3. ASSUME NEW i \in ProjectIds,
                 Set(a, [request[a] EXCEPT !.pc = "delete project", !.project = i])
          PROVE  \E r : Sound(r) /\ Set(a, r)
        <3>1. Sound([request[a] EXCEPT !.pc = "delete project", !.project = i])
            BY <1>1 DEF Sound, AccountRequest, Steps
        <3> QED BY <2>3, <3>1
    <2> QED BY <2>1, <2>2, <2>3 DEF FindProject
<1>4. Requests'
    BY <1>3, OneRequest DEF AccountsInv
<1> QED BY <1>4, NoTableChanges DEF AccountsInv, FindProject, historyVars

-----------------------------------------------------------------------------
(* The steps that write.                                                   *)

LEMMA InsertUserKeeps ==
    ASSUME AccountsInv, NEW a \in AccountRequests, InsertUser(a)
    PROVE  AccountsInv'
<1> DEFINE c == request[a].change
           row == [exists |-> TRUE, name |-> c.name, role |-> c.role,
                   active |-> c.active]
           r(u) == [request[a] EXCEPT !.pc = "read lists", !.user = u]
<1>1. request[a] \in AccountRequest /\ NamesAUser(c)
    BY DEF AccountsInv, Requests, Sound, InsertUser
<1>2. CASE Answer(a) /\ UNCHANGED user
    BY <1>2, Answered, NoTableChanges DEF AccountsInv, InsertUser, historyVars
<1>3. ASSUME NEW u \in UserIds, ~user[u].exists,
             user' = [user EXCEPT ![u] = row], Set(a, r(u))
      PROVE  AccountsInv'
    <2>1. Sound(r(u))
        BY <1>1 DEF Sound, AccountRequest, Steps
    <2> HIDE DEF r
    <2>2. Requests'
        BY <1>3, <2>1, OneRequest DEF AccountsInv
    <2>3. row \in UserRow
        BY <1>1 DEF NamesAUser, UserRow
    <2>4. \A v \in UserIds : user'[v] = IF v = u THEN row ELSE user[v]
        BY <1>3 DEF AccountsInv, Tables
    <2>5. Tables'
        BY <1>3, <2>3 DEF AccountsInv, Tables, InsertUser, historyVars
    <2>6. AnAdminRemains'
        BY <1>3, <2>4 DEF AccountsInv, AnAdminRemains, IsAdmin, InsertUser, historyVars
    <2> QED BY <2>2, <2>5, <2>6 DEF AccountsInv
<1> QED BY <1>2, <1>3 DEF InsertUser

\* The administrator that changes itself keeps its role; one that changes
\* another user is still there.
LEMMA UpdateUserKeeps ==
    ASSUME AccountsInv, NEW a \in AccountRequests, UpdateUser(a)
    PROVE  AccountsInv'
<1> DEFINE u == request[a].user
           by == request[a].by
           c == request[a].change
           row == [exists |-> TRUE, name |-> Or(c.name, user[u].name),
                   role |-> Or(c.role, user[u].role),
                   active |-> Or(c.active, user[u].active)]
           r == [request[a] EXCEPT !.pc = "read lists"]
<1>1. /\ request[a] \in AccountRequest /\ u \in UserIds /\ by \in UserIds
      /\ c \in Change /\ user[u] \in UserRow
      /\ by = u => c.role \in {Nothing, "admin"}
    BY DEF AccountsInv, Requests, Sound, UpdateUser, AccountRequest, Tables
<1>2. Requests'
    <2>1. Sound(r)
        BY <1>1 DEF Sound, AccountRequest, Steps
    <2>2. Answer(a) \/ Set(a, r)
        BY DEF UpdateUser
    <2> HIDE DEF r
    <2> QED BY <2>1, <2>2, OneRequest, Answered DEF AccountsInv
<1>3. CASE UNCHANGED <<user, stale, selfOff>>
    BY <1>2, <1>3, NoTableChanges DEF AccountsInv, UpdateUser
<1>4. CASE /\ user[u].exists
           /\ user' = [user EXCEPT ![u] = row]
           /\ stale' = (stale \/ ~IsAdmin(by))
           /\ selfOff' = (selfOff \/ (by = u /\ c.active = FALSE))
    <2>1. row \in UserRow
        BY <1>1 DEF UserRow, Change, Or
    <2>2. Or(c.role, user[u].role) \in {c.role, user[u].role}
          /\ (c.role = Nothing => Or(c.role, user[u].role) = user[u].role)
        BY DEF Or
    <2>3. c.active = FALSE \/ Or(c.active, user[u].active) \in {TRUE, user[u].active}
        BY <1>1 DEF Or, Change
    <2>4. /\ row.exists = TRUE
          /\ row.role = Or(c.role, user[u].role)
          /\ row.active = Or(c.active, user[u].active)
        OBVIOUS
    <2> HIDE DEF row
    <2>5. \A v \in UserIds : user'[v] = IF v = u THEN row ELSE user[v]
        BY <1>4 DEF AccountsInv, Tables
    <2>6. Tables'
        BY <1>1, <1>4, <2>1 DEF AccountsInv, Tables, UpdateUser
    <2>7. AnAdminRemains'
        <3> SUFFICES ASSUME ~selfOff', ~stale' PROVE \E v \in UserIds : IsAdmin(v)'
            BY DEF AnAdminRemains
        <3>1. IsAdmin(by) /\ ~(by = u /\ c.active = FALSE)
            BY <1>4
        <3>2. CASE by # u
            <4>1. user'[by] = user[by]
                BY <1>1, <2>5, <3>2
            <4> QED BY <1>1, <3>1, <4>1 DEF IsAdmin
        <3>3. CASE by = u
            <4>1. user'[u] = row /\ user[u].role = "admin" /\ user[u].active
                BY <1>1, <2>5, <3>1, <3>3 DEF IsAdmin
            <4>2. row.exists /\ row.role = "admin"
                BY <1>1, <2>2, <2>4, <3>3, <4>1
            <4>3. row.active
                <5>1. c.active # FALSE
                    BY <3>1, <3>3
                <5> QED BY <2>3, <2>4, <4>1, <5>1
            <4> QED BY <1>1, <4>1, <4>2, <4>3 DEF IsAdmin
        <3> QED BY <3>2, <3>3
    <2> QED BY <1>2, <2>6, <2>7 DEF AccountsInv
<1> QED BY <1>3, <1>4 DEF UpdateUser, NoteAuthority

\* Nobody deletes itself: the administrator that deletes is still there.
LEMMA DeleteUserKeeps ==
    ASSUME AccountsInv, NEW a \in AccountRequests, DeleteUser(a)
    PROVE  AccountsInv'
<1> DEFINE u == request[a].user
           by == request[a].by
           row == [user[u] EXCEPT !.exists = FALSE]
<1>1. u \in UserIds /\ by \in UserIds /\ by # u /\ user[u] \in UserRow
    BY DEF AccountsInv, Requests, Sound, DeleteUser, Tables
<1>2. Requests'
    BY Answered DEF AccountsInv, DeleteUser
<1>3. CASE UNCHANGED <<user, access, stale>>
    BY <1>2, <1>3, NoTableChanges DEF AccountsInv, DeleteUser
<1>4. CASE /\ user' = [user EXCEPT ![u].exists = FALSE]
           /\ access' = {x \in access : x[1] # u}
           /\ stale' = (stale \/ ~IsAdmin(by))
    <2>1. row \in UserRow
        BY <1>1 DEF UserRow
    <2>2. user' = [user EXCEPT ![u] = row]
        BY <1>1, <1>4 DEF AccountsInv, Tables
    <2> HIDE DEF row
    <2>3. \A v \in UserIds : user'[v] = IF v = u THEN row ELSE user[v]
        BY <2>2 DEF AccountsInv, Tables
    <2>4. Tables'
        BY <1>4, <2>1, <2>2 DEF AccountsInv, Tables, DeleteUser
    <2>5. AnAdminRemains'
        <3> SUFFICES ASSUME ~stale' PROVE \E v \in UserIds : IsAdmin(v)'
            BY DEF AnAdminRemains
        <3>1. IsAdmin(by) /\ user'[by] = user[by]
            BY <1>1, <1>4, <2>3
        <3> QED BY <1>1, <3>1 DEF IsAdmin
    <2> QED BY <1>2, <2>4, <2>5 DEF AccountsInv
<1> QED BY <1>3, <1>4 DEF DeleteUser, NoteAuthority

\* Projects and access do not touch the users.
LEMMA UsersSame ==
    ASSUME AccountsInv, Requests', UNCHANGED <<user, selfOff, stale>>,
           project' \in [ProjectIds -> Names \cup {Nothing}],
           access' \subseteq UserIds \X ProjectIds
    PROVE  AccountsInv'
BY DEF AccountsInv, Tables, AnAdminRemains, IsAdmin

LEMMA WriteListsKeeps ==
    ASSUME AccountsInv, NEW a \in AccountRequests, WriteLists(a)
    PROVE  AccountsInv'
<1> DEFINE u == request[a].user
           found == request[a].found
           missing == ListOf(a) \ {project[i] : i \in found}
<1>1. u \in UserIds /\ found \subseteq ProjectIds /\ request[a].change \in Change
    BY DEF AccountsInv, Requests, Sound, WriteLists, AccountRequest
<1>2. missing \subseteq Names
    BY <1>1, AccountsAssumption DEF ListOf, Change
<1>3. Requests'
    BY Answered DEF AccountsInv, WriteLists
<1>4. UNCHANGED <<user, selfOff, stale>>
    BY DEF WriteLists, historyVars
<1>5. CASE UNCHANGED <<project, access>>
    BY <1>3, <1>4, <1>5, UsersSame DEF AccountsInv, Tables
<1>6. ASSUME NEW new \in SUBSET ProjectIds, NEW name \in [new -> missing],
             project' = [i \in ProjectIds |-> IF i \in new THEN name[i] ELSE project[i]],
             access' = (access \ request[a].rows) \cup ({u} \X (found \cup new))
      PROVE  AccountsInv'
    <2>1. project' \in [ProjectIds -> Names \cup {Nothing}]
        BY <1>2, <1>6 DEF AccountsInv, Tables
    <2>2. access' \subseteq UserIds \X ProjectIds
        BY <1>1, <1>6 DEF AccountsInv, Tables
    <2> QED BY <1>3, <1>4, <2>1, <2>2, UsersSame
<1>7. CASE ~UNCHANGED <<project, access>>
    <2>1. PICK new \in SUBSET {i \in ProjectIds : ~Exists(i)} :
              \E name \in [new -> missing] :
              /\ project' = [i \in ProjectIds |->
                                IF i \in new THEN name[i] ELSE project[i]]
              /\ access' = (access \ request[a].rows) \cup ({u} \X (found \cup new))
        BY <1>7 DEF WriteLists
    <2>2. new \in SUBSET ProjectIds
        OBVIOUS
    <2> HIDE DEF u, found, missing
    <2> QED BY <1>6, <2>1, <2>2
<1> QED BY <1>5, <1>7

LEMMA ProjectsKeep ==
    ASSUME AccountsInv, NEW a \in AccountRequests,
           InsertProject(a) \/ RenameProject(a) \/ DeleteProject(a)
    PROVE  AccountsInv'
<1>1. Requests'
    BY Answered DEF AccountsInv, InsertProject, RenameProject, DeleteProject
<1>2. UNCHANGED <<user, selfOff, stale>>
    BY DEF InsertProject, RenameProject, DeleteProject, historyVars
<1>3. access' \subseteq UserIds \X ProjectIds
    BY DEF AccountsInv, Tables, InsertProject, RenameProject, DeleteProject
<1>4. project' \in [ProjectIds -> Names \cup {Nothing}]
    <2>1. request[a].pc \in {"insert project", "rename project"} =>
              request[a].change.name \in Names
        BY DEF AccountsInv, Requests, Sound
    <2>2. project \in [ProjectIds -> Names \cup {Nothing}]
        BY DEF AccountsInv, Tables
    <2>3. CASE InsertProject(a)
        BY <2>1, <2>2, <2>3 DEF InsertProject
    <2>4. CASE RenameProject(a)
        BY <2>1, <2>2, <2>4 DEF RenameProject
    <2>5. CASE DeleteProject(a)
        BY <2>2, <2>5 DEF DeleteProject
    <2> QED BY <2>3, <2>4, <2>5
<1> QED BY <1>1, <1>2, <1>3, <1>4, UsersSame

LEMMA AccountsInvInit == AccountsInit => AccountsInv
<1> SUFFICES ASSUME AccountsInit PROVE AccountsInv
    OBVIOUS
<1>1. Requests
    BY IdleSound DEF AccountsInit, Requests, Sound
<1>2. PICK w \in DOMAIN FirstAdmins : TRUE
    BY AccountsAssumption
<1>3. FirstAdmins[w] \in Names /\ w \in UserIds
    BY AccountsAssumption
<1>4. (CHOOSE n \in Names : TRUE) \in Names
    BY <1>3
<1>5. user \in [UserIds -> UserRow]
    <2>1. \A u \in DOMAIN FirstAdmins : FirstAdmins[u] \in Names
        BY AccountsAssumption
    <2> QED BY <1>4, <2>1 DEF AccountsInit, UserRow, Roles
<1>6. Tables
    BY <1>5 DEF AccountsInit, Tables
<1>7. AnAdminRemains
    BY <1>2, <1>3 DEF AccountsInit, AnAdminRemains, IsAdmin
<1> QED BY <1>1, <1>6, <1>7 DEF AccountsInv

LEMMA AccountsInvNext ==
    ASSUME AccountsInv, [AccountsNext]_accountVars
    PROVE  AccountsInv'
<1>1. ASSUME NEW u \in UserIds, ChangePassword(u) PROVE AccountsInv'
    BY <1>1, NoTableChanges DEF ChangePassword, AccountsInv, Requests
<1>2. CASE UNCHANGED accountVars
    BY <1>2, NoTableChanges DEF accountVars, AccountsInv, Requests
<1> QED BY <1>1, <1>2, BootstrapKeeps, AuthorizeKeeps, CheckNewUserKeeps,
           InsertUserKeeps, FindUserKeeps, UpdateUserKeeps, FindUserToDeleteKeeps,
           DeleteUserKeeps, FindUserForListKeeps, ReadListsKeeps, WriteListsKeeps,
           FindProjectKeeps, ProjectsKeep
        DEF AccountsNext, AccountStep

LEMMA AccountsHold == AccountsSpec => []AccountsInv
<1>1. AccountsInv /\ [AccountsNext]_accountVars => AccountsInv'
    BY AccountsInvNext
<1> QED BY <1>1, AccountsInvInit, PTL DEF AccountsSpec

\* The tables and the requests have their types.
THEOREM AccountTypeCorrect == AccountsSpec => []AccountsTypeOK
<1>1. AccountsInv => AccountsTypeOK
    BY DEF AccountsInv, Tables, Requests, AccountRequest, AccountsTypeOK
<1> QED BY <1>1, AccountsHold, PTL

\* The checks of update_user_route and delete_user_route
\* ("Admin cannot remove own admin role", "Admin cannot delete self") leave an
\* administrator, but for one that deactivates itself and requests whose user
\* loses its role under way.
THEOREM AdminRemains == AccountsSpec => []AnAdminRemains
<1>1. AccountsInv => AnAdminRemains
    BY DEF AccountsInv
<1> QED BY <1>1, AccountsHold, PTL
=============================================================================
