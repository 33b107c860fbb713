------------------------------- MODULE Access -------------------------------
(***************************************************************************)
(* Accounts, AppRoles and the guards between them: PATCH /users/:id/role   *)
(* and /status, the staff routes, the role matrix (StaffService,           *)
(* UsersService, RolesService, AuthorityService).  A request is let in,    *)
(* loads its target, runs its checks one read at a time and writes last;   *)
(* nothing holds these together, so other requests run in between.  A      *)
(* built-in AppRole is named by its key (CONTENT_UPLOADER is left out: no  *)
(* guard tells it from ADMIN); one permission stands for every route of    *)
(* the account pages and one for every route of the roles page.            *)
(***************************************************************************)
EXTENDS Naturals

CONSTANTS
    Users,          \* the accounts there may be
    Custom,         \* the AppRoles that are not built in
    Permissions,
    RolesEdit,      \* ROLES.EDIT
    StaffEdit,      \* STAFF.EDIT and the other account permissions
    Matrices,       \* the permission sets a matrix save may ask for
    None,
    Procs,          \* slots for requests in progress at the same time
    Start           \* the tables to start from, and the requests each slot may let in

VARIABLES
    account,        \* account[u]: the users row, or None
    permissions,    \* permissions[r]: the rows of AppRole r, or None without the AppRole
    minted,         \* the AppRoles there have been: an id is never used again
    request,        \* request[p]: what p is doing, or None
    requests        \* bound: requests[p], how many more p lets in; no slot outside its domain

vars == <<account, permissions, minted, request, requests>>

ASSUME PermissionsKnown == {RolesEdit, StaffEdit} \subseteq Permissions /\ Matrices \subseteq SUBSET Permissions

Keys == {"SUPER_ADMIN", "ADMIN", "USER"}
AppRoles == Keys \cup Custom
ASSUME CustomIsNoKey == Custom \cap Keys = {}
Assignment == [role : Keys, app : AppRoles \cup {None}]
Account == [role : Keys, app : AppRoles \cup {None}, active : BOOLEAN]
Wish == [app : AppRoles \cup {None}, role : Keys \cup {None}]
ASSUME NoneIsNoRow == /\ None \notin Account \cup Assignment \cup AppRoles \cup Users \cup BOOLEAN
                      /\ \A m \in SUBSET Permissions : m # None
\* The tables to start from are the migrations' work: the built-in roles are
\* there and the foreign key holds.
ASSUME StartIsSeeded ==
    \A s \in Start :
       /\ s.account \in [Users -> Account \cup {None}]
       /\ s.permissions \in [AppRoles -> (SUBSET Permissions) \cup {None}]
       /\ \A k \in Keys : s.permissions[k] # None
       /\ \A u \in Users : s.account[u] # None /\ s.account[u].app # None => s.permissions[s.account[u].app] # None
\* The seed's Super Admin, or whoever the guards left to hand permissions out.
ASSUME StartIsManaged ==
    \A s \in Start : \E u \in Users :
       /\ s.account[u] # None /\ s.account[u].active
       /\ LET r == IF s.account[u].app # None THEN s.account[u].app ELSE s.account[u].role
          IN  r = "SUPER_ADMIN" \/ RolesEdit \in s.permissions[r]

-----------------------------------------------------------------------------
(* AuthorityService and the resolver behind it *)

\* resolveForUser: the assigned AppRole, or the built-in one of the account's kind.
Resolve(a) == IF a.app # None /\ permissions[a.app] # None THEN a.app ELSE a.role
Held(a) == IF Resolve(a) = "SUPER_ADMIN" THEN Permissions ELSE permissions[Resolve(a)]

IsEffectiveSuperAdmin(a) == Resolve(a) = "SUPER_ADMIN"
IsSuperAdminTier(a) == a.role = "SUPER_ADMIN" \/ IsEffectiveSuperAdmin(a)

\* A slip: only the effective axis counts for the target.
MayTouchEffective(actor, a) == IsEffectiveSuperAdmin(a) => IsEffectiveSuperAdmin(actor)

\* P2: who may change or confer the Super Admin tier.
MayTouch(actor, a) == IsSuperAdminTier(a) => IsEffectiveSuperAdmin(actor)

\* A slip: only what the account gains goes through the ceiling.
CanAssignRoleUp(actor, next, current) == MayTouch(actor, next) /\ Held(next) \subseteq Held(actor)

\* A slip: the ceiling without the tier.
CanAssignRoleUntiered(actor, next, current) ==
    /\ Held(next) \subseteq Held(actor)
    /\ current # None => (Held(current) \ Held(next)) \subseteq Held(actor)

\* assertCanAssignRole: P2, then the grant and the revoke ceiling.
CanAssignRole(actor, next, current) ==
    /\ MayTouch(actor, next)
    /\ Held(next) \subseteq Held(actor)
    /\ current # None => (Held(current) \ Held(next)) \subseteq Held(actor)

\* A slip: suspended accounts count as remaining ones.
OthersOnAnyStatus(roles, u) ==
    {v \in Users \ {u} : /\ account[v] # None
                         /\ \/ account[v].app \in roles
                            \/ account[v].app = None /\ account[v].role \in roles}

\* The accounts the lockout guards count: active, assigned one of the roles or,
\* without an AppRole, of that kind; u is left out.
OthersOn(roles, u) ==
    {v \in Users \ {u} : /\ account[v] # None /\ account[v].active
                         /\ \/ account[v].app \in roles
                            \/ account[v].app = None /\ account[v].role \in roles}

ManagerRoles == {r \in AppRoles : \/ r = "SUPER_ADMIN"
                                  \/ permissions[r] # None /\ RolesEdit \in permissions[r]}

\* RolesService.countUsers.
Members(r) ==
    {u \in Users : /\ account[u] # None
                   /\ \/ account[u].app = r
                      \/ account[u].app = None /\ account[u].role = r}

\* A slip: a custom role without an enum in the request leaves no kind at all.
AssignedWithoutFallback(wish, kind) ==
    IF wish.app = None THEN [role |-> IF wish.role # None THEN wish.role ELSE kind,
                             app |-> IF wish.role # None THEN wish.role ELSE kind]
    ELSE [role |-> IF wish.app \in Keys THEN wish.app ELSE wish.role, app |-> wish.app]

\* resolveAssignment and the assignment of PATCH /users/:id/role: a built-in role
\* moves the account's kind along, a custom one leaves it.
Assigned(wish, kind) ==
    LET role == IF wish.role # None THEN wish.role ELSE kind
    IN  IF wish.app = None THEN [role |-> role, app |-> role]
        ELSE [role |-> IF wish.app \in Keys THEN wish.app ELSE role, app |-> wish.app]

-----------------------------------------------------------------------------
(* Requests *)

Init ==
    /\ \E s \in Start : account = s.account /\ permissions = s.permissions /\ requests = s.requests
    /\ minted = {r \in AppRoles : permissions[r] # None}
    /\ request = [p \in Procs |-> None]

\* The guards of the route: an active account, read again for this request, that
\* holds the permission the route requires.
Admit(p, u, op, target, wish) ==
    /\ p \in DOMAIN requests /\ request[p] = None /\ requests[p] > 0
    /\ account[u] # None /\ account[u].active
    /\ (IF op \in {"save", "drop", "mint"} THEN RolesEdit ELSE StaffEdit) \in Held(account[u])
    /\ request' = [request EXCEPT ![p] =
                     [op |-> op, actor |-> u, target |-> target, wish |-> wish, before |-> None,
                      at |-> IF op = "mint" THEN "authorize" ELSE "load",
                      as |-> [role |-> account[u].role, app |-> account[u].app]]]
    /\ requests' = [requests EXCEPT ![p] = @ - 1]
    /\ UNCHANGED <<account, permissions, minted>>

Ask(p, u) ==
    \/ \E v \in Users, wish \in Wish :
          \/ Admit(p, u, "assign", v, wish)
          \/ Admit(p, u, "create", v, wish)
    \/ \E v \in Users : Admit(p, u, "delete", v, None) \/ \E active \in BOOLEAN : Admit(p, u, "status", v, active)
    \/ \E r \in AppRoles : Admit(p, u, "drop", r, None) \/ \E m \in Matrices : Admit(p, u, "save", r, m)
    \/ \E r \in Custom \ minted, m \in Matrices : Admit(p, u, "mint", r, m)

Proceed(p, req) == request' = [request EXCEPT ![p] = req] /\ UNCHANGED <<account, permissions, minted, requests>>
Refuse(p) == Proceed(p, None)
Check(p, ok, next) == IF ok THEN Proceed(p, [request[p] EXCEPT !.at = next]) ELSE Refuse(p)

\* The wish can be met: the AppRole exists, and the end-user role and accounts
\* are not the staff page's business.
CanBeAssigned(wish, a) ==
    wish.app # None => /\ permissions[wish.app] # None
                       /\ wish.app # "USER" /\ wish.role # "USER" /\ a.role # "USER"

\* A slip: an account may be its own target.
LoadAccountOwnToo(p) ==
    LET req == request[p]
        a == account[req.target]
        was == [role |-> a.role, app |-> a.app]
    IN  /\ req # None /\ req.at = "load" /\ req.op \in {"assign", "status", "delete"}
        /\ IF \/ a = None
              \/ req.op = "delete" /\ a.role = "USER"
              \/ req.op = "assign" /\ ~CanBeAssigned(req.wish, a)
           THEN Refuse(p)
           ELSE Proceed(p, [req EXCEPT !.before = was, !.at = "authorize",
                                       !.wish = IF req.op = "assign" THEN Assigned(@, a.role) ELSE @])

\* findStaffOrThrow / findWithAppRoleOrThrow and resolveAssignment; nobody
\* changes or deletes their own account.
LoadAccount(p) ==
    LET req == request[p]
        a == account[req.target]
        was == [role |-> a.role, app |-> a.app]
    IN  /\ req # None /\ req.at = "load" /\ req.op \in {"assign", "status", "delete"}
        /\ IF \/ a = None \/ req.actor = req.target
              \/ req.op = "delete" /\ a.role = "USER"
              \/ req.op = "assign" /\ ~CanBeAssigned(req.wish, a)
           THEN Refuse(p)
           ELSE Proceed(p, [req EXCEPT !.before = was, !.at = "authorize",
                                       !.wish = IF req.op = "assign" THEN Assigned(@, a.role) ELSE @])

\* StaffService.create: the name is free and the role exists; the enum is required.
LoadNewStaff(p) ==
    LET req == request[p]
    IN  /\ req # None /\ req.at = "load" /\ req.op = "create"
        /\ IF \/ account[req.target] # None \/ req.wish.role \in {None, "USER"}
              \/ req.wish.app # None /\ (permissions[req.wish.app] = None \/ req.wish.app = "USER")
           THEN Refuse(p)
           ELSE Proceed(p, [req EXCEPT !.at = "authorize", !.wish = Assigned(@, @.role)])

\* RolesService.findByIdOrThrow: the protected role cannot be saved, a built-in one
\* cannot be dropped.
LoadRole(p) ==
    LET req == request[p]
    IN  /\ req # None /\ req.at = "load" /\ req.op \in {"save", "drop"}
        /\ IF \/ permissions[req.target] = None
              \/ req.op = "save" /\ req.target = "SUPER_ADMIN"
              \/ req.op = "drop" /\ req.target \in Keys
           THEN Refuse(p)
           ELSE Proceed(p, [req EXCEPT !.before = permissions[req.target],
                                       !.at = IF req.op = "save" THEN "authorize" ELSE "members"])

\* The 403s: P2 for the target, P1 and P2 for what it is given or loses.
Authorize(p) ==
    LET req == request[p]
    IN  /\ req # None /\ req.at = "authorize"
        /\ \/ req.op = "assign" /\ Check(p, /\ MayTouch(req.as, req.before)
                                            /\ CanAssignRole(req.as, req.wish, req.before), "admins")
           \/ req.op \in {"status", "delete"} /\ Check(p, MayTouch(req.as, req.before),
                                                       IF req.wish = TRUE THEN "write" ELSE "admins")
           \/ req.op = "create" /\ Check(p, CanAssignRole(req.as, req.wish, None), "write")
           \/ req.op = "mint" /\ Check(p, req.wish \subseteq Held(req.as), "write")
           \/ req.op = "save" /\ Check(p, /\ req.target \in Keys => IsEffectiveSuperAdmin(req.as)
                                          /\ Resolve(req.as) # req.target
                                          /\ (req.wish \ req.before) \subseteq Held(req.as)
                                          /\ (req.before \ req.wish) \subseteq Held(req.as), "managers")

\* assertNotLastActiveSuperAdmin, for a target that is losing the protected role.
CountAdmins(p) ==
    LET req == request[p]
        leaves == IsEffectiveSuperAdmin(req.before) /\ (req.op = "assign" => ~IsEffectiveSuperAdmin(req.wish))
    IN  /\ req # None /\ req.at = "admins"
        /\ Check(p, leaves => OthersOn({"SUPER_ADMIN"}, req.target) # {}, "managers")

\* assertNotLastRoleManagerAccount, and assertNotLastRoleManager for a save.
CountManagers(p) ==
    LET req == request[p]
        leaves == RolesEdit \in Held(req.before) /\ (req.op = "assign" => RolesEdit \notin Held(req.wish))
    IN  /\ req # None /\ req.at = "managers"
        /\ \/ /\ req.op # "save"
              /\ Check(p, leaves => OthersOn(ManagerRoles, req.target) # {}, "write")
           \/ /\ req.op = "save"
              /\ Check(p, RolesEdit \in req.before \ req.wish =>
                             OthersOn(ManagerRoles \ {req.target}, None) # {}, "write")

\* A slip: only active accounts keep a role.
CountActiveMembers(p) ==
    LET req == request[p]
    IN  /\ req # None /\ req.at = "members"
        /\ Check(p, {u \in Members(req.target) : account[u].active} = {}, "write")

\* RolesService.remove counts the accounts that resolve to the role.
CountMembers(p) ==
    LET req == request[p]
    IN  /\ req # None /\ req.at = "members"
        /\ Check(p, Members(req.target) = {}, "write")

-----------------------------------------------------------------------------
(* The writes, which look at nothing but the row they change *)

Writes(p, op) == request[p] # None /\ request[p].at = "write" /\ request[p].op = op
Done(p) == request' = [request EXCEPT ![p] = None] /\ UNCHANGED requests

\* The row is gone, or the AppRole it is to point at: the statement fails.
WriteFails(p) ==
    LET req == request[p]
    IN  /\ req # None /\ req.at = "write"
        /\ \/ req.op \in {"assign", "status", "delete"} /\ account[req.target] = None
           \/ req.op \in {"assign", "create"} /\ permissions[req.wish.app] = None
           \/ req.op = "create" /\ account[req.target] # None
           \/ req.op \in {"save", "drop"} /\ permissions[req.target] = None
           \/ req.op = "mint" /\ req.target \in minted
        /\ Refuse(p)

WriteAssignment(p) ==
    LET req == request[p]
    IN  /\ Writes(p, "assign") /\ account[req.target] # None /\ permissions[req.wish.app] # None
        /\ account' = [account EXCEPT ![req.target].role = req.wish.role, ![req.target].app = req.wish.app]
        /\ Done(p) /\ UNCHANGED <<permissions, minted>>

WriteStatus(p) ==
    LET req == request[p]
    IN  /\ Writes(p, "status") /\ account[req.target] # None
        /\ account' = [account EXCEPT ![req.target].active = req.wish]
        /\ Done(p) /\ UNCHANGED <<permissions, minted>>

WriteStaff(p) ==
    LET req == request[p]
    IN  /\ Writes(p, "create") /\ account[req.target] = None /\ permissions[req.wish.app] # None
        /\ account' = [account EXCEPT ![req.target] =
                         [role |-> req.wish.role, app |-> req.wish.app, active |-> TRUE]]
        /\ Done(p) /\ UNCHANGED <<permissions, minted>>

DeleteAccount(p) ==
    LET req == request[p]
    IN  /\ Writes(p, "delete") /\ account[req.target] # None
        /\ account' = [account EXCEPT ![req.target] = None]
        /\ Done(p) /\ UNCHANGED <<permissions, minted>>

\* replacePermissions writes the difference from the rows it loaded.
SavePermissions(p) ==
    LET req == request[p]
    IN  /\ Writes(p, "save") /\ permissions[req.target] # None
        /\ permissions' = [permissions EXCEPT ![req.target] =
                             (@ \ (req.before \ req.wish)) \cup (req.wish \ req.before)]
        /\ Done(p) /\ UNCHANGED <<account, minted>>

\* RolesService.create.
MintRole(p) ==
    LET req == request[p]
    IN  /\ Writes(p, "mint") /\ req.target \notin minted
        /\ minted' = minted \cup {req.target}
        /\ permissions' = [permissions EXCEPT ![req.target] = req.wish]
        /\ Done(p) /\ UNCHANGED account

\* appRole.delete; the foreign key sets the accounts that point at it to NULL.
DeleteRole(p) ==
    LET req == request[p]
    IN  /\ Writes(p, "drop") /\ permissions[req.target] # None
        /\ permissions' = [permissions EXCEPT ![req.target] = None]
        /\ account' = [u \in Users |-> IF account[u] # None /\ account[u].app = req.target
                                       THEN [account[u] EXCEPT !.app = None] ELSE account[u]]
        /\ Done(p) /\ UNCHANGED minted

Write(p) ==
    \/ WriteAssignment(p) \/ WriteStatus(p) \/ WriteStaff(p) \/ DeleteAccount(p)
    \/ SavePermissions(p) \/ MintRole(p) \/ DeleteRole(p) \/ WriteFails(p)

Next == \E p \in Procs :
    \/ \E u \in Users : Ask(p, u)
    \/ LoadAccount(p) \/ LoadNewStaff(p) \/ LoadRole(p)
    \/ Authorize(p) \/ CountAdmins(p) \/ CountManagers(p) \/ CountMembers(p)
    \/ Write(p)

Spec == Init /\ [][Next]_vars

-----------------------------------------------------------------------------
(* Properties *)

AccountOps == {"assign", "status", "delete", "create"}
RoleOps == {"save", "mint", "drop"}

WellFormed(req) ==
    /\ DOMAIN req = {"op", "actor", "as", "target", "wish", "before", "at"}
    /\ req.op \in AccountOps \cup RoleOps
    /\ req.at \in {"load", "authorize", "admins", "managers", "members", "write"}
    /\ req.actor \in Users /\ req.as \in Assignment
    /\ req.op \in AccountOps => req.target \in Users
    /\ req.op \in RoleOps => req.target \in AppRoles
    /\ req.op \in {"assign", "create"} => req.wish \in IF req.at = "load" THEN Wish ELSE Assignment
    /\ req.op = "status" => req.wish \in BOOLEAN
    /\ req.op \in {"save", "mint"} => req.wish \in Matrices
    /\ req.op \in {"delete", "drop"} => req.wish = None
    /\ req.at # "load" /\ req.op \in {"assign", "status", "delete"} => req.before \in Assignment
    /\ req.at # "load" /\ req.op = "save" => req.before \in SUBSET Permissions
    \* A built-in role is never on its way out.
    /\ req.at # "load" /\ req.op = "drop" => req.target \in Custom

\* The tables and requests have their shapes, the built-in roles are there, and
\* the foreign key holds.
TypeOK ==
    /\ account \in [Users -> Account \cup {None}]
    /\ permissions \in [AppRoles -> (SUBSET Permissions) \cup {None}]
    /\ minted \in SUBSET AppRoles
    /\ \A r \in AppRoles : permissions[r] # None => r \in minted
    /\ \A k \in Keys : permissions[k] # None
    /\ \A u \in Users : account[u] # None /\ account[u].app # None => permissions[account[u].app] # None
    /\ request = [p \in Procs |-> request[p]]
    /\ \A p \in Procs : request[p] # None => WellFormed(request[p])

\* "At least one active Super Admin must remain": assertNotLastActiveSuperAdmin,
\* on the effective role.
SuperAdminRemains ==
    \E u \in Users : account[u] # None /\ account[u].active /\ IsEffectiveSuperAdmin(account[u])

\* One request at a time: nothing runs between the checks of a request and its write.
Alone == \A p, q \in DOMAIN requests : p = q

\* Some active account can still hand permissions out: the lockout guards of the
\* accounts and of the matrix together.
RoleManagerRemains ==
    Alone => \E u \in Users : account[u] # None /\ account[u].active /\ RolesEdit \in Held(account[u])

\* The permissions an account resolves to, none for no account.
Authority(u) == IF account[u] = None THEN {} ELSE Held(account[u])
Acting(p) == request[p] # None /\ request'[p] # request[p]

\* P1: whatever a step changes about an account's authority, a role edit that
\* reaches it through its role or its kind included, its actor holds; deleting
\* an account is P2's business.
GrantCeiling ==
    [][\A u \in Users :
         Alone /\ account'[u] # None /\ Authority(u)' # Authority(u) =>
            \E p \in Procs : /\ Acting(p)
                             /\ (Authority(u) \ Authority(u)') \cup (Authority(u)' \ Authority(u))
                                   \subseteq Held(request[p].as)]_vars

\* P2: an account that is or becomes Super Admin-tier, on either axis, is changed
\* by nobody but an effective Super Admin.
TierProtected ==
    [][\A u \in Users :
         /\ Alone /\ account'[u] # account[u]
         /\ \/ account[u] # None /\ IsSuperAdminTier(account[u])
            \/ account'[u] # None /\ IsSuperAdminTier(account[u])'
         => \E p \in Procs : Acting(p) /\ IsEffectiveSuperAdmin(request[p].as)]_vars

\* The half of P2 that no interleaving breaks: nobody becomes Super Admin-tier but
\* by a request of an effective Super Admin, whatever happens between its checks
\* and its write.
TierConferred ==
    [][\A u \in Users :
         /\ account'[u] # None /\ IsSuperAdminTier(account[u])'
         /\ account[u] = None \/ ~IsSuperAdminTier(account[u])
         => \E p \in Procs : Acting(p) /\ IsEffectiveSuperAdmin(request[p].as)]_vars

\* Nobody's authority changes by a request of their own, directly or through the
\* matrix of a role they resolve to.
OwnAuthorityFromOthers ==
    [][\A p \in Procs, u \in Users : Alone /\ Acting(p) /\ u = request[p].actor => Authority(u)' = Authority(u)]_vars

\* "Only custom roles with nobody assigned can go."
RemovedRoleHadNobody ==
    [][\A r \in AppRoles : Alone /\ permissions[r] # None /\ permissions'[r] = None => Members(r) = {}]_vars

\* What three requests in a row never do: touch the tier from below, change their
\* own authority, or take a role away from those who have it.
AuthorityIsKept == TierProtected /\ OwnAuthorityFromOthers /\ RemovedRoleHadNobody
=============================================================================
