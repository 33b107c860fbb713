------------------------------ MODULE MCAccess ------------------------------
(* Small instances of Access for TLC: three accounts, one custom role. *)
EXTENDS Access, TLC

CONSTANTS s, t, u, c, p1, p2, MaxRequests

\* One request after the other, or two at a time.
OneByOne(teams) == {[account |-> x.account, permissions |-> x.permissions, requests |-> p1 :> MaxRequests] : x \in teams}
TwoAtATime(teams) == {[account |-> x.account, permissions |-> x.permissions, requests |-> p1 :> 1 @@ p2 :> 1] : x \in teams}

On(role, app) == [role |-> role, app |-> app, active |-> TRUE]
Roles(custom) == [r \in AppRoles |-> CASE r = "SUPER_ADMIN" -> Permissions
                                       [] r = "ADMIN" -> {StaffEdit}
                                       [] r = "USER" -> {}
                                       [] r = c -> custom]
\* No custom role yet.
BeforeCustom ==
    {[account |-> (s :> On("SUPER_ADMIN", None) @@ t :> On("ADMIN", "ADMIN") @@ u :> None), permissions |-> Roles(None)]}
\* A Super Admin beside a staff account or two, on the NULL fallback path or not.
WithSuperAdmin ==
    {[account |-> (s :> On("SUPER_ADMIN", kv[1]) @@ t :> On("ADMIN", c) @@ u :> kv[2]),
      permissions |-> Roles({StaffEdit, RolesEdit})]
       : kv \in {<<"SUPER_ADMIN", None>>, <<None, On("SUPER_ADMIN", c)>>}}
    \cup BeforeCustom
TwoSuperAdmins ==
    {[account |-> (s :> On("SUPER_ADMIN", None) @@ t :> On("SUPER_ADMIN", "SUPER_ADMIN") @@ u :> None),
      permissions |-> Roles({})]}
\* A staff account that holds every permission, beside a Super Admin.
FullStaff ==
    {[account |-> (s :> On("SUPER_ADMIN", None) @@ t :> On("ADMIN", c) @@ u :> None),
      permissions |-> Roles(Permissions)]}
\* No Super Admin: the role managers are on their own.
WithoutSuperAdmin ==
    {[account |-> (s :> On("ADMIN", c) @@ t :> vm[1] @@ u :> On("ADMIN", None)),
      permissions |-> [Roles({StaffEdit, RolesEdit}) EXCEPT !["ADMIN"] = vm[2]]]
       : vm \in {<<On("ADMIN", "ADMIN"), {StaffEdit}>>, <<On("USER", c), {StaffEdit, RolesEdit}>>}}
AnyTeam == WithSuperAdmin \cup WithoutSuperAdmin
Both == OneByOne(AnyTeam) \cup TwoAtATime(FullStaff)
TwoAdminsAtOnce == TwoAtATime(TwoSuperAdmins)
Sets == {{}, {StaffEdit, RolesEdit}}
=============================================================================
