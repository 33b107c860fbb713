--------------------------- MODULE Access_proofs ---------------------------
(***************************************************************************)
(* Proofs about Access, for any accounts, roles, permissions and requests   *)
(* in progress: the tables keep their shapes and their foreign key, and no  *)
(* interleaving lets anybody but a Super Admin confer the protected tier.   *)
(* As long as requests do not overlap, what a request has read and checked  *)
(* is still so when it writes (Serial), and from that follow the ceiling,   *)
(* the tier, the lockout guards and the removal of roles.                   *)
(***************************************************************************)
EXTENDS Access, TLAPS

\* What the checks of a request leave behind for its write: an AppRole the actor
\* was assigned has existed, and a tier it hands out was a Super Admin's to give.
Vetted(req) ==
    /\ req.as.app # None => req.as.app \in minted
    /\ req.op \in {"assign", "create"} /\ req.at \notin {"load", "authorize"} =>
          ("SUPER_ADMIN" \in {req.wish.role, req.wish.app} => IsEffectiveSuperAdmin(req.as))

AllVetted == \A p \in Procs : request[p] # None => Vetted(request[p])
IInv == TypeOK /\ AllVetted

USE PermissionsKnown, CustomIsNoKey, NoneIsNoRow

-----------------------------------------------------------------------------
\* With the protected row in place, both axes can be read off the assignment.
LEMMA TierByAxes ==
  ASSUME TypeOK, NEW a, a.role \in Keys, a.app \in AppRoles \cup {None}
  PROVE  IsSuperAdminTier(a) <=> a.role = "SUPER_ADMIN" \/ a.app = "SUPER_ADMIN"
BY DEF TypeOK, IsSuperAdminTier, IsEffectiveSuperAdmin, Resolve, Keys, AppRoles

\* A step that touches no table and puts one vetted request in place of another.
LEMMA ProceedKeeps ==
  ASSUME IInv, NEW p \in Procs, NEW req, Proceed(p, req),
         req # None => WellFormed(req) /\ Vetted(req)
  PROVE  IInv'
<1>1. /\ request' = [request EXCEPT ![p] = req]
      /\ UNCHANGED <<account, permissions, minted, requests>>
  BY DEF Proceed
<1>2. request' = [q \in Procs |-> request'[q]] /\ request'[p] = req
      /\ \A q \in Procs : q # p => request'[q] = request[q]
  BY <1>1 DEF IInv, TypeOK
<1>3. \A q \in Procs : request'[q] # None => WellFormed(request'[q]) /\ Vetted(request'[q])
  BY <1>2 DEF IInv, TypeOK, AllVetted
<1>4. TypeOK'
  BY <1>1, <1>2, <1>3 DEF IInv, TypeOK, WellFormed
<1>5. AllVetted'
  BY <1>1, <1>3 DEF AllVetted, Vetted, IsEffectiveSuperAdmin, Resolve
<1> QED
  BY <1>4, <1>5 DEF IInv

LEMMA RefuseKeeps ==
  ASSUME IInv, NEW p \in Procs, Refuse(p)
  PROVE  IInv'
BY ProceedKeeps DEF Refuse

\* A check that passes moves its request on, but neither back to loading nor,
\* for a request that confers a role, past a vetting that has not happened.
LEMMA CheckKeeps ==
  ASSUME IInv, NEW p \in Procs, NEW next \in {"admins", "managers", "members", "write"},
         request[p] # None, request[p].at # "load",
         \/ Refuse(p)
         \/ /\ Proceed(p, [request[p] EXCEPT !.at = next])
            /\ request[p].at # "authorize" \/ Vetted([request[p] EXCEPT !.at = next])
  PROVE  IInv'
<1> DEFINE req == request[p]
           moved == [req EXCEPT !.at = next]
<1>1. WellFormed(req) /\ Vetted(req)
  BY DEF IInv, TypeOK, AllVetted
<1>2. /\ DOMAIN moved = DOMAIN req /\ moved.at = next /\ moved.op = req.op /\ moved.as = req.as
      /\ moved.actor = req.actor /\ moved.target = req.target /\ moved.wish = req.wish
      /\ moved.before = req.before
  BY <1>1 DEF WellFormed
<1>3. WellFormed(moved)
  BY <1>1, <1>2 DEF WellFormed
<1>4. CASE ~Refuse(p)
  <2>1. Vetted(moved)
    BY <1>1, <1>2, <1>4 DEF Vetted
  <2> QED
    BY <1>3, <1>4, <2>1, ProceedKeeps
<1>5. CASE Refuse(p)
  BY <1>5, RefuseKeeps
<1> QED
  BY <1>4, <1>5

-----------------------------------------------------------------------------
(* Requests *)

LEMMA InitIInv == Init => IInv
BY StartIsSeeded DEF Init, IInv, TypeOK, AllVetted

LEMMA AdmitKeeps ==
  ASSUME IInv, NEW p \in Procs, NEW u \in Users, NEW op \in AccountOps \cup RoleOps, NEW target, NEW wish,
         Admit(p, u, op, target, wish),
         op \in AccountOps => target \in Users,
         op \in RoleOps => target \in AppRoles,
         op \in {"assign", "create"} => wish \in Wish,
         op = "status" => wish \in BOOLEAN,
         op \in {"save", "mint"} => wish \in Matrices,
         op \in {"delete", "drop"} => wish = None
  PROVE  IInv'
<1> DEFINE as == [role |-> account[u].role, app |-> account[u].app]
           req == [op |-> op, actor |-> u, target |-> target, wish |-> wish, before |-> None,
                   at |-> IF op = "mint" THEN "authorize" ELSE "load", as |-> as]
<1>1. /\ request' = [request EXCEPT ![p] = req] /\ account[u] # None
      /\ UNCHANGED <<account, permissions, minted>>
  BY DEF Admit
<1>2. as \in Assignment
  BY <1>1 DEF IInv, TypeOK, Account, Assignment
<1>3. WellFormed(req)
  BY <1>2 DEF WellFormed, AccountOps, RoleOps
<1>4. as.app # None => as.app \in minted
  BY <1>1 DEF IInv, TypeOK, Account
<1>5. Vetted(req)
  BY <1>4 DEF Vetted
<1>6. request' = [q \in Procs |-> request'[q]] /\ request'[p] = req
      /\ \A q \in Procs : q # p => request'[q] = request[q]
  BY <1>1 DEF IInv, TypeOK
<1>7. \A q \in Procs : request'[q] # None => WellFormed(request'[q]) /\ Vetted(request'[q])
  BY <1>3, <1>5, <1>6 DEF IInv, TypeOK, AllVetted
<1>8. TypeOK'
  BY <1>1, <1>6, <1>7 DEF IInv, TypeOK, WellFormed
<1>9. AllVetted'
  BY <1>1, <1>7 DEF AllVetted, Vetted, IsEffectiveSuperAdmin, Resolve
<1> QED
  BY <1>8, <1>9 DEF IInv

LEMMA AskKeeps ==
  ASSUME IInv, NEW p \in Procs, NEW u \in Users, Ask(p, u)
  PROVE  IInv'
<1>1. ASSUME NEW v \in Users, NEW wish \in Wish, NEW op \in {"assign", "create"}, Admit(p, u, op, v, wish)
      PROVE  IInv'
  BY <1>1, AdmitKeeps DEF AccountOps, RoleOps
<1>2. ASSUME NEW v \in Users, Admit(p, u, "delete", v, None)
      PROVE  IInv'
  BY <1>2, AdmitKeeps DEF AccountOps, RoleOps
<1>3. ASSUME NEW v \in Users, NEW active \in BOOLEAN, Admit(p, u, "status", v, active)
      PROVE  IInv'
  BY <1>3, AdmitKeeps DEF AccountOps, RoleOps
<1>4. ASSUME NEW r \in AppRoles, Admit(p, u, "drop", r, None)
      PROVE  IInv'
  BY <1>4, AdmitKeeps DEF AccountOps, RoleOps
<1>5. ASSUME NEW r \in AppRoles, NEW m \in Matrices, NEW op \in {"save", "mint"}, Admit(p, u, op, r, m)
      PROVE  IInv'
  BY <1>5, AdmitKeeps DEF AccountOps, RoleOps
<1> QED
  BY <1>1, <1>2, <1>3, <1>4, <1>5 DEF Ask, AppRoles

LEMMA AssignedType ==
  ASSUME NEW wish \in Wish, NEW kind \in Keys
  PROVE  Assigned(wish, kind) \in Assignment
BY DEF Assigned, Assignment, Wish, AppRoles

LEMMA LoadAccountKeeps ==
  ASSUME IInv, NEW p \in Procs, LoadAccount(p)
  PROVE  IInv'
<1> DEFINE req == request[p]
           a == account[req.target]
           was == [role |-> a.role, app |-> a.app]
           wish == IF req.op = "assign" THEN Assigned(req.wish, a.role) ELSE req.wish
           loaded == [req EXCEPT !.before = was, !.at = "authorize",
                                 !.wish = IF req.op = "assign" THEN Assigned(@, a.role) ELSE @]
<1>1. /\ req # None /\ req.at = "load" /\ req.op \in {"assign", "status", "delete"}
      /\ WellFormed(req) /\ Vetted(req)
  BY DEF LoadAccount, IInv, TypeOK, AllVetted
<1>2. CASE a # None /\ Proceed(p, loaded)
  <2>1. req.target \in Users /\ a \in Account
    BY <1>1, <1>2 DEF IInv, TypeOK, WellFormed, AccountOps
  <2>2. was \in Assignment /\ (req.op = "assign" => wish \in Assignment)
    BY <1>1, <2>1, AssignedType DEF Account, Assignment, WellFormed
  <2>3. /\ DOMAIN loaded = DOMAIN req /\ loaded.at = "authorize" /\ loaded.before = was /\ loaded.wish = wish
        /\ loaded.op = req.op /\ loaded.as = req.as /\ loaded.actor = req.actor /\ loaded.target = req.target
    BY <1>1 DEF WellFormed
  <2>4. WellFormed(loaded)
    BY <1>1, <2>2, <2>3 DEF WellFormed, RoleOps, AccountOps
  <2>5. Vetted(loaded)
    BY <1>1, <2>3 DEF Vetted
  <2> QED
    BY <1>2, <2>4, <2>5, ProceedKeeps
<1>3. CASE Refuse(p)
  BY <1>3, RefuseKeeps
<1> QED
  BY <1>2, <1>3 DEF LoadAccount

LEMMA LoadNewStaffKeeps ==
  ASSUME IInv, NEW p \in Procs, LoadNewStaff(p)
  PROVE  IInv'
<1> DEFINE req == request[p]
           loaded == [req EXCEPT !.at = "authorize", !.wish = Assigned(@, @.role)]
<1>1. req # None /\ req.at = "load" /\ req.op = "create" /\ WellFormed(req) /\ Vetted(req)
  BY DEF LoadNewStaff, IInv, TypeOK, AllVetted
<1>2. CASE req.wish.role # None /\ Proceed(p, loaded)
  <2>1. req.wish \in Wish /\ req.wish.role \in Keys
    BY <1>1, <1>2 DEF WellFormed, Wish
  <2>2. Assigned(req.wish, req.wish.role) \in Assignment
    BY <2>1, AssignedType
  <2>3. /\ DOMAIN loaded = DOMAIN req /\ loaded.at = "authorize"
        /\ loaded.wish = Assigned(req.wish, req.wish.role) /\ loaded.before = req.before
        /\ loaded.op = req.op /\ loaded.as = req.as /\ loaded.actor = req.actor /\ loaded.target = req.target
    BY <1>1 DEF WellFormed
  <2>4. WellFormed(loaded)
    BY <1>1, <2>2, <2>3 DEF WellFormed, RoleOps, AccountOps
  <2>5. Vetted(loaded)
    BY <1>1, <2>3 DEF Vetted
  <2> QED
    BY <1>2, <2>4, <2>5, ProceedKeeps
<1>3. CASE Refuse(p)
  BY <1>3, RefuseKeeps
<1> QED
  BY <1>2, <1>3 DEF LoadNewStaff

LEMMA LoadRoleKeeps ==
  ASSUME IInv, NEW p \in Procs, LoadRole(p)
  PROVE  IInv'
<1> DEFINE req == request[p]
           at == IF req.op = "save" THEN "authorize" ELSE "members"
           loaded == [req EXCEPT !.before = permissions[req.target], !.at = at]
<1>1. /\ req # None /\ req.at = "load" /\ req.op \in {"save", "drop"}
      /\ WellFormed(req) /\ Vetted(req)
  BY DEF LoadRole, IInv, TypeOK, AllVetted
<1>2. CASE /\ permissions[req.target] # None /\ ~(req.op = "drop" /\ req.target \in Keys)
           /\ Proceed(p, loaded)
  <2>1. req.target \in AppRoles /\ permissions[req.target] \in SUBSET Permissions
    BY <1>1, <1>2 DEF IInv, TypeOK, WellFormed, RoleOps
  <2>2. /\ DOMAIN loaded = DOMAIN req /\ loaded.at = at /\ loaded.before = permissions[req.target]
        /\ loaded.wish = req.wish
        /\ loaded.op = req.op /\ loaded.as = req.as /\ loaded.actor = req.actor /\ loaded.target = req.target
    BY <1>1 DEF WellFormed
  <2>3. WellFormed(loaded)
    BY <1>1, <1>2, <2>1, <2>2 DEF WellFormed, RoleOps, AccountOps, AppRoles
  <2>4. Vetted(loaded)
    BY <1>1, <2>2 DEF Vetted
  <2> QED
    BY <1>2, <2>3, <2>4, ProceedKeeps
<1>3. CASE Refuse(p)
  BY <1>3, RefuseKeeps
<1> QED
  BY <1>2, <1>3 DEF LoadRole

LEMMA AuthorizeKeeps ==
  ASSUME IInv, NEW p \in Procs, Authorize(p)
  PROVE  IInv'
<1> DEFINE req == request[p]
<1>1. /\ req # None /\ req.at = "authorize" /\ WellFormed(req) /\ Vetted(req)
  BY DEF Authorize, IInv, TypeOK, AllVetted
<1>2. ASSUME NEW next \in {"admins", "managers", "members", "write"}
      PROVE  LET moved == [req EXCEPT !.at = next]
             IN  moved.as = req.as /\ moved.op = req.op /\ moved.wish = req.wish
  BY <1>1 DEF WellFormed
<1>3. ASSUME req.op \in {"assign", "create"}, NEW current, CanAssignRole(req.as, req.wish, current)
      PROVE  "SUPER_ADMIN" \in {req.wish.role, req.wish.app} => IsEffectiveSuperAdmin(req.as)
  <2>1. req.wish \in Assignment
    BY <1>1, <1>3 DEF WellFormed
  <2>2. req.wish.role \in Keys /\ req.wish.app \in AppRoles \cup {None}
    BY <2>1 DEF Assignment
  <2>3. IsSuperAdminTier(req.wish) <=> "SUPER_ADMIN" \in {req.wish.role, req.wish.app}
    BY <2>2, TierByAxes DEF IInv
  <2> QED
    BY <1>3, <2>3 DEF CanAssignRole, MayTouch
<1>4. CASE req.op = "assign"
  <2> DEFINE ok == MayTouch(req.as, req.before) /\ CanAssignRole(req.as, req.wish, req.before)
  <2>1. Check(p, ok, "admins")
    BY <1>1, <1>4 DEF Authorize
  <2>2. ok => Vetted([req EXCEPT !.at = "admins"])
    BY <1>1, <1>2, <1>3, <1>4 DEF Vetted
  <2> QED
    BY <1>1, <2>1, <2>2, CheckKeeps DEF Check
<1>5. CASE req.op = "create"
  <2> DEFINE ok == CanAssignRole(req.as, req.wish, None)
  <2>1. Check(p, ok, "write")
    BY <1>1, <1>5 DEF Authorize
  <2>2. ok => Vetted([req EXCEPT !.at = "write"])
    BY <1>1, <1>2, <1>3, <1>5 DEF Vetted
  <2> QED
    BY <1>1, <2>1, <2>2, CheckKeeps DEF Check
<1>6. CASE req.op \notin {"assign", "create"}
  <2>1. PICK next \in {"admins", "managers", "members", "write"} :
           Refuse(p) \/ Proceed(p, [req EXCEPT !.at = next])
    BY <1>1, <1>6 DEF Authorize, Check
  <2>2. Vetted([req EXCEPT !.at = next])
    BY <1>1, <1>2, <1>6 DEF Vetted
  <2> QED
    BY <1>1, <2>1, <2>2, CheckKeeps
<1> QED
  BY <1>4, <1>5, <1>6

LEMMA CountsKeep ==
  ASSUME IInv, NEW p \in Procs, CountAdmins(p) \/ CountManagers(p) \/ CountMembers(p)
  PROVE  IInv'
<1>1. request[p] # None /\ request[p].at \in {"admins", "managers", "members"}
  BY DEF CountAdmins, CountManagers, CountMembers
<1>2. PICK next \in {"admins", "managers", "members", "write"} :
         Refuse(p) \/ Proceed(p, [request[p] EXCEPT !.at = next])
  BY DEF CountAdmins, CountManagers, CountMembers, Check
<1> QED
  BY <1>1, <1>2, CheckKeeps

-----------------------------------------------------------------------------
(* The writes *)

\* What every write but a failing one does to the requests.
LEMMA DoneRequests ==
  ASSUME IInv, NEW p \in Procs, Done(p)
  PROVE  /\ request' = [q \in Procs |-> request'[q]] /\ request'[p] = None
         /\ \A q \in Procs : request'[q] # None => q # p /\ request'[q] = request[q]
BY DEF Done, IInv, TypeOK

\* The other requests stay vetted as long as no AppRole an actor was assigned
\* comes back.
LEMMA StillVetted ==
  ASSUME IInv, NEW p \in Procs, Done(p), minted \subseteq minted', permissions'["SUPER_ADMIN"] # None,
         \A r \in AppRoles : r \in minted /\ permissions[r] = None => permissions'[r] = None
  PROVE  AllVetted'
<1> SUFFICES ASSUME NEW q \in Procs, request'[q] # None PROVE Vetted(request[q])'
  BY DEF AllVetted
<1> DEFINE as == request[q].as
<1>1. request'[q] = request[q] /\ request[q] # None
  BY DoneRequests
<1>2. Vetted(request[q]) /\ as.role \in Keys /\ as.app \in AppRoles \cup {None}
  BY <1>1 DEF IInv, TypeOK, AllVetted, WellFormed, Assignment
<1>3. IsEffectiveSuperAdmin(as) => IsEffectiveSuperAdmin(request[q].as)'
  BY <1>1, <1>2 DEF IsEffectiveSuperAdmin, Resolve, Vetted, AppRoles, Keys
<1> QED
  BY <1>1, <1>2, <1>3 DEF Vetted

LEMMA WriteKeeps ==
  ASSUME IInv, NEW p \in Procs, Write(p)
  PROVE  IInv'
<1> DEFINE req == request[p]
           t == req.target
<1>1. CASE WriteFails(p)
  BY <1>1, RefuseKeeps DEF WriteFails
<1>2. SUFFICES ASSUME Done(p), req # None, req.at = "write" PROVE IInv'
  BY <1>1 DEF Write, WriteAssignment, WriteStatus, WriteStaff, DeleteAccount, SavePermissions, MintRole,
              DeleteRole, Writes
<1>3. WellFormed(req)
  BY <1>2 DEF IInv, TypeOK
<1>4. /\ request' = [q \in Procs |-> request'[q]]
      /\ \A q \in Procs : request'[q] # None => WellFormed(request[q])'
  BY <1>2, DoneRequests DEF IInv, TypeOK, WellFormed
<1>5. ASSUME UNCHANGED <<permissions, minted>>, NEW row \in Account \cup {None}, t \in Users,
             account' = [account EXCEPT ![t] = row],
             row # None /\ row.app # None => permissions[row.app] # None
      PROVE  IInv'
  <2>1. \A v \in Users : account'[v] = IF v = t THEN row ELSE account[v]
    BY <1>5 DEF IInv, TypeOK
  <2>2. TypeOK'
    BY <1>4, <1>5, <2>1 DEF IInv, TypeOK
  <2>3. AllVetted'
    BY <1>2, <1>5, StillVetted DEF IInv, TypeOK, Keys
  <2> QED
    BY <2>2, <2>3 DEF IInv
<1>6. CASE WriteAssignment(p)
  <2> DEFINE row == [account[t] EXCEPT !.role = req.wish.role, !.app = req.wish.app]
  <2>1. t \in Users /\ req.wish \in Assignment /\ account[t] \in Account /\ permissions[req.wish.app] # None
    BY <1>2, <1>3, <1>6 DEF WriteAssignment, Writes, WellFormed, AccountOps, IInv, TypeOK
  <2>2. account' = [account EXCEPT ![t] = row] /\ UNCHANGED <<permissions, minted>>
    BY <1>6, <2>1 DEF WriteAssignment, IInv, TypeOK, Account
  <2>3. row \in Account /\ row.app = req.wish.app
    BY <2>1 DEF Account, Assignment
  <2> QED
    BY <1>5, <2>1, <2>2, <2>3
<1>7. CASE WriteStatus(p)
  <2> DEFINE row == [account[t] EXCEPT !.active = req.wish]
  <2>1. t \in Users /\ req.wish \in BOOLEAN /\ account[t] \in Account /\ account[t] # None
    BY <1>2, <1>3, <1>7 DEF WriteStatus, Writes, WellFormed, AccountOps, IInv, TypeOK
  <2>2. account' = [account EXCEPT ![t] = row] /\ UNCHANGED <<permissions, minted>>
    BY <1>7, <2>1 DEF WriteStatus, IInv, TypeOK, Account
  <2>3. row \in Account /\ row.app = account[t].app
    BY <2>1 DEF Account
  <2>4. row.app # None => permissions[row.app] # None
    BY <2>1, <2>3 DEF IInv, TypeOK
  <2> QED
    BY <1>5, <2>1, <2>2, <2>3, <2>4
<1>8. CASE WriteStaff(p)
  <2> DEFINE row == [role |-> req.wish.role, app |-> req.wish.app, active |-> TRUE]
  <2>1. /\ t \in Users /\ req.wish \in Assignment /\ permissions[req.wish.app] # None
        /\ account' = [account EXCEPT ![t] = row] /\ UNCHANGED <<permissions, minted>>
    BY <1>2, <1>3, <1>8 DEF WriteStaff, Writes, WellFormed, AccountOps
  <2>2. row \in Account
    BY <2>1 DEF Account, Assignment
  <2> QED
    BY <1>5, <2>1, <2>2
<1>9. CASE DeleteAccount(p)
  <2>1. t \in Users /\ account' = [account EXCEPT ![t] = None] /\ UNCHANGED <<permissions, minted>>
    BY <1>2, <1>3, <1>9 DEF DeleteAccount, Writes, WellFormed, AccountOps
  <2> QED
    BY <1>5, <2>1
<1>10. ASSUME NEW row \in (SUBSET Permissions) \cup {None}, t \in AppRoles,
              permissions' = [permissions EXCEPT ![t] = row],
              minted' = minted \cup {t},
              row = None => t \in Custom,
              t \in minted => permissions[t] # None \/ row = None,
              \A v \in Users : account'[v] # None =>
                 /\ account'[v] \in Account
                 /\ account'[v].app # None => permissions'[account'[v].app] # None,
              account' \in [Users -> Account \cup {None}]
       PROVE  IInv'
  <2>1. \A r \in AppRoles : permissions'[r] = IF r = t THEN row ELSE permissions[r]
    BY <1>10 DEF IInv, TypeOK
  <2>2. \A k \in Keys : permissions'[k] # None
    BY <1>10, <2>1 DEF IInv, TypeOK, AppRoles
  <2>3. TypeOK'
    BY <1>4, <1>10, <2>1, <2>2 DEF IInv, TypeOK
  <2>4. AllVetted'
    <3>1. permissions'["SUPER_ADMIN"] # None
      BY <2>2 DEF Keys
    <3>2. \A r \in AppRoles : r \in minted /\ permissions[r] = None => permissions'[r] = None
      BY <1>10, <2>1
    <3> QED
      BY <1>2, <1>10, <3>1, <3>2, StillVetted
  <2> QED
    BY <2>3, <2>4 DEF IInv
<1>11. ASSUME NEW row \in SUBSET Permissions, t \in AppRoles,
              permissions' = [permissions EXCEPT ![t] = row],
              minted' = minted \cup {t},
              t \in minted => permissions[t] # None,
              UNCHANGED account
       PROVE  IInv'
  <2>1. \A r \in AppRoles : permissions[r] # None => permissions'[r] # None
    BY <1>11 DEF IInv, TypeOK
  <2>2. \A v \in Users : account'[v] # None =>
           /\ account'[v] \in Account
           /\ account'[v].app # None => permissions'[account'[v].app] # None
    BY <1>11, <2>1 DEF IInv, TypeOK, Account
  <2>3. account' \in [Users -> Account \cup {None}] /\ row # None
    BY <1>11 DEF IInv, TypeOK
  <2> QED
    BY <1>10, <1>11, <2>2, <2>3
<1>12. CASE SavePermissions(p)
  <2> DEFINE row == (permissions[t] \ (req.before \ req.wish)) \cup (req.wish \ req.before)
  <2>1. /\ t \in AppRoles /\ permissions[t] # None /\ req.wish \in SUBSET Permissions
        /\ UNCHANGED <<account, minted>>
    BY <1>2, <1>3, <1>12 DEF SavePermissions, Writes, WellFormed, RoleOps
  <2>2. permissions' = [permissions EXCEPT ![t] = row]
    BY <1>12 DEF SavePermissions
  <2>3. row \in SUBSET Permissions
    BY <2>1 DEF IInv, TypeOK
  <2>4. t \in minted /\ minted' = minted \cup {t}
    BY <2>1 DEF IInv, TypeOK
  <2> QED
    BY <1>11, <2>1, <2>2, <2>3, <2>4
<1>13. CASE MintRole(p)
  <2>1. /\ t \in AppRoles /\ t \notin minted /\ minted' = minted \cup {t} /\ req.wish \in SUBSET Permissions
        /\ permissions' = [permissions EXCEPT ![t] = req.wish] /\ UNCHANGED account
    BY <1>2, <1>3, <1>13 DEF MintRole, Writes, WellFormed, RoleOps
  <2> QED
    BY <1>11, <2>1
<1>14. CASE DeleteRole(p)
  <2> DEFINE freed(v) == [account[v] EXCEPT !.app = None]
  <2>1. /\ t \in Custom /\ t \in AppRoles /\ permissions[t] # None
        /\ permissions' = [permissions EXCEPT ![t] = None] /\ UNCHANGED minted
        /\ account' = [v \in Users |-> IF account[v] # None /\ account[v].app = t THEN freed(v) ELSE account[v]]
    BY <1>2, <1>3, <1>14 DEF DeleteRole, Writes, WellFormed, RoleOps
  <2>2. t \in minted /\ minted' = minted \cup {t}
    BY <2>1 DEF IInv, TypeOK
  <2>3. \A v \in Users : account[v] # None => freed(v) \in Account /\ freed(v).app = None
    BY DEF IInv, TypeOK, Account
  <2>4. account' \in [Users -> Account \cup {None}]
    BY <2>1, <2>3 DEF IInv, TypeOK
  <2>5. \A v \in Users : account'[v] # None =>
           /\ account'[v] \in Account
           /\ account'[v].app # None => account'[v].app \in AppRoles /\ account'[v].app # t
                                        /\ permissions[account'[v].app] # None
    BY <2>1, <2>3, <2>4 DEF IInv, TypeOK, Account
  <2>6. \A v \in Users : account'[v] # None =>
           /\ account'[v] \in Account
           /\ account'[v].app # None => permissions'[account'[v].app] # None
    BY <2>1, <2>5 DEF IInv, TypeOK
  <2> QED
    BY <1>10, <2>1, <2>2, <2>4, <2>6
<1> QED
  BY <1>1, <1>6, <1>7, <1>8, <1>9, <1>12, <1>13, <1>14 DEF Write

-----------------------------------------------------------------------------
LEMMA NextKeeps == IInv /\ [Next]_vars => IInv'
<1> SUFFICES ASSUME IInv, [Next]_vars PROVE IInv'
  OBVIOUS
<1>1. ASSUME NEW p \in Procs, NEW u \in Users, Ask(p, u) PROVE IInv'
  BY <1>1, AskKeeps
<1>2. ASSUME NEW p \in Procs, LoadAccount(p) \/ LoadNewStaff(p) \/ LoadRole(p) PROVE IInv'
  BY <1>2, LoadAccountKeeps, LoadNewStaffKeeps, LoadRoleKeeps
<1>3. ASSUME NEW p \in Procs, Authorize(p) \/ CountAdmins(p) \/ CountManagers(p) \/ CountMembers(p) PROVE IInv'
  BY <1>3, AuthorizeKeeps, CountsKeep
<1>4. ASSUME NEW p \in Procs, Write(p) PROVE IInv'
  BY <1>4, WriteKeeps
<1>5. CASE UNCHANGED vars
  BY <1>5 DEF vars, IInv, TypeOK, AllVetted, Vetted, WellFormed, IsEffectiveSuperAdmin, Resolve
<1> QED
  BY <1>1, <1>2, <1>3, <1>4, <1>5 DEF Next

\* The tables and the requests keep their shapes, the built-in roles stay and no
\* account points at a role that is gone, whatever is interleaved.
THEOREM TypeCorrectness == Spec => []TypeOK
<1>1. Spec => []IInv
  BY InitIInv, NextKeeps, PTL DEF Spec
<1> QED
  BY <1>1, PTL DEF IInv

LEMMA ConferStep ==
  ASSUME IInv, [Next]_vars, NEW u \in Users,
         account'[u] # None, IsSuperAdminTier(account[u])',
         account[u] = None \/ ~IsSuperAdminTier(account[u])
  PROVE  \E p \in Procs : Acting(p) /\ IsEffectiveSuperAdmin(request[p].as)
<1>1. TypeOK /\ TypeOK'
  BY NextKeeps DEF IInv
<1>2. account'[u] \in Account /\ (account'[u].role = "SUPER_ADMIN" \/ account'[u].app = "SUPER_ADMIN")
  <2>1. account'[u] \in Account
    BY <1>1 DEF TypeOK
  <2>2. account'[u].role \in Keys /\ account'[u].app \in AppRoles \cup {None}
    BY <2>1 DEF Account
  <2>3. \/ account'[u].role = "SUPER_ADMIN"
        \/ account'[u].app = "SUPER_ADMIN"
    BY <2>2 DEF IsSuperAdminTier, IsEffectiveSuperAdmin, Resolve
  <2> QED
    BY <2>1, <2>3
<1>3. account[u] = None \/ (account[u].role # "SUPER_ADMIN" /\ account[u].app # "SUPER_ADMIN")
  BY <1>1, TierByAxes DEF TypeOK, Account
<1>4. PICK p \in Procs : WriteAssignment(p) \/ WriteStaff(p)
  <2>1. account'[u] # account[u]
    BY <1>2, <1>3
  <2>2. ~UNCHANGED account
    BY <2>1
  <2>3. PICK p \in Procs : Write(p)
    <3>1. ~UNCHANGED vars
      BY <2>2 DEF vars
    <3>2. ASSUME NEW p \in Procs, NEW v \in Users PROVE ~Ask(p, v)
      BY <2>2 DEF Ask, Admit
    <3>3. ASSUME NEW p \in Procs, NEW req PROVE ~Proceed(p, req)
      BY <2>2 DEF Proceed
    <3>4. ASSUME NEW p \in Procs PROVE ~LoadAccount(p) /\ ~LoadNewStaff(p) /\ ~LoadRole(p)
      BY <3>3 DEF LoadAccount, LoadNewStaff, LoadRole, Refuse
    <3>5. ASSUME NEW p \in Procs, NEW ok, NEW next PROVE ~Check(p, ok, next)
      BY <3>3 DEF Check, Refuse
    <3>6. ASSUME NEW p \in Procs
          PROVE  ~Authorize(p) /\ ~CountAdmins(p) /\ ~CountManagers(p) /\ ~CountMembers(p)
      BY <3>5 DEF Authorize, CountAdmins, CountManagers, CountMembers
    <3> QED
      BY <3>1, <3>2, <3>4, <3>6 DEF Next
  <2>4. ~WriteFails(p) /\ ~SavePermissions(p) /\ ~MintRole(p)
    BY <2>2 DEF WriteFails, Refuse, Proceed, SavePermissions, MintRole
  <2>5. ~DeleteAccount(p)
    BY <1>1, <1>2, <2>1 DEF DeleteAccount, TypeOK
  <2>6. ~WriteStatus(p)
    BY <1>1, <1>2, <1>3, <2>1 DEF WriteStatus, TypeOK, Account
  <2>7. ~DeleteRole(p)
    <3>1. SUFFICES ASSUME DeleteRole(p) PROVE FALSE
      OBVIOUS
    <3>2. account[u] # None /\ account[u] \in Account /\ account'[u] = [account[u] EXCEPT !.app = None]
      BY <3>1, <1>1, <1>2, <2>1 DEF DeleteRole, TypeOK
    <3>3. account'[u].role = account[u].role /\ account'[u].app = None
      BY <3>2 DEF Account
    <3>4. None # "SUPER_ADMIN"
      BY DEF AppRoles, Keys
    <3> QED
      BY <1>2, <1>3, <3>2, <3>3, <3>4
  <2> QED
    BY <2>3, <2>4, <2>5, <2>6, <2>7 DEF Write
<1> DEFINE req == request[p]
<1>5. /\ req # None /\ req.at = "write" /\ req.op \in {"assign", "create"} /\ request'[p] = None
      /\ account'[u].role = req.wish.role /\ account'[u].app = req.wish.app
  <2>1. req # None /\ req.at = "write" /\ req.op \in {"assign", "create"} /\ request'[p] = None
    BY <1>1, <1>4 DEF WriteAssignment, WriteStaff, Writes, Done, TypeOK
  <2>2. account'[u] # account[u]
    BY <1>2, <1>3
  <2>3. account'[u].role = req.wish.role /\ account'[u].app = req.wish.app
    BY <1>1, <1>4, <2>2 DEF WriteAssignment, WriteStaff, TypeOK, Account
  <2> QED
    BY <2>1, <2>3
<1>6. Vetted(req)
  BY <1>5 DEF IInv, AllVetted
<1>7. IsEffectiveSuperAdmin(req.as)
  BY <1>2, <1>5, <1>6 DEF Vetted
<1> QED
  BY <1>5, <1>7 DEF Acting

\* Nobody joins the Super Admin tier but by a request of an effective Super Admin,
\* whatever happens between its checks and its write.
THEOREM TierIsConferred == Spec => TierConferred
<1>1. Spec => []IInv
  BY InitIInv, NextKeeps, PTL DEF Spec
<1>2. IInv /\ [Next]_vars =>
        [\A u \in Users :
           /\ account'[u] # None /\ IsSuperAdminTier(account[u])'
           /\ account[u] = None \/ ~IsSuperAdminTier(account[u])
           => \E p \in Procs : Acting(p) /\ IsEffectiveSuperAdmin(request[p].as)]_vars
  BY ConferStep
<1> QED
  BY <1>1, <1>2, PTL DEF Spec, TierConferred

-----------------------------------------------------------------------------
(* One request at a time *)

\* What an account resolves to, holds and may do, as a function of the matrices P.
RoleIn(P, a) == IF a.app # None /\ P[a.app] # None THEN a.app ELSE a.role
HeldIn(P, a) == IF RoleIn(P, a) = "SUPER_ADMIN" THEN Permissions ELSE P[RoleIn(P, a)]
TierIn(P, a) == a.role = "SUPER_ADMIN" \/ RoleIn(P, a) = "SUPER_ADMIN"
Guarded(P, as, a) == TierIn(P, a) => RoleIn(P, as) = "SUPER_ADMIN"
AuthorityIn(P, a) == IF a = None THEN {} ELSE HeldIn(P, a)
Manages(P, a) == a # None /\ a.active /\ RolesEdit \in HeldIn(P, a)

LEMMA HeldIs ==
  /\ \A a : Resolve(a) = RoleIn(permissions, a) /\ Held(a) = HeldIn(permissions, a)
  /\ \A a : IsSuperAdminTier(a) <=> TierIn(permissions, a)
  /\ \A a : IsEffectiveSuperAdmin(a) <=> RoleIn(permissions, a) = "SUPER_ADMIN"
BY DEF Held, Resolve, IsSuperAdminTier, IsEffectiveSuperAdmin, HeldIn, RoleIn, TierIn

\* Nothing runs between the checks of a request and its write: what a request has
\* read and checked is still so of the tables A and P.
SameAssignment(a, b) == a # None /\ a.role = b.role /\ a.app = b.app
LoadedIn(A, P, req) ==
    /\ req.op \in {"assign", "status", "delete"} =>
          SameAssignment(A[req.target], req.before) /\ req.actor # req.target
    /\ req.op = "create" => A[req.target] = None
    /\ req.op = "save" => req.target # "SUPER_ADMIN" /\ req.before = P[req.target]
CheckedIn(P, req) ==
    /\ req.op \in {"assign", "status", "delete"} => Guarded(P, req.as, req.before)
    /\ req.op \in {"assign", "create"} =>
          Guarded(P, req.as, req.wish) /\ HeldIn(P, req.wish) \subseteq HeldIn(P, req.as)
    /\ req.op = "assign" => HeldIn(P, req.before) \ HeldIn(P, req.wish) \subseteq HeldIn(P, req.as)
    /\ req.op = "save" =>
          /\ RoleIn(P, req.as) # req.target
          /\ (req.wish \ req.before) \cup (req.before \ req.wish) \subseteq HeldIn(P, req.as)
Loses(P, req) ==
    /\ req.op \in {"assign", "delete"} \/ (req.op = "status" /\ req.wish # TRUE)
    /\ RolesEdit \in HeldIn(P, req.before) /\ (req.op = "assign" => RolesEdit \notin HeldIn(P, req.wish))
CountedIn(A, P, req) ==
    /\ Loses(P, req) => \E v \in Users : v # req.target /\ Manages(P, A[v])
    /\ req.op = "save" /\ RolesEdit \in req.before \ req.wish =>
          \E v \in Users : Manages(P, A[v]) /\ RoleIn(P, A[v]) # req.target
    /\ req.op = "drop" => \A v \in Users : A[v] # None => A[v].app # req.target /\ RoleIn(P, A[v]) # req.target
InPlace(req) ==
    /\ req.at = "admins" => req.op \in {"assign", "status", "delete"}
    /\ req.at = "managers" => req.op \in {"assign", "status", "delete", "save"}
    /\ req.at = "members" => req.op = "drop"
CurrentIn(A, P, req) ==
    /\ InPlace(req)
    /\ SameAssignment(A[req.actor], req.as)
    /\ req.at # "load" => LoadedIn(A, P, req)
    /\ req.at \notin {"load", "authorize"} => CheckedIn(P, req)
    /\ req.at = "write" => CountedIn(A, P, req)
Serial ==
    \A p \in Procs : request[p] # None =>
       p \in DOMAIN requests /\ (Alone => CurrentIn(account, permissions, request[p]))

\* A step that touches no table.
LEMMA SerialKeeps ==
  ASSUME IInv, Serial, NEW p \in Procs, NEW req, request' = [request EXCEPT ![p] = req],
         UNCHANGED <<account, permissions>>, DOMAIN requests' = DOMAIN requests,
         req # None => p \in DOMAIN requests /\ (Alone => CurrentIn(account, permissions, req))
  PROVE  Serial'
<1>1. \A q \in Procs : request'[q] = IF q = p THEN req ELSE request[q]
  BY DEF IInv, TypeOK
<1>2. Alone' <=> Alone
  BY DEF Alone
<1> QED
  BY <1>1, <1>2 DEF Serial

\* Somebody the lockout guards count is left to hand permissions out.
LEMMA CountedManages ==
  ASSUME TypeOK, NEW roles \in SUBSET ManagerRoles, NEW u, NEW v \in OthersOn(roles, u)
  PROVE  v \in Users /\ v # u /\ Manages(permissions, account[v]) /\ RoleIn(permissions, account[v]) \in roles
<1>1. /\ v \in Users /\ v # u /\ account[v] # None /\ account[v].active
      /\ account[v].app \in roles \/ (account[v].app = None /\ account[v].role \in roles)
  BY DEF OthersOn
<1>2. /\ account[v].app # None => permissions[account[v].app] # None
      /\ None \notin AppRoles
  BY <1>1 DEF TypeOK
<1>3. RoleIn(permissions, account[v]) \in roles
  BY <1>1, <1>2 DEF RoleIn, ManagerRoles
<1>4. RolesEdit \in HeldIn(permissions, account[v])
  BY <1>3 DEF HeldIn, ManagerRoles
<1> QED
  BY <1>1, <1>3, <1>4 DEF Manages

LEMMA NobodyResolves ==
  ASSUME TypeOK, NEW r, Members(r) = {}, NEW v \in Users, account[v] # None
  PROVE  account[v].app # r /\ RoleIn(permissions, account[v]) # r
BY DEF TypeOK, Members, RoleIn

LEMMA AdmitSerial ==
  ASSUME IInv, Serial, NEW p \in Procs, NEW u \in Users, NEW op, NEW target, NEW wish, Admit(p, u, op, target, wish)
  PROVE  Serial'
<1> DEFINE a == account[u]
           as == [role |-> a.role, app |-> a.app]
           at == IF op = "mint" THEN "authorize" ELSE "load"
<1>1. PICK req : req = [op |-> op, actor |-> u, target |-> target, wish |-> wish, before |-> None, at |-> at, as |-> as]
  OBVIOUS
<1>2. /\ p \in DOMAIN requests /\ a # None /\ request' = [request EXCEPT ![p] = req]
      /\ requests' = [requests EXCEPT ![p] = @ - 1] /\ UNCHANGED <<account, permissions>>
  BY <1>1 DEF Admit
<1>3. /\ req.actor = u /\ req.as.role = a.role /\ req.as.app = a.app
      /\ (req.op = "mint" /\ req.at = "authorize") \/ req.at = "load"
  BY <1>1
<1>4. CurrentIn(account, permissions, req)
  <2>1. SameAssignment(account[req.actor], req.as)
    BY <1>2, <1>3 DEF SameAssignment
  <2> QED
    BY <1>3, <2>1 DEF CurrentIn, InPlace, LoadedIn
<1>5. DOMAIN requests' = DOMAIN requests
  BY <1>2
<1> QED
  BY <1>2, <1>4, <1>5, SerialKeeps

\* A request goes on, or is refused.
LEMMA ProceedSerial ==
  ASSUME IInv, Serial, NEW p \in Procs, request[p] # None, NEW req, Proceed(p, req),
         req # None /\ Alone => CurrentIn(account, permissions, req)
  PROVE  Serial'
<1>1. p \in DOMAIN requests
  BY DEF Serial
<1> QED
  BY <1>1, SerialKeeps DEF Proceed

LEMMA RefuseSerial ==
  ASSUME IInv, Serial, NEW p \in Procs, request[p] # None, Refuse(p)
  PROVE  Serial'
BY ProceedSerial DEF Refuse

\* A request at its next check is the same request.
SameBut(req, next, at) ==
    /\ next.op = req.op /\ next.actor = req.actor /\ next.as = req.as /\ next.target = req.target
    /\ next.at = at
LEMMA MovesOn ==
  ASSUME IInv, NEW p \in Procs, NEW req, req = request[p], req # None
  PROVE  /\ WellFormed(req)
         /\ \A at : LET next == [req EXCEPT !.at = at]
                    IN  SameBut(req, next, at) /\ next.wish = req.wish /\ next.before = req.before
<1>1. WellFormed(req)
  BY DEF IInv, TypeOK
<1>2. DOMAIN req = {"op", "actor", "as", "target", "wish", "before", "at"}
  BY <1>1 DEF WellFormed
<1> QED
  BY <1>1, <1>2 DEF SameBut

LEMMA LoadAccountSerial ==
  ASSUME IInv, Serial, NEW p \in Procs, LoadAccount(p)
  PROVE  Serial'
<1>1. PICK req : req = request[p]
  OBVIOUS
<1> DEFINE a == account[req.target]
           was == [role |-> a.role, app |-> a.app]
<1>2. PICK next : next = [req EXCEPT !.before = was, !.at = "authorize",
                                     !.wish = IF req.op = "assign" THEN Assigned(@, a.role) ELSE @]
  OBVIOUS
<1>3. /\ req # None /\ req.op \in {"assign", "status", "delete"}
      /\ Refuse(p) \/ (a # None /\ req.actor # req.target /\ Proceed(p, next))
  BY <1>1, <1>2 DEF LoadAccount
<1>4. /\ SameBut(req, next, "authorize") /\ next.before = was
      /\ DOMAIN req = {"op", "actor", "as", "target", "wish", "before", "at"}
  BY <1>1, <1>2, <1>3, MovesOn DEF SameBut, WellFormed
<1>5. ASSUME Alone, a # None, req.actor # req.target PROVE CurrentIn(account, permissions, next)
  <2>1. SameAssignment(account[next.actor], next.as)
    BY <1>1, <1>3, <1>4, <1>5 DEF Serial, CurrentIn, SameBut
  <2>2. SameAssignment(account[next.target], next.before) /\ next.actor # next.target
    BY <1>4, <1>5 DEF SameAssignment, SameBut
  <2>3. LoadedIn(account, permissions, next) /\ InPlace(next)
    BY <1>3, <1>4, <2>2 DEF LoadedIn, InPlace, SameBut
  <2> QED
    BY <1>4, <2>1, <2>3 DEF CurrentIn, SameBut
<1> QED
  BY <1>1, <1>3, <1>5, ProceedSerial, RefuseSerial

LEMMA LoadNewStaffSerial ==
  ASSUME IInv, Serial, NEW p \in Procs, LoadNewStaff(p)
  PROVE  Serial'
<1>1. PICK req : req = request[p]
  OBVIOUS
<1>2. PICK next : next = [req EXCEPT !.at = "authorize", !.wish = Assigned(@, @.role)]
  OBVIOUS
<1>3. /\ req # None /\ req.op = "create"
      /\ Refuse(p) \/ (account[req.target] = None /\ Proceed(p, next))
  BY <1>1, <1>2 DEF LoadNewStaff
<1>4. SameBut(req, next, "authorize")
  BY <1>1, <1>2, <1>3, MovesOn DEF SameBut, WellFormed
<1>5. ASSUME Alone, account[req.target] = None PROVE CurrentIn(account, permissions, next)
  <2>1. SameAssignment(account[next.actor], next.as)
    BY <1>1, <1>3, <1>4 , <1>5 DEF Serial, CurrentIn, SameBut
  <2>2. LoadedIn(account, permissions, next) /\ InPlace(next)
    BY <1>3, <1>4, <1>5 DEF LoadedIn, InPlace, SameBut
  <2> QED
    BY <1>4, <2>1, <2>2 DEF CurrentIn, SameBut
<1> QED
  BY <1>1, <1>3, <1>5, ProceedSerial, RefuseSerial

LEMMA LoadRoleSerial ==
  ASSUME IInv, Serial, NEW p \in Procs, LoadRole(p)
  PROVE  Serial'
<1>1. PICK req : req = request[p]
  OBVIOUS
<1>2. PICK at : at = IF req.op = "save" THEN "authorize" ELSE "members"
  OBVIOUS
<1>3. PICK next : next = [req EXCEPT !.before = permissions[req.target], !.at = at]
  OBVIOUS
<1>4. /\ req # None /\ req.op \in {"save", "drop"}
      /\ Refuse(p) \/ (~(req.op = "save" /\ req.target = "SUPER_ADMIN") /\ Proceed(p, next))
  BY <1>1, <1>2, <1>3 DEF LoadRole
<1>5. SameBut(req, next, at) /\ next.before = permissions[req.target]
  BY <1>1, <1>3, <1>4, MovesOn DEF SameBut, WellFormed
<1>6. ASSUME Alone, ~(req.op = "save" /\ req.target = "SUPER_ADMIN") PROVE CurrentIn(account, permissions, next)
  <2>1. SameAssignment(account[next.actor], next.as)
    BY <1>1, <1>4, <1>5, <1>6 DEF Serial, CurrentIn, SameBut
  <2>2. LoadedIn(account, permissions, next) /\ InPlace(next) /\ next.at # "write"
    BY <1>2, <1>4, <1>5, <1>6 DEF LoadedIn, InPlace, SameBut
  <2>3. next.at # "authorize" => CheckedIn(permissions, next)
    BY <1>2, <1>4, <1>5 DEF CheckedIn, SameBut
  <2> QED
    BY <2>1, <2>2, <2>3 DEF CurrentIn
<1> QED
  BY <1>1, <1>4, <1>6, ProceedSerial, RefuseSerial

LEMMA SameRequest ==
  ASSUME NEW A, NEW P, NEW req, NEW next, NEW at,
         SameBut(req, next, at), next.wish = req.wish, next.before = req.before
  PROVE  /\ LoadedIn(A, P, next) <=> LoadedIn(A, P, req)
         /\ CheckedIn(P, next) <=> CheckedIn(P, req)
         /\ CountedIn(A, P, next) <=> CountedIn(A, P, req)
<1>1. LoadedIn(A, P, next) <=> LoadedIn(A, P, req)
  BY DEF LoadedIn, SameBut
<1>2. CheckedIn(P, next) <=> CheckedIn(P, req)
  BY DEF CheckedIn, SameBut
<1>3. Loses(P, next) <=> Loses(P, req)
  BY DEF Loses, SameBut
<1>4. CountedIn(A, P, next) <=> CountedIn(A, P, req)
  BY <1>3 DEF CountedIn, SameBut
<1> QED
  BY <1>1, <1>2, <1>4

\* A check that passes establishes what the next place stands for.
LEMMA CheckSerial ==
  ASSUME IInv, Serial, NEW p \in Procs, NEW req, req = request[p], req # None, req.at # "load",
         NEW ok, NEW at \in {"admins", "managers", "write"}, Check(p, ok, at),
         at = "admins" => req.op \in {"assign", "status", "delete"},
         at = "managers" => req.op \in {"assign", "status", "delete", "save"},
         ok /\ Alone => CheckedIn(permissions, req) /\ (at = "write" => CountedIn(account, permissions, req))
  PROVE  Serial'
<1>1. PICK next : next = [req EXCEPT !.at = at]
  OBVIOUS
<1>2. Refuse(p) \/ (ok /\ Proceed(p, next))
  BY <1>1 DEF Check
<1>3. SameBut(req, next, at) /\ next.wish = req.wish /\ next.before = req.before
  BY <1>1, MovesOn DEF SameBut
<1>4. ASSUME ok, Alone PROVE CurrentIn(account, permissions, next)
  <2>1. SameAssignment(account[req.actor], req.as) /\ LoadedIn(account, permissions, req)
    BY <1>4 DEF Serial, CurrentIn
  <2>2. SameAssignment(account[next.actor], next.as) /\ next.at = at
    BY <1>3, <2>1 DEF SameBut
  <2>3. LoadedIn(account, permissions, next) /\ CheckedIn(permissions, next)
    BY <1>3, <1>4, <2>1, SameRequest
  <2>4. next.at = "write" => CountedIn(account, permissions, next)
    BY <1>3, <1>4, <2>2, SameRequest
  <2>5. InPlace(next)
    BY <1>3, <2>2 DEF InPlace, SameBut
  <2> QED
    BY <2>2, <2>3, <2>4, <2>5 DEF CurrentIn
<1> QED
  BY <1>2, <1>4, ProceedSerial, RefuseSerial

\* While requests overlap nothing is claimed of them but their slots.
LEMMA NotAlone ==
  ASSUME IInv, Serial, ~Alone, NEW p \in Procs, request[p] # None, NEW req, Proceed(p, req)
  PROVE  Serial'
BY ProceedSerial

LEMMA GuardedIs ==
  ASSUME NEW as, NEW a
  PROVE  MayTouch(as, a) <=> Guarded(permissions, as, a)
BY HeldIs DEF MayTouch, Guarded

LEMMA AuthorizeSerial ==
  ASSUME IInv, Serial, NEW p \in Procs, Authorize(p)
  PROVE  Serial'
<1>1. PICK req : req = request[p]
  OBVIOUS
<1>2. req # None /\ req.at = "authorize" /\ WellFormed(req)
  BY <1>1 DEF Authorize, IInv, TypeOK
<1>3. CASE req.op = "assign"
  <2>1. PICK ok : ok = (MayTouch(req.as, req.before) /\ CanAssignRole(req.as, req.wish, req.before))
    OBVIOUS
  <2>2. Check(p, ok, "admins")
    BY <1>1, <1>2, <1>3, <2>1 DEF Authorize
  <2>3. req.before # None
    BY <1>2, <1>3 DEF WellFormed
  <2>4. ASSUME ok PROVE CheckedIn(permissions, req)
    <3>1. /\ MayTouch(req.as, req.before) /\ MayTouch(req.as, req.wish) /\ Held(req.wish) \subseteq Held(req.as)
          /\ req.before # None => (Held(req.before) \ Held(req.wish)) \subseteq Held(req.as)
      BY <2>1, <2>4 DEF CanAssignRole
    <3> QED
      BY <1>3, <2>3, <3>1, HeldIs, GuardedIs DEF CheckedIn
  <2> QED
    BY <1>1, <1>2, <1>3, <2>2, <2>4, CheckSerial
<1>4. CASE req.op \in {"status", "delete"}
  <2>1. PICK ok : ok = MayTouch(req.as, req.before)
    OBVIOUS
  <2>2. PICK at : at = IF req.wish = TRUE THEN "write" ELSE "admins"
    OBVIOUS
  <2>3. Check(p, ok, at)
    BY <1>1, <1>2, <1>4, <2>1, <2>2 DEF Authorize
  <2>4. ok => CheckedIn(permissions, req)
    BY <1>4, <2>1, GuardedIs DEF CheckedIn
  <2>5. at = "write" => CountedIn(account, permissions, req)
    <3>1. req.op = "delete" => req.wish # TRUE
      BY <1>2 DEF WellFormed
    <3> QED
      BY <1>4, <2>2, <3>1 DEF CountedIn, Loses
  <2>6. at \in {"admins", "managers", "write"} /\ at # "managers"
    BY <2>2
  <2> QED
    BY <1>1, <1>2, <1>4, <2>3, <2>4, <2>5, <2>6, CheckSerial
<1>5. CASE req.op = "create"
  <2>1. PICK ok : ok = CanAssignRole(req.as, req.wish, None)
    OBVIOUS
  <2>2. Check(p, ok, "write")
    BY <1>1, <1>2, <1>5, <2>1 DEF Authorize
  <2>3. ok => CheckedIn(permissions, req)
    BY <1>5, <2>1, HeldIs, GuardedIs DEF CheckedIn, CanAssignRole
  <2>4. CountedIn(account, permissions, req)
    BY <1>5 DEF CountedIn, Loses
  <2> QED
    BY <1>1, <1>2, <2>2, <2>3, <2>4, CheckSerial
<1>6. CASE req.op = "mint"
  <2>1. PICK ok : ok = (req.wish \subseteq Held(req.as))
    OBVIOUS
  <2>2. Check(p, ok, "write")
    BY <1>1, <1>2, <1>6, <2>1 DEF Authorize
  <2>3. CheckedIn(permissions, req) /\ CountedIn(account, permissions, req)
    BY <1>6 DEF CheckedIn, CountedIn, Loses
  <2> QED
    BY <1>1, <1>2, <2>2, <2>3, CheckSerial
<1>7. CASE req.op = "save"
  <2>1. PICK ok : ok = (/\ req.target \in Keys => IsEffectiveSuperAdmin(req.as)
                        /\ Resolve(req.as) # req.target
                        /\ (req.wish \ req.before) \subseteq Held(req.as)
                        /\ (req.before \ req.wish) \subseteq Held(req.as))
    OBVIOUS
  <2>2. Check(p, ok, "managers")
    BY <1>1, <1>2, <1>7, <2>1 DEF Authorize
  <2>3. ok => CheckedIn(permissions, req)
    BY <1>7, <2>1, HeldIs DEF CheckedIn
  <2> QED
    BY <1>1, <1>2, <1>7, <2>2, <2>3, CheckSerial
<1> QED
  BY <1>1, <1>2, <1>3, <1>4, <1>5, <1>6, <1>7 DEF Authorize

LEMMA CountAdminsSerial ==
  ASSUME IInv, Serial, NEW p \in Procs, CountAdmins(p)
  PROVE  Serial'
<1>1. PICK req : req = request[p]
  OBVIOUS
<1>2. PICK ok : req # None /\ req.at = "admins" /\ Check(p, ok, "managers")
  BY <1>1 DEF CountAdmins
<1>3. ASSUME Alone PROVE CheckedIn(permissions, req) /\ InPlace(req)
  BY <1>1, <1>2, <1>3 DEF Serial, CurrentIn
<1>4. CASE Alone
  <2>1. req.op \in {"assign", "status", "delete"}
    BY <1>2, <1>3, <1>4 DEF InPlace
  <2> QED
    BY <1>1, <1>2, <1>3, <2>1, CheckSerial
<1>5. CASE ~Alone
  BY <1>1, <1>2, <1>5, NotAlone DEF CountAdmins, Check, Refuse, Proceed
<1> QED
  BY <1>4, <1>5

LEMMA CountManagersSerial ==
  ASSUME IInv, Serial, NEW p \in Procs, CountManagers(p)
  PROVE  Serial'
<1>1. PICK req : req = request[p]
  OBVIOUS
<1>2. req # None /\ req.at = "managers"
  BY <1>1 DEF CountManagers
<1>3. ASSUME Alone PROVE CheckedIn(permissions, req) /\ LoadedIn(account, permissions, req) /\ InPlace(req)
  BY <1>1, <1>2, <1>3 DEF Serial, CurrentIn
<1>4. CASE ~Alone
  BY <1>1, <1>2, <1>4, NotAlone DEF CountManagers, Check, Refuse, Proceed
<1>5. CASE Alone /\ req.op # "save"
  <2> DEFINE left == OthersOn(ManagerRoles, req.target)
             loses == RolesEdit \in Held(req.before) /\ (req.op = "assign" => RolesEdit \notin Held(req.wish))
  <2>1. PICK ok : ok = (loses => left # {})
    OBVIOUS
  <2>2. Check(p, ok, "write")
    BY <1>1, <1>2, <1>5, <2>1 DEF CountManagers
  <2>3. req.op \in {"assign", "status", "delete"}
    BY <1>2, <1>3, <1>5 DEF InPlace
  <2>4. Loses(permissions, req) => loses
    BY HeldIs DEF Loses
  <2>5. left # {} => \E v \in Users : v # req.target /\ Manages(permissions, account[v])
    BY CountedManages DEF IInv
  <2>6. ok => CountedIn(account, permissions, req)
    BY <2>1, <2>3, <2>4, <2>5 DEF CountedIn
  <2> QED
    BY <1>1, <1>2, <1>3, <1>5, <2>2, <2>6, CheckSerial
<1>6. CASE Alone /\ req.op = "save"
  <2> DEFINE left == OthersOn(ManagerRoles \ {req.target}, None)
  <2>1. PICK ok : ok = (RolesEdit \in req.before \ req.wish => left # {})
    OBVIOUS
  <2>2. Check(p, ok, "write")
    BY <1>1, <1>2, <1>6, <2>1 DEF CountManagers
  <2>3. left # {} => \E v \in Users : Manages(permissions, account[v]) /\ RoleIn(permissions, account[v]) # req.target
    <3>1. ManagerRoles \ {req.target} \in SUBSET ManagerRoles
      OBVIOUS
    <3> QED
      BY <3>1, CountedManages DEF IInv
  <2>4. ok => CountedIn(account, permissions, req)
    BY <1>6, <2>1, <2>3 DEF CountedIn, Loses
  <2> QED
    BY <1>1, <1>2, <1>3, <1>6, <2>2, <2>4, CheckSerial
<1> QED
  BY <1>4, <1>5, <1>6

LEMMA CountMembersSerial ==
  ASSUME IInv, Serial, NEW p \in Procs, CountMembers(p)
  PROVE  Serial'
<1>1. PICK req : req = request[p]
  OBVIOUS
<1>2. PICK ok : ok = (Members(req.target) = {})
  OBVIOUS
<1>3. req # None /\ req.at = "members" /\ Check(p, ok, "write")
  BY <1>1, <1>2 DEF CountMembers
<1>4. ASSUME Alone PROVE CheckedIn(permissions, req) /\ InPlace(req)
  BY <1>1, <1>3, <1>4 DEF Serial, CurrentIn, CheckedIn, InPlace
<1>5. ASSUME ok, Alone PROVE CountedIn(account, permissions, req)
  BY <1>2, <1>3, <1>4, <1>5, NobodyResolves DEF CountedIn, Loses, InPlace, IInv
<1> QED
  BY <1>1, <1>3, <1>4, <1>5, CheckSerial

\* A request that has written is over.
LEMMA DoneSerial ==
  ASSUME IInv, Serial, NEW p \in Procs, request[p] # None, Done(p)
  PROVE  Serial'
<1>1. /\ \A q \in Procs : request'[q] # None => q # p /\ request'[q] = request[q]
      /\ requests' = requests
  BY DoneRequests DEF Done
<1>2. ASSUME NEW q \in Procs, request'[q] # None PROVE q \in DOMAIN requests' /\ ~Alone'
  BY <1>1, <1>2 DEF Serial, Alone
<1> QED
  BY <1>2 DEF Serial

LEMMA SerialStep == IInv /\ Serial /\ [Next]_vars => Serial'
<1> SUFFICES ASSUME IInv, Serial, [Next]_vars PROVE Serial'
  OBVIOUS
<1>1. ASSUME NEW p \in Procs, NEW u \in Users, Ask(p, u) PROVE Serial'
  BY <1>1, AdmitSerial DEF Ask
<1>2. ASSUME NEW p \in Procs, LoadAccount(p) \/ LoadNewStaff(p) \/ LoadRole(p) PROVE Serial'
  BY <1>2, LoadAccountSerial, LoadNewStaffSerial, LoadRoleSerial
<1>3. ASSUME NEW p \in Procs, Authorize(p) \/ CountAdmins(p) \/ CountManagers(p) \/ CountMembers(p) PROVE Serial'
  BY <1>3, AuthorizeSerial, CountAdminsSerial, CountManagersSerial, CountMembersSerial
<1>4. ASSUME NEW p \in Procs, Write(p) PROVE Serial'
  <2>1. CASE WriteFails(p)
    BY <2>1, RefuseSerial DEF WriteFails
  <2>2. CASE ~WriteFails(p)
    <3>1. request[p] # None /\ Done(p)
      BY <1>4, <2>2 DEF Write, WriteAssignment, WriteStatus, WriteStaff, DeleteAccount, SavePermissions, MintRole,
                        DeleteRole, Writes
    <3> QED
      BY <3>1, DoneSerial
  <2> QED
    BY <2>1, <2>2
<1>5. CASE UNCHANGED vars
  BY <1>5 DEF vars, Serial, Alone
<1> QED
  BY <1>1, <1>2, <1>3, <1>4, <1>5 DEF Next

LEMMA InitSerial == Init => Serial
BY DEF Init, Serial

-----------------------------------------------------------------------------
(* What a lone request writes *)

LEMMA SameHeld ==
  ASSUME NEW P, NEW a, NEW b, a.role = b.role, a.app = b.app
  PROVE  RoleIn(P, a) = RoleIn(P, b) /\ HeldIn(P, a) = HeldIn(P, b) /\ TierIn(P, a) = TierIn(P, b)
BY DEF RoleIn, HeldIn, TierIn

\* The row of t becomes row, by a request of as: tiers, ceiling, somebody left.
RowIsSafe(A, P, as, t, row) ==
    /\ A[t] # None => Guarded(P, as, A[t])
    /\ row # None =>
          /\ Guarded(P, as, row)
          /\ (AuthorityIn(P, A[t]) \ HeldIn(P, row)) \cup (HeldIn(P, row) \ AuthorityIn(P, A[t])) \subseteq HeldIn(P, as)
    /\ Manages(P, A[t]) /\ ~Manages(P, row) => \E v \in Users : v # t /\ Manages(P, A[v])
RowChanges(req) ==
    \E row \in Account \cup {None} :
       /\ req.target \in Users /\ req.target # req.actor /\ permissions' = permissions
       /\ account' = [account EXCEPT ![req.target] = row]
       /\ RowIsSafe(account, permissions, req.as, req.target, row)

\* A save leaves role r of the matrices P with the permissions m.
MatrixIsSafe(A, P, as, r, m) ==
    /\ (P[r] \ m) \cup (m \ P[r]) \subseteq HeldIn(P, as)
    /\ RolesEdit \in P[r] \ m => \E v \in Users : Manages(P, A[v]) /\ RoleIn(P, A[v]) # r
MatrixChanges(req) ==
    /\ account' = account /\ req.target \in AppRoles /\ req.target # "SUPER_ADMIN"
    /\ permissions[req.target] # None /\ RoleIn(permissions, account[req.actor]) # req.target
    /\ req.wish \in SUBSET Permissions
    /\ permissions' = [permissions EXCEPT ![req.target] = req.wish]
    /\ MatrixIsSafe(account, permissions, req.as, req.target, req.wish)

\* A custom role comes or goes, and no account is on it.
RoleTurns(req) ==
    /\ account' = account /\ req.target \in AppRoles
    /\ \A v \in Users : account[v] # None =>
          account[v].app # req.target /\ RoleIn(permissions, account[v]) # req.target
    /\ \E m : permissions' = [permissions EXCEPT ![req.target] = m]

LEMMA WriterIs ==
  ASSUME IInv, Serial, Alone, NEW p \in Procs, NEW op, Writes(p, op), Done(p), NEW req, req = request[p]
  PROVE  /\ req # None /\ WellFormed(req) /\ req.op = op /\ req.at = "write"
         /\ SameAssignment(account[req.actor], req.as)
         /\ LoadedIn(account, permissions, req) /\ CheckedIn(permissions, req)
         /\ CountedIn(account, permissions, req)
BY DEF Writes, IInv, TypeOK, Serial, CurrentIn

LEMMA AssignmentWritten ==
  ASSUME IInv, Serial, Alone, NEW p \in Procs, WriteAssignment(p), NEW req, req = request[p]
  PROVE  RowChanges(req)
<1> DEFINE t == req.target
           was == account[t]
<1>1. /\ req # None /\ WellFormed(req) /\ req.op = "assign" /\ req.at = "write"
      /\ LoadedIn(account, permissions, req) /\ CheckedIn(permissions, req)
      /\ CountedIn(account, permissions, req) /\ was # None
  BY WriterIs DEF WriteAssignment
<1>2. /\ t \in Users /\ req.wish \in Assignment /\ was \in Account
      /\ SameAssignment(was, req.before) /\ t # req.actor
  BY <1>1 DEF WellFormed, AccountOps, IInv, TypeOK, LoadedIn
<1>3. PICK row : row = [was EXCEPT !.role = req.wish.role, !.app = req.wish.app]
  OBVIOUS
<1>4. /\ row \in Account /\ row.role = req.wish.role /\ row.app = req.wish.app /\ row.active = was.active
  BY <1>2, <1>3 DEF Account, Assignment
<1>5. account' = [account EXCEPT ![t] = row] /\ permissions' = permissions
  BY <1>2, <1>3 DEF WriteAssignment, IInv, TypeOK, Account
<1>6. /\ TierIn(permissions, row) = TierIn(permissions, req.wish)
      /\ HeldIn(permissions, row) = HeldIn(permissions, req.wish)
  BY <1>4, SameHeld
<1>7. /\ TierIn(permissions, was) = TierIn(permissions, req.before)
      /\ HeldIn(permissions, was) = HeldIn(permissions, req.before)
  BY <1>2, SameHeld DEF SameAssignment
<1>8. Guarded(permissions, req.as, was) /\ Guarded(permissions, req.as, row)
  BY <1>1, <1>6, <1>7 DEF CheckedIn, Guarded
<1>9. /\ AuthorityIn(permissions, was) = HeldIn(permissions, req.before)
      /\ HeldIn(permissions, req.wish) \subseteq HeldIn(permissions, req.as)
      /\ HeldIn(permissions, req.before) \ HeldIn(permissions, req.wish) \subseteq HeldIn(permissions, req.as)
  BY <1>1, <1>7 DEF CheckedIn, AuthorityIn
<1>10. Manages(permissions, was) /\ ~Manages(permissions, row) => Loses(permissions, req)
  BY <1>1, <1>4, <1>6, <1>7 DEF Manages, Loses
<1>11. RowIsSafe(account, permissions, req.as, t, row)
  BY <1>1, <1>6, <1>8, <1>9, <1>10 DEF RowIsSafe, CountedIn
<1> QED
  BY <1>2, <1>4, <1>5, <1>11 DEF RowChanges

LEMMA StatusWritten ==
  ASSUME IInv, Serial, Alone, NEW p \in Procs, WriteStatus(p), NEW req, req = request[p]
  PROVE  RowChanges(req)
<1> DEFINE t == req.target
           was == account[t]
<1>1. /\ req # None /\ WellFormed(req) /\ req.op = "status" /\ req.at = "write"
      /\ LoadedIn(account, permissions, req) /\ CheckedIn(permissions, req)
      /\ CountedIn(account, permissions, req) /\ was # None
  BY WriterIs DEF WriteStatus
<1>2. /\ t \in Users /\ req.wish \in BOOLEAN /\ was \in Account
      /\ SameAssignment(was, req.before) /\ t # req.actor
  BY <1>1 DEF WellFormed, AccountOps, IInv, TypeOK, LoadedIn
<1>3. PICK row : row = [was EXCEPT !.active = req.wish]
  OBVIOUS
<1>4. row \in Account /\ row.role = was.role /\ row.app = was.app /\ row.active = req.wish
  BY <1>2, <1>3 DEF Account
<1>5. account' = [account EXCEPT ![t] = row] /\ permissions' = permissions
  BY <1>2, <1>3 DEF WriteStatus, IInv, TypeOK, Account
<1>6. TierIn(permissions, row) = TierIn(permissions, was) /\ HeldIn(permissions, row) = HeldIn(permissions, was)
  BY <1>4, SameHeld
<1>7. /\ TierIn(permissions, was) = TierIn(permissions, req.before)
      /\ HeldIn(permissions, was) = HeldIn(permissions, req.before)
  BY <1>2, SameHeld DEF SameAssignment
<1>8. Guarded(permissions, req.as, was) /\ Guarded(permissions, req.as, row)
  BY <1>1, <1>6, <1>7 DEF CheckedIn, Guarded
<1>9. AuthorityIn(permissions, was) = HeldIn(permissions, row)
  BY <1>1, <1>6 DEF AuthorityIn
<1>10. Manages(permissions, was) /\ ~Manages(permissions, row) => Loses(permissions, req)
  <2>1. row # None
    BY <1>4
  <2> QED
    BY <1>1, <1>2, <1>4, <1>6, <1>7, <2>1 DEF Manages, Loses
<1>11. RowIsSafe(account, permissions, req.as, t, row)
  BY <1>1, <1>8, <1>9, <1>10 DEF RowIsSafe, CountedIn
<1> QED
  BY <1>2, <1>4, <1>5, <1>11 DEF RowChanges

LEMMA StaffWritten ==
  ASSUME IInv, Serial, Alone, NEW p \in Procs, WriteStaff(p), NEW req, req = request[p]
  PROVE  RowChanges(req)
<1> DEFINE t == req.target
<1>1. /\ req # None /\ WellFormed(req) /\ req.op = "create" /\ req.at = "write"
      /\ SameAssignment(account[req.actor], req.as) /\ CheckedIn(permissions, req) /\ account[t] = None
  BY WriterIs DEF WriteStaff
<1>2. t \in Users /\ req.wish \in Assignment /\ t # req.actor
  BY <1>1 DEF WellFormed, AccountOps, SameAssignment
<1>3. PICK row : row = [role |-> req.wish.role, app |-> req.wish.app, active |-> TRUE]
  OBVIOUS
<1>4. row \in Account /\ row.role = req.wish.role /\ row.app = req.wish.app
  BY <1>2, <1>3 DEF Account, Assignment
<1>5. account' = [account EXCEPT ![t] = row] /\ permissions' = permissions
  BY <1>3 DEF WriteStaff
<1>6. /\ TierIn(permissions, row) = TierIn(permissions, req.wish)
      /\ HeldIn(permissions, row) = HeldIn(permissions, req.wish)
  BY <1>4, SameHeld
<1>7. /\ Guarded(permissions, req.as, row) /\ AuthorityIn(permissions, account[t]) = {}
      /\ HeldIn(permissions, row) \subseteq HeldIn(permissions, req.as)
  BY <1>1, <1>6 DEF CheckedIn, Guarded, AuthorityIn
<1>8. RowIsSafe(account, permissions, req.as, t, row)
  BY <1>1, <1>7 DEF RowIsSafe, Manages
<1> QED
  BY <1>2, <1>4, <1>5, <1>8 DEF RowChanges

LEMMA DeletionWritten ==
  ASSUME IInv, Serial, Alone, NEW p \in Procs, DeleteAccount(p), NEW req, req = request[p]
  PROVE  RowChanges(req)
<1> DEFINE t == req.target
           was == account[t]
<1>1. /\ req # None /\ WellFormed(req) /\ req.op = "delete" /\ req.at = "write"
      /\ LoadedIn(account, permissions, req) /\ CheckedIn(permissions, req)
      /\ CountedIn(account, permissions, req) /\ was # None
  BY WriterIs DEF DeleteAccount
<1>2. t \in Users /\ SameAssignment(was, req.before) /\ t # req.actor
  BY <1>1 DEF WellFormed, AccountOps, LoadedIn
<1>3. account' = [account EXCEPT ![t] = None] /\ permissions' = permissions
  BY DEF DeleteAccount
<1>4. /\ TierIn(permissions, was) = TierIn(permissions, req.before)
      /\ HeldIn(permissions, was) = HeldIn(permissions, req.before)
  BY <1>2, SameHeld DEF SameAssignment
<1>5. Guarded(permissions, req.as, was) /\ (Manages(permissions, was) => Loses(permissions, req))
  BY <1>1, <1>4 DEF CheckedIn, Guarded, Manages, Loses
<1>6. RowIsSafe(account, permissions, req.as, t, None)
  BY <1>1, <1>5 DEF RowIsSafe, CountedIn
<1> QED
  BY <1>2, <1>3, <1>6 DEF RowChanges

LEMMA MatrixWritten ==
  ASSUME IInv, Serial, Alone, NEW p \in Procs, SavePermissions(p), NEW req, req = request[p]
  PROVE  MatrixChanges(req)
<1> DEFINE r == req.target
<1>1. /\ req # None /\ WellFormed(req) /\ req.op = "save" /\ req.at = "write"
      /\ SameAssignment(account[req.actor], req.as)
      /\ LoadedIn(account, permissions, req) /\ CheckedIn(permissions, req)
      /\ CountedIn(account, permissions, req) /\ permissions[r] # None
  BY WriterIs DEF SavePermissions
<1>2. /\ r \in AppRoles /\ req.wish \in SUBSET Permissions /\ r # "SUPER_ADMIN" /\ req.before = permissions[r]
  BY <1>1 DEF WellFormed, RoleOps, LoadedIn
<1>3. permissions' = [permissions EXCEPT ![r] = req.wish] /\ account' = account
  BY <1>2 DEF SavePermissions
<1>4. RoleIn(permissions, account[req.actor]) # r
  BY <1>1, SameHeld DEF SameAssignment, CheckedIn
<1>5. MatrixIsSafe(account, permissions, req.as, r, req.wish)
  BY <1>1, <1>2 DEF MatrixIsSafe, CheckedIn, CountedIn
<1> QED
  BY <1>1, <1>2, <1>3, <1>4, <1>5 DEF MatrixChanges

LEMMA RoleMinted ==
  ASSUME IInv, Serial, Alone, NEW p \in Procs, MintRole(p), NEW req, req = request[p]
  PROVE  RoleTurns(req) /\ permissions[req.target] = None
<1> DEFINE r == req.target
<1>1. /\ WellFormed(req) /\ req.op = "mint" /\ r \notin minted
      /\ permissions' = [permissions EXCEPT ![r] = req.wish] /\ account' = account
  BY WriterIs DEF MintRole
<1>2. r \in AppRoles /\ permissions[r] = None /\ r \notin Keys
  BY <1>1 DEF WellFormed, RoleOps, IInv, TypeOK
<1>3. ASSUME NEW v \in Users, account[v] # None
      PROVE  account[v].app # r /\ RoleIn(permissions, account[v]) # r
  BY <1>2, <1>3 DEF IInv, TypeOK, Account, RoleIn
<1> QED
  BY <1>1, <1>2, <1>3 DEF RoleTurns

LEMMA RoleDropped ==
  ASSUME IInv, Serial, Alone, NEW p \in Procs, DeleteRole(p), NEW req, req = request[p]
  PROVE  RoleTurns(req)
<1> DEFINE r == req.target
<1>1. WellFormed(req) /\ req.op = "drop" /\ req.at = "write" /\ CountedIn(account, permissions, req)
  BY WriterIs DEF DeleteRole
<1>2. \A v \in Users : account[v] # None => account[v].app # r /\ RoleIn(permissions, account[v]) # r
  BY <1>1 DEF CountedIn
<1>3. account' = account
  BY <1>2 DEF DeleteRole, IInv, TypeOK
<1>4. r \in AppRoles /\ permissions' = [permissions EXCEPT ![r] = None]
  BY <1>1 DEF WellFormed, RoleOps, DeleteRole
<1> QED
  BY <1>2, <1>3, <1>4 DEF RoleTurns

\* Everything a step does to the tables while requests do not overlap.
TablesChange(req) == RowChanges(req) \/ MatrixChanges(req) \/ RoleTurns(req)

LEMMA TablesStep ==
  ASSUME IInv, Serial, Alone, [Next]_vars
  PROVE  \/ UNCHANGED <<account, permissions>>
         \/ \E p \in Procs : Acting(p) /\ TablesChange(request[p])
<1>1. ASSUME NEW p \in Procs, NEW u \in Users, Ask(p, u) PROVE UNCHANGED <<account, permissions>>
  BY <1>1 DEF Ask, Admit
<1>2. ASSUME NEW p \in Procs, NEW req, Proceed(p, req) PROVE UNCHANGED <<account, permissions>>
  BY <1>2 DEF Proceed
<1>3. ASSUME NEW p \in Procs, NEW ok, NEW next, Check(p, ok, next) PROVE UNCHANGED <<account, permissions>>
  BY <1>2, <1>3 DEF Check, Refuse
<1>4. ASSUME NEW p \in Procs, LoadAccount(p) \/ LoadNewStaff(p) \/ LoadRole(p) \/ WriteFails(p)
      PROVE  UNCHANGED <<account, permissions>>
  BY <1>2, <1>4 DEF LoadAccount, LoadNewStaff, LoadRole, WriteFails, Refuse
<1>5. ASSUME NEW p \in Procs, Authorize(p) \/ CountAdmins(p) \/ CountManagers(p) \/ CountMembers(p)
      PROVE  UNCHANGED <<account, permissions>>
  BY <1>3, <1>5 DEF Authorize, CountAdmins, CountManagers, CountMembers
<1>6. ASSUME NEW p \in Procs, Write(p), ~WriteFails(p) PROVE Acting(p) /\ TablesChange(request[p])
  <2>1. TablesChange(request[p])
    BY <1>6, AssignmentWritten, StatusWritten, StaffWritten, DeletionWritten, MatrixWritten, RoleMinted, RoleDropped
       DEF Write, TablesChange
  <2>2. Done(p) /\ request[p] # None
    BY <1>6 DEF Write, WriteAssignment, WriteStatus, WriteStaff, DeleteAccount, SavePermissions, MintRole,
                DeleteRole, Writes
  <2> QED
    BY <2>1, <2>2, DoneRequests DEF Acting
<1>7. CASE UNCHANGED vars
  BY <1>7 DEF vars
<1> QED
  BY <1>1, <1>4, <1>5, <1>6, <1>7 DEF Next, Write

\* The matrix of one role says nothing of the accounts on another.
SameBeside(P, Q, r) == \A x \in AppRoles : x # r => Q[x] = P[x]
Resolves(P, a) == a \in Account /\ (a.app # None => P[a.app] # None)
LEMMA MatrixOfOthers ==
  ASSUME NEW P, NEW Q, NEW r, NEW a, SameBeside(P, Q, r), Resolves(P, a), RoleIn(P, a) # r
  PROVE  RoleIn(Q, a) = RoleIn(P, a) /\ HeldIn(Q, a) = HeldIn(P, a) /\ TierIn(Q, a) = TierIn(P, a)
<1>1. a.role \in AppRoles /\ a.app \in AppRoles \cup {None} /\ (a.app # None => P[a.app] # None)
  BY DEF Account, AppRoles, Resolves
<1>2. (a.app # None => a.app # r) /\ RoleIn(P, a) \in AppRoles
  BY <1>1 DEF RoleIn
<1>3. RoleIn(Q, a) = RoleIn(P, a)
  BY <1>1, <1>2 DEF RoleIn, SameBeside
<1> QED
  BY <1>2, <1>3 DEF HeldIn, TierIn, SameBeside

\* A role that stays keeps its accounts, whatever its matrix says.
LEMMA MatrixOfOwn ==
  ASSUME NEW P, NEW Q, NEW r, NEW a, SameBeside(P, Q, r), Resolves(P, a),
         r # "SUPER_ADMIN", Q[r] # None, RoleIn(P, a) = r
  PROVE  HeldIn(P, a) = P[r] /\ HeldIn(Q, a) = Q[r]
<1>1. a.app # None => a.app \in AppRoles /\ P[a.app] # None
  BY DEF Account, Resolves
<1>2. RoleIn(Q, a) = r
  BY <1>1 DEF RoleIn, SameBeside
<1> QED
  BY <1>2 DEF HeldIn

LEMMA MatrixStep ==
  ASSUME IInv, NEW req, MatrixChanges(req) \/ RoleTurns(req)
  PROVE  /\ SameBeside(permissions, permissions', req.target)
         /\ MatrixChanges(req) => permissions'[req.target] = req.wish /\ req.wish # None
<1>1. PICK m : permissions' = [permissions EXCEPT ![req.target] = m] /\ (MatrixChanges(req) => m = req.wish)
  BY DEF MatrixChanges, RoleTurns
<1> QED
  BY <1>1 DEF MatrixChanges, RoleTurns, SameBeside, IInv, TypeOK

LEMMA AuthorityIs ==
  ASSUME NEW u
  PROVE  /\ Authority(u) = AuthorityIn(permissions, account[u])
         /\ Authority(u)' = AuthorityIn(permissions', account'[u])
BY DEF Authority, AuthorityIn, Held, Resolve, HeldIn, RoleIn

LEMMA ManagerIs ==
  /\ RoleManagerRemains <=> (Alone => \E u \in Users : Manages(permissions, account[u]))
  /\ RoleManagerRemains' <=> (Alone' => \E u \in Users : Manages(permissions', account'[u]))
BY DEF RoleManagerRemains, Manages, Held, Resolve, HeldIn, RoleIn

\* An account beside the table that changes keeps what it resolves to.
LEMMA OthersKeep ==
  ASSUME IInv, NEW req, NEW u \in Users, account[u] # None
  PROVE  /\ RowChanges(req) /\ u # req.target => account'[u] = account[u] /\ permissions' = permissions
         /\ MatrixChanges(req) \/ RoleTurns(req) => account'[u] = account[u]
         /\ (MatrixChanges(req) /\ RoleIn(permissions, account[u]) # req.target) \/ RoleTurns(req) =>
               /\ HeldIn(permissions', account[u]) = HeldIn(permissions, account[u])
               /\ RoleIn(permissions', account[u]) = RoleIn(permissions, account[u])
<1>1. Resolves(permissions, account[u])
  BY DEF IInv, TypeOK, Resolves
<1>2. ASSUME RowChanges(req), u # req.target PROVE account'[u] = account[u] /\ permissions' = permissions
  BY <1>2 DEF RowChanges, IInv, TypeOK
<1>3. ASSUME MatrixChanges(req) \/ RoleTurns(req) PROVE account'[u] = account[u]
  BY <1>3 DEF MatrixChanges, RoleTurns
<1>4. ASSUME (MatrixChanges(req) /\ RoleIn(permissions, account[u]) # req.target) \/ RoleTurns(req)
      PROVE  /\ HeldIn(permissions', account[u]) = HeldIn(permissions, account[u])
             /\ RoleIn(permissions', account[u]) = RoleIn(permissions, account[u])
  <2>1. SameBeside(permissions, permissions', req.target) /\ RoleIn(permissions, account[u]) # req.target
    BY <1>4, MatrixStep DEF RoleTurns
  <2> QED
    BY <1>1, <2>1, MatrixOfOthers
<1> QED
  BY <1>2, <1>3, <1>4

-----------------------------------------------------------------------------
LEMMA SlotsStay == [Next]_vars => DOMAIN requests' = DOMAIN requests
<1> SUFFICES ASSUME [Next]_vars PROVE DOMAIN requests' = DOMAIN requests
  OBVIOUS
<1>1. ASSUME NEW p \in Procs, NEW u \in Users, Ask(p, u) PROVE DOMAIN requests' = DOMAIN requests
  BY <1>1 DEF Ask, Admit
<1>2. ASSUME NEW p \in Procs, NEW req, Proceed(p, req) PROVE requests' = requests
  BY <1>2 DEF Proceed
<1>3. ASSUME NEW p \in Procs, NEW ok, NEW next, Check(p, ok, next) PROVE requests' = requests
  BY <1>2, <1>3 DEF Check, Refuse
<1>4. ASSUME NEW p \in Procs, LoadAccount(p) \/ LoadNewStaff(p) \/ LoadRole(p) \/ WriteFails(p)
      PROVE  requests' = requests
  BY <1>2, <1>4 DEF LoadAccount, LoadNewStaff, LoadRole, WriteFails, Refuse
<1>5. ASSUME NEW p \in Procs, Authorize(p) \/ CountAdmins(p) \/ CountManagers(p) \/ CountMembers(p)
      PROVE  requests' = requests
  BY <1>3, <1>5 DEF Authorize, CountAdmins, CountManagers, CountMembers
<1>6. ASSUME NEW p \in Procs, Write(p) PROVE requests' = requests
  BY <1>4, <1>6 DEF Write, WriteAssignment, WriteStatus, WriteStaff, DeleteAccount, SavePermissions, MintRole,
                    DeleteRole, Done
<1> QED
  BY <1>1, <1>4, <1>5, <1>6 DEF Next, vars

LEMMA ManagerStep ==
  ASSUME IInv, Serial, RoleManagerRemains, [Next]_vars
  PROVE  RoleManagerRemains'
<1>1. Alone' <=> Alone
  BY SlotsStay DEF Alone
<1>2. SUFFICES ASSUME Alone PROVE \E u \in Users : Manages(permissions', account'[u])
  BY <1>1, ManagerIs
<1>3. PICK u \in Users : Manages(permissions, account[u])
  BY <1>2, ManagerIs
<1>4. account[u] # None
  BY <1>3 DEF Manages
<1>5. CASE UNCHANGED <<account, permissions>>
  BY <1>3, <1>5
<1>6. ASSUME NEW p \in Procs, TablesChange(request[p]) PROVE \E v \in Users : Manages(permissions', account'[v])
  <2>1. PICK req : req = request[p]
    OBVIOUS
  <2>2. CASE RowChanges(req) /\ u # req.target
    BY <1>3, <1>4, <2>2, OthersKeep
  <2>3. CASE RowChanges(req) /\ u = req.target
    <3>1. PICK row : /\ permissions' = permissions /\ account'[u] = row
                     /\ RowIsSafe(account, permissions, req.as, u, row)
      BY <2>3 DEF RowChanges, IInv, TypeOK
    <3>2. CASE Manages(permissions, row)
      BY <3>1, <3>2
    <3>3. CASE ~Manages(permissions, row)
      <4>1. PICK v \in Users : v # u /\ Manages(permissions, account[v])
        BY <1>3, <3>1, <3>3 DEF RowIsSafe
      <4> QED
        BY <2>3, <4>1, OthersKeep DEF Manages
    <3> QED
      BY <3>2, <3>3
  <2>4. ASSUME NEW v \in Users, Manages(permissions, account[v]),
               (MatrixChanges(req) /\ RoleIn(permissions, account[v]) # req.target) \/ RoleTurns(req)
        PROVE  Manages(permissions', account'[v])
    BY <2>4, OthersKeep DEF Manages
  <2>5. CASE MatrixChanges(req) /\ RoleIn(permissions, account[u]) = req.target
    <3>1. HeldIn(permissions, account[u]) = permissions[req.target] /\ HeldIn(permissions', account[u]) = req.wish
      <4>1. Resolves(permissions, account[u])
        BY <1>4 DEF IInv, TypeOK, Resolves
      <4>2. /\ req.target # "SUPER_ADMIN" /\ permissions'[req.target] = req.wish /\ req.wish # None
            /\ SameBeside(permissions, permissions', req.target)
        BY <2>5, MatrixStep DEF MatrixChanges
      <4> QED
        BY <2>5, <4>1, <4>2, MatrixOfOwn
    <3>2. CASE RolesEdit \in req.wish
      BY <1>3, <1>4, <2>5, <3>1, <3>2, OthersKeep DEF Manages
    <3>3. CASE RolesEdit \notin req.wish
      <4>1. RolesEdit \in permissions[req.target] \ req.wish
        BY <1>3, <3>1, <3>3 DEF Manages
      <4>2. PICK v \in Users : Manages(permissions, account[v]) /\ RoleIn(permissions, account[v]) # req.target
        BY <2>5, <4>1 DEF MatrixChanges, MatrixIsSafe
      <4> QED
        BY <2>4, <2>5, <4>2
    <3> QED
      BY <3>2, <3>3
  <2> QED
    BY <1>3, <1>6, <2>1, <2>2, <2>3, <2>4, <2>5 DEF TablesChange
<1> QED
  BY <1>2, <1>5, <1>6, TablesStep

LEMMA InitManager == Init => RoleManagerRemains
<1> SUFFICES ASSUME Init PROVE RoleManagerRemains
  OBVIOUS
<1>1. PICK s \in Start : account = s.account /\ permissions = s.permissions
  BY DEF Init
<1>2. PICK u \in Users :
         /\ account[u] # None /\ account[u].active
         /\ LET r == IF account[u].app # None THEN account[u].app ELSE account[u].role
            IN  r = "SUPER_ADMIN" \/ RolesEdit \in permissions[r]
  BY <1>1, StartIsManaged
<1>3. account[u].app # None => permissions[account[u].app] # None
  BY <1>1, <1>2, StartIsSeeded
<1>4. Manages(permissions, account[u])
  BY <1>2, <1>3 DEF Manages, HeldIn, RoleIn
<1> QED
  BY <1>4, ManagerIs

\* As long as requests do not overlap, some active account can hand permissions
\* out, whatever suspensions, reassignments and matrix saves follow each other.
THEOREM RoleManagerAlways == Spec => []RoleManagerRemains
<1>1. Init => IInv /\ Serial /\ RoleManagerRemains
  BY InitIInv, InitSerial, InitManager
<1>2. IInv /\ Serial /\ RoleManagerRemains /\ [Next]_vars => (IInv /\ Serial /\ RoleManagerRemains)'
  BY NextKeeps, SerialStep, ManagerStep
<1> QED
  BY <1>1, <1>2, PTL DEF Spec

-----------------------------------------------------------------------------
LEMMA SerialAlways == Spec => [](IInv /\ Serial)
<1>1. Init => IInv /\ Serial
  BY InitIInv, InitSerial
<1>2. IInv /\ Serial /\ [Next]_vars => (IInv /\ Serial)'
  BY NextKeeps, SerialStep
<1> QED
  BY <1>1, <1>2, PTL DEF Spec

\* What changes of u's authority, the actor of the request holds.
LEMMA CeilingStep ==
  ASSUME IInv, Serial, Alone, [Next]_vars, NEW u \in Users, account'[u] # None, Authority(u)' # Authority(u)
  PROVE  \E p \in Procs : /\ Acting(p)
                          /\ (Authority(u) \ Authority(u)') \cup (Authority(u)' \ Authority(u))
                                \subseteq Held(request[p].as)
<1> DEFINE P == permissions
<1>1. PICK p \in Procs : Acting(p) /\ TablesChange(request[p])
  BY TablesStep, AuthorityIs
<1>2. PICK req : req = request[p]
  OBVIOUS
<1>3. PICK old, new : old = AuthorityIn(P, account[u]) /\ new = AuthorityIn(permissions', account'[u])
  OBVIOUS
<1>4. Authority(u) = old /\ Authority(u)' = new /\ old # new
  BY <1>3, AuthorityIs
<1>5. account[u] = None => RowChanges(req) /\ u = req.target
  BY <1>1, <1>2 DEF TablesChange, RowChanges, MatrixChanges, RoleTurns, IInv, TypeOK
<1>6. CASE RowChanges(req)
  <2>1. u = req.target
    BY <1>3, <1>4, <1>5, <1>6, OthersKeep
  <2>2. PICK row : /\ permissions' = P /\ account'[u] = row /\ row # None
                   /\ RowIsSafe(account, P, req.as, u, row)
    BY <1>6, <2>1 DEF RowChanges, IInv, TypeOK
  <2>3. new = HeldIn(P, row)
    BY <1>3, <2>2 DEF AuthorityIn
  <2>4. (old \ new) \cup (new \ old) \subseteq HeldIn(P, req.as)
    BY <1>3, <2>2, <2>3 DEF RowIsSafe
  <2> QED
    BY <1>1, <1>2, <1>4, <2>4, HeldIs
<1>7. CASE MatrixChanges(req) /\ ~RowChanges(req)
  <2>1. account[u] # None /\ account'[u] = account[u] /\ Resolves(P, account[u])
    BY <1>5, <1>7, OthersKeep DEF IInv, TypeOK, Resolves
  <2>2. RoleIn(P, account[u]) = req.target
    BY <1>3, <1>4, <1>7, <2>1, OthersKeep DEF AuthorityIn
  <2>3. /\ req.target # "SUPER_ADMIN" /\ permissions'[req.target] = req.wish /\ req.wish # None
        /\ SameBeside(P, permissions', req.target)
    BY <1>7, MatrixStep DEF MatrixChanges
  <2>4. old = P[req.target] /\ new = req.wish
    BY <1>3, <2>1, <2>2, <2>3, MatrixOfOwn DEF AuthorityIn
  <2>5. (old \ new) \cup (new \ old) \subseteq HeldIn(P, req.as)
    BY <1>7, <2>4 DEF MatrixChanges, MatrixIsSafe
  <2> QED
    BY <1>1, <1>2, <1>4, <2>5, HeldIs
<1>8. CASE RoleTurns(req) /\ ~RowChanges(req)
  BY <1>3, <1>4, <1>5, <1>8, OthersKeep DEF AuthorityIn
<1> QED
  BY <1>1, <1>2, <1>6, <1>7, <1>8 DEF TablesChange

\* P1 for every change, a matrix save that reaches an account through its role or
\* its kind included: the actor holds whatever an account gains or loses.
THEOREM CeilingHolds == Spec => GrantCeiling
<1>1. IInv /\ Serial /\ [Next]_vars =>
        [\A u \in Users :
           Alone /\ account'[u] # None /\ Authority(u)' # Authority(u) =>
              \E p \in Procs : /\ Acting(p)
                               /\ (Authority(u) \ Authority(u)') \cup (Authority(u)' \ Authority(u))
                                     \subseteq Held(request[p].as)]_vars
  BY CeilingStep
<1> QED
  BY <1>1, SerialAlways, PTL DEF Spec, GrantCeiling

LEMMA TierStep ==
  ASSUME IInv, Serial, Alone, [Next]_vars, NEW u \in Users, account'[u] # account[u],
         \/ account[u] # None /\ IsSuperAdminTier(account[u])
         \/ account'[u] # None /\ IsSuperAdminTier(account[u])'
  PROVE  \E p \in Procs : Acting(p) /\ IsEffectiveSuperAdmin(request[p].as)
<1>1. PICK p \in Procs : Acting(p) /\ TablesChange(request[p])
  BY TablesStep
<1>2. PICK req : req = request[p]
  OBVIOUS
<1>3. RowChanges(req)
  BY <1>1, <1>2 DEF TablesChange, MatrixChanges, RoleTurns
<1>4. u = req.target
  BY <1>3 DEF RowChanges, IInv, TypeOK
<1>5. PICK row : /\ permissions' = permissions /\ account'[u] = row
                 /\ RowIsSafe(account, permissions, req.as, u, row)
  BY <1>3, <1>4 DEF RowChanges, IInv, TypeOK
<1>6. IsSuperAdminTier(account[u])' => TierIn(permissions, row)
  BY <1>5 DEF IsSuperAdminTier, IsEffectiveSuperAdmin, Resolve, TierIn, RoleIn
<1>7. RoleIn(permissions, req.as) = "SUPER_ADMIN"
  BY <1>5, <1>6, HeldIs DEF RowIsSafe, Guarded
<1> QED
  BY <1>1, <1>2, <1>7, HeldIs

LEMMA OwnStep ==
  ASSUME IInv, Serial, Alone, [Next]_vars, NEW p \in Procs, NEW u \in Users, Acting(p), u = request[p].actor
  PROVE  Authority(u)' = Authority(u)
<1>1. CASE UNCHANGED <<account, permissions>>
  BY <1>1, AuthorityIs
<1>2. CASE ~UNCHANGED <<account, permissions>>
  <2>1. PICK q \in Procs : Acting(q) /\ TablesChange(request[q])
    BY <1>2, TablesStep
  <2>2. p = q
    BY <2>1 DEF Acting, Serial, Alone
  <2>3. PICK req : req = request[p]
    OBVIOUS
  <2>4. account[u] # None
    BY <2>3 DEF Acting, Serial, CurrentIn, SameAssignment
  <2>5. CASE RowChanges(req)
    <3>1. u # req.target
      BY <2>3, <2>5 DEF RowChanges
    <3> QED
      BY <2>4, <2>5, <3>1, OthersKeep, AuthorityIs
  <2>6. CASE MatrixChanges(req) \/ RoleTurns(req)
    <3>1. MatrixChanges(req) => RoleIn(permissions, account[u]) # req.target
      BY <2>3 DEF MatrixChanges
    <3>2. account'[u] = account[u] /\ HeldIn(permissions', account[u]) = HeldIn(permissions, account[u])
      BY <2>4, <2>6, <3>1, OthersKeep
    <3> QED
      BY <3>2, AuthorityIs DEF AuthorityIn
  <2> QED
    BY <2>1, <2>2, <2>3, <2>5, <2>6 DEF TablesChange
<1> QED
  BY <1>1, <1>2

LEMMA RemovalStep ==
  ASSUME IInv, Serial, Alone, [Next]_vars, NEW r \in AppRoles, permissions[r] # None, permissions'[r] = None
  PROVE  Members(r) = {}
<1>1. PICK p \in Procs : TablesChange(request[p])
  BY TablesStep
<1>2. PICK req : req = request[p]
  OBVIOUS
<1>3. MatrixChanges(req) \/ RoleTurns(req)
  BY <1>1, <1>2 DEF TablesChange, RowChanges
<1>4. r = req.target
  BY <1>3, MatrixStep DEF SameBeside
<1>5. RoleTurns(req)
  BY <1>3, <1>4, MatrixStep
<1>6. \A v \in Users : account[v] # None => account[v].app # r /\ RoleIn(permissions, account[v]) # r
  BY <1>4, <1>5 DEF RoleTurns
<1> QED
  BY <1>6 DEF Members, RoleIn

\* P2 on both axes, nobody's own authority, and no role taken from those on it:
\* what the guards promise as long as nothing runs between them and the write.
THEOREM AuthorityKept == Spec => AuthorityIsKept
<1>1. IInv /\ Serial /\ [Next]_vars =>
        [\A u \in Users :
           /\ Alone /\ account'[u] # account[u]
           /\ \/ account[u] # None /\ IsSuperAdminTier(account[u])
              \/ account'[u] # None /\ IsSuperAdminTier(account[u])'
           => \E p \in Procs : Acting(p) /\ IsEffectiveSuperAdmin(request[p].as)]_vars
  BY TierStep
<1>2. IInv /\ Serial /\ [Next]_vars =>
        [\A p \in Procs, u \in Users : Alone /\ Acting(p) /\ u = request[p].actor => Authority(u)' = Authority(u)]_vars
  BY OwnStep
<1>3. IInv /\ Serial /\ [Next]_vars =>
        [\A r \in AppRoles : Alone /\ permissions[r] # None /\ permissions'[r] = None => Members(r) = {}]_vars
  BY RemovalStep
<1> QED
  BY <1>1, <1>2, <1>3, SerialAlways, PTL DEF Spec, AuthorityIsKept, TierProtected, OwnAuthorityFromOthers, RemovedRoleHadNobody

=============================================================================
