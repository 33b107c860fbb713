--------------------------- MODULE InMemory_proofs ---------------------------
(***************************************************************************)
(* Proofs about the two services that keep their state in the memory of the *)
(* process, where no database orders what interleaves.                      *)
(*                                                                         *)
(* PermissionCache, for any number of roles, requests, editors and edits: a *)
(* revoked permission never comes back into the cache, and a lookup by role *)
(* id sees every edit that was answered before it started.                  *)
(*                                                                         *)
(* Presence, for any number of sockets, users and recordings under way: who *)
(* is on the map, and that no recorded peak was made up.                    *)
(***************************************************************************)
EXTENDS PermissionCache, Presence, FiniteSetTheorems, TLAPS

-----------------------------------------------------------------------------
(* The permission cache *)

\* Who waits for whom: a query is awaited by the request that started it, and
\* whoever awaits or may join one asks for the same role in the same way.
Waiting ==
    /\ \A q \in Requests :
          /\ load[q] # None => request[q] # None /\ request[q].on = q
          /\ request[q] # None => (request[q].on = None <=> request[q].answer # None)
          /\ request[q] # None /\ request[q].on # None =>
                /\ load[request[q].on] # None
                /\ load[request[q].on].role = request[q].role
                /\ load[request[q].on].kind = request[q].kind
    /\ \A k \in Kinds, r \in Roles :
          inFlight[k][r] # None => /\ load[inFlight[k][r]] # None
                                   /\ load[inFlight[k][r]].role = r
                                   /\ load[inFlight[k][r]].kind = k

Ordered ==
    /\ \A r \in Roles : live[r] <= version[r]
    /\ \A e \in Editors : edit[e] # None => edit[e].version <= version[edit[e].role]
    /\ \A q \in Requests : /\ request[q] # None => request[q].floor <= live[request[q].role]
                           /\ load[q] # None => load[q].generation <= generation

\* What a query saw may be cached as long as no invalidation came in between.
Cacheable ==
    \A q \in Requests :
       load[q] # None /\ load[q].seen # None /\ load[q].generation = generation =>
          Current(load[q].role, load[q].seen) /\ load[q].seen >= live[load[q].role]

CachedIsLive == \A r \in Roles : byId[r] # None => byId[r] >= live[r]

\* What a query by id that can still be joined, or is awaited, saw.
JoinableIsLive ==
    /\ \A r \in Roles :
          inFlight["id"][r] # None /\ load[inFlight["id"][r]].seen # None =>
             load[inFlight["id"][r]].seen >= live[r]
    /\ \A q \in Requests :
          request[q] # None /\ request[q].kind = "id" /\ request[q].on # None =>
             (load[request[q].on].seen # None => load[request[q].on].seen >= request[q].floor)

IInv == TypeOK /\ Waiting /\ Ordered /\ Cacheable /\ CachedIsCurrent /\ CachedIsLive
        /\ JoinableIsLive /\ AssignedRoleIsCurrent

USE BoundIsNat, NoneIsNothing, NoneIsNoRecord

LEMMA InitIInv == Init => IInv
BY DEF Init, IInv, TypeOK, Waiting, Ordered, Cacheable, CachedIsCurrent, CachedIsLive, JoinableIsLive,
       AssignedRoleIsCurrent, Kinds

LEMMA HitKeeps ==
  ASSUME IInv, NEW q \in Requests, NEW r \in Roles, NEW k \in Kinds, Hit(q, r, k)
  PROVE  IInv'
<1> DEFINE new == [role |-> r, kind |-> k, on |-> None, floor |-> live[r], answer |-> byId[r]]
<1>1. /\ request' = [request EXCEPT ![q] = new] /\ byId[r] # None /\ Free(q)
      /\ UNCHANGED <<version, byId, generation, inFlight, load, edit, live>>
  BY DEF Hit, Asks
<1>2. new \in Lookup /\ byId[r] >= live[r] /\ byId[r] \in Nat /\ live[r] \in Nat
  BY <1>1 DEF IInv, TypeOK, CachedIsLive, Lookup
<1>3. load[q] = None
  BY <1>1 DEF Free, IInv, Waiting
<1>4. /\ request'[q] = new /\ new # None
      /\ \A s \in Requests : s # q => request'[s] = request[s]
  BY <1>1, <1>2 DEF IInv, TypeOK
<1>5. TypeOK'
  BY <1>1, <1>2 DEF IInv, TypeOK
<1>6. Waiting'
  BY <1>1, <1>2, <1>3, <1>4 DEF IInv, Waiting
<1>7. Ordered'
  BY <1>1, <1>2, <1>4 DEF IInv, Ordered
<1>8. Cacheable' /\ CachedIsCurrent' /\ CachedIsLive'
  BY <1>1 DEF IInv, Cacheable, CachedIsCurrent, CachedIsLive, Current
<1>9. JoinableIsLive'
  BY <1>1, <1>2, <1>4 DEF IInv, JoinableIsLive
<1>10. AssignedRoleIsCurrent'
  BY <1>2, <1>4 DEF IInv, AssignedRoleIsCurrent
<1> QED
  BY <1>5, <1>6, <1>7, <1>8, <1>9, <1>10 DEF IInv

LEMMA MissKeeps ==
  ASSUME IInv, NEW q \in Requests, NEW r \in Roles, NEW k \in Kinds, Miss(q, r, k)
  PROVE  IInv'
<1>1. /\ byId' = [byId EXCEPT ![r] = None] /\ Free(q)
      /\ UNCHANGED <<version, generation, edit, live>>
  BY DEF Miss
<1>2. load[q] = None /\ live[r] \in Nat /\ live[r] <= live[r]
  BY <1>1 DEF Free, IInv, Waiting, TypeOK
<1>3. CachedIsCurrent' /\ CachedIsLive'
  BY <1>1 DEF IInv, TypeOK, CachedIsCurrent, CachedIsLive, Current
<1>4. CASE inFlight[k][r] # None
  <2> DEFINE on == inFlight[k][r]
             new == [role |-> r, kind |-> k, on |-> on, floor |-> live[r], answer |-> None]
  <2>1. request' = [request EXCEPT ![q] = new] /\ UNCHANGED <<inFlight, load>>
    BY <1>4 DEF Miss, Asks
  <2>2. on \in Requests /\ load[on] # None /\ load[on].role = r /\ load[on].kind = k
        /\ load[on] \in Load
    BY <1>4 DEF IInv, TypeOK, Waiting
  <2>3. new \in Lookup /\ new # None /\ on # None /\ on # q
    BY <1>2, <2>2, <1>4 DEF Lookup
  <2>4. request'[q] = new /\ \A s \in Requests : s # q => request'[s] = request[s]
    BY <2>1 DEF IInv, TypeOK
  <2>5. TypeOK'
    BY <1>1, <2>1, <2>3 DEF IInv, TypeOK
  <2>6. Waiting'
    BY <1>2, <2>1, <2>2, <2>3, <2>4 DEF IInv, Waiting
  <2>7. Ordered'
    BY <1>1, <1>2, <2>1, <2>4 DEF IInv, Ordered
  <2>8. Cacheable'
    BY <1>1, <2>1 DEF IInv, Cacheable, Current
  <2>9. JoinableIsLive'
    BY <1>1, <2>1, <2>2, <2>4 DEF IInv, JoinableIsLive
  <2>10. AssignedRoleIsCurrent'
    BY <2>4 DEF IInv, AssignedRoleIsCurrent
  <2> QED
    BY <1>3, <2>5, <2>6, <2>7, <2>8, <2>9, <2>10 DEF IInv
<1>5. CASE inFlight[k][r] = None
  <2> DEFINE new == [role |-> r, kind |-> k, on |-> q, floor |-> live[r], answer |-> None]
             query == [role |-> r, kind |-> k, generation |-> generation, seen |-> None]
  <2>1. /\ request' = [request EXCEPT ![q] = new]
        /\ inFlight' = [inFlight EXCEPT ![k][r] = q]
        /\ load' = [load EXCEPT ![q] = query]
    BY <1>5 DEF Miss, Asks
  <2>2. query \in Load /\ query # None /\ query.seen = None /\ query.role = r /\ query.kind = k
    BY DEF Load, IInv, TypeOK
  <2>3. new \in Lookup /\ new # None /\ q # None
    BY <1>2 DEF Lookup
  <2>4. /\ request'[q] = new /\ load'[q] = query
        /\ \A s \in Requests : s # q => request'[s] = request[s] /\ load'[s] = load[s]
    BY <2>1 DEF IInv, TypeOK
  <2>5. /\ inFlight'[k][r] = q
        /\ \A j \in Kinds, t \in Roles : j # k \/ t # r => inFlight'[j][t] = inFlight[j][t]
    BY <2>1 DEF IInv, TypeOK
  <2>6. \A s \in Requests : request[s] # None /\ request[s].on = q => FALSE
    BY <1>2, <2>3 DEF IInv, Waiting
  <2>7. \A j \in Kinds, t \in Roles : inFlight[j][t] # q
    BY <1>2, <2>3 DEF IInv, Waiting
  <2>8. TypeOK'
    BY <1>1, <2>1, <2>2, <2>3 DEF IInv, TypeOK
  <2>9. \A s \in Requests : request[s] # None /\ request[s].on # None => request[s].on \in Requests
    BY DEF IInv, TypeOK, Lookup
  <2>10. \A j \in Kinds, t \in Roles : inFlight[j][t] # None => inFlight[j][t] \in Requests
    BY DEF IInv, TypeOK
  <2>11. Waiting'
    BY <2>2, <2>3, <2>4, <2>5, <2>6, <2>7, <2>9, <2>10 DEF IInv, Waiting
  <2>12. Ordered'
    BY <1>1, <1>2, <2>4 DEF IInv, TypeOK, Ordered
  <2>13. Cacheable'
    BY <1>1, <2>2, <2>4 DEF IInv, Cacheable, Current
  <2>14. JoinableIsLive'
    BY <1>1, <2>2, <2>3, <2>4, <2>5, <2>6, <2>7, <2>9, <2>10 DEF IInv, JoinableIsLive, Kinds
  <2>15. AssignedRoleIsCurrent'
    BY <2>4 DEF IInv, AssignedRoleIsCurrent
  <2> QED
    BY <1>3, <2>8, <2>11, <2>12, <2>13, <2>14, <2>15 DEF IInv
<1> QED
  BY <1>4, <1>5

LEMMA QueryKeeps ==
  ASSUME IInv, NEW q \in Requests, Query(q)
  PROVE  IInv'
<1> DEFINE r == load[q].role
           answered == [load[q] EXCEPT !.seen = version[r]]
<1>1. /\ load[q] # None /\ load' = [load EXCEPT ![q] = answered]
      /\ UNCHANGED <<version, byId, generation, inFlight, request, edit, live>>
  BY DEF Query
<1>2. load[q] \in Load /\ r \in Roles /\ version[r] \in Nat /\ live[r] \in Nat /\ live[r] <= version[r]
  BY <1>1 DEF IInv, TypeOK, Load, Ordered
<1>3. /\ answered \in Load /\ answered # None /\ answered.seen = version[r]
      /\ answered.role = r /\ answered.kind = load[q].kind /\ answered.generation = load[q].generation
  BY <1>2 DEF Load
<1>4. load'[q] = answered /\ \A s \in Requests : s # q => load'[s] = load[s]
  BY <1>1 DEF IInv, TypeOK
<1>5. TypeOK'
  BY <1>1, <1>3 DEF IInv, TypeOK
<1>6. \A s \in Requests : request[s] # None =>
         /\ request[s].on # None => request[s].on \in Requests
         /\ request[s].floor \in Nat /\ request[s].floor <= live[request[s].role]
  BY DEF IInv, TypeOK, Lookup, Ordered
<1>7. \A k \in Kinds, t \in Roles : inFlight[k][t] # None => inFlight[k][t] \in Requests
  BY DEF IInv, TypeOK
<1>8. Waiting'
  BY <1>1, <1>3, <1>4, <1>6, <1>7 DEF IInv, Waiting
<1>9. Ordered'
  BY <1>1, <1>3, <1>4 DEF IInv, Ordered
<1>10. Cacheable'
  BY <1>1, <1>2, <1>3, <1>4 DEF IInv, Cacheable, Current
<1>11. CachedIsCurrent' /\ CachedIsLive' /\ AssignedRoleIsCurrent'
  BY <1>1 DEF IInv, CachedIsCurrent, CachedIsLive, Current, AssignedRoleIsCurrent
<1>12. JoinableIsLive'
  <2>1. ASSUME NEW t \in Roles, inFlight["id"][t] # None, load'[inFlight["id"][t]].seen # None
        PROVE  load'[inFlight["id"][t]].seen >= live[t]
    <3>1. inFlight["id"][t] \in Requests /\ "id" \in Kinds
      BY <2>1, <1>7 DEF Kinds
    <3>2. CASE inFlight["id"][t] = q
      <4>1. r = t
        BY <2>1, <3>1, <3>2 DEF IInv, Waiting
      <4>2. load'[q].seen = version[r]
        BY <1>3, <1>4
      <4> QED
        BY <1>2, <3>2, <4>1, <4>2
    <3>3. CASE inFlight["id"][t] # q
      BY <2>1, <3>1, <3>3, <1>4 DEF IInv, JoinableIsLive
    <3> QED
      BY <3>2, <3>3
  <2>2. ASSUME NEW s \in Requests, request[s] # None, request[s].kind = "id", request[s].on # None,
               load'[request[s].on].seen # None
        PROVE  load'[request[s].on].seen >= request[s].floor
    <3>1. CASE request[s].on = q
      BY <2>2, <3>1, <1>2, <1>3, <1>4, <1>6 DEF IInv, Waiting
    <3>2. CASE request[s].on # q
      BY <2>2, <3>2, <1>4, <1>6 DEF IInv, JoinableIsLive
    <3> QED
      BY <3>1, <3>2
  <2> QED
    BY <1>1, <2>1, <2>2 DEF JoinableIsLive
<1> QED
  BY <1>5, <1>8, <1>9, <1>10, <1>11, <1>12 DEF IInv

LEMMA DeliverKeeps ==
  ASSUME IInv, NEW q \in Requests, Deliver(q)
  PROVE  IInv'
<1> DEFINE r == load[q].role
           k == load[q].kind
           answered(s) == [request[s] EXCEPT !.on = None, !.answer = load[q].seen]
<1>1. /\ load[q] # None /\ load[q].seen # None
      /\ byId' = IF load[q].generation = generation THEN [byId EXCEPT ![r] = load[q].seen] ELSE byId
      /\ inFlight' = [inFlight EXCEPT ![k][r] = None]
      /\ load' = [load EXCEPT ![q] = None]
      /\ request' = [s \in Requests |-> IF request[s] # None /\ request[s].on = q
                                        THEN answered(s) ELSE request[s]]
      /\ UNCHANGED <<version, generation, edit, live>>
  BY DEF Deliver
<1>2. load[q] \in Load /\ r \in Roles /\ k \in Kinds /\ load[q].seen \in Nat
  BY <1>1 DEF IInv, TypeOK, Load
<1>3. load'[q] = None /\ \A s \in Requests : s # q => load'[s] = load[s]
  BY <1>1 DEF IInv, TypeOK
<1>4. \A s \in Requests : request[s] # None =>
         /\ request[s] \in Lookup
         /\ request[s].on # None => request[s].on \in Requests
  BY DEF IInv, TypeOK, Lookup
<1>5. \A s \in Requests : request[s] # None /\ request[s].on = q =>
         /\ request'[s] = answered(s) /\ answered(s) \in Lookup
         /\ answered(s).on = None /\ answered(s).answer = load[q].seen
         /\ answered(s).role = request[s].role /\ answered(s).kind = request[s].kind
         /\ answered(s).floor = request[s].floor
  BY <1>1, <1>2, <1>4 DEF Lookup
<1>6. \A s \in Requests : ~(request[s] # None /\ request[s].on = q) => request'[s] = request[s]
  BY <1>1
<1>7. /\ inFlight'[k][r] = None
      /\ \A j \in Kinds, t \in Roles : j # k \/ t # r => inFlight'[j][t] = inFlight[j][t]
  BY <1>1, <1>2 DEF IInv, TypeOK
<1>8. \A j \in Kinds, t \in Roles :
         inFlight'[j][t] # None => inFlight'[j][t] = inFlight[j][t] /\ inFlight[j][t] \in Requests
                                   /\ inFlight[j][t] # q
  BY <1>7 DEF IInv, TypeOK, Waiting
<1>9. TypeOK'
  <2>1. request' \in [Requests -> Lookup \cup {None}]
    BY <1>1, <1>5, <1>6 DEF IInv, TypeOK
  <2>2. inFlight' \in [Kinds -> [Roles -> Requests \cup {None}]]
    BY <1>1, <1>2 DEF IInv, TypeOK
  <2> QED
    BY <1>1, <1>2, <2>1, <2>2 DEF IInv, TypeOK
<1>10. Waiting'
  <2>1. ASSUME NEW s \in Requests
        PROVE  /\ load'[s] # None => request'[s] # None /\ request'[s].on = s
               /\ request'[s] # None => (request'[s].on = None <=> request'[s].answer # None)
               /\ request'[s] # None /\ request'[s].on # None =>
                     /\ load'[request'[s].on] # None
                     /\ load'[request'[s].on].role = request'[s].role
                     /\ load'[request'[s].on].kind = request'[s].kind
    <3>1. CASE request[s] # None /\ request[s].on = q
      <4>1. s # q => load[s] = None
        BY <3>1 DEF IInv, Waiting
      <4> QED
        BY <3>1, <4>1, <1>1, <1>3, <1>5
    <3>2. CASE ~(request[s] # None /\ request[s].on = q)
      BY <3>2, <1>3, <1>4, <1>6 DEF IInv, Waiting
    <3> QED
      BY <3>1, <3>2
  <2>2. \A j \in Kinds, t \in Roles :
           inFlight'[j][t] # None => /\ load'[inFlight'[j][t]] # None
                                     /\ load'[inFlight'[j][t]].role = t
                                     /\ load'[inFlight'[j][t]].kind = j
    BY <1>3, <1>8 DEF IInv, Waiting
  <2> QED
    BY <2>1, <2>2 DEF Waiting
<1>11. Ordered'
  <2>1. \A s \in Requests : request[s] # None => request[s].floor <= live[request[s].role]
    BY DEF IInv, Ordered
  <2>2. ASSUME NEW s \in Requests, request'[s] # None
        PROVE  request'[s].floor <= live[request'[s].role]
    <3>1. CASE request[s] # None /\ request[s].on = q
      <4>1. request'[s].floor = request[s].floor /\ request'[s].role = request[s].role
        BY <3>1, <1>5
      <4> QED
        BY <3>1, <4>1, <2>1
    <3>2. CASE ~(request[s] # None /\ request[s].on = q)
      <4>1. request'[s] = request[s]
        BY <3>2, <1>6
      <4> QED
        BY <4>1, <2>1, <2>2
    <3> QED
      BY <3>1, <3>2
  <2> QED
    BY <1>1, <1>3, <2>2 DEF IInv, Ordered
<1>12. Cacheable'
  <2>1. ASSUME NEW s \in Requests, load'[s] # None, load'[s].seen # None,
               load'[s].generation = generation'
        PROVE  Current(load[s].role, load[s].seen)' /\ load'[s].seen >= live'[load'[s].role]
    <3>1. s # q /\ load'[s] = load[s]
      BY <2>1, <1>3
    <3>2. Current(load[s].role, load[s].seen) /\ load[s].seen >= live[load[s].role]
      BY <2>1, <3>1, <1>1 DEF IInv, Cacheable
    <3> QED
      BY <3>1, <3>2, <1>1 DEF Current
  <2> QED
    BY <2>1 DEF Cacheable
<1>13. CachedIsCurrent' /\ CachedIsLive'
  <2>1. ASSUME NEW t \in Roles, byId'[t] # None
        PROVE  Current(t, byId[t])' /\ byId'[t] >= live'[t]
    <3>1. CASE load[q].generation = generation /\ t = r
      <4>1. byId'[t] = load[q].seen
        BY <3>1, <1>1, <1>2 DEF IInv, TypeOK
      <4>2. Current(r, load[q].seen) /\ load[q].seen >= live[r]
        BY <3>1, <1>1 DEF IInv, Cacheable
      <4> QED
        BY <4>1, <4>2, <3>1, <1>1 DEF Current
    <3>2. CASE ~(load[q].generation = generation /\ t = r)
      <4>1. byId'[t] = byId[t]
        BY <3>2, <1>1, <1>2 DEF IInv, TypeOK
      <4>2. Current(t, byId[t]) /\ byId[t] >= live[t]
        BY <4>1, <2>1 DEF IInv, CachedIsCurrent, CachedIsLive
      <4> QED
        BY <4>1, <4>2, <1>1 DEF Current
    <3> QED
      BY <3>1, <3>2
  <2> QED
    BY <2>1 DEF CachedIsCurrent, CachedIsLive
<1>14. JoinableIsLive'
  <2>1. ASSUME NEW t \in Roles, inFlight'["id"][t] # None, load'[inFlight'["id"][t]].seen # None
        PROVE  load'[inFlight'["id"][t]].seen >= live[t]
    BY <2>1, <1>3, <1>8 DEF IInv, JoinableIsLive, Kinds
  <2>2. ASSUME NEW s \in Requests, request'[s] # None, request'[s].kind = "id", request'[s].on # None,
               load'[request'[s].on].seen # None
        PROVE  load'[request'[s].on].seen >= request'[s].floor
    <3>1. ~(request[s] # None /\ request[s].on = q)
      BY <2>2, <1>5
    <3>2. request'[s] = request[s] /\ request[s].on \in Requests /\ request[s].on # q
      BY <2>2, <3>1, <1>4, <1>6
    <3> QED
      BY <2>2, <3>2, <1>3 DEF IInv, JoinableIsLive
  <2> QED
    BY <1>1, <2>1, <2>2 DEF JoinableIsLive
<1>15. AssignedRoleIsCurrent'
  <2>1. ASSUME NEW s \in Requests, request'[s] # None, request'[s].kind = "id", request'[s].answer # None
        PROVE  request'[s].answer >= request'[s].floor
    <3>1. CASE request[s] # None /\ request[s].on = q
      <4>1. /\ request'[s].answer = load[q].seen /\ request'[s].floor = request[s].floor
            /\ request'[s].kind = request[s].kind
        BY <3>1, <1>5
      <4>2. request[s].on # None
        BY <3>1
      <4>3. load[q].seen >= request[s].floor
        BY <2>1, <3>1, <4>1, <4>2, <1>1 DEF IInv, JoinableIsLive
      <4> QED
        BY <4>1, <4>3
    <3>2. CASE ~(request[s] # None /\ request[s].on = q)
      BY <2>1, <3>2, <1>6 DEF IInv, AssignedRoleIsCurrent
    <3> QED
      BY <3>1, <3>2
  <2> QED
    BY <2>1 DEF AssignedRoleIsCurrent
<1> QED
  BY <1>9, <1>10, <1>11, <1>12, <1>13, <1>14, <1>15 DEF IInv

LEMMA CommitEditKeeps ==
  ASSUME IInv, NEW e \in Editors, NEW r \in Roles, CommitEdit(e, r)
  PROVE  IInv'
<1> DEFINE new == [role |-> r, version |-> version[r] + 1]
<1>1. /\ edit[e] = None
      /\ version' = [version EXCEPT ![r] = @ + 1] /\ edit' = [edit EXCEPT ![e] = new]
      /\ UNCHANGED <<byId, generation, inFlight, load, request, live>>
  BY DEF CommitEdit
<1>2. version[r] \in Nat /\ new \in Edit /\ new # None
  BY DEF IInv, TypeOK, Edit
<1>3. /\ version'[r] = version[r] + 1
      /\ \A t \in Roles : t # r => version'[t] = version[t]
      /\ edit'[e] = new /\ \A f \in Editors : f # e => edit'[f] = edit[f]
  BY <1>1 DEF IInv, TypeOK
<1>4. TypeOK'
  BY <1>1, <1>2 DEF IInv, TypeOK
<1>5. \A t \in Roles, v \in Nat : Current(t, v) => Current(t, v)'
  BY <1>1, <1>2, <1>3 DEF Current
<1>6. Waiting'
  BY <1>1 DEF IInv, Waiting
<1>7. Ordered'
  <2>1. \A t \in Roles : version[t] \in Nat /\ live[t] \in Nat /\ version'[t] \in Nat
                         /\ version[t] <= version'[t]
    BY <1>3 DEF IInv, TypeOK
  <2>2. \A f \in Editors : edit[f] # None => edit[f].role \in Roles /\ edit[f].version \in Nat
    BY DEF IInv, TypeOK, Edit
  <2> QED
    BY <1>1, <1>2, <1>3, <2>1, <2>2 DEF IInv, Ordered
<1>8. \A s \in Requests : load[s] # None => load[s].role \in Roles
                                            /\ (load[s].seen # None => load[s].seen \in Nat)
  BY DEF IInv, TypeOK, Load
<1>9. Cacheable'
  BY <1>1, <1>5, <1>8 DEF IInv, Cacheable
<1>10. CachedIsCurrent'
  BY <1>1, <1>5 DEF IInv, TypeOK, CachedIsCurrent
<1>11. CachedIsLive' /\ JoinableIsLive' /\ AssignedRoleIsCurrent'
  BY <1>1 DEF IInv, CachedIsLive, JoinableIsLive, AssignedRoleIsCurrent
<1> QED
  BY <1>4, <1>6, <1>7, <1>9, <1>10, <1>11 DEF IInv

LEMMA InvalidateKeeps ==
  ASSUME IInv, NEW e \in Editors, Invalidate(e)
  PROVE  IInv'
<1> DEFINE r == edit[e].role
<1>1. /\ edit[e] # None
      /\ byId' = [byId EXCEPT ![r] = None]
      /\ inFlight' = [k \in Kinds |-> IF k = "id" \/ byId[r] # None
                                      THEN [inFlight[k] EXCEPT ![r] = None] ELSE inFlight[k]]
      /\ live' = [live EXCEPT ![r] = IF @ < edit[e].version THEN edit[e].version ELSE @]
      /\ generation' = generation + 1
      /\ edit' = [edit EXCEPT ![e] = None]
      /\ UNCHANGED <<version, load, request>>
  BY DEF Invalidate
<1>2. r \in Roles /\ edit[e].version \in Nat /\ edit[e].version <= version[r]
  BY <1>1 DEF IInv, TypeOK, Edit, Ordered
<1>3. /\ \A t \in Roles : t # r => live'[t] = live[t] /\ byId'[t] = byId[t]
      /\ live'[r] = (IF live[r] < edit[e].version THEN edit[e].version ELSE live[r])
      /\ byId'[r] = None
  BY <1>1, <1>2 DEF IInv, TypeOK
<1>4. \A t \in Roles : /\ live[t] \in Nat /\ live'[t] \in Nat /\ version[t] \in Nat
                       /\ live[t] <= live'[t] /\ live'[t] <= version[t]
  BY <1>2, <1>3 DEF IInv, TypeOK, Ordered
<1>5. \A k \in Kinds, t \in Roles : inFlight'[k][t] # None =>
         inFlight'[k][t] = inFlight[k][t] /\ (k = "id" => t # r)
  BY <1>1, <1>2 DEF IInv, TypeOK, Kinds
<1>6. edit'[e] = None /\ \A f \in Editors : f # e => edit'[f] = edit[f]
  BY <1>1 DEF IInv, TypeOK
<1>7. TypeOK'
  <2>1. inFlight' \in [Kinds -> [Roles -> Requests \cup {None}]]
    BY <1>1, <1>2 DEF IInv, TypeOK
  <2> QED
    BY <1>1, <1>2, <2>1 DEF IInv, TypeOK
<1>8. Waiting'
  BY <1>1, <1>5 DEF IInv, Waiting
<1>9. Ordered'
  <2>1. \A s \in Requests : /\ request[s] # None => request[s].role \in Roles /\ request[s].floor \in Nat
                            /\ load[s] # None => load[s].generation \in Nat
    BY DEF IInv, TypeOK, Lookup, Load
  <2>2. generation \in Nat
    BY DEF IInv, TypeOK
  <2>3. \A s \in Requests : request[s] # None => request[s].floor <= live'[request[s].role]
    BY <1>4, <2>1 DEF IInv, Ordered
  <2>4. \A s \in Requests : load[s] # None => load[s].generation <= generation'
    BY <1>1, <2>1, <2>2 DEF IInv, Ordered
  <2> QED
    BY <1>1, <1>4, <1>6, <2>3, <2>4 DEF IInv, Ordered
<1>10. Cacheable'
  <2>1. \A s \in Requests : load[s] # None => load[s].generation # generation'
    BY <1>1 DEF IInv, TypeOK, Load, Ordered
  <2> QED
    BY <1>1, <2>1 DEF Cacheable
<1>11. \A t \in Roles, v \in Nat : t # r /\ Current(t, v) => Current(t, v)'
  BY <1>1, <1>6 DEF Current
<1>12. CachedIsCurrent' /\ CachedIsLive'
  BY <1>3, <1>11 DEF IInv, TypeOK, CachedIsCurrent, CachedIsLive
<1>13. JoinableIsLive'
  BY <1>1, <1>3, <1>5 DEF IInv, JoinableIsLive, Kinds
<1>14. AssignedRoleIsCurrent'
  BY <1>1 DEF IInv, AssignedRoleIsCurrent
<1> QED
  BY <1>7, <1>8, <1>9, <1>10, <1>12, <1>13, <1>14 DEF IInv

-----------------------------------------------------------------------------
\* The cache, the queries in flight and the edits under way stay in step.
THEOREM Invariance == Spec => []IInv
<1>1. IInv /\ [Next]_vars => IInv'
  <2> SUFFICES ASSUME IInv, [Next]_vars PROVE IInv'
    OBVIOUS
  <2>1. ASSUME NEW q \in Requests, NEW r \in Roles, NEW k \in Kinds, Hit(q, r, k) PROVE IInv'
    BY <2>1, HitKeeps
  <2>2. ASSUME NEW q \in Requests, NEW r \in Roles, NEW k \in Kinds, Miss(q, r, k) PROVE IInv'
    BY <2>2, MissKeeps
  <2>3. ASSUME NEW q \in Requests, Query(q) PROVE IInv'
    BY <2>3, QueryKeeps
  <2>4. ASSUME NEW q \in Requests, Deliver(q) PROVE IInv'
    BY <2>4, DeliverKeeps
  <2>5. ASSUME NEW e \in Editors, NEW r \in Roles, CommitEdit(e, r) PROVE IInv'
    BY <2>5, CommitEditKeeps
  <2>6. ASSUME NEW e \in Editors, Invalidate(e) PROVE IInv'
    BY <2>6, InvalidateKeeps
  <2>7. CASE UNCHANGED vars
    BY <2>7 DEF vars, IInv, TypeOK, Waiting, Ordered, Cacheable, CachedIsCurrent, CachedIsLive, Current,
                JoinableIsLive, AssignedRoleIsCurrent
  <2> QED
    BY <2>1, <2>2, <2>3, <2>4, <2>5, <2>6, <2>7 DEF Next
<1> QED
  BY InitIInv, <1>1, PTL DEF Spec

\* The Maps and counters keep their shapes.
THEOREM TypeCorrectness == Spec => []TypeOK
BY Invariance, PTL DEF IInv

\* A load that was in flight when invalidate() ran never writes back over the
\* fresh state: what the cache holds is what the database holds, or is about to
\* be dropped by the edit that replaced it.
THEOREM RevokedStaysRevoked == Spec => []CachedIsCurrent
BY Invariance, PTL DEF IInv

\* A lookup by role id that starts after an edit was answered sees that edit.
THEOREM NextRequestSeesEdit == Spec => []AssignedRoleIsCurrent
BY Invariance, PTL DEF IInv

-----------------------------------------------------------------------------
(* Who is online *)

\* A recordConcurrent call carries a number of users that were on the map.
Call == [count : 1..Cardinality(Users), at : {"find", "create", "update"}, row : Nat \cup {Null}]
Records ==
    /\ recording = [s \in Sockets |-> recording[s]]
    /\ stats \in Seq(Nat)
    /\ \A s \in Sockets : recording[s] # Null => recording[s] \in Call /\ recording[s].count <= reached

PresenceIInv == PresenceTypeOK /\ Records /\ PresentIsOnline /\ PeakWasReached

USE OwnersAreUsers

-----------------------------------------------------------------------------
\* The number of online users that a join sends off.
LEMMA CountIs ==
  ASSUME NEW sockets \in SUBSET Sockets, sockets # {}
  PROVE  Count(sockets) \in 1..Cardinality(Users)
<1>1. UsersOf(sockets) \subseteq Users /\ UsersOf(sockets) # {}
  BY DEF UsersOf
<1>2. /\ IsFiniteSet(UsersOf(sockets)) /\ Cardinality(UsersOf(sockets)) <= Cardinality(Users)
      /\ Cardinality(Users) \in Nat
  BY <1>1, UsersAreFinite, FS_Subset, FS_CardinalityType
<1>3. Cardinality(UsersOf(sockets)) \in Nat /\ Cardinality(UsersOf(sockets)) # 0
  BY <1>1, <1>2, FS_CardinalityType, FS_EmptySet
<1> QED
  BY <1>2, <1>3 DEF Count

LEMMA PresenceInitIInv == PresenceInit => PresenceIInv
BY DEF PresenceInit, PresenceIInv, PresenceTypeOK, Records, PresentIsOnline, PeakWasReached, UsersOf

-----------------------------------------------------------------------------
(* The sockets *)

\* A step of a socket that starts no recording.
LEMMA SocketKeeps ==
  ASSUME PresenceIInv, UNCHANGED <<recording, stats, reached>>,
         socket' \in [Sockets -> {"new", "loading", "joining", "over"}],
         open' \subseteq Sockets, online' \subseteq online, active' \subseteq Users,
         \A s \in open' : socket'[s] = "over" /\ Owner[s] \in Audience => s \in online'
  PROVE  PresenceIInv'
<1>1. PresenceTypeOK'
  BY DEF PresenceIInv, PresenceTypeOK
<1>2. Records' /\ PeakWasReached'
  BY DEF PresenceIInv, Records, PeakWasReached
<1>3. PresentIsOnline'
  BY DEF PresenceIInv, PresentIsOnline, UsersOf
<1> QED
  BY <1>1, <1>2, <1>3 DEF PresenceIInv

LEMMA JoinKeeps ==
  ASSUME PresenceIInv, NEW s \in Sockets, Join(s)
  PROVE  PresenceIInv'
<1>1. /\ socket' = [socket EXCEPT ![s] = "over"] /\ UNCHANGED <<open, active, stats>>
      /\ socket' \in [Sockets -> {"new", "loading", "joining", "over"}]
  BY DEF Join, PresenceIInv, PresenceTypeOK
<1>2. CASE Owner[s] \notin Audience
  <2>1. \A t \in open' : socket'[t] = "over" /\ Owner[t] \in Audience => t \in online
    BY <1>1, <1>2 DEF PresenceIInv, PresenceTypeOK, PresentIsOnline
  <2> QED
    BY <1>1, <1>2, <2>1, SocketKeeps DEF Join, PresenceIInv, PresenceTypeOK
<1>3. CASE Owner[s] \in Audience
  <2>1. PICK n : n = Count(online \cup {s})
    OBVIOUS
  <2>2. PICK call : call = [count |-> n, at |-> "find", row |-> Null]
    OBVIOUS
  <2>3. n \in 1..Cardinality(Users) /\ Cardinality(Users) \in Nat
    BY <2>1, CountIs, UsersAreFinite, FS_CardinalityType DEF PresenceIInv, PresenceTypeOK
  <2>4. /\ online' = online \cup {s} /\ recording' = [recording EXCEPT ![s] = call]
        /\ reached' = IF n > reached THEN n ELSE reached
    BY <1>3, <2>1, <2>2 DEF Join, Count
  <2>5. call \in Call /\ call.count = n /\ call.at = "find"
    BY <2>2, <2>3 DEF Call
  <2>6. reached' \in Nat /\ n <= reached' /\ reached <= reached'
    BY <2>3, <2>4 DEF PresenceIInv, PresenceTypeOK
  <2>7. \A t \in Sockets : recording'[t] = IF t = s THEN call ELSE recording[t]
    BY <2>4 DEF PresenceIInv, Records
  <2>8. Records'
    <3>1. recording' = [t \in Sockets |-> recording'[t]] /\ stats' \in Seq(Nat)
      BY <1>1, <2>4 DEF PresenceIInv, Records
    <3>2. ASSUME NEW t \in Sockets, recording'[t] # Null
          PROVE  recording'[t] \in Call /\ recording'[t].count <= reached'
      <4>1. CASE t = s
        BY <2>5, <2>6, <2>7, <4>1
      <4>2. CASE t # s
        <5>1. recording'[t] = recording[t] /\ recording[t] \in Call /\ recording[t].count <= reached
          BY <2>7, <3>2, <4>2 DEF PresenceIInv, Records
        <5>2. recording[t].count \in Int
          BY <2>3, <5>1 DEF Call
        <5> QED
          BY <2>6, <5>1, <5>2 DEF PresenceIInv, PresenceTypeOK
      <4> QED
        BY <4>1, <4>2
    <3> QED
      BY <3>1, <3>2 DEF Records
  <2>9. PresenceTypeOK'
    BY <1>1, <2>4, <2>5, <2>6, <2>7, <2>3 DEF PresenceIInv, PresenceTypeOK
  <2>10. PresentIsOnline'
    BY <1>1, <1>3, <2>4 DEF PresenceIInv, PresenceTypeOK, PresentIsOnline, UsersOf
  <2>11. PeakWasReached'
    BY <1>1, <2>6 DEF PresenceIInv, PresenceTypeOK, PeakWasReached
  <2> QED
    BY <2>8, <2>9, <2>10, <2>11 DEF PresenceIInv
<1> QED
  BY <1>2, <1>3

-----------------------------------------------------------------------------
(* The recordings *)

\* A call goes on, or is over, with the statistics it leaves behind.
LEMMA RecordingKeeps ==
  ASSUME PresenceIInv, UNCHANGED <<socket, open, online, active, reached>>,
         NEW s \in Sockets, NEW call, recording' = [recording EXCEPT ![s] = call],
         call # Null => /\ call \in Call /\ call.count <= reached
                        /\ call.at = "update" => call.row \in DOMAIN stats',
         stats' \in Seq(Nat), DOMAIN stats \subseteq DOMAIN stats',
         \A i \in DOMAIN stats' : stats'[i] <= reached
  PROVE  PresenceIInv'
<1>1. \A t \in Sockets : recording'[t] = IF t = s THEN call ELSE recording[t]
  BY DEF PresenceIInv, Records
<1>2. \A t \in Sockets : recording'[t] # Null =>
         /\ recording'[t] \in Call /\ recording'[t].count <= reached
         /\ recording'[t].at = "update" => recording'[t].row \in DOMAIN stats'
  BY <1>1 DEF PresenceIInv, Records, PresenceTypeOK
<1>3. Records'
  BY <1>2 DEF PresenceIInv, Records
<1>4. PresenceTypeOK'
  BY <1>2 DEF PresenceIInv, PresenceTypeOK, Call
<1>5. PresentIsOnline' /\ PeakWasReached'
  BY DEF PresenceIInv, PresentIsOnline, PeakWasReached, UsersOf
<1> QED
  BY <1>3, <1>4, <1>5 DEF PresenceIInv

LEMMA CallIs ==
  ASSUME PresenceIInv, NEW s \in Sockets, recording[s] # Null, NEW call, call = recording[s]
  PROVE  /\ call \in Call /\ call.count \in Nat /\ call.count <= reached
<1>1. call \in Call /\ call.count <= reached /\ Cardinality(Users) \in Nat
  BY UsersAreFinite, FS_CardinalityType DEF PresenceIInv, Records
<1> QED
  BY <1>1 DEF Call

LEMMA ReturnsKeeps ==
  ASSUME PresenceIInv, NEW s \in Sockets, Returns(s), UNCHANGED <<socket, open, online, active, stats, reached>>
  PROVE  PresenceIInv'
<1>1. PICK call : call = Null
  OBVIOUS
<1>2. recording' = [recording EXCEPT ![s] = call]
  BY <1>1 DEF Returns
<1> QED
  BY <1>1, <1>2, RecordingKeeps DEF PresenceIInv, Records, PeakWasReached

LEMMA FindStatsKeeps ==
  ASSUME PresenceIInv, NEW s \in Sockets, FindStats(s)
  PROVE  PresenceIInv'
<1>1. PICK call : call = recording[s]
  OBVIOUS
<1>2. call # Null /\ UNCHANGED <<socket, open, online, active, stats, reached>>
  BY <1>1 DEF FindStats, Recording
<1>3. PICK made : made = [call EXCEPT !.at = "create"]
  OBVIOUS
<1>4. CASE recording' = [recording EXCEPT ![s] = made]
  <2>1. made \in Call /\ made.count <= reached /\ made.at = "create"
    <3>1. call \in Call /\ call.count <= reached
      BY <1>1, <1>2, CallIs
    <3> QED
      BY <1>3, <3>1 DEF Call
  <2> QED
    BY <1>2, <1>4, <2>1, RecordingKeeps DEF PresenceIInv, Records, PeakWasReached
<1>5. ASSUME NEW i \in DOMAIN stats, NEW found, found = [call EXCEPT !.at = "update", !.row = i],
             recording' = [recording EXCEPT ![s] = found]
      PROVE  PresenceIInv'
  <2>1. i \in Nat
    BY DEF PresenceIInv, Records
  <2>2. found \in Call /\ found.count <= reached /\ found.row = i
    <3>1. call \in Call /\ call.count <= reached
      BY <1>1, <1>2, CallIs
    <3> QED
      BY <1>5, <2>1, <3>1 DEF Call
  <2> QED
    BY <1>2, <1>5, <2>2, RecordingKeeps DEF PresenceIInv, Records, PeakWasReached
<1>6. \/ recording' = [recording EXCEPT ![s] = made]
      \/ Returns(s)
      \/ \E i \in DOMAIN stats : recording' = [recording EXCEPT ![s] = [call EXCEPT !.at = "update", !.row = i]]
  BY <1>1, <1>3 DEF FindStats, PresenceIInv, Records
<1> QED
  BY <1>2, <1>4, <1>5, <1>6, ReturnsKeeps

LEMMA CreateStatsKeeps ==
  ASSUME PresenceIInv, NEW s \in Sockets, CreateStats(s)
  PROVE  PresenceIInv'
<1>1. PICK call : call = recording[s]
  OBVIOUS
<1>2. call # Null /\ stats' = Append(stats, 0) /\ UNCHANGED <<socket, open, online, active, reached>>
  BY <1>1 DEF CreateStats, Recording
<1>3. PICK made : made = [call EXCEPT !.at = "update", !.row = Len(stats) + 1]
  OBVIOUS
<1>4. /\ stats' \in Seq(Nat) /\ DOMAIN stats \subseteq DOMAIN stats' /\ Len(stats) + 1 \in DOMAIN stats'
      /\ \A i \in DOMAIN stats' : stats'[i] <= reached
  BY <1>2 DEF PresenceIInv, Records, PeakWasReached, PresenceTypeOK
<1>5. made \in Call /\ made.count <= reached /\ made.row = Len(stats) + 1
  <2>1. call \in Call /\ call.count <= reached
    BY <1>1, <1>2, CallIs
  <2>2. Len(stats) + 1 \in Nat
    BY DEF PresenceIInv, Records
  <2> QED
    BY <1>3, <2>1, <2>2 DEF Call
<1>6. PICK none : none = Null
  OBVIOUS
<1>7. recording' = [recording EXCEPT ![s] = none] \/ recording' = [recording EXCEPT ![s] = made]
  BY <1>1, <1>3, <1>6 DEF CreateStats, Returns, PresenceIInv, Records
<1> QED
  BY <1>2, <1>4, <1>5, <1>6, <1>7, RecordingKeeps

LEMMA RaisePeakKeeps ==
  ASSUME PresenceIInv, NEW s \in Sockets, RaisePeak(s)
  PROVE  PresenceIInv'
<1>1. PICK call : call = recording[s]
  OBVIOUS
<1>2. /\ call # Null /\ call.at = "update" /\ stats' = [stats EXCEPT ![call.row] = call.count]
      /\ Returns(s) /\ UNCHANGED <<socket, open, online, active, reached>>
  BY <1>1 DEF RaisePeak, Recording
<1>3. call.row \in DOMAIN stats /\ call.count \in Nat /\ call.count <= reached
  BY <1>1, <1>2, CallIs DEF PresenceIInv, PresenceTypeOK
<1>4. /\ stats' \in Seq(Nat) /\ DOMAIN stats' = DOMAIN stats
      /\ \A i \in DOMAIN stats' : stats'[i] <= reached
  BY <1>2, <1>3 DEF PresenceIInv, Records, PeakWasReached
<1>5. PICK none : none = Null
  OBVIOUS
<1> QED
  BY <1>2, <1>4, <1>5, RecordingKeeps DEF Returns

-----------------------------------------------------------------------------
LEMMA NextKeeps == PresenceIInv /\ [PresenceNext]_presenceVars => PresenceIInv'
<1> SUFFICES ASSUME PresenceIInv, [PresenceNext]_presenceVars PROVE PresenceIInv'
  OBVIOUS
<1>1. ASSUME NEW s \in Sockets, Connect(s) PROVE PresenceIInv'
  BY <1>1, SocketKeeps DEF Connect, PresenceIInv, PresenceTypeOK, PresentIsOnline
<1>2. ASSUME NEW s \in Sockets, Verify(s) PROVE PresenceIInv'
  BY <1>2, SocketKeeps DEF Verify, PresenceIInv, PresenceTypeOK, PresentIsOnline
<1>3. ASSUME NEW s \in Sockets, Disconnect(s) PROVE PresenceIInv'
  BY <1>3, SocketKeeps DEF Disconnect, PresenceIInv, PresenceTypeOK, PresentIsOnline
<1>4. ASSUME NEW u \in Users, Suspend(u) PROVE PresenceIInv'
  BY <1>4, SocketKeeps DEF Suspend, PresenceIInv, PresenceTypeOK, PresentIsOnline
<1>5. CASE UNCHANGED presenceVars
  BY <1>5, SocketKeeps DEF presenceVars, PresenceIInv, PresenceTypeOK, PresentIsOnline
<1> QED
  BY <1>1, <1>2, <1>3, <1>4, <1>5, JoinKeeps, FindStatsKeeps, CreateStatsKeeps, RaisePeakKeeps DEF PresenceNext

LEMMA PresenceInvariance == PresenceSpec => []PresenceIInv
BY PresenceInitIInv, NextKeeps, PTL DEF PresenceSpec

\* However connections, checks and closings interleave, staff never count, and no
\* member who is present through handleConnection is missing from the map.
THEOREM PresentCounted == PresenceSpec => []OnlineIsSound
<1>1. PresenceIInv => OnlineIsSound
  BY DEF PresenceIInv, OnlineIsSound
<1> QED
  BY <1>1, PresenceInvariance, PTL

\* However late and in whatever order the recordings arrive, no row holds a peak
\* that the map never reached.
THEOREM PeaksAreReal == PresenceSpec => []PeakWasReached
<1>1. PresenceIInv => PeakWasReached
  BY DEF PresenceIInv
<1> QED
  BY <1>1, PresenceInvariance, PTL
==============================================================================
