-------------------------- MODULE PermissionCache --------------------------
(***************************************************************************)
(* PermissionResolverService: the in-process cache that turns a caller's   *)
(* role into permissions.  Requests look a role up by its id (an assigned  *)
(* AppRole) or by its key (accounts without one); a miss starts a query    *)
(* that concurrent lookups share; a role edit commits to the database and  *)
(* invalidates the role afterwards.  Everything between two awaits is one  *)
(* step.  A role's permission set is the number of its edits.              *)
(***************************************************************************)
EXTENDS Integers

CONSTANTS
    Roles,        \* the AppRole rows; a role's key never changes
    Requests,     \* requests that resolve a role at the same time
    Editors,      \* RolesService calls in flight at the same time
    None,
    MaxEdits      \* bound: how often each role is edited

VARIABLES
    version,      \* version[r]: the committed permission set of role r
    byId,         \* byId[r]: the cached permission set, or None
    generation,   \* bumped by every invalidation
    inFlight,     \* inFlight[k][r]: the request whose query others may join, or None
    load,         \* load[q]: the query request q started, or None
    request,      \* request[q]: what q looks up, since when, and its answer
    edit,         \* edit[e]: the committed edit that e has yet to invalidate, or None
    live          \* live[r]: the newest edit of r whose call has invalidated the cache

vars == <<version, byId, generation, inFlight, load, request, edit, live>>

ASSUME BoundIsNat == MaxEdits \in Nat
ASSUME NoneIsNothing == None \notin Nat /\ None \notin Requests

Kinds == {"id", "key"}
Load == [role : Roles, kind : Kinds, generation : Nat, seen : Nat \cup {None}]
\* "on" is the query a request awaits; "floor" is live[role] when it started.
Lookup == [role : Roles, kind : Kinds, on : Requests \cup {None}, floor : Nat, answer : Nat \cup {None}]
Edit == [role : Roles, version : Nat]
ASSUME NoneIsNoRecord == None \notin Load /\ None \notin Lookup /\ None \notin Edit

Init ==
    /\ version = [r \in Roles |-> 0]
    /\ byId = [r \in Roles |-> None]
    /\ generation = 0
    /\ inFlight = [k \in Kinds |-> [r \in Roles |-> None]]
    /\ load = [q \in Requests |-> None]
    /\ request = [q \in Requests |-> None]
    /\ edit = [e \in Editors |-> None]
    /\ live = [r \in Roles |-> 0]

-----------------------------------------------------------------------------
(* Lookups *)

Asks(q, r, k, on, answer) ==
    request' = [request EXCEPT ![q] = [role |-> r, kind |-> k, on |-> on,
                                       floor |-> live[r], answer |-> answer]]

Free(q) == request[q] # None => request[q].answer # None

\* getById and getByKey find the role cached and not past its TTL.
Hit(q, r, k) ==
    /\ Free(q)
    /\ byId[r] # None
    /\ Asks(q, r, k, None, byId[r])
    /\ UNCHANGED <<version, byId, generation, inFlight, load, edit, live>>

\* A role that is not cached, or cached for longer than the TTL (and dropped for
\* it), is loaded; the first lookup to find no query in flight starts one.
Miss(q, r, k) ==
    /\ Free(q)
    /\ byId' = [byId EXCEPT ![r] = None]
    /\ IF inFlight[k][r] # None
       THEN /\ Asks(q, r, k, inFlight[k][r], None)
            /\ UNCHANGED <<inFlight, load>>
       ELSE /\ Asks(q, r, k, q, None)
            /\ inFlight' = [inFlight EXCEPT ![k][r] = q]
            /\ load' = [load EXCEPT ![q] = [role |-> r, kind |-> k, generation |-> generation,
                                            seen |-> None]]
    /\ UNCHANGED <<version, generation, edit, live>>

\* The database answers the query with what is committed.
Query(q) ==
    /\ load[q] # None /\ load[q].seen = None
    /\ load' = [load EXCEPT ![q].seen = version[load[q].role]]
    /\ UNCHANGED <<version, byId, generation, inFlight, request, edit, live>>

\* A slip: the result of a query is cached whatever happened meanwhile.
DeliverAlways(q) ==
    /\ load[q] # None /\ load[q].seen # None
    /\ byId' = [byId EXCEPT ![load[q].role] = load[q].seen]
    /\ inFlight' = [inFlight EXCEPT ![load[q].kind][load[q].role] = None]
    /\ load' = [load EXCEPT ![q] = None]
    /\ request' = [s \in Requests |->
                     IF request[s] # None /\ request[s].on = q
                     THEN [request[s] EXCEPT !.on = None, !.answer = load[q].seen]
                     ELSE request[s]]
    /\ UNCHANGED <<version, generation, edit, live>>

\* The row is cached unless an invalidation came in between, the query leaves
\* inFlight, and everybody who awaited it goes on.
Deliver(q) ==
    /\ load[q] # None /\ load[q].seen # None
    /\ byId' = IF load[q].generation = generation
               THEN [byId EXCEPT ![load[q].role] = load[q].seen] ELSE byId
    /\ inFlight' = [inFlight EXCEPT ![load[q].kind][load[q].role] = None]
    /\ load' = [load EXCEPT ![q] = None]
    /\ request' = [s \in Requests |->
                     IF request[s] # None /\ request[s].on = q
                     THEN [request[s] EXCEPT !.on = None, !.answer = load[q].seen]
                     ELSE request[s]]
    /\ UNCHANGED <<version, generation, edit, live>>

-----------------------------------------------------------------------------
(* Edits: RolesService.replacePermissions *)

\* The transaction that replaces the permission rows commits.
CommitEdit(e, r) ==
    /\ edit[e] = None /\ version[r] < MaxEdits
    /\ version' = [version EXCEPT ![r] = @ + 1]
    /\ edit' = [edit EXCEPT ![e] = [role |-> r, version |-> version[r] + 1]]
    /\ UNCHANGED <<byId, generation, inFlight, load, request, live>>

\* A slip: the query in flight stays joinable.
InvalidateCacheOnly(e) ==
    /\ edit[e] # None
    /\ LET r == edit[e].role
       IN  /\ byId' = [byId EXCEPT ![r] = None]
           /\ live' = [live EXCEPT ![r] = IF @ < edit[e].version THEN edit[e].version ELSE @]
    /\ generation' = generation + 1
    /\ edit' = [edit EXCEPT ![e] = None]
    /\ UNCHANGED <<version, inFlight, load, request>>

\* invalidate(roleId): the key's query is forgotten only when the role was cached.
Invalidate(e) ==
    /\ edit[e] # None
    /\ LET r == edit[e].role
       IN  /\ byId' = [byId EXCEPT ![r] = None]
           /\ inFlight' = [k \in Kinds |->
                             IF k = "id" \/ byId[r] # None THEN [inFlight[k] EXCEPT ![r] = None]
                                                           ELSE inFlight[k]]
           /\ live' = [live EXCEPT ![r] = IF @ < edit[e].version THEN edit[e].version ELSE @]
    /\ generation' = generation + 1
    /\ edit' = [edit EXCEPT ![e] = None]
    /\ UNCHANGED <<version, load, request>>

Next ==
    \/ \E q \in Requests :
          \/ \E r \in Roles, k \in Kinds : Hit(q, r, k) \/ Miss(q, r, k)
          \/ Query(q) \/ Deliver(q)
    \/ \E e \in Editors :
          \/ \E r \in Roles : CommitEdit(e, r)
          \/ Invalidate(e)

Spec == Init /\ [][Next]_vars

-----------------------------------------------------------------------------
(* Properties *)

TypeOK ==
    /\ version \in [Roles -> Nat]
    /\ byId \in [Roles -> Nat \cup {None}]
    /\ generation \in Nat
    /\ inFlight \in [Kinds -> [Roles -> Requests \cup {None}]]
    /\ load \in [Requests -> Load \cup {None}]
    /\ request \in [Requests -> Lookup \cup {None}]
    /\ edit \in [Editors -> Edit \cup {None}]
    /\ live \in [Roles -> Nat]

\* v is what the database holds for r, or an edit that replaced it has committed
\* and is about to invalidate the cache.
Current(r, v) == v = version[r] \/ \E e \in Editors : edit[e] # None /\ edit[e].role = r /\ edit[e].version > v

\* "a load that was already in flight when invalidate() ran ... is DISCARDED
\* rather than written back over the fresh state": a revoked permission never
\* comes back into the cache.
CachedIsCurrent == \A r \in Roles : byId[r] # None => Current(r, byId[r])

\* Once an edit's call has invalidated the cache, a later lookup by role id sees
\* that edit, whatever queries were in flight.
AssignedRoleIsCurrent ==
    \A q \in Requests :
       request[q] # None /\ request[q].kind = "id" /\ request[q].answer # None
          => request[q].answer >= request[q].floor

\* "a permission edit is live on the very next request": by id and by key.
EditIsLiveNextRequest ==
    \A q \in Requests :
       request[q] # None /\ request[q].answer # None => request[q].answer >= request[q].floor

=============================================================================
