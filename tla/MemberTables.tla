---------------------------- MODULE MemberTables ----------------------------
(***************************************************************************)
(* The rows behind the members of the platform: accounts and the ways into *)
(* them, what they buy, what is known of them, and the settings staff keep *)
(* for them.  Ids are handed out in order, so that a higher id is the      *)
(* newer row.                                                              *)
(***************************************************************************)
EXTENDS Naturals, Sequences, FiniteSets

CONSTANTS
    Procs,          \* requests in progress at the same time
    None,
    Phones,         \* telephone numbers
    Identities,     \* what Google says of its users: id, email, base (of the username)
    Clients,        \* the clients requests come from: platform, ip
    CodeTTL, Cooldown, Hour, MaxCodes, MaxAttempts,     \* of OtpService
    TokenTTL,       \* JWT_REFRESH_EXPIRES_IN
    MaxTries,       \* MAX_RESOLVE_ATTEMPTS
    MaxFeedback,    \* FEEDBACK_MAX_PER_HOUR
    Throttle,       \* LAST_SEEN_THROTTLE_MS
    Window,         \* ACTIVE_USER_WINDOW_MS
    MaxDelta,       \* MAX_WATCH_DELTA_SECONDS
    Hours, Days,    \* hours of a day, days of a week
    MaxNodes, MaxDepth, ActivityLimit,                  \* of UserRelationshipsService
    MaxClock,       \* bound
    MaxRows,        \* bound: rows ever created, of each kind
    MaxRequests,    \* bound: requests let in
    Start           \* what to start from, each with the requests let in

VARIABLES
    user,           \* the User rows, oldest first
    code,           \* the OtpCode rows
    token,          \* the RefreshToken rows
    session,        \* the UserSession rows
    watch,          \* the WatchActivity rows: seconds and heartbeats by user, movie, platform and hour
    position,       \* the WatchHistory rows: last position by user and movie
    search,         \* the SearchQuery rows
    feedback,       \* the Feedback rows
    payout,         \* the Withdrawal rows: who asked, for how much, to which account number, when, and what was decided
    movement,       \* the Transaction rows of withdrawals and adjustments: whose, of what type, how much
    deposit,        \* the Deposit rows: whose, how much, approved or not, when
    plan,           \* the SubscriptionPlan rows
    period,         \* the UserSubscription rows
    wallet,         \* the Wallet balance of each user
    level,          \* the UserLevel rows; None once deleted
    setting,        \* the FinanceSettings rows
    method,         \* the PaymentMethodType rows; None once deleted
    account,        \* the PaymentAccount rows; None once deleted
    picture,        \* the pictures in the object store: owner of the folder, stamp
    touched,        \* TrackingService.lastSeenTouches
    socket,         \* RealtimeGateway.connectedUserSockets
    locked,         \* locked[u]: the transaction that holds the wallet row of u
    clock,
    task,           \* task[p]: what p is doing, or None
    doors,          \* the kinds of request let in; never changes
    requests

identity == <<user, code, token>>
traces == <<session, watch, position, search, feedback, touched, socket>>
shop == <<plan, period, wallet, level, locked>>
office == <<payout, movement, deposit, setting, method, account, picture>>
vars == <<user, code, token, session, watch, position, search, feedback, payout, movement, deposit, plan, period, wallet, level,
          setting, method, account, picture, touched, socket, locked, clock, task, doors, requests>>

User == [username : STRING \X Nat, phone : Phones \cup {None}, email : {g.email : g \in Identities} \cup {None},
         google : {g.id : g \in Identities} \cup {None}, active : BOOLEAN, seen : Nat \cup {None}, since : Nat,
         avatar : (Nat \X Nat) \cup {None}]
Code == [phone : Phones, at : Nat, attempts : Nat, consumed : Nat]
Token == [user : Nat, revoked : BOOLEAN, from : Nat \cup {None}, expires : Nat]
Session == [user : Nat, client : Clients, at : Nat, signIn : BOOLEAN]
Payout == [user : Nat, number : Phones \X {"plain", "spaced", "short"}, amount : Nat, status : {"PENDING", "APPROVED", "REJECTED"}, at : Nat]
Period == [user : Nat, amount : Nat, days : Nat, until : Nat]
Plan == [price : Nat, days : Nat, active : BOOLEAN]
Level == [name : STRING, threshold : Nat, order : Nat, enabled : BOOLEAN]
Account == [type : STRING, used : BOOLEAN]

\* The rows of a table that are there.
Rows(table) == {i \in DOMAIN table : table[i] # None}
Users == DOMAIN user

\* The ids of S in an order, and the part of a list that skip and take ask for.
Ranked(S, Before(_, _)) == [i \in 1 .. Cardinality(S) |-> CHOOSE x \in S : Cardinality({y \in S : Before(y, x)}) = i - 1]
Slice(list, skip, take) == SubSeq(list, skip + 1, IF skip + take < Len(list) THEN skip + take ELSE Len(list))
Newer(i, j) == i > j

-----------------------------------------------------------------------------
(* Requests *)

Idle == [op |-> "", at |-> "", user |-> None, row |-> None, second |-> None, n |-> 0, name |-> <<>>, word |-> None, phone |-> None,
         google |-> None, client |-> None, when |-> 0, ids |-> {}, list |-> <<>>, out |-> None, query |-> None, old |-> None,
         flag |-> FALSE, active |-> TRUE, alone |-> TRUE]
Proceed(p, t) == task' = [task EXCEPT ![p] = t]
Goto(p, at) == Proceed(p, [task[p] EXCEPT !.at = at])
End(p) == Proceed(p, None)
At(p, op, at) == task[p] # None /\ task[p].op = op /\ task[p].at = at
Stands(p, at) == task[p] # None /\ task[p].at = at
\* The same, by a step that writes rows: whoever is under way is no longer alone.
Disturb(p, t) == task' = [q \in Procs |-> IF q = p THEN t
                                          ELSE IF task[q] = None THEN None ELSE [task[q] EXCEPT !.alone = FALSE]]
Goes == UNCHANGED <<clock, doors, requests>>
Reads == UNCHANGED <<identity, traces, shop, office>> /\ Goes
\* A request comes in.
Enter(p, op) == task[p] = None /\ requests < MaxRequests /\ op \in doors /\ requests' = requests + 1 /\ UNCHANGED <<clock, doors>>
Ask(p, t) == Enter(p, t.op) /\ Proceed(p, t) /\ UNCHANGED <<identity, traces, shop, office>>
\* A request of a single query.
Once(p, op) == Enter(p, op) /\ Disturb(p, None)

Tick ==
    /\ clock < MaxClock /\ "clock" \in doors
    /\ clock' = clock + 1
    /\ UNCHANGED <<identity, traces, shop, office, task, doors, requests>>

\* The process dies and comes back: what was under way is over, transactions are rolled back, and
\* what was kept in memory is gone.
Restart ==
    /\ "restart" \in doors /\ \E p \in Procs : task[p] # None
    /\ task' = [p \in Procs |-> None]
    /\ touched' = [u \in DOMAIN touched |-> None] /\ socket' = {} /\ locked' = [u \in DOMAIN locked |-> None]
    /\ UNCHANGED <<identity, session, watch, position, search, feedback, office, plan, period, wallet, level, clock, doors, requests>>
=============================================================================
