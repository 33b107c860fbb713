------------------------------ MODULE Presence ------------------------------
(***************************************************************************)
(* RealtimeGateway's map of online audience sockets and PeakUsersService's  *)
(* high-water mark.  handleConnection awaits the account and the room       *)
(* before it puts the socket on the map; a socket may close at any of these *)
(* points.  Each join sends the number of online users to recordConcurrent, *)
(* which nobody waits for: its read and its write interleave with others'.  *)
(***************************************************************************)
EXTENDS Naturals, FiniteSets, Sequences

CONSTANTS
    Sockets,      \* connections; each has an id of its own
    Users,
    Owner,        \* Owner[s]: the account that opens socket s
    Audience,     \* the accounts of role USER
    Null

VARIABLES
    socket,       \* socket[s]: how far handleConnection is with s
    open,         \* the sockets that are open
    online,       \* connectedUserSockets
    active,       \* the accounts that are ACTIVE
    recording,    \* recording[s]: the recordConcurrent call of s's join, or Null
    stats,        \* the actualPeak of each PeakUserStats row, in order of creation
    reached       \* the most users ever on the map at once

presenceVars == <<socket, open, online, active, recording, stats, reached>>

ASSUME OwnersAreUsers == Owner \in [Sockets -> Users] /\ Audience \subseteq Users
ASSUME UsersAreFinite == IsFiniteSet(Users)

PresenceInit ==
    /\ socket = [s \in Sockets |-> "new"]
    /\ open = {} /\ online = {} /\ active = Users
    /\ recording = [s \in Sockets |-> Null]
    /\ stats = <<>>
    /\ reached = 0

UsersOf(sockets) == {Owner[s] : s \in sockets}
\* A slip: every tab counts.
CountSockets(sockets) == Cardinality(sockets)

\* distinctUserIds().length
Count(sockets) == Cardinality(UsersOf(sockets))

-----------------------------------------------------------------------------
(* RealtimeGateway *)

\* handleConnection with a valid token, up to the await of findByIdOrThrow.
Connect(s) ==
    /\ socket[s] = "new"
    /\ socket' = [socket EXCEPT ![s] = "loading"]
    /\ open' = open \cup {s}
    /\ UNCHANGED <<online, active, recording, stats, reached>>

\* The account is there and active: join its room. Otherwise the socket is closed.
Verify(s) ==
    /\ socket[s] = "loading"
    /\ IF Owner[s] \in active
       THEN socket' = [socket EXCEPT ![s] = "joining"] /\ UNCHANGED <<open, online>>
       ELSE socket' = [socket EXCEPT ![s] = "over"] /\ open' = open \ {s} /\ online' = online \ {s}
    /\ UNCHANGED <<active, recording, stats, reached>>

\* The room is joined: an audience socket goes on the map, and the number of
\* online users goes to recordConcurrent, which is not awaited.
Join(s) ==
    /\ socket[s] = "joining"
    /\ socket' = [socket EXCEPT ![s] = "over"]
    /\ IF Owner[s] \in Audience
       THEN LET n == Count(online \cup {s})
            IN  /\ online' = online \cup {s}
                /\ recording' = [recording EXCEPT ![s] = [count |-> n, at |-> "find", row |-> Null]]
                /\ reached' = IF Cardinality(UsersOf(online')) > reached THEN Cardinality(UsersOf(online')) ELSE reached
       ELSE UNCHANGED <<online, recording, reached>>
    /\ UNCHANGED <<open, active, stats>>

\* A slip: the whole user leaves with one of their tabs.
DisconnectUser(s) ==
    /\ s \in open
    /\ open' = open \ {s}
    /\ online' = {t \in online : Owner[t] # Owner[s]}
    /\ UNCHANGED <<socket, active, recording, stats, reached>>

\* handleDisconnect, whenever the socket closes.
Disconnect(s) ==
    /\ s \in open
    /\ open' = open \ {s}
    /\ online' = online \ {s}
    /\ UNCHANGED <<socket, active, recording, stats, reached>>

\* An account is suspended; its open sockets stay.
Suspend(u) ==
    /\ u \in active
    /\ active' = active \ {u}
    /\ UNCHANGED <<socket, open, online, recording, stats, reached>>

-----------------------------------------------------------------------------
(* PeakUsersService.recordConcurrent *)

Recording(s, at) == recording[s] # Null /\ recording[s].at = at
Returns(s) == recording' = [recording EXCEPT ![s] = Null]

\* The read of getOrCreate, and the comparison with what was read: findFirst
\* without an order may return any row.
FindStats(s) ==
    /\ Recording(s, "find")
    /\ \/ /\ stats = <<>>
          /\ recording' = [recording EXCEPT ![s].at = "create"]
       \/ \E i \in DOMAIN stats :
             IF recording[s].count <= stats[i]
             THEN Returns(s)
             ELSE recording' = [recording EXCEPT ![s].at = "update", ![s].row = i]
    /\ UNCHANGED <<socket, open, online, active, stats, reached>>

\* A slip: the new row is taken for the one before it.
CreateStatsOffByOne(s) ==
    /\ Recording(s, "create")
    /\ stats' = Append(stats, 0)
    /\ recording' = [recording EXCEPT ![s].at = "update", ![s].row = Len(stats)]
    /\ UNCHANGED <<socket, open, online, active, reached>>

CreateStats(s) ==
    /\ Recording(s, "create")
    /\ stats' = Append(stats, 0)
    /\ IF recording[s].count <= 0
       THEN Returns(s)
       ELSE recording' = [recording EXCEPT ![s].at = "update", ![s].row = Len(stats) + 1]
    /\ UNCHANGED <<socket, open, online, active, reached>>

RaisePeak(s) ==
    /\ Recording(s, "update")
    /\ stats' = [stats EXCEPT ![recording[s].row] = recording[s].count]
    /\ Returns(s)
    /\ UNCHANGED <<socket, open, online, active, reached>>

PresenceNext ==
    \/ \E s \in Sockets :
          \/ Connect(s) \/ Verify(s) \/ Join(s) \/ Disconnect(s)
          \/ FindStats(s) \/ CreateStats(s) \/ RaisePeak(s)
    \/ \E u \in Users : Suspend(u)

PresenceSpec == PresenceInit /\ [][PresenceNext]_presenceVars

-----------------------------------------------------------------------------
(* Properties *)

PresenceTypeOK ==
    /\ socket \in [Sockets -> {"new", "loading", "joining", "over"}]
    /\ open \subseteq Sockets /\ online \subseteq Sockets /\ active \subseteq Users
    /\ \A s \in Sockets : recording[s] # Null =>
          /\ recording[s].count \in 1..Cardinality(Users)
          /\ recording[s].at \in {"find", "create", "update"}
          /\ recording[s].at = "update" => recording[s].row \in DOMAIN stats
    /\ \A i \in DOMAIN stats : stats[i] \in Nat
    /\ reached \in Nat

\* Staff never count as audience, and every audience socket that is open and
\* through handleConnection is on the map: nobody who is present is missed.
PresentIsOnline ==
    /\ UsersOf(online) \subseteq Audience
    /\ \A s \in open : socket[s] = "over" /\ Owner[s] \in Audience => s \in online

OnlineIsSound == PresenceTypeOK /\ PresentIsOnline

\* No recorded peak is higher than the number of users that were on the map at
\* once: two tabs are one user, whatever order the records arrive in.
PeakWasReached == \A i \in DOMAIN stats : stats[i] <= reached

\* "A user is dropped from it the moment their last socket closes."
OnlineIsOpen == online \subseteq open
=============================================================================
