--------------------------- MODULE Members_proofs ---------------------------
(***************************************************************************)
(* That accounts are safe and what members leave behind is true, for any   *)
(* number of members, requests, rows and ticks of the clock.  The          *)
(* invariant has one part for each subject: what its rows are and what the *)
(* requests about it carry from step to step.  A step is about one subject *)
(* and leaves the rows and the requests of the others alone.               *)
(***************************************************************************)
EXTENDS Members, FiniteSetTheorems, WellFoundedInduction, TLAPS

-----------------------------------------------------------------------------
(* What requests carry *)

Fields == {"op", "at", "user", "row", "second", "n", "name", "word", "phone", "google", "client", "when", "ids", "list", "out",
           "query", "old", "flag", "active", "alone"}

\* The operations that meet at each of the shared steps.
Placed(D, t) ==
    /\ DOMAIN t = Fields /\ t.op \in D
    /\ t.at = "issue" => t.op \in {"register", "login", "verify", "google", "refresh"}
    /\ t.at = "session" => t.op \in {"login", "verify", "google"}
    /\ t.at = "presence" => t.op \in {"login", "verify", "google", "touch"}
    /\ t.at = "gate" => t.op \in {"verify", "google"}
    /\ t.at = "collided" => t.op = "google"

\* Who a request is about, once it knows, and what it will write; U are the members.
Carries(U, t) ==
    /\ t.at \in {"issue", "session", "presence", "gate"} \/ t.op \in {"refresh", "touch"} => t.user \in U
    /\ t.at \in {"session", "presence"} \/ t.op = "touch" => t.when \in Nat
    /\ t.op \in {"login", "verify", "google", "touch"} => t.client \in Clients
    /\ t.op \in {"code", "verify"} => t.phone \in Phones
    /\ t.op = "register" => t.name \in STRING \X Nat
    /\ t.op = "google" => /\ t.google \in Identities
                          /\ t.at = "link" => t.user \in U
                          /\ t.at = "name" => t.row \in Nat
                          /\ t.at = "create" => t.name \in STRING \X Nat

Apart(rows) == \A u, v \in DOMAIN rows : Clash(rows[u], rows[v]) => u = v

\* Accounts, codes and sessions.
Accounts ==
    /\ user \in Seq(User) /\ code \in Seq(Code) /\ session \in Seq(Session)
    /\ clock \in Nat /\ requests \in Nat
    /\ Apart(user)
    /\ \A s \in DOMAIN session : session[s].user \in DOMAIN user
    /\ \A c \in DOMAIN code : code[c].consumed <= 1
    /\ DOMAIN task = Procs
    /\ \A p \in Procs : task[p] # None => Placed(doors, task[p]) /\ Carries(DOMAIN user, task[p])

-----------------------------------------------------------------------------
(* Refresh tokens *)

\* A refresh is about a token of its member; once it has spent the token, nothing else has.
Refreshing(T, t) ==
    t.op = "refresh" => /\ t.row \in DOMAIN T /\ t.user = T[t.row].user
                        /\ t.at = "issue" => /\ T[t.row].revoked
                                             /\ \A r \in DOMAIN T : T[r].from # t.row
Succeeds(t) == t.op = "refresh" /\ t.at = "issue"
Tokens ==
    /\ token \in Seq(Token)
    /\ \A t \in DOMAIN token : token[t].user \in DOMAIN user /\ (token[t].from # None => token[t].from \in DOMAIN token)
    /\ SpentOnce(token)
    /\ \A p \in Procs : task[p] # None => Refreshing(token, task[p])
    /\ \A p, q \in Procs : /\ p # q /\ task[p] # None /\ task[q] # None
                           /\ Succeeds(task[p]) /\ Succeeds(task[q])
                           => task[p].row # task[q].row

-----------------------------------------------------------------------------
(* Sign-ins with Google *)

\* Somebody came since the pass began, so that a collision is no surprise.
Joined(U, t) == Len(U) >= t.second + t.n
Linked(U, g) == \A u \in DOMAIN U : U[u].google = g.id => U[u].email = g.email
Unknown(U, g) == \A u \in DOMAIN U : U[u].google # g.id /\ U[u].email # g.email
Resolving(U, t) ==
    t.op = "google" =>
        /\ t.at \in {"find", "email", "link", "name", "create"} =>
              t.second \in Nat /\ t.n \in Nat /\ Len(U) + 1 >= t.second + t.n
        /\ t.at = "email" => Joined(U, t) \/ Linked(U, t.google)
        /\ t.at = "link" => /\ t.user \in DOMAIN U /\ U[t.user].email = t.google.email
                            /\ Joined(U, t) \/ Linked(U, t.google)
        /\ t.at \in {"name", "create"} => Joined(U, t) \/ Unknown(U, t.google)
        /\ t.at = "create" => Joined(U, t) \/ \A u \in DOMAIN U : U[u].username # t.name
        /\ t.at = "collided" => t.second \in Nat /\ Len(U) >= t.second + MaxTries
Signing == \A p \in Procs : task[p] # None => Resolving(user, task[p])

-----------------------------------------------------------------------------
(* What is bought *)

\* A purchase that has debited holds the wallet, with enough in it; the days it will write are
\* after all that were paid for.
Paying(p, t) ==
    t.op = "subscribe" =>
        /\ t.user \in DOMAIN user /\ t.query.price \in Nat /\ t.query.days \in Nat
        /\ t.at \in {"current", "commit"} => locked[t.user] = p /\ wallet[t.user] >= t.query.price
        /\ t.at = "commit" => /\ t.when \in Nat
                              /\ \A i \in DOMAIN period : period[i].user = t.user => t.when >= period[i].until + t.query.days
Shopping ==
    /\ plan \in Seq(Plan) /\ period \in Seq(Period)
    /\ \A i \in DOMAIN period : period[i].user \in DOMAIN user
    /\ wallet \in [DOMAIN user -> Nat] /\ DOMAIN locked = DOMAIN user
    /\ DaysAreNotPaidTwice
    /\ \A p \in Procs : task[p] # None => Paying(p, task[p])

-----------------------------------------------------------------------------
(* The ladder of levels *)

Climbing(t) ==
    t.op = "level" => /\ t.query.name \in STRING /\ t.query.threshold \in Nat /\ t.query.enabled \in BOOLEAN
                      /\ t.at = "write" => t.n \in Nat
Ranks ==
    /\ level \in Seq(Level \cup {None})
    /\ \A p \in Procs : task[p] # None => Climbing(task[p])

-----------------------------------------------------------------------------
(* Touches *)

SignedIn(S, u) == \E s \in DOMAIN S : S[s].user = u /\ S[s].signIn
\* A touch has stamped its member, unless a sign-in stamps too; a sign-in that is about to stamp
\* has left its session.
Touching(t) ==
    /\ t.op = "touch" => /\ t.user \in DOMAIN user /\ t.when \in Nat /\ t.when <= clock
                         /\ \/ SignedIn(session, t.user)
                            \/ touched[t.user] \in Nat /\ touched[t.user] >= t.when
    /\ t.at = "presence" /\ t.op # "touch" => SignedIn(session, t.user)
Touches ==
    /\ DOMAIN touched = DOMAIN user
    /\ \A p \in Procs : task[p] # None => Touching(task[p])
    /\ OneTouchPerWindow

-----------------------------------------------------------------------------
(* Watch time *)

Beating(t) == t.op = "beat" => t.when \in Nat /\ t.n \in Nat
Watches ==
    /\ \A k \in DOMAIN position : position[k] \in Nat
    /\ \A k \in DOMAIN watch : watch[k].seconds \in Nat /\ watch[k].beats \in Nat /\ watch[k].seconds <= MaxDelta * watch[k].beats
    /\ \A p \in Procs : task[p] # None => Beating(task[p])

-----------------------------------------------------------------------------
(* Pictures *)

\* A picture on its way to a member: nobody has it yet, and nobody else is about to.
OnItsWay(t) == t.op = "avatar" /\ t.at \in {"upload", "point"} /\ t.name # <<>>
Hanging(t) ==
    /\ t.op = "avatar" => /\ t.user \in DOMAIN user
                          /\ t.old # None => t.old \in Nat \X Nat /\ t.old[2] <= requests
                          /\ t.at = "erase" /\ t.old # None =>
                                \A u \in DOMAIN user : user[u].avatar = t.old => t.old[1] # t.user
    /\ OnItsWay(t) => /\ t.name \in Nat \X Nat /\ t.name[1] = t.user /\ t.name[2] <= requests /\ t.old # t.name
                      /\ \A u \in DOMAIN user : user[u].avatar # t.name
                      /\ t.at = "point" => t.name \in picture
Pictures ==
    /\ AvatarIsThere
    /\ \A u \in DOMAIN user : user[u].avatar # None =>
          user[u].avatar \in Nat \X Nat /\ user[u].avatar[1] \in {0, u} /\ user[u].avatar[2] <= requests
    /\ \A p \in Procs : task[p] # None => Hanging(task[p])
    /\ \A p, q \in Procs : /\ p # q /\ task[p] # None /\ task[q] # None /\ OnItsWay(task[p])
                           => /\ task[q].op = "avatar" => task[q].old # task[p].name
                              /\ OnItsWay(task[q]) => task[q].name # task[p].name

MembersInv == Accounts /\ Tokens /\ Signing /\ Shopping /\ Ranks /\ Touches /\ Watches /\ Pictures
-----------------------------------------------------------------------------
(* Finite tables *)

\* Finitely many things have a highest one.
LEMMA Highest ==
  ASSUME NEW S, IsFiniteSet(S), S # {}, NEW f, \A x \in S : f[x] \in Nat
  PROVE  \E x \in S : \A y \in S : f[y] <= f[x]
<1> DEFINE Over(x) == {y \in S : f[y] > f[x]}
           C == {Cardinality(Over(x)) : x \in S}
<1>1. ASSUME NEW x \in S PROVE IsFiniteSet(Over(x)) /\ Cardinality(Over(x)) \in Nat
  <2>1. Over(x) \in SUBSET S
    OBVIOUS
  <2> QED
    BY <2>1, FS_Subset, FS_CardinalityType
<1>2. C \subseteq Nat /\ C # {}
  BY <1>1
<1>3. PICK n \in C : \A m \in C : ~(<<m, n>> \in OpToRel(<, Nat))
  <2> HIDE DEF C
  <2> QED
    BY <1>2, NatLessThanWellFounded, WFMin
<1>4. PICK x \in S : n = Cardinality(Over(x))
  OBVIOUS
<1>5. ASSUME NEW y \in S, ~(f[y] <= f[x]) PROVE FALSE
  <2>1. Over(y) \in SUBSET Over(x) /\ y \in Over(x) /\ y \notin Over(y)
    BY <1>5
  <2>2. Cardinality(Over(y)) <= Cardinality(Over(x)) /\ Over(y) # Over(x)
    <3> HIDE DEF Over
    <3> QED
      BY <1>1, <2>1, FS_Subset
  <2>3. Cardinality(Over(y)) # Cardinality(Over(x))
    <3> HIDE DEF Over
    <3> QED
      BY <1>1, <2>1, <2>2, FS_Subset
  <2>4. Cardinality(Over(y)) < Cardinality(Over(x))
    <3> HIDE DEF Over
    <3> QED
      BY <1>1, <2>2, <2>3
  <2>5. Cardinality(Over(y)) \in C /\ Cardinality(Over(x)) \in C
    OBVIOUS
  <2>6. <<Cardinality(Over(y)), n>> \in OpToRel(<, Nat)
    <3> HIDE DEF Over, C
    <3> QED
      BY <1>2, <1>4, <2>4, <2>5 DEF OpToRel
  <2> QED
    BY <1>3, <2>5, <2>6
<1> QED
  BY <1>5

\* The tables that are sequences are finite.
LEMMA RowsFinite ==
  ASSUME NEW T, NEW s \in Seq(T), NEW S, S \subseteq DOMAIN s
  PROVE  IsFiniteSet(S)
<1>1. DOMAIN s = 1 .. Len(s) /\ Len(s) \in Nat
  OBVIOUS
<1>2. IsFiniteSet(DOMAIN s)
  BY <1>1, FS_Interval
<1> QED
  BY <1>2, FS_Subset

-----------------------------------------------------------------------------
(* Whose turn it is *)

\* The same request, alone or no longer.
Kept(t, s) ==
    /\ DOMAIN s = Fields /\ s.op = t.op /\ s.at = t.at /\ s.user = t.user /\ s.row = t.row /\ s.second = t.second
    /\ s.n = t.n /\ s.name = t.name /\ s.phone = t.phone /\ s.google = t.google /\ s.client = t.client
    /\ s.when = t.when /\ s.query = t.query /\ s.old = t.old
\* Everybody else goes on with what they have.
Turns(p) ==
    /\ DOMAIN task' = Procs
    /\ \A q \in Procs \ {p} : task'[q] # None => task[q] # None /\ Kept(task[q], task'[q])
Typed == DOMAIN task = Procs /\ \A p \in Procs : task[p] # None => DOMAIN task[p] = Fields

LEMMA AccountsTyped == Accounts => Typed
BY DEF Accounts, Typed, Placed

\* A step that only goes on.
LEMMA ProceedTurns ==
  ASSUME Typed, NEW p \in Procs, NEW t, Proceed(p, t)
  PROVE  Turns(p) /\ task'[p] = t /\ \A q \in Procs \ {p} : task'[q] = task[q]
<1>1. DOMAIN task' = Procs /\ task'[p] = t /\ \A q \in Procs \ {p} : task'[q] = task[q]
  BY DEF Proceed, Typed
<1> QED
  BY <1>1 DEF Turns, Typed, Kept

\* A step that writes.
LEMMA DisturbTurns ==
  ASSUME Typed, NEW p \in Procs, NEW t, Disturb(p, t)
  PROVE  Turns(p) /\ task'[p] = t
<1>1. DOMAIN task' = Procs /\ task'[p] = t
  BY DEF Disturb
<1>2. ASSUME NEW q \in Procs \ {p}, task'[q] # None
      PROVE  task[q] # None /\ Kept(task[q], task'[q])
  <2>1. task[q] # None /\ task'[q] = [task[q] EXCEPT !.alone = FALSE]
    BY <1>2 DEF Disturb
  <2>2. PICK t0 : t0 = task[q]
    OBVIOUS
  <2>3. DOMAIN t0 = Fields
    BY <2>1, <2>2 DEF Typed
  <2>4. PICK s0 : s0 = [t0 EXCEPT !.alone = FALSE]
    OBVIOUS
  <2>5. Kept(t0, s0)
    BY <2>3, <2>4 DEF Kept, Fields
  <2> QED
    BY <2>1, <2>2, <2>4, <2>5
<1> QED
  BY <1>1, <1>2 DEF Turns

-----------------------------------------------------------------------------
(* Steps about something else *)

Subjects == {"register", "login", "verify", "google", "refresh", "code", "touch", "beat", "subscribe", "level", "avatar"}
Junctions == {"issue", "session", "presence", "gate", "collided"}
core == <<user, code, token, session, watch, position, plan, period, wallet, level, picture, touched, locked>>
Moves == requests' \in {requests, requests + 1} /\ UNCHANGED <<clock, doors>>
Plain(t) == DOMAIN t = Fields /\ t.op \in doors /\ t.op \notin Subjects /\ t.at \notin Junctions
Aside(p) == Turns(p) /\ UNCHANGED core /\ Moves /\ (task'[p] # None => Plain(task'[p]))
\* What the rules for a request that runs alone are about, and a step that only reads it.
ruled == <<user, code, feedback, level, setting, method, account, payout>>
Reading(p) == UNCHANGED <<ruled, clock>> /\ \A q \in Procs \ {p} : task'[q] = task[q]
About(p, op) == Aside(p) /\ Reading(p) /\ (task'[p] # None => task'[p].op = op)

\* A request that is let in about something else.
LEMMA AskAside ==
  ASSUME Typed, NEW p \in Procs, NEW t, Ask(p, t), DOMAIN t = Fields, t.op \notin Subjects, t.at \notin Junctions
  PROVE  Aside(p) /\ Reading(p) /\ task'[p] = t
<1>1. Turns(p) /\ task'[p] = t /\ \A q \in Procs \ {p} : task'[q] = task[q]
  BY ProceedTurns DEF Ask
<1> QED
  BY <1>1 DEF Ask, Enter, Aside, Reading, ruled, Plain, Moves, core, identity, traces, shop, office

\* A request that reads, about something else or for the last time.
LEMMA ReadAside ==
  ASSUME Typed, NEW p \in Procs, NEW t, Proceed(p, t), Reads, t # None => Plain(t)
  PROVE  Aside(p) /\ Reading(p) /\ task'[p] = t
<1>1. Turns(p) /\ task'[p] = t /\ \A q \in Procs \ {p} : task'[q] = task[q]
  BY ProceedTurns
<1> QED
  BY <1>1 DEF Aside, Reading, ruled, Moves, core, Reads, Goes, identity, traces, shop, office

LEMMA EndAside ==
  ASSUME Typed, NEW p \in Procs, End(p), Reads
  PROVE  Aside(p) /\ Reading(p) /\ task'[p] = None
BY ReadAside DEF End

\* A request of a single query about something else.
LEMMA OnceAside ==
  ASSUME Typed, NEW p \in Procs, NEW op, Once(p, op), UNCHANGED core
  PROVE  Aside(p)
<1>1. Turns(p) /\ task'[p] = None
  BY DisturbTurns DEF Once
<1> QED
  BY <1>1 DEF Aside, Moves, Once, Enter

LEMMA IdleShape == DOMAIN Idle = Fields
BY DEF Idle, Fields

LEMMA ActiveAside ==
  ASSUME Typed, NEW p \in Procs, NEW platform, NEW page, NEW limit, AskActive(p, platform, page, limit)
  PROVE  About(p, "active")
<1>1. PICK w, q, n, l, o : Ask(p, [Idle EXCEPT !.op = "active", !.at = "answer", !.when = w, !.query = q, !.n = n, !.list = l, !.out = o])
  BY DEF AskActive
<1>2. PICK t : t = [Idle EXCEPT !.op = "active", !.at = "answer", !.when = w, !.query = q, !.n = n, !.list = l, !.out = o]
  OBVIOUS
<1>3. DOMAIN t = Fields /\ t.op = "active" /\ t.at = "answer"
  BY <1>2, IdleShape DEF Fields
<1> QED
  BY <1>1, <1>2, <1>3, AskAside DEF About, Subjects, Junctions

LEMMA WatchTimeAside ==
  ASSUME Typed, NEW p \in Procs, NEW platform, AskWatchTime(p, platform)
  PROVE  About(p, "watched")
<1>1. PICK q, o : Ask(p, [Idle EXCEPT !.op = "watched", !.at = "answer", !.query = q, !.out = o])
  BY DEF AskWatchTime
<1>2. PICK t : t = [Idle EXCEPT !.op = "watched", !.at = "answer", !.query = q, !.out = o]
  OBVIOUS
<1>3. DOMAIN t = Fields /\ t.op = "watched" /\ t.at = "answer"
  BY <1>2, IdleShape DEF Fields
<1> QED
  BY <1>1, <1>2, <1>3, AskAside DEF About, Subjects, Junctions

LEMMA TopSearchesAside ==
  ASSUME Typed, NEW p \in Procs, NEW page, NEW limit, AskTopSearches(p, page, limit)
  PROVE  About(p, "searches")
<1>1. PICK q, n, l : Ask(p, [Idle EXCEPT !.op = "searches", !.at = "spell", !.query = q, !.n = n, !.list = l])
  BY DEF AskTopSearches
<1>2. PICK t : t = [Idle EXCEPT !.op = "searches", !.at = "spell", !.query = q, !.n = n, !.list = l]
  OBVIOUS
<1>3. DOMAIN t = Fields /\ t.op = "searches" /\ t.at = "spell"
  BY <1>2, IdleShape DEF Fields
<1> QED
  BY <1>1, <1>2, <1>3, AskAside DEF About, Subjects, Junctions

LEMMA SessionsAside ==
  ASSUME Typed, NEW p \in Procs, NEW platform, NEW page, NEW limit, AskSessions(p, platform, page, limit)
  PROVE  About(p, "sessions")
<1>1. PICK q, n, l : Ask(p, [Idle EXCEPT !.op = "sessions", !.at = "newest", !.query = q, !.n = n, !.list = l])
  BY DEF AskSessions
<1>2. PICK t : t = [Idle EXCEPT !.op = "sessions", !.at = "newest", !.query = q, !.n = n, !.list = l]
  OBVIOUS
<1>3. DOMAIN t = Fields /\ t.op = "sessions" /\ t.at = "newest"
  BY <1>2, IdleShape DEF Fields
<1> QED
  BY <1>1, <1>2, <1>3, AskAside DEF About, Subjects, Junctions

LEMMA LogAside ==
  ASSUME Typed, NEW p \in Procs, NEW kind, NEW page, NEW limit, AskLog(p, kind, page, limit)
  PROVE  About(p, "log")
<1>1. PICK d, n, l : Ask(p, [Idle EXCEPT !.op = "log", !.at = "answer", !.word = d, !.n = n, !.list = l])
  BY DEF AskLog
<1>2. PICK t : t = [Idle EXCEPT !.op = "log", !.at = "answer", !.word = d, !.n = n, !.list = l]
  OBVIOUS
<1>3. DOMAIN t = Fields /\ t.op = "log" /\ t.at = "answer"
  BY <1>2, IdleShape DEF Fields
<1> QED
  BY <1>1, <1>2, <1>3, AskAside DEF About, Subjects, Junctions

LEMMA GrowthAside ==
  ASSUME Typed, NEW p \in Procs, NEW months, AskGrowth(p, months)
  PROVE  About(p, "growth")
<1>1. PICK o : Ask(p, [Idle EXCEPT !.op = "growth", !.at = "answer", !.out = o])
  BY DEF AskGrowth
<1>2. PICK t : t = [Idle EXCEPT !.op = "growth", !.at = "answer", !.out = o]
  OBVIOUS
<1>3. DOMAIN t = Fields /\ t.op = "growth" /\ t.at = "answer"
  BY <1>2, IdleShape DEF Fields
<1> QED
  BY <1>1, <1>2, <1>3, AskAside DEF About, Subjects, Junctions

LEMMA FeedbackAside ==
  ASSUME Typed, NEW p \in Procs, NEW u, AskFeedback(p, u)
  PROVE  About(p, "feedback")
<1>1. PICK v : Ask(p, [Idle EXCEPT !.op = "feedback", !.at = "create", !.user = v])
  BY DEF AskFeedback
<1>2. PICK t : t = [Idle EXCEPT !.op = "feedback", !.at = "create", !.user = v]
  OBVIOUS
<1>3. DOMAIN t = Fields /\ t.op = "feedback" /\ t.at = "create"
  BY <1>2, IdleShape DEF Fields
<1> QED
  BY <1>1, <1>2, <1>3, AskAside DEF About, Subjects, Junctions

LEMMA NetworkAside ==
  ASSUME Typed, NEW p \in Procs, NEW number, AskNetwork(p, number)
  PROVE  About(p, "network")
<1>1. PICK m, n, i, o : Ask(p, [Idle EXCEPT !.op = "network", !.at = "wave", !.name = m, !.n = n, !.ids = i, !.out = o])
  BY DEF AskNetwork
<1>2. PICK t : t = [Idle EXCEPT !.op = "network", !.at = "wave", !.name = m, !.n = n, !.ids = i, !.out = o]
  OBVIOUS
<1>3. DOMAIN t = Fields /\ t.op = "network" /\ t.at = "wave"
  BY <1>2, IdleShape DEF Fields
<1> QED
  BY <1>1, <1>2, <1>3, AskAside DEF About, Subjects, Junctions

LEMMA MembersAside ==
  ASSUME Typed, NEW p \in Procs, NEW page, NEW limit, AskMembers(p, page, limit)
  PROVE  About(p, "members")
<1>1. PICK l : Ask(p, [Idle EXCEPT !.op = "members", !.at = "count", !.list = l])
  BY DEF AskMembers
<1>2. PICK t : t = [Idle EXCEPT !.op = "members", !.at = "count", !.list = l]
  OBVIOUS
<1>3. DOMAIN t = Fields /\ t.op = "members" /\ t.at = "count"
  BY <1>2, IdleShape DEF Fields
<1> QED
  BY <1>1, <1>2, <1>3, AskAside DEF About, Subjects, Junctions

LEMMA StatusAside ==
  ASSUME Typed, NEW p \in Procs, NEW u, AskStatus(p, u)
  PROVE  About(p, "rank")
<1>1. PICK v, n : Ask(p, [Idle EXCEPT !.op = "rank", !.at = "levels", !.user = v, !.n = n])
  BY DEF AskStatus
<1>2. PICK t : t = [Idle EXCEPT !.op = "rank", !.at = "levels", !.user = v, !.n = n]
  OBVIOUS
<1>3. DOMAIN t = Fields /\ t.op = "rank" /\ t.at = "levels"
  BY <1>2, IdleShape DEF Fields
<1> QED
  BY <1>1, <1>2, <1>3, AskAside DEF About, Subjects, Junctions

LEMMA RenameAside ==
  ASSUME Typed, NEW p \in Procs, NEW i, NEW label, AskRename(p, i, label)
  PROVE  About(p, "method")
<1>1. PICK r, f, d : Ask(p, [Idle EXCEPT !.op = "method", !.at = "rename", !.row = r, !.phone = f, !.word = d])
  BY DEF AskRename
<1>2. PICK t : t = [Idle EXCEPT !.op = "method", !.at = "rename", !.row = r, !.phone = f, !.word = d]
  OBVIOUS
<1>3. DOMAIN t = Fields /\ t.op = "method" /\ t.at = "rename"
  BY <1>2, IdleShape DEF Fields
<1> QED
  BY <1>1, <1>2, <1>3, AskAside DEF About, Subjects, Junctions

LEMMA RemoveMethodAside ==
  ASSUME Typed, NEW p \in Procs, NEW i, AskRemoveMethod(p, i)
  PROVE  About(p, "method")
<1>1. PICK r, f : Ask(p, [Idle EXCEPT !.op = "method", !.at = "count", !.row = r, !.phone = f])
  BY DEF AskRemoveMethod
<1>2. PICK t : t = [Idle EXCEPT !.op = "method", !.at = "count", !.row = r, !.phone = f]
  OBVIOUS
<1>3. DOMAIN t = Fields /\ t.op = "method" /\ t.at = "count"
  BY <1>2, IdleShape DEF Fields
<1> QED
  BY <1>1, <1>2, <1>3, AskAside DEF About, Subjects, Junctions

LEMMA RemoveAccountAside ==
  ASSUME Typed, NEW p \in Procs, NEW a, AskRemoveAccount(p, a)
  PROVE  About(p, "account")
<1>1. PICK r : Ask(p, [Idle EXCEPT !.op = "account", !.at = "delete", !.row = r])
  BY DEF AskRemoveAccount
<1>2. PICK t : t = [Idle EXCEPT !.op = "account", !.at = "delete", !.row = r]
  OBVIOUS
<1>3. DOMAIN t = Fields /\ t.op = "account" /\ t.at = "delete"
  BY <1>2, IdleShape DEF Fields
<1> QED
  BY <1>1, <1>2, <1>3, AskAside DEF About, Subjects, Junctions

\* A request about something else takes its next step.
LEMMA OnwardAside ==
  ASSUME Accounts, NEW p \in Procs, task[p] # None, task[p].op \notin Subjects,
         NEW t, DOMAIN t = Fields, t.op = task[p].op, t.at \notin Junctions, Proceed(p, t), Reads
  PROVE  Aside(p) /\ Reading(p) /\ task'[p] = t
<1>1. Plain(t)
  BY DEF Accounts, Placed, Plain
<1> QED
  BY <1>1, AccountsTyped, ReadAside

LEMMA SpellAside ==
  ASSUME Accounts, NEW p \in Procs, SpellSearches(p)
  PROVE  About(p, "searches")
<1>1. At(p, "searches", "spell") /\ Reads
  BY DEF SpellSearches
<1>2. PICK o : Proceed(p, [task[p] EXCEPT !.at = "answer", !.out = o])
  BY DEF SpellSearches
<1>3. PICK t0, t : t0 = task[p] /\ t = [t0 EXCEPT !.at = "answer", !.out = o]
  OBVIOUS
<1>4. DOMAIN t0 = Fields /\ task[p] # None /\ t0.op = "searches"
  BY <1>1, <1>3 DEF At, Accounts, Placed
<1>5. DOMAIN t = Fields /\ t.op = "searches" /\ t.at = "answer"
  BY <1>3, <1>4 DEF Fields
<1> QED
  BY <1>1, <1>2, <1>3, <1>4, <1>5, OnwardAside DEF About, Subjects, Junctions

LEMMA NewestAside ==
  ASSUME Accounts, NEW p \in Procs, NewestOf(p)
  PROVE  About(p, "sessions")
<1>1. At(p, "sessions", "newest") /\ Reads
  BY DEF NewestOf
<1>2. PICK o : Proceed(p, [task[p] EXCEPT !.at = "answer", !.out = o])
  BY DEF NewestOf
<1>3. PICK t0, t : t0 = task[p] /\ t = [t0 EXCEPT !.at = "answer", !.out = o]
  OBVIOUS
<1>4. DOMAIN t0 = Fields /\ task[p] # None /\ t0.op = "sessions"
  BY <1>1, <1>3 DEF At, Accounts, Placed
<1>5. DOMAIN t = Fields /\ t.op = "sessions" /\ t.at = "answer"
  BY <1>3, <1>4 DEF Fields
<1> QED
  BY <1>1, <1>2, <1>3, <1>4, <1>5, OnwardAside DEF About, Subjects, Junctions

LEMMA LoadAside ==
  ASSUME Accounts, NEW p \in Procs, Load(p)
  PROVE  About(p, "network")
<1>1. At(p, "network", "load") /\ Reads
  BY DEF Load
<1>2. PICK n, o, i : Proceed(p, [task[p] EXCEPT !.at = "wave", !.n = n, !.out = o, !.ids = i])
  BY DEF Load
<1>3. PICK t0, t : t0 = task[p] /\ t = [t0 EXCEPT !.at = "wave", !.n = n, !.out = o, !.ids = i]
  OBVIOUS
<1>4. DOMAIN t0 = Fields /\ task[p] # None /\ t0.op = "network"
  BY <1>1, <1>3 DEF At, Accounts, Placed
<1>5. DOMAIN t = Fields /\ t.op = "network" /\ t.at = "wave"
  BY <1>3, <1>4 DEF Fields
<1> QED
  BY <1>1, <1>2, <1>3, <1>4, <1>5, OnwardAside DEF About, Subjects, Junctions

LEMMA DepositsAside ==
  ASSUME Accounts, NEW p \in Procs, CountDeposits(p)
  PROVE  About(p, "network")
<1>1. At(p, "network", "deposits") /\ Reads
  BY DEF CountDeposits
<1>2. PICK o : Proceed(p, [task[p] EXCEPT !.at = "answer", !.out = o])
  BY DEF CountDeposits
<1>3. PICK t0, t : t0 = task[p] /\ t = [t0 EXCEPT !.at = "answer", !.out = o]
  OBVIOUS
<1>4. DOMAIN t0 = Fields /\ task[p] # None /\ t0.op = "network"
  BY <1>1, <1>3 DEF At, Accounts, Placed
<1>5. DOMAIN t = Fields /\ t.op = "network" /\ t.at = "answer"
  BY <1>3, <1>4 DEF Fields
<1> QED
  BY <1>1, <1>2, <1>3, <1>4, <1>5, OnwardAside DEF About, Subjects, Junctions

LEMMA CountMembersAside ==
  ASSUME Accounts, NEW p \in Procs, CountMembers(p)
  PROVE  About(p, "members")
<1>1. At(p, "members", "count") /\ Reads
  BY DEF CountMembers
<1>2. PICK n : Proceed(p, [task[p] EXCEPT !.at = "wallets", !.n = n])
  BY DEF CountMembers
<1>3. PICK t0, t : t0 = task[p] /\ t = [t0 EXCEPT !.at = "wallets", !.n = n]
  OBVIOUS
<1>4. DOMAIN t0 = Fields /\ task[p] # None /\ t0.op = "members"
  BY <1>1, <1>3 DEF At, Accounts, Placed
<1>5. DOMAIN t = Fields /\ t.op = "members" /\ t.at = "wallets"
  BY <1>3, <1>4 DEF Fields
<1> QED
  BY <1>1, <1>2, <1>3, <1>4, <1>5, OnwardAside DEF About, Subjects, Junctions

LEMMA WalletsAside ==
  ASSUME Accounts, NEW p \in Procs, ReadWallets(p)
  PROVE  About(p, "members")
<1>1. At(p, "members", "wallets") /\ Reads
  BY DEF ReadWallets
<1>2. PICK q : Proceed(p, [task[p] EXCEPT !.at = "totals", !.query = q])
  BY DEF ReadWallets
<1>3. PICK t0, t : t0 = task[p] /\ t = [t0 EXCEPT !.at = "totals", !.query = q]
  OBVIOUS
<1>4. DOMAIN t0 = Fields /\ task[p] # None /\ t0.op = "members"
  BY <1>1, <1>3 DEF At, Accounts, Placed
<1>5. DOMAIN t = Fields /\ t.op = "members" /\ t.at = "totals"
  BY <1>3, <1>4 DEF Fields
<1> QED
  BY <1>1, <1>2, <1>3, <1>4, <1>5, OnwardAside DEF About, Subjects, Junctions

LEMMA TotalsAside ==
  ASSUME Accounts, NEW p \in Procs, ReadTotals(p)
  PROVE  About(p, "members")
<1>1. At(p, "members", "totals") /\ Reads
  BY DEF ReadTotals
<1>2. PICK w, o : Proceed(p, [task[p] EXCEPT !.at = "answer", !.when = w, !.out = o])
  BY DEF ReadTotals
<1>3. PICK t0, t : t0 = task[p] /\ t = [t0 EXCEPT !.at = "answer", !.when = w, !.out = o]
  OBVIOUS
<1>4. DOMAIN t0 = Fields /\ task[p] # None /\ t0.op = "members"
  BY <1>1, <1>3 DEF At, Accounts, Placed
<1>5. DOMAIN t = Fields /\ t.op = "members" /\ t.at = "answer"
  BY <1>3, <1>4 DEF Fields
<1> QED
  BY <1>1, <1>2, <1>3, <1>4, <1>5, OnwardAside DEF About, Subjects, Junctions

LEMMA LevelsAside ==
  ASSUME Accounts, NEW p \in Procs, ReadLevels(p)
  PROVE  About(p, "rank")
<1>1. At(p, "rank", "levels") /\ Reads
  BY DEF ReadLevels
<1>2. PICK q, o : Proceed(p, [task[p] EXCEPT !.at = "resolved", !.query = q, !.out = o])
  BY DEF ReadLevels
<1>3. PICK t0, t : t0 = task[p] /\ t = [t0 EXCEPT !.at = "resolved", !.query = q, !.out = o]
  OBVIOUS
<1>4. DOMAIN t0 = Fields /\ task[p] # None /\ t0.op = "rank"
  BY <1>1, <1>3 DEF At, Accounts, Placed
<1>5. DOMAIN t = Fields /\ t.op = "rank" /\ t.at = "resolved"
  BY <1>3, <1>4 DEF Fields
<1> QED
  BY <1>1, <1>2, <1>3, <1>4, <1>5, OnwardAside DEF About, Subjects, Junctions

LEMMA WaveAside ==
  ASSUME Accounts, NEW p \in Procs, Wave(p)
  PROVE  About(p, "network")
<1>1. PICK t0 : t0 = task[p]
  OBVIOUS
<1>2. DOMAIN t0 = Fields /\ task[p] # None /\ t0.op = "network" /\ Reads
  BY <1>1 DEF Wave, At, Accounts, Placed
<1>3. ASSUME NEW t, DOMAIN t = Fields, t.op = "network", t.at \in {"deposits", "load"}, Proceed(p, t)
      PROVE  About(p, "network")
  BY <1>1, <1>2, <1>3, OnwardAside DEF About, Subjects, Junctions
<1>4. CASE Proceed(p, [t0 EXCEPT !.at = "deposits"])
  <2>1. PICK t : t = [t0 EXCEPT !.at = "deposits"]
    OBVIOUS
  <2>2. DOMAIN t = Fields /\ t.op = "network" /\ t.at = "deposits"
    BY <1>2, <2>1 DEF Fields
  <2> QED
    BY <1>3, <1>4, <2>1, <2>2
<1>5. ASSUME NEW b, Proceed(p, [t0 EXCEPT !.at = "deposits", !.out.truncated = b]) PROVE About(p, "network")
  <2>1. PICK t : t = [t0 EXCEPT !.at = "deposits", !.out.truncated = b]
    OBVIOUS
  <2>2. DOMAIN t = Fields /\ t.op = "network" /\ t.at = "deposits"
    BY <1>2, <2>1 DEF Fields
  <2> QED
    BY <1>3, <1>5, <2>1, <2>2
<1>6. ASSUME NEW l, NEW b, Proceed(p, [t0 EXCEPT !.at = "load", !.list = l, !.out.truncated = b]) PROVE About(p, "network")
  <2>1. PICK t : t = [t0 EXCEPT !.at = "load", !.list = l, !.out.truncated = b]
    OBVIOUS
  <2>2. DOMAIN t = Fields /\ t.op = "network" /\ t.at = "load"
    BY <1>2, <2>1 DEF Fields
  <2> QED
    BY <1>3, <1>6, <2>1, <2>2
<1> QED
  BY <1>1, <1>4, <1>5, <1>6 DEF Wave

LEMMA CountUsersAside ==
  ASSUME Accounts, NEW p \in Procs, CountUsers(p)
  PROVE  About(p, "method")
<1>1. At(p, "method", "count") /\ Reads
  BY DEF CountUsers
<1>2. CASE End(p)
  BY <1>1, <1>2, AccountsTyped, EndAside DEF About
<1>3. CASE Proceed(p, [task[p] EXCEPT !.at = "delete"])
  <2>1. PICK t0, t : t0 = task[p] /\ t = [t0 EXCEPT !.at = "delete"]
    OBVIOUS
  <2>2. DOMAIN t0 = Fields /\ task[p] # None /\ t0.op = "method"
    BY <1>1, <2>1 DEF At, Accounts, Placed
  <2>3. DOMAIN t = Fields /\ t.op = "method" /\ t.at = "delete"
    BY <2>1, <2>2 DEF Fields
  <2> QED
    BY <1>1, <1>3, <2>1, <2>2, <2>3, OnwardAside DEF About, Subjects, Junctions
<1> QED
  BY <1>2, <1>3 DEF CountUsers, Goto

\* A write about something else, for the last time or on the way to the next.
LEMMA WriteAside ==
  ASSUME Accounts, NEW p \in Procs, NEW t, Disturb(p, t), UNCHANGED core, Goes, t # None => Plain(t)
  PROVE  Aside(p)
<1>1. Turns(p) /\ task'[p] = t
  BY AccountsTyped, DisturbTurns
<1> QED
  BY <1>1 DEF Aside, Moves, Goes

LEMMA SettingsAside ==
  ASSUME Accounts, NEW p \in Procs, (\E new : AskSettings(p, new)) \/ CreateSettings(p) \/ WriteSettings(p)
  PROVE  Aside(p)
<1>1. ASSUME NEW new, AskSettings(p, new) PROVE Aside(p)
  <2>1. ASSUME NEW r, Ask(p, [Idle EXCEPT !.op = "settings", !.at = "write", !.row = r, !.query = new]) PROVE Aside(p)
    <3>1. PICK t : t = [Idle EXCEPT !.op = "settings", !.at = "write", !.row = r, !.query = new]
      OBVIOUS
    <3>2. DOMAIN t = Fields /\ t.op = "settings" /\ t.at = "write"
      BY <3>1, IdleShape DEF Fields
    <3> QED
      BY <2>1, <3>1, <3>2, AskAside, AccountsTyped DEF Subjects, Junctions
  <2>2. ASSUME Ask(p, [Idle EXCEPT !.op = "settings", !.at = "create", !.query = new]) PROVE Aside(p)
    <3>1. PICK t : t = [Idle EXCEPT !.op = "settings", !.at = "create", !.query = new]
      OBVIOUS
    <3>2. DOMAIN t = Fields /\ t.op = "settings" /\ t.at = "create"
      BY <3>1, IdleShape DEF Fields
    <3> QED
      BY <2>2, <3>1, <3>2, AskAside, AccountsTyped DEF Subjects, Junctions
  <2> QED
    BY <1>1, <2>1, <2>2 DEF AskSettings
<1>2. ASSUME CreateSettings(p) PROVE Aside(p)
  <2>1. PICK t0, t : t0 = task[p] /\ t = [t0 EXCEPT !.at = "write", !.row = Len(setting) + 1]
    OBVIOUS
  <2>2. DOMAIN t0 = Fields /\ t0.op = "settings" /\ t0.op \in doors
    BY <1>2, <2>1 DEF CreateSettings, At, Accounts, Placed
  <2>3. DOMAIN t = Fields /\ t.op = "settings" /\ t.at = "write"
    BY <2>1, <2>2 DEF Fields
  <2>4. Plain(t)
    BY <2>2, <2>3 DEF Plain, Subjects, Junctions
  <2>5. Disturb(p, t) /\ Goes /\ UNCHANGED core
    BY <1>2, <2>1 DEF CreateSettings, core, identity, traces, shop
  <2> QED
    BY <2>4, <2>5, WriteAside
<1>3. ASSUME WriteSettings(p) PROVE Aside(p)
  <2>1. CASE End(p) /\ Reads
    BY <2>1, AccountsTyped, EndAside
  <2>2. CASE Disturb(p, None) /\ Goes /\ UNCHANGED core
    BY <2>2, WriteAside
  <2> QED
    BY <1>3, <2>1, <2>2 DEF WriteSettings, core, identity, traces, shop
<1> QED
  BY <1>1, <1>2, <1>3

LEMMA OfficesAside ==
  ASSUME Accounts, NEW p \in Procs, CreateFeedback(p) \/ RenameMethod(p) \/ DeleteMethod(p) \/ DeleteAccount(p)
  PROVE  Aside(p)
<1>1. CASE End(p) /\ Reads
  BY <1>1, AccountsTyped, EndAside
<1>2. CASE Disturb(p, None) /\ Goes /\ UNCHANGED core
  BY <1>2, WriteAside
<1> QED
  BY <1>1, <1>2 DEF CreateFeedback, RenameMethod, DeleteMethod, DeleteAccount, Wrote, Offices, core, identity, traces, shop, office

LEMMA AnswerAside ==
  ASSUME Accounts, NEW p \in Procs, Answered(p) \/ ShowStatus(p) \/ Collided(p)
  PROVE  Aside(p)
BY AccountsTyped, EndAside DEF Answered, ShowStatus, Collided

LEMMA QueryAside ==
  ASSUME Accounts, NEW p \in Procs, NEW u, NEW i, NEW c, NEW v,
         \/ Connect(p, u, c) \/ Search(p, u, v, c) \/ HandleFeedback(p, i, u, v) \/ RejectWithdrawal(p, i)
         \/ CreateMethod(p, v) \/ PutAccount(p, i, v) \/ Use(p, i)
  PROVE  Aside(p)
<1>1. UNCHANGED core
  BY DEF Connect, Search, HandleFeedback, RejectWithdrawal, CreateMethod, PutAccount, Use, core, identity, traces, shop, office
<1>2. \E op : Once(p, op)
  BY DEF Connect, Search, HandleFeedback, RejectWithdrawal, CreateMethod, PutAccount, Use
<1> QED
  BY <1>1, <1>2, OnceAside, AccountsTyped

LEMMA WithdrawalAside ==
  ASSUME Accounts, NEW p \in Procs, (\E u, number, amount : AskWithdrawal(p, u, number, amount)) \/ Withdraw(p)
  PROVE  Aside(p)
<1>1. ASSUME NEW u, NEW number, NEW amount, AskWithdrawal(p, u, number, amount) PROVE Aside(p)
  <2>1. PICK t : t = [Idle EXCEPT !.op = "withdraw", !.at = "create", !.user = u, !.name = number, !.n = amount]
    OBVIOUS
  <2>2. DOMAIN t = Fields /\ t.op = "withdraw" /\ t.at = "create"
    BY <2>1, IdleShape DEF Fields
  <2> QED
    BY <1>1, <2>1, <2>2, AskAside, AccountsTyped DEF AskWithdrawal, Subjects, Junctions
<1>2. CASE Withdraw(p)
  <2>1. Disturb(p, None) /\ UNCHANGED core /\ Goes
    BY <1>2 DEF Withdraw, core, identity, traces, shop
  <2> QED
    BY <2>1, WriteAside
<1> QED
  BY <1>1, <1>2

-----------------------------------------------------------------------------
(* What a step owes to each subject *)

\* Whether a request is alone says nothing about what it carries.
LEMMA KeptFits ==
  ASSUME NEW t, NEW s, Kept(t, s)
  PROVE  /\ \A D : Placed(D, t) => Placed(D, s)
         /\ \A U : Carries(U, t) => Carries(U, s)
         /\ \A T : Refreshing(T, t) => Refreshing(T, s)
         /\ Succeeds(s) <=> Succeeds(t)
         /\ \A U : Resolving(U, t) => Resolving(U, s)
         /\ \A p : Paying(p, t) => Paying(p, s)
         /\ Climbing(t) => Climbing(s)
         /\ Touching(t) => Touching(s)
         /\ Beating(t) => Beating(s)
         /\ Hanging(t) => Hanging(s)
         /\ OnItsWay(s) <=> OnItsWay(t)
<1>1. \A D : Placed(D, t) => Placed(D, s)
  BY DEF Kept, Placed
<1>2. \A U : Carries(U, t) => Carries(U, s)
  BY DEF Kept, Carries
<1>3. \A T : Refreshing(T, t) => Refreshing(T, s)
  BY DEF Kept, Refreshing
<1>4. Succeeds(s) <=> Succeeds(t)
  BY DEF Kept, Succeeds
<1>5. \A U : Resolving(U, t) => Resolving(U, s)
  BY DEF Kept, Resolving, Joined
<1>6. \A p : Paying(p, t) => Paying(p, s)
  BY DEF Kept, Paying
<1>7. Climbing(t) => Climbing(s)
  BY DEF Kept, Climbing
<1>8. Touching(t) => Touching(s)
  BY DEF Kept, Touching
<1>9. Beating(t) => Beating(s)
  BY DEF Kept, Beating
<1>10. OnItsWay(s) <=> OnItsWay(t)
  BY DEF Kept, OnItsWay
<1>11. Hanging(t) => Hanging(s)
  BY <1>10 DEF Kept, Hanging
<1> QED
  BY <1>1, <1>2, <1>3, <1>4, <1>5, <1>6, <1>7, <1>8, <1>9, <1>10, <1>11

LEMMA CarriesMore ==
  ASSUME NEW U, NEW V, U \subseteq V, NEW t, Carries(U, t)
  PROVE  Carries(V, t)
BY DEF Carries

\* The rows of accounts, codes and sessions are as they should be after the step.
RowsKept ==
    /\ user' \in Seq(User) /\ code' \in Seq(Code) /\ session' \in Seq(Session)
    /\ clock' \in Nat /\ requests' \in Nat /\ doors' = doors
    /\ DOMAIN user \subseteq DOMAIN user' /\ Apart(user')
    /\ \A s \in DOMAIN session' : session'[s].user \in DOMAIN user'
    /\ \A c \in DOMAIN code' : code'[c].consumed <= 1
LEMMA AccountsKept ==
  ASSUME Accounts, NEW p \in Procs, NEW t, Turns(p), task'[p] = t, RowsKept,
         t # None => Placed(doors, t) /\ Carries(DOMAIN user', t)
  PROVE  Accounts'
<1>1. ASSUME NEW q \in Procs, task'[q] # None
      PROVE  Placed(doors, task'[q]) /\ Carries(DOMAIN user', task'[q])
  <2>1. CASE q = p
    BY <1>1, <2>1
  <2>2. CASE q # p
    <3>1. task[q] # None /\ Kept(task[q], task'[q])
      BY <1>1, <2>2 DEF Turns
    <3>2. Placed(doors, task[q]) /\ Carries(DOMAIN user, task[q])
      BY <3>1 DEF Accounts
    <3>3. Placed(doors, task'[q]) /\ Carries(DOMAIN user, task'[q])
      BY <3>1, <3>2, KeptFits
    <3> QED
      BY <3>3, CarriesMore DEF RowsKept
  <2> QED
    BY <2>1, <2>2
<1>2. DOMAIN task' = Procs
  BY DEF Turns
<1> QED
  BY <1>1, <1>2 DEF Accounts, RowsKept

LEMMA TokensKept ==
  ASSUME Tokens, NEW p \in Procs, NEW t, Turns(p), task'[p] = t, token' = token, DOMAIN user \subseteq DOMAIN user',
         t # None => Refreshing(token, t) /\ ~Succeeds(t)
  PROVE  Tokens'
<1>1. ASSUME NEW q \in Procs, task'[q] # None
      PROVE  /\ Refreshing(token, task'[q])
             /\ Succeeds(task'[q]) => q # p /\ task[q] # None /\ Succeeds(task[q]) /\ task'[q].row = task[q].row
  <2>1. CASE q = p
    BY <1>1, <2>1
  <2>2. CASE q # p
    <3>1. task[q] # None /\ Kept(task[q], task'[q])
      BY <1>1, <2>2 DEF Turns
    <3>2. Refreshing(token, task[q])
      BY <3>1 DEF Tokens
    <3> QED
      BY <2>2, <3>1, <3>2, KeptFits DEF Kept
  <2> QED
    BY <2>1, <2>2
<1> QED
  BY <1>1 DEF Tokens

\* Nobody is added, and what makes accounts different is not touched.
SameNames ==
    /\ Len(user') = Len(user) /\ DOMAIN user' = DOMAIN user
    /\ \A u \in DOMAIN user : /\ user'[u].username = user[u].username
                              /\ user'[u].email = user[u].email /\ user'[u].google = user[u].google
LEMMA SigningKept ==
  ASSUME Signing, NEW p \in Procs, NEW t, Turns(p), task'[p] = t, SameNames, t # None => Resolving(user', t)
  PROVE  Signing'
<1>1. ASSUME NEW q \in Procs, task'[q] # None
      PROVE  Resolving(user', task'[q])
  <2>1. CASE q = p
    BY <1>1, <2>1
  <2>2. CASE q # p
    <3>1. task[q] # None /\ Kept(task[q], task'[q])
      BY <1>1, <2>2 DEF Turns
    <3>2. Resolving(user, task[q])
      BY <3>1 DEF Signing
    <3>3. Resolving(user, task'[q])
      BY <3>1, <3>2, KeptFits
    <3> QED
      BY <3>3 DEF SameNames, Resolving, Joined, Linked, Unknown
  <2> QED
    BY <2>1, <2>2
<1> QED
  BY <1>1 DEF Signing

LEMMA ShoppingKept ==
  ASSUME Shopping, NEW p \in Procs, NEW t, Turns(p), task'[p] = t, UNCHANGED <<plan, period, wallet, locked>>,
         DOMAIN user' = DOMAIN user, t # None => Paying(p, t)
  PROVE  Shopping'
<1>1. ASSUME NEW q \in Procs, task'[q] # None
      PROVE  Paying(q, task'[q])
  <2>1. CASE q = p
    BY <1>1, <2>1
  <2>2. CASE q # p
    <3>1. task[q] # None /\ Kept(task[q], task'[q])
      BY <1>1, <2>2 DEF Turns
    <3> QED
      BY <3>1, KeptFits DEF Shopping
  <2> QED
    BY <2>1, <2>2
<1>2. \A q \in Procs : task'[q] # None => Paying(q, task[q])'
  BY <1>1 DEF Paying
<1> QED
  BY <1>2 DEF Shopping, DaysAreNotPaidTwice

LEMMA RanksKept ==
  ASSUME Ranks, NEW p \in Procs, NEW t, Turns(p), task'[p] = t, level' \in Seq(Level \cup {None}), t # None => Climbing(t)
  PROVE  Ranks'
<1>1. ASSUME NEW q \in Procs, task'[q] # None
      PROVE  Climbing(task'[q])
  <2>1. CASE q = p
    BY <1>1, <2>1
  <2>2. CASE q # p
    <3>1. task[q] # None /\ Kept(task[q], task'[q])
      BY <1>1, <2>2 DEF Turns
    <3> QED
      BY <3>1, KeptFits DEF Ranks
  <2> QED
    BY <2>1, <2>2
<1> QED
  BY <1>1 DEF Ranks

LEMMA WatchesKept ==
  ASSUME Watches, NEW p \in Procs, NEW t, Turns(p), task'[p] = t, UNCHANGED <<position, watch>>, t # None => Beating(t)
  PROVE  Watches'
<1>1. ASSUME NEW q \in Procs, task'[q] # None
      PROVE  Beating(task'[q])
  <2>1. CASE q = p
    BY <1>1, <2>1
  <2>2. CASE q # p
    <3>1. task[q] # None /\ Kept(task[q], task'[q])
      BY <1>1, <2>2 DEF Turns
    <3> QED
      BY <3>1, KeptFits DEF Watches
  <2> QED
    BY <2>1, <2>2
<1> QED
  BY <1>1 DEF Watches

\* A touch is the one it was.
Resumes(t, p) == t.op = "touch" => task[p] # None /\ task[p].op = "touch" /\ task[p].user = t.user /\ task[p].when = t.when
LEMMA TouchesKept ==
  ASSUME Touches, NEW p \in Procs, NEW t, Turns(p), task'[p] = t, UNCHANGED <<session, touched>>,
         DOMAIN user' = DOMAIN user, clock \in Nat, clock' \in Nat, clock <= clock', t # None => Touching(t) /\ Resumes(t, p)
  PROVE  Touches'
<1>1. ASSUME NEW q \in Procs, task'[q] # None
      PROVE  Touching(task'[q]) /\ Resumes(task'[q], q)
  <2>1. CASE q = p
    BY <1>1, <2>1
  <2>2. CASE q # p
    <3>1. task[q] # None /\ Kept(task[q], task'[q])
      BY <1>1, <2>2 DEF Turns
    <3> QED
      BY <3>1, KeptFits DEF Touches, Resumes, Kept
  <2> QED
    BY <2>1, <2>2
<1>2. \A q \in Procs : task'[q] # None => Touching(task[q])'
  BY <1>1 DEF Touching
<1>3. OneTouchPerWindow'
  BY <1>1 DEF Touches, OneTouchPerWindow, Resumes
<1> QED
  BY <1>2, <1>3 DEF Touches

SameAvatars == DOMAIN user' = DOMAIN user /\ \A u \in DOMAIN user : user'[u].avatar = user[u].avatar
LEMMA PicturesKept ==
  ASSUME Pictures, NEW p \in Procs, NEW t, Turns(p), task'[p] = t, picture' = picture, SameAvatars,
         requests \in Nat, requests' \in Nat, requests <= requests', t # None => t.op # "avatar"
  PROVE  Pictures'
<1>1. ASSUME NEW q \in Procs, task'[q] # None
      PROVE  /\ Hanging(task'[q])
             /\ task'[q].op = "avatar" => /\ q # p /\ task[q] # None /\ task[q].op = "avatar" /\ task'[q].old = task[q].old
                                          /\ task'[q].name = task[q].name /\ (OnItsWay(task'[q]) <=> OnItsWay(task[q]))
  <2>1. CASE q = p
    BY <1>1, <2>1 DEF Hanging, OnItsWay
  <2>2. CASE q # p
    <3>1. task[q] # None /\ Kept(task[q], task'[q])
      BY <1>1, <2>2 DEF Turns
    <3> QED
      BY <2>2, <3>1, KeptFits DEF Pictures, Kept
  <2> QED
    BY <2>1, <2>2
<1>2. \A q \in Procs : task'[q] # None => Hanging(task[q])'
  BY <1>1 DEF Hanging, SameAvatars
<1>3. AvatarIsThere'
  BY DEF Pictures, AvatarIsThere, Users, SameAvatars
<1>4. \A u \in DOMAIN user' : user'[u].avatar # None =>
         user'[u].avatar \in Nat \X Nat /\ user'[u].avatar[1] \in {0, u} /\ user'[u].avatar[2] <= requests'
  BY DEF Pictures, SameAvatars
<1>5. \A q, r \in Procs : /\ q # r /\ task'[q] # None /\ task'[r] # None /\ OnItsWay(task'[q])
                          => /\ task'[r].op = "avatar" => task'[r].old # task'[q].name
                             /\ OnItsWay(task'[r]) => task'[r].name # task'[q].name
  BY <1>1 DEF Pictures, OnItsWay
<1> QED
  BY <1>2, <1>3, <1>4, <1>5 DEF Pictures

-----------------------------------------------------------------------------
(* Steps that leave the rows alone *)

\* What a request carries that has read: it may go on in any company.
Fits(p, t) ==
    /\ Placed(doors, t) /\ Carries(DOMAIN user, t) /\ Refreshing(token, t) /\ ~Succeeds(t) /\ Resolving(user, t)
    /\ Paying(p, t) /\ Climbing(t) /\ Touching(t) /\ Resumes(t, p) /\ Beating(t) /\ t.op # "avatar"
LEMMA ReadKeeps ==
  ASSUME MembersInv, NEW p \in Procs, NEW t, Turns(p), task'[p] = t, UNCHANGED core, Moves, t # None => Fits(p, t)
  PROVE  MembersInv'
<1>1. /\ user' = user /\ code' = code /\ token' = token /\ session' = session /\ watch' = watch /\ position' = position
      /\ plan' = plan /\ period' = period /\ wallet' = wallet /\ level' = level /\ picture' = picture
      /\ touched' = touched /\ locked' = locked /\ clock' = clock /\ doors' = doors /\ requests' \in {requests, requests + 1}
  BY DEF core, Moves
<1>2. clock \in Nat /\ requests \in Nat /\ requests' \in Nat /\ requests <= requests'
  BY <1>1 DEF MembersInv, Accounts
<1>3. RowsKept
  BY <1>1, <1>2 DEF RowsKept, MembersInv, Accounts
<1>4. Accounts'
  BY <1>1, <1>3, AccountsKept DEF MembersInv, Fits
<1>5. Tokens'
  BY <1>1, TokensKept DEF MembersInv, Fits
<1>6. Signing'
  BY <1>1, SigningKept DEF MembersInv, Fits, SameNames
<1>7. Shopping'
  BY <1>1, ShoppingKept DEF MembersInv, Fits
<1>8. Ranks'
  BY <1>1, RanksKept DEF MembersInv, Fits, Ranks
<1>9. Touches'
  BY <1>1, <1>2, TouchesKept DEF MembersInv, Fits
<1>10. Watches'
  BY <1>1, WatchesKept DEF MembersInv, Fits
<1>11. Pictures'
  BY <1>1, <1>2, PicturesKept DEF MembersInv, Fits, SameAvatars
<1> QED
  BY <1>4, <1>5, <1>6, <1>7, <1>8, <1>9, <1>10, <1>11 DEF MembersInv

\* Whatever else a step is about, it keeps all this.
LEMMA AsideKeeps ==
  ASSUME MembersInv, NEW p \in Procs, Aside(p)
  PROVE  MembersInv'
<1>1. PICK t : t = task'[p]
  OBVIOUS
<1>2. Turns(p) /\ UNCHANGED core /\ Moves /\ (t # None => Plain(t))
  BY <1>1 DEF Aside
<1>3. ASSUME t # None PROVE Fits(p, t)
  <2>1. Plain(t)
    BY <1>2, <1>3
  <2>2. Placed(doors, t) /\ Carries(DOMAIN user, t) /\ Resolving(user, t)
    BY <2>1 DEF Plain, Subjects, Junctions, Placed, Carries, Resolving
  <2>3. Refreshing(token, t) /\ ~Succeeds(t) /\ Paying(p, t) /\ Climbing(t) /\ Beating(t) /\ t.op # "avatar"
    BY <2>1 DEF Plain, Subjects, Refreshing, Succeeds, Paying, Climbing, Beating
  <2>4. Touching(t) /\ Resumes(t, p)
    BY <2>1 DEF Plain, Subjects, Junctions, Touching, Resumes
  <2> QED
    BY <2>2, <2>3, <2>4 DEF Fits
<1> QED
  BY <1>1, <1>2, <1>3, ReadKeeps

\* A request that ends by reading.
LEMMA EndKeeps ==
  ASSUME MembersInv, NEW p \in Procs, End(p), Reads
  PROVE  MembersInv'
BY EndAside, AsideKeeps, AccountsTyped DEF MembersInv

\* A sign-in that goes on.
LEMMA EntryFits ==
  ASSUME NEW p \in Procs, NEW t, t.op \in {"register", "login", "verify", "google", "code"}, t.at # "presence",
         Placed(doors, t), Carries(DOMAIN user, t), Resolving(user, t)
  PROVE  Fits(p, t)
<1>1. Refreshing(token, t) /\ ~Succeeds(t) /\ Paying(p, t) /\ Climbing(t) /\ Beating(t) /\ t.op # "avatar"
  BY DEF Refreshing, Succeeds, Paying, Climbing, Beating
<1>2. Touching(t) /\ Resumes(t, p)
  BY DEF Touching, Resumes
<1> QED
  BY <1>1, <1>2 DEF Fits

\* A request that is let in, and one that reads and goes on.
LEMMA AskKeeps ==
  ASSUME MembersInv, NEW p \in Procs, NEW t, Ask(p, t), Fits(p, t)
  PROVE  MembersInv'
<1>1. Turns(p) /\ task'[p] = t
  BY ProceedTurns, AccountsTyped DEF Ask, MembersInv
<1>2. UNCHANGED core /\ Moves
  BY DEF Ask, Enter, Moves, core, identity, traces, shop, office
<1> QED
  BY <1>1, <1>2, ReadKeeps
LEMMA ProceedKeeps ==
  ASSUME MembersInv, NEW p \in Procs, NEW t, Proceed(p, t), Reads, Fits(p, t)
  PROVE  MembersInv'
<1>1. Turns(p) /\ task'[p] = t
  BY ProceedTurns, AccountsTyped DEF MembersInv
<1>2. UNCHANGED core /\ Moves
  BY DEF Reads, Goes, Moves, core, identity, traces, shop, office
<1> QED
  BY <1>1, <1>2, ReadKeeps

-----------------------------------------------------------------------------
(* Steps that read: signing in *)

LEMMA AskSignInKeeps ==
  ASSUME MembersInv, NEW p \in Procs,
         \/ \E b \in Bases, n \in 1 .. 2, c \in Clients : AskRegister(p, <<b, n>>, c)
         \/ \E u \in Users, c \in Clients : AskLogin(p, u, c)
         \/ \E phone \in Phones : AskCode(p, phone)
         \/ \E phone \in Phones, right, password \in BOOLEAN, c \in Clients : AskVerify(p, phone, right, password, c)
         \/ \E g \in Identities, c \in Clients : AskGoogle(p, g, c)
  PROVE  MembersInv'
<1>1. ASSUME NEW b \in Bases, NEW n \in 1 .. 2, NEW c \in Clients, AskRegister(p, <<b, n>>, c) PROVE MembersInv'
  <2>1. PICK name : name = <<b, n>>
    OBVIOUS
  <2>2. PICK t : t = [Idle EXCEPT !.op = "register", !.at = "create", !.name = name, !.client = c]
    OBVIOUS
  <2>3. DOMAIN t = Fields /\ t.op = "register" /\ t.at = "create" /\ t.name = name
    BY <2>2, IdleShape DEF Fields
  <2>4. Ask(p, t) /\ "register" \in doors
    BY <1>1, <2>1, <2>2, <2>3 DEF AskRegister, Ask, Enter
  <2>5. name \in STRING \X Nat
    BY <2>1, IdentitiesStay DEF Bases
  <2>6. Placed(doors, t) /\ Carries(DOMAIN user, t) /\ Resolving(user, t)
    BY <2>3, <2>4, <2>5 DEF Placed, Carries, Resolving
  <2> QED
    BY <2>3, <2>4, <2>6, EntryFits, AskKeeps
<1>2. ASSUME NEW u \in Users, NEW c \in Clients, AskLogin(p, u, c) PROVE MembersInv'
  <2>2. PICK t : t = [Idle EXCEPT !.op = "login", !.at = "issue", !.user = u, !.client = c]
    OBVIOUS
  <2>3. DOMAIN t = Fields /\ t.op = "login" /\ t.at = "issue" /\ t.user = u /\ t.client = c
    BY <2>2, IdleShape DEF Fields
  <2>4. Ask(p, t) /\ "login" \in doors
    BY <1>2, <2>2, <2>3 DEF AskLogin, Ask, Enter
  <2>6. Placed(doors, t) /\ Carries(DOMAIN user, t) /\ Resolving(user, t)
    BY <2>3, <2>4 DEF Placed, Carries, Resolving, Users
  <2> QED
    BY <2>3, <2>4, <2>6, EntryFits, AskKeeps
<1>3. ASSUME NEW phone \in Phones, AskCode(p, phone) PROVE MembersInv'
  <2>2. PICK t : t = [Idle EXCEPT !.op = "code", !.at = "count", !.phone = phone]
    OBVIOUS
  <2>3. DOMAIN t = Fields /\ t.op = "code" /\ t.at = "count" /\ t.phone = phone
    BY <2>2, IdleShape DEF Fields
  <2>4. Ask(p, t) /\ "code" \in doors
    BY <1>3, <2>2, <2>3 DEF AskCode, Ask, Enter
  <2>6. Placed(doors, t) /\ Carries(DOMAIN user, t) /\ Resolving(user, t)
    BY <2>3, <2>4 DEF Placed, Carries, Resolving
  <2> QED
    BY <2>3, <2>4, <2>6, EntryFits, AskKeeps
<1>4. ASSUME NEW phone \in Phones, NEW right \in BOOLEAN, NEW password \in BOOLEAN, NEW c \in Clients,
             AskVerify(p, phone, right, password, c)
      PROVE  MembersInv'
  <2>0. PICK r : r = Latest(Open(phone))
    OBVIOUS
  <2>1. PICK at : at = (IF right THEN "consume" ELSE "attempt")
    OBVIOUS
  <2>2. PICK t : t = [Idle EXCEPT !.op = "verify", !.at = at, !.row = r, !.phone = phone, !.flag = password, !.client = c]
    OBVIOUS
  <2>3. DOMAIN t = Fields /\ t.op = "verify" /\ t.at = at /\ t.phone = phone /\ t.client = c
    BY <2>2, IdleShape DEF Fields
  <2>4. Ask(p, t) /\ "verify" \in doors
    BY <1>4, <2>0, <2>1, <2>2, <2>3 DEF AskVerify, Ask, Enter
  <2>6. Placed(doors, t) /\ Carries(DOMAIN user, t) /\ Resolving(user, t)
    BY <2>1, <2>3, <2>4 DEF Placed, Carries, Resolving
  <2> QED
    BY <2>1, <2>3, <2>4, <2>6, EntryFits, AskKeeps
<1>5. ASSUME NEW g \in Identities, NEW c \in Clients, AskGoogle(p, g, c) PROVE MembersInv'
  <2>2. PICK t : t = [Idle EXCEPT !.op = "google", !.at = "find", !.google = g, !.client = c, !.n = 1, !.second = Len(user)]
    OBVIOUS
  <2>3. DOMAIN t = Fields /\ t.op = "google" /\ t.at = "find" /\ t.google = g /\ t.client = c /\ t.n = 1 /\ t.second = Len(user)
    BY <2>2, IdleShape DEF Fields
  <2>4. Ask(p, t) /\ "google" \in doors
    BY <1>5, <2>2, <2>3 DEF AskGoogle, Ask, Enter
  <2>5. Len(user) \in Nat
    BY DEF MembersInv, Accounts
  <2>6. Placed(doors, t) /\ Carries(DOMAIN user, t) /\ Resolving(user, t)
    BY <2>3, <2>4, <2>5 DEF Placed, Carries, Resolving
  <2> QED
    BY <2>3, <2>4, <2>6, EntryFits, AskKeeps
<1> QED
  BY <1>1, <1>2, <1>3, <1>4, <1>5

\* A sign-in takes a step that only reads.
LEMMA EntryKeeps ==
  ASSUME MembersInv, NEW p \in Procs, task[p] # None, task[p].op \in {"register", "login", "verify", "google", "code"},
         NEW t, DOMAIN t = Fields, t.op = task[p].op, t.client = task[p].client, t.phone = task[p].phone,
         t.google = task[p].google, t.at \notin {"presence", "session"},
         t.at \in {"issue", "gate", "link"} => t.user \in DOMAIN user,
         t.at = "issue" => task[p].op # "code",
         t.at = "gate" => task[p].op \in {"verify", "google"},
         t.at = "collided" => task[p].op = "google",
         task[p].op = "register" => t.name = task[p].name,
         task[p].op = "google" /\ t.at = "name" => t.row \in Nat,
         task[p].op = "google" /\ t.at = "create" => t.name \in STRING \X Nat,
         Resolving(user, t), Proceed(p, t), Reads
  PROVE  MembersInv'
<1>1. Placed(doors, task[p]) /\ Carries(DOMAIN user, task[p])
  BY DEF MembersInv, Accounts
<1>2. Placed(doors, t)
  BY <1>1 DEF Placed
<1>3. Carries(DOMAIN user, t)
  BY <1>1 DEF Carries
<1> QED
  BY <1>2, <1>3, EntryFits, ProceedKeeps

\* The steps of a code by telephone.
LEMMA PhoneReads ==
  ASSUME MembersInv, NEW p \in Procs, CountCodes(p) \/ FindPhone(p)
  PROVE  MembersInv'
<1>1. PICK t0 : t0 = task[p]
  OBVIOUS
<1>2. CASE CountCodes(p)
  <2>1. At(p, "code", "count") /\ Reads /\ (End(p) \/ Proceed(p, [t0 EXCEPT !.at = "create"]))
    BY <1>1, <1>2 DEF CountCodes, Goto
  <2>2. DOMAIN t0 = Fields /\ task[p] # None /\ t0.op = "code"
    BY <1>1, <2>1 DEF At, MembersInv, Accounts, Placed
  <2>3. PICK t : t = [t0 EXCEPT !.at = "create"]
    OBVIOUS
  <2>4. DOMAIN t = Fields /\ t.op = "code" /\ t.at = "create" /\ t.phone = t0.phone /\ t.client = t0.client /\ t.google = t0.google
    BY <2>2, <2>3 DEF Fields
  <2>5. Resolving(user, t)
    BY <2>4 DEF Resolving
  <2> QED
    BY <1>1, <2>1, <2>2, <2>3, <2>4, <2>5, EntryKeeps, EndKeeps
<1>3. CASE FindPhone(p)
  <2>1. At(p, "verify", "find") /\ Reads
    BY <1>3 DEF FindPhone
  <2>2. DOMAIN t0 = Fields /\ task[p] # None /\ t0.op = "verify"
    BY <1>1, <2>1 DEF At, MembersInv, Accounts, Placed
  <2>3. ASSUME NEW u \in Having("phone", task[p].phone), Proceed(p, [t0 EXCEPT !.at = "gate", !.user = u, !.active = user[u].active])
        PROVE  MembersInv'
    <3>1. PICK t, a : a = user[u].active /\ t = [t0 EXCEPT !.at = "gate", !.user = u, !.active = a]
      OBVIOUS
    <3>2. /\ DOMAIN t = Fields /\ t.op = "verify" /\ t.at = "gate" /\ t.phone = t0.phone /\ t.client = t0.client /\ t.google = t0.google
          /\ t.user = u
      BY <2>2, <3>1 DEF Fields
    <3>3. Resolving(user, t) /\ u \in DOMAIN user
      BY <3>2 DEF Resolving, Having, Users
    <3> QED
      BY <1>1, <2>1, <2>2, <2>3, <3>1, <3>2, <3>3, EntryKeeps
  <2>4. ASSUME Proceed(p, [t0 EXCEPT !.at = "create"])
        PROVE  MembersInv'
    <3>1. PICK t : t = [t0 EXCEPT !.at = "create"]
      OBVIOUS
    <3>2. DOMAIN t = Fields /\ t.op = "verify" /\ t.at = "create" /\ t.phone = t0.phone /\ t.client = t0.client /\ t.google = t0.google
      BY <2>2, <3>1 DEF Fields
    <3>3. Resolving(user, t)
      BY <3>2 DEF Resolving
    <3> QED
      BY <1>1, <2>1, <2>2, <2>4, <3>1, <3>2, <3>3, EntryKeeps
  <2> QED
    BY <1>1, <1>3, <2>1, <2>3, <2>4, EndKeeps DEF FindPhone, Goto
<1> QED
  BY <1>2, <1>3

\* Whoever may sign in gets a token next.
LEMMA GateKeeps ==
  ASSUME MembersInv, NEW p \in Procs, Gate(p)
  PROVE  MembersInv'
<1>1. PICK t0 : t0 = task[p]
  OBVIOUS
<1>2. Stands(p, "gate") /\ Reads /\ (End(p) \/ Proceed(p, [t0 EXCEPT !.at = "issue"]))
  BY <1>1 DEF Gate, Goto
<1>3. DOMAIN t0 = Fields /\ task[p] # None /\ t0.op \in {"verify", "google"} /\ t0.user \in DOMAIN user
  BY <1>1, <1>2 DEF Stands, MembersInv, Accounts, Placed, Carries
<1>4. PICK t : t = [t0 EXCEPT !.at = "issue"]
  OBVIOUS
<1>5. /\ DOMAIN t = Fields /\ t.op = t0.op /\ t.at = "issue" /\ t.phone = t0.phone /\ t.client = t0.client /\ t.google = t0.google
      /\ t.user = t0.user
  BY <1>3, <1>4 DEF Fields
<1>6. Resolving(user, t)
  BY <1>5 DEF Resolving
<1> QED
  BY <1>1, <1>2, <1>3, <1>4, <1>5, <1>6, EntryKeeps, EndKeeps

\* The steps of a sign-in with Google.
LEMMA GoogleReads ==
  ASSUME MembersInv, NEW p \in Procs, FindGoogle(p) \/ FindEmail(p) \/ PickUsername(p)
  PROVE  MembersInv'
<1>1. PICK t0 : t0 = task[p]
  OBVIOUS
<1>2. DOMAIN t0 = Fields /\ task[p] # None /\ t0.op = "google" /\ Reads /\ t0.at \in {"find", "email", "name"} /\ t0.google \in Identities
  BY <1>1 DEF FindGoogle, FindEmail, PickUsername, At, MembersInv, Accounts, Placed, Carries
<1>3. t0.second \in Nat /\ t0.n \in Nat /\ Len(user) + 1 >= t0.second + t0.n /\ Len(user) \in Nat
  <2>1. Resolving(user, t0)
    BY <1>1, <1>2 DEF MembersInv, Signing
  <2> QED
    BY <1>2, <2>1 DEF Resolving, MembersInv, Accounts
<1>4. CASE FindGoogle(p)
  <2>1. ASSUME NEW u \in Having("google", task[p].google.id),
               Proceed(p, [t0 EXCEPT !.at = "gate", !.user = u, !.active = user[u].active])
        PROVE  MembersInv'
    <3>1. PICK t, a : a = user[u].active /\ t = [t0 EXCEPT !.at = "gate", !.user = u, !.active = a]
      OBVIOUS
    <3>2. /\ DOMAIN t = Fields /\ t.op = "google" /\ t.at = "gate" /\ t.phone = t0.phone /\ t.client = t0.client /\ t.google = t0.google
          /\ t.user = u
      BY <1>2, <3>1 DEF Fields
    <3>3. Resolving(user, t) /\ u \in DOMAIN user
      BY <3>2 DEF Resolving, Having, Users
    <3> QED
      BY <1>1, <1>2, <2>1, <3>1, <3>2, <3>3, EntryKeeps
  <2>2. ASSUME Having("google", task[p].google.id) = {}, Proceed(p, [t0 EXCEPT !.at = "email"])
        PROVE  MembersInv'
    <3>1. PICK t : t = [t0 EXCEPT !.at = "email"]
      OBVIOUS
    <3>2. /\ DOMAIN t = Fields /\ t.op = "google" /\ t.at = "email" /\ t.phone = t0.phone /\ t.client = t0.client /\ t.google = t0.google
          /\ t.second = t0.second /\ t.n = t0.n
      BY <1>2, <3>1 DEF Fields
    <3>3. \A u \in DOMAIN user : user[u].google # t0.google.id
      BY <1>1, <2>2 DEF Having, Users
    <3>4. Resolving(user, t)
      BY <1>3, <3>2, <3>3 DEF Resolving, Linked
    <3> QED
      BY <1>1, <1>2, <2>2, <3>1, <3>2, <3>4, EntryKeeps
  <2> QED
    BY <1>1, <1>4, <2>1, <2>2 DEF FindGoogle, Goto
<1>5. CASE FindEmail(p)
  <2>0. t0.at = "email" /\ (Joined(user, t0) \/ Linked(user, t0.google))
    <3>1. t0.at = "email"
      BY <1>1, <1>5 DEF FindEmail, At
    <3>2. Resolving(user, t0)
      BY <1>1, <1>2 DEF MembersInv, Signing
    <3> QED
      BY <1>2, <3>1, <3>2 DEF Resolving
  <2>1. ASSUME NEW u \in Having("email", task[p].google.email), Proceed(p, [t0 EXCEPT !.at = "link", !.user = u])
        PROVE  MembersInv'
    <3>1. PICK t : t = [t0 EXCEPT !.at = "link", !.user = u]
      OBVIOUS
    <3>2. /\ DOMAIN t = Fields /\ t.op = "google" /\ t.at = "link" /\ t.phone = t0.phone /\ t.client = t0.client /\ t.google = t0.google
          /\ t.user = u /\ t.second = t0.second /\ t.n = t0.n
      BY <1>2, <3>1 DEF Fields
    <3>3. u \in DOMAIN user /\ user[u].email = t0.google.email
      BY <1>1, <2>1 DEF Having, Users
    <3>4. Resolving(user, t)
      BY <1>3, <2>0, <3>2, <3>3 DEF Resolving, Joined
    <3> QED
      BY <1>1, <1>2, <2>1, <3>1, <3>2, <3>3, <3>4, EntryKeeps
  <2>2. ASSUME Having("email", task[p].google.email) = {}, Proceed(p, [t0 EXCEPT !.at = "name", !.row = 1])
        PROVE  MembersInv'
    <3>1. PICK t : t = [t0 EXCEPT !.at = "name", !.row = 1]
      OBVIOUS
    <3>2. /\ DOMAIN t = Fields /\ t.op = "google" /\ t.at = "name" /\ t.phone = t0.phone /\ t.client = t0.client /\ t.google = t0.google
          /\ t.row = 1 /\ t.second = t0.second /\ t.n = t0.n
      BY <1>2, <3>1 DEF Fields
    <3>3. \A u \in DOMAIN user : user[u].email # t0.google.email
      BY <1>1, <2>2 DEF Having, Users
    <3>4. Joined(user, t) \/ Unknown(user, t.google)
      BY <2>0, <3>2, <3>3 DEF Joined, Linked, Unknown
    <3>5. Resolving(user, t)
      BY <1>3, <3>2, <3>4 DEF Resolving
    <3> QED
      <4>1. Proceed(p, t) /\ t.row \in Nat /\ task[p] = t0
        BY <1>1, <2>2, <3>1, <3>2
      <4> QED
        BY <1>2, <3>2, <3>5, <4>1, EntryKeeps
  <2> QED
    BY <1>1, <1>2, <1>5, <2>1, <2>2, EndKeeps DEF FindEmail
<1>6. CASE PickUsername(p)
  <2>0. t0.at = "name" /\ t0.row \in Nat /\ (Joined(user, t0) \/ Unknown(user, t0.google))
    <3>1. t0.at = "name"
      BY <1>1, <1>6 DEF PickUsername, At
    <3>2. Resolving(user, t0) /\ Carries(DOMAIN user, t0)
      BY <1>1, <1>2 DEF MembersInv, Signing, Accounts
    <3> QED
      BY <1>2, <3>1, <3>2 DEF Resolving, Carries
  <2>1. PICK name : name = <<task[p].google.base, task[p].row>>
    OBVIOUS
  <2>2. name \in STRING \X Nat
    BY <1>1, <1>2, <2>0, <2>1, IdentitiesStay
  <2>3. ASSUME Proceed(p, [t0 EXCEPT !.row = @ + 1])
        PROVE  MembersInv'
    <3>1. PICK t : t = [t0 EXCEPT !.row = @ + 1]
      OBVIOUS
    <3>2. /\ DOMAIN t = Fields /\ t.op = "google" /\ t.at = "name" /\ t.phone = t0.phone /\ t.client = t0.client /\ t.google = t0.google
          /\ t.row = t0.row + 1 /\ t.second = t0.second /\ t.n = t0.n
      BY <1>2, <2>0, <3>1 DEF Fields
    <3>3. Resolving(user, t)
      BY <1>3, <2>0, <3>2 DEF Resolving, Joined
    <3> QED
      <4>1. Proceed(p, t) /\ t.row \in Nat /\ task[p] = t0
        BY <1>1, <2>0, <2>3, <3>1, <3>2
      <4> QED
        BY <1>2, <3>2, <3>3, <4>1, EntryKeeps
  <2>4. ASSUME ~Named(name), Proceed(p, [t0 EXCEPT !.at = "create", !.name = name])
        PROVE  MembersInv'
    <3>1. PICK t : t = [t0 EXCEPT !.at = "create", !.name = name]
      OBVIOUS
    <3>2. /\ DOMAIN t = Fields /\ t.op = "google" /\ t.at = "create" /\ t.phone = t0.phone /\ t.client = t0.client /\ t.google = t0.google
          /\ t.name = name /\ t.second = t0.second /\ t.n = t0.n
      BY <1>2, <3>1 DEF Fields
    <3>3. \A u \in DOMAIN user : user[u].username # name
      BY <2>4 DEF Named, Users
    <3>4. Resolving(user, t)
      BY <1>3, <2>0, <3>2, <3>3 DEF Resolving, Joined
    <3> QED
      BY <1>1, <1>2, <2>2, <2>4, <3>1, <3>2, <3>4, EntryKeeps
  <2> QED
    BY <1>1, <1>6, <2>1, <2>3, <2>4 DEF PickUsername
<1> QED
  BY <1>4, <1>5, <1>6

\* A collision: somebody joined since the pass began.
LEMMA TryAgainKeeps ==
  ASSUME MembersInv, NEW p \in Procs, TryAgain(p), task[p] # None, task[p].op = "google", task[p].at \in {"link", "create"},
         Joined(user, task[p])
  PROVE  MembersInv'
<1>1. PICK t0 : t0 = task[p]
  OBVIOUS
<1>2. DOMAIN t0 = Fields /\ t0.op = "google" /\ Reads /\ t0.google \in Identities
  BY <1>1 DEF TryAgain, MembersInv, Accounts, Placed, Carries
<1>3. t0.second \in Nat /\ t0.n \in Nat /\ Len(user) >= t0.second + t0.n /\ Len(user) \in Nat
  <2>1. Resolving(user, t0)
    BY <1>1 DEF MembersInv, Signing
  <2> QED
    BY <1>1, <1>2, <2>1 DEF Resolving, Joined, MembersInv, Accounts
<1>4. CASE t0.n >= MaxTries
  <2>1. PICK t : t = [t0 EXCEPT !.at = "collided"]
    OBVIOUS
  <2>2. /\ DOMAIN t = Fields /\ t.op = "google" /\ t.at = "collided" /\ t.phone = t0.phone /\ t.client = t0.client /\ t.google = t0.google
        /\ t.second = t0.second
    BY <1>2, <2>1 DEF Fields
  <2>3. Resolving(user, t)
    BY <1>3, <1>4, <2>2, TriesAreCounted DEF Resolving
  <2>4. Proceed(p, t)
    BY <1>1, <1>4, <2>1 DEF TryAgain
  <2> QED
    BY <1>1, <1>2, <2>2, <2>3, <2>4, EntryKeeps
<1>5. CASE ~(t0.n >= MaxTries)
  <2>1. PICK t : t = [t0 EXCEPT !.at = "find", !.n = @ + 1]
    OBVIOUS
  <2>2. /\ DOMAIN t = Fields /\ t.op = "google" /\ t.at = "find" /\ t.phone = t0.phone /\ t.client = t0.client /\ t.google = t0.google
        /\ t.second = t0.second /\ t.n = t0.n + 1
    BY <1>2, <2>1 DEF Fields
  <2>3. Resolving(user, t)
    BY <1>3, <2>2 DEF Resolving
  <2>4. Proceed(p, t)
    BY <1>1, <1>5, <2>1 DEF TryAgain
  <2> QED
    BY <1>1, <1>2, <2>2, <2>3, <2>4, EntryKeeps
<1> QED
  BY <1>4, <1>5

-----------------------------------------------------------------------------
(* Steps that read: the others *)

\* A member asks for a new token, for a heartbeat to be noted, for a plan; staff ask for a level.
LEMMA AskOthersKeeps ==
  ASSUME MembersInv, NEW p \in Procs,
         \/ \E t \in DOMAIN token : AskRefresh(p, t)
         \/ \E u \in Users, m \in Movies, to \in {1, 5}, c \in Clients : AskBeat(p, u, m, to, c)
         \/ \E u \in Users, i \in DOMAIN plan : AskSubscribe(p, u, i)
         \/ \E l \in Rows(level) \cup {None}, name \in LevelNames, threshold \in {0, 2} : AskLevel(p, l, name, threshold, TRUE)
  PROVE  MembersInv'
<1>1. ASSUME NEW r \in DOMAIN token, AskRefresh(p, r) PROVE MembersInv'
  <2>1. PICK u : u = token[r].user
    OBVIOUS
  <2>2. PICK t : t = [Idle EXCEPT !.op = "refresh", !.at = "spend", !.row = r, !.user = u]
    OBVIOUS
  <2>3. DOMAIN t = Fields /\ t.op = "refresh" /\ t.at = "spend" /\ t.row = r /\ t.user = u
    BY <2>2, IdleShape DEF Fields
  <2>4. Ask(p, t) /\ "refresh" \in doors
    BY <1>1, <2>1, <2>2, <2>3 DEF AskRefresh, Ask, Enter
  <2>5. u \in DOMAIN user
    BY <2>1 DEF MembersInv, Tokens
  <2>6. Placed(doors, t) /\ Carries(DOMAIN user, t) /\ Refreshing(token, t) /\ ~Succeeds(t)
    BY <2>1, <2>3, <2>4, <2>5 DEF Placed, Carries, Refreshing, Succeeds
  <2>7. Resolving(user, t) /\ Paying(p, t) /\ Climbing(t) /\ Touching(t) /\ Resumes(t, p) /\ Beating(t) /\ t.op # "avatar"
    BY <2>3 DEF Resolving, Paying, Climbing, Touching, Resumes, Beating
  <2> QED
    BY <2>4, <2>6, <2>7, AskKeeps DEF Fits
<1>2. ASSUME NEW u \in Users, NEW m \in Movies, NEW to \in {1, 5}, NEW c \in Clients, AskBeat(p, u, m, to, c) PROVE MembersInv'
  <2>1. PICK w : w = (IF <<u, m>> \in DOMAIN position THEN position[u, m] ELSE 0)
    OBVIOUS
  <2>2. PICK t : t = [Idle EXCEPT !.op = "beat", !.at = "write", !.user = u, !.row = m, !.n = to, !.client = c, !.when = w]
    OBVIOUS
  <2>3. DOMAIN t = Fields /\ t.op = "beat" /\ t.at = "write" /\ t.when = w /\ t.n = to
    BY <2>2, IdleShape DEF Fields
  <2>4. Ask(p, t) /\ "beat" \in doors
    BY <1>2, <2>1, <2>2, <2>3 DEF AskBeat, Ask, Enter
  <2>5. w \in Nat
    BY <2>1 DEF MembersInv, Watches
  <2>6. Placed(doors, t) /\ Carries(DOMAIN user, t) /\ Beating(t)
    BY <2>3, <2>4, <2>5 DEF Placed, Carries, Beating
  <2>7. /\ Resolving(user, t) /\ Paying(p, t) /\ Climbing(t) /\ Touching(t) /\ Resumes(t, p) /\ t.op # "avatar"
        /\ Refreshing(token, t) /\ ~Succeeds(t)
    BY <2>3 DEF Resolving, Paying, Climbing, Touching, Resumes, Refreshing, Succeeds
  <2> QED
    BY <2>4, <2>6, <2>7, AskKeeps DEF Fits
<1>3. ASSUME NEW u \in Users, NEW i \in DOMAIN plan, AskSubscribe(p, u, i) PROVE MembersInv'
  <2>1. PICK pl : pl = plan[i]
    OBVIOUS
  <2>2. PICK t : t = [Idle EXCEPT !.op = "subscribe", !.at = "debit", !.user = u, !.row = i, !.query = pl]
    OBVIOUS
  <2>3. DOMAIN t = Fields /\ t.op = "subscribe" /\ t.at = "debit" /\ t.user = u /\ t.query = pl
    BY <2>2, IdleShape DEF Fields
  <2>4. Ask(p, t) /\ "subscribe" \in doors
    BY <1>3, <2>1, <2>2, <2>3 DEF AskSubscribe, Ask, Enter
  <2>5. pl.price \in Nat /\ pl.days \in Nat
    <3>1. pl \in Plan
      BY <2>1 DEF MembersInv, Shopping
    <3> QED
      BY <3>1 DEF Plan
  <2>6. Placed(doors, t) /\ Carries(DOMAIN user, t) /\ Paying(p, t)
    BY <2>3, <2>4, <2>5 DEF Placed, Carries, Paying, Users
  <2>7. /\ Resolving(user, t) /\ Beating(t) /\ Climbing(t) /\ Touching(t) /\ Resumes(t, p) /\ t.op # "avatar"
        /\ Refreshing(token, t) /\ ~Succeeds(t)
    BY <2>3 DEF Resolving, Beating, Climbing, Touching, Resumes, Refreshing, Succeeds
  <2> QED
    BY <2>4, <2>6, <2>7, AskKeeps DEF Fits
<1>4. ASSUME NEW l, NEW name \in LevelNames, NEW threshold \in {0, 2}, AskLevel(p, l, name, threshold, TRUE) PROVE MembersInv'
  <2>1. PICK q : q = [name |-> name, threshold |-> threshold, enabled |-> TRUE]
    OBVIOUS
  <2>2. PICK t : t = [Idle EXCEPT !.op = "level", !.at = "threshold", !.row = l, !.query = q]
    OBVIOUS
  <2>3. DOMAIN t = Fields /\ t.op = "level" /\ t.at = "threshold" /\ t.query = q
    BY <2>2, IdleShape DEF Fields
  <2>4. Ask(p, t) /\ "level" \in doors
    BY <1>4, <2>1, <2>2, <2>3 DEF AskLevel, Ask, Enter
  <2>5. q.name \in STRING /\ q.threshold \in Nat /\ q.enabled \in BOOLEAN
    <3>1. name \in STRING
      BY NamesAreStrings
    <3>2. q.name = name /\ q.threshold \in Nat /\ q.enabled = TRUE
      BY <2>1
    <3> QED
      BY <3>1, <3>2
  <2>6. Placed(doors, t) /\ Carries(DOMAIN user, t) /\ Climbing(t)
    BY <2>3, <2>4, <2>5 DEF Placed, Carries, Climbing
  <2>7. /\ Resolving(user, t) /\ Beating(t) /\ Paying(p, t) /\ Touching(t) /\ Resumes(t, p) /\ t.op # "avatar"
        /\ Refreshing(token, t) /\ ~Succeeds(t)
    BY <2>3 DEF Resolving, Beating, Paying, Touching, Resumes, Refreshing, Succeeds
  <2> QED
    BY <2>4, <2>6, <2>7, AskKeeps DEF Fits
<1> QED
  BY <1>1, <1>2, <1>3, <1>4

\* A touch has found its session.
LEMMA FindSessionKeeps ==
  ASSUME MembersInv, NEW p \in Procs, FindSession(p)
  PROVE  MembersInv'
<1>1. PICK t0 : t0 = task[p]
  OBVIOUS
<1>2. /\ DOMAIN t0 = Fields /\ task[p] # None /\ t0.op = "touch" /\ Reads
      /\ Placed(doors, t0) /\ Carries(DOMAIN user, t0) /\ Touching(t0)
  BY <1>1 DEF FindSession, At, MembersInv, Accounts, Placed, Touches
<1>3. PICK r : Proceed(p, [t0 EXCEPT !.at = "write", !.row = r])
  BY <1>1 DEF FindSession
<1>4. PICK t : t = [t0 EXCEPT !.at = "write", !.row = r]
  OBVIOUS
<1>5. DOMAIN t = Fields /\ t.op = "touch" /\ t.at = "write" /\ t.user = t0.user /\ t.when = t0.when /\ t.client = t0.client
  BY <1>2, <1>4 DEF Fields
<1>6. Placed(doors, t) /\ Carries(DOMAIN user, t)
  BY <1>2, <1>5 DEF Placed, Carries
<1>7. Touching(t) /\ Resumes(t, p)
  BY <1>1, <1>2, <1>5 DEF Touching, Resumes
<1>8. Resolving(user, t) /\ Beating(t) /\ Paying(p, t) /\ Climbing(t) /\ t.op # "avatar" /\ Refreshing(token, t) /\ ~Succeeds(t)
  BY <1>5 DEF Resolving, Beating, Paying, Climbing, Refreshing, Succeeds
<1> QED
  BY <1>2, <1>3, <1>4, <1>6, <1>7, <1>8, ProceedKeeps DEF Fits

\* What a purchase leaves.
LEMMA PeriodType ==
  ASSUME MembersInv, NEW i \in DOMAIN period
  PROVE  period[i].user \in Nat /\ period[i].amount \in Nat /\ period[i].days \in Nat /\ period[i].until \in Nat
<1>1. period[i] \in Period
  BY DEF MembersInv, Shopping
<1> QED
  BY <1>1 DEF Period

\* What is bought starts after everything that was.
LEMMA BaseCovers ==
  ASSUME MembersInv, NEW u
  PROVE  Base(u) \in Nat /\ \A i \in DOMAIN period : period[i].user = u => period[i].until <= Base(u)
<1>1. period \in Seq(Period) /\ clock \in Nat
  BY DEF MembersInv, Shopping, Accounts
<1>2. \A i \in DOMAIN period : period[i].until \in Nat
  BY PeriodType
<1>3. CASE Current(u) = {}
  <2>1. Base(u) = clock
    BY <1>3 DEF Base
  <2> QED
    BY <1>1, <1>2, <1>3, <2>1 DEF Current
<1>4. CASE Current(u) # {}
  <2>1. Current(u) \subseteq DOMAIN period /\ \A i \in Current(u) : period[i].until > clock
    BY DEF Current
  <2>2. IsFiniteSet(Current(u))
    BY <1>1, <2>1, RowsFinite
  <2> DEFINE f == [i \in Current(u) |-> period[i].until]
  <2>3. \A i \in Current(u) : f[i] \in Nat
    BY <1>2, <2>1
  <2>4. PICK x \in Current(u) : \A i \in Current(u) : f[i] <= f[x]
    <3> HIDE DEF f
    <3> QED
      BY <1>4, <2>2, <2>3, Highest
  <2>5. \E e \in {period[i].until : i \in Current(u)} : \A i \in Current(u) : period[i].until <= e
    BY <2>4
  <2>6. /\ Ends(u) \in {period[i].until : i \in Current(u)}
        /\ \A i \in Current(u) : period[i].until <= Ends(u)
    BY <2>5 DEF Ends
  <2>7. Base(u) = Ends(u)
    BY <1>4 DEF Base
  <2>8. Base(u) \in Nat /\ Base(u) > clock
    BY <1>1, <1>2, <2>1, <2>6, <2>7
  <2>9. ASSUME NEW i \in DOMAIN period, period[i].user = u PROVE period[i].until <= Base(u)
    <3>1. CASE i \in Current(u)
      BY <2>6, <2>7, <3>1
    <3>2. CASE i \notin Current(u)
      <4>1. ~(period[i].until > clock)
        BY <2>9, <3>2 DEF Current
      <4> QED
        BY <1>1, <1>2, <2>8, <4>1
    <3> QED
      BY <3>1, <3>2
  <2> QED
    BY <2>8, <2>9
<1> QED
  BY <1>3, <1>4

\* A purchase has read how long the member's days last.
LEMMA ReadCurrentKeeps ==
  ASSUME MembersInv, NEW p \in Procs, ReadCurrent(p)
  PROVE  MembersInv'
<1>1. PICK t0 : t0 = task[p]
  OBVIOUS
<1>2. /\ DOMAIN t0 = Fields /\ task[p] # None /\ t0.op = "subscribe" /\ t0.at = "current" /\ Reads
      /\ Placed(doors, t0) /\ Carries(DOMAIN user, t0) /\ Paying(p, t0)
  BY <1>1 DEF ReadCurrent, At, MembersInv, Accounts, Placed, Shopping
<1>3. PICK w : w = Base(t0.user) + t0.query.days
  OBVIOUS
<1>4. PICK t : t = [t0 EXCEPT !.at = "commit", !.when = w]
  OBVIOUS
<1>5. Proceed(p, t)
  BY <1>1, <1>3, <1>4 DEF ReadCurrent
<1>6. DOMAIN t = Fields /\ t.op = "subscribe" /\ t.at = "commit" /\ t.user = t0.user /\ t.when = w /\ t.query = t0.query
  BY <1>2, <1>4 DEF Fields
<1>7. Placed(doors, t) /\ Carries(DOMAIN user, t)
  BY <1>2, <1>6 DEF Placed, Carries
<1>8. Paying(p, t)
  <2>1. /\ t0.user \in DOMAIN user /\ t0.query.price \in Nat /\ t0.query.days \in Nat
        /\ locked[t0.user] = p /\ wallet[t0.user] >= t0.query.price
    BY <1>2 DEF Paying
  <2>2. PICK b : b = Base(t0.user)
    OBVIOUS
  <2>3. b \in Nat /\ \A i \in DOMAIN period : period[i].user = t0.user => period[i].until <= b
    BY <2>2, BaseCovers
  <2>4. \A i \in DOMAIN period : period[i].until \in Nat
    BY PeriodType
  <2>5. w \in Nat /\ \A i \in DOMAIN period : period[i].user = t0.user => w >= period[i].until + t0.query.days
    BY <1>3, <2>1, <2>2, <2>3, <2>4
  <2> QED
    BY <1>6, <2>1, <2>5 DEF Paying
<1>9. /\ Resolving(user, t) /\ Beating(t) /\ Touching(t) /\ Resumes(t, p) /\ Climbing(t) /\ t.op # "avatar"
      /\ Refreshing(token, t) /\ ~Succeeds(t)
  BY <1>6 DEF Resolving, Beating, Touching, Resumes, Climbing, Refreshing, Succeeds
<1> QED
  BY <1>2, <1>5, <1>7, <1>8, <1>9, ProceedKeeps DEF Fits

\* A new level comes after the others.
LEMMA NextOrderType ==
  ASSUME MembersInv
  PROVE  NextOrder \in Nat
<1>1. level \in Seq(Level \cup {None})
  BY DEF MembersInv, Ranks
<1>2. ASSUME NEW l \in Rows(level) PROVE level[l].order \in Nat
  <2>1. level[l] \in Level
    BY <1>1 DEF Rows
  <2> QED
    BY <2>1 DEF Level
<1>3. CASE Rows(level) = {}
  BY <1>3 DEF NextOrder
<1>4. CASE Rows(level) # {}
  <2>1. Rows(level) \subseteq DOMAIN level
    BY DEF Rows
  <2>2. IsFiniteSet(Rows(level))
    BY <1>1, <2>1, RowsFinite
  <2> DEFINE f == [l \in Rows(level) |-> level[l].order]
  <2>3. \A l \in Rows(level) : f[l] \in Nat
    BY <1>2
  <2>4. PICK x \in Rows(level) : \A l \in Rows(level) : f[l] <= f[x]
    <3> HIDE DEF f
    <3> QED
      BY <1>4, <2>2, <2>3, Highest
  <2>5. \E i \in Rows(level) : \A j \in Rows(level) : level[j].order <= level[i].order
    BY <2>4
  <2>6. PICK a : a = (CHOOSE i \in Rows(level) : \A j \in Rows(level) : level[j].order <= level[i].order)
    OBVIOUS
  <2>7. a \in Rows(level)
    BY <2>5, <2>6
  <2>8. NextOrder = 1 + level[a].order
    BY <1>4, <2>6 DEF NextOrder, Above
  <2> QED
    BY <1>2, <2>7, <2>8
<1> QED
  BY <1>3, <1>4

LEMMA CheckThresholdKeeps ==
  ASSUME MembersInv, NEW p \in Procs, CheckThreshold(p)
  PROVE  MembersInv'
<1>1. PICK t0 : t0 = task[p]
  OBVIOUS
<1>2. /\ DOMAIN t0 = Fields /\ task[p] # None /\ t0.op = "level" /\ Reads /\ Placed(doors, t0) /\ Climbing(t0)
  BY <1>1 DEF CheckThreshold, At, MembersInv, Accounts, Placed, Ranks
<1>3. PICK n : n = NextOrder
  OBVIOUS
<1>4. PICK t : t = [t0 EXCEPT !.at = "write", !.n = n]
  OBVIOUS
<1>5. DOMAIN t = Fields /\ t.op = "level" /\ t.at = "write" /\ t.query = t0.query /\ t.n = n
  BY <1>2, <1>4 DEF Fields
<1>6. n \in Nat
  BY <1>3, NextOrderType
<1>7. Placed(doors, t) /\ Carries(DOMAIN user, t) /\ Climbing(t)
  BY <1>2, <1>5, <1>6 DEF Placed, Carries, Climbing
<1>8. /\ Resolving(user, t) /\ Beating(t) /\ Touching(t) /\ Resumes(t, p) /\ Paying(p, t) /\ t.op # "avatar"
      /\ Refreshing(token, t) /\ ~Succeeds(t)
  BY <1>5 DEF Resolving, Beating, Touching, Resumes, Paying, Refreshing, Succeeds
<1>9. Fits(p, t)
  BY <1>7, <1>8 DEF Fits
<1>10. CASE End(p)
  BY <1>2, <1>10, EndKeeps
<1>11. CASE Proceed(p, t)
  BY <1>2, <1>9, <1>11, ProceedKeeps
<1> QED
  BY <1>1, <1>3, <1>4, <1>10, <1>11 DEF CheckThreshold

-----------------------------------------------------------------------------
(* Steps that write: what is left alone *)

\* What leaves each of the subjects as it was, for a request that goes on with t.
TokensRest(t) == token' = token /\ (t # None => Refreshing(token, t) /\ ~Succeeds(t))
SigningRests(t) == SameNames /\ (t # None => Resolving(user', t))
ShoppingRests(p, t) ==
    UNCHANGED <<plan, period, wallet, locked>> /\ DOMAIN user' = DOMAIN user /\ (t # None => Paying(p, t))
RanksRest(t) == level' = level /\ (t # None => Climbing(t))
TouchesRest(p, t) ==
    UNCHANGED <<session, touched>> /\ DOMAIN user' = DOMAIN user /\ clock' = clock /\ (t # None => Touching(t) /\ Resumes(t, p))
WatchesRest(t) == UNCHANGED <<position, watch>> /\ (t # None => Beating(t))
PicturesRest(t) == picture' = picture /\ SameAvatars /\ requests <= requests' /\ (t # None => t.op # "avatar")

LEMMA WriteKeeps ==
  ASSUME MembersInv, NEW p \in Procs, NEW t, Turns(p), task'[p] = t,
         RowsKept, t # None => Placed(doors, t) /\ Carries(DOMAIN user', t),
         Tokens' \/ TokensRest(t),
         Signing' \/ SigningRests(t),
         Shopping' \/ ShoppingRests(p, t),
         Ranks' \/ RanksRest(t),
         Touches' \/ TouchesRest(p, t),
         Watches' \/ WatchesRest(t),
         Pictures' \/ PicturesRest(t)
  PROVE  MembersInv'
<1>1. clock \in Nat /\ requests \in Nat /\ requests' \in Nat
  BY DEF RowsKept, MembersInv, Accounts
<1>2. Accounts'
  BY AccountsKept DEF MembersInv
<1>3. Tokens'
  <2>1. DOMAIN user \subseteq DOMAIN user'
    BY DEF RowsKept
  <2> QED
    BY <2>1, TokensKept DEF MembersInv, TokensRest
<1>4. Signing'
  BY SigningKept DEF MembersInv, SigningRests
<1>5. Shopping'
  BY ShoppingKept DEF MembersInv, ShoppingRests
<1>6. Ranks'
  BY RanksKept DEF MembersInv, RanksRest, Ranks
<1>7. Touches'
  BY <1>1, TouchesKept DEF MembersInv, TouchesRest
<1>8. Watches'
  BY WatchesKept DEF MembersInv, WatchesRest
<1>9. Pictures'
  BY <1>1, PicturesKept DEF MembersInv, PicturesRest
<1> QED
  BY <1>2, <1>3, <1>4, <1>5, <1>6, <1>7, <1>8, <1>9 DEF MembersInv

\* Accounts with other particulars, but the same names and ways in.
SameKeys ==
    /\ user' \in Seq(User) /\ Len(user') = Len(user)
    /\ \A u \in DOMAIN user : /\ user'[u].username = user[u].username /\ user'[u].phone = user[u].phone
                              /\ user'[u].email = user[u].email /\ user'[u].google = user[u].google
LEMMA SameKeysApart ==
  ASSUME MembersInv, SameKeys
  PROVE  DOMAIN user' = DOMAIN user /\ Apart(user') /\ SameNames
<1>1. user \in Seq(User) /\ Apart(user)
  BY DEF MembersInv, Accounts
<1>2. DOMAIN user' = DOMAIN user
  BY <1>1 DEF SameKeys
<1>3. ASSUME NEW u \in DOMAIN user', NEW v \in DOMAIN user', Clash(user'[u], user'[v]) PROVE u = v
  <2>1. Clash(user[u], user[v])
    <3>1. /\ user'[u].username = user[u].username /\ user'[u].phone = user[u].phone
          /\ user'[u].email = user[u].email /\ user'[u].google = user[u].google
          /\ user'[v].username = user[v].username /\ user'[v].phone = user[v].phone
          /\ user'[v].email = user[v].email /\ user'[v].google = user[v].google
      BY <1>2 DEF SameKeys
    <3> QED
      BY <1>3, <3>1 DEF Clash
  <2> QED
    BY <1>1, <1>2, <2>1 DEF Apart
<1> QED
  BY <1>2, <1>3 DEF Apart, SameNames, SameKeys

LEMMA RowPut ==
  ASSUME NEW T, NEW s \in Seq(T), NEW i \in DOMAIN s, NEW x \in T
  PROVE  /\ [s EXCEPT ![i] = x] \in Seq(T) /\ Len([s EXCEPT ![i] = x]) = Len(s) /\ DOMAIN [s EXCEPT ![i] = x] = DOMAIN s
         /\ \A j \in DOMAIN s : [s EXCEPT ![i] = x][j] = IF j = i THEN x ELSE s[j]
<1>1. PICK r : r = [s EXCEPT ![i] = x]
  OBVIOUS
<1>2. r \in Seq(T) /\ Len(r) = Len(s) /\ DOMAIN r = DOMAIN s /\ \A j \in DOMAIN s : r[j] = IF j = i THEN x ELSE s[j]
  BY <1>1
<1> QED
  BY <1>1, <1>2

\* A request of one query, and one that ends by writing.
LEMMA OnceTurns ==
  ASSUME MembersInv, NEW p \in Procs, NEW op, Once(p, op)
  PROVE  /\ Turns(p) /\ task'[p] = None /\ clock' = clock /\ doors' = doors
         /\ requests \in Nat /\ requests' \in Nat /\ requests <= requests'
<1>1. Turns(p) /\ task'[p] = None
  BY DisturbTurns, AccountsTyped DEF Once, MembersInv
<1>2. requests \in Nat /\ requests' = requests + 1
  BY DEF Once, Enter, MembersInv, Accounts
<1> QED
  BY <1>1, <1>2 DEF Once, Enter
LEMMA GoesTurns ==
  ASSUME MembersInv, NEW p \in Procs, NEW t, Disturb(p, t), Goes
  PROVE  /\ Turns(p) /\ task'[p] = t /\ clock' = clock /\ doors' = doors
         /\ requests \in Nat /\ requests' \in Nat /\ requests <= requests'
<1>1. Turns(p) /\ task'[p] = t
  BY DisturbTurns, AccountsTyped DEF MembersInv
<1>2. requests \in Nat /\ requests' = requests
  BY DEF Goes, MembersInv, Accounts
<1> QED
  BY <1>1, <1>2 DEF Goes

-----------------------------------------------------------------------------
(* Steps that write: an account's particulars, codes *)

LEMMA SetStatusKeeps ==
  ASSUME MembersInv, NEW p \in Procs, NEW u \in Users, NEW active \in BOOLEAN, SetStatus(p, u, active)
  PROVE  MembersInv'
<1>1. PICK r : r = [user[u] EXCEPT !.active = active]
  OBVIOUS
<1>2. user \in Seq(User) /\ u \in DOMAIN user
  BY DEF MembersInv, Accounts, Users
<1>3. user[u] \in User
  BY <1>2
<1>4. /\ r \in User /\ r.username = user[u].username /\ r.phone = user[u].phone /\ r.email = user[u].email
      /\ r.google = user[u].google /\ r.avatar = user[u].avatar
  BY <1>1, <1>3 DEF User
<1>5. user' = [user EXCEPT ![u] = r]
  BY <1>1 DEF SetStatus
<1>6. SameKeys /\ SameAvatars
  BY <1>2, <1>4, <1>5, RowPut DEF SameKeys, SameAvatars
<1>7. /\ Turns(p) /\ task'[p] = None /\ clock' = clock /\ doors' = doors
      /\ requests \in Nat /\ requests' \in Nat /\ requests <= requests'
  BY OnceTurns DEF SetStatus
<1>8. /\ code' = code /\ token' = token /\ session' = session /\ watch' = watch /\ position' = position
      /\ plan' = plan /\ period' = period /\ wallet' = wallet /\ level' = level /\ picture' = picture
      /\ touched' = touched /\ locked' = locked
  BY DEF SetStatus, traces, shop, office
<1>9. DOMAIN user' = DOMAIN user /\ SameNames /\ Apart(user')
  BY <1>6, SameKeysApart
<1>10. RowsKept
  BY <1>6, <1>7, <1>8, <1>9 DEF RowsKept, SameKeys, MembersInv, Accounts
<1>11. /\ TokensRest(None) /\ SigningRests(None) /\ ShoppingRests(p, None) /\ RanksRest(None) /\ TouchesRest(p, None)
       /\ WatchesRest(None) /\ PicturesRest(None)
  BY <1>6, <1>7, <1>8, <1>9 DEF TokensRest, SigningRests, ShoppingRests, RanksRest, TouchesRest, WatchesRest, PicturesRest
<1> QED
  BY <1>7, <1>10, <1>11, WriteKeeps

\* A step that writes codes only, of a request that goes on with nothing or with the same sign-in.
LEMMA CodesKeep ==
  ASSUME MembersInv, NEW p \in Procs, NEW t, Disturb(p, t), Goes,
         code' \in Seq(Code), \A c \in DOMAIN code' : code'[c].consumed <= 1,
         UNCHANGED <<user, token, traces, shop, office>>,
         t # None => t.op = "verify" /\ t.at = "find" /\ Placed(doors, t) /\ Carries(DOMAIN user, t)
  PROVE  MembersInv'
<1>1. /\ Turns(p) /\ task'[p] = t /\ clock' = clock /\ doors' = doors
      /\ requests \in Nat /\ requests' \in Nat /\ requests <= requests'
  BY GoesTurns
<1>2. /\ user' = user /\ token' = token /\ session' = session /\ watch' = watch /\ position' = position
      /\ plan' = plan /\ period' = period /\ wallet' = wallet /\ level' = level /\ picture' = picture
      /\ touched' = touched /\ locked' = locked
  BY DEF traces, shop, office
<1>3. RowsKept
  BY <1>1, <1>2 DEF RowsKept, MembersInv, Accounts
<1>4. t # None => /\ Refreshing(token, t) /\ ~Succeeds(t) /\ Resolving(user, t) /\ Paying(p, t) /\ Climbing(t)
                  /\ Touching(t) /\ Resumes(t, p) /\ Beating(t) /\ t.op # "avatar"
  BY DEF Refreshing, Succeeds, Resolving, Paying, Climbing, Touching, Resumes, Beating
<1>5. SameNames /\ SameAvatars
  BY <1>2 DEF SameNames, SameAvatars
<1>6. /\ TokensRest(t) /\ SigningRests(t) /\ ShoppingRests(p, t) /\ RanksRest(t) /\ TouchesRest(p, t)
      /\ WatchesRest(t) /\ PicturesRest(t)
  BY <1>1, <1>2, <1>4, <1>5 DEF TokensRest, SigningRests, ShoppingRests, RanksRest, TouchesRest, WatchesRest, PicturesRest
<1>7. t # None => Placed(doors, t) /\ Carries(DOMAIN user', t)
  BY <1>2
<1> QED
  BY <1>1, <1>3, <1>6, <1>7, WriteKeeps

LEMMA CreateCodeKeeps ==
  ASSUME MembersInv, NEW p \in Procs, CreateCode(p)
  PROVE  MembersInv'
<1>1. Placed(doors, task[p]) /\ Carries(DOMAIN user, task[p]) /\ task[p].op = "code"
  BY DEF CreateCode, At, MembersInv, Accounts
<1>2. task[p].phone \in Phones
  BY <1>1 DEF Carries
<1>3. code \in Seq(Code) /\ clock \in Nat /\ \A c \in DOMAIN code : code[c].consumed <= 1
  BY DEF MembersInv, Accounts
<1>4. PICK r : r = [phone |-> task[p].phone, at |-> clock, attempts |-> 0, consumed |-> 0]
  OBVIOUS
<1>5. r \in Code /\ r.consumed = 0
  BY <1>2, <1>3, <1>4 DEF Code
<1>6. code' = Append(code, r)
  BY <1>4 DEF CreateCode
<1>7. code' \in Seq(Code) /\ \A c \in DOMAIN code' : code'[c].consumed <= 1
  BY <1>3, <1>5, <1>6
<1> QED
  BY <1>7, CodesKeep DEF CreateCode

LEMMA CountAttemptKeeps ==
  ASSUME MembersInv, NEW p \in Procs, CountAttempt(p)
  PROVE  MembersInv'
<1>1. code \in Seq(Code) /\ \A c \in DOMAIN code : code[c].consumed <= 1
  BY DEF MembersInv, Accounts
<1>2. PICK c : c = task[p].row
  OBVIOUS
<1>3. PICK r : r = [code[c] EXCEPT !.attempts = @ + 1]
  OBVIOUS
<1>4. code' = [code EXCEPT ![c] = r]
  BY <1>2, <1>3 DEF CountAttempt
<1>5. CASE c \in DOMAIN code
  <2>1. code[c] \in Code
    BY <1>1, <1>5
  <2>2. r \in Code /\ r.consumed = code[c].consumed
    BY <1>3, <2>1 DEF Code
  <2>3. code' \in Seq(Code) /\ \A d \in DOMAIN code' : code'[d].consumed <= 1
    BY <1>1, <1>4, <1>5, <2>2, RowPut
  <2> QED
    BY <2>3, CodesKeep DEF CountAttempt
<1>6. CASE c \notin DOMAIN code
  <2>1. code' = code
    BY <1>1, <1>4, <1>6
  <2> QED
    BY <1>1, <2>1, CodesKeep DEF CountAttempt
<1> QED
  BY <1>5, <1>6

LEMMA ConsumeKeeps ==
  ASSUME MembersInv, NEW p \in Procs, Consume(p)
  PROVE  MembersInv'
<1>1. code \in Seq(Code) /\ \A c \in DOMAIN code : code[c].consumed <= 1
  BY DEF MembersInv, Accounts
<1>2. PICK c : c = task[p].row
  OBVIOUS
<1>3. PICK t0 : t0 = task[p]
  OBVIOUS
<1>4. PICK t : t = [t0 EXCEPT !.at = "find"]
  OBVIOUS
<1>5. DOMAIN t0 = Fields /\ t0.op = "verify" /\ Placed(doors, t0) /\ Carries(DOMAIN user, t0)
  BY <1>3 DEF Consume, At, MembersInv, Accounts, Placed
<1>6. DOMAIN t = Fields /\ t.op = "verify" /\ t.at = "find" /\ t.client = t0.client /\ t.phone = t0.phone
  BY <1>4, <1>5 DEF Fields
<1>7. Placed(doors, t) /\ Carries(DOMAIN user, t)
  BY <1>5, <1>6 DEF Placed, Carries
<1>8. CASE End(p) /\ Reads
  BY <1>8, EndKeeps
<1>9. CASE /\ code[task[p].row].consumed = 0
           /\ code' = [code EXCEPT ![task[p].row].consumed = @ + 1]
           /\ Disturb(p, [task[p] EXCEPT !.at = "find"])
           /\ UNCHANGED <<user, token, traces, shop, office>> /\ Goes
  <2>1. PICK r : r = [code[c] EXCEPT !.consumed = @ + 1]
    OBVIOUS
  <2>2. code' = [code EXCEPT ![c] = r] /\ code[c].consumed = 0 /\ Disturb(p, t)
    BY <1>2, <1>3, <1>4, <1>9, <2>1
  <2>3. code' \in Seq(Code) /\ \A d \in DOMAIN code' : code'[d].consumed <= 1
    <3>1. CASE c \in DOMAIN code
      <4>1. code[c] \in Code
        BY <1>1, <3>1
      <4>2. r \in Code /\ r.consumed = 1
        BY <2>1, <2>2, <4>1 DEF Code
      <4> QED
        BY <1>1, <2>2, <3>1, <4>2, RowPut
    <3>2. CASE c \notin DOMAIN code
      <4>1. code' = code
        BY <1>1, <2>2, <3>2
      <4> QED
        BY <1>1, <4>1
    <3> QED
      BY <3>1, <3>2
  <2> QED
    BY <1>6, <1>7, <1>9, <2>2, <2>3, CodesKeep
<1> QED
  BY <1>8, <1>9 DEF Consume

-----------------------------------------------------------------------------
(* Steps that write: refresh tokens *)

\* A step that writes tokens only.
LEMMA TokenStepKeeps ==
  ASSUME MembersInv, NEW p \in Procs, NEW t, Turns(p), task'[p] = t, clock' = clock, doors' = doors,
         requests \in Nat, requests' \in Nat, requests <= requests',
         UNCHANGED <<user, code, traces, shop, office>>, Tokens',
         t # None => /\ Placed(doors, t) /\ Carries(DOMAIN user, t) /\ Touching(t)
                     /\ t.op \in {"refresh", "login", "verify", "google"} /\ t.at \in {"issue", "session"}
  PROVE  MembersInv'
<1>1. /\ user' = user /\ code' = code /\ session' = session /\ watch' = watch /\ position' = position
      /\ plan' = plan /\ period' = period /\ wallet' = wallet /\ level' = level /\ picture' = picture
      /\ touched' = touched /\ locked' = locked
  BY DEF traces, shop, office
<1>2. RowsKept
  BY <1>1 DEF RowsKept, MembersInv, Accounts
<1>3. t # None => Resolving(user, t) /\ Paying(p, t) /\ Climbing(t) /\ Resumes(t, p) /\ Beating(t) /\ t.op # "avatar"
  BY DEF Resolving, Paying, Climbing, Resumes, Beating
<1>4. SameNames /\ SameAvatars
  BY <1>1 DEF SameNames, SameAvatars
<1>5. /\ SigningRests(t) /\ ShoppingRests(p, t) /\ RanksRest(t) /\ TouchesRest(p, t) /\ WatchesRest(t) /\ PicturesRest(t)
  BY <1>1, <1>3, <1>4 DEF SigningRests, ShoppingRests, RanksRest, TouchesRest, WatchesRest, PicturesRest
<1>6. t # None => Placed(doors, t) /\ Carries(DOMAIN user', t)
  BY <1>1
<1> QED
  BY <1>2, <1>5, <1>6, WriteKeeps

\* Tokens are revoked, and nothing else.
Revoking ==
    /\ token' \in Seq(Token) /\ DOMAIN token' = DOMAIN token
    /\ \A r \in DOMAIN token : token'[r].user = token[r].user /\ token'[r].from = token[r].from
    /\ \A r \in DOMAIN token : token[r].revoked => token'[r].revoked
LEMMA RevokingKeeps ==
  ASSUME Tokens, Revoking, NEW p \in Procs, NEW t, Turns(p), task'[p] = t, user' = user,
         t # None => Refreshing(token', t),
         t # None /\ Succeeds(t) => t.row \in DOMAIN token /\ ~token[t.row].revoked
  PROVE  Tokens'
<1>1. SpentOnce(token')
  BY DEF Tokens, Revoking, SpentOnce
<1>2. ASSUME NEW q \in Procs, task'[q] # None, q # p
      PROVE  /\ Refreshing(token', task'[q])
             /\ Succeeds(task'[q]) => task[q] # None /\ Succeeds(task[q]) /\ task'[q].row = task[q].row /\ token[task[q].row].revoked
  <2>1. task[q] # None /\ Kept(task[q], task'[q])
    BY <1>2 DEF Turns
  <2>2. Refreshing(token, task[q])
    BY <2>1 DEF Tokens
  <2>3. Refreshing(token', task[q])
    BY <2>2 DEF Refreshing, Revoking
  <2> QED
    BY <2>1, <2>2, <2>3, KeptFits DEF Kept, Succeeds, Refreshing
<1>3. \A q \in Procs : task'[q] # None => Refreshing(token', task'[q])
  BY <1>2
<1>4. \A q, r \in Procs : /\ q # r /\ task'[q] # None /\ task'[r] # None /\ Succeeds(task'[q]) /\ Succeeds(task'[r])
                          => task'[q].row # task'[r].row
  BY <1>2 DEF Tokens
<1>5. \A r \in DOMAIN token' : token'[r].user \in DOMAIN user' /\ (token'[r].from # None => token'[r].from \in DOMAIN token')
  BY DEF Tokens, Revoking
<1> QED
  BY <1>1, <1>3, <1>4, <1>5 DEF Tokens, Revoking

LEMMA RevokeOne ==
  ASSUME Tokens, NEW r \in DOMAIN token, NEW x, x = [token[r] EXCEPT !.revoked = TRUE], token' = [token EXCEPT ![r] = x]
  PROVE  Revoking /\ token'[r].revoked
<1>1. token \in Seq(Token)
  BY DEF Tokens
<1>2. token[r] \in Token
  BY <1>1
<1>3. x \in Token
  BY <1>2 DEF Token
<1>4. x.revoked /\ x.user = token[r].user /\ x.from = token[r].from
  BY <1>2 DEF Token
<1>5. token' \in Seq(Token)
  BY <1>1, <1>3, RowPut
<1>6. DOMAIN token' = DOMAIN token /\ token'[r] = x /\ \A j \in DOMAIN token : j # r => token'[j] = token[j]
  OBVIOUS
<1>7. \A j \in DOMAIN token : token'[j].user = token[j].user /\ token'[j].from = token[j].from
  BY <1>4, <1>6
<1>8. \A j \in DOMAIN token : token[j].revoked => token'[j].revoked
  BY <1>4, <1>6, Zenon
<1> QED
  BY <1>4, <1>5, <1>6, <1>7, <1>8 DEF Revoking

LEMMA LogoutKeeps ==
  ASSUME MembersInv, NEW p \in Procs, NEW r \in DOMAIN token, Logout(p, r)
  PROVE  MembersInv'
<1>1. /\ Turns(p) /\ task'[p] = None /\ clock' = clock /\ doors' = doors
      /\ requests \in Nat /\ requests' \in Nat /\ requests <= requests'
  BY OnceTurns DEF Logout
<1>2. Revoking
  <2>1. PICK x : x = [token[r] EXCEPT !.revoked = TRUE]
    OBVIOUS
  <2>2. token' = [token EXCEPT ![r] = x]
    BY <2>1 DEF Logout
  <2> QED
    BY <2>1, <2>2, RevokeOne DEF MembersInv
<1>3. UNCHANGED <<user, code, traces, shop, office>>
  BY DEF Logout
<1>4. Tokens'
  BY <1>1, <1>2, <1>3, RevokingKeeps DEF MembersInv
<1> QED
  BY <1>1, <1>3, <1>4, TokenStepKeeps

LEMMA SpendKeeps ==
  ASSUME MembersInv, NEW p \in Procs, Spend(p)
  PROVE  MembersInv'
<1>1. PICK t0 : t0 = task[p]
  OBVIOUS
<1>2. PICK r : r = t0.row
  OBVIOUS
<1>3. PICK t : t = [t0 EXCEPT !.at = "issue"]
  OBVIOUS
<1>4. DOMAIN t0 = Fields /\ t0.op = "refresh" /\ Placed(doors, t0) /\ Carries(DOMAIN user, t0) /\ Refreshing(token, t0)
  BY <1>1 DEF Spend, At, MembersInv, Accounts, Tokens, Placed
<1>5. DOMAIN t = Fields /\ t.op = "refresh" /\ t.at = "issue" /\ t.user = t0.user /\ t.row = r
  BY <1>2, <1>3, <1>4 DEF Fields
<1>6. Placed(doors, t) /\ Carries(DOMAIN user, t) /\ Touching(t)
  BY <1>4, <1>5 DEF Placed, Carries, Touching
<1>7. CASE End(p) /\ Reads
  BY <1>7, EndKeeps
<1>8. CASE /\ ~token[r].revoked
           /\ token' = [token EXCEPT ![r].revoked = TRUE]
           /\ Disturb(p, t)
           /\ UNCHANGED <<user, code, traces, shop, office>> /\ Goes
  <2>1. r \in DOMAIN token /\ t0.user = token[r].user
    BY <1>2, <1>4 DEF Refreshing
  <2>2. Revoking /\ token'[r].revoked
    <3>1. PICK x : x = [token[r] EXCEPT !.revoked = TRUE]
      OBVIOUS
    <3>2. token' = [token EXCEPT ![r] = x]
      BY <1>8, <3>1
    <3> QED
      BY <2>1, <3>1, <3>2, RevokeOne DEF MembersInv
  <2>3. \A s \in DOMAIN token : token[s].from # r
    BY <1>8, <2>1 DEF MembersInv, Tokens, SpentOnce
  <2>4. Refreshing(token', t)
    BY <1>5, <2>1, <2>2, <2>3 DEF Refreshing, Revoking
  <2>5. /\ Turns(p) /\ task'[p] = t /\ clock' = clock /\ doors' = doors
        /\ requests \in Nat /\ requests' \in Nat /\ requests <= requests'
    BY <1>8, GoesTurns
  <2>6. Tokens'
    BY <1>5, <1>8, <2>1, <2>2, <2>4, <2>5, RevokingKeeps DEF MembersInv
  <2> QED
    BY <1>5, <1>6, <1>8, <2>5, <2>6, TokenStepKeeps
<1> QED
  BY <1>1, <1>2, <1>3, <1>7, <1>8 DEF Spend

\* A token is issued, as a successor only by the request that spent the one before.
LEMMA IssuedTokens ==
  ASSUME Tokens, NEW p \in Procs, task[p] # None, NEW x \in Token, token' = Append(token, x), user' = user,
         x.user \in DOMAIN user,
         x.from # None => Succeeds(task[p]) /\ x.from = task[p].row /\ x.user = task[p].user,
         NEW t, Turns(p), task'[p] = t, t # None => t.op # "refresh"
  PROVE  Tokens'
<1>1. token \in Seq(Token) /\ SpentOnce(token) /\ Refreshing(token, task[p])
  BY DEF Tokens
<1>2. PICK n : n = Len(token) + 1
  OBVIOUS
<1>3. /\ token' \in Seq(Token) /\ DOMAIN token' = DOMAIN token \cup {n} /\ n \notin DOMAIN token /\ DOMAIN token' \subseteq Nat
      /\ token'[n] = x /\ \A r \in DOMAIN token : token'[r] = token[r]
  BY <1>1, <1>2
<1>4. x.from # None => /\ x.from \in DOMAIN token /\ token[x.from].user = x.user /\ token[x.from].revoked
                       /\ \A r \in DOMAIN token : token[r].from # x.from
  BY <1>1 DEF Refreshing, Succeeds
<1>5. \A r \in DOMAIN token' : token'[r].user \in DOMAIN user' /\ (token'[r].from # None => token'[r].from \in DOMAIN token')
  BY <1>3, <1>4 DEF Tokens
<1>6. ASSUME NEW a \in DOMAIN token', NEW s \in DOMAIN token', token'[a].from = s
      PROVE  /\ token'[s].revoked /\ token'[s].user = token'[a].user
             /\ \A r \in DOMAIN token' : token'[r].from = s => r = a
  <2>1. s # None
    BY <1>3, NoneIsNothing
  <2>2. CASE a = n
    <3>1. x.from = s /\ s \in DOMAIN token
      BY <1>3, <1>4, <1>6, <2>1, <2>2
    <3>2. token[s].revoked
      BY <1>4, <2>1, <3>1
    <3>3. token'[s] = token[s] /\ token[s].user = x.user /\ token'[a] = x
      BY <1>3, <1>4, <2>1, <2>2, <3>1
    <3>4. \A r \in DOMAIN token' : token'[r].from = s => r = a
      BY <1>3, <1>4, <2>1, <2>2, <3>1
    <3>5. token'[s].revoked
      BY <3>2, <3>3
    <3>6. token'[s].user = token'[a].user
      BY <3>3
    <3> QED
      BY <3>4, <3>5, <3>6
  <2>3. CASE a # n
    <3>1. a \in DOMAIN token /\ token[a].from = s /\ token'[a] = token[a]
      BY <1>3, <1>6, <2>3
    <3>2. s \in DOMAIN token
      BY <2>1, <3>1 DEF Tokens
    <3>3. /\ token[s].revoked /\ token[s].user = token[a].user
          /\ \A r \in DOMAIN token : token[r].from = s => r = a
      BY <1>1, <3>1, <3>2 DEF SpentOnce
    <3>4. token'[s] = token[s]
      BY <1>3, <3>2
    <3>5. \A r \in DOMAIN token' : token'[r].from = s => r = a
      BY <1>3, <1>4, <2>1, <3>1, <3>3
    <3>6. token'[s].revoked
      BY <3>3, <3>4
    <3>7. token'[s].user = token'[a].user
      BY <3>1, <3>3, <3>4
    <3> QED
      BY <3>5, <3>6, <3>7
  <2> QED
    BY <2>2, <2>3
<1>7. SpentOnce(token')
  BY <1>6 DEF SpentOnce
<1>8. ASSUME NEW q \in Procs, task'[q] # None, q # p
      PROVE  /\ Refreshing(token', task'[q])
             /\ Succeeds(task'[q]) => task[q] # None /\ Succeeds(task[q]) /\ task'[q].row = task[q].row
  <2>1. task[q] # None /\ Kept(task[q], task'[q])
    BY <1>8 DEF Turns
  <2>2. Refreshing(token, task[q]) /\ (Succeeds(task[q]) /\ Succeeds(task[p]) => task[q].row # task[p].row)
    BY <1>8, <2>1 DEF Tokens
  <2>3. Refreshing(token', task[q])
    <3>1. ASSUME task[q].op = "refresh" PROVE task[q].row \in DOMAIN token' /\ task[q].user = token'[task[q].row].user
      BY <1>3, <2>2, <3>1 DEF Refreshing
    <3>2. ASSUME task[q].op = "refresh", task[q].at = "issue"
          PROVE  token'[task[q].row].revoked /\ \A r \in DOMAIN token' : token'[r].from # task[q].row
      <4>1. /\ task[q].row \in DOMAIN token /\ token[task[q].row].revoked
            /\ \A r \in DOMAIN token : token[r].from # task[q].row
        BY <2>2, <3>2 DEF Refreshing
      <4>2. token'[task[q].row].revoked
        BY <1>3, <4>1
      <4>3. task[q].row # None
        BY <1>3, <4>1, NoneIsNothing
      <4>4. x.from # task[q].row
        BY <2>2, <3>2, <4>3 DEF Succeeds
      <4>5. \A r \in DOMAIN token' : token'[r].from # task[q].row
        BY <1>3, <4>1, <4>4
      <4> QED
        BY <4>2, <4>5
    <3> QED
      BY <3>1, <3>2 DEF Refreshing
  <2> QED
    BY <2>1, <2>3, KeptFits DEF Kept
<1>9. \A q \in Procs : task'[q] # None => Refreshing(token', task'[q])
  BY <1>8 DEF Refreshing
<1>10. \A q, r \in Procs : /\ q # r /\ task'[q] # None /\ task'[r] # None /\ Succeeds(task'[q]) /\ Succeeds(task'[r])
                           => task'[q].row # task'[r].row
  <2>1. ~(task'[p] # None /\ Succeeds(task'[p]))
    BY DEF Succeeds
  <2> QED
    BY <1>8, <2>1 DEF Tokens
<1> QED
  BY <1>3, <1>5, <1>7, <1>9, <1>10 DEF Tokens

LEMMA IssueKeeps ==
  ASSUME MembersInv, NEW p \in Procs, Issue(p)
  PROVE  MembersInv'
<1>1. PICK t0 : t0 = task[p]
  OBVIOUS
<1>2. PICK s : s = [t0 EXCEPT !.at = "session", !.when = clock]
  OBVIOUS
<1>3. PICK t : t = IF t0.op \in {"login", "verify", "google"} THEN s ELSE None
  OBVIOUS
<1>4. PICK f : f = IF t0.op = "refresh" THEN t0.row ELSE None
  OBVIOUS
<1>5. PICK x : x = [user |-> t0.user, revoked |-> FALSE, from |-> f, expires |-> clock + TokenTTL]
  OBVIOUS
<1>6. /\ DOMAIN t0 = Fields /\ t0.at = "issue" /\ t0.op \in {"register", "login", "verify", "google", "refresh"}
      /\ t0.user \in DOMAIN user /\ task[p] # None
      /\ Placed(doors, t0) /\ Carries(DOMAIN user, t0) /\ Refreshing(token, t0)
  BY <1>1 DEF Issue, Stands, MembersInv, Accounts, Tokens, Placed, Carries
<1>7. clock \in Nat /\ DOMAIN user \subseteq Nat /\ DOMAIN token \subseteq Nat
  BY DEF MembersInv, Accounts, Tokens
<1>8. token' = Append(token, x) /\ Disturb(p, t) /\ UNCHANGED <<user, code, traces, shop, office>> /\ Goes
  BY <1>1, <1>2, <1>3, <1>4, <1>5 DEF Issue
<1>9. f \in Nat \cup {None} /\ (f # None => Succeeds(t0) /\ f = t0.row)
  BY <1>4, <1>6, <1>7 DEF Refreshing, Succeeds
<1>10. x \in Token
  <2>1. t0.user \in Nat /\ clock + TokenTTL \in Nat
    BY <1>6, <1>7, RefreshLives
  <2> QED
    BY <1>5, <1>9, <2>1 DEF Token
<1>11. x.user = t0.user /\ x.from = f
  BY <1>5
<1>12. /\ DOMAIN s = Fields /\ s.op = t0.op /\ s.at = "session" /\ s.user = t0.user /\ s.when = clock /\ s.client = t0.client
       /\ s.phone = t0.phone /\ s.google = t0.google
  BY <1>2, <1>6 DEF Fields
<1>13. t # None => t = s /\ t0.op \in {"login", "verify", "google"}
  BY <1>3
<1>14. t # None => Placed(doors, t) /\ Carries(DOMAIN user, t) /\ Touching(t)
  BY <1>6, <1>7, <1>12, <1>13 DEF Placed, Carries, Touching
<1>15. /\ Turns(p) /\ task'[p] = t /\ clock' = clock /\ doors' = doors
       /\ requests \in Nat /\ requests' \in Nat /\ requests <= requests'
  BY <1>8, GoesTurns
<1>16. t # None => t.op \in {"login", "verify", "google"} /\ t.at = "session"
  BY <1>12, <1>13
<1>17. Tokens'
  BY <1>1, <1>6, <1>8, <1>9, <1>10, <1>11, <1>15, <1>16, IssuedTokens DEF MembersInv
<1> QED
  BY <1>8, <1>14, <1>15, <1>16, <1>17, TokenStepKeeps

-----------------------------------------------------------------------------
(* Steps that write: sessions and touches *)

\* Sign-ins are never forgotten, and a stamp is only changed by a sign-in.
LEMMA TouchesGo ==
  ASSUME Touches, NEW p \in Procs, NEW t, Turns(p), task'[p] = t, DOMAIN user' = DOMAIN user, DOMAIN touched' = DOMAIN user,
         clock' = clock, \A u : SignedIn(session, u) => SignedIn(session', u),
         \A u \in DOMAIN user : touched'[u] = touched[u] \/ SignedIn(session', u),
         t # None => Touching(t)' /\ Resumes(t, p)
  PROVE  Touches'
<1>1. ASSUME NEW q \in Procs, task'[q] # None, q # p
      PROVE  Touching(task[q])' /\ Resumes(task'[q], q)
  <2>1. task[q] # None /\ Kept(task[q], task'[q])
    BY <1>1 DEF Turns
  <2>2. Touching(task'[q])
    BY <2>1, KeptFits DEF Touches
  <2>3. Touching(task[q])'
    BY <2>2 DEF Touching
  <2> QED
    BY <2>1, <2>3 DEF Resumes, Kept
<1>2. \A q \in Procs : task'[q] # None => Touching(task[q])'
  BY <1>1 DEF Touching
<1>3. \A q \in Procs : task'[q] # None => Resumes(task'[q], q)
  BY <1>1
<1>4. OneTouchPerWindow'
  <2>1. \A u : (\A s \in DOMAIN session' : session'[s].user = u => ~session'[s].signIn)
               => (\A s \in DOMAIN session : session[s].user = u => ~session[s].signIn)
    BY DEF SignedIn
  <2> QED
    BY <1>3, <2>1 DEF Touches, OneTouchPerWindow, Resumes
<1> QED
  BY <1>2, <1>4 DEF Touches

\* A step that writes sessions only, of a request that is to write its presence next.
LEMMA SessionStepKeeps ==
  ASSUME MembersInv, NEW p \in Procs, NEW t, Disturb(p, t), Goes,
         session' \in Seq(Session), \A s \in DOMAIN session' : session'[s].user \in DOMAIN user,
         \A u : SignedIn(session, u) => SignedIn(session', u),
         UNCHANGED <<identity, shop, office, watch, position, touched>>,
         t.at = "presence", Placed(doors, t), Carries(DOMAIN user, t), Touching(t)', Resumes(t, p)
  PROVE  MembersInv'
<1>1. /\ Turns(p) /\ task'[p] = t /\ clock' = clock /\ doors' = doors
      /\ requests \in Nat /\ requests' \in Nat /\ requests <= requests'
  BY GoesTurns
<1>2. /\ user' = user /\ code' = code /\ token' = token /\ watch' = watch /\ position' = position
      /\ plan' = plan /\ period' = period /\ wallet' = wallet /\ level' = level /\ picture' = picture
      /\ touched' = touched /\ locked' = locked
  BY DEF identity, shop, office
<1>3. RowsKept
  BY <1>1, <1>2 DEF RowsKept, MembersInv, Accounts
<1>4. t.op \in {"login", "verify", "google", "touch"}
  BY DEF Placed
<1>5. Refreshing(token, t) /\ ~Succeeds(t) /\ Resolving(user, t) /\ Paying(p, t) /\ Climbing(t) /\ Beating(t) /\ t.op # "avatar"
  BY <1>4 DEF Refreshing, Succeeds, Resolving, Paying, Climbing, Beating
<1>6. SameNames /\ SameAvatars
  BY <1>2 DEF SameNames, SameAvatars
<1>7. TokensRest(t) /\ SigningRests(t) /\ ShoppingRests(p, t) /\ RanksRest(t) /\ WatchesRest(t) /\ PicturesRest(t)
  BY <1>1, <1>2, <1>5, <1>6 DEF TokensRest, SigningRests, ShoppingRests, RanksRest, WatchesRest, PicturesRest
<1>8. Touches'
  <2>1. DOMAIN touched' = DOMAIN user /\ DOMAIN user' = DOMAIN user
    BY <1>2 DEF MembersInv, Touches
  <2>2. \A u \in DOMAIN user : touched'[u] = touched[u]
    BY <1>2
  <2> QED
    BY <1>1, <2>1, <2>2, TouchesGo DEF MembersInv
<1>9. Carries(DOMAIN user', t)
  BY <1>2
<1> QED
  BY <1>1, <1>3, <1>7, <1>8, <1>9, WriteKeeps

LEMMA InsertSessionKeeps ==
  ASSUME MembersInv, NEW p \in Procs, InsertSession(p)
  PROVE  MembersInv'
<1>1. PICK t0 : t0 = task[p]
  OBVIOUS
<1>2. PICK t : t = [t0 EXCEPT !.at = "presence"]
  OBVIOUS
<1>3. PICK x : x = [user |-> t0.user, client |-> t0.client, at |-> t0.when, signIn |-> TRUE]
  OBVIOUS
<1>4. /\ DOMAIN t0 = Fields /\ t0.op \in {"login", "verify", "google"} /\ t0.user \in DOMAIN user /\ t0.when \in Nat
      /\ t0.client \in Clients /\ Placed(doors, t0) /\ Carries(DOMAIN user, t0)
  BY <1>1 DEF InsertSession, Stands, MembersInv, Accounts, Placed, Carries
<1>5. session \in Seq(Session) /\ DOMAIN user \subseteq Nat /\ \A s \in DOMAIN session : session[s].user \in DOMAIN user
  BY DEF MembersInv, Accounts
<1>6. session' = Append(session, x) /\ Disturb(p, t) /\ Goes /\ UNCHANGED <<identity, shop, office, watch, position, touched>>
  BY <1>1, <1>2, <1>3 DEF InsertSession, Wrote
<1>7. x \in Session /\ x.user = t0.user
  BY <1>3, <1>4, <1>5 DEF Session
<1>8. x.signIn
  BY <1>3
<1>9. PICK n : n = Len(session) + 1
  OBVIOUS
<1>10. /\ session' \in Seq(Session) /\ DOMAIN session' = DOMAIN session \cup {n} /\ session'[n] = x
       /\ \A s \in DOMAIN session : session'[s] = session[s]
  BY <1>5, <1>6, <1>7, <1>9
<1>11. \A s \in DOMAIN session' : session'[s].user \in DOMAIN user
  BY <1>4, <1>5, <1>7, <1>10
<1>12. (\A u : SignedIn(session, u) => SignedIn(session', u)) /\ SignedIn(session', t0.user)
  BY <1>7, <1>8, <1>10 DEF SignedIn
<1>13. DOMAIN t = Fields /\ t.op = t0.op /\ t.at = "presence" /\ t.user = t0.user /\ t.when = t0.when /\ t.client = t0.client
       /\ t.phone = t0.phone /\ t.google = t0.google
  BY <1>2, <1>4 DEF Fields
<1>14. Placed(doors, t) /\ Carries(DOMAIN user, t)
  BY <1>4, <1>13 DEF Placed, Carries
<1>15. Touching(t)' /\ Resumes(t, p)
  BY <1>4, <1>12, <1>13 DEF Touching, Resumes
<1> QED
  BY <1>6, <1>10, <1>11, <1>12, <1>13, <1>14, <1>15, SessionStepKeeps

LEMMA WriteSessionKeeps ==
  ASSUME MembersInv, NEW p \in Procs, WriteSession(p)
  PROVE  MembersInv'
<1>1. PICK t0 : t0 = task[p]
  OBVIOUS
<1>2. PICK t : t = [t0 EXCEPT !.at = "presence"]
  OBVIOUS
<1>3. /\ DOMAIN t0 = Fields /\ t0.op = "touch" /\ t0.user \in DOMAIN user /\ t0.when \in Nat /\ task[p] # None
      /\ t0.client \in Clients /\ Placed(doors, t0) /\ Carries(DOMAIN user, t0) /\ Touching(t0)
  BY <1>1 DEF WriteSession, At, MembersInv, Accounts, Placed, Carries, Touches
<1>4. session \in Seq(Session) /\ DOMAIN user \subseteq Nat /\ \A s \in DOMAIN session : session[s].user \in DOMAIN user
  BY DEF MembersInv, Accounts
<1>5. Disturb(p, t) /\ Goes /\ UNCHANGED <<identity, shop, office, watch, position, touched>>
  BY <1>1, <1>2 DEF WriteSession, Wrote
<1>6. DOMAIN t = Fields /\ t.op = "touch" /\ t.at = "presence" /\ t.user = t0.user /\ t.when = t0.when /\ t.client = t0.client
  BY <1>2, <1>3 DEF Fields
<1>7. Placed(doors, t) /\ Carries(DOMAIN user, t) /\ Touching(t) /\ Resumes(t, p)
  BY <1>1, <1>3, <1>6 DEF Placed, Carries, Touching, Resumes
<1>8. /\ session' \in Seq(Session) /\ \A s \in DOMAIN session' : session'[s].user \in DOMAIN user
      /\ \A u : SignedIn(session, u) => SignedIn(session', u)
  <2>1. CASE session' = Append(session, [user |-> t0.user, client |-> t0.client, at |-> t0.when, signIn |-> FALSE])
    <3>1. PICK x : x = [user |-> t0.user, client |-> t0.client, at |-> t0.when, signIn |-> FALSE]
      OBVIOUS
    <3>2. x \in Session /\ x.user = t0.user
      BY <1>3, <1>4, <3>1 DEF Session
    <3>3. PICK n : n = Len(session) + 1
      OBVIOUS
    <3>4. /\ session' \in Seq(Session) /\ DOMAIN session' = DOMAIN session \cup {n} /\ session'[n] = x
          /\ \A s \in DOMAIN session : session'[s] = session[s]
      BY <1>4, <2>1, <3>1, <3>2, <3>3
    <3>5. \A s \in DOMAIN session' : session'[s].user \in DOMAIN user
      BY <1>3, <1>4, <3>2, <3>4
    <3>6. \A u : SignedIn(session, u) => SignedIn(session', u)
      BY <3>4 DEF SignedIn
    <3> QED
      BY <3>4, <3>5, <3>6
  <2>2. ASSUME NEW r, session' = [session EXCEPT ![r].at = t0.when, ![r].client = t0.client]
        PROVE  /\ session' \in Seq(Session) /\ \A s \in DOMAIN session' : session'[s].user \in DOMAIN user
               /\ \A u : SignedIn(session, u) => SignedIn(session', u)
    <3>1. CASE r \notin DOMAIN session
      <4>1. session' = session
        BY <1>4, <2>2, <3>1
      <4> QED
        BY <1>4, <4>1
    <3>2. CASE r \in DOMAIN session
      <4>1. PICK x : x = [session[r] EXCEPT !.at = t0.when, !.client = t0.client]
        OBVIOUS
      <4>2. session[r] \in Session
        BY <1>4, <3>2
      <4>3. x \in Session /\ x.user = session[r].user /\ x.signIn = session[r].signIn
        BY <1>3, <4>1, <4>2 DEF Session
      <4>4. DOMAIN session' = DOMAIN session /\ session'[r] = x /\ \A s \in DOMAIN session : s # r => session'[s] = session[s]
        BY <2>2, <3>2, <4>1
      <4>5. session' = [session EXCEPT ![r] = x]
        BY <2>2, <3>2, <4>1
      <4>6. session' \in Seq(Session)
        BY <1>4, <3>2, <4>3, <4>5, RowPut
      <4>7. \A s \in DOMAIN session' : session'[s].user \in DOMAIN user
        BY <1>4, <3>2, <4>3, <4>4
      <4>8. \A u : SignedIn(session, u) => SignedIn(session', u)
        BY <4>3, <4>4 DEF SignedIn
      <4> QED
        BY <4>6, <4>7, <4>8
    <3> QED
      BY <3>1, <3>2
  <2> QED
    BY <1>1, <2>1, <2>2 DEF WriteSession
<1>9. Touching(t)'
  BY <1>5, <1>6, <1>7, <1>8 DEF Touching, Goes, identity
<1> QED
  BY <1>5, <1>6, <1>7, <1>8, <1>9, SessionStepKeeps

\* A member's presence is written, and a sign-in's is the last.
LEMMA WritePresenceKeeps ==
  ASSUME MembersInv, NEW p \in Procs, WritePresence(p)
  PROVE  MembersInv'
<1>1. PICK t : t = task[p]
  OBVIOUS
<1>2. PICK u : u = t.user
  OBVIOUS
<1>3. u \in DOMAIN user /\ t.when \in Nat /\ (t.op # "touch" => SignedIn(session, u))
  BY <1>1, <1>2 DEF WritePresence, Stands, MembersInv, Accounts, Carries, Touches, Touching
<1>4. PICK r : r = [user[u] EXCEPT !.seen = t.when]
  OBVIOUS
<1>5. user \in Seq(User)
  BY DEF MembersInv, Accounts
<1>6. user[u] \in User
  BY <1>3, <1>5
<1>7. /\ r \in User /\ r.username = user[u].username /\ r.phone = user[u].phone /\ r.email = user[u].email
      /\ r.google = user[u].google /\ r.avatar = user[u].avatar
  BY <1>3, <1>4, <1>6 DEF User
<1>8. user' = [user EXCEPT ![u] = r]
  BY <1>1, <1>2, <1>4 DEF WritePresence
<1>9. SameKeys /\ SameAvatars
  BY <1>3, <1>5, <1>7, <1>8, RowPut DEF SameKeys, SameAvatars
<1>10. DOMAIN user' = DOMAIN user /\ SameNames /\ Apart(user')
  BY <1>9, SameKeysApart
<1>11. /\ Turns(p) /\ task'[p] = None /\ clock' = clock /\ doors' = doors
       /\ requests \in Nat /\ requests' \in Nat /\ requests <= requests'
  BY GoesTurns DEF WritePresence
<1>12. /\ code' = code /\ token' = token /\ session' = session /\ watch' = watch /\ position' = position
       /\ plan' = plan /\ period' = period /\ wallet' = wallet /\ level' = level /\ picture' = picture /\ locked' = locked
  BY DEF WritePresence, shop, office
<1>13. RowsKept
  BY <1>9, <1>10, <1>11, <1>12 DEF RowsKept, SameKeys, MembersInv, Accounts
<1>14. /\ TokensRest(None) /\ SigningRests(None) /\ ShoppingRests(p, None) /\ RanksRest(None)
       /\ WatchesRest(None) /\ PicturesRest(None)
  BY <1>9, <1>10, <1>11, <1>12 DEF TokensRest, SigningRests, ShoppingRests, RanksRest, WatchesRest, PicturesRest
<1>15. Touches'
  <2>1. DOMAIN touched = DOMAIN user
    BY DEF MembersInv, Touches
  <2>2. touched' = (IF t.op = "touch" THEN touched ELSE [touched EXCEPT ![u] = t.when])
    BY <1>1, <1>2 DEF WritePresence
  <2>3. DOMAIN touched' = DOMAIN user /\ \A v \in DOMAIN user : touched'[v] = touched[v] \/ SignedIn(session', v)
    BY <1>3, <1>12, <2>1, <2>2
  <2> QED
    BY <1>10, <1>11, <1>12, <2>3, TouchesGo DEF MembersInv
<1> QED
  BY <1>11, <1>13, <1>14, <1>15, WriteKeeps

\* A member is touched, once in a while: whoever touched before did so earlier, or a sign-in came
\* in between.
LEMMA TouchKeeps ==
  ASSUME MembersInv, NEW p \in Procs, NEW u \in Users, NEW c \in Clients, Touch(p, u, c)
  PROVE  MembersInv'
<1>1. PICK t : t = [Idle EXCEPT !.op = "touch", !.at = "find", !.user = u, !.client = c, !.when = clock]
  OBVIOUS
<1>2. DOMAIN t = Fields /\ t.op = "touch" /\ t.at = "find" /\ t.user = u /\ t.client = c /\ t.when = clock
  BY <1>1, IdleShape DEF Fields
<1>3. /\ Enter(p, "touch") /\ Proceed(p, t) /\ touched' = [touched EXCEPT ![u] = clock] /\ ~Throttled(u)
      /\ UNCHANGED <<identity, session, watch, position, shop, office>>
  BY <1>1 DEF Touch
<1>4. Turns(p) /\ task'[p] = t
  BY <1>3, ProceedTurns, AccountsTyped DEF MembersInv
<1>5. clock \in Nat /\ requests \in Nat /\ requests' = requests + 1 /\ clock' = clock /\ doors' = doors /\ "touch" \in doors
  BY <1>3 DEF Enter, MembersInv, Accounts
<1>6. /\ user' = user /\ code' = code /\ token' = token /\ session' = session /\ watch' = watch /\ position' = position
      /\ plan' = plan /\ period' = period /\ wallet' = wallet /\ level' = level /\ picture' = picture /\ locked' = locked
  BY <1>3 DEF identity, shop, office
<1>7. RowsKept
  BY <1>5, <1>6 DEF RowsKept, MembersInv, Accounts
<1>8. Placed(doors, t) /\ Carries(DOMAIN user', t)
  BY <1>2, <1>5, <1>6 DEF Placed, Carries, Users
<1>9. SameNames /\ SameAvatars
  BY <1>6 DEF SameNames, SameAvatars
<1>10. Refreshing(token, t) /\ ~Succeeds(t) /\ Resolving(user, t) /\ Paying(p, t) /\ Climbing(t) /\ Beating(t) /\ t.op # "avatar"
  BY <1>2 DEF Refreshing, Succeeds, Resolving, Paying, Climbing, Beating
<1>11. TokensRest(t) /\ SigningRests(t) /\ ShoppingRests(p, t) /\ RanksRest(t) /\ WatchesRest(t) /\ PicturesRest(t)
  BY <1>5, <1>6, <1>9, <1>10 DEF TokensRest, SigningRests, ShoppingRests, RanksRest, WatchesRest, PicturesRest
<1>12. DOMAIN touched = DOMAIN user /\ DOMAIN touched' = DOMAIN user /\ u \in DOMAIN user
  BY <1>3 DEF MembersInv, Touches, Users
<1>13. /\ touched'[u] = clock /\ \A v \in DOMAIN user : v # u => touched'[v] = touched[v]
       /\ touched[u] = None \/ clock >= touched[u] + Throttle \/ touched[u] \notin Nat
  BY <1>3, <1>5, <1>12, LimitsOfTracking DEF Throttled
<1>14. ASSUME NEW q \in Procs, task'[q] # None, q # p
       PROVE  /\ Touching(task'[q]) /\ Touching(task[q])'
              /\ task'[q].op = "touch" => task[q] # None /\ task[q].op = "touch" /\ task[q].user = task'[q].user
                                          /\ task[q].when = task'[q].when
  <2>1. task[q] # None /\ Kept(task[q], task'[q])
    BY <1>4, <1>14 DEF Turns
  <2>2. Touching(task'[q])
    BY <2>1, KeptFits DEF MembersInv, Touches
  <2>3. Touching(task[q])'
    BY <1>5, <1>6, <1>12, <1>13, <2>2 DEF Touching
  <2> QED
    BY <2>1, <2>2, <2>3 DEF Kept
<1>15. Touching(task[p])'
  BY <1>2, <1>4, <1>5, <1>6, <1>12, <1>13 DEF Touching
<1>16. ASSUME NEW q \in Procs, task'[q] # None, q # p, task'[q].op = "touch", task'[q].user = u, ~SignedIn(session, u)
       PROVE  task'[q].when \in Nat /\ clock >= task'[q].when + Throttle
  <2>1. Touching(task'[q])
    BY <1>14, <1>16
  <2>2. task'[q].when \in Nat /\ touched[u] \in Nat /\ touched[u] >= task'[q].when
    BY <1>16, <2>1 DEF Touching
  <2> QED
    BY <1>5, <1>13, <2>2, NoneIsNothing, LimitsOfTracking
<1>17. OneTouchPerWindow'
  <2> SUFFICES ASSUME NEW q \in Procs, NEW r \in Procs, q # r, task'[q] # None, task'[r] # None,
                      task'[q].op = "touch", task'[r].op = "touch",
                      task'[q].user = task'[r].user, task'[q].when <= task'[r].when,
                      \A s \in DOMAIN session' : session'[s].user = task'[q].user => ~session'[s].signIn
               PROVE  task'[r].when >= task'[q].when + Throttle
    BY DEF OneTouchPerWindow
  <2>1. ~SignedIn(session, task'[q].user)
    BY <1>6 DEF SignedIn
  <2>2. CASE q # p /\ r # p
    BY <1>6, <1>14, <2>2 DEF MembersInv, Touches, OneTouchPerWindow
  <2>3. CASE r = p
    BY <1>2, <1>4, <1>16, <2>1, <2>3
  <2>4. CASE q = p
    <3>1. task'[r].when \in Nat /\ clock >= task'[r].when + Throttle /\ clock <= task'[r].when
      BY <1>2, <1>4, <1>16, <2>1, <2>4
    <3> QED
      BY <1>5, <3>1, LimitsOfTracking
  <2> QED
    BY <2>2, <2>3, <2>4
<1>18. Touches'
  <2>1. \A q \in Procs : task'[q] # None => Touching(task[q])'
    BY <1>14, <1>15
  <2>2. DOMAIN touched' = DOMAIN user'
    BY <1>6, <1>12
  <2> QED
    BY <1>17, <2>1, <2>2 DEF Touches
<1> QED
  BY <1>4, <1>7, <1>8, <1>11, <1>18, WriteKeeps

-----------------------------------------------------------------------------
(* Steps that write: heartbeats *)

LEMMA WatchStepKeeps ==
  ASSUME MembersInv, NEW p \in Procs, NEW t, Disturb(p, t), Goes, UNCHANGED <<identity, session, touched, shop, office>>,
         \A k \in DOMAIN position' : position'[k] \in Nat,
         \A k \in DOMAIN watch' : watch'[k].seconds \in Nat /\ watch'[k].beats \in Nat /\ watch'[k].seconds <= MaxDelta * watch'[k].beats,
         t # None => Placed(doors, t) /\ t.op = "beat" /\ t.at = "record" /\ Beating(t)
  PROVE  MembersInv'
<1>1. /\ Turns(p) /\ task'[p] = t /\ clock' = clock /\ doors' = doors
      /\ requests \in Nat /\ requests' \in Nat /\ requests <= requests'
  BY GoesTurns
<1>2. /\ user' = user /\ code' = code /\ token' = token /\ session' = session
      /\ plan' = plan /\ period' = period /\ wallet' = wallet /\ level' = level /\ picture' = picture
      /\ touched' = touched /\ locked' = locked
  BY DEF identity, shop, office
<1>3. RowsKept
  BY <1>1, <1>2 DEF RowsKept, MembersInv, Accounts
<1>4. t # None => /\ Refreshing(token, t) /\ ~Succeeds(t) /\ Resolving(user, t) /\ Paying(p, t) /\ Climbing(t)
                  /\ Touching(t) /\ Resumes(t, p) /\ t.op # "avatar"
  BY DEF Refreshing, Succeeds, Resolving, Paying, Climbing, Touching, Resumes
<1>5. SameNames /\ SameAvatars
  BY <1>2 DEF SameNames, SameAvatars
<1>6. TokensRest(t) /\ SigningRests(t) /\ ShoppingRests(p, t) /\ RanksRest(t) /\ TouchesRest(p, t) /\ PicturesRest(t)
  BY <1>1, <1>2, <1>4, <1>5 DEF TokensRest, SigningRests, ShoppingRests, RanksRest, TouchesRest, PicturesRest
<1>7. t # None => Placed(doors, t) /\ Carries(DOMAIN user', t)
  BY DEF Carries
<1>8. Watches'
  <2>1. ASSUME NEW q \in Procs, task'[q] # None, q # p PROVE Beating(task'[q])
    <3>1. task[q] # None /\ Kept(task[q], task'[q])
      BY <1>1, <2>1 DEF Turns
    <3> QED
      BY <3>1, KeptFits DEF MembersInv, Watches
  <2>2. \A q \in Procs : task'[q] # None => Beating(task'[q])
    BY <1>1, <2>1
  <2> QED
    BY <2>2 DEF Watches
<1> QED
  BY <1>1, <1>3, <1>6, <1>7, <1>8, WriteKeeps

LEMMA WritePositionKeeps ==
  ASSUME MembersInv, NEW p \in Procs, WritePosition(p)
  PROVE  MembersInv'
<1>1. PICK t0 : t0 = task[p]
  OBVIOUS
<1>2. PICK t : t = [t0 EXCEPT !.at = "record"]
  OBVIOUS
<1>3. DOMAIN t0 = Fields /\ t0.op = "beat" /\ Placed(doors, t0) /\ t0.when \in Nat /\ t0.n \in Nat
  BY <1>1 DEF WritePosition, At, MembersInv, Accounts, Placed, Watches, Beating
<1>4. DOMAIN t = Fields /\ t.op = "beat" /\ t.at = "record" /\ t.when = t0.when /\ t.n = t0.n
  BY <1>2, <1>3 DEF Fields
<1>5. Placed(doors, t) /\ Beating(t)
  BY <1>3, <1>4 DEF Placed, Beating
<1>6. Disturb(p, t) /\ Goes /\ UNCHANGED <<identity, session, touched, shop, office>> /\ watch' = watch
  BY <1>1, <1>2 DEF WritePosition, Wrote
<1>7. \A k \in DOMAIN position' : position'[k] \in Nat
  BY <1>1, <1>3 DEF WritePosition, Put, MembersInv, Watches
<1>8. \A k \in DOMAIN watch' : watch'[k].seconds \in Nat /\ watch'[k].beats \in Nat /\ watch'[k].seconds <= MaxDelta * watch'[k].beats
  BY <1>6 DEF MembersInv, Watches
<1> QED
  BY <1>4, <1>5, <1>6, <1>7, <1>8, WatchStepKeeps

LEMMA RecordBeatKeeps ==
  ASSUME MembersInv, NEW p \in Procs, RecordBeat(p)
  PROVE  MembersInv'
<1>1. PICK t : t = task[p]
  OBVIOUS
<1>2. t.when \in Nat /\ t.n \in Nat /\ MaxDelta \in Nat
  BY <1>1, LimitsOfTracking DEF RecordBeat, At, MembersInv, Watches, Beating
<1>3. PICK k : k = <<t.user, t.row, t.client.platform, clock>>
  OBVIOUS
<1>4. PICK old : old = IF k \in DOMAIN watch THEN watch[k] ELSE [seconds |-> 0, beats |-> 0]
  OBVIOUS
<1>5. old.seconds \in Nat /\ old.beats \in Nat /\ old.seconds <= MaxDelta * old.beats
  BY <1>2, <1>4 DEF MembersInv, Watches
<1>6. PICK d : d = WatchDelta(t.when, t.n)
  OBVIOUS
<1>7. d \in Nat /\ d <= MaxDelta
  BY <1>2, <1>6 DEF WatchDelta
<1>8. PICK new : new = [seconds |-> old.seconds + d, beats |-> old.beats + 1]
  OBVIOUS
<1>9. new.seconds \in Nat /\ new.beats \in Nat /\ new.seconds <= MaxDelta * new.beats
  <2>1. new.seconds = old.seconds + d /\ new.beats = old.beats + 1
    BY <1>8
  <2>2. PICK b, s : b = old.beats /\ s = old.seconds
    OBVIOUS
  <2>3. MaxDelta * (b + 1) = MaxDelta * b + MaxDelta /\ MaxDelta * b \in Nat
    BY <1>2, <1>5, <2>2
  <2> QED
    BY <1>2, <1>5, <1>7, <2>1, <2>2, <2>3
<1>10. CASE End(p) /\ Reads
  BY <1>10, EndKeeps
<1>11. CASE watch' = Put(watch, k, new) /\ Wrote(p, None) /\ UNCHANGED <<session, position, search, feedback, touched, socket>>
  <2>1. Disturb(p, None) /\ Goes /\ UNCHANGED <<identity, session, touched, shop, office>> /\ position' = position
    BY <1>11 DEF Wrote
  <2>2. \A j \in DOMAIN watch' : watch'[j].seconds \in Nat /\ watch'[j].beats \in Nat /\ watch'[j].seconds <= MaxDelta * watch'[j].beats
    BY <1>9, <1>11 DEF Put, MembersInv, Watches
  <2>3. \A j \in DOMAIN position' : position'[j] \in Nat
    BY <2>1 DEF MembersInv, Watches
  <2> QED
    BY <2>1, <2>2, <2>3, WatchStepKeeps
<1> QED
  BY <1>1, <1>3, <1>4, <1>6, <1>8, <1>10, <1>11 DEF RecordBeat

-----------------------------------------------------------------------------
(* Steps that write: purchases and deposits *)

LEMMA ShopStepKeeps ==
  ASSUME MembersInv, NEW p \in Procs, NEW t, Turns(p), task'[p] = t, clock' = clock, doors' = doors,
         requests \in Nat, requests' \in Nat, requests <= requests',
         UNCHANGED <<identity, traces, level, picture>>, Shopping',
         t # None => Placed(doors, t) /\ t.op = "subscribe" /\ t.at = "current"
  PROVE  MembersInv'
<1>1. /\ user' = user /\ code' = code /\ token' = token /\ session' = session /\ watch' = watch /\ position' = position
      /\ level' = level /\ picture' = picture /\ touched' = touched
  BY DEF identity, traces
<1>2. RowsKept
  BY <1>1 DEF RowsKept, MembersInv, Accounts
<1>3. t # None => /\ Refreshing(token, t) /\ ~Succeeds(t) /\ Resolving(user, t) /\ Climbing(t) /\ Beating(t)
                  /\ Touching(t) /\ Resumes(t, p) /\ t.op # "avatar"
  BY DEF Refreshing, Succeeds, Resolving, Climbing, Beating, Touching, Resumes
<1>4. SameNames /\ SameAvatars
  BY <1>1 DEF SameNames, SameAvatars
<1>5. TokensRest(t) /\ SigningRests(t) /\ RanksRest(t) /\ TouchesRest(p, t) /\ WatchesRest(t) /\ PicturesRest(t)
  BY <1>1, <1>3, <1>4 DEF TokensRest, SigningRests, RanksRest, TouchesRest, WatchesRest, PicturesRest
<1>6. t # None => Placed(doors, t) /\ Carries(DOMAIN user', t)
  BY DEF Carries
<1> QED
  BY <1>2, <1>5, <1>6, WriteKeeps

\* What the others pay, or are about to, was so before.
LEMMA OthersPay ==
  ASSUME MembersInv, NEW p \in Procs, Turns(p), NEW q \in Procs, q # p, task'[q] # None
  PROVE  Paying(q, task'[q])
<1>1. task[q] # None /\ Kept(task[q], task'[q])
  BY DEF Turns
<1> QED
  BY <1>1, KeptFits DEF MembersInv, Shopping

LEMMA PutPlanKeeps ==
  ASSUME MembersInv, NEW p \in Procs, NEW i \in DOMAIN plan \cup {None}, NEW price \in 1 .. 2, NEW active \in BOOLEAN,
         PutPlan(p, i, price, 2, active)
  PROVE  MembersInv'
<1>1. PICK r : r = [price |-> price, days |-> 2, active |-> active]
  OBVIOUS
<1>2. r \in Plan
  BY <1>1 DEF Plan
<1>3. /\ Turns(p) /\ task'[p] = None /\ clock' = clock /\ doors' = doors
      /\ requests \in Nat /\ requests' \in Nat /\ requests <= requests'
  BY OnceTurns DEF PutPlan
<1>4. plan \in Seq(Plan)
  BY DEF MembersInv, Shopping
<1>5. plan' \in Seq(Plan)
  <2>1. CASE i = None
    <3>1. plan' = Append(plan, r)
      BY <1>1, <2>1 DEF PutPlan
    <3> QED
      BY <1>2, <1>4, <3>1
  <2>2. CASE i # None
    <3>1. plan' = [plan EXCEPT ![i] = r] /\ i \in DOMAIN plan
      BY <1>1, <2>2 DEF PutPlan
    <3> QED
      BY <1>2, <1>4, <3>1, RowPut
  <2> QED
    BY <2>1, <2>2
<1>6. UNCHANGED <<identity, traces, level, picture>> /\ user' = user /\ period' = period /\ wallet' = wallet /\ locked' = locked
  BY DEF PutPlan, identity, office
<1>7. \A q \in Procs : task'[q] # None => Paying(q, task[q])'
  BY <1>3, <1>6, OthersPay DEF Paying
<1>8. Shopping'
  BY <1>5, <1>6, <1>7 DEF MembersInv, Shopping, DaysAreNotPaidTwice
<1> QED
  BY <1>3, <1>6, <1>8, ShopStepKeeps

\* Whoever debits holds the wallet: nobody else did.
LEMMA DebitKeeps ==
  ASSUME MembersInv, NEW p \in Procs, Debit(p)
  PROVE  MembersInv'
<1>1. PICK t0 : t0 = task[p]
  OBVIOUS
<1>2. PICK t : t = [t0 EXCEPT !.at = "current"]
  OBVIOUS
<1>3. PICK u : u = t0.user
  OBVIOUS
<1>4. DOMAIN t0 = Fields /\ t0.op = "subscribe" /\ Placed(doors, t0) /\ Paying(p, t0) /\ locked[u] = None
  BY <1>1, <1>3 DEF Debit, At, MembersInv, Accounts, Placed, Shopping
<1>5. DOMAIN t = Fields /\ t.op = "subscribe" /\ t.at = "current" /\ t.user = u /\ t.query = t0.query
  BY <1>2, <1>3, <1>4 DEF Fields
<1>6. Placed(doors, t)
  BY <1>4, <1>5 DEF Placed
<1>7. CASE End(p) /\ Reads
  BY <1>7, EndKeeps
<1>8. CASE /\ wallet[u] >= t0.query.price /\ locked' = [locked EXCEPT ![u] = p] /\ Proceed(p, t)
           /\ UNCHANGED <<identity, traces, office, plan, period, wallet, level>> /\ Goes
  <2>1. Turns(p) /\ task'[p] = t
    BY <1>8, ProceedTurns, AccountsTyped DEF MembersInv
  <2>2. clock' = clock /\ doors' = doors /\ requests \in Nat /\ requests' = requests
    BY <1>8 DEF Goes, MembersInv, Accounts
  <2>3. UNCHANGED <<identity, traces, level, picture>> /\ user' = user /\ period' = period /\ wallet' = wallet /\ plan' = plan
    BY <1>8 DEF identity, office
  <2>4. u \in DOMAIN user /\ DOMAIN locked = DOMAIN user /\ t.query.price \in Nat /\ t.query.days \in Nat
    BY <1>3, <1>4, <1>5 DEF Paying, MembersInv, Shopping
  <2>5. DOMAIN locked' = DOMAIN user /\ locked'[u] = p /\ \A v \in DOMAIN user : v # u => locked'[v] = locked[v]
    BY <1>8, <2>4
  <2>6. ASSUME NEW q \in Procs, q # p, task'[q] # None PROVE Paying(q, task[q])'
    <3>1. Paying(q, task'[q])
      BY <2>1, <2>6, OthersPay
    <3> QED
      BY <1>4, <2>3, <2>5, <3>1, NoneIsNothing DEF Paying
  <2>7. Paying(p, task[p])'
    BY <1>5, <1>8, <2>1, <2>3, <2>4, <2>5 DEF Paying
  <2>8. Shopping'
    <3>1. \A q \in Procs : task'[q] # None => Paying(q, task[q])'
      BY <2>6, <2>7
    <3> QED
      BY <2>3, <2>5, <3>1 DEF MembersInv, Shopping, DaysAreNotPaidTwice
  <2> QED
    BY <1>5, <1>6, <2>1, <2>2, <2>3, <2>8, ShopStepKeeps
<1> QED
  BY <1>1, <1>2, <1>3, <1>7, <1>8 DEF Debit, Goto

\* The purchase is committed: nobody else holds the wallet, and the days come after the others.
LEMMA CommitKeeps ==
  ASSUME MembersInv, NEW p \in Procs, Commit(p)
  PROVE  MembersInv'
<1>1. PICK t : t = task[p]
  OBVIOUS
<1>2. PICK u, price, days : u = t.user /\ price = t.query.price /\ days = t.query.days
  OBVIOUS
<1>3. PICK x : x = [user |-> u, amount |-> price, days |-> days, until |-> t.when]
  OBVIOUS
<1>4. Paying(p, t) /\ t.op = "subscribe" /\ t.at = "commit"
  BY <1>1 DEF Commit, At, MembersInv, Shopping
<1>5. /\ u \in DOMAIN user /\ price \in Nat /\ days \in Nat /\ locked[u] = p /\ wallet[u] >= price /\ t.when \in Nat
      /\ \A i \in DOMAIN period : period[i].user = u => t.when >= period[i].until + days
  BY <1>2, <1>4 DEF Paying
<1>6. /\ wallet' = [wallet EXCEPT ![u] = @ - price] /\ period' = Append(period, x) /\ locked' = [locked EXCEPT ![u] = None]
      /\ plan' = plan /\ level' = level /\ Disturb(p, None) /\ UNCHANGED <<identity, traces, office>> /\ Goes
  BY <1>1, <1>2, <1>3 DEF Commit, Shops
<1>7. /\ Turns(p) /\ task'[p] = None /\ clock' = clock /\ doors' = doors
      /\ requests \in Nat /\ requests' \in Nat /\ requests <= requests'
  BY <1>6, GoesTurns
<1>8. UNCHANGED <<identity, traces, level, picture>> /\ user' = user
  BY <1>6 DEF identity, office
<1>9. /\ plan \in Seq(Plan) /\ period \in Seq(Period) /\ wallet \in [DOMAIN user -> Nat] /\ DOMAIN locked = DOMAIN user
      /\ \A i \in DOMAIN period : period[i].user \in DOMAIN user
      /\ DOMAIN user \subseteq Nat
  BY DEF MembersInv, Shopping, Accounts
<1>10. x \in Period /\ x.user = u /\ x.days = days /\ x.until = t.when
  BY <1>3, <1>5, <1>9 DEF Period
<1>11. PICK n : n = Len(period) + 1
  OBVIOUS
<1>12. /\ period' \in Seq(Period) /\ DOMAIN period' = DOMAIN period \cup {n} /\ period'[n] = x
       /\ (\A i \in DOMAIN period : period'[i] = period[i] /\ i < n) /\ DOMAIN period' \subseteq Nat /\ n \in Nat
  BY <1>6, <1>9, <1>10, <1>11
<1>13. wallet' \in [DOMAIN user -> Nat] /\ \A v \in DOMAIN user : v # u => wallet'[v] = wallet[v]
  BY <1>5, <1>6, <1>9
<1>14. DOMAIN locked' = DOMAIN user /\ \A v \in DOMAIN user : v # u => locked'[v] = locked[v]
  BY <1>6, <1>9
<1>15. \A i \in DOMAIN period' : period'[i].user \in DOMAIN user
  BY <1>5, <1>9, <1>10, <1>12
<1>16. DaysAreNotPaidTwice'
  <2> SUFFICES ASSUME NEW i \in DOMAIN period', NEW j \in DOMAIN period', i < j, period'[i].user = period'[j].user
               PROVE  period'[j].until >= period'[i].until + period'[j].days
    BY DEF DaysAreNotPaidTwice
  <2>1. i \in DOMAIN period
    BY <1>12
  <2>2. CASE j = n
    BY <1>5, <1>10, <1>12, <2>1, <2>2
  <2>3. CASE j # n
    BY <1>12, <2>1, <2>3 DEF MembersInv, Shopping, DaysAreNotPaidTwice
  <2> QED
    BY <2>2, <2>3
<1>17. ASSUME NEW q \in Procs, task'[q] # None PROVE Paying(q, task[q])'
  <2>1. q # p
    BY <1>7, <1>17
  <2>2. Paying(q, task'[q])
    BY <1>7, <1>17, <2>1, OthersPay
  <2>3. ASSUME task'[q].op = "subscribe", task'[q].at \in {"current", "commit"} PROVE task'[q].user # u
    BY <1>5, <2>1, <2>2, <2>3 DEF Paying
  <2>4. ASSUME task'[q].op = "subscribe"
        PROVE  task'[q].user \in DOMAIN user /\ task'[q].query.price \in Nat /\ task'[q].query.days \in Nat
    BY <2>2, <2>4 DEF Paying
  <2>5. ASSUME task'[q].op = "subscribe", task'[q].at \in {"current", "commit"}
        PROVE  locked'[task'[q].user] = q /\ wallet'[task'[q].user] >= task'[q].query.price
    BY <1>13, <1>14, <2>2, <2>3, <2>4, <2>5 DEF Paying
  <2>6. ASSUME task'[q].op = "subscribe", task'[q].at = "commit"
        PROVE  /\ task'[q].when \in Nat
               /\ \A i \in DOMAIN period' : period'[i].user = task'[q].user => task'[q].when >= period'[i].until + task'[q].query.days
    BY <1>10, <1>12, <2>2, <2>3, <2>6 DEF Paying
  <2> QED
    BY <1>8, <2>4, <2>5, <2>6 DEF Paying
<1>18. Shopping'
  BY <1>6, <1>8, <1>9, <1>12, <1>13, <1>14, <1>15, <1>16, <1>17 DEF Shopping
<1> QED
  BY <1>7, <1>8, <1>18, ShopStepKeeps

LEMMA DepositKeeps ==
  ASSUME MembersInv, NEW p \in Procs, NEW u \in Users, NEW approved \in BOOLEAN, Deposit(p, u, 1, approved)
  PROVE  MembersInv'
<1>1. /\ Turns(p) /\ task'[p] = None /\ clock' = clock /\ doors' = doors
      /\ requests \in Nat /\ requests' \in Nat /\ requests <= requests'
  BY OnceTurns DEF Deposit
<1>2. /\ UNCHANGED <<identity, traces, level, picture>> /\ user' = user /\ plan' = plan /\ period' = period /\ locked' = locked
      /\ wallet' = [wallet EXCEPT ![u] = IF approved THEN @ + 1 ELSE @]
  BY DEF Deposit, identity
<1>3. wallet \in [DOMAIN user -> Nat] /\ u \in DOMAIN user
  BY DEF MembersInv, Shopping, Users
<1>4. wallet' \in [DOMAIN user -> Nat] /\ \A v \in DOMAIN user : wallet'[v] >= wallet[v]
  BY <1>2, <1>3
<1>5. ASSUME NEW q \in Procs, task'[q] # None PROVE Paying(q, task[q])'
  <2>1. Paying(q, task'[q])
    BY <1>1, <1>5, OthersPay
  <2>2. ASSUME task'[q].op = "subscribe", task'[q].at \in {"current", "commit"}
        PROVE  wallet'[task'[q].user] >= task'[q].query.price
    <3>1. task'[q].user \in DOMAIN user /\ wallet[task'[q].user] >= task'[q].query.price /\ task'[q].query.price \in Nat
      BY <2>1, <2>2 DEF Paying
    <3> QED
      BY <1>3, <1>4, <3>1
  <2> QED
    BY <1>2, <2>1, <2>2 DEF Paying
<1>6. Shopping'
  BY <1>2, <1>4, <1>5 DEF MembersInv, Shopping, DaysAreNotPaidTwice
<1> QED
  BY <1>1, <1>2, <1>6, ShopStepKeeps

\* What else moves a balance waits for whoever holds the wallet, and debits what is there.
LEMMA MoveKeeps ==
  ASSUME MembersInv, NEW p \in Procs, NEW u, NEW type, NEW amount \in Nat, NEW op, Once(p, op), Move(u, type, amount),
         UNCHANGED <<identity, traces, plan, period, level, locked, picture>>
  PROVE  MembersInv'
<1>1. /\ Turns(p) /\ task'[p] = None /\ clock' = clock /\ doors' = doors
      /\ requests \in Nat /\ requests' \in Nat /\ requests <= requests'
  BY OnceTurns
<1>2. /\ UNCHANGED <<identity, traces, level, picture>> /\ user' = user /\ plan' = plan /\ period' = period /\ locked' = locked
      /\ wallet' = [wallet EXCEPT ![u] = IF type = "ADJUSTMENT_CREDIT" THEN @ + amount ELSE @ - amount]
      /\ locked[u] = None /\ (type # "ADJUSTMENT_CREDIT" => wallet[u] >= amount)
  BY DEF Move, identity
<1>3. wallet \in [DOMAIN user -> Nat]
  BY DEF MembersInv, Shopping
<1>4. \A v \in DOMAIN user : v # u => wallet'[v] = wallet[v]
  BY <1>2, <1>3
<1>5. wallet' \in [DOMAIN user -> Nat]
  <2>1. CASE u \in DOMAIN user
    <3>1. wallet[u] \in Nat
      BY <1>3, <2>1
    <3>2. PICK x : x = IF type = "ADJUSTMENT_CREDIT" THEN wallet[u] + amount ELSE wallet[u] - amount
      OBVIOUS
    <3>3. x \in Nat
      BY <1>2, <3>1, <3>2
    <3>4. wallet' = [wallet EXCEPT ![u] = x]
      BY <1>2, <3>2
    <3> QED
      BY <1>3, <3>3, <3>4
  <2>2. CASE u \notin DOMAIN user
    BY <1>2, <1>3, <2>2
  <2> QED
    BY <2>1, <2>2
<1>6. ASSUME NEW q \in Procs, task'[q] # None PROVE Paying(q, task[q])'
  <2>1. Paying(q, task'[q])
    BY <1>1, <1>6, OthersPay
  <2>2. ASSUME task'[q].op = "subscribe", task'[q].at \in {"current", "commit"}
        PROVE  wallet'[task'[q].user] >= task'[q].query.price
    <3>1. /\ task'[q].user \in DOMAIN user /\ wallet[task'[q].user] >= task'[q].query.price
          /\ locked[task'[q].user] = q
      BY <2>1, <2>2 DEF Paying
    <3>2. task'[q].user # u
      BY <1>2, <3>1, NoneIsNothing
    <3> QED
      BY <1>4, <3>1, <3>2
  <2> QED
    BY <1>2, <2>1, <2>2 DEF Paying
<1>7. Shopping'
  BY <1>2, <1>5, <1>6 DEF MembersInv, Shopping, DaysAreNotPaidTwice
<1> QED
  BY <1>1, <1>2, <1>7, ShopStepKeeps

PayoutsTyped == payout \in Seq(Payout)
LEMMA MovementsKeep ==
  ASSUME MembersInv, PayoutsTyped, NEW p \in Procs,
         \/ \E w \in DOMAIN payout : ApproveWithdrawal(p, w)
         \/ \E u \in Users : \E type : Adjust(p, u, type, 1)
  PROVE  MembersInv'
<1>1. ASSUME NEW w \in DOMAIN payout, ApproveWithdrawal(p, w) PROVE MembersInv'
  <2>1. PICK u, amount : u = payout[w].user /\ amount = payout[w].amount
    OBVIOUS
  <2>2. amount \in Nat
    <3>1. payout[w] \in Payout
      BY DEF PayoutsTyped
    <3> QED
      BY <2>1, <3>1 DEF Payout
  <2>3. Once(p, "payout") /\ Move(u, "WITHDRAWAL", amount) /\ UNCHANGED <<identity, traces, plan, period, level, locked, picture>>
    BY <1>1, <2>1 DEF ApproveWithdrawal
  <2> QED
    BY <2>2, <2>3, MoveKeeps
<1>2. ASSUME NEW u \in Users, NEW type, Adjust(p, u, type, 1) PROVE MembersInv'
  <2>1. Once(p, "adjust") /\ Move(u, type, 1) /\ UNCHANGED <<identity, traces, plan, period, level, locked, picture>>
    BY <1>2 DEF Adjust
  <2> QED
    BY <2>1, MoveKeeps
<1> QED
  BY <1>1, <1>2

-----------------------------------------------------------------------------
(* Steps that write: levels *)

LEMMA LevelStepKeeps ==
  ASSUME MembersInv, NEW p \in Procs, Turns(p), task'[p] = None, clock' = clock, doors' = doors,
         requests \in Nat, requests' \in Nat, requests <= requests',
         UNCHANGED <<identity, traces, plan, period, wallet, locked, picture>>, level' \in Seq(Level \cup {None})
  PROVE  MembersInv'
<1>1. /\ user' = user /\ code' = code /\ token' = token /\ session' = session /\ watch' = watch /\ position' = position
      /\ plan' = plan /\ period' = period /\ wallet' = wallet /\ locked' = locked /\ picture' = picture /\ touched' = touched
  BY DEF identity, traces
<1>2. RowsKept
  BY <1>1 DEF RowsKept, MembersInv, Accounts
<1>3. SameNames /\ SameAvatars
  BY <1>1 DEF SameNames, SameAvatars
<1>4. TokensRest(None) /\ SigningRests(None) /\ ShoppingRests(p, None) /\ TouchesRest(p, None) /\ WatchesRest(None) /\ PicturesRest(None)
  BY <1>1, <1>3 DEF TokensRest, SigningRests, ShoppingRests, TouchesRest, WatchesRest, PicturesRest
<1>5. Ranks'
  BY RanksKept DEF MembersInv
<1> QED
  BY <1>2, <1>4, <1>5, WriteKeeps

LEMMA WriteLevelKeeps ==
  ASSUME MembersInv, NEW p \in Procs, WriteLevel(p)
  PROVE  MembersInv'
<1>1. PICK t : t = task[p]
  OBVIOUS
<1>2. PICK r : r = [name |-> t.query.name, threshold |-> t.query.threshold, order |-> t.n, enabled |-> t.query.enabled]
  OBVIOUS
<1>3. t.query.name \in STRING /\ t.query.threshold \in Nat /\ t.n \in Nat
  BY <1>1 DEF WriteLevel, At, MembersInv, Ranks, Climbing
<1>4. t.query.enabled \in BOOLEAN
  BY <1>1 DEF WriteLevel, At, MembersInv, Ranks, Climbing
<1>5. r \in Level
  BY <1>2, <1>3, <1>4 DEF Level
<1>6. level \in Seq(Level \cup {None})
  BY DEF MembersInv, Ranks
<1>7. CASE End(p) /\ Reads
  BY <1>7, EndKeeps
<1>8. ASSUME level' \in Seq(Level \cup {None}), Shops(p, None), UNCHANGED <<plan, period, wallet, locked>>
      PROVE  MembersInv'
  <2>1. Disturb(p, None) /\ Goes /\ UNCHANGED <<identity, traces, plan, period, wallet, locked, picture>>
    BY <1>8 DEF Shops, office
  <2>2. /\ Turns(p) /\ task'[p] = None /\ clock' = clock /\ doors' = doors
        /\ requests \in Nat /\ requests' \in Nat /\ requests <= requests'
    BY <2>1, GoesTurns
  <2> QED
    BY <1>8, <2>1, <2>2, LevelStepKeeps
<1>9. ASSUME level' = Append(level, r) PROVE level' \in Seq(Level \cup {None})
  <2>1. r \in Level \cup {None}
    BY <1>5
  <2> QED
    BY <1>6, <1>9, <2>1
<1>10. ASSUME level[t.row] # None, level' = [level EXCEPT ![t.row] = [r EXCEPT !.order = level[t.row].order]]
       PROVE  level' \in Seq(Level \cup {None})
  <2>1. PICK x : x = [r EXCEPT !.order = level[t.row].order]
    OBVIOUS
  <2>2. level' = [level EXCEPT ![t.row] = x]
    BY <1>10, <2>1
  <2>3. CASE t.row \in DOMAIN level
    <3>1. level[t.row] \in Level
      BY <1>6, <1>10, <2>3
    <3>2. level[t.row].order \in Nat
      BY <3>1 DEF Level
    <3>3. x \in Level \cup {None}
      BY <1>5, <2>1, <3>2 DEF Level
    <3> QED
      BY <1>6, <2>2, <2>3, <3>3, RowPut
  <2>4. CASE t.row \notin DOMAIN level
    <3>1. level' = level
      BY <1>6, <2>2, <2>4
    <3> QED
      BY <1>6, <3>1
  <2> QED
    BY <2>3, <2>4
<1> QED
  BY <1>1, <1>2, <1>7, <1>8, <1>9, <1>10 DEF WriteLevel

\* What a list of places makes of the levels.
LEMMA PlacesGiven ==
  ASSUME level \in Seq(Level \cup {None}), NEW L \in SUBSET Rows(level),
         NEW place \in [L -> {level[k].order : k \in Rows(level)}], NEW p \in Procs, Reorder(p, place)
  PROVE  /\ level' \in Seq(Level \cup {None}) /\ DOMAIN level' = DOMAIN level
         /\ \A i \in DOMAIN level : IF i \in Rows(level)
                                    THEN level'[i] \in Level /\ level'[i].threshold = level[i].threshold
                                    ELSE level'[i] = None
<1>1. level' = [i \in DOMAIN level |-> IF i \in L THEN [level[i] EXCEPT !.order = place[i]] ELSE level[i]]
  BY DEF Reorder
<1>2. ASSUME NEW k \in Rows(level) PROVE level[k] \in Level /\ k \in DOMAIN level
  BY <1>2 DEF Rows
<1>3. ASSUME NEW i \in L PROVE level'[i] \in Level /\ level'[i].threshold = level[i].threshold
  <2>1. level[i] \in Level /\ i \in DOMAIN level
    BY <1>2
  <2>2. PICK k \in Rows(level) : place[i] = level[k].order
    OBVIOUS
  <2>3. place[i] \in Nat
    BY <1>2, <2>2 DEF Level
  <2>4. PICK x : x = [level[i] EXCEPT !.order = place[i]]
    OBVIOUS
  <2>5. x \in Level /\ x.threshold = level[i].threshold
    BY <2>1, <2>3, <2>4 DEF Level
  <2>6. level'[i] = x
    BY <1>1, <2>1, <2>4
  <2> QED
    BY <2>5, <2>6
<1>4. ASSUME NEW i \in DOMAIN level, i \notin L PROVE level'[i] = level[i]
  BY <1>1, <1>4
<1>5. \A i \in DOMAIN level : IF i \in Rows(level)
                             THEN level'[i] \in Level /\ level'[i].threshold = level[i].threshold
                             ELSE level'[i] = None
  <2> SUFFICES ASSUME NEW i \in DOMAIN level
               PROVE  IF i \in Rows(level) THEN level'[i] \in Level /\ level'[i].threshold = level[i].threshold
                      ELSE level'[i] = None
    OBVIOUS
  <2>1. CASE i \in L
    BY <1>3, <2>1
  <2>2. CASE i \notin L
    BY <1>2, <1>4, <2>2 DEF Rows
  <2> QED
    BY <2>1, <2>2
<1>6. DOMAIN level' = DOMAIN level /\ level' = [i \in DOMAIN level |-> level'[i]]
  BY <1>1
<1>7. \A i \in DOMAIN level : level'[i] \in Level \cup {None}
  BY <1>5
<1>8. level' \in Seq(Level \cup {None})
  BY <1>6, <1>7
<1> QED
  BY <1>5, <1>6, <1>8

\* Staff take a level away, or give a list of them other places.
LEMMA RemoveLevelKeeps ==
  ASSUME MembersInv, NEW p \in Procs, NEW l \in Rows(level), RemoveLevel(p, l)
  PROVE  MembersInv'
<1>1. level \in Seq(Level \cup {None}) /\ l \in DOMAIN level
  BY DEF MembersInv, Ranks, Rows
<1>2. level' = [level EXCEPT ![l] = None] /\ UNCHANGED <<identity, traces, plan, period, wallet, locked, picture>>
  BY DEF RemoveLevel, office
<1>3. level' \in Seq(Level \cup {None})
  <2>1. None \in Level \cup {None}
    OBVIOUS
  <2> QED
    BY <1>1, <1>2, <2>1, RowPut
<1>4. /\ Turns(p) /\ task'[p] = None /\ clock' = clock /\ doors' = doors
      /\ requests \in Nat /\ requests' \in Nat /\ requests <= requests'
  BY OnceTurns DEF RemoveLevel
<1> QED
  BY <1>2, <1>3, <1>4, LevelStepKeeps

LEMMA ReorderKeeps ==
  ASSUME MembersInv, NEW p \in Procs, NEW L \in SUBSET Rows(level),
         NEW place \in [L -> {level[l].order : l \in Rows(level)}], Reorder(p, place)
  PROVE  MembersInv'
<1>1. level \in Seq(Level \cup {None})
  BY DEF MembersInv, Ranks
<1>2. level' \in Seq(Level \cup {None})
  BY <1>1, PlacesGiven
<1>3. /\ Turns(p) /\ task'[p] = None /\ clock' = clock /\ doors' = doors
      /\ requests \in Nat /\ requests' \in Nat /\ requests <= requests'
  BY OnceTurns DEF Reorder
<1>4. UNCHANGED <<identity, traces, plan, period, wallet, locked, picture>>
  BY DEF Reorder, office
<1> QED
  BY <1>2, <1>3, <1>4, LevelStepKeeps

-----------------------------------------------------------------------------
(* Steps that write: pictures *)

LEMMA PictureStepKeeps ==
  ASSUME MembersInv, NEW p \in Procs, NEW t, Turns(p), task'[p] = t, clock' = clock, doors' = doors,
         requests \in Nat, requests' \in Nat, requests <= requests',
         UNCHANGED <<code, token, traces, shop>>, SameKeys, Pictures',
         t # None => Placed(doors, t) /\ t.op = "avatar" /\ t.at \in {"upload", "point", "erase"}
  PROVE  MembersInv'
<1>1. /\ code' = code /\ token' = token /\ session' = session /\ watch' = watch /\ position' = position
      /\ plan' = plan /\ period' = period /\ wallet' = wallet /\ level' = level /\ touched' = touched /\ locked' = locked
  BY DEF traces, shop
<1>2. DOMAIN user' = DOMAIN user /\ SameNames /\ Apart(user')
  BY SameKeysApart
<1>3. RowsKept
  BY <1>1, <1>2 DEF RowsKept, SameKeys, MembersInv, Accounts
<1>4. t # None => /\ Refreshing(token, t) /\ ~Succeeds(t) /\ Resolving(user', t) /\ Paying(p, t) /\ Climbing(t) /\ Beating(t)
                  /\ Touching(t) /\ Resumes(t, p)
  BY DEF Refreshing, Succeeds, Resolving, Paying, Climbing, Beating, Touching, Resumes
<1>5. TokensRest(t) /\ SigningRests(t) /\ ShoppingRests(p, t) /\ RanksRest(t) /\ TouchesRest(p, t) /\ WatchesRest(t)
  BY <1>1, <1>2, <1>4 DEF TokensRest, SigningRests, ShoppingRests, RanksRest, TouchesRest, WatchesRest
<1>6. t # None => Placed(doors, t) /\ Carries(DOMAIN user', t)
  BY DEF Carries
<1> QED
  BY <1>3, <1>5, <1>6, WriteKeeps

\* What the others had in hand, they have.
LEMMA OthersHang ==
  ASSUME MembersInv, NEW p \in Procs, Turns(p), NEW q \in Procs, q # p, task'[q] # None
  PROVE  /\ task[q] # None /\ Hanging(task'[q])
         /\ task'[q].op = task[q].op /\ task'[q].old = task[q].old /\ task'[q].name = task[q].name /\ task'[q].user = task[q].user
         /\ task'[q].at = task[q].at
         /\ OnItsWay(task'[q]) <=> OnItsWay(task[q])
<1>1. task[q] # None /\ Kept(task[q], task'[q])
  BY DEF Turns
<1> QED
  BY <1>1, KeptFits DEF MembersInv, Pictures, Kept

LEMMA OthersApart ==
  ASSUME MembersInv, NEW p \in Procs, Turns(p), NEW q \in Procs, q # p, task'[q] # None, OnItsWay(task'[q]),
         NEW r \in Procs, r # p, r # q, task'[r] # None
  PROVE  /\ task'[r].op = "avatar" => task'[r].old # task'[q].name
         /\ OnItsWay(task'[r]) => task'[r].name # task'[q].name
<1>1. task[q] # None /\ OnItsWay(task[q]) /\ task'[q].name = task[q].name
  BY OthersHang
<1>2. /\ task[r] # None /\ task'[r].op = task[r].op /\ task'[r].old = task[r].old /\ task'[r].name = task[r].name
      /\ (OnItsWay(task'[r]) <=> OnItsWay(task[r]))
  BY OthersHang
<1>3. /\ task[r].op = "avatar" => task[r].old # task[q].name
      /\ OnItsWay(task[r]) => task[r].name # task[q].name
  BY <1>1, <1>2 DEF MembersInv, Pictures
<1> QED
  BY <1>1, <1>2, <1>3

LEMMA ApartFromMine ==
  ASSUME MembersInv, NEW p \in Procs, Turns(p), NEW q \in Procs, q # p, task'[q] # None, OnItsWay(task'[q]), task[p] # None
  PROVE  /\ task[p].op = "avatar" => task[p].old # task'[q].name
         /\ OnItsWay(task[p]) => task[p].name # task'[q].name
<1>1. task[q] # None /\ OnItsWay(task[q]) /\ task'[q].name = task[q].name
  BY OthersHang
<1> QED
  BY <1>1 DEF MembersInv, Pictures

\* A member brings a picture, or takes it away.
LEMMA AskedPictureKeeps ==
  ASSUME MembersInv, NEW p \in Procs, NEW u \in Users, NEW t, Ask(p, t), DOMAIN t = Fields, t.op = "avatar", t.user = u,
         t.old = user[u].avatar,
         \/ t.name = <<u, requests + 1>> /\ t.at = "upload"
         \/ t.name = <<>> /\ t.at = "point"
  PROVE  MembersInv'
<1>1. PICK old : old = user[u].avatar
  OBVIOUS
<1>2. PICK name : name = t.name
  OBVIOUS
<1>3. PICK at : at = t.at
  OBVIOUS
<1>4. (name = <<u, requests + 1>> /\ at = "upload") \/ (name = <<>> /\ at = "point")
  BY <1>2, <1>3
<1>5. DOMAIN t = Fields /\ t.op = "avatar" /\ t.at = at /\ t.user = u /\ t.old = old /\ t.name = name
  BY <1>1, <1>2, <1>3
<1>6. Ask(p, t)
  OBVIOUS
<1>7. Turns(p) /\ task'[p] = t /\ task[p] = None
  BY <1>6, ProceedTurns, AccountsTyped DEF Ask, Enter, MembersInv
<1>8. /\ clock' = clock /\ doors' = doors /\ requests \in Nat /\ requests' = requests + 1 /\ "avatar" \in doors
      /\ UNCHANGED <<identity, traces, shop, office>>
  BY <1>5, <1>6 DEF Ask, Enter, MembersInv, Accounts
<1>9. Placed(doors, t)
  BY <1>4, <1>5, <1>8 DEF Placed
<1>10. user \in Seq(User) /\ u \in DOMAIN user /\ DOMAIN user \subseteq Nat
  BY DEF MembersInv, Accounts, Users
<1>11. user' = user /\ code' = code /\ token' = token /\ picture' = picture
  BY <1>8 DEF identity, office
<1>12. SameKeys
  BY <1>10, <1>11 DEF SameKeys
<1>13. old # None => old \in Nat \X Nat /\ old[2] <= requests
  BY <1>1, <1>10 DEF MembersInv, Pictures
<1>14. OnItsWay(t) => name = <<u, requests + 1>> /\ at = "upload"
  BY <1>4, <1>5 DEF OnItsWay
<1>15. ASSUME name = <<u, requests + 1>>
       PROVE  name \in Nat \X Nat /\ name[1] = u /\ name[2] = requests + 1 /\ name # None
  BY <1>8, <1>10, <1>15, NoneIsNothing
<1>16. \A v \in DOMAIN user : user[v].avatar # None => user[v].avatar \in Nat \X Nat /\ user[v].avatar[2] <= requests
  BY DEF MembersInv, Pictures
<1>17. Hanging(task[p])'
  <2>1. at # "erase"
    BY <1>4
  <2>2. ASSUME OnItsWay(t)
        PROVE  /\ t.name \in Nat \X Nat /\ t.name[1] = t.user /\ t.name[2] <= requests' /\ t.old # t.name
               /\ \A v \in DOMAIN user : user[v].avatar # t.name
               /\ t.at # "point"
    BY <1>5, <1>8, <1>13, <1>14, <1>15, <1>16, <2>2
  <2>3. t.old # None => t.old \in Nat \X Nat /\ t.old[2] <= requests'
    BY <1>5, <1>8, <1>13
  <2> QED
    BY <1>5, <1>7, <1>10, <1>11, <2>1, <2>2, <2>3 DEF Hanging
<1>18. ASSUME NEW q \in Procs, q # p, task'[q] # None PROVE Hanging(task[q])'
  <2>1. Hanging(task'[q])
    BY <1>7, <1>18, OthersHang
  <2> QED
    BY <1>8, <1>11, <2>1 DEF Hanging, OnItsWay
<1>19. ASSUME NEW q \in Procs, NEW r \in Procs, q # r, task'[q] # None, task'[r] # None, OnItsWay(task'[q])
       PROVE  /\ task'[r].op = "avatar" => task'[r].old # task'[q].name
              /\ OnItsWay(task'[r]) => task'[r].name # task'[q].name
  <2>1. CASE q # p /\ r # p
    BY <1>7, <1>19, <2>1, OthersApart
  <2>2. CASE q = p
    <3>1. task'[q].name = name /\ name = <<u, requests + 1>>
      BY <1>5, <1>7, <1>14, <1>19, <2>2
    <3>2. Hanging(task'[r])
      BY <1>7, <1>19, <2>2, OthersHang
    <3>3. name[2] = requests + 1 /\ name # None
      BY <1>15, <3>1
    <3>4. task'[r].op = "avatar" => (task'[r].old # None => task'[r].old[2] <= requests)
      BY <3>2 DEF Hanging
    <3>5. OnItsWay(task'[r]) => task'[r].name[2] <= requests
      BY <3>2 DEF Hanging
    <3>6. task'[r].op = "avatar" => task'[r].old # name
      BY <1>8, <3>3, <3>4
    <3>7. OnItsWay(task'[r]) => task'[r].name # name
      BY <1>8, <3>3, <3>5
    <3> QED
      BY <3>1, <3>6, <3>7
  <2>3. CASE r = p
    <3>1. Hanging(task'[q])
      BY <1>7, <1>19, <2>3, OthersHang
    <3>2. \A v \in DOMAIN user : user[v].avatar # task'[q].name
      BY <1>19, <3>1 DEF Hanging
    <3>3. task'[q].name \in Nat \X Nat /\ task'[q].name[2] <= requests
      BY <1>19, <3>1 DEF Hanging
    <3>4. task'[r].old # task'[q].name
      BY <1>1, <1>5, <1>7, <1>10, <2>3, <3>2
    <3>5. OnItsWay(task'[r]) => task'[r].name # task'[q].name
      BY <1>5, <1>7, <1>8, <1>14, <2>3, <3>3
    <3> QED
      BY <3>4, <3>5
  <2> QED
    BY <2>1, <2>2, <2>3
<1>20. Pictures'
  <2>1. \A q \in Procs : task'[q] # None => Hanging(task[q])'
    BY <1>17, <1>18
  <2>2. AvatarIsThere'
    BY <1>11 DEF MembersInv, Pictures, AvatarIsThere, Users
  <2>3. \A v \in DOMAIN user' : user'[v].avatar # None =>
           user'[v].avatar \in Nat \X Nat /\ user'[v].avatar[1] \in {0, v} /\ user'[v].avatar[2] <= requests'
    BY <1>8, <1>11 DEF MembersInv, Pictures
  <2> QED
    BY <1>19, <2>1, <2>2, <2>3 DEF Pictures
<1> QED
  <2>1. requests' \in Nat /\ requests <= requests' /\ UNCHANGED <<code, token, traces, shop>>
    BY <1>8 DEF identity
  <2>2. t.op = "avatar" /\ t.at \in {"upload", "point", "erase"}
    BY <1>4, <1>5
  <2> QED
    BY <1>7, <1>8, <1>9, <1>12, <1>20, <2>1, <2>2, PictureStepKeeps

LEMMA AskPicturesKeeps ==
  ASSUME MembersInv, NEW p \in Procs, NEW u \in Users, AskAvatar(p, u) \/ AskNoAvatar(p, u)
  PROVE  MembersInv'
<1>1. PICK old, name : old = user[u].avatar /\ name = <<u, requests + 1>>
  OBVIOUS
<1>2. CASE AskAvatar(p, u)
  <2>1. PICK t : t = [Idle EXCEPT !.op = "avatar", !.at = "upload", !.user = u, !.old = old, !.name = name]
    OBVIOUS
  <2>2. DOMAIN t = Fields /\ t.op = "avatar" /\ t.at = "upload" /\ t.user = u /\ t.old = old /\ t.name = name
    BY <2>1, IdleShape DEF Fields
  <2>3. Ask(p, t)
    BY <1>1, <1>2, <2>1 DEF AskAvatar
  <2> QED
    BY <1>1, <2>2, <2>3, AskedPictureKeeps
<1>3. CASE AskNoAvatar(p, u)
  <2>1. PICK t : t = [Idle EXCEPT !.op = "avatar", !.at = "point", !.user = u, !.old = old]
    OBVIOUS
  <2>2. DOMAIN t = Fields /\ t.op = "avatar" /\ t.at = "point" /\ t.user = u /\ t.old = old /\ t.name = Idle.name
    BY <2>1, IdleShape DEF Fields
  <2>3. Idle.name = <<>>
    BY DEF Idle
  <2>4. Ask(p, t)
    BY <1>1, <1>3, <2>1 DEF AskNoAvatar
  <2> QED
    BY <1>1, <2>2, <2>3, <2>4, AskedPictureKeeps
<1> QED
  BY <1>2, <1>3

LEMMA UploadAvatarKeeps ==
  ASSUME MembersInv, NEW p \in Procs, UploadAvatar(p)
  PROVE  MembersInv'
<1>1. PICK t0 : t0 = task[p]
  OBVIOUS
<1>2. PICK t : t = [t0 EXCEPT !.at = "point"]
  OBVIOUS
<1>3. DOMAIN t0 = Fields /\ t0.op = "avatar" /\ t0.at = "upload" /\ Placed(doors, t0) /\ Hanging(t0) /\ task[p] # None
  BY <1>1 DEF UploadAvatar, At, MembersInv, Accounts, Placed, Pictures
<1>4. DOMAIN t = Fields /\ t.op = "avatar" /\ t.at = "point" /\ t.user = t0.user /\ t.old = t0.old /\ t.name = t0.name
  BY <1>2, <1>3 DEF Fields
<1>5. Placed(doors, t)
  BY <1>3, <1>4 DEF Placed
<1>6. CASE End(p) /\ Reads
  BY <1>6, EndKeeps
<1>7. CASE /\ picture' = picture \cup {t0.name} /\ Disturb(p, t)
           /\ UNCHANGED <<identity, traces, shop, payout, movement, deposit, setting, method, account>> /\ Goes
  <2>1. /\ Turns(p) /\ task'[p] = t /\ clock' = clock /\ doors' = doors
        /\ requests \in Nat /\ requests' \in Nat /\ requests <= requests'
    BY <1>7, GoesTurns
  <2>2. user' = user /\ UNCHANGED <<code, token, traces, shop>> /\ requests' = requests
    BY <1>7 DEF identity, Goes
  <2>3. SameKeys
    BY <2>2 DEF SameKeys, MembersInv, Accounts
  <2>4. OnItsWay(t) => OnItsWay(t0)
    BY <1>3, <1>4 DEF OnItsWay
  <2>5. Hanging(task[p])'
    BY <1>3, <1>4, <1>7, <2>1, <2>2, <2>4 DEF Hanging, OnItsWay
  <2>6. ASSUME NEW q \in Procs, q # p, task'[q] # None PROVE Hanging(task[q])'
    <3>1. Hanging(task'[q])
      BY <2>1, <2>6, OthersHang
    <3> QED
      BY <1>7, <2>2, <3>1 DEF Hanging, OnItsWay
  <2>7. ASSUME NEW q \in Procs, NEW r \in Procs, q # r, task'[q] # None, task'[r] # None, OnItsWay(task'[q])
        PROVE  /\ task'[r].op = "avatar" => task'[r].old # task'[q].name
               /\ OnItsWay(task'[r]) => task'[r].name # task'[q].name
    <3>1. CASE q # p /\ r # p
      BY <2>1, <2>7, <3>1, OthersApart
    <3>2. CASE q = p
      <4>1. OnItsWay(task[p]) /\ task'[q].name = task[p].name
        BY <1>1, <1>4, <2>1, <2>4, <2>7, <3>2
      <4>2. /\ task[r] # None /\ task'[r].op = task[r].op /\ task'[r].old = task[r].old /\ task'[r].name = task[r].name
            /\ (OnItsWay(task'[r]) <=> OnItsWay(task[r]))
        BY <2>1, <2>7, <3>2, OthersHang
      <4>3. /\ task[r].op = "avatar" => task[r].old # task[p].name
            /\ OnItsWay(task[r]) => task[r].name # task[p].name
        BY <1>3, <2>7, <3>2, <4>1, <4>2 DEF MembersInv, Pictures
      <4> QED
        BY <4>1, <4>2, <4>3
    <3>3. CASE r = p
      BY <1>1, <1>3, <1>4, <2>1, <2>4, <2>7, <3>3, ApartFromMine
    <3> QED
      BY <3>1, <3>2, <3>3
  <2>8. Pictures'
    <3>1. \A q \in Procs : task'[q] # None => Hanging(task[q])'
      BY <2>5, <2>6
    <3>2. AvatarIsThere'
      BY <1>7, <2>2 DEF MembersInv, Pictures, AvatarIsThere, Users
    <3>3. \A v \in DOMAIN user' : user'[v].avatar # None =>
             user'[v].avatar \in Nat \X Nat /\ user'[v].avatar[1] \in {0, v} /\ user'[v].avatar[2] <= requests'
      BY <2>2 DEF MembersInv, Pictures
    <3> QED
      BY <2>7, <3>1, <3>2, <3>3 DEF Pictures
  <2> QED
    BY <1>4, <1>5, <2>1, <2>2, <2>3, <2>8, PictureStepKeeps
<1> QED
  BY <1>1, <1>2, <1>6, <1>7 DEF UploadAvatar

\* The member has the new picture; the one to erase is nobody's, as far as their folder goes.
LEMMA PointAvatarKeeps ==
  ASSUME MembersInv, NEW p \in Procs, PointAvatar(p)
  PROVE  MembersInv'
<1>1. PICK t0 : t0 = task[p]
  OBVIOUS
<1>2. PICK t : t = [t0 EXCEPT !.at = "erase"]
  OBVIOUS
<1>3. DOMAIN t0 = Fields /\ t0.op = "avatar" /\ t0.at = "point" /\ Placed(doors, t0) /\ Hanging(t0) /\ task[p] # None
  BY <1>1 DEF PointAvatar, At, MembersInv, Accounts, Placed, Pictures
<1>4. DOMAIN t = Fields /\ t.op = "avatar" /\ t.at = "erase" /\ t.user = t0.user /\ t.old = t0.old /\ t.name = t0.name
  BY <1>2, <1>3 DEF Fields
<1>5. Placed(doors, t)
  BY <1>3, <1>4 DEF Placed
<1>6. PICK u : u = t0.user
  OBVIOUS
<1>7. PICK new : new = IF t0.name = <<>> THEN None ELSE t0.name
  OBVIOUS
<1>8. PICK r0 : r0 = [user[u] EXCEPT !.avatar = new]
  OBVIOUS
<1>9. user' = [user EXCEPT ![u] = r0] /\ Disturb(p, t) /\ UNCHANGED <<code, token, traces, shop, office>> /\ Goes
  BY <1>1, <1>2, <1>6, <1>7, <1>8 DEF PointAvatar
<1>10. user \in Seq(User) /\ DOMAIN user \subseteq Nat \ {0}
  BY DEF MembersInv, Accounts
<1>11. u \in DOMAIN user /\ (t0.old # None => t0.old \in Nat \X Nat /\ t0.old[2] <= requests)
  BY <1>3, <1>6 DEF Hanging
<1>12. user[u] \in User
  BY <1>10, <1>11
<1>13. new # None => /\ OnItsWay(t0) /\ new = t0.name /\ new \in Nat \X Nat /\ new[1] = u /\ new[2] <= requests /\ t0.old # new
                     /\ new \in picture
  BY <1>3, <1>6, <1>7 DEF Hanging, OnItsWay
<1>14. r0 \in User
  BY <1>8, <1>12, <1>13 DEF User
<1>15. /\ r0.username = user[u].username /\ r0.phone = user[u].phone /\ r0.email = user[u].email
       /\ r0.google = user[u].google /\ r0.avatar = new
  BY <1>8, <1>12 DEF User
<1>16. SameKeys
  BY <1>9, <1>10, <1>11, <1>14, <1>15, RowPut DEF SameKeys
<1>17. /\ DOMAIN user' = DOMAIN user /\ user'[u].avatar = new
       /\ \A v \in DOMAIN user : v # u => user'[v].avatar = user[v].avatar
  BY <1>9, <1>11, <1>15
<1>18. /\ Turns(p) /\ task'[p] = t /\ clock' = clock /\ doors' = doors
       /\ requests \in Nat /\ requests' \in Nat /\ requests <= requests'
  BY <1>9, GoesTurns
<1>19. requests' = requests /\ picture' = picture /\ UNCHANGED <<code, token, traces, shop>>
  BY <1>9 DEF Goes, office
<1>20. \A v \in DOMAIN user : user[v].avatar # None =>
          user[v].avatar \in Nat \X Nat /\ user[v].avatar[1] \in {0, v} /\ user[v].avatar[2] <= requests /\ user[v].avatar \in picture
  BY DEF MembersInv, Pictures, AvatarIsThere, Users
<1>21. Hanging(task[p])'
  <2>1. ~OnItsWay(t)
    BY <1>4 DEF OnItsWay
  <2>2. ASSUME t0.old # None, NEW v \in DOMAIN user, user'[v].avatar = t0.old PROVE t0.old[1] # u
    <3>1. CASE v = u
      BY <1>13, <1>17, <2>2, <3>1
    <3>2. CASE v # u
      BY <1>10, <1>11, <1>17, <1>20, <2>2, <3>2
    <3> QED
      BY <3>1, <3>2
  <2> QED
    BY <1>4, <1>6, <1>11, <1>17, <1>18, <1>19, <2>1, <2>2 DEF Hanging
<1>22. ASSUME NEW q \in Procs, q # p, task'[q] # None PROVE Hanging(task[q])'
  <2>1. Hanging(task'[q])
    BY <1>18, <1>22, OthersHang
  <2>2. /\ task[q] # None /\ task'[q].op = task[q].op /\ task'[q].old = task[q].old /\ task'[q].name = task[q].name
    BY <1>18, <1>22, OthersHang
  <2>3. ASSUME task'[q].op = "avatar", task'[q].at = "erase", task'[q].old # None,
               NEW v \in DOMAIN user, user'[v].avatar = task'[q].old
        PROVE  task'[q].old[1] # task'[q].user
    <3>1. CASE v = u
      <4>1. new = task'[q].old /\ new # None
        BY <1>17, <2>3, <3>1
      <4>2. OnItsWay(task[p]) /\ task[p].name = new
        BY <1>1, <1>13, <4>1
      <4>3. task[q].old # task[p].name
        BY <1>3, <1>22, <2>2, <2>3, <4>2 DEF MembersInv, Pictures
      <4> QED
        BY <2>2, <4>1, <4>2, <4>3
    <3>2. CASE v # u
      BY <1>17, <2>1, <2>3, <3>2 DEF Hanging
    <3> QED
      BY <3>1, <3>2
  <2>4. ASSUME OnItsWay(task'[q]), NEW v \in DOMAIN user PROVE user'[v].avatar # task'[q].name
    <3>1. CASE v = u
      <4>1. task'[q].name # None
        BY <2>1, <2>4, NoneIsNothing DEF Hanging
      <4>2. OnItsWay(t0) => t0.name # task'[q].name
        BY <1>1, <1>3, <1>18, <1>22, <2>4, ApartFromMine
      <4> QED
        BY <1>13, <1>17, <3>1, <4>1, <4>2
    <3>2. CASE v # u
      BY <1>17, <2>1, <2>4, <3>2 DEF Hanging
    <3> QED
      BY <3>1, <3>2
  <2> QED
    BY <1>17, <1>19, <2>1, <2>3, <2>4 DEF Hanging, OnItsWay
<1>23. ASSUME NEW q \in Procs, NEW r \in Procs, q # r, task'[q] # None, task'[r] # None, OnItsWay(task'[q])
       PROVE  /\ task'[r].op = "avatar" => task'[r].old # task'[q].name
              /\ OnItsWay(task'[r]) => task'[r].name # task'[q].name
  <2>1. CASE q # p /\ r # p
    BY <1>18, <1>23, <2>1, OthersApart
  <2>2. CASE q = p
    BY <1>4, <1>18, <1>23, <2>2 DEF OnItsWay
  <2>3. CASE r = p
    <3>1. t0.old # task'[q].name
      BY <1>1, <1>3, <1>18, <1>23, <2>3, ApartFromMine
    <3>2. ~OnItsWay(t)
      BY <1>4 DEF OnItsWay
    <3> QED
      BY <1>4, <1>18, <2>3, <3>1, <3>2
  <2> QED
    BY <2>1, <2>2, <2>3
<1>24. Pictures'
  <2>1. \A q \in Procs : task'[q] # None => Hanging(task[q])'
    BY <1>21, <1>22
  <2>2. \A v \in DOMAIN user' : user'[v].avatar # None =>
           /\ user'[v].avatar \in Nat \X Nat /\ user'[v].avatar[1] \in {0, v} /\ user'[v].avatar[2] <= requests'
           /\ user'[v].avatar \in picture'
    BY <1>13, <1>17, <1>19, <1>20
  <2>3. AvatarIsThere'
    BY <2>2 DEF AvatarIsThere, Users
  <2> QED
    BY <1>23, <2>1, <2>2, <2>3 DEF Pictures
<1> QED
  BY <1>4, <1>5, <1>16, <1>18, <1>19, <1>24, PictureStepKeeps

\* What is erased is nobody's, and on nobody's way.
LEMMA EraseAvatarKeeps ==
  ASSUME MembersInv, NEW p \in Procs, EraseAvatar(p)
  PROVE  MembersInv'
<1>1. PICK t : t = task[p]
  OBVIOUS
<1>2. t.op = "avatar" /\ t.at = "erase" /\ Hanging(t) /\ task[p] # None
  BY <1>1 DEF EraseAvatar, At, MembersInv, Pictures
<1>3. CASE End(p) /\ Reads
  BY <1>3, EndKeeps
<1>4. CASE /\ picture' = picture \ Replaced(t.user, t.old) /\ Disturb(p, None)
           /\ UNCHANGED <<identity, traces, shop, payout, movement, deposit, setting, method, account>> /\ Goes
  <2>1. /\ Turns(p) /\ task'[p] = None /\ clock' = clock /\ doors' = doors
        /\ requests \in Nat /\ requests' \in Nat /\ requests <= requests'
    BY <1>4, GoesTurns
  <2>2. user' = user /\ UNCHANGED <<code, token, traces, shop>> /\ requests' = requests
    BY <1>4 DEF identity, Goes
  <2>3. SameKeys
    BY <2>2 DEF SameKeys, MembersInv, Accounts
  <2>4. \A o \in picture : o \in picture' \/ (o = t.old /\ o[1] = t.user)
    BY <1>4 DEF Replaced
  <2>5. ASSUME NEW q \in Procs, q # p, task'[q] # None PROVE Hanging(task[q])'
    <3>1. Hanging(task'[q])
      BY <2>1, <2>5, OthersHang
    <3>2. OnItsWay(task'[q]) => t.old # task'[q].name
      BY <1>1, <1>2, <2>1, <2>5, ApartFromMine
    <3> QED
      BY <2>2, <2>4, <3>1, <3>2 DEF Hanging, OnItsWay
  <2>6. Pictures'
    <3>1. \A q \in Procs : task'[q] # None => Hanging(task[q])'
      BY <2>1, <2>5
    <3>2. AvatarIsThere'
      <4> SUFFICES ASSUME NEW u \in DOMAIN user, user[u].avatar # None PROVE user[u].avatar \in picture'
        BY <2>2 DEF AvatarIsThere, Users
      <4>1. user[u].avatar \in picture
        BY DEF MembersInv, Pictures, AvatarIsThere, Users
      <4>2. user[u].avatar = t.old => t.old[1] # t.user
        BY <1>2 DEF Hanging
      <4> QED
        BY <2>4, <4>1, <4>2
    <3>3. \A v \in DOMAIN user' : user'[v].avatar # None =>
             user'[v].avatar \in Nat \X Nat /\ user'[v].avatar[1] \in {0, v} /\ user'[v].avatar[2] <= requests'
      BY <2>2 DEF MembersInv, Pictures
    <3>4. \A q, r \in Procs : /\ q # r /\ task'[q] # None /\ task'[r] # None /\ OnItsWay(task'[q])
                              => /\ task'[r].op = "avatar" => task'[r].old # task'[q].name
                                 /\ OnItsWay(task'[r]) => task'[r].name # task'[q].name
      BY <2>1, OthersApart
    <3> QED
      BY <3>1, <3>2, <3>3, <3>4 DEF Pictures
  <2> QED
    BY <2>1, <2>2, <2>3, <2>6, PictureStepKeeps
<1> QED
  BY <1>1, <1>3, <1>4 DEF EraseAvatar

-----------------------------------------------------------------------------
(* Steps that write: accounts *)

\* A new account: every sign-in with Google under way has somebody to collide with.
LEMMA InsertKeeps ==
  ASSUME MembersInv, NEW p \in Procs, NEW t, NEW r \in User, r.avatar = None, Unique(r), Insert(r), Disturb(p, t), Goes,
         Placed(doors, t), t.op \in {"register", "verify", "google"}, t.at \in {"issue", "gate"}, Carries(DOMAIN user \cup {Len(user) + 1}, t)
  PROVE  MembersInv'
<1>1. PICK n : n = Len(user) + 1
  OBVIOUS
<1>2. user \in Seq(User) /\ Apart(user) /\ DOMAIN user \subseteq Nat \ {0}
  BY DEF MembersInv, Accounts
<1>3. /\ user' \in Seq(User) /\ DOMAIN user' = DOMAIN user \cup {n} /\ user'[n] = r /\ n \notin DOMAIN user
      /\ (\A u \in DOMAIN user : user'[u] = user[u]) /\ Len(user') = Len(user) + 1 /\ Len(user) \in Nat
  BY <1>1, <1>2 DEF Insert
<1>4. /\ wallet' = [u \in DOMAIN user' |-> IF u \in DOMAIN user THEN wallet[u] ELSE 0]
      /\ locked' = [u \in DOMAIN user' |-> IF u \in DOMAIN user THEN locked[u] ELSE None]
      /\ touched' = [u \in DOMAIN user' |-> IF u \in DOMAIN user THEN touched[u] ELSE None]
      /\ code' = code /\ token' = token /\ session' = session /\ watch' = watch /\ position' = position
      /\ plan' = plan /\ period' = period /\ level' = level /\ picture' = picture
  BY DEF Insert, Users, office
<1>5. /\ Turns(p) /\ task'[p] = t /\ clock' = clock /\ doors' = doors
      /\ requests \in Nat /\ requests' \in Nat /\ requests <= requests'
  BY GoesTurns
<1>6. Apart(user')
  <2> SUFFICES ASSUME NEW u \in DOMAIN user', NEW v \in DOMAIN user', Clash(user'[u], user'[v]) PROVE u = v
    BY DEF Apart
  <2>1. CASE u # n /\ v # n
    BY <1>2, <1>3, <2>1 DEF Apart
  <2>2. CASE u = n /\ v # n
    BY <1>3, <2>2 DEF Unique, Users
  <2>3. CASE u # n /\ v = n
    <3>1. u \in DOMAIN user /\ Clash(user[u], r)
      BY <1>3, <2>3
    <3>2. Clash(r, user[u])
      BY <3>1 DEF Clash
    <3> QED
      BY <3>1, <3>2 DEF Unique, Users
  <2> QED
    BY <2>1, <2>2, <2>3
<1>7. RowsKept
  <2>1. /\ \A s \in DOMAIN session' : session'[s].user \in DOMAIN user'
        /\ \A c \in DOMAIN code' : code'[c].consumed <= 1
        /\ code' \in Seq(Code) /\ session' \in Seq(Session) /\ clock' \in Nat
    BY <1>3, <1>4, <1>5 DEF MembersInv, Accounts
  <2> QED
    BY <1>3, <1>5, <1>6, <2>1 DEF RowsKept
<1>8. Carries(DOMAIN user', t)
  BY <1>1, <1>3
<1>9. Refreshing(token, t) /\ ~Succeeds(t) /\ Resolving(user', t) /\ Paying(p, t) /\ Climbing(t) /\ Beating(t) /\ Touching(t) /\ t.op # "avatar"
  BY DEF Refreshing, Succeeds, Resolving, Paying, Climbing, Beating, Touching
<1>10. TokensRest(t) /\ RanksRest(t) /\ WatchesRest(t)
  BY <1>4, <1>9 DEF TokensRest, RanksRest, WatchesRest
<1>11. Signing'
  <2>1. ASSUME NEW q \in Procs, q # p, task'[q] # None PROVE Resolving(user', task'[q])
    <3>1. task[q] # None /\ Kept(task[q], task'[q])
      BY <1>5, <2>1 DEF Turns
    <3>2. Resolving(user, task'[q])
      BY <3>1, KeptFits DEF MembersInv, Signing
    <3>3. ASSUME task'[q].op = "google", task'[q].at \in {"find", "email", "link", "name", "create"}
          PROVE  /\ task'[q].second \in Nat /\ task'[q].n \in Nat /\ Len(user') + 1 >= task'[q].second + task'[q].n
                 /\ Joined(user', task'[q])
      BY <1>3, <3>2, <3>3 DEF Resolving, Joined
    <3>4. ASSUME task'[q].op = "google", task'[q].at = "link"
          PROVE  task'[q].user \in DOMAIN user' /\ user'[task'[q].user].email = task'[q].google.email
      BY <1>3, <3>2, <3>4 DEF Resolving
    <3>5. ASSUME task'[q].op = "google", task'[q].at = "collided" PROVE task'[q].second \in Nat /\ Len(user') >= task'[q].second + MaxTries
      <4>1. task'[q].second \in Nat /\ Len(user) >= task'[q].second + MaxTries
        BY <3>2, <3>5 DEF Resolving
      <4> QED
        BY <1>3, <4>1, TriesAreCounted
    <3> QED
      BY <3>3, <3>4, <3>5 DEF Resolving
  <2> QED
    BY <1>5, <1>9, <2>1 DEF Signing
<1>12. Shopping'
  <2>1. wallet' \in [DOMAIN user' -> Nat] /\ DOMAIN locked' = DOMAIN user'
    BY <1>4 DEF MembersInv, Shopping
  <2>2. \A u \in DOMAIN user : wallet'[u] = wallet[u] /\ locked'[u] = locked[u] /\ u \in DOMAIN user'
    BY <1>3, <1>4
  <2>3. ASSUME NEW q \in Procs, q # p, task'[q] # None PROVE Paying(q, task[q])'
    <3>1. Paying(q, task'[q])
      BY <1>5, <2>3, OthersPay
    <3> QED
      BY <1>4, <2>2, <3>1 DEF Paying
  <2>4. \A q \in Procs : task'[q] # None => Paying(q, task[q])'
    BY <1>5, <2>3 DEF Paying
  <2>5. \A i \in DOMAIN period' : period'[i].user \in DOMAIN user'
    BY <1>3, <1>4 DEF MembersInv, Shopping
  <2> QED
    BY <1>4, <2>1, <2>4, <2>5 DEF MembersInv, Shopping, DaysAreNotPaidTwice
<1>13. Touches'
  <2>1. DOMAIN touched' = DOMAIN user' /\ \A u \in DOMAIN user : touched'[u] = touched[u] /\ u \in DOMAIN user'
    BY <1>3, <1>4
  <2>2. ASSUME NEW q \in Procs, q # p, task'[q] # None
        PROVE  Touching(task[q])' /\ Resumes(task'[q], q)
    <3>1. task[q] # None /\ Kept(task[q], task'[q])
      BY <1>5, <2>2 DEF Turns
    <3>2. Touching(task'[q])
      BY <3>1, KeptFits DEF MembersInv, Touches
    <3> QED
      BY <1>4, <1>5, <2>1, <3>1, <3>2 DEF Touching, Resumes, Kept
  <2>3. Touching(task[p])'
    BY <1>5 DEF Touching
  <2>4. OneTouchPerWindow'
    <3>1. \A q \in Procs : task'[q] # None => Resumes(task'[q], q)
      BY <1>5, <2>2 DEF Resumes
    <3> QED
      BY <1>4, <3>1 DEF MembersInv, Touches, OneTouchPerWindow, Resumes
  <2>5. \A q \in Procs : task'[q] # None => Touching(task[q])'
    BY <2>2, <2>3
  <2> QED
    BY <2>1, <2>4, <2>5 DEF Touches
<1>14. Pictures'
  <2>1. \A u \in DOMAIN user' : user'[u].avatar # None => u \in DOMAIN user /\ user'[u].avatar = user[u].avatar
    BY <1>3
  <2>2. ASSUME NEW q \in Procs, q # p, task'[q] # None PROVE Hanging(task[q])'
    <3>1. Hanging(task'[q])
      BY <1>5, <2>2, OthersHang
    <3>2. OnItsWay(task'[q]) => task'[q].name # None
      BY <3>1, NoneIsNothing DEF Hanging
    <3>3. task'[q].op = "avatar" => task'[q].user \in DOMAIN user'
      BY <1>3, <3>1 DEF Hanging
    <3>4. OnItsWay(task'[q]) => \A u \in DOMAIN user' : user'[u].avatar # task'[q].name
      BY <2>1, <3>1, <3>2 DEF Hanging
    <3>5. task'[q].op = "avatar" /\ task'[q].at = "erase" /\ task'[q].old # None =>
             \A u \in DOMAIN user' : user'[u].avatar = task'[q].old => task'[q].old[1] # task'[q].user
      BY <2>1, <3>1 DEF Hanging
    <3>6. requests' = requests
      BY DEF Goes
    <3> QED
      BY <1>4, <3>1, <3>3, <3>4, <3>5, <3>6 DEF Hanging, OnItsWay
  <2>3. Hanging(task[p])'
    BY <1>5 DEF Hanging, OnItsWay
  <2>4. \A q \in Procs : task'[q] # None => Hanging(task[q])'
    BY <2>2, <2>3
  <2>5. \A q, s \in Procs : /\ q # s /\ task'[q] # None /\ task'[s] # None /\ OnItsWay(task'[q])
                            => /\ task'[s].op = "avatar" => task'[s].old # task'[q].name
                               /\ OnItsWay(task'[s]) => task'[s].name # task'[q].name
    <3>1. ~OnItsWay(task'[p]) /\ task'[p].op # "avatar"
      BY <1>5 DEF OnItsWay
    <3>2. ASSUME NEW q \in Procs, NEW s \in Procs, q # s, task'[q] # None, task'[s] # None, OnItsWay(task'[q])
          PROVE  /\ task'[s].op = "avatar" => task'[s].old # task'[q].name
                 /\ OnItsWay(task'[s]) => task'[s].name # task'[q].name
      <4>1. q # p
        BY <3>1, <3>2
      <4>2. CASE s = p
        BY <3>1, <4>2
      <4>3. CASE s # p
        BY <1>5, <3>2, <4>1, <4>3, OthersApart
      <4> QED
        BY <4>2, <4>3
    <3> QED
      BY <3>2
  <2>6. AvatarIsThere'
    BY <1>4, <2>1 DEF MembersInv, Pictures, AvatarIsThere, Users
  <2>7. \A u \in DOMAIN user' : user'[u].avatar # None =>
           user'[u].avatar \in Nat \X Nat /\ user'[u].avatar[1] \in {0, u} /\ user'[u].avatar[2] <= requests'
    BY <2>1 DEF MembersInv, Pictures, Goes
  <2> QED
    BY <2>4, <2>5, <2>6, <2>7 DEF Pictures
<1> QED
  BY <1>5, <1>7, <1>8, <1>10, <1>11, <1>12, <1>13, <1>14, WriteKeeps

LEMMA NewUserType ==
  ASSUME MembersInv, NEW name \in STRING \X Nat, NEW phone \in Phones \cup {None},
         NEW email \in {g.email : g \in Identities} \cup {None}, NEW google \in {g.id : g \in Identities} \cup {None},
         NEW r, r = NewUser(name, phone, email, google)
  PROVE  r \in User /\ r.username = name /\ r.phone = phone /\ r.email = email /\ r.google = google /\ r.avatar = None
<1>1. clock \in Nat
  BY DEF MembersInv, Accounts
<1> QED
  BY <1>1 DEF NewUser, User

LEMMA RegisterKeeps ==
  ASSUME MembersInv, NEW p \in Procs, Register(p)
  PROVE  MembersInv'
<1>1. PICK t0 : t0 = task[p]
  OBVIOUS
<1>2. PICK r : r = NewUser(t0.name, None, None, None)
  OBVIOUS
<1>3. t0.op = "register" /\ Placed(doors, t0) /\ Carries(DOMAIN user, t0) /\ DOMAIN t0 = Fields
  BY <1>1 DEF Register, At, MembersInv, Accounts, Placed
<1>4. r \in User /\ r.avatar = None
  <2>1. t0.name \in STRING \X Nat
    BY <1>3 DEF Carries
  <2> QED
    BY <1>2, <2>1, NewUserType
<1>5. CASE ~Unique(r) /\ End(p) /\ Reads
  BY <1>5, EndKeeps
<1>6. CASE Unique(r) /\ Insert(r) /\ Disturb(p, [t0 EXCEPT !.at = "issue", !.user = Len(user) + 1]) /\ Goes
  <2>1. PICK n : n = Len(user) + 1
    OBVIOUS
  <2>2. PICK t : t = [t0 EXCEPT !.at = "issue", !.user = n]
    OBVIOUS
  <2>3. DOMAIN t = Fields /\ t.at = "issue" /\ t.user = n /\ t.op = "register" /\ t.name = t0.name
    BY <1>3, <2>2 DEF Fields
  <2>4. Placed(doors, t) /\ Carries(DOMAIN user \cup {n}, t)
    BY <1>3, <2>3 DEF Placed, Carries
  <2>5. Disturb(p, t) /\ Carries(DOMAIN user \cup {Len(user) + 1}, t)
    BY <1>6, <2>1, <2>2, <2>4
  <2> QED
    BY <1>4, <1>6, <2>3, <2>4, <2>5, InsertKeeps
<1> QED
  BY <1>1, <1>2, <1>5, <1>6 DEF Register

LEMMA CreateForPhoneKeeps ==
  ASSUME MembersInv, NEW p \in Procs, CreateForPhone(p)
  PROVE  MembersInv'
<1>1. PICK t0 : t0 = task[p]
  OBVIOUS
<1>2. PICK r : r = NewUser(<<t0.phone, 1>>, t0.phone, None, None)
  OBVIOUS
<1>3. t0.op = "verify" /\ Placed(doors, t0) /\ Carries(DOMAIN user, t0) /\ DOMAIN t0 = Fields
  BY <1>1 DEF CreateForPhone, At, MembersInv, Accounts, Placed
<1>4. r \in User /\ r.avatar = None
  <2>1. t0.phone \in Phones /\ <<t0.phone, 1>> \in STRING \X Nat
    BY <1>3, IdentitiesStay DEF Carries
  <2> QED
    BY <1>2, <2>1, NewUserType
<1>5. CASE ~Unique(r) /\ End(p) /\ Reads
  BY <1>5, EndKeeps
<1>6. CASE Unique(r) /\ Insert(r) /\ Disturb(p, [t0 EXCEPT !.at = "gate", !.user = Len(user) + 1]) /\ Goes
  <2>1. PICK n : n = Len(user) + 1
    OBVIOUS
  <2>2. PICK t : t = [t0 EXCEPT !.at = "gate", !.user = n]
    OBVIOUS
  <2>3. DOMAIN t = Fields /\ t.at = "gate" /\ t.user = n /\ t.op = "verify" /\ t.client = t0.client /\ t.phone = t0.phone
    BY <1>3, <2>2 DEF Fields
  <2>4. Placed(doors, t) /\ Carries(DOMAIN user \cup {n}, t)
    BY <1>3, <2>3 DEF Placed, Carries
  <2>5. Disturb(p, t) /\ Carries(DOMAIN user \cup {Len(user) + 1}, t)
    BY <1>6, <2>1, <2>2, <2>4
  <2> QED
    BY <1>4, <1>6, <2>3, <2>4, <2>5, InsertKeeps
<1> QED
  BY <1>1, <1>2, <1>5, <1>6 DEF CreateForPhone

\* A collision: the name or the identity was free when this pass looked, so that somebody has
\* come since.
LEMMA CreateForGoogleKeeps ==
  ASSUME MembersInv, NEW p \in Procs, CreateForGoogle(p)
  PROVE  MembersInv'
<1>1. PICK t0 : t0 = task[p]
  OBVIOUS
<1>2. PICK r : r = NewUser(t0.name, None, t0.google.email, t0.google.id)
  OBVIOUS
<1>3. t0.op = "google" /\ t0.at = "create" /\ task[p] # None /\ Placed(doors, t0) /\ Carries(DOMAIN user, t0)
      /\ Resolving(user, t0) /\ DOMAIN t0 = Fields
  BY <1>1 DEF CreateForGoogle, At, MembersInv, Accounts, Signing, Placed
<1>4. t0.name \in STRING \X Nat /\ t0.google \in Identities
  BY <1>3 DEF Carries
<1>5. /\ r \in User /\ r.avatar = None /\ r.username = t0.name /\ r.phone = None
      /\ r.email = t0.google.email /\ r.google = t0.google.id
  BY <1>2, <1>4, NewUserType
<1>6. CASE ~Unique(r) /\ TryAgain(p)
  <2>1. PICK u \in DOMAIN user : Clash(r, user[u])
    BY <1>6 DEF Unique, Users
  <2>2. user[u].username = t0.name \/ user[u].email = t0.google.email \/ user[u].google = t0.google.id
    BY <1>5, <2>1 DEF Clash
  <2>3. Joined(user, t0)
    BY <1>3, <2>2 DEF Resolving, Unknown
  <2> QED
    BY <1>1, <1>3, <1>6, <2>3, TryAgainKeeps
<1>7. CASE Unique(r) /\ Insert(r) /\ Disturb(p, [t0 EXCEPT !.at = "gate", !.user = Len(user) + 1]) /\ Goes
  <2>1. PICK n : n = Len(user) + 1
    OBVIOUS
  <2>2. PICK t : t = [t0 EXCEPT !.at = "gate", !.user = n]
    OBVIOUS
  <2>3. DOMAIN t = Fields /\ t.at = "gate" /\ t.user = n /\ t.op = "google" /\ t.client = t0.client /\ t.google = t0.google
    BY <1>3, <2>2 DEF Fields
  <2>4. Placed(doors, t) /\ Carries(DOMAIN user \cup {n}, t)
    BY <1>3, <2>3 DEF Placed, Carries
  <2>5. Disturb(p, t) /\ Carries(DOMAIN user \cup {Len(user) + 1}, t)
    BY <1>7, <2>1, <2>2, <2>4
  <2> QED
    BY <1>5, <1>7, <2>3, <2>4, <2>5, InsertKeeps
<1> QED
  BY <1>1, <1>2, <1>6, <1>7 DEF CreateForGoogle

\* Somebody else has the id: unless somebody has come since this pass looked, they would share an
\* email with the account it found.
LEMMA TakenMeansJoined ==
  ASSUME MembersInv, NEW t, t.op = "google", t.at = "link", t.google \in Identities, Resolving(user, t),
         NEW v \in DOMAIN user, v # t.user, user[v].google = t.google.id
  PROVE  Joined(user, t)
<1>1. t.user \in DOMAIN user /\ user[t.user].email = t.google.email
  BY DEF Resolving
<1>2. SUFFICES ASSUME Linked(user, t.google) PROVE FALSE
  BY DEF Resolving
<1>3. user[v].email = t.google.email /\ t.google.email # None
  BY <1>2, IdentitiesStay DEF Linked
<1>4. Clash(user[t.user], user[v])
  BY <1>1, <1>3 DEF Clash
<1> QED
  BY <1>1, <1>4 DEF MembersInv, Accounts, Apart

\* The account found by its email is linked: for everybody else under way, that says nothing new.
LEMMA LinkKeeps ==
  ASSUME MembersInv, NEW p \in Procs, Link(p)
  PROVE  MembersInv'
<1>1. PICK t0 : t0 = task[p]
  OBVIOUS
<1>2. /\ t0.op = "google" /\ t0.at = "link" /\ task[p] # None /\ Placed(doors, t0) /\ Carries(DOMAIN user, t0)
      /\ Resolving(user, t0) /\ DOMAIN t0 = Fields
  BY <1>1 DEF Link, At, MembersInv, Accounts, Signing, Placed
<1>3. PICK u : u = t0.user
  OBVIOUS
<1>4. PICK g : g = t0.google
  OBVIOUS
<1>5. u \in DOMAIN user /\ user[u].email = g.email /\ g \in Identities /\ user \in Seq(User) /\ Apart(user)
  BY <1>2, <1>3, <1>4 DEF Resolving, Carries, MembersInv, Accounts
<1>6. CASE Having("google", g.id) \ {u} # {} /\ TryAgain(p)
  <2>1. PICK v \in DOMAIN user : v # u /\ user[v].google = g.id
    BY <1>6 DEF Having, Users
  <2>2. Joined(user, t0)
    BY <1>2, <1>3, <1>4, <1>5, <2>1, TakenMeansJoined
  <2> QED
    BY <1>1, <1>2, <1>6, <2>2, TryAgainKeeps
<1>7. CASE /\ Having("google", g.id) \ {u} = {}
           /\ user' = [user EXCEPT ![u].google = g.id]
           /\ Disturb(p, [t0 EXCEPT !.at = "gate", !.active = user[u].active])
           /\ UNCHANGED <<code, token, traces, shop, office>> /\ Goes
  <2>1. PICK r : r = [user[u] EXCEPT !.google = g.id]
    OBVIOUS
  <2>2. user[u] \in User
    BY <1>5
  <2>3. /\ r \in User /\ r.username = user[u].username /\ r.phone = user[u].phone /\ r.email = user[u].email
        /\ r.google = g.id /\ r.avatar = user[u].avatar
    BY <1>5, <2>1, <2>2 DEF User
  <2>4. user' = [user EXCEPT ![u] = r]
    BY <1>7, <2>1
  <2>5. /\ user' \in Seq(User) /\ Len(user') = Len(user) /\ DOMAIN user' = DOMAIN user
        /\ \A v \in DOMAIN user : user'[v] = IF v = u THEN r ELSE user[v]
    BY <1>5, <2>3, <2>4, RowPut
  <2>6. PICK t : t = [t0 EXCEPT !.at = "gate", !.active = user[u].active]
    OBVIOUS
  <2>7. /\ DOMAIN t = Fields /\ t.op = "google" /\ t.at = "gate" /\ t.user = t0.user /\ t.google = t0.google
        /\ t.client = t0.client
    BY <1>2, <2>6 DEF Fields
  <2>8. /\ Turns(p) /\ task'[p] = t /\ clock' = clock /\ doors' = doors
        /\ requests \in Nat /\ requests' \in Nat /\ requests <= requests'
    BY <1>7, <2>6, GoesTurns
  <2>9. /\ code' = code /\ token' = token /\ session' = session /\ watch' = watch /\ position' = position
        /\ plan' = plan /\ period' = period /\ wallet' = wallet /\ level' = level /\ picture' = picture
        /\ touched' = touched /\ locked' = locked
    BY <1>7 DEF traces, shop, office
  <2>10. \A v \in DOMAIN user : v # u => user[v].google # g.id
    BY <1>7 DEF Having, Users
  <2>11. Apart(user')
    <3> SUFFICES ASSUME NEW v \in DOMAIN user, NEW w \in DOMAIN user, Clash(user'[v], user'[w]), v # w PROVE FALSE
      BY <2>5 DEF Apart
    <3>1. user'[v].google # user'[w].google \/ (v # u /\ w # u)
      BY <2>3, <2>5, <2>10
    <3>2. /\ user'[v].username = user[v].username /\ user'[v].phone = user[v].phone /\ user'[v].email = user[v].email
          /\ user'[w].username = user[w].username /\ user'[w].phone = user[w].phone /\ user'[w].email = user[w].email
          /\ v # u => user'[v] = user[v]
          /\ w # u => user'[w] = user[w]
      BY <2>3, <2>5
    <3>3. Clash(user[v], user[w])
      BY <3>1, <3>2 DEF Clash
    <3> QED
      BY <1>5, <3>3 DEF Apart
  <2>12. RowsKept
    BY <2>5, <2>8, <2>9, <2>11 DEF RowsKept, MembersInv, Accounts
  <2>13. Placed(doors, t) /\ Carries(DOMAIN user', t)
    BY <1>2, <1>3, <1>5, <2>5, <2>7 DEF Placed, Carries
  <2>14. Signing'
    <3>1. ASSUME NEW q \in Procs, q # p, task'[q] # None PROVE Resolving(user', task'[q])
      <4>1. PICK s : s = task'[q]
        OBVIOUS
      <4>2. task[q] # None /\ Kept(task[q], task'[q])
        BY <2>8, <3>1 DEF Turns
      <4>3. Resolving(user, s) /\ Carries(DOMAIN user, s)
        BY <4>1, <4>2, KeptFits DEF MembersInv, Signing, Accounts
      <4>4. SUFFICES ASSUME s.op = "google" PROVE Resolving(user', s)
        BY <4>1 DEF Resolving
      <4>5. s.google \in Identities /\ (s.google.id = g.id => s.google = g)
        BY <1>5, <4>3, <4>4, IdentitiesStay DEF Carries
      <4>6. /\ \A v \in DOMAIN user : user'[v].email = user[v].email /\ user'[v].username = user[v].username
            /\ \A v \in DOMAIN user : user'[v].google = user[v].google \/ (v = u /\ user'[v].google = g.id)
        BY <2>3, <2>5
      <4>7. Linked(user, s.google) => Linked(user', s.google)
        BY <1>5, <2>5, <4>5, <4>6 DEF Linked
      <4>8. Unknown(user, s.google) => Unknown(user', s.google)
        BY <1>5, <2>5, <4>5, <4>6 DEF Unknown
      <4>9. Joined(user', s) <=> Joined(user, s)
        BY <2>5 DEF Joined
      <4> QED
        BY <2>5, <4>3, <4>6, <4>7, <4>8, <4>9 DEF Resolving
    <3>2. Resolving(user', t)
      BY <2>7 DEF Resolving
    <3> QED
      BY <2>8, <3>1, <3>2 DEF Signing
  <2>15. Refreshing(token, t) /\ ~Succeeds(t) /\ Paying(p, t) /\ Climbing(t) /\ Touching(t) /\ Resumes(t, p) /\ Beating(t) /\ t.op # "avatar"
    BY <2>7 DEF Refreshing, Succeeds, Paying, Climbing, Touching, Resumes, Beating
  <2>16. SameAvatars
    BY <2>3, <2>5 DEF SameAvatars
  <2>17. /\ TokensRest(t) /\ ShoppingRests(p, t) /\ RanksRest(t) /\ TouchesRest(p, t) /\ WatchesRest(t) /\ PicturesRest(t)
    BY <2>5, <2>8, <2>9, <2>15, <2>16 DEF TokensRest, ShoppingRests, RanksRest, TouchesRest, WatchesRest, PicturesRest
  <2> QED
    BY <2>8, <2>12, <2>13, <2>14, <2>17, WriteKeeps
<1> QED
  BY <1>1, <1>3, <1>4, <1>6, <1>7 DEF Link

-----------------------------------------------------------------------------
(* The clock and a restart *)

LEMMA TimePasses ==
  ASSUME MembersInv, Tick \/ UNCHANGED vars
  PROVE  MembersInv'
<1>1. /\ user' = user /\ code' = code /\ token' = token /\ session' = session /\ watch' = watch /\ position' = position
      /\ plan' = plan /\ period' = period /\ wallet' = wallet /\ level' = level /\ picture' = picture
      /\ touched' = touched /\ locked' = locked /\ task' = task /\ doors' = doors /\ requests' = requests
      /\ clock \in Nat /\ clock' \in Nat /\ clock <= clock'
  BY DEF Tick, vars, identity, traces, shop, office, MembersInv, Accounts
<1>2. Accounts'
  BY <1>1 DEF MembersInv, Accounts
<1>3. Tokens' /\ Signing' /\ Ranks' /\ Watches'
  BY <1>1 DEF MembersInv, Tokens, Signing, Ranks, Watches
<1>4. Shopping'
  <2>1. ASSUME NEW p \in Procs, task'[p] # None PROVE Paying(p, task[p])'
    <3>1. Paying(p, task[p])
      BY <1>1, <2>1 DEF MembersInv, Shopping
    <3> QED
      BY <1>1, <3>1 DEF Paying
  <2>2. \A p \in Procs : task'[p] # None => Paying(p, task[p])'
    BY <2>1
  <2> QED
    BY <1>1, <2>2 DEF MembersInv, Shopping, DaysAreNotPaidTwice
<1>5. Touches'
  <2>1. ASSUME NEW p \in Procs, task'[p] # None PROVE Touching(task[p])'
    <3>1. Touching(task[p])
      BY <1>1, <2>1 DEF MembersInv, Touches
    <3> QED
      BY <1>1, <3>1 DEF Touching
  <2>2. \A p \in Procs : task'[p] # None => Touching(task[p])'
    BY <2>1
  <2> QED
    BY <1>1, <2>2 DEF MembersInv, Touches, OneTouchPerWindow
<1>6. Pictures'
  <2>1. ASSUME NEW p \in Procs, task'[p] # None PROVE Hanging(task[p])'
    <3>1. Hanging(task[p])
      BY <1>1, <2>1 DEF MembersInv, Pictures
    <3> QED
      BY <1>1, <3>1 DEF Hanging, OnItsWay
  <2>2. \A p \in Procs : task'[p] # None => Hanging(task[p])'
    BY <2>1
  <2>3. AvatarIsThere'
    BY <1>1 DEF MembersInv, Pictures, AvatarIsThere, Users
  <2> QED
    BY <1>1, <2>2, <2>3 DEF MembersInv, Pictures, OnItsWay
<1> QED
  BY <1>2, <1>3, <1>4, <1>5, <1>6 DEF MembersInv

LEMMA RestartKeeps ==
  ASSUME MembersInv, Restart
  PROVE  MembersInv'
<1>1. /\ user' = user /\ code' = code /\ token' = token /\ session' = session /\ watch' = watch /\ position' = position
      /\ plan' = plan /\ period' = period /\ wallet' = wallet /\ level' = level /\ picture' = picture
      /\ clock' = clock /\ doors' = doors /\ requests' = requests
      /\ DOMAIN touched' = DOMAIN touched /\ DOMAIN locked' = DOMAIN locked
      /\ DOMAIN task' = Procs /\ \A p \in Procs : task'[p] = None
  BY DEF Restart, identity, office
<1>2. Accounts' /\ Tokens' /\ Signing' /\ Ranks' /\ Watches'
  BY <1>1 DEF MembersInv, Accounts, Tokens, Signing, Ranks, Watches
<1>3. Shopping'
  BY <1>1 DEF MembersInv, Shopping, DaysAreNotPaidTwice
<1>4. Touches'
  BY <1>1 DEF MembersInv, Touches, OneTouchPerWindow
<1>5. Pictures'
  BY <1>1 DEF MembersInv, Pictures, AvatarIsThere, Users
<1> QED
  BY <1>2, <1>3, <1>4, <1>5 DEF MembersInv

-----------------------------------------------------------------------------
(* The first state *)

LEMMA StartKeeps ==
  ASSUME NEW s \in Start, user = s.user, code = s.code, token = s.token, session = s.session, plan = s.plan,
         deposit = s.deposit, level = s.level, requests = s.requests,
         watch = <<>>, position = <<>>, period = <<>>, wallet = [u \in Users |-> Deposited(u)],
         picture = {user[u].avatar : u \in Users} \ {None}, touched = Nobody(user), locked = Nobody(user), clock = 0,
         task = [p \in Procs |-> None]
  PROVE  MembersInv
<1>1. /\ user \in Seq(User) /\ code \in Seq(Code) /\ token \in Seq(Token) /\ session \in Seq(Session)
      /\ level \in Seq(Level \cup {None}) /\ plan \in Seq(Plan) /\ requests \in Nat
      /\ \A t \in DOMAIN token : /\ token[t].user \in DOMAIN user
                                 /\ token[t].from # None => token[t].from \in DOMAIN token
      /\ \A t \in DOMAIN session : session[t].user \in DOMAIN user
      /\ \A u, v \in DOMAIN user : Clash(user[u], user[v]) => u = v
      /\ SpentOnce(token) /\ \A c \in DOMAIN code : code[c].consumed <= 1
      /\ \A u \in DOMAIN user : PaidIn(deposit, u) \in Nat
      /\ \A u \in DOMAIN user : user[u].avatar # None =>
            user[u].avatar[1] \in {0, u} /\ user[u].avatar[2] <= requests
  BY StartIsSound
<1>2. DOMAIN task = Procs /\ \A p \in Procs : task[p] = None
  OBVIOUS
<1>3. Accounts
  BY <1>1, <1>2 DEF Accounts, Apart
<1>4. Tokens /\ Signing /\ Ranks
  BY <1>1, <1>2 DEF Tokens, Signing, Ranks
<1>5. Watches
  <2>1. DOMAIN position = {} /\ DOMAIN watch = {}
    OBVIOUS
  <2> QED
    BY <1>2, <2>1 DEF Watches
<1>6. Shopping
  <2>1. DOMAIN period = {} /\ period \in Seq(Period)
    OBVIOUS
  <2>2. wallet \in [DOMAIN user -> Nat] /\ DOMAIN locked = DOMAIN user
    BY <1>1 DEF Users, Nobody, Deposited
  <2> QED
    BY <1>1, <1>2, <2>1, <2>2 DEF Shopping, DaysAreNotPaidTwice
<1>7. Touches
  BY <1>2 DEF Touches, OneTouchPerWindow, Nobody
<1>8. Pictures
  <2>1. AvatarIsThere
    BY DEF AvatarIsThere, Users
  <2>2. ASSUME NEW u \in DOMAIN user, user[u].avatar # None PROVE user[u].avatar \in Nat \X Nat
    <3>1. user[u] \in User
      BY <1>1
    <3>2. user[u].avatar \in (Nat \X Nat) \cup {None}
      BY <3>1 DEF User
    <3> QED
      BY <2>2, <3>2
  <2> QED
    BY <1>1, <1>2, <2>1, <2>2 DEF Pictures
<1> QED
  BY <1>3, <1>4, <1>5, <1>6, <1>7, <1>8 DEF MembersInv

LEMMA InitHolds == Init => MembersInv
<1> SUFFICES ASSUME Init PROVE MembersInv
  OBVIOUS
<1>1. PICK s \in Start : /\ user = s.user /\ code = s.code /\ token = s.token /\ session = s.session /\ plan = s.plan
                         /\ deposit = s.deposit /\ level = s.level /\ requests = s.requests
  BY DEF Init
<1>2. /\ watch = <<>> /\ position = <<>> /\ period = <<>> /\ wallet = [u \in Users |-> Deposited(u)]
      /\ picture = {user[u].avatar : u \in Users} \ {None} /\ touched = Nobody(user) /\ locked = Nobody(user) /\ clock = 0
      /\ task = [p \in Procs |-> None]
  BY DEF Init
<1> QED
  BY <1>1, <1>2, StartKeeps

-----------------------------------------------------------------------------
(* Every step *)

LEMMA MembersTyped == MembersInv => Accounts /\ Typed
BY AccountsTyped DEF MembersInv

LEMMA AskSignInHolds ==
  ASSUME MembersInv, NEW p \in Procs, AskSignIn(p)
  PROVE  MembersInv'
<1>1. CASE \/ \E b \in Bases, n \in 1 .. 2, c \in Clients : AskRegister(p, <<b, n>>, c)
           \/ \E u \in Users, c \in Clients : AskLogin(p, u, c)
           \/ \E phone \in Phones : AskCode(p, phone)
           \/ \E phone \in Phones, right, password \in BOOLEAN, c \in Clients : AskVerify(p, phone, right, password, c)
           \/ \E g \in Identities, c \in Clients : AskGoogle(p, g, c)
  BY <1>1, AskSignInKeeps
<1>2. CASE \E u \in Users, active \in BOOLEAN : SetStatus(p, u, active)
  BY <1>2, SetStatusKeeps
<1>3. CASE \E t \in DOMAIN token : AskRefresh(p, t)
  BY <1>3, AskOthersKeeps
<1>4. CASE \E t \in DOMAIN token : Logout(p, t)
  BY <1>4, LogoutKeeps
<1> QED
  BY <1>1, <1>2, <1>3, <1>4 DEF AskSignIn

LEMMA DoSignInHolds ==
  ASSUME MembersInv, NEW p \in Procs, DoSignIn(p)
  PROVE  MembersInv'
<1>1. CASE Register(p) \/ CreateForPhone(p) \/ CreateForGoogle(p) \/ Link(p)
  BY <1>1, RegisterKeeps, CreateForPhoneKeeps, CreateForGoogleKeeps, LinkKeeps
<1>2. CASE CountCodes(p) \/ FindPhone(p) \/ FindGoogle(p) \/ FindEmail(p) \/ PickUsername(p) \/ Gate(p)
  BY <1>2, PhoneReads, GoogleReads, GateKeeps
<1>3. CASE CreateCode(p) \/ CountAttempt(p) \/ Consume(p) \/ Spend(p) \/ Issue(p)
  BY <1>3, CreateCodeKeeps, CountAttemptKeeps, ConsumeKeeps, SpendKeeps, IssueKeeps
<1>4. CASE Collided(p)
  BY <1>4, MembersTyped, AnswerAside, AsideKeeps DEF About
<1> QED
  BY <1>1, <1>2, <1>3, <1>4 DEF DoSignIn

LEMMA AskTrackingHolds ==
  ASSUME MembersInv, NEW p \in Procs, AskTracking(p)
  PROVE  MembersInv'
<1>1. CASE \E u \in Users, c \in Clients : Touch(p, u, c)
  BY <1>1, TouchKeeps
<1>2. CASE \E u, i, c, v : Connect(p, u, c) \/ Search(p, u, v, c) \/ HandleFeedback(p, i, u, v)
  BY <1>2, MembersTyped, QueryAside, AsideKeeps DEF About
<1>3. CASE \E u \in Users, m \in Movies, to \in {1, 5}, c \in Clients : AskBeat(p, u, m, to, c)
  BY <1>3, AskOthersKeeps
<1>4. CASE \/ \E u : AskFeedback(p, u)
           \/ \E platform, page : AskActive(p, platform, page, 1) \/ AskSessions(p, platform, page, 1)
           \/ \E platform : AskWatchTime(p, platform)
  BY <1>4, MembersTyped, FeedbackAside, ActiveAside, SessionsAside, WatchTimeAside, AsideKeeps DEF About
<1>5. CASE \/ \E page : AskTopSearches(p, page, 1)
           \/ \E kind : AskLog(p, kind, 1, 2)
           \/ \E months : AskGrowth(p, months)
  BY <1>5, MembersTyped, TopSearchesAside, LogAside, GrowthAside, AsideKeeps DEF About
<1> QED
  BY <1>1, <1>2, <1>3, <1>4, <1>5 DEF AskTracking

LEMMA DoTrackingHolds ==
  ASSUME MembersInv, NEW p \in Procs, DoTracking(p)
  PROVE  MembersInv'
<1>1. CASE InsertSession(p) \/ WritePresence(p) \/ FindSession(p) \/ WriteSession(p) \/ WritePosition(p) \/ RecordBeat(p)
  BY <1>1, InsertSessionKeeps, WritePresenceKeeps, FindSessionKeeps, WriteSessionKeeps, WritePositionKeeps, RecordBeatKeeps
<1>2. CASE CreateFeedback(p) \/ Answered(p) \/ SpellSearches(p) \/ NewestOf(p)
  BY <1>2, MembersTyped, OfficesAside, AnswerAside, SpellAside, NewestAside, AsideKeeps DEF About
<1> QED
  BY <1>1, <1>2 DEF DoTracking

LEMMA NetworksHold ==
  ASSUME MembersInv, NEW p \in Procs, AskNetworks(p) \/ DoNetwork(p)
  PROVE  MembersInv'
<1>1. CASE \E number : AskNetwork(p, number)
  BY <1>1, MembersTyped, NetworkAside, AsideKeeps DEF About
<1>2. CASE (\E u, number : AskWithdrawal(p, u, number, 1)) \/ Withdraw(p)
  BY <1>2, MembersTyped, WithdrawalAside, AsideKeeps DEF About
<1>3. CASE Wave(p) \/ Load(p) \/ CountDeposits(p)
  BY <1>3, MembersTyped, WaveAside, LoadAside, DepositsAside, AsideKeeps DEF About
<1> QED
  BY <1>1, <1>2, <1>3 DEF AskNetworks, DoNetwork

LEMMA ProfilesHold ==
  ASSUME MembersInv, PayoutsTyped, NEW p \in Procs, AskProfiles(p) \/ DoProfiles(p)
  PROVE  MembersInv'
<1>1. CASE \E u \in Users : AskAvatar(p, u) \/ AskNoAvatar(p, u)
  BY <1>1, AskPicturesKeeps
<1>2. CASE \E u \in Users, approved \in BOOLEAN : Deposit(p, u, 1, approved)
  BY <1>2, DepositKeeps
<1>3. CASE \E page : AskMembers(p, page, 1)
  BY <1>3, MembersTyped, MembersAside, AsideKeeps DEF About
<1>4. CASE UploadAvatar(p) \/ PointAvatar(p) \/ EraseAvatar(p)
  BY <1>4, UploadAvatarKeeps, PointAvatarKeeps, EraseAvatarKeeps
<1>5. CASE CountMembers(p) \/ ReadWallets(p) \/ ReadTotals(p)
  BY <1>5, MembersTyped, CountMembersAside, WalletsAside, TotalsAside, AsideKeeps DEF About
<1>6. CASE \/ \E w \in DOMAIN payout : ApproveWithdrawal(p, w)
           \/ \E u \in Users : \E type : Adjust(p, u, type, 1)
  BY <1>6, MovementsKeep
<1>7. CASE \E w : RejectWithdrawal(p, w)
  BY <1>7, MembersTyped, QueryAside, AsideKeeps DEF About
<1> QED
  BY <1>1, <1>2, <1>3, <1>4, <1>5, <1>6, <1>7 DEF AskProfiles, DoProfiles

LEMMA AskOfficeHolds ==
  ASSUME MembersInv, NEW p \in Procs, AskOffice(p)
  PROVE  MembersInv'
<1>1. CASE \E i \in DOMAIN plan \cup {None}, price \in 1 .. 2, active \in BOOLEAN : PutPlan(p, i, price, 2, active)
  BY <1>1, PutPlanKeeps
<1>2. CASE \/ \E u \in Users, i \in DOMAIN plan : AskSubscribe(p, u, i)
           \/ \E l \in Rows(level) \cup {None}, name \in LevelNames, threshold \in {0, 2} : AskLevel(p, l, name, threshold, TRUE)
  BY <1>2, AskOthersKeeps
<1>3. CASE \/ \E l \in Rows(level) : RemoveLevel(p, l)
           \/ \E listed \in SUBSET Rows(level) : \E place \in [listed -> {level[l].order : l \in Rows(level)}] :
                Reorder(p, place)
  BY <1>3, RemoveLevelKeeps, ReorderKeeps
<1>4. CASE \/ \E u : AskStatus(p, u)
           \/ \E new : AskSettings(p, new)
           \/ \E i, label : AskRename(p, i, label)
           \/ \E i : AskRemoveMethod(p, i) \/ AskRemoveAccount(p, i)
  BY <1>4, MembersTyped, StatusAside, SettingsAside, RenameAside, RemoveMethodAside, RemoveAccountAside, AsideKeeps DEF About
<1>5. CASE \E i, v : CreateMethod(p, v) \/ PutAccount(p, i, v) \/ Use(p, i)
  BY <1>5, MembersTyped, QueryAside, AsideKeeps DEF About
<1> QED
  BY <1>1, <1>2, <1>3, <1>4, <1>5 DEF AskOffice

LEMMA DoOfficeHolds ==
  ASSUME MembersInv, NEW p \in Procs, DoOffice(p)
  PROVE  MembersInv'
<1>1. CASE Debit(p) \/ ReadCurrent(p) \/ Commit(p) \/ CheckThreshold(p) \/ WriteLevel(p)
  BY <1>1, DebitKeeps, ReadCurrentKeeps, CommitKeeps, CheckThresholdKeeps, WriteLevelKeeps
<1>2. CASE \/ ReadLevels(p) \/ ShowStatus(p) \/ CreateSettings(p) \/ WriteSettings(p) \/ RenameMethod(p) \/ CountUsers(p)
           \/ DeleteMethod(p) \/ DeleteAccount(p)
  BY <1>2, MembersTyped, LevelsAside, AnswerAside, SettingsAside, OfficesAside, CountUsersAside, AsideKeeps DEF About
<1> QED
  BY <1>1, <1>2 DEF DoOffice

LEMMA NextHolds == MembersInv /\ PayoutsTyped /\ [Next]_vars => MembersInv'
<1> SUFFICES ASSUME MembersInv, PayoutsTyped, [Next]_vars PROVE MembersInv'
  OBVIOUS
<1>1. CASE \E p \in Procs : AskSignIn(p) \/ DoSignIn(p)
  BY <1>1, AskSignInHolds, DoSignInHolds
<1>2. CASE \E p \in Procs : AskTracking(p) \/ DoTracking(p)
  BY <1>2, AskTrackingHolds, DoTrackingHolds
<1>3. CASE \E p \in Procs : AskNetworks(p) \/ DoNetwork(p)
  BY <1>3, NetworksHold
<1>4. CASE \E p \in Procs : AskOffice(p) \/ DoOffice(p)
  BY <1>4, AskOfficeHolds, DoOfficeHolds
<1>5. CASE \E p \in Procs : AskProfiles(p) \/ DoProfiles(p)
  BY <1>5, ProfilesHold
<1>6. CASE Tick \/ UNCHANGED vars
  BY <1>6, TimePasses
<1>7. CASE Restart
  BY <1>7, RestartKeeps
<1> QED
  BY <1>1, <1>2, <1>3, <1>4, <1>5, <1>6, <1>7 DEF Next

-----------------------------------------------------------------------------
(* Rules that are checked before they are written *)

Report == [user : Nat, at : Nat, status : {"NEW", "DONE"}, handler : Nat \cup {None}]
Limits == [min : Nat, max : Nat]

\* The newest code of the number is a cooldown old; fewer than may be were sent, or written, in
\* the hour.
Rested(phone) == \A c \in CodesOf(phone) : (\A d \in CodesOf(phone) : d <= c) => clock - code[c].at >= Cooldown
CodesInHour(phone) == {c \in CodesOf(phone) : code[c].at + Hour >= clock}
ReportsInHour(u) == {f \in DOMAIN feedback : feedback[f].user = u /\ feedback[f].at + Hour >= clock}

\* What a request has checked: as long as nobody writes, it is still so.
Checked(t) ==
    /\ t.op = "code" => /\ Rested(t.phone)
                        /\ t.at = "create" => Cardinality(CodesInHour(t.phone)) < MaxCodes
    /\ t.op = "verify" /\ t.at = "attempt" => t.row \in DOMAIN code /\ code[t.row].attempts < MaxAttempts
    /\ t.at = "gate" /\ t.active => user[t.user].active
    /\ t.at = "issue" /\ t.op # "refresh" => user[t.user].active
    /\ t.op = "google" /\ t.at = "link" => user[t.user].google = None
    /\ t.op = "feedback" => Cardinality(ReportsInHour(t.user)) < MaxFeedback
    /\ t.op = "level" /\ t.at = "write" => \A l \in Rows(level) \ {t.row} : level[l].threshold # t.query.threshold
    /\ t.op = "settings" /\ t.at = "create" => setting = <<>>
    /\ t.op = "method" => /\ t.row \in Rows(method) /\ t.phone = method[t.row]
                          /\ t.at = "rename" => t.word # None
                          /\ t.at = "delete" => Using(t.phone) = {}
\* What it will write has its type, whoever writes.
Stated(t) ==
    /\ t.op = "feedback" => t.user \in Nat
    /\ t.op = "settings" => t.query \in Limits \cup {None}
    /\ t.op = "method" /\ t.at = "rename" => t.word \in STRING
    /\ t.op = "withdraw" => t.user \in Nat /\ t.name \in Numbers /\ t.n \in Nat
RowsTyped ==
    /\ feedback \in Seq(Report) /\ setting \in Seq(Limits)
    /\ method \in Seq(STRING \cup {None}) /\ account \in Seq(Account \cup {None}) /\ payout \in Seq(Payout)
Rules ==
    /\ RowsTyped
    /\ \A p \in Procs : task[p] # None => Stated(task[p]) /\ (task[p].alone => Checked(task[p]))

-----------------------------------------------------------------------------
(* What a step owes to the rules *)

\* Whoever else is under way is no longer alone.
Writing(p) == \A q \in Procs \ {p} : \/ task[q] = None /\ task'[q] = None
                                     \/ task[q] # None /\ task'[q] = [task[q] EXCEPT !.alone = FALSE]
Own(p) == task'[p] # None => Stated(task'[p]) /\ (task'[p].alone => Checked(task[p])')
Lawful ==
    /\ Quotas => Quotas'
    /\ \A u \in Users : user[u].google # None => user'[u].google = user[u].google
    /\ Distinct => Distinct'
    /\ Len(setting) <= 1 => Len(setting') <= 1
    /\ Known => Known'
\* Unless it was disturbed and moves on all the same.
Counts(p) == task[p] # None /\ ~task[p].alone => task'[p] = task[p]
Good(p) == (Reading(p) \/ Writing(p)) /\ RowsTyped' /\ Own(p) /\ (Counts(p) => Lawful)

LEMMA SameRules ==
  ASSUME UNCHANGED <<user, code, feedback, level, setting, method, account>>
  PROVE  Lawful
<1>1. /\ user' = user /\ code' = code /\ feedback' = feedback /\ level' = level /\ setting' = setting /\ method' = method
      /\ account' = account
  OBVIOUS
<1>2. Quotas => Quotas'
  BY <1>1 DEF Quotas, CodesOf
<1>3. Distinct => Distinct'
  BY <1>1 DEF Distinct, Rows
<1>4. Known => Known'
  BY <1>1 DEF Known, Rows, Labelled
<1> QED
  BY <1>1, <1>2, <1>3, <1>4 DEF Lawful
LEMMA SameRows ==
  ASSUME UNCHANGED ruled
  PROVE  Lawful /\ (RowsTyped => RowsTyped')
<1>1. UNCHANGED <<user, code, feedback, level, setting, method, account>> /\ payout' = payout
  BY DEF ruled
<1> QED
  BY <1>1, SameRules DEF RowsTyped

\* What is so stays so while no row is written and the clock stands.
LEMMA CheckedSame ==
  ASSUME NEW t, UNCHANGED <<ruled, clock>>, Checked(t)
  PROVE  Checked(t)'
BY DEF ruled, Checked, Rested, CodesInHour, ReportsInHour, CodesOf, Rows, Using

LEMMA GoodKeeps ==
  ASSUME MembersInv, Rules, NEW p \in Procs, Good(p)
  PROVE  Rules'
<1>1. ASSUME NEW q \in Procs, q # p, task'[q] # None
      PROVE  Stated(task'[q]) /\ (task'[q].alone => Checked(task[q])')
  <2>1. CASE Reading(p)
    <3>1. PICK t : t = task[q]
      OBVIOUS
    <3>2. task'[q] = t /\ UNCHANGED <<ruled, clock>>
      BY <1>1, <2>1, <3>1 DEF Reading
    <3>3. Stated(t) /\ (t.alone => Checked(t))
      BY <1>1, <3>1, <3>2 DEF Rules
    <3>4. t.alone => Checked(t)'
      BY <3>2, <3>3, CheckedSame
    <3>5. t.alone => Checked(task[q])'
      BY <3>2, <3>4 DEF Checked, Rested, CodesInHour, ReportsInHour, CodesOf, Rows, Using
    <3> QED
      BY <3>2, <3>3, <3>5
  <2>2. CASE Writing(p)
    <3>1. PICK t : t = task[q]
      OBVIOUS
    <3>2. task[q] # None /\ task'[q] = [t EXCEPT !.alone = FALSE]
      BY <1>1, <2>2, <3>1 DEF Writing
    <3>3. DOMAIN t = Fields /\ Stated(t)
      BY <3>1, <3>2 DEF Rules, MembersInv, Accounts, Placed
    <3>4. PICK s : s = [t EXCEPT !.alone = FALSE]
      OBVIOUS
    <3>5. s.op = t.op /\ s.user = t.user /\ s.query = t.query /\ s.alone = FALSE
      BY <3>3, <3>4 DEF Fields
    <3> QED
      BY <3>2, <3>3, <3>4, <3>5 DEF Stated
  <2> QED
    BY <2>1, <2>2 DEF Good
<1>2. task'[p] # None => Stated(task'[p]) /\ (task'[p].alone => Checked(task[p])')
  BY DEF Good, Own
<1>3. \A q \in Procs : task'[q] # None => Stated(task[q])' /\ (task'[q].alone => Checked(task[q])')
  BY <1>1, <1>2 DEF Stated
<1> QED
  BY <1>3 DEF Rules, Good, RowsTyped

-----------------------------------------------------------------------------
(* Steps that the rules do not ask about *)

\* The operations that the rules are about.
Ruled == {"code", "verify", "google", "register", "login", "feedback", "level", "settings", "method", "withdraw"}
LEMMA OwnElse ==
  ASSUME MembersInv', NEW p \in Procs, task'[p] # None => task'[p].op \notin Ruled
  PROVE  Own(p)
<1> SUFFICES ASSUME task'[p] # None PROVE Own(p)
  BY DEF Own
<1>1. /\ task'[p].at = "issue" => task'[p].op \in {"register", "login", "verify", "google", "refresh"}
      /\ task'[p].at = "gate" => task'[p].op \in {"verify", "google"}
  BY DEF MembersInv, Accounts, Placed
<1> QED
  BY <1>1 DEF Own, Stated, Checked, Ruled

LEMMA ReadsGood ==
  ASSUME Rules, NEW p \in Procs, Reading(p), Own(p)
  PROVE  Good(p)
<1>1. UNCHANGED ruled /\ RowsTyped
  BY DEF Reading, Rules, RowsTyped
<1> QED
  BY <1>1, SameRows DEF Good
LEMMA DisturbWrites ==
  ASSUME MembersInv, NEW p \in Procs, NEW t, Disturb(p, t)
  PROVE  Writing(p) /\ task'[p] = t
<1>1. task' = [q \in Procs |-> IF q = p THEN t ELSE IF task[q] = None THEN None ELSE [task[q] EXCEPT !.alone = FALSE]]
  BY DEF Disturb
<1> QED
  BY <1>1 DEF Writing
LEMMA WritesGood ==
  ASSUME MembersInv, Rules, NEW p \in Procs, NEW t, Disturb(p, t), UNCHANGED ruled, Own(p)
  PROVE  Good(p)
<1>1. Writing(p) /\ RowsTyped
  BY DisturbWrites DEF Rules, RowsTyped
<1> QED
  BY <1>1, SameRows DEF Good
LEMMA AboutGood ==
  ASSUME MembersInv', Rules, NEW p \in Procs, NEW op, op \notin Ruled, About(p, op)
  PROVE  Good(p)
BY OwnElse, ReadsGood DEF About

\* A request of one query is over when it has begun.
LEMMA OnceGood ==
  ASSUME MembersInv, Rules, NEW p \in Procs, NEW op, Once(p, op), RowsTyped', Lawful
  PROVE  Good(p)
<1>1. Writing(p) /\ task'[p] = None /\ task[p] = None
  BY DisturbWrites DEF Once, Enter
<1> QED
  BY <1>1 DEF Good, Own
LEMMA OnceElse ==
  ASSUME MembersInv, Rules, NEW p \in Procs, NEW op, Once(p, op), UNCHANGED ruled
  PROVE  Good(p)
<1>1. RowsTyped' /\ Lawful
  BY SameRows DEF Rules
<1> QED
  BY <1>1, OnceGood
\* One that ends by reading.
LEMMA EndGood ==
  ASSUME MembersInv, Rules, NEW p \in Procs, End(p), Reads
  PROVE  Good(p)
<1>1. Reading(p) /\ task'[p] = None
  BY EndAside, AccountsTyped DEF MembersInv
<1> QED
  BY <1>1, ReadsGood DEF Own

\* A request that is let in, and one that goes on by reading.
LEMMA AskReads ==
  ASSUME MembersInv, NEW p \in Procs, NEW t, Ask(p, t)
  PROVE  Reading(p) /\ task'[p] = t
<1>1. task'[p] = t /\ \A q \in Procs \ {p} : task'[q] = task[q]
  BY ProceedTurns, AccountsTyped DEF Ask, MembersInv
<1> QED
  BY <1>1 DEF Ask, Enter, Reading, ruled, identity, traces, shop, office
LEMMA ProceedReads ==
  ASSUME MembersInv, NEW p \in Procs, NEW t, Proceed(p, t), Reads
  PROVE  Reading(p) /\ task'[p] = t
<1>1. task'[p] = t /\ \A q \in Procs \ {p} : task'[q] = task[q]
  BY ProceedTurns, AccountsTyped DEF MembersInv
<1> QED
  BY <1>1 DEF Reads, Goes, Reading, ruled, identity, traces, shop, office

\* What a request will write and has checked, as it goes on with t.
LEMMA OwnOne ==
  ASSUME NEW p \in Procs, NEW t, task'[p] = t, t # None => Stated(t) /\ (t.alone => Checked(t)')
  PROVE  Own(p)
<1>1. task'[p] # None /\ task'[p].alone => Checked(task[p])'
  BY DEF Checked, Rested, CodesInHour, ReportsInHour, CodesOf, Rows, Using
<1> QED
  BY <1>1 DEF Own
LEMMA OwnReads ==
  ASSUME NEW p \in Procs, NEW t, task'[p] = t, Reading(p), t # None => Stated(t) /\ (t.alone => Checked(t))
  PROVE  Own(p)
<1>1. t # None /\ t.alone => Checked(t)'
  BY CheckedSame DEF Reading
<1> QED
  BY <1>1, OwnOne

\* What a request carries as it was when it began is what it carried.
LEMMA TaskFits ==
  ASSUME MembersInv, Rules, NEW p \in Procs, task[p] # None, NEW t, t = task[p]
  PROVE  DOMAIN t = Fields /\ Placed(doors, t) /\ Carries(DOMAIN user, t) /\ Stated(t) /\ (t.alone => Checked(t))
BY DEF MembersInv, Accounts, Placed, Rules

\* A place at which nothing has been checked.
Unchecked(t) == t.op \notin {"code", "feedback", "level", "settings", "method", "withdraw"} /\ t.at \notin {"attempt", "gate", "issue", "link"}
LEMMA UncheckedFits ==
  ASSUME NEW p \in Procs, NEW t, task'[p] = t, t # None => Unchecked(t)
  PROVE  Own(p)
<1>1. t # None => Stated(t) /\ Checked(t)'
  BY DEF Unchecked, Stated, Checked
<1> QED
  BY <1>1, OwnOne
\* A step that changes accounts, and not what they are linked to.
LEMMA UserWrites ==
  ASSUME MembersInv, Rules, NEW p \in Procs, NEW t, Disturb(p, t), UNCHANGED <<code, feedback, level, setting, method, account, payout>>,
         NEW u \in DOMAIN user, NEW r, user' = [user EXCEPT ![u] = r], r.google = user[u].google, t # None => Unchecked(t)
  PROVE  Good(p)
<1>1. Writing(p) /\ task'[p] = t
  BY DisturbWrites
<1>2. Own(p)
  BY <1>1, UncheckedFits
<1>3. \A v \in Users : user'[v].google = user[v].google
  BY DEF Users, MembersInv, Accounts
<1>4. Quotas => Quotas'
  BY DEF Quotas, CodesOf
<1>5. (Distinct => Distinct') /\ (Known => Known')
  BY DEF Distinct, Known, Rows, Labelled
<1>6. RowsTyped' /\ Lawful
  BY <1>3, <1>4, <1>5 DEF RowsTyped, Rules, Lawful
<1> QED
  BY <1>1, <1>2, <1>6 DEF Good

-----------------------------------------------------------------------------
(* Requests that are let in *)

LEMMA AskElseGood ==
  ASSUME MembersInv, MembersInv', Rules, NEW p \in Procs, NEW t, Ask(p, t), t.op \notin Ruled
  PROVE  Good(p)
BY AskReads, OwnElse, ReadsGood
LEMMA AskGood ==
  ASSUME MembersInv, Rules, NEW p \in Procs, NEW t, Ask(p, t), Stated(t), Checked(t)
  PROVE  Good(p)
BY AskReads, OwnReads, ReadsGood

\* The newest row of some is one of them.
LEMMA LatestIsOne ==
  ASSUME MembersInv, NEW S \in SUBSET DOMAIN code, S # {}
  PROVE  Latest(S) \in S /\ \A d \in S : d <= Latest(S)
<1>1. IsFiniteSet(S) /\ S \subseteq Nat
  <2>1. code \in Seq(Code)
    BY DEF MembersInv, Accounts
  <2>2. DOMAIN code = 1 .. Len(code) /\ Len(code) \in Nat
    BY <2>1
  <2>3. IsFiniteSet(1 .. Len(code))
    BY <2>2, FS_Interval
  <2> QED
    BY <2>2, <2>3, FS_Subset
<1>2. PICK f : f = [x \in S |-> x]
  OBVIOUS
<1>3. \A x \in S : f[x] \in Nat /\ f[x] = x
  BY <1>1, <1>2
<1>4. PICK x \in S : \A y \in S : f[y] <= f[x]
  BY <1>1, <1>3, Highest
<1>5. \E c \in S : \A d \in S : d <= c
  BY <1>3, <1>4
<1> QED
  BY <1>5 DEF Latest

LEMMA AskSignInGood ==
  ASSUME MembersInv, MembersInv', Rules, NEW p \in Procs, AskSignIn(p)
  PROVE  Good(p)
<1>1. ASSUME NEW b, NEW n, NEW c, AskRegister(p, <<b, n>>, c) PROVE Good(p)
  <2>1. PICK name : name = <<b, n>>
    OBVIOUS
  <2>2. PICK t : t = [Idle EXCEPT !.op = "register", !.at = "create", !.name = name, !.client = c]
    OBVIOUS
  <2>3. t.op = "register" /\ t.at = "create"
    BY <2>2, IdleShape DEF Fields
  <2>4. Ask(p, t)
    BY <1>1, <2>1, <2>2 DEF AskRegister
  <2> QED
    BY <2>3, <2>4, AskGood DEF Stated, Checked
<1>2. ASSUME NEW u \in Users, NEW c, AskLogin(p, u, c) PROVE Good(p)
  <2>1. PICK t : t = [Idle EXCEPT !.op = "login", !.at = "issue", !.user = u, !.client = c]
    OBVIOUS
  <2>2. t.op = "login" /\ t.at = "issue" /\ t.user = u
    BY <2>1, IdleShape DEF Fields
  <2>3. Ask(p, t) /\ user[u].active
    BY <1>2, <2>1 DEF AskLogin
  <2> QED
    BY <2>2, <2>3, AskGood DEF Stated, Checked
<1>3. ASSUME NEW phone, AskCode(p, phone) PROVE Good(p)
  <2>1. PICK t : t = [Idle EXCEPT !.op = "code", !.at = "count", !.phone = phone]
    OBVIOUS
  <2>2. t.op = "code" /\ t.at = "count" /\ t.phone = phone
    BY <2>1, IdleShape DEF Fields
  <2>3. Ask(p, t) /\ (CodesOf(phone) # {} => clock - code[Latest(CodesOf(phone))].at >= Cooldown)
    BY <1>3, <2>1 DEF AskCode
  <2>4. Rested(phone)
    <3> SUFFICES ASSUME NEW c \in CodesOf(phone), \A d \in CodesOf(phone) : d <= c
                 PROVE  clock - code[c].at >= Cooldown
      BY DEF Rested
    <3>1. CodesOf(phone) \in SUBSET DOMAIN code /\ DOMAIN code \subseteq Nat
      BY DEF CodesOf, MembersInv, Accounts
    <3>2. Latest(CodesOf(phone)) \in CodesOf(phone) /\ c <= Latest(CodesOf(phone))
      BY <3>1, LatestIsOne
    <3>3. c = Latest(CodesOf(phone))
      BY <3>1, <3>2
    <3> QED
      BY <2>3, <3>3
  <2> QED
    BY <2>2, <2>3, <2>4, AskGood DEF Stated, Checked
<1>4. ASSUME NEW phone, NEW right, NEW password, NEW c, AskVerify(p, phone, right, password, c) PROVE Good(p)
  <2>1. PICK r : r = Latest(Open(phone))
    OBVIOUS
  <2>2. PICK at : at = (IF right THEN "consume" ELSE "attempt")
    OBVIOUS
  <2>3. PICK t : t = [Idle EXCEPT !.op = "verify", !.at = at, !.row = r, !.phone = phone, !.flag = password, !.client = c]
    OBVIOUS
  <2>4. t.op = "verify" /\ t.at = at /\ t.row = r
    BY <2>3, IdleShape DEF Fields
  <2>5. Ask(p, t) /\ code[r].attempts < MaxAttempts /\ Open(phone) # {}
    BY <1>4, <2>1, <2>2, <2>3 DEF AskVerify
  <2>6. r \in DOMAIN code
    <3>1. Open(phone) \in SUBSET DOMAIN code
      BY DEF Open, CodesOf
    <3> QED
      BY <2>1, <2>5, <3>1, LatestIsOne
  <2> QED
    BY <2>2, <2>4, <2>5, <2>6, AskGood DEF Stated, Checked
<1>5. ASSUME NEW g, NEW c, AskGoogle(p, g, c) PROVE Good(p)
  <2>1. PICK t : t = [Idle EXCEPT !.op = "google", !.at = "find", !.google = g, !.client = c, !.n = 1, !.second = Len(user)]
    OBVIOUS
  <2>2. t.op = "google" /\ t.at = "find"
    BY <2>1, IdleShape DEF Fields
  <2>3. Ask(p, t)
    BY <1>5, <2>1 DEF AskGoogle
  <2> QED
    BY <2>2, <2>3, AskGood DEF Stated, Checked
<1>6. ASSUME NEW r, AskRefresh(p, r) PROVE Good(p)
  <2>1. PICK u : u = token[r].user
    OBVIOUS
  <2>2. PICK t : t = [Idle EXCEPT !.op = "refresh", !.at = "spend", !.row = r, !.user = u]
    OBVIOUS
  <2>3. t.op = "refresh"
    BY <2>2, IdleShape DEF Fields
  <2>4. Ask(p, t)
    BY <1>6, <2>1, <2>2 DEF AskRefresh
  <2> QED
    BY <2>3, <2>4, AskElseGood DEF Ruled
<1>7. ASSUME NEW u \in Users, NEW active, SetStatus(p, u, active) PROVE Good(p)
  <2>1. PICK r : r = [user[u] EXCEPT !.active = active]
    OBVIOUS
  <2>2. user[u] \in User
    BY <1>7 DEF MembersInv, Accounts, Users
  <2>3. r.google = user[u].google
    BY <2>1, <2>2 DEF User
  <2>4. /\ Disturb(p, None) /\ user' = [user EXCEPT ![u] = r]
        /\ UNCHANGED <<code, feedback, level, setting, method, account, payout>>
    BY <1>7, <2>1 DEF SetStatus, Once, Enter, traces, shop, office
  <2> QED
    BY <1>7, <2>3, <2>4, UserWrites DEF Users
<1>8. ASSUME NEW r, Logout(p, r) PROVE Good(p)
  <2>1. Once(p, "logout") /\ UNCHANGED ruled
    BY <1>8 DEF Logout, ruled, traces, shop, office
  <2> QED
    BY <2>1, OnceElse
<1> QED
  BY <1>1, <1>2, <1>3, <1>4, <1>5, <1>6, <1>7, <1>8 DEF AskSignIn

-----------------------------------------------------------------------------
(* Signing in: what is read *)

LEMMA ReadOnGood ==
  ASSUME MembersInv, Rules, NEW p \in Procs, NEW t, Proceed(p, t), Reads, t # None => Stated(t) /\ (t.alone => Checked(t))
  PROVE  Good(p)
BY ProceedReads, OwnReads, ReadsGood

LEMMA InHourFinite ==
  ASSUME MembersInv, Rules, NEW phone, NEW u
  PROVE  /\ IsFiniteSet(CodesInHour(phone)) /\ Cardinality(CodesInHour(phone)) \in Nat
         /\ IsFiniteSet(ReportsInHour(u)) /\ Cardinality(ReportsInHour(u)) \in Nat
<1>1. code \in Seq(Code) /\ feedback \in Seq(Report)
  BY DEF MembersInv, Accounts, Rules, RowsTyped
<1>2. CodesInHour(phone) \subseteq DOMAIN code /\ ReportsInHour(u) \subseteq DOMAIN feedback
  BY DEF CodesInHour, CodesOf, ReportsInHour
<1>3. IsFiniteSet(CodesInHour(phone)) /\ IsFiniteSet(ReportsInHour(u))
  BY <1>1, <1>2, RowsFinite
<1> QED
  BY <1>3, FS_CardinalityType

LEMMA CountCodesGood ==
  ASSUME MembersInv, Rules, NEW p \in Procs, CountCodes(p)
  PROVE  Good(p)
<1>1. PICK t0 : t0 = task[p]
  OBVIOUS
<1>2. t0.op = "code" /\ task[p] # None /\ Reads
  BY <1>1 DEF CountCodes, At
<1>3. DOMAIN t0 = Fields /\ Stated(t0) /\ (t0.alone => Checked(t0))
  BY <1>1, <1>2, TaskFits
<1>4. PICK S : S = CodesInHour(t0.phone)
  OBVIOUS
<1>5. CASE ~(Cardinality(S) >= MaxCodes) /\ Goto(p, "create")
  <2>1. PICK t : t = [t0 EXCEPT !.at = "create"]
    OBVIOUS
  <2>2. t.op = "code" /\ t.at = "create" /\ t.phone = t0.phone /\ t.alone = t0.alone
    BY <1>2, <1>3, <2>1 DEF Fields
  <2>3. Cardinality(S) < MaxCodes
    BY <1>4, <1>5, InHourFinite, OtpLimits
  <2>4. Proceed(p, t)
    BY <1>1, <1>5, <2>1 DEF Goto
  <2>5. Stated(t) /\ (t.alone => Checked(t))
    BY <1>2, <1>3, <1>4, <2>2, <2>3 DEF Stated, Checked
  <2> QED
    BY <1>2, <2>4, <2>5, ReadOnGood
<1>6. CASE End(p)
  BY <1>2, <1>6, EndGood
<1>7. S = {c \in CodesOf(t0.phone) : code[c].at + Hour >= clock}
  BY <1>4 DEF CodesInHour
<1> QED
  BY <1>1, <1>5, <1>6, <1>7 DEF CountCodes

\* An account has been found, as it is.
LEMMA FoundGood ==
  ASSUME MembersInv, Rules, NEW p \in Procs, task[p] # None, task[p].op \in {"verify", "google"}, Reads,
         NEW u, Proceed(p, [task[p] EXCEPT !.at = "gate", !.user = u, !.active = user[u].active])
  PROVE  Good(p)
<1>1. PICK t0 : t0 = task[p]
  OBVIOUS
<1>2. DOMAIN t0 = Fields
  BY <1>1, TaskFits
<1>3. PICK b : b = user[u].active
  OBVIOUS
<1>4. PICK t : t = [t0 EXCEPT !.at = "gate", !.user = u, !.active = b]
  OBVIOUS
<1>5. t.at = "gate" /\ t.user = u /\ t.active = b /\ t.op = t0.op
  BY <1>2, <1>4 DEF Fields
<1>6. Stated(t) /\ Checked(t)
  BY <1>1, <1>3, <1>5 DEF Stated, Checked
<1>7. Proceed(p, t)
  BY <1>1, <1>3, <1>4
<1> QED
  BY <1>6, <1>7, ReadOnGood

\* On to a place at which nothing has been checked.
LEMMA OnwardGood ==
  ASSUME MembersInv, Rules, NEW p \in Procs, NEW t, t.op \in {"verify", "google"},
         t.at \notin {"attempt", "gate", "issue", "link"}, Proceed(p, t), Reads
  PROVE  Good(p)
<1>1. Stated(t) /\ Checked(t)
  BY DEF Stated, Checked
<1> QED
  BY <1>1, ReadOnGood

LEMMA FindPhoneGood ==
  ASSUME MembersInv, Rules, NEW p \in Procs, FindPhone(p)
  PROVE  Good(p)
<1>1. PICK t0 : t0 = task[p]
  OBVIOUS
<1>2. t0.op = "verify" /\ task[p] # None /\ Reads
  BY <1>1 DEF FindPhone, At
<1>3. DOMAIN t0 = Fields
  BY <1>1, <1>2, TaskFits
<1>4. ASSUME NEW u, Proceed(p, [task[p] EXCEPT !.at = "gate", !.user = u, !.active = user[u].active]) PROVE Good(p)
  BY <1>1, <1>2, <1>4, FoundGood
<1>5. CASE Goto(p, "create")
  <2>1. PICK t : t = [t0 EXCEPT !.at = "create"]
    OBVIOUS
  <2>2. t.op = "verify" /\ t.at = "create" /\ Proceed(p, t)
    BY <1>1, <1>2, <1>3, <1>5, <2>1 DEF Fields, Goto
  <2> QED
    BY <1>2, <2>2, OnwardGood
<1>6. CASE End(p)
  BY <1>2, <1>6, EndGood
<1> QED
  BY <1>1, <1>4, <1>5, <1>6 DEF FindPhone

LEMMA FindGoogleGood ==
  ASSUME MembersInv, Rules, NEW p \in Procs, FindGoogle(p)
  PROVE  Good(p)
<1>1. PICK t0 : t0 = task[p]
  OBVIOUS
<1>2. t0.op = "google" /\ task[p] # None /\ Reads
  BY <1>1 DEF FindGoogle, At
<1>3. DOMAIN t0 = Fields
  BY <1>1, <1>2, TaskFits
<1>4. ASSUME NEW u, Proceed(p, [task[p] EXCEPT !.at = "gate", !.user = u, !.active = user[u].active]) PROVE Good(p)
  BY <1>1, <1>2, <1>4, FoundGood
<1>5. CASE Goto(p, "email")
  <2>1. PICK t : t = [t0 EXCEPT !.at = "email"]
    OBVIOUS
  <2>2. t.op = "google" /\ t.at = "email" /\ Proceed(p, t)
    BY <1>1, <1>2, <1>3, <1>5, <2>1 DEF Fields, Goto
  <2> QED
    BY <1>2, <2>2, OnwardGood
<1> QED
  BY <1>1, <1>4, <1>5 DEF FindGoogle

\* By the email: an account that is not linked, as it is.
LEMMA FindEmailGood ==
  ASSUME MembersInv, Rules, NEW p \in Procs, FindEmail(p)
  PROVE  Good(p)
<1>1. PICK t0 : t0 = task[p]
  OBVIOUS
<1>2. t0.op = "google" /\ task[p] # None /\ Reads
  BY <1>1 DEF FindEmail, At
<1>3. DOMAIN t0 = Fields
  BY <1>1, <1>2, TaskFits
<1>4. ASSUME NEW u, user[u].google = None, Proceed(p, [t0 EXCEPT !.at = "link", !.user = u]) PROVE Good(p)
  <2>1. PICK t : t = [t0 EXCEPT !.at = "link", !.user = u]
    OBVIOUS
  <2>2. t.op = "google" /\ t.at = "link" /\ t.user = u
    BY <1>2, <1>3, <2>1 DEF Fields
  <2>3. Stated(t) /\ Checked(t) /\ Proceed(p, t)
    BY <1>4, <2>1, <2>2 DEF Stated, Checked
  <2> QED
    BY <1>2, <2>3, ReadOnGood
<1>5. CASE Proceed(p, [t0 EXCEPT !.at = "name", !.row = 1])
  <2>1. PICK t : t = [t0 EXCEPT !.at = "name", !.row = 1]
    OBVIOUS
  <2>2. t.op = "google" /\ t.at = "name" /\ Proceed(p, t)
    BY <1>2, <1>3, <1>5, <2>1 DEF Fields
  <2> QED
    BY <1>2, <2>2, OnwardGood
<1>6. CASE End(p)
  BY <1>2, <1>6, EndGood
<1> QED
  BY <1>1, <1>4, <1>5, <1>6 DEF FindEmail

LEMMA PickUsernameGood ==
  ASSUME MembersInv, Rules, NEW p \in Procs, PickUsername(p)
  PROVE  Good(p)
<1>1. PICK t0 : t0 = task[p]
  OBVIOUS
<1>2. t0.op = "google" /\ t0.at = "name" /\ task[p] # None /\ Reads
  BY <1>1 DEF PickUsername, At
<1>3. DOMAIN t0 = Fields
  BY <1>1, <1>2, TaskFits
<1>4. ASSUME NEW n, Proceed(p, [t0 EXCEPT !.row = n]) PROVE Good(p)
  <2>1. PICK t : t = [t0 EXCEPT !.row = n]
    OBVIOUS
  <2>2. t.op = "google" /\ t.at = "name" /\ Proceed(p, t)
    BY <1>2, <1>3, <1>4, <2>1 DEF Fields
  <2> QED
    BY <1>2, <2>2, OnwardGood
<1>5. ASSUME NEW name, Proceed(p, [t0 EXCEPT !.at = "create", !.name = name]) PROVE Good(p)
  <2>1. PICK t : t = [t0 EXCEPT !.at = "create", !.name = name]
    OBVIOUS
  <2>2. t.op = "google" /\ t.at = "create" /\ Proceed(p, t)
    BY <1>2, <1>3, <1>5, <2>1 DEF Fields
  <2> QED
    BY <1>2, <2>2, OnwardGood
<1> QED
  BY <1>1, <1>4, <1>5 DEF PickUsername

LEMMA TryAgainGood ==
  ASSUME MembersInv, Rules, NEW p \in Procs, task[p] # None, task[p].op = "google", TryAgain(p)
  PROVE  Good(p)
<1>1. PICK t0 : t0 = task[p]
  OBVIOUS
<1>2. DOMAIN t0 = Fields /\ t0.op = "google" /\ Reads
  BY <1>1, TaskFits DEF TryAgain
<1>3. CASE Proceed(p, [t0 EXCEPT !.at = "collided"])
  <2>1. PICK t : t = [t0 EXCEPT !.at = "collided"]
    OBVIOUS
  <2>2. t.op = "google" /\ t.at = "collided" /\ Proceed(p, t)
    BY <1>2, <1>3, <2>1 DEF Fields
  <2> QED
    BY <1>2, <2>2, OnwardGood
<1>4. ASSUME NEW n, Proceed(p, [t0 EXCEPT !.at = "find", !.n = n]) PROVE Good(p)
  <2>1. PICK t : t = [t0 EXCEPT !.at = "find", !.n = n]
    OBVIOUS
  <2>2. t.op = "google" /\ t.at = "find" /\ Proceed(p, t)
    BY <1>2, <1>4, <2>1 DEF Fields
  <2> QED
    BY <1>2, <2>2, OnwardGood
<1> QED
  BY <1>1, <1>3, <1>4 DEF TryAgain

\* What the gate has seen of the account is so as long as the request is alone.
LEMMA GateGood ==
  ASSUME MembersInv, Rules, NEW p \in Procs, Gate(p)
  PROVE  Good(p)
<1>1. PICK t0 : t0 = task[p]
  OBVIOUS
<1>2. t0.at = "gate" /\ task[p] # None /\ Reads
  BY <1>1 DEF Gate, Stands
<1>3. DOMAIN t0 = Fields /\ t0.op \in {"verify", "google"} /\ (t0.alone => Checked(t0))
  BY <1>1, <1>2, TaskFits DEF Placed
<1>4. CASE t0.active /\ Goto(p, "issue")
  <2>1. PICK t : t = [t0 EXCEPT !.at = "issue"]
    OBVIOUS
  <2>2. t.op = t0.op /\ t.at = "issue" /\ t.alone = t0.alone /\ t.user = t0.user
    BY <1>3, <2>1 DEF Fields
  <2>3. t.alone => user[t.user].active
    BY <1>2, <1>3, <1>4, <2>2 DEF Checked
  <2>4. Stated(t) /\ (t.alone => Checked(t))
    BY <1>3, <2>2, <2>3 DEF Stated, Checked
  <2>5. Proceed(p, t)
    BY <1>1, <1>4, <2>1 DEF Goto
  <2> QED
    BY <1>2, <2>4, <2>5, ReadOnGood
<1>5. CASE End(p)
  BY <1>2, <1>5, EndGood
<1> QED
  BY <1>1, <1>4, <1>5 DEF Gate

-----------------------------------------------------------------------------
(* Signing in: what is written *)

\* A new account leaves the others as they are, and is active.
LEMMA InsertGood ==
  ASSUME MembersInv, Rules, NEW p \in Procs, NEW r, r.active, Insert(r), NEW t, t.op \in {"register", "verify", "google"},
         t.at \in {"issue", "gate"}, t.user = Len(user) + 1, Disturb(p, t)
  PROVE  Good(p)
<1>1. Writing(p) /\ task'[p] = t
  BY DisturbWrites
<1>2. user \in Seq(User) /\ user' = Append(user, r)
  BY DEF MembersInv, Accounts, Insert
<1>3. (\A u \in DOMAIN user : user'[u] = user[u]) /\ user'[Len(user) + 1] = r
  BY <1>2
<1>4. UNCHANGED <<code, feedback, level, setting, method, account, payout>>
  BY DEF Insert, office
<1>5. RowsTyped' /\ Lawful
  <2>1. Quotas => Quotas'
    BY <1>4 DEF Quotas, CodesOf
  <2>2. (Distinct => Distinct') /\ (Known => Known')
    BY <1>4 DEF Distinct, Known, Rows, Labelled
  <2> QED
    BY <1>3, <1>4, <2>1, <2>2 DEF Lawful, Users, RowsTyped, Rules
<1>6. Stated(t) /\ Checked(t)'
  BY <1>3 DEF Stated, Checked
<1>7. Own(p)
  BY <1>1, <1>6, OwnOne
<1> QED
  BY <1>1, <1>5, <1>7 DEF Good

LEMMA RegisterGood ==
  ASSUME MembersInv, Rules, NEW p \in Procs, Register(p)
  PROVE  Good(p)
<1>1. PICK t0 : t0 = task[p]
  OBVIOUS
<1>2. PICK r : r = NewUser(t0.name, None, None, None)
  OBVIOUS
<1>3. t0.op = "register" /\ task[p] # None /\ r.active
  BY <1>1, <1>2 DEF Register, At, NewUser
<1>4. DOMAIN t0 = Fields
  BY <1>1, <1>3, TaskFits
<1>5. CASE Insert(r) /\ Disturb(p, [t0 EXCEPT !.at = "issue", !.user = Len(user) + 1])
  <2>1. PICK n : n = Len(user) + 1
    OBVIOUS
  <2>2. PICK t : t = [t0 EXCEPT !.at = "issue", !.user = n]
    OBVIOUS
  <2>3. t.op = "register" /\ t.at = "issue" /\ t.user = n
    BY <1>3, <1>4, <2>2 DEF Fields
  <2>4. Disturb(p, t)
    BY <1>5, <2>1, <2>2
  <2> QED
    BY <1>3, <1>5, <2>1, <2>3, <2>4, InsertGood
<1>6. CASE End(p) /\ Reads
  BY <1>6, EndGood
<1> QED
  BY <1>1, <1>2, <1>5, <1>6 DEF Register

LEMMA CreateForPhoneGood ==
  ASSUME MembersInv, Rules, NEW p \in Procs, CreateForPhone(p)
  PROVE  Good(p)
<1>1. PICK t0 : t0 = task[p]
  OBVIOUS
<1>2. PICK r : r = NewUser(<<t0.phone, 1>>, t0.phone, None, None)
  OBVIOUS
<1>3. t0.op = "verify" /\ task[p] # None /\ r.active
  BY <1>1, <1>2 DEF CreateForPhone, At, NewUser
<1>4. DOMAIN t0 = Fields
  BY <1>1, <1>3, TaskFits
<1>5. CASE Insert(r) /\ Disturb(p, [t0 EXCEPT !.at = "gate", !.user = Len(user) + 1])
  <2>1. PICK n : n = Len(user) + 1
    OBVIOUS
  <2>2. PICK t : t = [t0 EXCEPT !.at = "gate", !.user = n]
    OBVIOUS
  <2>3. t.op = "verify" /\ t.at = "gate" /\ t.user = n
    BY <1>3, <1>4, <2>2 DEF Fields
  <2>4. Disturb(p, t)
    BY <1>5, <2>1, <2>2
  <2> QED
    BY <1>3, <1>5, <2>1, <2>3, <2>4, InsertGood
<1>6. CASE End(p) /\ Reads
  BY <1>6, EndGood
<1> QED
  BY <1>1, <1>2, <1>5, <1>6 DEF CreateForPhone

LEMMA CreateForGoogleGood ==
  ASSUME MembersInv, Rules, NEW p \in Procs, CreateForGoogle(p)
  PROVE  Good(p)
<1>1. PICK t0 : t0 = task[p]
  OBVIOUS
<1>2. PICK r : r = NewUser(t0.name, None, t0.google.email, t0.google.id)
  OBVIOUS
<1>3. t0.op = "google" /\ task[p] # None /\ r.active
  BY <1>1, <1>2 DEF CreateForGoogle, At, NewUser
<1>4. DOMAIN t0 = Fields
  BY <1>1, <1>3, TaskFits
<1>5. CASE Insert(r) /\ Disturb(p, [t0 EXCEPT !.at = "gate", !.user = Len(user) + 1])
  <2>1. PICK n : n = Len(user) + 1
    OBVIOUS
  <2>2. PICK t : t = [t0 EXCEPT !.at = "gate", !.user = n]
    OBVIOUS
  <2>3. t.op = "google" /\ t.at = "gate" /\ t.user = n
    BY <1>3, <1>4, <2>2 DEF Fields
  <2>4. Disturb(p, t)
    BY <1>5, <2>1, <2>2
  <2> QED
    BY <1>3, <1>5, <2>1, <2>3, <2>4, InsertGood
<1>6. CASE TryAgain(p)
  BY <1>1, <1>3, <1>6, TryAgainGood
<1> QED
  BY <1>1, <1>2, <1>5, <1>6 DEF CreateForGoogle

\* Whoever links an account, alone, has seen that it was not linked.
LEMMA LinkGood ==
  ASSUME MembersInv, Rules, NEW p \in Procs, Link(p)
  PROVE  Good(p)
<1>1. PICK t0 : t0 = task[p]
  OBVIOUS
<1>2. PICK u : u = t0.user
  OBVIOUS
<1>3. PICK g : g = t0.google.id
  OBVIOUS
<1>4. t0.op = "google" /\ t0.at = "link" /\ task[p] # None
  BY <1>1 DEF Link, At
<1>5. DOMAIN t0 = Fields /\ (t0.alone => user[u].google = None) /\ u \in DOMAIN user
  BY <1>1, <1>2, <1>4, TaskFits DEF Checked, Carries
<1>6. CASE /\ user' = [user EXCEPT ![u].google = g]
           /\ Disturb(p, [t0 EXCEPT !.at = "gate", !.active = user[u].active])
           /\ UNCHANGED <<code, token, traces, shop, office>>
  <2>1. PICK b : b = user[u].active
    OBVIOUS
  <2>2. PICK t : t = [t0 EXCEPT !.at = "gate", !.active = b]
    OBVIOUS
  <2>3. t.op = "google" /\ t.at = "gate" /\ t.user = u /\ t.active = b
    BY <1>2, <1>4, <1>5, <2>2 DEF Fields
  <2>4. Disturb(p, t)
    BY <1>6, <2>1, <2>2
  <2>5. Writing(p) /\ task'[p] = t
    BY <2>4, DisturbWrites
  <2>6. /\ UNCHANGED <<code, feedback, level, setting, method, account, payout>>
        /\ user \in Seq(User)
    BY <1>6 DEF traces, shop, office, MembersInv, Accounts
  <2>7. PICK r : r = [user[u] EXCEPT !.google = g]
    OBVIOUS
  <2>8. user[u] \in User
    BY <1>5, <2>6
  <2>9. r.active = user[u].active
    BY <2>7, <2>8 DEF User
  <2>10. user' = [user EXCEPT ![u] = r]
    BY <1>6, <2>7
  <2>11. user'[u] = r /\ \A v \in DOMAIN user : v # u => user'[v] = user[v]
    BY <1>5, <2>10
  <2>12. Stated(t) /\ Checked(t)'
    BY <2>1, <2>3, <2>9, <2>11 DEF Stated, Checked
  <2>13. Own(p)
    BY <2>5, <2>12, OwnOne
  <2>14. Counts(p) => \A v \in Users : user[v].google # None => user'[v].google = user[v].google
    BY <1>1, <1>4, <1>5, <2>3, <2>5, <2>11 DEF Counts, Users
  <2>15. Quotas => Quotas'
    BY <2>6 DEF Quotas, CodesOf
  <2>16. (Distinct => Distinct') /\ (Known => Known')
    BY <2>6 DEF Distinct, Known, Rows, Labelled
  <2>17. RowsTyped' /\ (Counts(p) => Lawful)
    BY <2>6, <2>14, <2>15, <2>16 DEF Lawful, RowsTyped, Rules
  <2> QED
    BY <2>5, <2>13, <2>17 DEF Good
<1>7. CASE TryAgain(p)
  BY <1>1, <1>4, <1>7, TryAgainGood
<1> QED
  BY <1>1, <1>2, <1>3, <1>6, <1>7 DEF Link

-----------------------------------------------------------------------------
(* Codes and feedback, which are counted before they are written *)

\* The two halves of Quotas.
CodeQuotas ==
    \A c \in DOMAIN code :
        /\ code[c].attempts <= MaxAttempts
        /\ \A d \in CodesOf(code[c].phone) : d < c => code[c].at - code[d].at >= Cooldown
        /\ Cardinality({d \in CodesOf(code[c].phone) : d <= c /\ code[d].at + Hour >= code[c].at}) <= MaxCodes
ReportQuotas ==
    \A f \in DOMAIN feedback :
        Cardinality({g \in DOMAIN feedback : feedback[g].user = feedback[f].user /\ g <= f /\ feedback[g].at + Hour >= feedback[f].at})
            <= MaxFeedback
LEMMA Halves == Quotas <=> CodeQuotas /\ ReportQuotas
BY DEF Quotas, CodeQuotas, ReportQuotas
LEMMA SameCodes ==
  ASSUME code' = code
  PROVE  CodeQuotas => CodeQuotas'
BY DEF CodeQuotas, CodesOf
LEMMA SameReports ==
  ASSUME feedback' = feedback
  PROVE  ReportQuotas => ReportQuotas'
BY DEF ReportQuotas

LEMMA CodesKept ==
  ASSUME feedback' = feedback, CodeQuotas => CodeQuotas'
  PROVE  Quotas => Quotas'
<1>1. Quotas' <=> CodeQuotas' /\ ReportQuotas'
  BY DEF Quotas, CodeQuotas, ReportQuotas
<1> QED
  BY <1>1, Halves, SameReports
LEMMA ReportsKept ==
  ASSUME code' = code, ReportQuotas => ReportQuotas'
  PROVE  Quotas => Quotas'
<1>1. Quotas' <=> CodeQuotas' /\ ReportQuotas'
  BY DEF Quotas, CodeQuotas, ReportQuotas
<1> QED
  BY <1>1, Halves, SameCodes

\* All codes of a number are a cooldown old, if its newest is.
LEMMA AllRested ==
  ASSUME MembersInv, CodeQuotas, NEW phone, Rested(phone), NEW d \in CodesOf(phone)
  PROVE  clock - code[d].at >= Cooldown
<1>1. code \in Seq(Code) /\ clock \in Nat /\ CodesOf(phone) \in SUBSET DOMAIN code
  BY DEF MembersInv, Accounts, CodesOf
<1>2. PICK e : e = Latest(CodesOf(phone))
  OBVIOUS
<1>3. e \in CodesOf(phone) /\ \A c \in CodesOf(phone) : c <= e
  BY <1>1, <1>2, LatestIsOne
<1>4. clock - code[e].at >= Cooldown
  BY <1>3 DEF Rested
<1>5. code[e].phone = phone /\ e \in DOMAIN code /\ d \in DOMAIN code
  BY <1>3 DEF CodesOf
<1>6. code[e] \in Code /\ code[d] \in Code /\ d \in Nat /\ e \in Nat
  BY <1>1, <1>5
<1>7. code[e].at \in Nat /\ code[d].at \in Nat
  BY <1>6 DEF Code
<1>8. CASE d = e
  BY <1>4, <1>8
<1>9. CASE d < e
  <2>1. d \in CodesOf(code[e].phone)
    BY <1>5
  <2>2. code[e].at - code[d].at >= Cooldown
    BY <1>5, <1>9, <2>1 DEF CodeQuotas
  <2>3. Cooldown \in Nat
    BY OtpLimits
  <2> QED
    BY <1>1, <1>4, <1>7, <2>2, <2>3
<1> QED
  BY <1>3, <1>6, <1>8, <1>9

LEMMA OneMoreCode ==
  ASSUME MembersInv, Rules, CodeQuotas, NEW phone, NEW x, x.phone = phone, x.at = clock, x.attempts = 0,
         code' = Append(code, x), Rested(phone), Cardinality(CodesInHour(phone)) < MaxCodes
  PROVE  CodeQuotas'
<1>1. code \in Seq(Code) /\ clock \in Nat /\ MaxAttempts \in Nat /\ MaxCodes \in Nat
  BY OtpLimits DEF MembersInv, Accounts
<1>2. PICK n : n = Len(code) + 1
  OBVIOUS
<1>3. /\ n \in Nat /\ DOMAIN code = 1 .. (n - 1) /\ DOMAIN code' = 1 .. n /\ code'[n] = x
      /\ \A d \in DOMAIN code : code'[d] = code[d]
  BY <1>1, <1>2
<1>4. ASSUME NEW c \in DOMAIN code
      PROVE  /\ code'[c].attempts <= MaxAttempts
             /\ \A d \in CodesOf(code[c].phone)' : d < c => code'[c].at - code'[d].at >= Cooldown
             /\ Cardinality({d \in CodesOf(code[c].phone)' : d <= c /\ code'[d].at + Hour >= code'[c].at}) <= MaxCodes
  <2>1. code'[c] = code[c] /\ c <= n - 1
    BY <1>3
  <2>2. \A d : d \in CodesOf(code[c].phone)' /\ d <= c <=> d \in CodesOf(code[c].phone) /\ d <= c
    BY <1>3, <2>1 DEF CodesOf
  <2>3. \A d : d \in CodesOf(code[c].phone) => code'[d] = code[d]
    BY <1>3 DEF CodesOf
  <2>4. {d \in CodesOf(code[c].phone)' : d <= c /\ code'[d].at + Hour >= code'[c].at}
           = {d \in CodesOf(code[c].phone) : d <= c /\ code[d].at + Hour >= code[c].at}
    BY <2>1, <2>2, <2>3
  <2>5. /\ code[c].attempts <= MaxAttempts
        /\ Cardinality({d \in CodesOf(code[c].phone) : d <= c /\ code[d].at + Hour >= code[c].at}) <= MaxCodes
    BY DEF CodeQuotas
  <2>6. ASSUME NEW d \in CodesOf(code[c].phone)', d < c PROVE code'[c].at - code'[d].at >= Cooldown
    <3>1. d \in CodesOf(code[c].phone)
      BY <1>3, <2>1, <2>6 DEF CodesOf
    <3> QED
      BY <2>1, <2>3, <2>6, <3>1 DEF CodeQuotas
  <2> QED
    BY <2>1, <2>4, <2>5, <2>6
<1>5. /\ code'[n].attempts <= MaxAttempts
      /\ \A d \in CodesOf(code[n].phone)' : d < n => code'[n].at - code'[d].at >= Cooldown
      /\ Cardinality({d \in CodesOf(code[n].phone)' : d <= n /\ code'[d].at + Hour >= code'[n].at}) <= MaxCodes
  <2>1. ASSUME NEW d \in CodesOf(code[n].phone)', d < n PROVE code'[n].at - code'[d].at >= Cooldown
    <3>1. d \in CodesOf(phone) /\ code'[d] = code[d]
      BY <1>3, <2>1 DEF CodesOf
    <3> QED
      BY <1>3, <3>1, AllRested
  <2>2. PICK S : S = CodesInHour(phone)
    OBVIOUS
  <2>3. IsFiniteSet(S) /\ Cardinality(S) \in Nat /\ Cardinality(S) < MaxCodes
    BY <2>2, InHourFinite
  <2>7. n \notin S
    BY <1>3, <2>2 DEF CodesInHour, CodesOf
  <2>4. {d \in CodesOf(code[n].phone)' : d <= n /\ code'[d].at + Hour >= code'[n].at} = S \cup {n}
    <3>1. clock + Hour >= clock
      BY <1>1, OtpLimits
    <3> QED
      BY <1>3, <2>2, <3>1 DEF CodesInHour, CodesOf
  <2>5. Cardinality(S \cup {n}) = Cardinality(S) + 1
    BY <2>3, <2>7, FS_AddElement
  <2>6. Cardinality({d \in CodesOf(code[n].phone)' : d <= n /\ code'[d].at + Hour >= code'[n].at}) <= MaxCodes
    <3>1. PICK R : R = {d \in CodesOf(code[n].phone)' : d <= n /\ code'[d].at + Hour >= code'[n].at}
      OBVIOUS
    <3>2. R = S \cup {n}
      BY <2>4, <3>1
    <3>3. Cardinality(R) <= MaxCodes
      BY <1>1, <2>3, <2>5, <3>2
    <3> QED
      BY <3>1, <3>3
  <2>8. code'[n].attempts <= MaxAttempts
    BY <1>1, <1>3
  <2> QED
    BY <2>1, <2>6, <2>8
<1>6. \A c \in DOMAIN code' : /\ code'[c].attempts <= MaxAttempts
                              /\ \A d \in CodesOf(code[c].phone)' : d < c => code'[c].at - code'[d].at >= Cooldown
                              /\ Cardinality({d \in CodesOf(code[c].phone)' : d <= c /\ code'[d].at + Hour >= code'[c].at}) <= MaxCodes
  <2>1. \A c \in DOMAIN code' : c \in DOMAIN code \/ c = n
    BY <1>3
  <2> QED
    BY <1>3, <1>4, <1>5, <2>1
<1> QED
  BY <1>6 DEF CodeQuotas

\* Codes that were sent as they were, and guessed at no more often than they may be.
LEMMA SameStamps ==
  ASSUME CodeQuotas, DOMAIN code' = DOMAIN code,
         \A c \in DOMAIN code : code'[c].phone = code[c].phone /\ code'[c].at = code[c].at /\ code'[c].attempts <= MaxAttempts
  PROVE  CodeQuotas'
<1>1. ASSUME NEW c \in DOMAIN code
      PROVE  /\ \A d \in CodesOf(code[c].phone)' : d < c => code'[c].at - code'[d].at >= Cooldown
             /\ Cardinality({d \in CodesOf(code[c].phone)' : d <= c /\ code'[d].at + Hour >= code'[c].at}) <= MaxCodes
  <2>1. PICK S : S = CodesOf(code[c].phone)
    OBVIOUS
  <2>2. CodesOf(code[c].phone)' = S /\ \A d \in S : code'[d].at = code[d].at
    BY <2>1 DEF CodesOf
  <2>3. /\ \A d \in S : d < c => code[c].at - code[d].at >= Cooldown
        /\ Cardinality({d \in S : d <= c /\ code[d].at + Hour >= code[c].at}) <= MaxCodes
    BY <2>1 DEF CodeQuotas
  <2>4. {d \in S : d <= c /\ code'[d].at + Hour >= code'[c].at} = {d \in S : d <= c /\ code[d].at + Hour >= code[c].at}
    BY <2>2
  <2> QED
    BY <2>2, <2>3, <2>4
<1> QED
  BY <1>1 DEF CodeQuotas

\* A code is sent.
LEMMA CreateCodeGood ==
  ASSUME MembersInv, Rules, NEW p \in Procs, CreateCode(p)
  PROVE  Good(p)
<1>1. PICK t0 : t0 = task[p]
  OBVIOUS
<1>2. PICK x : x = [phone |-> t0.phone, at |-> clock, attempts |-> 0, consumed |-> 0]
  OBVIOUS
<1>3. /\ t0.op = "code" /\ t0.at = "create" /\ task[p] # None /\ code' = Append(code, x) /\ Disturb(p, None)
      /\ UNCHANGED <<user, feedback, level, setting, method, account, payout>>
  BY <1>1, <1>2 DEF CreateCode, At, traces, shop, office
<1>4. t0.alone => Rested(t0.phone) /\ Cardinality(CodesInHour(t0.phone)) < MaxCodes
  <2>1. t0.alone => Checked(t0)
    BY <1>1, <1>3, TaskFits
  <2> QED
    BY <1>3, <2>1 DEF Checked
<1>5. t0.alone /\ CodeQuotas => CodeQuotas'
  <2>1. x.phone = t0.phone /\ x.at = clock /\ x.attempts = 0
    BY <1>2
  <2> QED
    BY <1>3, <1>4, <2>1, OneMoreCode
<1>6. Writing(p) /\ task'[p] = None
  BY <1>3, DisturbWrites
<1>7. (Distinct => Distinct') /\ (Known => Known')
  BY <1>3 DEF Distinct, Known, Rows, Labelled
<1>8. t0.alone /\ Quotas => Quotas'
  BY <1>3, <1>5, CodesKept
<1>9. Counts(p) => t0.alone
  BY <1>1, <1>3, <1>6 DEF Counts
<1>10. RowsTyped' /\ (Counts(p) => Lawful)
  BY <1>3, <1>7, <1>8, <1>9 DEF RowsTyped, Rules, Lawful, Users
<1> QED
  BY <1>6, <1>10 DEF Good, Own

\* A code is guessed at, once more than it was.
LEMMA CountAttemptGood ==
  ASSUME MembersInv, Rules, NEW p \in Procs, CountAttempt(p)
  PROVE  Good(p)
<1>1. PICK t0 : t0 = task[p]
  OBVIOUS
<1>2. PICK r : r = t0.row
  OBVIOUS
<1>3. /\ t0.op = "verify" /\ t0.at = "attempt" /\ task[p] # None /\ code' = [code EXCEPT ![r].attempts = @ + 1] /\ Disturb(p, None)
      /\ UNCHANGED <<user, feedback, level, setting, method, account, payout>>
  BY <1>1, <1>2 DEF CountAttempt, At, traces, shop, office
<1>4. t0.alone => r \in DOMAIN code /\ code[r].attempts < MaxAttempts
  <2>1. t0.alone => Checked(t0)
    BY <1>1, <1>3, TaskFits
  <2> QED
    BY <1>2, <1>3, <2>1 DEF Checked
<1>5. ASSUME t0.alone, CodeQuotas PROVE CodeQuotas'
  <2>1. code \in Seq(Code) /\ r \in DOMAIN code /\ MaxAttempts \in Nat
    BY <1>4, <1>5, OtpLimits DEF MembersInv, Accounts
  <2>2. code[r] \in Code
    BY <2>1
  <2>3. PICK x : x = [code[r] EXCEPT !.attempts = @ + 1]
    OBVIOUS
  <2>4. x.phone = code[r].phone /\ x.at = code[r].at /\ x.attempts = code[r].attempts + 1 /\ code[r].attempts \in Nat
    BY <2>2, <2>3 DEF Code
  <2>5. code' = [code EXCEPT ![r] = x]
    BY <1>3, <2>3
  <2>6. DOMAIN code' = DOMAIN code /\ code'[r] = x /\ \A c \in DOMAIN code : c # r => code'[c] = code[c]
    BY <2>1, <2>5
  <2>7. x.attempts <= MaxAttempts
    BY <1>4, <1>5, <2>1, <2>4
  <2>8. \A c \in DOMAIN code : code[c].attempts <= MaxAttempts
    BY <1>5 DEF CodeQuotas
  <2>9. \A c \in DOMAIN code : code'[c].phone = code[c].phone /\ code'[c].at = code[c].at /\ code'[c].attempts <= MaxAttempts
    BY <2>4, <2>6, <2>7, <2>8
  <2> QED
    BY <1>5, <2>6, <2>9, SameStamps
<1>6. Writing(p) /\ task'[p] = None
  BY <1>3, DisturbWrites
<1>7. (Distinct => Distinct') /\ (Known => Known')
  BY <1>3 DEF Distinct, Known, Rows, Labelled
<1>8. t0.alone /\ Quotas => Quotas'
  BY <1>3, <1>5, CodesKept
<1>9. Counts(p) => t0.alone
  BY <1>1, <1>3, <1>6 DEF Counts
<1>10. RowsTyped' /\ (Counts(p) => Lawful)
  BY <1>3, <1>7, <1>8, <1>9 DEF RowsTyped, Rules, Lawful, Users
<1> QED
  BY <1>6, <1>10 DEF Good, Own

\* A code is used up.
LEMMA ConsumeGood ==
  ASSUME MembersInv, Rules, NEW p \in Procs, Consume(p)
  PROVE  Good(p)
<1>1. PICK t0 : t0 = task[p]
  OBVIOUS
<1>2. PICK r : r = t0.row
  OBVIOUS
<1>3. t0.op = "verify" /\ task[p] # None
  BY <1>1 DEF Consume, At
<1>4. DOMAIN t0 = Fields
  BY <1>1, <1>3, TaskFits
<1>5. CASE /\ code' = [code EXCEPT ![r].consumed = @ + 1]
           /\ Disturb(p, [t0 EXCEPT !.at = "find"])
           /\ UNCHANGED <<user, token, traces, shop, office>>
  <2>1. PICK t : t = [t0 EXCEPT !.at = "find"]
    OBVIOUS
  <2>2. t.op = "verify" /\ t.at = "find" /\ Disturb(p, t)
    BY <1>3, <1>4, <1>5, <2>1 DEF Fields
  <2>3. Writing(p) /\ task'[p] = t
    BY <2>2, DisturbWrites
  <2>4. UNCHANGED <<user, feedback, level, setting, method, account, payout>> /\ code \in Seq(Code)
    BY <1>5 DEF traces, shop, office, MembersInv, Accounts
  <2>5. Own(p)
    BY <2>2, <2>3, OwnOne DEF Stated, Checked
  <2>6. ASSUME CodeQuotas PROVE CodeQuotas'
    <3>1. /\ DOMAIN code' = DOMAIN code
          /\ \A c \in DOMAIN code : code'[c].phone = code[c].phone /\ code'[c].at = code[c].at /\ code'[c].attempts = code[c].attempts
      <4>1. PICK x : x = [code[r] EXCEPT !.consumed = @ + 1]
        OBVIOUS
      <4>2. code' = [code EXCEPT ![r] = x]
        BY <1>5, <4>1
      <4>3. ASSUME NEW c \in DOMAIN code
            PROVE  code'[c].phone = code[c].phone /\ code'[c].at = code[c].at /\ code'[c].attempts = code[c].attempts
        <5>1. code[c] \in Code
          BY <2>4
        <5>2. CASE c = r
          BY <4>1, <4>2, <5>1, <5>2 DEF Code
        <5>3. CASE c # r
          BY <4>2, <5>3
        <5> QED
          BY <5>2, <5>3
      <4> QED
        BY <4>2, <4>3
    <3>2. \A c \in DOMAIN code : code[c].attempts <= MaxAttempts
      BY <2>6 DEF CodeQuotas
    <3> QED
      BY <2>6, <3>1, <3>2, SameStamps
  <2>7. (Distinct => Distinct') /\ (Known => Known')
    BY <2>4 DEF Distinct, Known, Rows, Labelled
  <2>8. Quotas => Quotas'
    BY <2>4, <2>6, CodesKept
  <2>9. RowsTyped' /\ Lawful
    BY <2>4, <2>7, <2>8 DEF RowsTyped, Rules, Lawful, Users
  <2> QED
    BY <2>3, <2>5, <2>9 DEF Good
<1>6. CASE End(p) /\ Reads
  BY <1>6, EndGood
<1> QED
  BY <1>1, <1>2, <1>5, <1>6 DEF Consume

\* A request that ends by writing.
LEMMA WriteEnds ==
  ASSUME MembersInv, Rules, NEW p \in Procs, task[p] # None, Disturb(p, None), RowsTyped', task[p].alone => Lawful
  PROVE  Good(p)
<1>1. Writing(p) /\ task'[p] = None
  BY DisturbWrites
<1>2. Counts(p) => task[p].alone
  BY <1>1 DEF Counts
<1> QED
  BY <1>1, <1>2 DEF Good, Own
\* One that goes on.
LEMMA WriteGoesOn ==
  ASSUME MembersInv, Rules, NEW p \in Procs, task[p] # None, NEW t, Disturb(p, t), RowsTyped', task[p].alone => Lawful,
         t.at # task[p].at, Stated(t) /\ (t.alone => Checked(t)')
  PROVE  Good(p)
<1>1. Writing(p) /\ task'[p] = t
  BY DisturbWrites
<1>2. Own(p)
  BY <1>1, OwnOne
<1>3. Counts(p) => task[p].alone
  BY <1>1 DEF Counts
<1> QED
  BY <1>1, <1>2, <1>3 DEF Good

LEMMA OneMoreReport ==
  ASSUME MembersInv, Rules, ReportQuotas, NEW u, NEW x, x.user = u, x.at = clock,
         feedback' = Append(feedback, x), Cardinality(ReportsInHour(u)) < MaxFeedback
  PROVE  ReportQuotas'
<1>1. feedback \in Seq(Report) /\ clock \in Nat /\ MaxFeedback \in Nat /\ Hour \in Nat
  BY OtpLimits, LimitsOfTracking DEF MembersInv, Accounts, Rules, RowsTyped
<1>2. PICK n : n = Len(feedback) + 1
  OBVIOUS
<1>3. /\ n \in Nat /\ DOMAIN feedback = 1 .. (n - 1) /\ DOMAIN feedback' = 1 .. n /\ feedback'[n] = x
      /\ \A g \in DOMAIN feedback : feedback'[g] = feedback[g]
  BY <1>1, <1>2
<1>4. ASSUME NEW f \in DOMAIN feedback
      PROVE  Cardinality({g \in DOMAIN feedback' : feedback'[g].user = feedback'[f].user /\ g <= f
                                                   /\ feedback'[g].at + Hour >= feedback'[f].at}) <= MaxFeedback
  <2>1. {g \in DOMAIN feedback' : feedback'[g].user = feedback'[f].user /\ g <= f /\ feedback'[g].at + Hour >= feedback'[f].at}
           = {g \in DOMAIN feedback : feedback[g].user = feedback[f].user /\ g <= f /\ feedback[g].at + Hour >= feedback[f].at}
    BY <1>3
  <2>2. Cardinality({g \in DOMAIN feedback : feedback[g].user = feedback[f].user /\ g <= f /\ feedback[g].at + Hour >= feedback[f].at})
           <= MaxFeedback
    BY DEF ReportQuotas
  <2> QED
    BY <2>1, <2>2
<1>5. Cardinality({g \in DOMAIN feedback' : feedback'[g].user = feedback'[n].user /\ g <= n
                                            /\ feedback'[g].at + Hour >= feedback'[n].at}) <= MaxFeedback
  <2>1. PICK S : S = ReportsInHour(u)
    OBVIOUS
  <2>2. IsFiniteSet(S) /\ Cardinality(S) \in Nat /\ Cardinality(S) < MaxFeedback
    BY <2>1, InHourFinite
  <2>3. n \notin S
    BY <1>3, <2>1 DEF ReportsInHour
  <2>4. PICK R : R = {g \in DOMAIN feedback' : feedback'[g].user = feedback'[n].user /\ g <= n
                                               /\ feedback'[g].at + Hour >= feedback'[n].at}
    OBVIOUS
  <2>5. R = S \cup {n}
    <3>1. clock + Hour >= clock
      BY <1>1
    <3>2. \A g \in DOMAIN feedback : g \in R <=> g \in S
      BY <1>3, <2>1, <2>4 DEF ReportsInHour
    <3>3. n \in R
      BY <1>3, <2>4, <3>1
    <3>4. \A g \in R \cup S : g \in DOMAIN feedback \/ g = n
      BY <1>3, <2>1, <2>4 DEF ReportsInHour
    <3> QED
      BY <2>3, <3>2, <3>3, <3>4
  <2>6. Cardinality(R) = Cardinality(S) + 1
    BY <2>2, <2>3, <2>5, FS_AddElement
  <2>7. Cardinality(R) <= MaxFeedback
    BY <1>1, <2>2, <2>6
  <2> QED
    BY <2>4, <2>7
<1>6. \A f \in DOMAIN feedback' :
         Cardinality({g \in DOMAIN feedback' : feedback'[g].user = feedback'[f].user /\ g <= f
                                               /\ feedback'[g].at + Hour >= feedback'[f].at}) <= MaxFeedback
  <2>1. \A f \in DOMAIN feedback' : f \in DOMAIN feedback \/ f = n
    BY <1>3
  <2> QED
    BY <1>4, <1>5, <2>1
<1> QED
  BY <1>6 DEF ReportQuotas

\* Feedback is sent: it has been counted.
LEMMA AskFeedbackGood ==
  ASSUME MembersInv, Rules, NEW p \in Procs, NEW u \in Users, AskFeedback(p, u)
  PROVE  Good(p)
<1>1. PICK t : t = [Idle EXCEPT !.op = "feedback", !.at = "create", !.user = u]
  OBVIOUS
<1>2. t.op = "feedback" /\ t.at = "create" /\ t.user = u
  BY <1>1, IdleShape DEF Fields
<1>3. Ask(p, t) /\ Cardinality(ReportsInHour(u)) < MaxFeedback
  BY <1>1 DEF AskFeedback, ReportsInHour
<1>4. u \in Nat
  BY DEF Users, MembersInv, Accounts
<1> QED
  BY <1>2, <1>3, <1>4, AskGood DEF Stated, Checked
LEMMA CreateFeedbackGood ==
  ASSUME MembersInv, Rules, NEW p \in Procs, CreateFeedback(p)
  PROVE  Good(p)
<1>1. PICK t0 : t0 = task[p]
  OBVIOUS
<1>2. PICK x : x = [user |-> t0.user, at |-> clock, status |-> "NEW", handler |-> None]
  OBVIOUS
<1>3. /\ t0.op = "feedback" /\ t0.at = "create" /\ task[p] # None /\ feedback' = Append(feedback, x) /\ Disturb(p, None)
      /\ UNCHANGED <<user, code, level, setting, method, account, payout>>
  BY <1>1, <1>2 DEF CreateFeedback, Wrote, At, identity, shop, office
<1>4. Stated(t0) /\ (t0.alone => Checked(t0))
  BY <1>1, <1>3, TaskFits
<1>5. t0.user \in Nat /\ (t0.alone => Cardinality(ReportsInHour(t0.user)) < MaxFeedback)
  BY <1>3, <1>4 DEF Stated, Checked
<1>6. t0.alone /\ ReportQuotas => ReportQuotas'
  <2>1. x.user = t0.user /\ x.at = clock
    BY <1>2
  <2> QED
    BY <1>3, <1>5, <2>1, OneMoreReport
<1>7. t0.alone /\ Quotas => Quotas'
  BY <1>3, <1>6, ReportsKept
<1>8. (Distinct => Distinct') /\ (Known => Known')
  BY <1>3 DEF Distinct, Known, Rows, Labelled
<1>9. RowsTyped'
  <2>1. clock \in Nat
    BY DEF MembersInv, Accounts
  <2>2. x \in Report
    <3>1. \A u, c \in Nat, s \in {"NEW", "DONE"}, h \in Nat \cup {None} : [user |-> u, at |-> c, status |-> s, handler |-> h] \in Report
      BY DEF Report
    <3> QED
      BY <1>2, <1>5, <2>1, <3>1
  <2>3. RowsTyped
    BY DEF Rules
  <2> QED
    BY <1>3, <2>2, <2>3 DEF RowsTyped
<1>10. t0.alone => Lawful
  BY <1>3, <1>7, <1>8 DEF Lawful, Users
<1> QED
  BY <1>1, <1>3, <1>9, <1>10, WriteEnds

LEMMA SameSigned ==
  ASSUME DOMAIN feedback' = DOMAIN feedback,
         \A g \in DOMAIN feedback : feedback'[g].user = feedback[g].user /\ feedback'[g].at = feedback[g].at, ReportQuotas
  PROVE  ReportQuotas'
<1>1. ASSUME NEW f \in DOMAIN feedback
      PROVE  {g \in DOMAIN feedback' : feedback'[g].user = feedback'[f].user /\ g <= f /\ feedback'[g].at + Hour >= feedback'[f].at}
             = {g \in DOMAIN feedback : feedback[g].user = feedback[f].user /\ g <= f /\ feedback[g].at + Hour >= feedback[f].at}
  OBVIOUS
<1> QED
  BY <1>1 DEF ReportQuotas

\* Staff take it up.
LEMMA HandleFeedbackGood ==
  ASSUME MembersInv, Rules, NEW p \in Procs, NEW f \in DOMAIN feedback, NEW by \in Users, HandleFeedback(p, f, by, "DONE")
  PROVE  Good(p)
<1>1. /\ Once(p, "triage") /\ feedback' = [feedback EXCEPT ![f].status = "DONE", ![f].handler = by] /\ UNCHANGED <<setting, method, account, payout>>
      /\ feedback \in Seq(Report) /\ RowsTyped
  BY DEF HandleFeedback, office, Rules, RowsTyped
<1>2. PICK x : x = [feedback[f] EXCEPT !.status = "DONE", !.handler = by]
  OBVIOUS
<1>3. by \in Nat
  BY DEF Users, MembersInv, Accounts
<1>4. feedback[f] \in Report
  BY <1>1
<1>5. PICK r : r = feedback[f]
  OBVIOUS
<1>6. x \in Report
  <2>1. r \in [user : Nat, at : Nat, status : {"NEW", "DONE"}, handler : Nat \cup {None}]
    BY <1>4, <1>5 DEF Report
  <2>2. "DONE" \in {"NEW", "DONE"} /\ by \in Nat \cup {None}
    BY <1>3
  <2>3. x = [r EXCEPT !.status = "DONE", !.handler = by]
    BY <1>2, <1>5
  <2>4. x \in [user : Nat, at : Nat, status : {"NEW", "DONE"}, handler : Nat \cup {None}]
    BY <2>1, <2>2, <2>3
  <2> QED
    BY <2>4 DEF Report
<1>7. feedback' = [feedback EXCEPT ![f] = x]
  BY <1>1, <1>2
<1>8. feedback' \in Seq(Report)
  <2>1. [feedback EXCEPT ![f] = x] \in Seq(Report)
    BY <1>1, <1>6, RowPut
  <2> QED
    BY <1>7, <2>1
<1>9. UNCHANGED <<user, code, level, setting, method, account, payout>>
  BY DEF HandleFeedback, identity, shop, office
<1>10. ReportQuotas => ReportQuotas'
  <2>1. x.user = feedback[f].user /\ x.at = feedback[f].at
    BY <1>2, <1>4 DEF Report
  <2>2. DOMAIN feedback' = DOMAIN feedback /\ \A g \in DOMAIN feedback : feedback'[g].user = feedback[g].user /\ feedback'[g].at = feedback[g].at
    BY <1>1, <1>7, <2>1
  <2> QED
    BY <2>2, SameSigned
<1>11. (Distinct => Distinct') /\ (Known => Known') /\ (Quotas => Quotas')
  BY <1>9, <1>10, ReportsKept DEF Distinct, Known, Rows, Labelled
<1>12. RowsTyped' /\ Lawful
  BY <1>1, <1>8, <1>9, <1>11 DEF RowsTyped, Lawful, Users
<1> QED
  BY <1>1, <1>12, OnceGood

-----------------------------------------------------------------------------
(* Writes about something else *)

LEMMA QuietWrites ==
  ASSUME MembersInv, Rules, NEW p \in Procs, NEW t, Disturb(p, t), UNCHANGED ruled, t # None => Unchecked(t)
  PROVE  Good(p)
<1>1. task'[p] = t
  BY DisturbWrites
<1>2. Own(p)
  BY <1>1, UncheckedFits
<1> QED
  BY <1>2, WritesGood
LEMMA QuietReads ==
  ASSUME MembersInv, Rules, NEW p \in Procs, NEW t, Proceed(p, t), Reads, t # None => Unchecked(t)
  PROVE  Good(p)
<1>1. Reading(p) /\ task'[p] = t
  BY ProceedReads
<1>2. Own(p)
  BY <1>1, UncheckedFits
<1> QED
  BY <1>1, <1>2, ReadsGood

\* A request goes on from where it stood.
LEMMA OnTo ==
  ASSUME MembersInv, NEW p \in Procs, task[p] # None, NEW t0, t0 = task[p], NEW t, NEW at, t = [t0 EXCEPT !.at = at]
  PROVE  t.at = at /\ t.op = t0.op /\ t.user = t0.user /\ t.query = t0.query /\ t.row = t0.row /\ t.alone = t0.alone
<1>1. DOMAIN t0 = Fields
  BY DEF MembersInv, Accounts, Placed
<1> QED
  BY <1>1 DEF Fields

LEMMA SpendGood ==
  ASSUME MembersInv, MembersInv', Rules, NEW p \in Procs, Spend(p)
  PROVE  Good(p)
<1>1. PICK t0 : t0 = task[p]
  OBVIOUS
<1>2. t0.op = "refresh" /\ task[p] # None
  BY <1>1 DEF Spend, At
<1>3. PICK t : t = [t0 EXCEPT !.at = "issue"]
  OBVIOUS
<1>4. t.op = "refresh"
  BY <1>1, <1>2, <1>3, OnTo
<1>5. CASE Disturb(p, t) /\ UNCHANGED <<user, code, traces, shop, office>>
  <2>1. task'[p] = t /\ UNCHANGED ruled
    BY <1>5, DisturbWrites DEF ruled, traces, shop, office
  <2>2. Own(p)
    BY <1>4, <2>1, OwnElse DEF Ruled
  <2> QED
    BY <1>5, <2>1, <2>2, WritesGood
<1>6. CASE End(p) /\ Reads
  BY <1>6, EndGood
<1> QED
  BY <1>1, <1>3, <1>5, <1>6 DEF Spend
LEMMA IssueGood ==
  ASSUME MembersInv, Rules, NEW p \in Procs, Issue(p)
  PROVE  Good(p)
<1>1. PICK t0 : t0 = task[p]
  OBVIOUS
<1>2. PICK s : s = [t0 EXCEPT !.at = "session", !.when = clock]
  OBVIOUS
<1>3. PICK t : t = IF t0.op \in {"login", "verify", "google"} THEN s ELSE None
  OBVIOUS
<1>4. task[p] # None /\ Disturb(p, t) /\ UNCHANGED ruled
  BY <1>1, <1>2, <1>3 DEF Issue, Stands, ruled, traces, shop, office
<1>5. DOMAIN t0 = Fields
  BY <1>1, <1>4, TaskFits
<1>6. s.op = t0.op /\ s.at = "session"
  BY <1>2, <1>5 DEF Fields
<1>7. t # None => Unchecked(t)
  BY <1>3, <1>6 DEF Unchecked
<1> QED
  BY <1>4, <1>7, QuietWrites
LEMMA SessionsGood ==
  ASSUME MembersInv, Rules, NEW p \in Procs, InsertSession(p) \/ WriteSession(p)
  PROVE  Good(p)
<1>1. PICK t0 : t0 = task[p]
  OBVIOUS
<1>2. PICK t : t = [t0 EXCEPT !.at = "presence"]
  OBVIOUS
<1>3. /\ task[p] # None /\ Disturb(p, t) /\ UNCHANGED ruled
      /\ t0.at = "session" \/ t0.op = "touch"
  BY <1>1, <1>2 DEF InsertSession, WriteSession, Wrote, Stands, At, ruled, identity, shop, office
<1>4. t0.at = "session" => t0.op \in {"login", "verify", "google"}
  BY <1>1, <1>3, TaskFits DEF Placed
<1>5. t.at = "presence" /\ t.op = t0.op
  BY <1>1, <1>2, <1>3, OnTo
<1>6. Unchecked(t)
  BY <1>3, <1>4, <1>5 DEF Unchecked
<1> QED
  BY <1>3, <1>6, QuietWrites
LEMMA WritePresenceGood ==
  ASSUME MembersInv, Rules, NEW p \in Procs, WritePresence(p)
  PROVE  Good(p)
<1>1. PICK t : t = task[p]
  OBVIOUS
<1>2. PICK u : u = t.user
  OBVIOUS
<1>3. t.at = "presence" /\ task[p] # None
  BY <1>1 DEF WritePresence, Stands
<1>4. u \in DOMAIN user
  BY <1>1, <1>2, <1>3, TaskFits DEF Carries
<1>5. PICK r : r = [user[u] EXCEPT !.seen = t.when]
  OBVIOUS
<1>6. user \in Seq(User)
  BY DEF MembersInv, Accounts
<1>7. user[u] \in User
  BY <1>4, <1>6
<1>8. r.google = user[u].google
  BY <1>5, <1>7 DEF User
<1>9. user' = [user EXCEPT ![u] = r] /\ Disturb(p, None) /\ UNCHANGED <<code, feedback, level, setting, method, account, payout>>
  BY <1>1, <1>2, <1>5 DEF WritePresence, shop, office
<1> QED
  BY <1>4, <1>8, <1>9, UserWrites

LEMMA TouchGood ==
  ASSUME MembersInv, MembersInv', Rules, NEW p \in Procs, NEW u, NEW c, Touch(p, u, c)
  PROVE  Good(p)
<1>1. PICK t : t = [Idle EXCEPT !.op = "touch", !.at = "find", !.user = u, !.client = c, !.when = clock]
  OBVIOUS
<1>2. t.op = "touch"
  BY <1>1, IdleShape DEF Fields
<1>3. Proceed(p, t) /\ UNCHANGED <<ruled, clock>>
  BY <1>1 DEF Touch, Enter, ruled, identity, shop, office
<1>4. task'[p] = t /\ \A q \in Procs \ {p} : task'[q] = task[q]
  BY <1>3, ProceedTurns, AccountsTyped DEF MembersInv
<1>5. Reading(p)
  BY <1>3, <1>4 DEF Reading
<1> QED
  BY <1>2, <1>4, <1>5, OwnElse, ReadsGood DEF Ruled
LEMMA FindSessionGood ==
  ASSUME MembersInv, Rules, NEW p \in Procs, FindSession(p)
  PROVE  Good(p)
<1>1. PICK t0 : t0 = task[p]
  OBVIOUS
<1>2. PICK r : Proceed(p, [t0 EXCEPT !.at = "write", !.row = r])
  BY <1>1 DEF FindSession
<1>3. t0.op = "touch" /\ task[p] # None /\ Reads
  BY <1>1 DEF FindSession, At
<1>4. DOMAIN t0 = Fields
  BY <1>1, <1>3, TaskFits
<1>5. PICK t : t = [t0 EXCEPT !.at = "write", !.row = r]
  OBVIOUS
<1>6. t.op = "touch" /\ t.at = "write"
  BY <1>3, <1>4, <1>5 DEF Fields
<1>7. Unchecked(t) /\ Proceed(p, t)
  BY <1>2, <1>5, <1>6 DEF Unchecked
<1> QED
  BY <1>3, <1>7, QuietReads
LEMMA BeatsGood ==
  ASSUME MembersInv, Rules, NEW p \in Procs, WritePosition(p) \/ RecordBeat(p)
  PROVE  Good(p)
<1>1. PICK t0 : t0 = task[p]
  OBVIOUS
<1>2. PICK t : t = [t0 EXCEPT !.at = "record"]
  OBVIOUS
<1>3. t0.op = "beat" /\ task[p] # None
  BY <1>1 DEF WritePosition, RecordBeat, At
<1>4. t.at = "record" /\ t.op = "beat"
  BY <1>1, <1>2, <1>3, OnTo
<1>5. Unchecked(t)
  BY <1>4 DEF Unchecked
<1>6. CASE Disturb(p, t) /\ UNCHANGED ruled
  BY <1>5, <1>6, QuietWrites
<1>7. CASE Disturb(p, None) /\ UNCHANGED ruled
  BY <1>7, QuietWrites
<1>8. CASE End(p) /\ Reads
  BY <1>8, EndGood
<1>9. CASE WritePosition(p)
  BY <1>1, <1>2, <1>6, <1>9 DEF WritePosition, Wrote, ruled, identity, shop, office
<1>10. CASE RecordBeat(p)
  BY <1>7, <1>8, <1>10 DEF RecordBeat, Wrote, ruled, identity, shop, office
<1> QED
  BY <1>9, <1>10
LEMMA AskBeatGood ==
  ASSUME MembersInv, Rules, NEW p \in Procs, NEW u, NEW m, NEW to, NEW c, AskBeat(p, u, m, to, c)
  PROVE  Good(p)
<1>1. PICK w : Ask(p, [Idle EXCEPT !.op = "beat", !.at = "write", !.user = u, !.row = m, !.n = to, !.client = c, !.when = w])
  BY DEF AskBeat
<1>2. PICK t : t = [Idle EXCEPT !.op = "beat", !.at = "write", !.user = u, !.row = m, !.n = to, !.client = c, !.when = w]
  OBVIOUS
<1>3. t.op = "beat" /\ t.at = "write"
  BY <1>2, IdleShape DEF Fields
<1>4. Stated(t) /\ Checked(t)
  BY <1>3 DEF Stated, Checked
<1> QED
  BY <1>1, <1>2, <1>4, AskGood
LEMMA QueriesGood ==
  ASSUME MembersInv, Rules, NEW p \in Procs, NEW u, NEW v, NEW w, Connect(p, u, v) \/ Search(p, u, w, v)
  PROVE  Good(p)
<1>1. PICK op : Once(p, op)
  BY DEF Connect, Search
<1>2. UNCHANGED ruled
  BY DEF Connect, Search, ruled, identity, traces, shop, office
<1> QED
  BY <1>1, <1>2, OnceElse

\* Withdrawals: none of the rules is about them.
LEMMA AskWithdrawalGood ==
  ASSUME MembersInv, Rules, NEW p \in Procs, NEW u \in Users, NEW number \in Numbers, AskWithdrawal(p, u, number, 1)
  PROVE  Good(p)
<1>1. PICK t : t = [Idle EXCEPT !.op = "withdraw", !.at = "create", !.user = u, !.name = number, !.n = 1]
  OBVIOUS
<1>2. t.op = "withdraw" /\ t.at = "create" /\ t.user = u /\ t.name = number /\ t.n = 1
  BY <1>1, IdleShape DEF Fields
<1>3. u \in Nat
  BY DEF Users, MembersInv, Accounts
<1>4. Stated(t) /\ Checked(t)
  BY <1>2, <1>3 DEF Stated, Checked
<1>5. Ask(p, t)
  BY <1>1 DEF AskWithdrawal
<1> QED
  BY <1>4, <1>5, AskGood
LEMMA WithdrawGood ==
  ASSUME MembersInv, Rules, NEW p \in Procs, Withdraw(p)
  PROVE  Good(p)
<1>1. PICK t : t = task[p]
  OBVIOUS
<1>2. task[p] # None /\ t.op = "withdraw"
  BY <1>1 DEF Withdraw, At
<1>3. t.user \in Nat /\ t.name \in Numbers /\ t.n \in Nat /\ clock \in Nat /\ payout \in Seq(Payout)
  BY <1>1, <1>2 DEF Rules, Stated, RowsTyped, MembersInv, Accounts
<1>4. PICK r : r = [user |-> t.user, number |-> t.name, amount |-> t.n, status |-> "PENDING", at |-> clock]
  OBVIOUS
<1>5. r \in Payout
  <2>1. \A u, n, c \in Nat, number \in Numbers, x \in {"PENDING", "APPROVED", "REJECTED"} :
          [user |-> u, number |-> number, amount |-> n, status |-> x, at |-> c] \in Payout
    BY DEF Payout, Numbers
  <2> QED
    BY <1>3, <1>4, <2>1
<1>6. /\ payout' = Append(payout, r) /\ Disturb(p, None)
      /\ UNCHANGED <<user, code, feedback, level, setting, method, account>>
  BY <1>1, <1>4 DEF Withdraw, identity, traces, shop
<1>7. Lawful
  BY <1>6, SameRules
<1>8. RowsTyped'
  BY <1>3, <1>5, <1>6 DEF Rules, RowsTyped
<1>9. Writing(p) /\ task'[p] = None
  BY <1>6, DisturbWrites
<1> QED
  BY <1>7, <1>8, <1>9 DEF Good, Own
LEMMA DecisionsGood ==
  ASSUME MembersInv, Rules, NEW p \in Procs, NEW w \in DOMAIN payout, ApproveWithdrawal(p, w) \/ RejectWithdrawal(p, w)
  PROVE  Good(p)
<1>1. PICK x \in {"APPROVED", "REJECTED"} : payout' = [payout EXCEPT ![w].status = x]
  BY DEF ApproveWithdrawal, RejectWithdrawal
<1>2. payout \in Seq(Payout) /\ payout[w] \in Payout
  BY DEF Rules, RowsTyped
<1>3. PICK r : r = [payout[w] EXCEPT !.status = x]
  OBVIOUS
<1>4. r \in Payout
  BY <1>1, <1>2, <1>3 DEF Payout
<1>5. payout' \in Seq(Payout)
  <2>1. payout' = [payout EXCEPT ![w] = r]
    BY <1>1, <1>3
  <2> QED
    BY <1>2, <1>4, <2>1, RowPut
<1>6. Once(p, "payout") /\ UNCHANGED <<user, code, feedback, level, setting, method, account>>
  BY DEF ApproveWithdrawal, RejectWithdrawal, identity, traces, shop
<1>7. RowsTyped' /\ Lawful
  BY <1>5, <1>6, SameRules DEF Rules, RowsTyped
<1> QED
  BY <1>6, <1>7, OnceGood
LEMMA AdjustGood ==
  ASSUME MembersInv, Rules, NEW p \in Procs, NEW u, NEW type, NEW amount, Adjust(p, u, type, amount)
  PROVE  Good(p)
<1>1. Once(p, "adjust") /\ UNCHANGED ruled
  BY DEF Adjust, ruled, identity, traces
<1> QED
  BY <1>1, OnceElse

\* Pictures, deposits and plans.
LEMMA PicturesGood ==
  ASSUME MembersInv, Rules, NEW p \in Procs, NEW u, AskAvatar(p, u) \/ AskNoAvatar(p, u)
  PROVE  Good(p)
<1>1. ASSUME NEW name, NEW old, Ask(p, [Idle EXCEPT !.op = "avatar", !.at = "upload", !.user = u, !.old = old, !.name = name])
      PROVE  Good(p)
  <2>1. PICK t : t = [Idle EXCEPT !.op = "avatar", !.at = "upload", !.user = u, !.old = old, !.name = name]
    OBVIOUS
  <2>2. t.op = "avatar" /\ t.at = "upload"
    BY <2>1, IdleShape DEF Fields
  <2>3. Stated(t) /\ Checked(t)
    BY <2>2 DEF Stated, Checked
  <2> QED
    BY <1>1, <2>1, <2>3, AskGood
<1>2. ASSUME NEW old, Ask(p, [Idle EXCEPT !.op = "avatar", !.at = "point", !.user = u, !.old = old])
      PROVE  Good(p)
  <2>1. PICK t : t = [Idle EXCEPT !.op = "avatar", !.at = "point", !.user = u, !.old = old]
    OBVIOUS
  <2>2. t.op = "avatar" /\ t.at = "point"
    BY <2>1, IdleShape DEF Fields
  <2>3. Stated(t) /\ Checked(t)
    BY <2>2 DEF Stated, Checked
  <2> QED
    BY <1>2, <2>1, <2>3, AskGood
<1> QED
  BY <1>1, <1>2 DEF AskAvatar, AskNoAvatar
LEMMA PictureWritesGood ==
  ASSUME MembersInv, Rules, NEW p \in Procs, UploadAvatar(p) \/ EraseAvatar(p)
  PROVE  Good(p)
<1>1. PICK t0 : t0 = task[p]
  OBVIOUS
<1>2. PICK t : t = [t0 EXCEPT !.at = "point"]
  OBVIOUS
<1>3. t0.op = "avatar" /\ task[p] # None
  BY <1>1 DEF UploadAvatar, EraseAvatar, At
<1>4. t.at = "point" /\ t.op = "avatar"
  BY <1>1, <1>2, <1>3, OnTo
<1>5. Unchecked(t)
  BY <1>4 DEF Unchecked
<1>6. CASE Disturb(p, t) /\ UNCHANGED ruled
  BY <1>5, <1>6, QuietWrites
<1>7. CASE Disturb(p, None) /\ UNCHANGED ruled
  BY <1>7, QuietWrites
<1>8. CASE End(p) /\ Reads
  BY <1>8, EndGood
<1>9. CASE UploadAvatar(p)
  BY <1>1, <1>2, <1>6, <1>8, <1>9 DEF UploadAvatar, ruled, identity, traces, shop
<1>10. CASE EraseAvatar(p)
  BY <1>7, <1>8, <1>10 DEF EraseAvatar, ruled, identity, traces, shop
<1> QED
  BY <1>9, <1>10
LEMMA PointAvatarGood ==
  ASSUME MembersInv, Rules, NEW p \in Procs, PointAvatar(p)
  PROVE  Good(p)
<1>1. PICK t0 : t0 = task[p]
  OBVIOUS
<1>2. PICK u : u = t0.user
  OBVIOUS
<1>3. PICK a : a = IF t0.name = <<>> THEN None ELSE t0.name
  OBVIOUS
<1>4. t0.op = "avatar" /\ task[p] # None
  BY <1>1 DEF PointAvatar, At
<1>5. u \in DOMAIN user /\ user \in Seq(User)
  BY <1>1, <1>2, <1>4 DEF MembersInv, Accounts, Pictures, Hanging
<1>6. PICK r : r = [user[u] EXCEPT !.avatar = a]
  OBVIOUS
<1>7. user[u] \in User
  BY <1>5
<1>8. r.google = user[u].google
  BY <1>6, <1>7 DEF User
<1>9. PICK t : t = [t0 EXCEPT !.at = "erase"]
  OBVIOUS
<1>10. t.at = "erase" /\ t.op = "avatar"
  BY <1>1, <1>4, <1>9, OnTo
<1>11. user' = [user EXCEPT ![u] = r] /\ Disturb(p, t) /\ UNCHANGED <<code, feedback, level, setting, method, account, payout>>
  BY <1>1, <1>2, <1>3, <1>6, <1>9 DEF PointAvatar, traces, shop, office
<1>12. Unchecked(t)
  BY <1>10 DEF Unchecked
<1> QED
  BY <1>5, <1>8, <1>11, <1>12, UserWrites
LEMMA DepositGood ==
  ASSUME MembersInv, Rules, NEW p \in Procs, NEW u, NEW amount, NEW approved, Deposit(p, u, amount, approved)
  PROVE  Good(p)
<1>1. Once(p, "deposit") /\ UNCHANGED ruled
  BY DEF Deposit, ruled, identity, traces, shop, office
<1> QED
  BY <1>1, OnceElse
LEMMA PutPlanGood ==
  ASSUME MembersInv, Rules, NEW p \in Procs, NEW i, NEW price, NEW days, NEW active, PutPlan(p, i, price, days, active)
  PROVE  Good(p)
<1>1. Once(p, "plan") /\ UNCHANGED ruled
  BY DEF PutPlan, ruled, identity, traces, shop, office
<1> QED
  BY <1>1, OnceElse
LEMMA AskSubscribeGood ==
  ASSUME MembersInv, Rules, NEW p \in Procs, NEW u, NEW i, AskSubscribe(p, u, i)
  PROVE  Good(p)
<1>1. PICK x : x = plan[i]
  OBVIOUS
<1>2. PICK t : t = [Idle EXCEPT !.op = "subscribe", !.at = "debit", !.user = u, !.row = i, !.query = x]
  OBVIOUS
<1>3. t.op = "subscribe" /\ t.at = "debit"
  BY <1>2, IdleShape DEF Fields
<1>4. Stated(t) /\ Checked(t) /\ Ask(p, t)
  BY <1>1, <1>2, <1>3 DEF Stated, Checked, AskSubscribe
<1> QED
  BY <1>4, AskGood
LEMMA DebitGood ==
  ASSUME MembersInv, MembersInv', Rules, NEW p \in Procs, Debit(p)
  PROVE  Good(p)
<1>1. PICK t0 : t0 = task[p]
  OBVIOUS
<1>2. PICK t : t = [t0 EXCEPT !.at = "current"]
  OBVIOUS
<1>3. t0.op = "subscribe" /\ task[p] # None
  BY <1>1 DEF Debit, At
<1>4. t.op = "subscribe"
  BY <1>1, <1>2, <1>3, OnTo
<1>5. CASE Proceed(p, t) /\ UNCHANGED <<ruled, clock>>
  <2>1. task'[p] = t /\ \A q \in Procs \ {p} : task'[q] = task[q]
    BY <1>5, ProceedTurns, AccountsTyped DEF MembersInv
  <2>2. Reading(p)
    BY <1>5, <2>1 DEF Reading
  <2> QED
    BY <1>4, <2>1, <2>2, OwnElse, ReadsGood DEF Ruled
<1>6. CASE End(p) /\ Reads
  BY <1>6, EndGood
<1> QED
  BY <1>1, <1>2, <1>5, <1>6 DEF Debit, Goto, Goes, ruled, identity, traces, office
LEMMA ReadCurrentGood ==
  ASSUME MembersInv, Rules, NEW p \in Procs, ReadCurrent(p)
  PROVE  Good(p)
<1>1. PICK t0 : t0 = task[p]
  OBVIOUS
<1>2. PICK w : w = Base(t0.user) + t0.query.days
  OBVIOUS
<1>3. PICK t : t = [t0 EXCEPT !.at = "commit", !.when = w]
  OBVIOUS
<1>4. t0.op = "subscribe" /\ task[p] # None /\ Proceed(p, t) /\ Reads
  BY <1>1, <1>2, <1>3 DEF ReadCurrent, At
<1>5. DOMAIN t0 = Fields
  BY <1>1, <1>4, TaskFits
<1>6. t.op = "subscribe" /\ t.at = "commit"
  BY <1>3, <1>4, <1>5 DEF Fields
<1>7. Unchecked(t)
  BY <1>6 DEF Unchecked
<1> QED
  BY <1>4, <1>7, QuietReads
LEMMA CommitGood ==
  ASSUME MembersInv, Rules, NEW p \in Procs, Commit(p)
  PROVE  Good(p)
<1>1. Disturb(p, None) /\ UNCHANGED ruled
  BY DEF Commit, Shops, ruled, identity, traces, office
<1> QED
  BY <1>1, QuietWrites

-----------------------------------------------------------------------------
(* Levels: no two of a threshold *)

LEMMA LevelsGood ==
  ASSUME MembersInv, Rules, NEW p \in Procs, Once(p, "level"), UNCHANGED <<identity, traces, office>>,
         \A i \in Rows(level)' : i \in Rows(level) /\ level'[i].threshold = level[i].threshold
  PROVE  Good(p)
<1>1. RowsTyped' /\ UNCHANGED <<user, code, feedback, setting, method, account, payout>>
  BY DEF identity, traces, office, Rules, RowsTyped
<1>2. Distinct => Distinct'
  BY DEF Distinct
<1>3. (Quotas => Quotas') /\ (Known => Known')
  BY <1>1 DEF Quotas, CodesOf, Known, Rows, Labelled
<1>4. Lawful
  BY <1>1, <1>2, <1>3 DEF Lawful, Users
<1> QED
  BY <1>1, <1>4, OnceGood
LEMMA RemoveLevelGood ==
  ASSUME MembersInv, Rules, NEW p \in Procs, NEW l \in Rows(level), RemoveLevel(p, l)
  PROVE  Good(p)
<1>1. level' = [level EXCEPT ![l] = None] /\ level \in Seq(Level \cup {None})
  BY DEF RemoveLevel, MembersInv, Ranks
<1>2. \A i \in Rows(level)' : i \in Rows(level) /\ level'[i].threshold = level[i].threshold
  BY <1>1 DEF Rows
<1>3. Once(p, "level") /\ UNCHANGED <<identity, traces, office>>
  BY DEF RemoveLevel
<1> QED
  BY <1>2, <1>3, LevelsGood
LEMMA ReorderGood ==
  ASSUME MembersInv, Rules, NEW p \in Procs, NEW L \in SUBSET Rows(level),
         NEW place \in [L -> {level[l].order : l \in Rows(level)}], Reorder(p, place)
  PROVE  Good(p)
<1>1. level \in Seq(Level \cup {None})
  BY DEF MembersInv, Ranks
<1>2. /\ DOMAIN level' = DOMAIN level
      /\ \A i \in DOMAIN level : IF i \in Rows(level)
                                 THEN level'[i] \in Level /\ level'[i].threshold = level[i].threshold
                                 ELSE level'[i] = None
  BY <1>1, PlacesGiven
<1>3. \A i \in Rows(level)' : i \in Rows(level) /\ level'[i].threshold = level[i].threshold
  BY <1>2 DEF Rows
<1>4. Once(p, "level") /\ UNCHANGED <<identity, traces, office>>
  BY DEF Reorder
<1> QED
  BY <1>3, <1>4, LevelsGood
LEMMA AskLevelGood ==
  ASSUME MembersInv, Rules, NEW p \in Procs, NEW l, NEW name, NEW threshold, NEW enabled, AskLevel(p, l, name, threshold, enabled)
  PROVE  Good(p)
<1>1. PICK q : q = [name |-> name, threshold |-> threshold, enabled |-> enabled]
  OBVIOUS
<1>2. PICK t : t = [Idle EXCEPT !.op = "level", !.at = "threshold", !.row = l, !.query = q]
  OBVIOUS
<1>3. t.op = "level" /\ t.at = "threshold"
  BY <1>2, IdleShape DEF Fields
<1>4. Stated(t) /\ Checked(t) /\ Ask(p, t)
  BY <1>1, <1>2, <1>3 DEF Stated, Checked, AskLevel
<1> QED
  BY <1>4, AskGood
LEMMA CheckThresholdGood ==
  ASSUME MembersInv, Rules, NEW p \in Procs, CheckThreshold(p)
  PROVE  Good(p)
<1>1. PICK t0 : t0 = task[p]
  OBVIOUS
<1>2. t0.op = "level" /\ task[p] # None /\ Reads
  BY <1>1 DEF CheckThreshold, At
<1>3. DOMAIN t0 = Fields
  BY <1>1, <1>2, TaskFits
<1>4. ASSUME NEW n, Proceed(p, [t0 EXCEPT !.at = "write", !.n = n]), Others("threshold", t0.query.threshold, t0.row) = {}
      PROVE  Good(p)
  <2>1. PICK t : t = [t0 EXCEPT !.at = "write", !.n = n]
    OBVIOUS
  <2>2. t.op = "level" /\ t.at = "write" /\ t.row = t0.row /\ t.query = t0.query
    BY <1>2, <1>3, <2>1 DEF Fields
  <2>3. \A l \in Rows(level) \ {t.row} : level[l].threshold # t.query.threshold
    BY <1>4, <2>2 DEF Others
  <2>4. Stated(t) /\ Checked(t) /\ Proceed(p, t)
    BY <1>4, <2>1, <2>2, <2>3 DEF Stated, Checked
  <2> QED
    BY <1>2, <2>4, ReadOnGood
<1>5. CASE End(p)
  BY <1>2, <1>5, EndGood
<1> QED
  BY <1>1, <1>4, <1>5 DEF CheckThreshold
LEMMA WriteLevelGood ==
  ASSUME MembersInv, Rules, NEW p \in Procs, WriteLevel(p)
  PROVE  Good(p)
<1>1. PICK t0 : t0 = task[p]
  OBVIOUS
<1>2. PICK r : r = [name |-> t0.query.name, threshold |-> t0.query.threshold, order |-> t0.n, enabled |-> t0.query.enabled]
  OBVIOUS
<1>3. t0.op = "level" /\ t0.at = "write" /\ task[p] # None /\ level \in Seq(Level \cup {None}) /\ r.threshold = t0.query.threshold
  BY <1>1, <1>2 DEF WriteLevel, At, MembersInv, Ranks
<1>4. t0.alone => \A l \in Rows(level) \ {t0.row} : level[l].threshold # r.threshold
  <2>1. t0.alone => Checked(t0)
    BY <1>1, <1>3, TaskFits
  <2> QED
    BY <1>3, <2>1 DEF Checked
<1>5. ASSUME NEW n, NEW x, x.threshold = r.threshold, Disturb(p, None), UNCHANGED <<user, code, feedback, setting, method, account, payout>>,
             t0.alone => \A l \in Rows(level) \ {n} : level[l].threshold # r.threshold,
             \A l \in Rows(level)' : l = n \/ (l \in Rows(level) /\ level'[l] = level[l]), n \in Rows(level)' => level'[n] = x
      PROVE  Good(p)
  <2>1. t0.alone /\ Distinct => Distinct'
    <3> SUFFICES ASSUME t0.alone, Distinct, NEW l \in Rows(level)', NEW k \in Rows(level)', level'[l].threshold = level'[k].threshold
                 PROVE  l = k
      BY DEF Distinct
    <3> QED
      BY <1>5 DEF Distinct
  <2>2. Quotas => Quotas'
    BY <1>5 DEF Quotas, CodesOf
  <2>3. Known => Known'
    BY <1>5 DEF Known, Rows, Labelled
  <2>4. RowsTyped' /\ (t0.alone => Lawful)
    BY <1>5, <2>1, <2>2, <2>3 DEF RowsTyped, Rules, Lawful, Users
  <2> QED
    BY <1>1, <1>3, <1>5, <2>4, WriteEnds
<1>6. UNCHANGED <<identity, traces, office>> => UNCHANGED <<user, code, feedback, setting, method, account, payout>>
  BY DEF identity, traces, office
<1>7. CASE t0.row = None /\ level' = Append(level, r) /\ Shops(p, None)
  <2>1. PICK n : n = Len(level) + 1
    OBVIOUS
  <2>2. /\ level'[n] = r /\ DOMAIN level' = DOMAIN level \cup {n}
        /\ \A l \in DOMAIN level : level'[l] = level[l]
    BY <1>3, <1>7, <2>1
  <2>3. \A l \in Rows(level)' : l = n \/ (l \in Rows(level) /\ level'[l] = level[l])
    BY <2>2 DEF Rows
  <2>4. None \notin Rows(level)
    BY <1>3, NoneIsNothing DEF Rows
  <2> QED
    BY <1>4, <1>5, <1>6, <1>7, <2>2, <2>3, <2>4 DEF Shops
<1>8. CASE t0.row # None /\ level[t0.row] # None /\ level' = [level EXCEPT ![t0.row] = [r EXCEPT !.order = level[t0.row].order]]
           /\ Shops(p, None)
  <2>1. PICK o : o = level[t0.row].order
    OBVIOUS
  <2>2. PICK x : x = [r EXCEPT !.order = o]
    OBVIOUS
  <2>3. x.threshold = r.threshold
    BY <1>2, <2>2
  <2>4. level' = [level EXCEPT ![t0.row] = x]
    BY <1>8, <2>1, <2>2
  <2>5. DOMAIN level' = DOMAIN level /\ \A l \in DOMAIN level : level'[l] = IF l = t0.row THEN x ELSE level[l]
    BY <2>4
  <2>6. \A l \in Rows(level)' : l = t0.row \/ (l \in Rows(level) /\ level'[l] = level[l])
    BY <2>5 DEF Rows
  <2>7. t0.row \in Rows(level)' => level'[t0.row] = x
    BY <2>5 DEF Rows
  <2> QED
    BY <1>4, <1>5, <1>6, <1>8, <2>3, <2>6, <2>7 DEF Shops
<1>9. CASE End(p) /\ Reads
  BY <1>9, EndGood
<1> QED
  BY <1>1, <1>2, <1>7, <1>8, <1>9 DEF WriteLevel

-----------------------------------------------------------------------------
(* Settings: no second row *)

LEMMA AskSettingsGood ==
  ASSUME MembersInv, Rules, NEW p \in Procs, NEW new \in Limits \cup {None}, AskSettings(p, new)
  PROVE  Good(p)
<1>1. ASSUME NEW s, Ask(p, [Idle EXCEPT !.op = "settings", !.at = "write", !.row = s, !.query = new])
      PROVE  Good(p)
  <2>1. PICK t : t = [Idle EXCEPT !.op = "settings", !.at = "write", !.row = s, !.query = new]
    OBVIOUS
  <2>2. t.op = "settings" /\ t.at = "write" /\ t.query = new
    BY <2>1, IdleShape DEF Fields
  <2>3. Stated(t) /\ Checked(t)
    BY <2>2 DEF Stated, Checked
  <2> QED
    BY <1>1, <2>1, <2>3, AskGood
<1>2. CASE setting = <<>> /\ Ask(p, [Idle EXCEPT !.op = "settings", !.at = "create", !.query = new])
  <2>1. PICK t : t = [Idle EXCEPT !.op = "settings", !.at = "create", !.query = new]
    OBVIOUS
  <2>2. t.op = "settings" /\ t.at = "create" /\ t.query = new
    BY <2>1, IdleShape DEF Fields
  <2>3. Stated(t) /\ Checked(t)
    BY <1>2, <2>2 DEF Stated, Checked
  <2> QED
    BY <1>2, <2>1, <2>3, AskGood
<1> QED
  BY <1>1, <1>2 DEF AskSettings
\* A step that writes settings only.
LEMMA SettingsLawful ==
  ASSUME Rules, UNCHANGED <<user, code, feedback, level, method, account, payout>>, setting' \in Seq(Limits)
  PROVE  RowsTyped' /\ ((Len(setting) <= 1 => Len(setting') <= 1) => Lawful)
<1>1. Quotas => Quotas'
  BY DEF Quotas, CodesOf
<1>2. (Distinct => Distinct') /\ (Known => Known')
  BY DEF Distinct, Known, Rows, Labelled
<1> QED
  BY <1>1, <1>2 DEF RowsTyped, Rules, Lawful, Users
LEMMA CreateSettingsGood ==
  ASSUME MembersInv, Rules, NEW p \in Procs, CreateSettings(p)
  PROVE  Good(p)
<1>1. PICK t0 : t0 = task[p]
  OBVIOUS
<1>2. PICK n : n = Len(setting) + 1
  OBVIOUS
<1>3. PICK t : t = [t0 EXCEPT !.at = "write", !.row = n]
  OBVIOUS
<1>4. /\ t0.op = "settings" /\ t0.at = "create" /\ task[p] # None /\ setting' = Append(setting, Default) /\ Disturb(p, t)
      /\ UNCHANGED <<user, code, feedback, level, method, account, payout>>
  BY <1>1, <1>2, <1>3 DEF CreateSettings, At, identity, traces, shop
<1>5. DOMAIN t0 = Fields /\ Stated(t0) /\ (t0.alone => Checked(t0))
  BY <1>1, <1>4, TaskFits
<1>6. t.op = "settings" /\ t.at = "write" /\ t.query = t0.query
  BY <1>3, <1>4, <1>5 DEF Fields
<1>7. Stated(t) /\ Checked(t)'
  BY <1>4, <1>5, <1>6 DEF Stated, Checked
<1>8. setting \in Seq(Limits) /\ Default \in Limits
  BY DEF Rules, RowsTyped, Default, Limits
<1>9. setting' \in Seq(Limits) /\ (setting = <<>> => Len(setting') = 1)
  BY <1>4, <1>8
<1>10. t0.alone => setting = <<>>
  BY <1>4, <1>5 DEF Checked
<1> QED
  BY <1>1, <1>4, <1>6, <1>7, <1>9, <1>10, SettingsLawful, WriteGoesOn
LEMMA WriteSettingsGood ==
  ASSUME MembersInv, Rules, NEW p \in Procs, WriteSettings(p)
  PROVE  Good(p)
<1>1. PICK t0 : t0 = task[p]
  OBVIOUS
<1>2. t0.op = "settings" /\ task[p] # None
  BY <1>1 DEF WriteSettings, At
<1>3. t0.query \in Limits \cup {None} /\ setting \in Seq(Limits)
  BY <1>1, <1>2, TaskFits DEF Stated, Rules, RowsTyped
<1>4. CASE t0.query # None /\ setting' = [setting EXCEPT ![t0.row] = t0.query] /\ Disturb(p, None)
           /\ UNCHANGED <<user, code, feedback, level, method, account, payout>>
  <2>1. PICK x : x = t0.query
    OBVIOUS
  <2>2. x \in Limits
    BY <1>3, <1>4, <2>1
  <2>3. setting' \in Seq(Limits) /\ Len(setting') = Len(setting)
    <3>1. PICK i : i = t0.row
      OBVIOUS
    <3>2. setting' = [setting EXCEPT ![i] = x]
      BY <1>4, <2>1, <3>1
    <3>3. CASE i \in DOMAIN setting
      BY <1>3, <2>2, <3>2, <3>3, RowPut
    <3>4. CASE i \notin DOMAIN setting
      <4>1. setting' = setting
        BY <1>3, <3>2, <3>4
      <4> QED
        BY <1>3, <4>1
    <3> QED
      BY <3>3, <3>4
  <2> QED
    BY <1>2, <1>4, <2>3, SettingsLawful, WriteEnds
<1>5. CASE End(p) /\ Reads
  BY <1>5, EndGood
<1> QED
  BY <1>1, <1>4, <1>5 DEF WriteSettings, identity, traces, shop

-----------------------------------------------------------------------------
(* Ways of payment, which every account names one of *)

LEMMA LabelsGiven ==
  ASSUME Rules, NEW i \in Rows(method)
  PROVE  method[i] \in STRING
BY DEF Rules, RowsTyped, Rows

LEMMA MethodsLawful ==
  ASSUME Rules, UNCHANGED <<user, code, feedback, level, setting, payout>>
  PROVE  (Known => Known') => Lawful
<1>1. Quotas => Quotas'
  BY DEF Quotas, CodesOf
<1>2. Distinct => Distinct'
  BY DEF Distinct, Rows
<1> QED
  BY <1>1, <1>2 DEF Lawful, Users
LEMMA MethodQueriesGood ==
  ASSUME MembersInv, Rules, NEW p \in Procs, NEW label \in Labels, CreateMethod(p, label)
  PROVE  Good(p)
<1>1. /\ Once(p, "method") /\ method' = Append(method, label) /\ method \in Seq(STRING \cup {None})
      /\ UNCHANGED <<user, code, feedback, level, setting, account, payout>>
  BY DEF CreateMethod, identity, traces, shop, Rules, RowsTyped
<1>2. label \in STRING
  BY NamesAreStrings
<1>3. RowsTyped'
  BY <1>1, <1>2 DEF Rules, RowsTyped
<1>4. \A i \in Rows(method) : i \in Rows(method)' /\ method'[i] = method[i]
  BY <1>1 DEF Rows
<1>5. Known => Known'
  BY <1>1, <1>4 DEF Known, Labelled, Rows
<1> QED
  BY <1>1, <1>3, <1>5, MethodsLawful, OnceGood
LEMMA AccountsLawful ==
  ASSUME Rules, UNCHANGED <<user, code, feedback, level, setting, method, payout>>,
         \A b \in Rows(account)' : \/ \E i \in Rows(method) : account'[b].type = method[i]
                                  \/ (b \in Rows(account) /\ account'[b].type = account[b].type)
  PROVE  Lawful
<1>1. Known => Known'
  BY DEF Known, Labelled, Rows
<1> QED
  BY <1>1, MethodsLawful
LEMMA PutAccountGood ==
  ASSUME MembersInv, Rules, NEW p \in Procs, NEW a \in Rows(account) \cup {None}, NEW i \in Rows(method), PutAccount(p, a, method[i])
  PROVE  Good(p)
<1>1. PICK label : label = method[i]
  OBVIOUS
<1>2. label \in STRING /\ account \in Seq(Account \cup {None})
  BY <1>1, LabelsGiven DEF Rules, RowsTyped
<1>3. Once(p, "account") /\ UNCHANGED <<user, code, feedback, level, setting, method, payout>>
  BY DEF PutAccount, identity, traces, shop
<1>4. /\ account' \in Seq(Account \cup {None})
      /\ \A b \in Rows(account)' : account'[b].type = label \/ (b \in Rows(account) /\ account'[b] = account[b])
  <2>1. CASE a = None
    <3>1. PICK x : x = [type |-> label, used |-> FALSE]
      OBVIOUS
    <3>2. x \in Account
      BY <1>2, <3>1 DEF Account
    <3>3. account' = Append(account, x) /\ x.type = label
      BY <1>1, <2>1, <3>1 DEF PutAccount
    <3>4. account' \in Seq(Account \cup {None})
      BY <1>2, <3>2, <3>3
    <3>5. PICK n : n = Len(account) + 1
      OBVIOUS
    <3>6. DOMAIN account' = DOMAIN account \cup {n} /\ account'[n] = x /\ \A b \in DOMAIN account : account'[b] = account[b]
      BY <1>2, <3>3, <3>5
    <3>7. \A b \in Rows(account)' : b = n \/ (b \in Rows(account) /\ account'[b] = account[b])
      BY <3>6 DEF Rows
    <3> QED
      BY <3>3, <3>4, <3>6, <3>7
  <2>2. CASE a # None
    <3>1. a \in DOMAIN account /\ account[a] \in Account
      BY <1>2, <2>2 DEF Rows
    <3>2. PICK x : x = [account[a] EXCEPT !.type = label]
      OBVIOUS
    <3>3. x \in Account
      BY <1>2, <3>1, <3>2 DEF Account
    <3>4. account' = [account EXCEPT ![a] = x] /\ x.type = label
      BY <1>1, <2>2, <3>1, <3>2 DEF PutAccount, Account
    <3>5. account' \in Seq(Account \cup {None}) /\ DOMAIN account' = DOMAIN account
      BY <1>2, <3>1, <3>3, <3>4, RowPut
    <3>6. account'[a] = x /\ \A b \in DOMAIN account : b # a => account'[b] = account[b]
      BY <1>2, <3>1, <3>4
    <3>7. \A b \in Rows(account)' : b = a \/ (b \in Rows(account) /\ account'[b] = account[b])
      BY <3>5, <3>6 DEF Rows
    <3> QED
      BY <3>4, <3>5, <3>6, <3>7
  <2> QED
    BY <2>1, <2>2
<1>5. RowsTyped'
  BY <1>3, <1>4 DEF Rules, RowsTyped
<1>6. Lawful
  BY <1>1, <1>3, <1>4, AccountsLawful
<1> QED
  BY <1>3, <1>5, <1>6, OnceGood
LEMMA UseGood ==
  ASSUME MembersInv, Rules, NEW p \in Procs, NEW a \in Rows(account), Use(p, a)
  PROVE  Good(p)
<1>1. /\ Once(p, "entry") /\ account \in Seq(Account \cup {None})
      /\ UNCHANGED <<user, code, feedback, level, setting, method, payout>>
  BY DEF Use, identity, traces, shop, Rules, RowsTyped
<1>2. a \in DOMAIN account /\ account[a] \in Account
  BY <1>1 DEF Rows
<1>3. PICK x : x = [account[a] EXCEPT !.used = TRUE]
  OBVIOUS
<1>4. x \in Account
  BY <1>2, <1>3 DEF Account
<1>5. account' = [account EXCEPT ![a] = x]
  BY <1>3 DEF Use
<1>6. account' \in Seq(Account \cup {None})
  BY <1>1, <1>2, <1>4, <1>5, RowPut
<1>7. RowsTyped'
  BY <1>1, <1>6 DEF Rules, RowsTyped
<1>8. \A b \in Rows(account)' : b \in Rows(account) /\ account'[b].type = account[b].type
  <2>1. x.type = account[a].type
    BY <1>2, <1>3 DEF Account
  <2>2. DOMAIN account' = DOMAIN account /\ account'[a] = x /\ \A b \in DOMAIN account : b # a => account'[b] = account[b]
    BY <1>1, <1>2, <1>5
  <2> QED
    BY <2>1, <2>2 DEF Rows
<1>9. Lawful
  BY <1>1, <1>8, AccountsLawful
<1> QED
  BY <1>1, <1>7, <1>9, OnceGood

LEMMA AskMethodsGood ==
  ASSUME MembersInv, Rules, NEW p \in Procs, NEW i \in Rows(method),
         AskRemoveMethod(p, i) \/ \E label \in Labels : AskRename(p, i, label)
  PROVE  Good(p)
<1>1. PICK m : m = method[i]
  OBVIOUS
<1>2. CASE AskRemoveMethod(p, i)
  <2>1. PICK t : t = [Idle EXCEPT !.op = "method", !.at = "count", !.row = i, !.phone = m]
    OBVIOUS
  <2>2. t.op = "method" /\ t.at = "count" /\ t.row = i /\ t.phone = m
    BY <2>1, IdleShape DEF Fields
  <2>3. Stated(t) /\ Checked(t) /\ Ask(p, t)
    BY <1>1, <1>2, <2>1, <2>2 DEF Stated, Checked, AskRemoveMethod
  <2> QED
    BY <2>3, AskGood
<1>3. ASSUME NEW label \in Labels, AskRename(p, i, label) PROVE Good(p)
  <2>1. PICK t : t = [Idle EXCEPT !.op = "method", !.at = "rename", !.row = i, !.phone = m, !.word = label]
    OBVIOUS
  <2>2. t.op = "method" /\ t.at = "rename" /\ t.row = i /\ t.phone = m /\ t.word = label
    BY <2>1, IdleShape DEF Fields
  <2>3. label # None /\ label \in STRING
    BY NamesAreStrings
  <2>4. Stated(t) /\ Checked(t) /\ Ask(p, t)
    BY <1>1, <1>3, <2>1, <2>2, <2>3 DEF Stated, Checked, AskRename
  <2> QED
    BY <2>4, AskGood
<1> QED
  BY <1>2, <1>3
LEMMA CountUsersGood ==
  ASSUME MembersInv, Rules, NEW p \in Procs, CountUsers(p)
  PROVE  Good(p)
<1>1. PICK t0 : t0 = task[p]
  OBVIOUS
<1>2. t0.op = "method" /\ task[p] # None /\ Reads
  BY <1>1 DEF CountUsers, At
<1>3. DOMAIN t0 = Fields /\ (t0.alone => Checked(t0))
  BY <1>1, <1>2, TaskFits
<1>4. CASE Using(t0.phone) = {} /\ Goto(p, "delete")
  <2>1. PICK t : t = [t0 EXCEPT !.at = "delete"]
    OBVIOUS
  <2>2. t.op = "method" /\ t.at = "delete" /\ t.row = t0.row /\ t.phone = t0.phone /\ t.alone = t0.alone
    BY <1>2, <1>3, <2>1 DEF Fields
  <2>3. t0.alone => t0.row \in Rows(method) /\ t0.phone = method[t0.row]
    BY <1>2, <1>3 DEF Checked
  <2>4. Stated(t) /\ (t.alone => Checked(t))
    BY <1>4, <2>2, <2>3 DEF Stated, Checked
  <2>5. Proceed(p, t)
    BY <1>1, <1>4, <2>1 DEF Goto
  <2> QED
    BY <1>2, <2>4, <2>5, ReadOnGood
<1>5. CASE End(p)
  BY <1>2, <1>5, EndGood
<1> QED
  BY <1>1, <1>4, <1>5 DEF CountUsers

\* A step that writes methods and accounts only.
\* The accounts that used the old name use the new one.
LEMMA RenameMethodGood ==
  ASSUME MembersInv, Rules, NEW p \in Procs, RenameMethod(p)
  PROVE  Good(p)
<1>1. PICK t0 : t0 = task[p]
  OBVIOUS
<1>2. PICK r : r = t0.row
  OBVIOUS
<1>3. PICK w : w = t0.word
  OBVIOUS
<1>4. PICK m : m = t0.phone
  OBVIOUS
<1>5. t0.op = "method" /\ t0.at = "rename" /\ task[p] # None
  BY <1>1 DEF RenameMethod, At
<1>6. /\ method \in Seq(STRING \cup {None}) /\ account \in Seq(Account \cup {None})
      /\ t0.op = "method" => Stated(t0)
      /\ t0.alone => r \in Rows(method) /\ m = method[r] /\ w # None
  <2>1. Stated(t0) /\ (t0.alone => Checked(t0))
    BY <1>1, <1>5, TaskFits
  <2> QED
    BY <1>2, <1>3, <1>4, <1>5, <2>1 DEF Checked, Rules, RowsTyped
<1>7. CASE End(p) /\ Reads
  BY <1>7, EndGood
<1>8. CASE /\ account' = [a \in DOMAIN account |-> IF a \in Using(m) THEN [account[a] EXCEPT !.type = w] ELSE account[a]]
           /\ method' = [method EXCEPT ![r] = w] /\ Disturb(p, None) /\ Offices
  <2>1. UNCHANGED <<user, code, feedback, level, setting, payout>>
    BY <1>8 DEF Offices, identity, traces, shop
  <2>2. PICK U : U = Using(m)
    OBVIOUS
  <2>3. \A a \in U : a \in DOMAIN account /\ account[a] \in Account /\ account[a].type = m
    BY <1>6, <2>2 DEF Using, Rows
  <2>4. ASSUME NEW a \in DOMAIN account
        PROVE  /\ a \notin U => account'[a] = account[a]
               /\ a \in U => account'[a].type = w /\ (w \in STRING => account'[a] \in Account)
    <3>1. CASE a \notin U
      BY <1>8, <2>2, <3>1
    <3>2. CASE a \in U
      <4>1. PICK x : x = [account[a] EXCEPT !.type = w]
        OBVIOUS
      <4>2. account'[a] = x
        BY <1>8, <2>2, <3>2, <4>1
      <4>3. account[a] \in Account
        BY <2>3, <3>2
      <4>4. x.type = w /\ (w \in STRING => x \in Account)
        BY <4>1, <4>3 DEF Account
      <4> QED
        BY <3>2, <4>2, <4>4
    <3> QED
      BY <3>1, <3>2
  <2>5. t0.alone /\ Known => Known'
    <3> SUFFICES ASSUME t0.alone, Known, NEW a \in Rows(account)' PROVE Labelled(account[a].type)' # {}
      BY DEF Known
    <3>1. DOMAIN account' = DOMAIN account /\ a \in DOMAIN account
      BY <1>8 DEF Rows
    <3>2. r \in DOMAIN method /\ method[r] = m /\ w # None
      BY <1>6 DEF Rows
    <3>3. method'[r] = w /\ \A i \in DOMAIN method : i # r => method'[i] = method[i]
      BY <1>8, <3>2
    <3>4. DOMAIN method' = DOMAIN method
      BY <1>8
    <3>5. CASE a \in U
      <4>1. account'[a].type = w
        BY <2>4, <3>1, <3>5
      <4>2. r \in Labelled(account[a].type)'
        BY <3>2, <3>3, <3>4, <4>1 DEF Labelled, Rows
      <4> QED
        BY <4>2
    <3>6. CASE a \notin U
      <4>1. account'[a] = account[a] /\ a \in Rows(account)
        BY <2>4, <3>1, <3>6 DEF Rows
      <4>2. account[a].type # m
        BY <2>2, <3>6, <4>1 DEF Using
      <4>3. PICK i : i \in Labelled(account[a].type)
        BY <4>1 DEF Known
      <4>4. i \in Labelled(account[a].type)'
        BY <3>2, <3>3, <3>4, <4>1, <4>2, <4>3 DEF Labelled, Rows
      <4> QED
        BY <4>4
    <3> QED
      BY <3>5, <3>6
  <2>6. RowsTyped'
    <3>1. w \in STRING
      BY <1>3, <1>5, <1>6 DEF Stated
    <3>2. account' \in Seq(Account \cup {None})
      <4>1. DOMAIN account = 1 .. Len(account) /\ Len(account) \in Nat
        BY <1>6
      <4>2. \A a \in DOMAIN account : account'[a] \in Account \cup {None}
        BY <1>6, <2>4, <3>1, <2>2 DEF Using
      <4>3. account' \in [1 .. Len(account) -> Account \cup {None}]
        BY <1>8, <4>1, <4>2
      <4> QED
        BY <4>1, <4>3
    <3>3. method' \in Seq(STRING \cup {None})
      <4>1. CASE r \in DOMAIN method
        BY <1>6, <1>8, <3>1, <4>1, RowPut
      <4>2. CASE r \notin DOMAIN method
        <5>1. method' = method
          BY <1>6, <1>8, <4>2
        <5> QED
          BY <1>6, <5>1
      <4> QED
        BY <4>1, <4>2
    <3> QED
      BY <2>1, <3>2, <3>3 DEF RowsTyped, Rules
  <2> QED
    BY <1>1, <1>5, <1>8, <2>1, <2>5, <2>6, MethodsLawful, WriteEnds
<1> QED
  BY <1>1, <1>2, <1>3, <1>4, <1>7, <1>8 DEF RenameMethod
\* A method that no account names goes.
LEMMA DeleteMethodGood ==
  ASSUME MembersInv, Rules, NEW p \in Procs, DeleteMethod(p)
  PROVE  Good(p)
<1>1. PICK t0 : t0 = task[p]
  OBVIOUS
<1>2. PICK r : r = t0.row
  OBVIOUS
<1>3. /\ t0.op = "method" /\ t0.at = "delete" /\ task[p] # None /\ method' = [method EXCEPT ![r] = None] /\ Disturb(p, None)
      /\ account' = account /\ UNCHANGED <<user, code, feedback, level, setting, payout>>
  BY <1>1, <1>2 DEF DeleteMethod, At, Offices, identity, traces, shop
<1>4. t0.alone => r \in Rows(method) /\ Using(method[r]) = {}
  <2>1. t0.alone => Checked(t0)
    BY <1>1, <1>3, TaskFits
  <2> QED
    BY <1>2, <1>3, <2>1 DEF Checked
<1>5. method \in Seq(STRING \cup {None})
  BY DEF Rules, RowsTyped
<1>6. t0.alone /\ Known => Known'
  <2> SUFFICES ASSUME t0.alone, Known, NEW a \in Rows(account) PROVE Labelled(account[a].type)' # {}
    BY <1>3 DEF Known, Rows
  <2>1. account[a].type # method[r]
    BY <1>4 DEF Using
  <2>2. PICK i : i \in Labelled(account[a].type)
    BY DEF Known
  <2>3. i # r /\ method'[i] = method[i] /\ DOMAIN method' = DOMAIN method
    BY <1>3, <2>1, <2>2 DEF Labelled
  <2>4. i \in Labelled(account[a].type)'
    BY <1>3, <2>2, <2>3 DEF Labelled, Rows
  <2> QED
    BY <2>4
<1>7. method' \in Seq(STRING \cup {None})
  <2>1. CASE r \in DOMAIN method
    BY <1>3, <1>5, <2>1, RowPut
  <2>2. CASE r \notin DOMAIN method
    <3>1. method' = method
      BY <1>3, <1>5, <2>2
    <3> QED
      BY <1>5, <3>1
  <2> QED
    BY <2>1, <2>2
<1>8. RowsTyped'
  BY <1>3, <1>7 DEF RowsTyped, Rules
<1> QED
  BY <1>1, <1>3, <1>6, <1>8, MethodsLawful, WriteEnds
\* An account goes.
LEMMA DeleteAccountGood ==
  ASSUME MembersInv, Rules, NEW p \in Procs, DeleteAccount(p)
  PROVE  Good(p)
<1>1. PICK a : a = task[p].row
  OBVIOUS
<1>2. task[p] # None
  BY DEF DeleteAccount, At
<1>3. CASE End(p) /\ Reads
  BY <1>3, EndGood
<1>4. CASE /\ a \in Rows(account) /\ account' = [account EXCEPT ![a] = None] /\ Disturb(p, None) /\ method' = method
           /\ UNCHANGED <<user, code, feedback, level, setting, payout>>
  <2>1. account \in Seq(Account \cup {None}) /\ a \in DOMAIN account
    BY <1>4 DEF Rules, RowsTyped, Rows
  <2>2. account' \in Seq(Account \cup {None})
    BY <1>4, <2>1, RowPut
  <2>3. RowsTyped'
    BY <1>4, <2>2 DEF Rules, RowsTyped
  <2>4. \A b \in Rows(account)' : b \in Rows(account) /\ account'[b] = account[b]
    BY <1>4, <2>1 DEF Rows
  <2>5. Known => Known'
    BY <1>4, <2>4 DEF Known, Labelled, Rows
  <2> QED
    BY <1>2, <1>4, <2>3, <2>5, MethodsLawful, WriteEnds
<1> QED
  BY <1>1, <1>3, <1>4 DEF DeleteAccount, Offices, identity, traces, shop

-----------------------------------------------------------------------------
(* The clock, a restart and the start *)

\* Time rests codes, and lets them go by.
LEMMA TickKeepsRules ==
  ASSUME MembersInv, Rules, UNCHANGED <<ruled, task>>, clock' \in {clock, clock + 1}
  PROVE  Rules'
<1>1. /\ code' = code /\ user' = user /\ feedback' = feedback /\ setting' = setting /\ method' = method /\ account' = account
      /\ level' = level /\ payout' = payout /\ task' = task
  BY DEF ruled
<1>2. clock \in Nat /\ clock' \in Nat /\ clock' >= clock /\ code \in Seq(Code) /\ Cooldown \in Nat /\ Hour \in Nat
  BY OtpLimits DEF MembersInv, Accounts
<1>3. ASSUME NEW phone, Rested(phone) PROVE Rested(phone)'
  <2> SUFFICES ASSUME NEW c \in CodesOf(phone), \A d \in CodesOf(phone) : d <= c PROVE clock' - code[c].at >= Cooldown
    BY <1>1 DEF Rested, CodesOf
  <2>1. clock - code[c].at >= Cooldown
    BY <1>3 DEF Rested
  <2>2. c \in DOMAIN code
    BY DEF CodesOf
  <2>3. code[c] \in Code
    BY <1>2, <2>2
  <2>4. code[c].at \in Nat
    BY <2>3 DEF Code
  <2> QED
    BY <1>2, <2>1, <2>4
<1>4. ASSUME NEW phone PROVE Cardinality(CodesInHour(phone)') <= Cardinality(CodesInHour(phone))
  <2>1. \A c \in DOMAIN code : code[c].at \in Nat
    <3> SUFFICES ASSUME NEW c \in DOMAIN code PROVE code[c].at \in Nat
      OBVIOUS
    <3>1. code[c] \in Code
      BY <1>2
    <3> QED
      BY <3>1 DEF Code
  <2>2. CodesInHour(phone)' \subseteq CodesInHour(phone)
    BY <1>1, <1>2, <2>1 DEF CodesInHour, CodesOf
  <2>3. IsFiniteSet(CodesInHour(phone))
    BY InHourFinite
  <2> QED
    BY <2>2, <2>3, FS_Subset
<1>5. ASSUME NEW u PROVE Cardinality(ReportsInHour(u)') <= Cardinality(ReportsInHour(u))
  <2>1. \A f \in DOMAIN feedback : feedback[f].at \in Nat
    <3> SUFFICES ASSUME NEW f \in DOMAIN feedback PROVE feedback[f].at \in Nat
      OBVIOUS
    <3>1. feedback[f] \in Report
      BY DEF Rules, RowsTyped
    <3> QED
      BY <3>1 DEF Report
  <2>2. ReportsInHour(u)' \subseteq ReportsInHour(u)
    BY <1>1, <1>2, <2>1 DEF ReportsInHour
  <2>3. IsFiniteSet(ReportsInHour(u))
    BY InHourFinite
  <2> QED
    BY <2>2, <2>3, FS_Subset
<1>6. ASSUME NEW t, Checked(t) PROVE Checked(t)'
  <2>1. t.op = "code" => /\ Rested(t.phone)'
                         /\ t.at = "create" => Cardinality(CodesInHour(t.phone))' < MaxCodes
    <3> SUFFICES ASSUME t.op = "code" PROVE /\ Rested(t.phone)'
                                            /\ t.at = "create" => Cardinality(CodesInHour(t.phone))' < MaxCodes
      OBVIOUS
    <3>1. PICK phone : phone = t.phone
      OBVIOUS
    <3>2. Rested(phone) /\ (t.at = "create" => Cardinality(CodesInHour(phone)) < MaxCodes)
      BY <1>6, <3>1 DEF Checked
    <3>3. Rested(phone)'
      BY <1>3, <3>2
    <3>4. /\ Cardinality(CodesInHour(phone)') <= Cardinality(CodesInHour(phone))
          /\ Cardinality(CodesInHour(phone)) \in Nat /\ MaxCodes \in Nat
      BY <1>4, InHourFinite, OtpLimits
    <3>5. Cardinality(CodesInHour(phone)') \in Nat
      <4>1. CodesInHour(phone)' \subseteq DOMAIN code
        BY <1>1 DEF CodesInHour, CodesOf
      <4>2. IsFiniteSet(CodesInHour(phone)')
        BY <1>2, <4>1, RowsFinite
      <4> QED
        BY <4>2, FS_CardinalityType
    <3> QED
      BY <3>1, <3>2, <3>3, <3>4, <3>5
  <2>2. t.op = "feedback" => Cardinality(ReportsInHour(t.user))' < MaxFeedback
    <3> SUFFICES ASSUME t.op = "feedback" PROVE Cardinality(ReportsInHour(t.user))' < MaxFeedback
      OBVIOUS
    <3>1. PICK u : u = t.user
      OBVIOUS
    <3>2. Cardinality(ReportsInHour(u)) < MaxFeedback
      BY <1>6, <3>1 DEF Checked
    <3>3. /\ Cardinality(ReportsInHour(u)') <= Cardinality(ReportsInHour(u))
          /\ Cardinality(ReportsInHour(u)) \in Nat /\ MaxFeedback \in Nat
      BY <1>5, InHourFinite, LimitsOfTracking
    <3>4. Cardinality(ReportsInHour(u)') \in Nat
      <4>1. ReportsInHour(u)' \subseteq DOMAIN feedback /\ feedback \in Seq(Report)
        BY <1>1 DEF ReportsInHour, Rules, RowsTyped
      <4>2. IsFiniteSet(ReportsInHour(u)')
        BY <4>1, RowsFinite
      <4> QED
        BY <4>2, FS_CardinalityType
    <3> QED
      BY <3>1, <3>2, <3>3, <3>4
  <2> QED
    BY <1>1, <1>6, <2>1, <2>2 DEF Checked, Rows, Using
<1>7. RowsTyped'
  BY <1>1 DEF Rules, RowsTyped
<1>8. \A p \in Procs : task'[p] # None => Stated(task[p])' /\ (task'[p].alone => Checked(task[p])')
  <2> SUFFICES ASSUME NEW p \in Procs, task[p] # None
               PROVE  Stated(task[p])' /\ (task[p].alone => Checked(task[p])')
    BY <1>1
  <2>1. PICK t : t = task[p]
    OBVIOUS
  <2>2. Stated(t) /\ (t.alone => Checked(t))
    BY <2>1 DEF Rules
  <2>3. t.alone => Checked(t)'
    BY <1>6, <2>2
  <2>4. task'[p] = t
    BY <1>1, <2>1
  <2>5. t.alone => Checked(task[p])'
    BY <2>3, <2>4 DEF Checked, Rested, CodesInHour, ReportsInHour, CodesOf, Rows, Using
  <2> QED
    BY <2>1, <2>2, <2>4, <2>5 DEF Stated
<1> QED
  BY <1>7, <1>8 DEF Rules

LEMMA RestartKeepsRules ==
  ASSUME MembersInv, Rules, Restart
  PROVE  Rules' /\ Lawful
<1>1. UNCHANGED ruled /\ task' = [p \in Procs |-> None]
  BY DEF Restart, ruled, identity, office
<1>2. Lawful /\ RowsTyped'
  BY <1>1, SameRows DEF Rules
<1> QED
  BY <1>1, <1>2 DEF Rules

LEMMA InitRules == Init => Rules
<1> SUFFICES ASSUME Init PROVE Rules
  OBVIOUS
<1>1. PICK s \in Start : method = s.method /\ account = s.account /\ payout = s.payout
  BY DEF Init
<1>2. s.method \in Seq(STRING \cup {None}) /\ s.account \in Seq(Account \cup {None}) /\ s.payout \in Seq(Payout)
  BY StartIsSound
<1>3. feedback = <<>> /\ setting = <<>> /\ task = [p \in Procs |-> None]
  BY DEF Init
<1> QED
  BY <1>1, <1>2, <1>3 DEF Rules, RowsTyped

-----------------------------------------------------------------------------
(* Every step, and the rules *)

LEMMA AskGoods ==
  ASSUME MembersInv, MembersInv', Rules, NEW p \in Procs, AskTracking(p) \/ AskNetworks(p) \/ AskProfiles(p)
  PROVE  Good(p)
<1>1. CASE \E u \in Users, c \in Clients : Touch(p, u, c)
  BY <1>1, TouchGood
<1>2. CASE \E u, i, c, v : Connect(p, u, c) \/ Search(p, u, v, c)
  BY <1>2, QueriesGood
<1>3. CASE \E u \in Users, m \in Movies, to \in {1, 5}, c \in Clients : AskBeat(p, u, m, to, c)
  BY <1>3, AskBeatGood
<1>4. CASE \E u \in Users : AskFeedback(p, u)
  BY <1>4, AskFeedbackGood
<1>5. CASE \E f \in DOMAIN feedback, by \in Users : HandleFeedback(p, f, by, "DONE")
  BY <1>5, HandleFeedbackGood
<1>6. ASSUME NEW op \in {"active", "sessions", "watched", "searches", "log", "growth", "network", "members"}, About(p, op)
      PROVE  Good(p)
  BY <1>6, AboutGood DEF Ruled
<1>7. CASE \/ \E platform, page : AskActive(p, platform, page, 1) \/ AskSessions(p, platform, page, 1)
           \/ \E platform : AskWatchTime(p, platform)
           \/ \E page : AskTopSearches(p, page, 1) \/ AskMembers(p, page, 1)
           \/ \E kind : AskLog(p, kind, 1, 2)
           \/ \E months : AskGrowth(p, months)
           \/ \E number : AskNetwork(p, number)
  <2>1. Accounts /\ Typed
    BY MembersTyped
  <2>2. About(p, "active") \/ About(p, "sessions") \/ About(p, "watched") \/ About(p, "searches") \/ About(p, "members")
        \/ About(p, "log") \/ About(p, "growth") \/ About(p, "network")
    BY <1>7, <2>1, ActiveAside, SessionsAside, WatchTimeAside, TopSearchesAside, MembersAside, LogAside, GrowthAside, NetworkAside
  <2> QED
    BY <1>6, <2>2
<1>8. CASE \E u \in Users : \/ AskAvatar(p, u) \/ AskNoAvatar(p, u)
                            \/ \E approved \in BOOLEAN : Deposit(p, u, 1, approved)
  BY <1>8, PicturesGood, DepositGood
<1>9. CASE \/ \E number \in Numbers : \E u \in Users : AskWithdrawal(p, u, number, 1)
           \/ \E w \in DOMAIN payout : ApproveWithdrawal(p, w) \/ RejectWithdrawal(p, w)
           \/ \E u \in Users : \E type : Adjust(p, u, type, 1)
  BY <1>9, AskWithdrawalGood, DecisionsGood, AdjustGood
<1> QED
  BY <1>1, <1>2, <1>3, <1>4, <1>5, <1>7, <1>8, <1>9 DEF AskTracking, AskNetworks, AskProfiles

LEMMA DoGoods ==
  ASSUME MembersInv, MembersInv', Rules, NEW p \in Procs, DoTracking(p) \/ DoNetwork(p) \/ DoProfiles(p)
  PROVE  Good(p)
<1>1. CASE InsertSession(p) \/ WriteSession(p) \/ WritePresence(p) \/ FindSession(p) \/ WritePosition(p) \/ RecordBeat(p)
  BY <1>1, SessionsGood, WritePresenceGood, FindSessionGood, BeatsGood
<1>2. CASE CreateFeedback(p)
  BY <1>2, CreateFeedbackGood
<1>3. CASE Answered(p)
  BY <1>3, EndGood DEF Answered
<1>4. CASE UploadAvatar(p) \/ PointAvatar(p) \/ EraseAvatar(p)
  BY <1>4, PictureWritesGood, PointAvatarGood
<1>5. ASSUME NEW op \in {"searches", "sessions", "network", "members"}, About(p, op) PROVE Good(p)
  BY <1>5, AboutGood DEF Ruled
<1>6. CASE \/ SpellSearches(p) \/ NewestOf(p) \/ Wave(p) \/ Load(p) \/ CountDeposits(p)
           \/ CountMembers(p) \/ ReadWallets(p) \/ ReadTotals(p)
  <2>1. Accounts /\ Typed
    BY MembersTyped
  <2>2. About(p, "searches") \/ About(p, "sessions") \/ About(p, "network") \/ About(p, "members")
    BY <1>6, <2>1, SpellAside, NewestAside, WaveAside, LoadAside, DepositsAside, CountMembersAside, WalletsAside, TotalsAside
  <2> QED
    BY <1>5, <2>2
<1>7. CASE Withdraw(p)
  BY <1>7, WithdrawGood
<1> QED
  BY <1>1, <1>2, <1>3, <1>4, <1>6, <1>7 DEF DoTracking, DoNetwork, DoProfiles

LEMMA SignInGoods ==
  ASSUME MembersInv, MembersInv', Rules, NEW p \in Procs, AskSignIn(p) \/ DoSignIn(p)
  PROVE  Good(p)
<1>1. CASE Register(p) \/ CountCodes(p) \/ CreateCode(p) \/ CountAttempt(p) \/ Consume(p) \/ FindPhone(p) \/ CreateForPhone(p)
  BY <1>1, RegisterGood, CountCodesGood, CreateCodeGood, CountAttemptGood, ConsumeGood, FindPhoneGood, CreateForPhoneGood
<1>2. CASE FindGoogle(p) \/ FindEmail(p) \/ Link(p) \/ PickUsername(p) \/ CreateForGoogle(p)
  BY <1>2, FindGoogleGood, FindEmailGood, LinkGood, PickUsernameGood, CreateForGoogleGood
<1>3. CASE Gate(p) \/ Spend(p) \/ Issue(p)
  BY <1>3, GateGood, SpendGood, IssueGood
<1>4. CASE Collided(p)
  BY <1>4, EndGood DEF Collided
<1> QED
  BY <1>1, <1>2, <1>3, <1>4, AskSignInGood DEF DoSignIn

LEMMA OfficeGoods ==
  ASSUME MembersInv, MembersInv', Rules, NEW p \in Procs, AskOffice(p) \/ DoOffice(p)
  PROVE  Good(p)
<1>1. CASE \/ \E i \in DOMAIN plan \cup {None}, price \in 1 .. 2, active \in BOOLEAN : PutPlan(p, i, price, 2, active)
           \/ \E u \in Users, i \in DOMAIN plan : AskSubscribe(p, u, i)
  BY <1>1, PutPlanGood, AskSubscribeGood
<1>2. CASE \/ \E l \in Rows(level) \cup {None}, name \in LevelNames, threshold \in {0, 2} : AskLevel(p, l, name, threshold, TRUE)
           \/ \E l \in Rows(level) : RemoveLevel(p, l)
           \/ \E listed \in SUBSET Rows(level) : \E place \in [listed -> {level[l].order : l \in Rows(level)}] :
                Reorder(p, place)
  BY <1>2, AskLevelGood, RemoveLevelGood, ReorderGood
<1>3. CASE \E new \in {None, [min |-> 2, max |-> 2]} : AskSettings(p, new)
  <2>1. [min |-> 2, max |-> 2] \in Limits
    BY DEF Limits
  <2> QED
    BY <1>3, <2>1, AskSettingsGood
<1>4. CASE \/ \E label \in Labels : CreateMethod(p, label) \/ \E i \in Rows(method) : AskRename(p, i, label)
           \/ \E i \in Rows(method) : AskRemoveMethod(p, i) \/ \E a \in Rows(account) \cup {None} : PutAccount(p, a, method[i])
           \/ \E a \in Rows(account) : Use(p, a)
  BY <1>4, MethodQueriesGood, AskMethodsGood, PutAccountGood, UseGood
<1>5. ASSUME NEW op \in {"rank", "account"}, About(p, op) PROVE Good(p)
  BY <1>5, AboutGood DEF Ruled
<1>6. CASE (\E u \in Users : AskStatus(p, u)) \/ ReadLevels(p) \/ \E a \in Rows(account) : AskRemoveAccount(p, a)
  <2>1. Accounts /\ Typed
    BY MembersTyped
  <2>2. About(p, "rank") \/ About(p, "account")
    BY <1>6, <2>1, StatusAside, LevelsAside, RemoveAccountAside
  <2> QED
    BY <1>5, <2>2
<1>7. CASE Debit(p) \/ ReadCurrent(p) \/ Commit(p) \/ CheckThreshold(p) \/ WriteLevel(p)
  BY <1>7, DebitGood, ReadCurrentGood, CommitGood, CheckThresholdGood, WriteLevelGood
<1>8. CASE ShowStatus(p)
  BY <1>8, EndGood DEF ShowStatus
<1>9. CASE CreateSettings(p) \/ WriteSettings(p)
  BY <1>9, CreateSettingsGood, WriteSettingsGood
<1>10. CASE RenameMethod(p) \/ CountUsers(p) \/ DeleteMethod(p) \/ DeleteAccount(p)
  BY <1>10, RenameMethodGood, CountUsersGood, DeleteMethodGood, DeleteAccountGood
<1>11. CASE AskOffice(p)
  BY <1>1, <1>2, <1>3, <1>4, <1>6, <1>11 DEF AskOffice
<1>12. CASE DoOffice(p)
  BY <1>6, <1>7, <1>8, <1>9, <1>10, <1>12 DEF DoOffice
<1> QED
  BY <1>11, <1>12

\* Every step keeps what has been checked, and the rules, unless a request that was disturbed
\* takes it.
LEMMA StepsAreLawful ==
  ASSUME MembersInv, MembersInv', Rules, [Next]_vars
  PROVE  Rules' /\ (Undisturbed => Lawful)
<1>1. ASSUME NEW p \in Procs, Good(p) PROVE Rules' /\ (Undisturbed => Lawful)
  BY <1>1, GoodKeeps DEF Good, Counts, Undisturbed
<1>2. CASE \E p \in Procs : AskSignIn(p) \/ DoSignIn(p)
  BY <1>1, <1>2, SignInGoods
<1>3. CASE \E p \in Procs : AskTracking(p) \/ AskNetworks(p) \/ AskProfiles(p)
  BY <1>1, <1>3, AskGoods
<1>4. CASE \E p \in Procs : DoTracking(p) \/ DoNetwork(p) \/ DoProfiles(p)
  BY <1>1, <1>4, DoGoods
<1>5. CASE \E p \in Procs : AskOffice(p) \/ DoOffice(p)
  BY <1>1, <1>5, OfficeGoods
<1>6. CASE Tick \/ UNCHANGED vars
  <2>1. UNCHANGED <<ruled, task>> /\ clock' \in {clock, clock + 1}
    BY <1>6 DEF Tick, vars, ruled, identity, traces, shop, office
  <2> QED
    BY <2>1, SameRows, TickKeepsRules
<1>7. CASE Restart
  BY <1>7, RestartKeepsRules
<1> QED
  BY <1>2, <1>3, <1>4, <1>5, <1>6, <1>7 DEF Next

LEMMA InvariantHolds == Spec => [](MembersInv /\ Rules)
<1>1. MembersInv /\ Rules /\ [Next]_vars => MembersInv' /\ Rules'
  <2>1. Rules => PayoutsTyped
    BY DEF Rules, RowsTyped, PayoutsTyped
  <2> QED
    BY <2>1, NextHolds, StepsAreLawful
<1> QED
  BY <1>1, InitHolds, InitRules, PTL DEF Spec
LEMMA MembersHold == Spec => []MembersInv
BY InvariantHolds, PTL
LEMMA RulesHold == Spec => []Rules
BY InvariantHolds, PTL

\* Accounts are unique whatever sign-ups interleave, a refresh token has one successor, a code
\* opens one account, and Google's sign-in ends in a collision only after as many newcomers as it
\* made attempts: for every number of members, requests, codes, tokens and attempts.
THEOREM AccountsSafe == Spec => []AccountsAreSafe
<1>1. MembersInv /\ Rules => AccountsAreSafe
  <2> SUFFICES ASSUME MembersInv, Rules PROVE AccountsAreSafe
    OBVIOUS
  <2>1. TypeOK
    <3>1. /\ \A u \in Users : user[u] \in User /\ \A v \in Users : Clash(user[u], user[v]) => u = v
          /\ \A c \in DOMAIN code : code[c] \in Code
          /\ \A s \in DOMAIN session : session[s] \in Session /\ session[s].user \in Users
          /\ \A p \in Procs : task[p] # None => task[p].op \in doors
      BY DEF MembersInv, Accounts, Apart, Users, Placed
    <3>2. \A t \in DOMAIN token : token[t] \in Token /\ token[t].user \in Users
      BY DEF MembersInv, Tokens, Users
    <3>3. (\A i \in DOMAIN period : period[i] \in Period /\ period[i].user \in Users) /\ wallet \in [Users -> Nat]
      BY DEF MembersInv, Shopping, Users
    <3>4. \A l \in Rows(level) : level[l] \in Level
      BY DEF MembersInv, Ranks, Rows
    <3>5. \A w \in DOMAIN payout : payout[w] \in Payout
      BY DEF Rules, RowsTyped
    <3> QED
      BY <3>1, <3>2, <3>3, <3>4, <3>5 DEF TypeOK
  <2>2. TokenSpentOnce /\ CodeOpensOnce
    BY DEF MembersInv, Accounts, Tokens, TokenSpentOnce, CodeOpensOnce
  <2>3. GoogleSettles
    BY DEF MembersInv, Accounts, Signing, Placed, Resolving, GoogleSettles, Stands
  <2> QED
    BY <2>1, <2>2, <2>3 DEF AccountsAreSafe
<1> QED
  BY <1>1, MembersHold, RulesHold, PTL

\* Two touches of a member are a window apart, no hour holds more seconds than its heartbeats
\* account for, the picture of a member is in the store, and no day is paid for twice: for every
\* number of members and requests, whatever they do at once and wherever the process stops.
THEOREM TracesTrue == Spec => []TracesAreTrue
<1>1. MembersInv => TracesAreTrue
  BY DEF MembersInv, Touches, Watches, Pictures, Shopping, TracesAreTrue, WatchedWithinReason
<1> QED
  BY <1>1, MembersHold, PTL

\* Unless a request that was disturbed acts, every step keeps the rules, whoever else is under way:
\* codes and feedback keep to their quotas, an account stays linked to the identity it is linked
\* to, thresholds differ, there is one row of settings, and every account names a method; and
\* nobody who was suspended signs in.
THEOREM RulesAlone == Spec => RulesHoldAlone
<1>1. MembersInv /\ MembersInv' /\ Rules /\ [Next]_vars
      => /\ Undisturbed /\ Quotas => Quotas'
         /\ Undisturbed => \A u \in Users : user[u].google # None => user'[u].google = user[u].google
         /\ Undisturbed /\ Distinct => Distinct'
         /\ Undisturbed /\ Len(setting) <= 1 => Len(setting') <= 1
         /\ Undisturbed /\ Known => Known'
  BY StepsAreLawful DEF Lawful
<1>2. Rules => \A p \in Procs : Stands(p, "issue") /\ task[p].op # "refresh" /\ task[p].alone => user[task[p].user].active
  BY DEF Rules, Checked, Stands
<1> QED
  BY <1>1, <1>2, MembersHold, RulesHold, PTL
     DEF Spec, RulesHoldAlone, QuotasAlone, LinkStays, SuspendedStayOut, ThresholdsDifferAlone, SettingsAreOneAlone, MethodsHoldAlone

=============================================================================
