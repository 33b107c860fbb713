------------------------------ MODULE Tracking ------------------------------
(***************************************************************************)
(* What is written down of members as they use the platform, and what the  *)
(* staff read of it (TrackingService, TrackingReadService,                 *)
(* FeedbackService, AnalyticsService, VideosService.recordWatchProgress).  *)
(***************************************************************************)
EXTENDS MemberTables, Folds

ASSUME LimitsOfTracking == {Throttle, Window, MaxDelta, MaxFeedback, Hours, Days} \subseteq Nat \ {0}

Platforms == {c.platform : c \in Clients}
Ips == {c.ip : c \in Clients}

-----------------------------------------------------------------------------
(* Presence *)

Wrote(p, t) == Disturb(p, t) /\ UNCHANGED <<identity, shop, office>> /\ Goes

\* startSession: a row, then the columns of the user, then the throttle.
InsertSession(p) ==
    /\ Stands(p, "session") /\ Len(session) < MaxRows
    /\ session' = Append(session, [user |-> task[p].user, client |-> task[p].client, at |-> task[p].when, signIn |-> TRUE])
    /\ Wrote(p, [task[p] EXCEPT !.at = "presence"])
    /\ UNCHANGED <<watch, position, search, feedback, touched, socket>>

\* writeUserPresence.
WritePresence(p) ==
    LET t == task[p]
    IN  /\ Stands(p, "presence")
        /\ user' = [user EXCEPT ![t.user].seen = t.when]
        /\ touched' = IF t.op = "touch" THEN touched ELSE [touched EXCEPT ![t.user] = t.when]
        /\ Disturb(p, None)
        /\ UNCHANGED <<code, token, session, watch, position, search, feedback, socket, shop, office>> /\ Goes

Throttled(u) == touched[u] # None /\ clock < touched[u] + Throttle

\* A slip: the stamp is taken when the work is done.
TouchUnstamped(p, u, client) ==
    /\ user[u].active /\ ~Throttled(u)
    /\ Ask(p, [Idle EXCEPT !.op = "touch", !.at = "find", !.user = u, !.client = client, !.when = clock])

\* touchLastSeen, from JwtStrategy.validate: the stamp is taken before the first await.
Touch(p, u, client) ==
    /\ user[u].active /\ ~Throttled(u)
    /\ Enter(p, "touch")
    /\ touched' = [touched EXCEPT ![u] = clock]
    /\ Proceed(p, [Idle EXCEPT !.op = "touch", !.at = "find", !.user = u, !.client = client, !.when = clock])
    /\ UNCHANGED <<identity, session, watch, position, search, feedback, socket, shop, office>>

\* The newest open session of the platform; endedAt is never written.
SessionsOn(u, platform) == {s \in DOMAIN session : session[s].user = u /\ session[s].client.platform = platform}
Fresher(s, r) == session[s].at > session[r].at \/ (session[s].at = session[r].at /\ s > r)
Newest(S) == CHOOSE s \in S : \A r \in S \ {s} : Fresher(s, r)
FindSession(p) ==
    LET open == SessionsOn(task[p].user, task[p].client.platform)
    IN  /\ At(p, "touch", "find")
        /\ Proceed(p, [task[p] EXCEPT !.at = "write", !.row = IF open = {} THEN None ELSE Newest(open)])
        /\ Reads
WriteSession(p) ==
    LET t == task[p]
    IN  /\ At(p, "touch", "write")
        /\ \/ t.row # None /\ session' = [session EXCEPT ![t.row].at = t.when, ![t.row].client = t.client]
           \/ t.row = None /\ Len(session) < MaxRows
              /\ session' = Append(session, [user |-> t.user, client |-> t.client, at |-> t.when, signIn |-> FALSE])
        /\ Wrote(p, [t EXCEPT !.at = "presence"])
        /\ UNCHANGED <<watch, position, search, feedback, touched, socket>>

Connect(p, u, client) ==
    /\ Once(p, "socket") /\ socket' = socket \cup {[user |-> u, client |-> client, at |-> clock]}
    /\ UNCHANGED <<identity, session, watch, position, search, feedback, touched, shop, office>>

-----------------------------------------------------------------------------
(* What members do *)

\* recordSearch: of members only; a term and the way it was typed.
Search(p, u, term, client) ==
    /\ Once(p, "search") /\ Len(search) < MaxRows
    /\ search' = Append(search, [user |-> u, term |-> term, platform |-> client.platform, at |-> clock])
    /\ UNCHANGED <<identity, session, watch, position, feedback, touched, socket, shop, office>>

\* A slip: a jump forward is watched.
AnyAdvance(from, to) == IF to > from THEN to - from ELSE 0
\* watchDeltaSeconds.
WatchDelta(from, to) == IF to <= from THEN 0 ELSE IF to - from < MaxDelta THEN to - from ELSE MaxDelta

\* recordWatchProgress: the position is read, overwritten, and the advance written down.
AskBeat(p, u, m, to, client) ==
    Ask(p, [Idle EXCEPT !.op = "beat", !.at = "write", !.user = u, !.row = m, !.n = to, !.client = client,
                        !.when = IF <<u, m>> \in DOMAIN position THEN position[u, m] ELSE 0])
Put(f, k, v) == [x \in DOMAIN f \cup {k} |-> IF x = k THEN v ELSE f[x]]
WritePosition(p) ==
    /\ At(p, "beat", "write")
    /\ position' = Put(position, <<task[p].user, task[p].row>>, task[p].n)
    /\ Wrote(p, [task[p] EXCEPT !.at = "record"])
    /\ UNCHANGED <<session, watch, search, feedback, touched, socket>>
\* recordWatchActivity, into the bucket of the hour; its failure is only logged.
RecordBeat(p) ==
    LET t == task[p]
        k == <<t.user, t.row, t.client.platform, clock>>
        old == IF k \in DOMAIN watch THEN watch[k] ELSE [seconds |-> 0, beats |-> 0]
    IN  /\ At(p, "beat", "record")
        /\ \/ /\ watch' = Put(watch, k, [seconds |-> old.seconds + WatchDelta(t.when, t.n), beats |-> old.beats + 1])
              /\ Wrote(p, None)
              /\ UNCHANGED <<session, position, search, feedback, touched, socket>>
           \/ End(p) /\ Reads

\* create of FeedbackService: counted inside a rolling hour.
AskFeedback(p, u) ==
    /\ Cardinality({f \in DOMAIN feedback : feedback[f].user = u /\ feedback[f].at + Hour >= clock}) < MaxFeedback
    /\ Ask(p, [Idle EXCEPT !.op = "feedback", !.at = "create", !.user = u])
CreateFeedback(p) ==
    /\ At(p, "feedback", "create") /\ Len(feedback) < MaxRows
    /\ feedback' = Append(feedback, [user |-> task[p].user, at |-> clock, status |-> "NEW", handler |-> None])
    /\ Wrote(p, None)
    /\ UNCHANGED <<session, watch, position, search, touched, socket>>
\* updateFeedbackStatus: who handled it is who asks.
HandleFeedback(p, f, by, status) ==
    /\ Once(p, "triage")
    /\ feedback' = [feedback EXCEPT ![f].status = status, ![f].handler = by]
    /\ UNCHANGED <<identity, session, watch, position, search, touched, socket, shop, office>>

-----------------------------------------------------------------------------
(* Who is here (activeUsers) *)

\* RealtimeGateway.getActiveUsers: one entry for each user with a socket.
Live(u) ==
    LET mine == {s \in socket : s.user = u}
        last == CHOOSE s \in mine : \A r \in mine : r.at <= s.at
        first == CHOOSE s \in mine : \A r \in mine : s.at <= r.at
    IN  [platforms |-> {s.client.platform : s \in mine}, platform |-> last.client.platform, at |-> first.at, online |-> TRUE]
Signal(s) == [platforms |-> {session[s].client.platform}, platform |-> session[s].client.platform, at |-> session[s].at, online |-> FALSE]

\* A slip: the newest signal takes the place of the others.
Supersede(x, e) == IF x.at > e.at THEN [x EXCEPT !.online = x.online \/ e.online] ELSE [e EXCEPT !.online = x.online \/ e.online]

\* merge: a signal is folded into what is known; the newest shows.
Merge(x, e) == [platforms |-> e.platforms \cup x.platforms, online |-> e.online \/ x.online,
                platform |-> IF x.at > e.at THEN x.platform ELSE e.platform, at |-> IF x.at > e.at THEN x.at ELSE e.at]
Recent == {s \in DOMAIN session : session[s].at + Window >= clock}
Entry(u) ==
    LET mine == {s \in Recent : session[s].user = u}
        sorted == Ranked(mine, Fresher)
        signals == [i \in DOMAIN sorted |-> Signal(sorted[i])] \o (IF \E s \in socket : s.user = u THEN <<Live(u)>> ELSE <<>>)
    IN  MapThenFoldSet(Merge, signals[1], LAMBDA i : signals[i], LAMBDA S : CHOOSE i \in S : \A j \in S : i >= j, DOMAIN signals \ {1})
Here == {session[s].user : s \in Recent} \cup {s.user : s \in socket}

AskActive(p, platform, page, limit) ==
    LET all == [u \in Here |-> Entry(u)]
        matching == {u \in Here : platform # None => platform \in all[u].platforms}
        Before(u, v) == IF all[u].online # all[v].online THEN all[u].online
                        ELSE all[u].at > all[v].at \/ (all[u].at = all[v].at /\ u < v)
        list == Ranked(matching, Before)
    IN  Ask(p, [Idle EXCEPT !.op = "active", !.at = "answer", !.when = clock, !.query = [platform |-> platform, page |-> page, limit |-> limit], !.n = Len(list),
                  !.list = Slice(list, (page - 1) * limit, limit),
                  !.out = [total |-> Cardinality(Here), of |-> all,
                           on |-> [f \in Platforms |-> Cardinality({u \in Here : f \in all[u].platforms})]]])

\* The answer is given.
Answered(p) == Stands(p, "answer") /\ End(p) /\ Reads

-----------------------------------------------------------------------------
(* When people watch (watchTime) *)

\* A slip: the last of equals is the peak.
LatestPeak(grid) == {c \in DOMAIN grid : grid[c] > 0 /\ \A d \in DOMAIN grid : grid[d] < grid[c] \/ (grid[d] = grid[c] /\ d[1] * Hours + d[2] <= c[1] * Hours + c[2])}
\* The scan of the heatmap: the first cell that no cell exceeds, if anything was watched.
Peak(grid) == {c \in DOMAIN grid : grid[c] > 0 /\ \A d \in DOMAIN grid : grid[d] < grid[c] \/ (grid[d] = grid[c] /\ c[1] * Hours + c[2] <= d[1] * Hours + d[2])}

HourOf(bucket) == bucket[4] % Hours
WeekdayOf(bucket) == (bucket[4] \div Hours) % Days
Seconds(S) == MapThenFoldSet(+, 0, LAMBDA k : watch[k].seconds, LAMBDA T : CHOOSE k \in T : TRUE, S)
Split(S) == [f \in Platforms \cup {"total"} |-> Seconds({k \in S : f = "total" \/ k[3] = f})]
AskWatchTime(p, platform) ==
    LET rows == {k \in DOMAIN watch : platform = None \/ k[3] = platform}
        grid == [c \in (0 .. Days - 1) \X (0 .. Hours - 1) |-> Seconds({k \in rows : WeekdayOf(k) = c[1] /\ HourOf(k) = c[2]})]
    IN  Ask(p, [Idle EXCEPT !.op = "watched", !.at = "answer", !.query = [platform |-> platform],
                  !.out = [byHour |-> [h \in 0 .. Hours - 1 |-> Split({k \in rows : HourOf(k) = h})],
                           byWeekday |-> [d \in 0 .. Days - 1 |-> Split({k \in rows : WeekdayOf(k) = d})],
                           heatmap |-> grid, peak |-> Peak(grid), totals |-> Split(rows)]])

-----------------------------------------------------------------------------
(* What people look for (topSearches) *)

\* A term is a record of what it is once normalised (norm) and of the way it was typed (form, in
\* alphabetical order).
Norms == {search[i].term.norm : i \in DOMAIN search}
Of(norm) == {i \in DOMAIN search : search[i].term.norm = norm}
Times(norm) == Cardinality(Of(norm))
Last(S) == CHOOSE i \in S : \A j \in S : j <= i

AskTopSearches(p, page, limit) ==
    LET More(a, b) == Times(a) > Times(b) \/ (Times(a) = Times(b) /\ Last(Of(a)) > Last(Of(b)))
    IN  Ask(p, [Idle EXCEPT !.op = "searches", !.at = "spell", !.query = [page |-> page, limit |-> limit], !.n = Cardinality(Norms),
                            !.list = Slice(Ranked(Norms, More), (page - 1) * limit, limit)])

\* A slip: a variant counts once, however often it was typed.
SpellByVariant(norm) ==
    LET forms == {search[i].term.form : i \in Of(norm)}
        Typed(f) == Cardinality({search[i].platform : i \in {j \in Of(norm) : search[j].term.form = f}})
    IN  CHOOSE f \in forms : \A g \in forms : Typed(g) < Typed(f) \/ (Typed(g) = Typed(f) /\ f <= g)

\* mostCommonSpelling, over the variants of all platforms.
Spelling(norm) ==
    LET forms == {search[i].term.form : i \in Of(norm)}
        Typed(f) == Cardinality({i \in Of(norm) : search[i].term.form = f})
    IN  CHOOSE f \in forms : \A g \in forms : Typed(g) < Typed(f) \/ (Typed(g) = Typed(f) /\ f <= g)
SpellSearches(p) ==
    LET list == task[p].list
    IN  /\ At(p, "searches", "spell")
        /\ Proceed(p, [task[p] EXCEPT !.at = "answer",
                         !.out = [i \in DOMAIN list |-> [norm |-> list[i], form |-> Spelling(list[i]), times |-> Times(list[i]),
                                                          on |-> {search[j].platform : j \in Of(list[i])}]]])
        /\ Reads

-----------------------------------------------------------------------------
(* Telephones and addresses (sessions), and the logs behind the reports *)

Matching(platform) == {s \in DOMAIN session : platform = None \/ session[s].client.platform = platform}
MineIn(S, u) == {s \in S : session[s].user = u}
AskSessions(p, platform, page, limit) ==
    LET all == Matching(platform)
        Before(u, v) == Fresher(Newest(MineIn(all, u)), Newest(MineIn(all, v)))
    IN  Ask(p, [Idle EXCEPT !.op = "sessions", !.at = "newest", !.query = [platform |-> platform, page |-> page, limit |-> limit],
                            !.n = Cardinality({session[s].user : s \in all}),
                            !.list = Slice(Ranked({session[s].user : s \in all}, Before), (page - 1) * limit, limit)])

\* A slip: the address is shared by those the filter shows.
OwnersShown(ip, platform) == {session[s].user : s \in {r \in Matching(platform) : session[r].client.ip = ip}}
\* Whether an address is shared is a fact about the address, not about the filter.
Owners(ip, platform) == {session[s].user : s \in {r \in DOMAIN session : session[r].client.ip = ip}}
NewestOf(p) ==
    LET q == task[p].query
        latest == [u \in {task[p].list[i] : i \in DOMAIN task[p].list} |-> session[Newest(MineIn(Matching(q.platform), u))]]
    IN  /\ At(p, "sessions", "newest")
        /\ Proceed(p, [task[p] EXCEPT !.at = "answer",
                         !.out = [u \in DOMAIN latest |-> [ip |-> latest[u].client.ip, platform |-> latest[u].client.platform,
                                                           count |-> Cardinality(MineIn(Matching(q.platform), u)),
                                                           shared |-> Cardinality(Owners(latest[u].client.ip, q.platform)) > 1]]])
        /\ Reads

\* The feedback nobody has handled yet.
Waiting == {f \in DOMAIN feedback : feedback[f].status = "NEW"}
\* recentSearches, feedback, userSessions: a page of the log, newest first.
AskLog(p, kind, page, limit) ==
    LET all == CASE kind = "search" -> DOMAIN search [] kind = "feedback" -> Waiting
                 [] OTHER -> MineIn(DOMAIN session, 1)
    IN  Ask(p, [Idle EXCEPT !.op = "log", !.at = "answer", !.word = kind, !.n = Cardinality(all),
                            !.list = Slice(Ranked(all, Newer), (page - 1) * limit, limit)])

\* A slip: the running total begins with the chart.
NoneBefore(from) == 0
CountBefore(from) == Cardinality({u \in Users : user[u].since < from})
\* getUserGrowthTrend: new accounts of each month, and a running total from those before.
AskGrowth(p, months) ==
    LET from == IF clock + 1 >= months THEN clock + 1 - months ELSE 0
        new == [m \in from .. clock |-> Cardinality({u \in Users : user[u].since = m})]
        Sum(m) == MapThenFoldSet(+, CountBefore(from), LAMBDA k : new[k], LAMBDA T : CHOOSE k \in T : TRUE, from .. m)
    IN  Ask(p, [Idle EXCEPT !.op = "growth", !.at = "answer", !.out = [m \in from .. clock |-> [new |-> new[m], all |-> Sum(m)]]])
=============================================================================
