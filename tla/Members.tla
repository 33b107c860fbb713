------------------------------ MODULE Members ------------------------------
(***************************************************************************)
(* The members of the platform and what staff keep for them, as one        *)
(* system: every request of SignIn, Tracking, Network and BackOffice, step *)
(* by step and interleaved, with the clock and a restart.                  *)
(***************************************************************************)
EXTENDS SignIn, Tracking, Network, BackOffice, Profiles

\* A token with a successor is dead, and has no other.
SpentOnce(tokens) ==
    \A t, s \in DOMAIN tokens : tokens[t].from = s =>
        /\ tokens[s].revoked /\ tokens[s].user = tokens[t].user
        /\ \A r \in DOMAIN tokens : tokens[r].from = s => r = t

ASSUME NoneIsNothing == None \notin Nat /\ None \notin Procs /\ None \notin Nat \X Nat
\* What the tables may hold when the process starts: typed rows whose references hold, unique
\* columns, tokens and codes as the service leaves them, balances that are what was paid in, and pictures
\* in the folders of their members, or in none, older than any that is uploaded from now on.
ASSUME StartIsSound ==
    \A s \in Start :
        /\ s.user \in Seq(User) /\ s.code \in Seq(Code) /\ s.token \in Seq(Token) /\ s.session \in Seq(Session)
        /\ s.level \in Seq(Level \cup {None}) /\ s.plan \in Seq(Plan) /\ s.requests \in Nat
        /\ s.method \in Seq(STRING \cup {None}) /\ s.account \in Seq(Account \cup {None})
        /\ \A t \in DOMAIN s.token : /\ s.token[t].user \in DOMAIN s.user
                                     /\ s.token[t].from # None => s.token[t].from \in DOMAIN s.token
        /\ \A t \in DOMAIN s.session : s.session[t].user \in DOMAIN s.user
        /\ \A u, v \in DOMAIN s.user : Clash(s.user[u], s.user[v]) => u = v
        /\ s.payout \in Seq(Payout) /\ \A w \in DOMAIN s.payout : s.payout[w].status # "APPROVED"
        /\ SpentOnce(s.token) /\ \A c \in DOMAIN s.code : s.code[c].consumed <= 1
        /\ \A u \in DOMAIN s.user : PaidIn(s.deposit, u) \in Nat
        /\ \A u \in DOMAIN s.user : s.user[u].avatar # None =>
              s.user[u].avatar[1] \in {0, u} /\ s.user[u].avatar[2] <= s.requests

Nobody(f) == [u \in DOMAIN f |-> None]
Init ==
    /\ \E s \in Start : /\ user = s.user /\ code = s.code /\ token = s.token /\ session = s.session /\ search = s.search
                        /\ payout = s.payout /\ plan = s.plan /\ deposit = s.deposit /\ level = s.level
                        /\ method = s.method /\ account = s.account /\ doors = s.doors /\ requests = s.requests
    /\ watch = <<>> /\ position = <<>> /\ feedback = <<>> /\ period = <<>> /\ movement = <<>> /\ setting = <<>>
    /\ wallet = [u \in Users |-> Deposited(u)]
    /\ picture = {user[u].avatar : u \in Users} \ {None}
    /\ touched = Nobody(user) /\ locked = Nobody(user) /\ socket = {} /\ clock = 0
    /\ task = [p \in Procs |-> None]

Bases == {g.base : g \in Identities}
AskSignIn(p) ==
    \/ \E b \in Bases, n \in 1 .. 2, c \in Clients : AskRegister(p, <<b, n>>, c)
    \/ \E u \in Users, c \in Clients : AskLogin(p, u, c)
    \/ \E u \in Users, active \in BOOLEAN : SetStatus(p, u, active)
    \/ \E phone \in Phones : AskCode(p, phone)
    \/ \E phone \in Phones, right, password \in BOOLEAN, c \in Clients : AskVerify(p, phone, right, password, c)
    \/ \E g \in Identities, c \in Clients : AskGoogle(p, g, c)
    \/ \E t \in DOMAIN token : AskRefresh(p, t) \/ Logout(p, t)
DoSignIn(p) ==
    \/ Register(p) \/ CountCodes(p) \/ CreateCode(p) \/ CountAttempt(p) \/ Consume(p) \/ FindPhone(p) \/ CreateForPhone(p)
    \/ FindGoogle(p) \/ FindEmail(p) \/ Link(p) \/ PickUsername(p) \/ CreateForGoogle(p) \/ Collided(p)
    \/ Gate(p) \/ Spend(p) \/ Issue(p)

\* Positions of two movies never meet.
Movies == {1}
Forms == {search[i].term : i \in DOMAIN search}
AskTracking(p) ==
    \/ \E u \in Users, c \in Clients : Touch(p, u, c) \/ Connect(p, u, c)
    \/ \E u \in Users, term \in Forms, c \in Clients : Search(p, u, term, c)
    \/ \E u \in Users, m \in Movies, to \in {1, 5}, c \in Clients : AskBeat(p, u, m, to, c)
    \/ \E u \in Users : AskFeedback(p, u)
    \/ \E f \in DOMAIN feedback, by \in Users : HandleFeedback(p, f, by, "DONE")
    \/ \E platform \in Platforms \cup {None}, page \in 1 .. 2 : AskActive(p, platform, page, 1) \/ AskSessions(p, platform, page, 1)
    \/ \E platform \in Platforms \cup {None} : AskWatchTime(p, platform)
    \/ \E page \in 1 .. 2 : AskTopSearches(p, page, 1)
    \/ \E kind \in {"search", "feedback", "session"} : AskLog(p, kind, 1, 2)
    \/ \E months \in 1 .. 2 : AskGrowth(p, months)
DoTracking(p) ==
    \/ InsertSession(p) \/ WritePresence(p) \/ FindSession(p) \/ WriteSession(p) \/ WritePosition(p) \/ RecordBeat(p)
    \/ CreateFeedback(p) \/ Answered(p) \/ SpellSearches(p) \/ NewestOf(p)

Numbers == Phones \X {"plain", "spaced", "short"}
AskNetworks(p) == \E number \in Numbers : AskNetwork(p, number) \/ \E u \in Users : AskWithdrawal(p, u, number, 1)
DoNetwork(p) == Wave(p) \/ Load(p) \/ CountDeposits(p) \/ Withdraw(p)

AskProfiles(p) ==
    \/ \E u \in Users : AskAvatar(p, u) \/ AskNoAvatar(p, u) \/ \E approved \in BOOLEAN : Deposit(p, u, 1, approved)
    \/ \E page \in 1 .. 2 : AskMembers(p, page, 1)
    \/ \E w \in DOMAIN payout : ApproveWithdrawal(p, w) \/ RejectWithdrawal(p, w)
    \/ \E u \in Users, type \in {"ADJUSTMENT_CREDIT", "ADJUSTMENT_DEBIT"} : Adjust(p, u, type, 1)
DoProfiles(p) == UploadAvatar(p) \/ PointAvatar(p) \/ EraseAvatar(p) \/ CountMembers(p) \/ ReadWallets(p) \/ ReadTotals(p)

Labels == {"kpay", "wave"}
LevelNames == {"gold", "iron"}
ASSUME NamesAreStrings == LevelNames \cup Labels \subseteq STRING /\ None \notin Labels
AskOffice(p) ==
    \/ \E i \in DOMAIN plan \cup {None}, price \in 1 .. 2, active \in BOOLEAN : PutPlan(p, i, price, 2, active)
    \/ \E u \in Users, i \in DOMAIN plan : AskSubscribe(p, u, i)
    \/ \E l \in Rows(level) \cup {None}, name \in LevelNames, threshold \in {0, 2} : AskLevel(p, l, name, threshold, TRUE)
    \/ \E l \in Rows(level) : RemoveLevel(p, l)
    \/ \E listed \in SUBSET Rows(level) : \E place \in [listed -> {level[l].order : l \in Rows(level)}] : Reorder(p, place)
    \/ \E u \in Users : AskStatus(p, u)
    \/ \E new \in {None, [min |-> 2, max |-> 2]} : AskSettings(p, new)
    \/ \E label \in Labels : CreateMethod(p, label) \/ \E i \in Rows(method) : AskRename(p, i, label)
    \/ \E i \in Rows(method) : AskRemoveMethod(p, i) \/ \E a \in Rows(account) \cup {None} : PutAccount(p, a, method[i])
    \/ \E a \in Rows(account) : Use(p, a) \/ AskRemoveAccount(p, a)
DoOffice(p) ==
    \/ Debit(p) \/ ReadCurrent(p) \/ Commit(p) \/ CheckThreshold(p) \/ WriteLevel(p) \/ ReadLevels(p) \/ ShowStatus(p)
    \/ CreateSettings(p) \/ WriteSettings(p) \/ RenameMethod(p) \/ CountUsers(p) \/ DeleteMethod(p) \/ DeleteAccount(p)

Next ==
    \/ \E p \in Procs : \/ AskSignIn(p) \/ AskTracking(p) \/ AskNetworks(p) \/ AskOffice(p)
                        \/ DoSignIn(p) \/ DoTracking(p) \/ DoNetwork(p) \/ DoOffice(p) \/ AskProfiles(p) \/ DoProfiles(p)
    \/ Tick \/ Restart
Spec == Init /\ [][Next]_vars

-----------------------------------------------------------------------------
(* Properties *)

\* Rows have their types, what they refer to is there, and no two accounts share a username, a
\* telephone number, an email or a Google id, however sign-ups interleave.
TypeOK ==
    /\ \A u \in Users : user[u] \in User /\ \A v \in Users : Clash(user[u], user[v]) => u = v
    /\ \A c \in DOMAIN code : code[c] \in Code
    /\ \A t \in DOMAIN token : token[t] \in Token /\ token[t].user \in Users
    /\ \A s \in DOMAIN session : session[s] \in Session /\ session[s].user \in Users
    /\ \A w \in DOMAIN payout : payout[w] \in Payout
    /\ \A i \in DOMAIN period : period[i] \in Period /\ period[i].user \in Users
    /\ \A l \in Rows(level) : level[l] \in Level
    /\ wallet \in [Users -> Nat]
    /\ \A p \in Procs : task[p] # None => task[p].op \in doors

\* A refresh token buys one successor, of the same member, and is dead once it has: at most one
\* token of a sign-in is alive, whatever is replayed at once (refresh).
TokenSpentOnce == SpentOnce(token)

\* A code opens an account once (verifyOtp).
CodeOpensOnce == \A c \in DOMAIN code : code[c].consumed <= 1

\* No request that was disturbed takes this step.
Undisturbed == \A p \in Procs : task[p] # None /\ ~task[p].alone => task'[p] = task[p]

\* Codes are COOLDOWN apart, at most MaxCodes in any hour, each guessed at no more than
\* MaxAttempts times; feedback comes at most MaxFeedback times in any hour.  These are counted
\* before they are written: a request that runs alone keeps them (requestOtp, verifyOtp, create
\* of FeedbackService).
Quotas ==
    /\ \A c \in DOMAIN code : /\ code[c].attempts <= MaxAttempts
                              /\ \A d \in CodesOf(code[c].phone) : d < c => code[c].at - code[d].at >= Cooldown
                              /\ Cardinality({d \in CodesOf(code[c].phone) : d <= c /\ code[d].at + Hour >= code[c].at}) <= MaxCodes
    /\ \A f \in DOMAIN feedback :
          Cardinality({g \in DOMAIN feedback : feedback[g].user = feedback[f].user /\ g <= f /\ feedback[g].at + Hour >= feedback[f].at}) <= MaxFeedback
QuotasAlone == [][Undisturbed /\ Quotas => Quotas']_vars

\* A sign-in with Google ends with a collision only if, since it began, others have made as many
\* accounts as it made attempts: every pass sees whoever took the name or the identity in the
\* pass before (resolveUser).
GoogleSettles == \A p \in Procs : Stands(p, "collided") => Len(user) >= task[p].second + MaxTries

\* An account that is linked to Google stays linked to the same id, unless two sign-ins race to
\* link it (resolveUserOnce: "refuse to re-point").
LinkStays == [][Undisturbed => \A u \in Users : user[u].google # None => user'[u].google = user[u].google]_vars

\* Nobody signs in to an account that was suspended before they began (login, completeSignIn,
\* verifyPhoneOtp); a refresh token still works, and JwtStrategy turns its bearer away.
SuspendedStayOut ==
    [](\A p \in Procs : Stands(p, "issue") /\ task[p].op # "refresh" /\ task[p].alone => user[task[p].user].active)

\* Two touches of one member are never under way for the same minute (touchLastSeen), unless a
\* sign-in has put its own, earlier, stamp in between.
OneTouchPerWindow ==
    \A p, q \in Procs : /\ p # q /\ task[p] # None /\ task[q] # None /\ task[p].op = "touch" /\ task[q].op = "touch"
                        /\ task[p].user = task[q].user /\ task[p].when <= task[q].when
                        /\ \A s \in DOMAIN session : session[s].user = task[p].user => ~session[s].signIn
                        => task[q].when >= task[p].when + Throttle

\* No hour has more seconds than its heartbeats account for, however beats interleave and
\* wherever the member jumps (recordWatchActivity).
WatchedWithinReason == \A k \in DOMAIN watch : watch[k].seconds <= MaxDelta * watch[k].beats

\* An answer that nobody's writes disturbed.
Given(p, op) == At(p, op, "answer") /\ task[p].alone

\* Who is here: everybody with a socket or a session seen within the window, once; the cards
\* count all of them on each platform they are on, and the table is the page of those that
\* match, online first, then by the newest signal (activeUsers).
ActiveIsHere ==
    \A p \in Procs : Given(p, "active") /\ clock = task[p].when =>
        LET q == task[p].query
            Mine(u) == {s \in Recent : session[s].user = u}
            Sockets(u) == {s \in socket : s.user = u}
            On(u) == {session[s].client.platform : s \in Mine(u)} \cup {s.client.platform : s \in Sockets(u)}
            Online(u) == Sockets(u) # {}
            Since(u) == {s.at : s \in {r \in Sockets(u) : \A o \in Sockets(u) : r.at <= o.at}}
            LastOf(u) == CHOOSE n \in 0 .. clock : /\ n \in {session[s].at : s \in Mine(u)} \cup Since(u)
                                                   /\ \A k \in {session[s].at : s \in Mine(u)} \cup Since(u) : k <= n
            all == {u \in Users : On(u) # {} /\ (q.platform # None => q.platform \in On(u))}
            Ahead(v, u) == IF Online(v) # Online(u) THEN Online(v) ELSE LastOf(v) > LastOf(u) \/ (LastOf(v) = LastOf(u) /\ v < u)
            place(u) == 1 + Cardinality({v \in all : Ahead(v, u)})
        IN  /\ task[p].out.total = Cardinality({u \in Users : On(u) # {}}) /\ task[p].n = Cardinality(all)
            /\ \A f \in Platforms : task[p].out.on[f] = Cardinality({u \in Users : f \in On(u)})
            /\ \A u \in all : place(u) \in (q.page - 1) * q.limit + 1 .. q.page * q.limit <=> \E i \in DOMAIN task[p].list : task[p].list[i] = u
            /\ \A i \in DOMAIN task[p].list : place(task[p].list[i]) = (q.page - 1) * q.limit + i

\* The views of watch time agree: hours, weekdays, heatmap and totals are one sum, platforms add
\* up, and the peak is the first of the cells that no cell exceeds (watchTime).
Total(f) == MapThenFoldSet(+, 0, LAMBDA k : f[k], LAMBDA S : CHOOSE k \in S : TRUE, DOMAIN f)
WatchTimeAgrees ==
    \A p \in Procs : Given(p, "watched") =>
        LET o == task[p].out
            cells == {c \in DOMAIN o.heatmap : o.heatmap[c] > 0}
        IN  /\ Total(o.heatmap) = o.totals["total"]
            /\ \A f \in DOMAIN o.totals : /\ Total([h \in DOMAIN o.byHour |-> o.byHour[h][f]]) = o.totals[f]
                                          /\ Total([d \in DOMAIN o.byWeekday |-> o.byWeekday[d][f]]) = o.totals[f]
            /\ Total([f \in Platforms |-> o.totals[f]]) = o.totals["total"]
            /\ o.peak = {} <=> cells = {}
            /\ \A c \in o.peak : \A d \in cells : d # c => o.heatmap[d] < o.heatmap[c] \/ (o.heatmap[d] = o.heatmap[c]
                                                           /\ (c[1] < d[1] \/ (c[1] = d[1] /\ c[2] < d[2])))

\* The most wanted terms come first, each by its commonest spelling (topSearches).
SearchesAreRanked ==
    \A p \in Procs : Given(p, "searches") =>
        LET o == task[p].out
            Typed(n, f) == Cardinality({i \in DOMAIN search : search[i].term.norm = n /\ search[i].term.form = f})
        IN  /\ task[p].n = Cardinality({search[i].term.norm : i \in DOMAIN search})
            /\ \A i \in DOMAIN o : /\ \A f \in {search[j].term.form : j \in DOMAIN search} : Typed(o[i].norm, f) <= Typed(o[i].norm, o[i].form)
                                   /\ Cardinality({n \in Norms : Cardinality({j \in DOMAIN search : search[j].term.norm = n}) > o[i].times})
                                        <= (task[p].query.page - 1) * task[p].query.limit + i - 1

\* An address is called shared exactly if another member was ever seen at it, whatever the filter
\* shows (sessions).
SharedIsShared ==
    \A p \in Procs : Given(p, "sessions") =>
        \A u \in DOMAIN task[p].out : task[p].out[u].shared <=>
            \E s, r \in DOMAIN session : /\ session[s].client.ip = task[p].out[u].ip /\ session[r].client.ip = task[p].out[u].ip
                                         /\ session[s].user # session[r].user

\* The growth chart ends with everybody (getUserGrowthTrend).
GrowthAddsUp ==
    \A p \in Procs : Given(p, "growth") => \A m \in DOMAIN task[p].out :
        task[p].out[m].all = Cardinality({u \in Users : user[u].since <= m})

\* A network holds what is linked, step by step from the number asked for, and never more than
\* MAX_NODES; if it does not say that it was cut, everybody on its numbers is in it, and every
\* number of everybody in it (getNetwork).
NumbersOf(u) == ({user[u].phone} \ {None})
                \cup {payout[w].number[1] : w \in {x \in DOMAIN payout : payout[x].user = u /\ payout[x].number[2] # "short"}}
NetworkIsWhole ==
    \A p \in Procs : Given(p, "network") =>
        LET net == task[p].out
        IN  /\ Cardinality(DOMAIN net.phones) + Cardinality(DOMAIN net.users) <= MaxNodes
            /\ \A e \in net.edges : e[1] \in DOMAIN net.users /\ e[2] \in DOMAIN net.phones /\ e[2] \in NumbersOf(e[1])
            /\ \A k \in DOMAIN net.phones : k # task[p].name[1] => \E u \in DOMAIN net.users : net.users[u] + 1 = net.phones[k] /\ <<u, k>> \in net.edges
            /\ \A u \in DOMAIN net.users : \E k \in DOMAIN net.phones : net.phones[k] + 1 = net.users[u] /\ k \in NumbersOf(u)
            /\ ~net.truncated => /\ \A u \in DOMAIN net.users : NumbersOf(u) \subseteq DOMAIN net.phones
                                 /\ \A u \in Users, k \in DOMAIN net.phones :
                                       (user[u].phone = k \/ \E w \in DOMAIN payout : payout[w].user = u /\ payout[w].number = <<k, "plain">>)
                                          => u \in DOMAIN net.users

\* The activity shown is the newest of deposits and withdrawals of the network, whoever's, and it
\* says so exactly if there is more (getNetwork).
ActivityIsNewest ==
    \A p \in Procs : Given(p, "network") =>
        LET net == task[p].out
            rows == {<<"D", d>> : d \in {x \in DOMAIN deposit : deposit[x].user \in DOMAIN net.users}}
                    \cup {<<"W", w>> : w \in {x \in DOMAIN payout : payout[x].user \in DOMAIN net.users}}
            When(r) == IF r[1] = "D" THEN deposit[r[2]].at ELSE payout[r[2]].at
            shown == {net.stats.recent[i] : i \in DOMAIN net.stats.recent}
        IN  /\ shown \subseteq rows /\ net.stats.more <=> shown # rows
            /\ \A r \in shown, o \in rows \ shown : When(r) >= When(o)
            /\ \A i, j \in DOMAIN net.stats.recent : i < j => When(net.stats.recent[i]) >= When(net.stats.recent[j])

\* The picture of a member is in the store, however uploads and removals interleave and whatever
\* of them fails (uploadAvatar, removeAvatar).
AvatarIsThere == \A u \in Users : user[u].avatar # None => user[u].avatar \in picture

\* In the list of members, what went in is what went out and what is left, once the withdrawals and
\* adjustments, which the list does not show, are counted with it; whoever has bought days that are
\* not over is shown as a subscriber, until the last of them (getWalletSummaries).
Moved(u, types) ==
    MapThenFoldSet(+, 0, LAMBDA i : movement[i].amount, LAMBDA S : CHOOSE i \in S : TRUE,
                   {i \in DOMAIN movement : movement[i].user = u /\ movement[i].type \in types})
SummaryAddsUp ==
    \A p \in Procs : Given(p, "members") =>
        /\ task[p].n = Cardinality(Users)
        /\ \A u \in DOMAIN task[p].out :
              LET s == task[p].out[u]
                  ends == {period[i].until : i \in {j \in DOMAIN period : period[j].user = u}}
              IN  /\ s.deposited + Moved(u, {"ADJUSTMENT_CREDIT"}) = s.spent + s.balance + Moved(u, {"WITHDRAWAL", "ADJUSTMENT_DEBIT"})
                  /\ IF \A e \in ends : e <= task[p].when THEN s.until = None ELSE \A e \in ends : e <= s.until

\* What is bought is added to what is left: no day of one member is paid for twice, however
\* purchases, price changes and restarts interleave (subscribe).
DaysAreNotPaidTwice ==
    \A i, j \in DOMAIN period : i < j /\ period[i].user = period[j].user => period[j].until >= period[i].until + period[j].days

\* The level shown is the highest that what was spent reaches, the next is the lowest that it
\* does not, in whatever order the ladder is shown (resolveLevelStatus).
LevelIsHighest ==
    \A p \in Procs : Stands(p, "resolved") =>
        LET o == task[p].out
            T(l) == task[p].query[l].threshold
            total == task[p].n
            reached == {l \in DOMAIN task[p].query : T(l) <= total}
        IN  /\ IF reached = {} THEN o.level = None ELSE o.level \in reached /\ \A l \in reached : T(l) <= T(o.level)
            /\ IF reached = DOMAIN task[p].query THEN o.next = None
               ELSE o.next \notin reached /\ \A l \in DOMAIN task[p].query \ reached : T(o.next) <= T(l)
            /\ o.percent <= 100

\* No two levels share a threshold: it is the service that sees to it, and a request that runs
\* alone keeps it so (assertThresholdAvailable).
Distinct == \A l, k \in Rows(level) : level[l].threshold = level[k].threshold => l = k
ThresholdsDifferAlone == [][Undisturbed /\ Distinct => Distinct']_vars

\* There is one row of settings: a request that runs alone never makes a second (getOrCreate).
SettingsAreOneAlone == [][Undisturbed /\ Len(setting) <= 1 => Len(setting') <= 1]_vars

\* Every account names a method that is there: renaming and deleting methods keep it so, unless
\* an account is written meanwhile (updateType, removeType).
Known == \A a \in Rows(account) : Labelled(account[a].type) # {}
MethodsHoldAlone == [][Undisturbed /\ Known => Known']_vars

-----------------------------------------------------------------------------
(* What is claimed, by subject *)

\* Accounts, codes and tokens, however sign-ins interleave.
AccountsAreSafe == TypeOK /\ TokenSpentOnce /\ CodeOpensOnce /\ GoogleSettles
\* What members leave behind: stamps, seconds, pictures and paid days.
TracesAreTrue == OneTouchPerWindow /\ WatchedWithinReason /\ AvatarIsThere /\ DaysAreNotPaidTwice
\* What the back office and members are shown is what the rows say.
ReportsAreRight ==
    /\ ActiveIsHere /\ WatchTimeAgrees /\ SearchesAreRanked /\ SharedIsShared /\ GrowthAddsUp
    /\ NetworkIsWhole /\ ActivityIsNewest /\ SummaryAddsUp /\ LevelIsHighest
\* The rules that are checked before they are written: a request that runs alone keeps them.
RulesHoldAlone ==
    /\ QuotasAlone /\ LinkStays /\ SuspendedStayOut
    /\ ThresholdsDifferAlone /\ SettingsAreOneAlone /\ MethodsHoldAlone
=============================================================================
