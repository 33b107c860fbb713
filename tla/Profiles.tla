------------------------------ MODULE Profiles ------------------------------
(***************************************************************************)
(* The pictures of members, and the list of members with their wallets     *)
(* (UsersService).                                                         *)
(***************************************************************************)
EXTENDS MemberTables, Folds

-----------------------------------------------------------------------------
(* Pictures *)

\* uploadAvatar, removeAvatar: the picture there is, is read first.  A key carries the time; no two
\* uploads share a millisecond.
AskAvatar(p, u) ==
    Ask(p, [Idle EXCEPT !.op = "avatar", !.at = "upload", !.user = u, !.old = user[u].avatar, !.name = <<u, requests + 1>>])
AskNoAvatar(p, u) == Ask(p, [Idle EXCEPT !.op = "avatar", !.at = "point", !.user = u, !.old = user[u].avatar])

UploadAvatar(p) ==
    /\ At(p, "avatar", "upload")
    /\ \/ /\ picture' = picture \cup {task[p].name} /\ Disturb(p, [task[p] EXCEPT !.at = "point"])
          /\ UNCHANGED <<identity, traces, shop, payout, movement, deposit, setting, method, account>> /\ Goes
       \/ End(p) /\ Reads
PointAvatar(p) ==
    /\ At(p, "avatar", "point")
    /\ user' = [user EXCEPT ![task[p].user].avatar = IF task[p].name = <<>> THEN None ELSE task[p].name]
    /\ Disturb(p, [task[p] EXCEPT !.at = "erase"])
    /\ UNCHANGED <<code, token, traces, shop, office>> /\ Goes

\* A slip: whatever else is in the folder goes.
Leftovers(u, old) == {o \in picture : o[1] = u /\ o # user[u].avatar}
\* deleteAvatarObject: the one that was replaced, if it is in the folder of the member.
Replaced(u, old) == {o \in picture : o = old /\ o[1] = u}
EraseAvatar(p) ==
    LET t == task[p]
    IN  /\ At(p, "avatar", "erase")
        /\ \/ /\ picture' = picture \ Replaced(t.user, t.old) /\ Disturb(p, None)
              /\ UNCHANGED <<identity, traces, shop, payout, movement, deposit, setting, method, account>> /\ Goes
           \/ End(p) /\ Reads

-----------------------------------------------------------------------------
(* The list of members *)

\* findAll: a page, newest first, then the number of all.
AskMembers(p, page, limit) ==
    Ask(p, [Idle EXCEPT !.op = "members", !.at = "count", !.list = Slice(Ranked(Users, Newer), (page - 1) * limit, limit)])
CountMembers(p) ==
    /\ At(p, "members", "count")
    /\ Proceed(p, [task[p] EXCEPT !.at = "wallets", !.n = Cardinality(Users)])
    /\ Reads

\* A slip: what was bought counts while it runs.
SumRunning(rows) ==
    MapThenFoldSet(+, 0, LAMBDA i : period[i].amount, LAMBDA S : CHOOSE i \in S : TRUE, {i \in rows : period[i].until > clock})
SumAmounts(rows) == MapThenFoldSet(+, 0, LAMBDA i : period[i].amount, LAMBDA S : CHOOSE i \in S : TRUE, rows)
PaidIn(rows, u) ==
    MapThenFoldSet(+, 0, LAMBDA d : rows[d].amount, LAMBDA S : CHOOSE d \in S : TRUE,
                   {d \in DOMAIN rows : rows[d].user = u /\ rows[d].approved})
Deposited(u) == PaidIn(deposit, u)

\* getWalletSummaries: the wallets, then what went in and out of them.
ReadWallets(p) ==
    LET t == task[p]
    IN  /\ At(p, "members", "wallets")
        /\ Proceed(p, [t EXCEPT !.at = "totals", !.query = [u \in {t.list[i] : i \in DOMAIN t.list} |-> wallet[u]]])
        /\ Reads
ReadTotals(p) ==
    LET balance == task[p].query
        Of(u) == {i \in DOMAIN period : period[i].user = u}
        Runs(u) == {period[i].until : i \in {j \in Of(u) : period[j].until > clock}}
    IN  /\ At(p, "members", "totals")
        /\ Proceed(p, [task[p] EXCEPT !.at = "answer", !.when = clock,
                         !.out = [u \in DOMAIN balance |->
                                    [balance |-> balance[u], deposited |-> Deposited(u), spent |-> SumAmounts(Of(u)),
                                     until |-> IF Runs(u) = {} THEN None ELSE CHOOSE e \in Runs(u) : \A o \in Runs(u) : o <= e]]])
        /\ Reads

\* A deposit comes in, and is approved or not (DepositsService, as far as the reports go).
Deposit(p, u, amount, approved) ==
    /\ Once(p, "deposit") /\ Len(deposit) < MaxRows /\ locked[u] = None
    /\ deposit' = Append(deposit, [user |-> u, amount |-> amount, approved |-> approved, at |-> clock])
    /\ wallet' = [wallet EXCEPT ![u] = IF approved THEN @ + amount ELSE @]
    /\ UNCHANGED <<identity, traces, plan, period, level, locked, payout, movement, setting, method, account, picture>>

\* What else moves a balance leaves a Transaction row that the list of members does not sum: a debit
\* needs the amount to be there, and either waits for whoever holds the wallet row.
Move(u, type, amount) ==
    /\ locked[u] = None /\ Len(movement) < MaxRows
    /\ type # "ADJUSTMENT_CREDIT" => wallet[u] >= amount
    /\ wallet' = [wallet EXCEPT ![u] = IF type = "ADJUSTMENT_CREDIT" THEN @ + amount ELSE @ - amount]
    /\ movement' = Append(movement, [user |-> u, type |-> type, amount |-> amount])
\* A withdrawal is approved or rejected, once (WithdrawalsService).
ApproveWithdrawal(p, w) ==
    /\ Once(p, "payout") /\ payout[w].status = "PENDING"
    /\ Move(payout[w].user, "WITHDRAWAL", payout[w].amount)
    /\ payout' = [payout EXCEPT ![w].status = "APPROVED"]
    /\ UNCHANGED <<identity, traces, plan, period, level, locked, deposit, setting, method, account, picture>>
RejectWithdrawal(p, w) ==
    /\ Once(p, "payout") /\ payout[w].status = "PENDING"
    /\ payout' = [payout EXCEPT ![w].status = "REJECTED"]
    /\ UNCHANGED <<identity, traces, shop, movement, deposit, setting, method, account, picture>>
\* Staff correct a balance, under a key that was not used before (adjust of WalletAdjustmentsService).
Adjust(p, u, type, amount) ==
    /\ Once(p, "adjust") /\ Move(u, type, amount)
    /\ UNCHANGED <<identity, traces, plan, period, level, locked, payout, deposit, setting, method, account, picture>>
=============================================================================
