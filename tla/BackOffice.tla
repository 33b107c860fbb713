----------------------------- MODULE BackOffice -----------------------------
(***************************************************************************)
(* Plans and what is bought of them, membership levels, the limits of      *)
(* deposits and withdrawals, and the ways of payment                       *)
(* (SubscriptionsService, LevelsService, FinanceSettingsService,           *)
(* PaymentAccountsService).                                                *)
(***************************************************************************)
EXTENDS MemberTables, Folds

Shops(p, t) == Disturb(p, t) /\ UNCHANGED <<identity, traces, office>> /\ Goes

-----------------------------------------------------------------------------
(* Plans *)

PutPlan(p, i, price, days, active) ==
    LET r == [price |-> price, days |-> days, active |-> active]
    IN  /\ Once(p, "plan")
        /\ plan' = IF i = None THEN Append(plan, r) ELSE [plan EXCEPT ![i] = r]
        /\ Len(plan') <= MaxRows
        /\ UNCHANGED <<identity, traces, period, wallet, level, locked, office>>

\* subscribe: the plan is read before the transaction.
AskSubscribe(p, u, i) ==
    /\ plan[i].active
    /\ Ask(p, [Idle EXCEPT !.op = "subscribe", !.at = "debit", !.user = u, !.row = i, !.query = plan[i]])

\* A slip: the balance is read, and the row is not held.
DebitByReading(p) ==
    LET t == task[p]
    IN  /\ At(p, "subscribe", "debit")
        /\ IF wallet[t.user] >= t.query.price THEN Goto(p, "current") ELSE End(p)
        /\ Reads

\* The debit locks the wallet row until the transaction ends.
Debit(p) ==
    LET t == task[p]
    IN  /\ At(p, "subscribe", "debit") /\ locked[t.user] = None
        /\ \/ /\ wallet[t.user] >= t.query.price
              /\ locked' = [locked EXCEPT ![t.user] = p]
              /\ Goto(p, "current")
              /\ UNCHANGED <<identity, traces, office, plan, period, wallet, level>> /\ Goes
           \/ wallet[t.user] < t.query.price /\ End(p) /\ Reads
\* The row that ends last, of those that have not ended.
Current(u) == {i \in DOMAIN period : period[i].user = u /\ period[i].until > clock}
Ends(u) == CHOOSE e \in {period[i].until : i \in Current(u)} : \A i \in Current(u) : period[i].until <= e
Base(u) == IF Current(u) = {} THEN clock ELSE Ends(u)
ReadCurrent(p) ==
    LET t == task[p]
    IN  /\ At(p, "subscribe", "current")
        /\ Proceed(p, [t EXCEPT !.at = "commit", !.when = Base(t.user) + t.query.days])
        /\ Reads

\* The row, the transaction and the balance, committed together.
Commit(p) ==
    LET t == task[p]
    IN  /\ At(p, "subscribe", "commit") /\ Len(period) < MaxRows
        /\ wallet' = [wallet EXCEPT ![t.user] = @ - t.query.price]
        /\ period' = Append(period, [user |-> t.user, amount |-> t.query.price, days |-> t.query.days, until |-> t.when])
        /\ locked' = [locked EXCEPT ![t.user] = None]
        /\ Shops(p, None) /\ UNCHANGED <<plan, level>>

-----------------------------------------------------------------------------
(* Levels *)

Others(field, value, except) == {l \in Rows(level) \ {except} : level[l][field] = value}
Above(S, f(_)) == CHOOSE i \in S : \A j \in S : f(j) <= f(i)
NextOrder == IF Rows(level) = {} THEN 1 ELSE 1 + level[Above(Rows(level), LAMBDA l : level[l].order)].order

AskLevel(p, l, name, threshold, enabled) ==
    /\ Others("name", name, l) = {}
    /\ Ask(p, [Idle EXCEPT !.op = "level", !.at = "threshold", !.row = l,
                           !.query = [name |-> name, threshold |-> threshold, enabled |-> enabled]])

\* A slip: a new level is checked, an edited one is not.
CheckNewThreshold(p) ==
    LET t == task[p]
    IN  /\ At(p, "level", "threshold")
        /\ IF t.row = None /\ Others("threshold", t.query.threshold, t.row) # {} THEN End(p)
           ELSE Proceed(p, [t EXCEPT !.at = "write", !.n = NextOrder])
        /\ Reads

\* assertThresholdAvailable, then nextOrder.
CheckThreshold(p) ==
    LET t == task[p]
    IN  /\ At(p, "level", "threshold")
        /\ IF Others("threshold", t.query.threshold, t.row) # {} THEN End(p)
           ELSE Proceed(p, [t EXCEPT !.at = "write", !.n = NextOrder])
        /\ Reads
WriteLevel(p) ==
    LET t == task[p]
        r == [name |-> t.query.name, threshold |-> t.query.threshold, order |-> t.n, enabled |-> t.query.enabled]
    IN  /\ At(p, "level", "write")
        /\ \/ t.row = None /\ Len(level) < MaxRows /\ level' = Append(level, r) /\ Shops(p, None)
              /\ UNCHANGED <<plan, period, wallet, locked>>
           \/ /\ t.row # None /\ level[t.row] # None
              /\ level' = [level EXCEPT ![t.row] = [r EXCEPT !.order = level[t.row].order]]
              /\ Shops(p, None) /\ UNCHANGED <<plan, period, wallet, locked>>
           \/ t.row # None /\ level[t.row] = None /\ End(p) /\ Reads
RemoveLevel(p, l) ==
    /\ Once(p, "level") /\ level' = [level EXCEPT ![l] = None]
    /\ UNCHANGED <<identity, traces, plan, period, wallet, locked, office>>
\* reorder: the levels of a list take the places it gives them, in one transaction.
Reorder(p, place) ==
    /\ Once(p, "level") /\ place # <<>>
    /\ level' = [l \in DOMAIN level |-> IF l \in DOMAIN place THEN [level[l] EXCEPT !.order = place[l]] ELSE level[l]]
    /\ UNCHANGED <<identity, traces, plan, period, wallet, locked, office>>

\* A slip: the ladder is climbed in the order it is shown in.
LadderAsShown(enabled) == Ranked(DOMAIN enabled, LAMBDA a, b : enabled[a].order < enabled[b].order \/ (enabled[a].order = enabled[b].order /\ a < b))
\* By threshold, then by order.
Ladder(enabled) ==
    Ranked(DOMAIN enabled, LAMBDA a, b : \/ enabled[a].threshold < enabled[b].threshold
                                         \/ enabled[a].threshold = enabled[b].threshold /\ enabled[a].order < enabled[b].order
                                         \/ enabled[a].threshold = enabled[b].threshold /\ enabled[a].order = enabled[b].order /\ a < b)
\* resolveLevelStatus: the last rung that is reached, and the first that is not.
resolveLevelStatus(total, enabled) ==
    LET ladder == Ladder(enabled)
        reached == {i \in DOMAIN ladder : enabled[ladder[i]].threshold <= total}
        ahead == DOMAIN ladder \ reached
    IN  [level |-> IF reached = {} THEN None ELSE ladder[Above(reached, LAMBDA i : i)],
         next |-> IF ahead = {} THEN None ELSE ladder[CHOOSE i \in ahead : \A j \in ahead : i <= j],
         percent |-> IF ahead # {} THEN LET n == enabled[ladder[CHOOSE i \in ahead : \A j \in ahead : i <= j]].threshold
                                        IN  (200 * total + n) \div (2 * n)
                     ELSE IF reached # {} THEN 100 ELSE 0]

Spent(u) == MapThenFoldSet(+, 0, LAMBDA i : period[i].amount, LAMBDA S : CHOOSE i \in S : TRUE, {i \in DOMAIN period : period[i].user = u})
\* getUserLevelStatus, getLevelsForUsers: what was spent and the enabled levels are two reads.
AskStatus(p, u) == Ask(p, [Idle EXCEPT !.op = "rank", !.at = "levels", !.user = u, !.n = Spent(u)])
ReadLevels(p) ==
    LET enabled == [l \in {k \in Rows(level) : level[k].enabled} |-> level[l]]
    IN  /\ At(p, "rank", "levels")
        /\ Proceed(p, [task[p] EXCEPT !.at = "resolved", !.query = enabled, !.out = resolveLevelStatus(task[p].n, enabled)])
        /\ Reads
ShowStatus(p) == Stands(p, "resolved") /\ End(p) /\ Reads

-----------------------------------------------------------------------------
(* Limits of deposits and withdrawals *)

\* getOrCreate: the row there is, or a new one; any row, if there are several.
AskSettings(p, new) ==
    \/ \E s \in DOMAIN setting : Ask(p, [Idle EXCEPT !.op = "settings", !.at = "write", !.row = s, !.query = new])
    \/ setting = <<>> /\ Ask(p, [Idle EXCEPT !.op = "settings", !.at = "create", !.query = new])
Default == [min |-> 1, max |-> 3]

\* A slip: the row it made is not the one it goes on to write.
CreateTwice(p) ==
    /\ At(p, "settings", "create") /\ Len(setting) < MaxRows
    /\ setting' = setting \o <<Default, Default>>
    /\ Disturb(p, [task[p] EXCEPT !.at = "write", !.row = Len(setting) + 1])
    /\ UNCHANGED <<identity, traces, shop, payout, movement, deposit, method, account, picture>> /\ Goes

CreateSettings(p) ==
    /\ At(p, "settings", "create") /\ Len(setting) < MaxRows
    /\ setting' = Append(setting, Default)
    /\ Disturb(p, [task[p] EXCEPT !.at = "write", !.row = Len(setting) + 1])
    /\ UNCHANGED <<identity, traces, shop, payout, movement, deposit, method, account, picture>> /\ Goes
\* update, with bounds the right way round; without new limits it was getLimits.
WriteSettings(p) ==
    LET t == task[p]
    IN  /\ At(p, "settings", "write")
        /\ \/ /\ t.query # None /\ setting' = [setting EXCEPT ![t.row] = t.query] /\ Disturb(p, None)
              /\ UNCHANGED <<identity, traces, shop, payout, movement, deposit, method, account, picture>> /\ Goes
           \/ t.query = None /\ End(p) /\ Reads

-----------------------------------------------------------------------------
(* Ways of payment and the accounts that use them *)

Labelled(label) == {i \in Rows(method) : method[i] = label}
Using(label) == {a \in Rows(account) : account[a].type = label}
Offices == UNCHANGED <<identity, traces, shop, payout, movement, deposit, setting, picture>> /\ Goes

CreateMethod(p, label) ==
    /\ Labelled(label) = {} /\ Len(method) < MaxRows
    /\ Once(p, "method") /\ method' = Append(method, label)
    /\ UNCHANGED <<identity, traces, shop, payout, movement, deposit, setting, account, picture>>
\* updateType with a new label, which is unique.
AskRename(p, i, label) ==
    /\ Labelled(label) = {}
    /\ Ask(p, [Idle EXCEPT !.op = "method", !.at = "rename", !.row = i, !.phone = method[i], !.word = label])

\* A slip: the accounts keep the old label.
RenameAlone(p) ==
    LET t == task[p]
    IN  /\ At(p, "method", "rename")
        /\ IF Labelled(t.word) # {} \/ method[t.row] = None THEN End(p) /\ Reads
           ELSE method' = [method EXCEPT ![t.row] = t.word] /\ Disturb(p, None) /\ UNCHANGED account /\ Offices

\* The accounts of the label that was read, and the method, in one transaction.
RenameMethod(p) ==
    LET t == task[p]
    IN  /\ At(p, "method", "rename")
        /\ IF Labelled(t.word) # {} \/ method[t.row] = None THEN End(p) /\ Reads
           ELSE /\ account' = [a \in DOMAIN account |-> IF a \in Using(t.phone) THEN [account[a] EXCEPT !.type = t.word] ELSE account[a]]
                /\ method' = [method EXCEPT ![t.row] = t.word]
                /\ Disturb(p, None) /\ Offices
AskRemoveMethod(p, i) == Ask(p, [Idle EXCEPT !.op = "method", !.at = "count", !.row = i, !.phone = method[i]])
CountUsers(p) ==
    /\ At(p, "method", "count")
    /\ IF Using(task[p].phone) = {} THEN Goto(p, "delete") ELSE End(p)
    /\ Reads
DeleteMethod(p) ==
    /\ At(p, "method", "delete")
    /\ method' = [method EXCEPT ![task[p].row] = None] /\ Disturb(p, None) /\ UNCHANGED account /\ Offices

\* create and update of accounts: the label is one of the list that staff see, and is not asked for again.
PutAccount(p, a, type) ==
    /\ Once(p, "account")
    /\ account' = IF a = None THEN Append(account, [type |-> type, used |-> FALSE]) ELSE [account EXCEPT ![a].type = type]
    /\ Len(account') <= MaxRows
    /\ UNCHANGED <<identity, traces, shop, payout, movement, deposit, setting, method, picture>>
\* An entry is written to the ledger of the account.
Use(p, a) ==
    /\ Once(p, "entry") /\ account' = [account EXCEPT ![a].used = TRUE]
    /\ UNCHANGED <<identity, traces, shop, payout, movement, deposit, setting, method, picture>>
UsedAccounts == {a \in Rows(account) : account[a].used}
AskRemoveAccount(p, a) == a \notin UsedAccounts /\ Ask(p, [Idle EXCEPT !.op = "account", !.at = "delete", !.row = a])
\* remove: history that appeared since keeps the account (onDelete: Restrict).
DeleteAccount(p) ==
    LET a == task[p].row
    IN  /\ At(p, "account", "delete")
        /\ IF a \notin Rows(account) \/ a \in UsedAccounts THEN End(p) /\ Reads
           ELSE account' = [account EXCEPT ![a] = None] /\ Disturb(p, None) /\ UNCHANGED method /\ Offices
=============================================================================
