------------------------------ MODULE Network ------------------------------
(***************************************************************************)
(* The network of members around a telephone number: numbers and members   *)
(* in turn, wave by wave (UserRelationshipsService.getNetwork).  A number  *)
(* is written as <<key, spelling>>: "plain" spellings are among those that *)
(* phoneLookupVariants lists, a "spaced" one is only found by whoever      *)
(* already knows the member.                                               *)
(***************************************************************************)
EXTENDS MemberTables, Folds

ASSUME CapsOfNetwork == ActivityLimit \in Nat \ {0} /\ MaxNodes \in Nat \ {0} /\ MaxDepth \in Nat \ {0}

\* normalizeRelationshipPhone: None for what is too short to be a telephone.
Normal(number) == IF number[2] = "short" THEN None ELSE number[1]
\* phoneLookupVariants: whatever is spelled plainly, and the spellings seen.
Variants(key, seen) == {<<key, "plain">>} \cup {s \in seen : s[1] = key}

Size(net) == Cardinality(DOMAIN net.phones) + Cardinality(DOMAIN net.users)
Sorted(S) == Ranked(S, LAMBDA i, j : i < j)
FoldList(op(_, _), base, list) ==
    MapThenFoldSet(op, base, LAMBDA i : list[i], LAMBDA S : CHOOSE i \in S : \A j \in S : i >= j, DOMAIN list)

\* A slip: the cap is for telephones alone.
AdmitApart(net, number, depth, u) ==
    LET key == number[1]
    IN  IF key \notin DOMAIN net.phones /\ Cardinality(DOMAIN net.phones) >= MaxNodes THEN [net EXCEPT !.truncated = TRUE]
        ELSE [net EXCEPT !.phones = [k \in DOMAIN net.phones \cup {key} |-> IF k \in DOMAIN net.phones THEN net.phones[k] ELSE depth],
                         !.seen = @ \cup {number}, !.edges = @ \cup {<<u, key>>}]

\* registerPhone and the edge: a number that is new while there is room, or one that is there.
Admit(net, number, depth, u) ==
    LET key == number[1]
    IN  IF key \notin DOMAIN net.phones /\ Size(net) >= MaxNodes THEN [net EXCEPT !.truncated = TRUE]
        ELSE [net EXCEPT !.phones = [k \in DOMAIN net.phones \cup {key} |-> IF k \in DOMAIN net.phones THEN net.phones[k] ELSE depth],
                         !.seen = @ \cup {number}, !.edges = @ \cup {<<u, key>>}]

AskNetwork(p, number) ==
    /\ Normal(number) # None
    /\ Ask(p, [Idle EXCEPT !.op = "network", !.at = "wave", !.name = number, !.n = 0, !.ids = {Normal(number)},
                 !.out = [phones |-> [k \in {number[1]} |-> 0], users |-> [u \in {} |-> 0], seen |-> {number}, edges |-> {},
                          loaded |-> {}, truncated |-> FALSE, stats |-> None]])

\* One pair of queries for each wave; what they find is normalised again.
Candidates(net, frontier) ==
    LET variants == UNION {Variants(k, net.seen) : k \in frontier}
    IN  {u \in Users : user[u].phone # None /\ <<user[u].phone, "plain">> \in variants /\ user[u].phone \in frontier}
        \cup {payout[w].user : w \in {x \in DOMAIN payout : payout[x].number \in variants /\ Normal(payout[x].number) \in frontier}}
Wave(p) ==
    LET t == task[p]
        new == Candidates(t.out, t.ids) \ DOMAIN t.out.users
        room == MaxNodes - Size(t.out)
        accepted == {u \in new : Cardinality({v \in new : v < u}) < room}
        cut == accepted # new
    IN  /\ At(p, "network", "wave")
        /\ Proceed(p, IF t.ids = {} THEN [t EXCEPT !.at = "deposits"]
                      ELSE IF t.n >= MaxDepth THEN [t EXCEPT !.at = "deposits", !.out.truncated = TRUE]
                      ELSE IF accepted = {} THEN [t EXCEPT !.at = "deposits", !.out.truncated = @ \/ cut]
                      ELSE [t EXCEPT !.at = "load", !.list = Sorted(accepted), !.out.truncated = @ \/ cut])
        /\ Reads

\* The members of the wave, their own numbers, then the accounts they were paid on, newest first.
Load(p) ==
    LET t == task[p]
        members == {t.list[i] : i \in DOMAIN t.list}
        net == [t.out EXCEPT !.users = [u \in DOMAIN @ \cup members |-> IF u \in DOMAIN t.out.users THEN @[u] ELSE t.n + 1],
                              !.loaded = @ \cup {w \in DOMAIN payout : payout[w].user \in members}]
        profiles == SelectSeq(t.list, LAMBDA u : user[u].phone # None)
        paid == Ranked({w \in DOMAIN payout : payout[w].user \in members /\ Normal(payout[w].number) # None}, Newer)
        own == FoldList(LAMBDA u, x : Admit(x, <<user[u].phone, "plain">>, t.n + 2, u), net, profiles)
        all == FoldList(LAMBDA w, x : Admit(x, payout[w].number, t.n + 2, payout[w].user), own, paid)
    IN  /\ At(p, "network", "load")
        /\ Proceed(p, [t EXCEPT !.at = "wave", !.n = @ + 2, !.out = all, !.ids = DOMAIN all.phones \ DOMAIN t.out.phones])
        /\ Reads

\* A slip: a full page of deposits cannot be told from more than a page.
TakeThePage(ids) == Slice(Ranked(ids, Newer), 0, ActivityLimit)

\* The newest deposits, one more than are shown.
TakeOneMore(ids) == Slice(Ranked(ids, Newer), 0, ActivityLimit + 1)

\* Deposits are read when the waves are over; the newest of both kinds are shown.
CountDeposits(p) ==
    LET net == task[p].out
        theirs == {d \in DOMAIN deposit : deposit[d].user \in DOMAIN net.users}
        page == TakeOneMore(theirs)
        rows == {<<"D", page[i]>> : i \in DOMAIN page} \cup {<<"W", w>> : w \in net.loaded}
        When(r) == IF r[1] = "D" THEN deposit[r[2]].at ELSE payout[r[2]].at
        Later(r, o) == \/ When(r) > When(o)
                       \/ When(r) = When(o) /\ r[1] = "D" /\ o[1] = "W"
                       \/ When(r) = When(o) /\ r[1] = o[1] /\ r[2] > o[2]
        counts == [u \in DOMAIN net.users |-> [deposits |-> Cardinality({d \in theirs : deposit[d].user = u}),
                                               withdrawals |-> Cardinality({w \in net.loaded : payout[w].user = u})]]
        full == [net EXCEPT !.stats = [of |-> counts, recent |-> Slice(Ranked(rows, Later), 0, ActivityLimit),
                                       more |-> Cardinality(rows) > ActivityLimit]]
    IN  /\ At(p, "network", "deposits")
        /\ Proceed(p, [task[p] EXCEPT !.at = "answer",
                         !.out = IF DOMAIN net.users = {} THEN [full EXCEPT !.phones = net.users, !.truncated = FALSE] ELSE full])
        /\ Reads

\* A member asks for money, to an account: the balance is looked at, and neither touched nor held
\* (create of WithdrawalsService; the limits it reads are in BackOffice).
AskWithdrawal(p, u, number, amount) ==
    /\ wallet[u] >= amount
    /\ Ask(p, [Idle EXCEPT !.op = "withdraw", !.at = "create", !.user = u, !.name = number, !.n = amount])
Withdraw(p) ==
    LET t == task[p]
    IN  /\ At(p, "withdraw", "create") /\ Len(payout) < MaxRows
        /\ payout' = Append(payout, [user |-> t.user, number |-> t.name, amount |-> t.n, status |-> "PENDING", at |-> clock])
        /\ Disturb(p, None) /\ UNCHANGED <<identity, traces, shop, movement, deposit, setting, method, account, picture>> /\ Goes
=============================================================================
