------------------------------ MODULE MCMembers ------------------------------
(* Small instances of Members for TLC: one platform, seen at fifteen kinds of work. *)
EXTENDS Members, TLC

Web == [platform |-> "WEB", ip |-> "home"]
App == [platform |-> "MOBILE", ip |-> "home"]
Devices == {Web, App}
Googles == {[id |-> "g1", email |-> "e1", base |-> "mya"], [id |-> "g2", email |-> "e1", base |-> "mya"],
            [id |-> "g3", email |-> "e3", base |-> "mya"],
            [id |-> "g4", email |-> "e4", base |-> "mya"]}

Member(name, phone, email, google) ==
    [username |-> <<name, 1>>, phone |-> phone, email |-> email, google |-> google, active |-> TRUE, seen |-> None, since |-> 0,
     avatar |-> None]
Sent(phone, attempts) == [phone |-> phone, at |-> 0, attempts |-> attempts, consumed |-> 0]
Held(u) == [user |-> u, revoked |-> FALSE, from |-> None, expires |-> 3]
Seen(u, client) == [user |-> u, client |-> client, at |-> 0, signIn |-> FALSE]
Typed(norm, form, platform) == [user |-> 1, term |-> [norm |-> norm, form |-> form], platform |-> platform, at |-> 0]
Wants(u, phone, spelling) == [user |-> u, number |-> <<phone, spelling>>, amount |-> 1, status |-> "PENDING", at |-> 0]
Got(u, amount) == [user |-> u, amount |-> amount, approved |-> TRUE, at |-> 0]
Rung(name, threshold, order, enabled) == [name |-> name, threshold |-> threshold, order |-> order, enabled |-> enabled]
Empty(doing, members, spent) ==
    [user |-> members, code |-> <<>>, token |-> <<>>, session |-> <<>>, search |-> <<>>, payout |-> <<>>, plan |-> <<>>,
     deposit |-> <<>>, level |-> <<>>, method |-> <<>>, account |-> <<>>, doors |-> doing, requests |-> spent]
Two == <<Member("a", "091", None, None), Member("b", "092", None, None)>>

Coding == [Empty({"code", "verify", "clock"}, <<>>, 1) EXCEPT !.code = <<Sent("091", 1)>>]
Complaining == Empty({"feedback", "triage", "log", "growth", "clock"}, <<Member("a", None, None, None)>>, 0)
Phoning == [Empty({"verify", "code", "login", "clock"}, <<>>, 1) EXCEPT !.code = <<Sent("091", 0), Sent("092", 0)>>]
Signing == [Empty({"verify", "login", "status", "refresh", "logout", "restart", "clock"}, <<Member("a", "091", None, None)>>, 1)
              EXCEPT !.code = <<Sent("091", 0)>>, !.token = <<Held(1)>>]
Googling == Empty({"google", "register"}, <<Member("a", None, "e1", None), Member("b", None, "e3", "g2")>>, 0)
Buying == [Empty({"subscribe", "plan", "clock", "restart"}, Two, 0)
             EXCEPT !.plan = <<[price |-> 1, days |-> 1, active |-> TRUE]>>, !.deposit = <<Got(1, 3)>>]
Ranking == [Empty({"level", "rank", "subscribe"}, <<Member("a", "091", None, None)>>, 1)
              EXCEPT !.plan = <<[price |-> 2, days |-> 1, active |-> TRUE]>>, !.deposit = <<Got(1, 2)>>,
                     !.level = <<Rung("iron", 1, 2, TRUE), Rung("tin", 3, 1, TRUE), Rung("gold", 0, 3, FALSE)>>]
Paying == [Empty({"settings", "method", "account", "entry"}, <<>>, 0)
             EXCEPT !.method = <<"kpay">>, !.account = <<[type |-> "kpay", used |-> FALSE]>>]
Present == [Empty({"touch", "socket", "active", "sessions", "clock"}, Two, 1)
              EXCEPT !.session = <<Seen(1, Web), Seen(2, App)>>]
Watching == Empty({"beat", "watched", "clock"}, <<Member("a", "091", None, None)>>, 0)
Growing == Empty({"growth", "register", "clock"}, <<Member("a", "091", None, None)>>, 0)
Searching == [Empty({"search", "searches", "log"}, <<Member("a", "091", None, None)>>, 1)
                EXCEPT !.search = <<Typed("war", 2, "WEB"), Typed("war", 2, "WEB"), Typed("war", 1, "WEB"), Typed("love", 1, "MOBILE")>>]
Picturing == Empty({"avatar", "verify"}, <<[Member("a", "091", None, None) EXCEPT !.avatar = <<1, 0>>],
                                           [Member("b", "092", None, None) EXCEPT !.avatar = <<0, 0>>]>>, 0)
Listing == [Empty({"members", "network", "subscribe", "deposit", "payout", "adjust", "register", "clock"}, Two, 1)
              EXCEPT !.plan = <<[price |-> 1, days |-> 1, active |-> TRUE]>>, !.deposit = <<Got(1, 1), Got(1, 1), Got(1, 1), Got(2, 1)>>,
                     !.payout = <<Wants(2, "092", "plain")>>]
Linking == [Empty({"network", "withdraw", "clock"}, Two \o <<Member("c", "093", None, None)>>, 1)
              EXCEPT !.payout = <<Wants(1, "092", "plain"), Wants(2, "093", "spaced")>>,
                     !.deposit = <<Got(1, 1), Got(2, 1), Got(3, 1)>>]
Numbers0 == {"091", "092", "093"}
Alike == Permutations(Procs)
Beginnings == {Coding, Phoning, Signing, Googling, Buying, Ranking, Paying, Present, Watching, Searching, Linking, Complaining, Growing,
               Picturing, Listing}
=============================================================================
