------------------------------- MODULE SignIn -------------------------------
(***************************************************************************)
(* The ways into an account: username and password, a code by telephone,   *)
(* Google, and the refresh token (AuthService, OtpService,                 *)
(* GoogleAuthService, JwtStrategy, UsersService).                          *)
(***************************************************************************)
EXTENDS MemberTables

ASSUME OtpLimits == {CodeTTL, Cooldown, Hour, MaxCodes, MaxAttempts} \subseteq Nat \ {0}
ASSUME RefreshLives == TokenTTL \in Nat \ {0}
ASSUME TriesAreCounted == MaxTries \in Nat \ {0}
\* Google says of one id the same whenever it is asked, and never that it has no email.
ASSUME IdentitiesStay ==
    /\ Phones \subseteq STRING
    /\ \A g \in Identities : g.base \in STRING /\ g.id # None /\ g.email # None
    /\ \A g, h \in Identities : g.id = h.id => g = h

NewUser(name, phone, email, google) ==
    [username |-> name, phone |-> phone, email |-> email, google |-> google, active |-> TRUE, seen |-> None, since |-> clock,
     avatar |-> None]
\* The four unique columns of a user.
Clash(r, s) == \/ s.username = r.username
               \/ \E field \in {"phone", "email", "google"} : r[field] # None /\ s[field] = r[field]
\* A slip: only the username is unique.
UniqueName(r) == \A u \in Users : user[u].username # r.username
Unique(r) == \A u \in Users : ~Clash(r, user[u])
Named(name) == \E u \in Users : user[u].username = name
Having(field, value) == {u \in Users : user[u][field] = value}

\* UsersService.create: the account and its wallet in one transaction.
Insert(r) ==
    /\ Len(user) < MaxRows
    /\ user' = Append(user, r)
    /\ wallet' = [u \in DOMAIN user' |-> IF u \in Users THEN wallet[u] ELSE 0]
    /\ locked' = [u \in DOMAIN user' |-> IF u \in Users THEN locked[u] ELSE None]
    /\ touched' = [u \in DOMAIN user' |-> IF u \in Users THEN touched[u] ELSE None]
    /\ UNCHANGED <<code, token, session, watch, position, search, feedback, socket, plan, period, level, office>>

-----------------------------------------------------------------------------
(* Username and password *)

\* The name is looked up before the password is hashed.
AskRegister(p, name, client) ==
    /\ ~Named(name)
    /\ Ask(p, [Idle EXCEPT !.op = "register", !.at = "create", !.name = name, !.client = client])

Register(p) ==
    LET r == NewUser(task[p].name, None, None, None)
    IN  /\ At(p, "register", "create")
        /\ \/ Unique(r) /\ Insert(r) /\ Disturb(p, [task[p] EXCEPT !.at = "issue", !.user = Len(user) + 1]) /\ Goes
           \/ ~Unique(r) /\ End(p) /\ Reads

\* login, with the right password.
AskLogin(p, u, client) ==
    /\ u \in Users /\ user[u].active
    /\ Ask(p, [Idle EXCEPT !.op = "login", !.at = "issue", !.user = u, !.client = client])

\* updateStatus.
SetStatus(p, u, active) ==
    /\ Once(p, "status")
    /\ user' = [user EXCEPT ![u].active = active]
    /\ UNCHANGED <<code, token, traces, shop, office>>

-----------------------------------------------------------------------------
(* A code by telephone *)

CodesOf(phone) == {c \in DOMAIN code : code[c].phone = phone}
Open(phone) == {c \in CodesOf(phone) : code[c].consumed = 0}
Latest(S) == CHOOSE c \in S : \A d \in S : d <= c

\* A slip: the cooldown asks the codes that are still open.
AskCodeWhenUsed(p, phone) ==
    /\ Open(phone) # {} => clock - code[Latest(Open(phone))].at >= Cooldown
    /\ Ask(p, [Idle EXCEPT !.op = "code", !.at = "count", !.phone = phone])

\* requestOtp: not within RESEND_COOLDOWN_MS of the most recent.
AskCode(p, phone) ==
    /\ CodesOf(phone) # {} => clock - code[Latest(CodesOf(phone))].at >= Cooldown
    /\ Ask(p, [Idle EXCEPT !.op = "code", !.at = "count", !.phone = phone])

CountCodes(p) ==
    /\ At(p, "code", "count")
    /\ IF Cardinality({c \in CodesOf(task[p].phone) : code[c].at + Hour >= clock}) >= MaxCodes THEN End(p) ELSE Goto(p, "create")
    /\ Reads

CreateCode(p) ==
    /\ At(p, "code", "create") /\ Len(code) < MaxRows
    /\ code' = Append(code, [phone |-> task[p].phone, at |-> clock, attempts |-> 0, consumed |-> 0])
    /\ Disturb(p, None)
    /\ UNCHANGED <<user, token, traces, shop, office>> /\ Goes

\* verifyOtp: the latest open code, neither expired nor exhausted; right or wrong.
AskVerify(p, phone, right, password, client) ==
    /\ Open(phone) # {}
    /\ LET c == Latest(Open(phone))
       IN  /\ clock <= code[c].at + CodeTTL /\ code[c].attempts < MaxAttempts
           /\ Ask(p, [Idle EXCEPT !.op = "verify", !.at = IF right THEN "consume" ELSE "attempt", !.row = c, !.phone = phone,
                                  !.flag = password, !.client = client])

CountAttempt(p) ==
    /\ At(p, "verify", "attempt")
    /\ code' = [code EXCEPT ![task[p].row].attempts = @ + 1]
    /\ Disturb(p, None)
    /\ UNCHANGED <<user, token, traces, shop, office>> /\ Goes

\* A slip: whoever read the code open may use it.
ConsumeAnyway(p) ==
    /\ At(p, "verify", "consume")
    /\ code' = [code EXCEPT ![task[p].row].consumed = @ + 1]
    /\ Disturb(p, [task[p] EXCEPT !.at = "find"])
    /\ UNCHANGED <<user, token, traces, shop, office>> /\ Goes

\* One conditional statement: the losers match no row.
Consume(p) ==
    /\ At(p, "verify", "consume")
    /\ \/ /\ code[task[p].row].consumed = 0
          /\ code' = [code EXCEPT ![task[p].row].consumed = @ + 1]
          /\ Disturb(p, [task[p] EXCEPT !.at = "find"])
          /\ UNCHANGED <<user, token, traces, shop, office>> /\ Goes
       \/ code[task[p].row].consumed > 0 /\ End(p) /\ Reads

\* verifyPhoneOtp: the account of that number, or a new one if there is a password to give it.
FindPhone(p) ==
    LET found == Having("phone", task[p].phone)
    IN  /\ At(p, "verify", "find")
        /\ \/ \E u \in found : Proceed(p, [task[p] EXCEPT !.at = "gate", !.user = u, !.active = user[u].active])
           \/ found = {} /\ task[p].flag /\ Goto(p, "create")
           \/ found = {} /\ ~task[p].flag /\ End(p)
        /\ Reads

CreateForPhone(p) ==
    LET r == NewUser(<<task[p].phone, 1>>, task[p].phone, None, None)
    IN  /\ At(p, "verify", "create")
        /\ \/ Unique(r) /\ Insert(r) /\ Disturb(p, [task[p] EXCEPT !.at = "gate", !.user = Len(user) + 1]) /\ Goes
           \/ ~Unique(r) /\ End(p) /\ Reads

-----------------------------------------------------------------------------
(* Google *)

AskGoogle(p, g, client) == Ask(p, [Idle EXCEPT !.op = "google", !.at = "find", !.google = g, !.client = client, !.n = 1, !.second = Len(user)])

\* resolveUserOnce: by the Google id, else by the email, else a new account.
FindGoogle(p) ==
    LET found == Having("google", task[p].google.id)
    IN  /\ At(p, "google", "find")
        /\ \/ \E u \in found : Proceed(p, [task[p] EXCEPT !.at = "gate", !.user = u, !.active = user[u].active])
           \/ found = {} /\ Goto(p, "email")
        /\ Reads

\* A slip: the email decides, whoever is linked.
FindEmailOnly(p) ==
    LET found == Having("email", task[p].google.email)
    IN  /\ At(p, "google", "email")
        /\ \/ \E u \in found : IF ~user[u].active THEN End(p) ELSE Proceed(p, [task[p] EXCEPT !.at = "link", !.user = u])
           \/ found = {} /\ Proceed(p, [task[p] EXCEPT !.at = "name", !.row = 1])
        /\ Reads

FindEmail(p) ==
    LET found == Having("email", task[p].google.email)
    IN  /\ At(p, "google", "email")
        /\ \/ \E u \in found : IF user[u].google # None \/ ~user[u].active THEN End(p)
                               ELSE Proceed(p, [task[p] EXCEPT !.at = "link", !.user = u])
           \/ found = {} /\ Proceed(p, [task[p] EXCEPT !.at = "name", !.row = 1])
        /\ Reads

\* A slip: the first collision is the answer.
FailAtOnce(p) == Goto(p, "collided") /\ Reads

\* resolveUser: a unique violation is tried again, up to MAX_RESOLVE_ATTEMPTS.
TryAgain(p) == Proceed(p, IF task[p].n >= MaxTries THEN [task[p] EXCEPT !.at = "collided"]
                          ELSE [task[p] EXCEPT !.at = "find", !.n = @ + 1]) /\ Reads

Link(p) ==
    LET u == task[p].user
        taken == Having("google", task[p].google.id) \ {u} # {}
    IN  /\ At(p, "google", "link")
        /\ \/ /\ ~taken
              /\ user' = [user EXCEPT ![u].google = task[p].google.id]
              /\ Disturb(p, [task[p] EXCEPT !.at = "gate", !.active = user[u].active])
              /\ UNCHANGED <<code, token, traces, shop, office>> /\ Goes
           \/ taken /\ TryAgain(p)

\* pickUsername: base, then base_2, base_3 ...
PickUsername(p) ==
    LET name == <<task[p].google.base, task[p].row>>
    IN  /\ At(p, "google", "name")
        /\ Proceed(p, IF Named(name) THEN [task[p] EXCEPT !.row = @ + 1] ELSE [task[p] EXCEPT !.at = "create", !.name = name])
        /\ Reads

CreateForGoogle(p) ==
    LET r == NewUser(task[p].name, None, task[p].google.email, task[p].google.id)
    IN  /\ At(p, "google", "create")
        /\ \/ Unique(r) /\ Insert(r) /\ Disturb(p, [task[p] EXCEPT !.at = "gate", !.user = Len(user) + 1]) /\ Goes
           \/ ~Unique(r) /\ TryAgain(p)

\* The answer, an error, is given.
Collided(p) == Stands(p, "collided") /\ End(p) /\ Reads

\* A slip: nobody asks whether the account is still active.
GateOpen(p) == Stands(p, "gate") /\ Goto(p, "issue") /\ Reads

\* completeSignIn, verifyPhoneOtp: only an active account, as it was read.
Gate(p) ==
    /\ Stands(p, "gate")
    /\ IF task[p].active THEN Goto(p, "issue") ELSE End(p)
    /\ Reads

-----------------------------------------------------------------------------
(* Refresh tokens *)

\* A slip: nobody asks how many rows matched.
SpendAnyway(p) ==
    /\ At(p, "refresh", "spend")
    /\ token' = [token EXCEPT ![task[p].row].revoked = TRUE]
    /\ Disturb(p, [task[p] EXCEPT !.at = "issue"])
    /\ UNCHANGED <<user, code, traces, shop, office>> /\ Goes

\* refresh: the signature and its expiry first, then the row in one conditional statement.
AskRefresh(p, t) ==
    /\ clock < token[t].expires
    /\ Ask(p, [Idle EXCEPT !.op = "refresh", !.at = "spend", !.row = t, !.user = token[t].user])
Spend(p) ==
    LET t == task[p].row
        good == ~token[t].revoked /\ clock < token[t].expires
    IN  /\ At(p, "refresh", "spend")
        /\ \/ /\ good
              /\ token' = [token EXCEPT ![t].revoked = TRUE]
              /\ Disturb(p, [task[p] EXCEPT !.at = "issue"])
              /\ UNCHANGED <<user, code, traces, shop, office>> /\ Goes
           \/ ~good /\ End(p) /\ Reads

\* logout: expired or not.
Logout(p, t) ==
    /\ Once(p, "logout")
    /\ token' = [token EXCEPT ![t].revoked = TRUE]
    /\ UNCHANGED <<user, code, traces, shop, office>>

\* issueTokens.  A refresh ends here; a sign-in goes on to open a session, after the response.
Issue(p) ==
    LET refreshed == task[p].op = "refresh"
        tracked == task[p].op \in {"login", "verify", "google"}
    IN  /\ Stands(p, "issue") /\ Len(token) < MaxRows
        /\ token' = Append(token, [user |-> task[p].user, revoked |-> FALSE, from |-> IF refreshed THEN task[p].row ELSE None,
                                   expires |-> clock + TokenTTL])
        /\ Disturb(p, IF tracked THEN [task[p] EXCEPT !.at = "session", !.when = clock] ELSE None)
        /\ UNCHANGED <<user, code, traces, shop, office>> /\ Goes
=============================================================================
