------------------------------- MODULE Money -------------------------------
(***************************************************************************)
(* The money services as they run: server processes serve requests, each   *)
(* a sequence of SQL statements inside one READ COMMITTED transaction.     *)
(* Statements of different requests interleave.  A statement that writes a *)
(* row waits while another open transaction has written that row, then     *)
(* sees its latest committed value; writes become visible to others at     *)
(* commit; a thrown exception, a lost connection or Prisma's transaction   *)
(* timeout rolls everything back.                                          *)
(***************************************************************************)
EXTENDS MoneyTables

CONSTANTS
    Procs,        \* request handlers in flight at the same time
    Clean,        \* a row this transaction has not written
    Served,       \* the requests that arrive: a subset of Ops
    MaxEntries    \* bound: re-links to another account arrive while every account has
                  \* fewer ledger rows than this, manual entries while it has one less

VARIABLES
    tx,           \* tx[p]: the request p serves and where it stands
    pend          \* pend[p][r]: p's uncommitted version of row r, or Clean

vars == <<db, tx, pend>>

ASSUME CleanIsNoRowValue ==
    /\ Clean \notin WalletRow /\ Clean \notin AccountRow /\ Clean \notin DepositRow
    /\ Clean \notin WithdrawalRow /\ Clean \notin AdjustmentRow /\ Clean # Absent

(***************************************************************************)
(* A request: op names the handler, at its next statement, id the row it   *)
(* is about, new the row or movement it asks for, seen the account link    *)
(* read by its first statement, to the account it is to link.              *)
(***************************************************************************)
Ops == {"idle", "create", "manual", "approve", "reject", "relink", "adjust", "entry"}
Steps == {"idle", "insert", "claim", "link", "reverse", "post", "wallet", "record", "save", "commit"}
Movement == [type : ManualTypes, amount : Amounts]
Asked == [user : Users, delta : Int]
Request == [op : Ops, at : Steps, id : Rows \cup {None},
            new : DepositRow \cup WithdrawalRow \cup Asked \cup Movement \cup {None},
            seen : Link, to : Link]

Idle == [op |-> "idle", at |-> "idle", id |-> None, new |-> None, seen |-> None, to |-> None]
NothingWritten == [r \in Rows |-> Clean]

Init ==
    /\ TablesInit
    /\ tx = [p \in Procs |-> Idle]
    /\ pend = [p \in Procs |-> NothingWritten]

-----------------------------------------------------------------------------
(* Transactions *)

\* The version of row r that p's next statement works on.
View(p, r) == IF pend[p][r] = Clean THEN db[r] ELSE pend[p][r]

Subject(p) == View(p, tx[p].id)     \* the deposit or withdrawal a request is about
Owner(p) == IF tx[p].op = "adjust" THEN tx[p].new.user ELSE Subject(p).user
Delta(p) == IF tx[p].op = "adjust" THEN tx[p].new.delta ELSE WalletDelta(tx[p].id, Subject(p))

\* A slip: no unique index backs the duplicate pre-check.
HoldersUnindexed(x) == {}

\* Deposit rows that hold, or are about to hold, a reference in the unique index.
Holders(x) == {e \in Deposits : Live(db[e], x) \/ \E q \in Procs : pend[q][e] # Clean /\ Live(pend[q][e], x)}

\* A slip: a re-link settles the wallet again between the two accounts.
FollowingResettled(t) ==
    LET linked == CASE t.op = "relink" -> "save" [] t.op = "entry" -> "commit" [] OTHER -> "wallet"
        linking == IF t.to = t.seen THEN linked ELSE "link"
        posting == IF t.to # None THEN "post" ELSE linked
    IN  CASE t.at = "insert"  -> linking
          [] t.at = "claim"   -> IF t.op = "reject" THEN "commit" ELSE linking
          [] t.at = "link"    -> IF t.seen # None THEN "reverse" ELSE "post"
          [] t.at = "reverse" -> IF t.op = "relink" THEN "wallet" ELSE posting
          [] t.at = "wallet" /\ t.op = "relink" -> posting
          [] t.at = "post"    -> linked
          [] t.at = "wallet"  -> IF t.op = "adjust" THEN "record" ELSE "commit"
          [] OTHER            -> "commit"

\* The statement after the one t stands at.  approve and createManual link the
\* receiving account, then pay; the link's own statements are left out when the
\* account does not change, a reversal when there was none, a posting when there
\* will be none.
Following(t) ==
    LET linked == CASE t.op = "relink" -> "save" [] t.op = "entry" -> "commit" [] OTHER -> "wallet"
        linking == IF t.to = t.seen THEN linked ELSE "link"
    IN  CASE t.at = "insert"  -> linking
          [] t.at = "claim"   -> IF t.op = "reject" THEN "commit" ELSE linking
          [] t.at = "link"    -> IF t.seen # None THEN "reverse" ELSE "post"
          [] t.at = "reverse" -> IF t.to # None THEN "post" ELSE linked
          [] t.at = "post"    -> linked
          [] t.at = "wallet"  -> IF t.op = "adjust" THEN "record" ELSE "commit"
          [] OTHER            -> "commit"

\* The rows whose lock p's next statement needs.
Wanted(p) ==
    CASE tx[p].at \in {"claim", "link", "save", "record"} -> {tx[p].id}
      [] tx[p].at = "reverse"                            -> {tx[p].seen}
      [] tx[p].at = "post"                               -> {tx[p].to}
      [] tx[p].at = "wallet"                             -> {Owner(p)}
      [] tx[p].at = "insert" /\ tx[p].new \in DepositRow -> Holders(tx[p].new.reference)
      [] OTHER                                           -> {}

WaitsFor(p, q) == q # p /\ \E r \in Wanted(p) : pend[q][r] # Clean

Granted(p) == \A q \in Procs : ~WaitsFor(p, q)

Continue(p) == tx' = [tx EXCEPT ![p].at = Following(tx[p])]
Write(p, r, v) == pend' = [pend EXCEPT ![p][r] = v]

Finish(p) ==
    /\ tx' = [tx EXCEPT ![p] = Idle]
    /\ pend' = [pend EXCEPT ![p] = NothingWritten]

Rollback(p) == Finish(p) /\ UNCHANGED db

Commit(p) ==
    /\ tx[p].at = "commit"
    /\ db' = [r \in Rows |-> View(p, r)]
    /\ Finish(p)

-----------------------------------------------------------------------------
(* First statements: a request arrives and reads *)

Begin(p, request) ==
    /\ tx[p] = Idle
    /\ request.op \in Served
    /\ tx' = [tx EXCEPT ![p] = request]
    /\ UNCHANGED <<db, pend>>

\* The UUID a new row will have.
Fresh(i) == db[i] = Absent /\ \A q \in Procs : tx[q].id # i

\* The duplicate pre-check of DepositsService.create and createManual.  A user's
\* deposit names no account yet; an admin's names the one the money landed in.
PrecheckDeposit(p) ==
    \E d \in Deposits, u \in Users, n \in Amounts, x \in References, a \in Link :
       /\ Fresh(d)
       /\ \A e \in Deposits : ~Live(db[e], x)
       /\ Begin(p, [op |-> IF a = None THEN "create" ELSE "manual", at |-> "insert", id |-> d,
                    new |-> [status |-> IF a = None THEN "PENDING" ELSE "APPROVED", user |-> u,
                             amount |-> n, reference |-> x, link |-> None,
                             before |-> None, after |-> None],
                    seen |-> None, to |-> a])

\* The balance pre-check of WithdrawalsService.create.
PrecheckWithdrawal(p) ==
    \E w \in Withdrawals, u \in Users, n \in Amounts :
       /\ Fresh(w)
       /\ n <= db[u].balance
       /\ Begin(p, [op |-> "create", at |-> "insert", id |-> w,
                    new |-> [status |-> "PENDING", user |-> u, amount |-> n, link |-> None],
                    seen |-> None, to |-> None])

\* approve and reject read the row before they claim it.  The account approve
\* credits is dto.paymentAccountId when the admin sent one (null included), else
\* the account the depositor declared: any account, or none.
ReadForDecision(p) ==
    \E i \in Items, op \in {"approve", "reject"}, a \in Link :
       /\ db[i] # Absent
       /\ a # None => op = "approve" /\ i \in Deposits
       /\ Begin(p, [op |-> op, at |-> "claim", id |-> i, new |-> None,
                    seen |-> db[i].link, to |-> a])

\* updateReceivingAccount and updateTransferAccount refuse an undecided item.  A
\* body without paymentAccountId keeps the link of a deposit (to = seen) and
\* clears that of a withdrawal (to = None).
HasRoom(rows) == \A a \in Accounts : Len(db[a].entries) < rows
ReadForRelink(p) ==
    \E i \in Items, a \in Link :
       /\ db[i] # Absent /\ db[i].status = "APPROVED"
       /\ a # db[i].link => HasRoom(MaxEntries)
       /\ Begin(p, [op |-> "relink", at |-> IF a = db[i].link THEN "save" ELSE "link", id |-> i, new |-> None,
                    seen |-> db[i].link, to |-> a])

\* adjust probes its idempotency key; a key already written is replayed, or
\* refused when the payload differs, and nothing changes.
ProbeKey(p) ==
    \E k \in Keys, u \in Users, n \in Amounts, sign \in {1, -1} :
       /\ db[k] = Absent
       /\ Begin(p, [op |-> "adjust", at |-> "wallet", id |-> k,
                    new |-> [user |-> u, delta |-> sign * n], seen |-> None, to |-> None])

\* recordManualEntry finds the account.
ReadAccount(p) ==
    \E a \in Accounts, type \in ManualTypes, n \in Amounts :
       /\ HasRoom(MaxEntries - 1)
       /\ Begin(p, [op |-> "entry", at |-> "post", id |-> None,
                    new |-> [type |-> type, amount |-> n], seen |-> None, to |-> a])

-----------------------------------------------------------------------------
(* Later statements *)

\* deposit.create: an autocommitted INSERT for a user's request, the first write
\* of the transaction for an admin's.  A reference in use raises P2002.
InsertDeposit(p) ==
    /\ tx[p].at = "insert" /\ tx[p].new \in DepositRow
    /\ Granted(p)
    /\ Holders(tx[p].new.reference) = {}
    /\ \/ /\ tx[p].op = "create"
          /\ db' = [db EXCEPT ![tx[p].id] = tx[p].new]
          /\ Finish(p)
       \/ /\ tx[p].op = "manual"
          /\ Write(p, tx[p].id, tx[p].new)
          /\ Continue(p)
          /\ UNCHANGED db

InsertRefused(p) ==
    /\ tx[p].at = "insert" /\ tx[p].new \in DepositRow
    /\ Granted(p)
    /\ Holders(tx[p].new.reference) # {}
    /\ Rollback(p)

InsertWithdrawal(p) ==
    /\ tx[p].at = "insert" /\ tx[p].new \in WithdrawalRow
    /\ db' = [db EXCEPT ![tx[p].id] = tx[p].new]
    /\ Finish(p)

\* A slip: the UPDATE does not ask for PENDING.
ClaimUnguarded(p) ==
    /\ tx[p].at = "claim" /\ Granted(p)
    /\ Write(p, tx[p].id, [Subject(p) EXCEPT !.status = IF tx[p].op = "approve" THEN "APPROVED"
                                                        ELSE "REJECTED"])
    /\ Continue(p)
    /\ UNCHANGED db

\* updateMany where status = PENDING: one decision wins, the others throw 409.
Claim(p) ==
    /\ tx[p].at = "claim" /\ Granted(p)
    /\ Subject(p).status = "PENDING"
    /\ Write(p, tx[p].id, [Subject(p) EXCEPT !.status = IF tx[p].op = "approve" THEN "APPROVED"
                                                        ELSE "REJECTED"])
    /\ Continue(p)
    /\ UNCHANGED db

ClaimLost(p) ==
    /\ tx[p].at = "claim" /\ Granted(p)
    /\ Subject(p).status # "PENDING"
    /\ Rollback(p)

\* A slip: the link is overwritten, not compared with the one read.
ClaimLinkBlindly(p) ==
    /\ tx[p].at = "link" /\ Granted(p)
    /\ Write(p, tx[p].id, [Subject(p) EXCEPT !.link = tx[p].to])
    /\ Continue(p)
    /\ UNCHANGED db

\* syncDepositLink and syncWithdrawalLink: the link is claimed by comparing it
\* with the one read, the old account is reversed and the new one posted to.
ClaimLink(p) ==
    /\ tx[p].at = "link" /\ Granted(p)
    /\ Subject(p).link = tx[p].seen
    /\ Write(p, tx[p].id, [Subject(p) EXCEPT !.link = tx[p].to])
    /\ Continue(p)
    /\ UNCHANGED db

\* A slip: the loser of the claim tries it again instead of throwing.
ClaimLinkAgain(p) ==
    /\ tx[p].at = "link" /\ Granted(p)
    /\ Subject(p).link # tx[p].seen
    /\ UNCHANGED vars

ClaimLinkLost(p) ==
    /\ tx[p].at = "link" /\ Granted(p)
    /\ Subject(p).link # tx[p].seen
    /\ Rollback(p)

Reverse(p) ==
    /\ tx[p].at = "reverse" /\ Granted(p)
    /\ Write(p, tx[p].seen, ApplyMovement(View(p, tx[p].seen), ReversalType(tx[p].id),
                                          Subject(p).amount, tx[p].id))
    /\ Continue(p)
    /\ UNCHANGED db

Post(p) ==
    /\ tx[p].at = "post" /\ Granted(p)
    /\ LET account == View(p, tx[p].to)
       IN  Write(p, tx[p].to,
                 IF tx[p].op = "entry"
                 THEN ApplyMovement(account, tx[p].new.type, tx[p].new.amount, None)
                 ELSE ApplyMovement(account, ForwardType(tx[p].id), Subject(p).amount, tx[p].id))
    /\ Continue(p)
    /\ UNCHANGED db

\* The wallet moves, its Transaction row is inserted and a deposit records the
\* balance around its credit; the deposit row is locked already.
Pay(p) ==
    /\ tx[p].at = "wallet" /\ Granted(p)
    /\ CanMove(View(p, Owner(p)), Delta(p))
    /\ LET wallet == View(p, Owner(p))
           moved == MoveWallet(wallet, tx[p].id, Delta(p))
       IN  IF tx[p].id \in Deposits
           THEN pend' = [pend EXCEPT ![p][Owner(p)] = moved,
                                     ![p][tx[p].id] = [Subject(p) EXCEPT !.before = wallet.balance,
                                                                         !.after = moved.balance]]
           ELSE Write(p, Owner(p), moved)
    /\ Continue(p)
    /\ UNCHANGED db

\* 400 Insufficient wallet balance.
PayRefused(p) ==
    /\ tx[p].at = "wallet" /\ Granted(p)
    /\ ~CanMove(View(p, Owner(p)), Delta(p))
    /\ Rollback(p)

\* A slip: the key column is not unique.
RecordAdjustmentTwice(p) ==
    /\ tx[p].at = "record" /\ Granted(p)
    /\ LET balance == View(p, Owner(p)).balance
       IN  Write(p, tx[p].id, [user |-> Owner(p), delta |-> Delta(p),
                               before |-> balance - Delta(p), after |-> balance])
    /\ Continue(p)
    /\ UNCHANGED db

\* A slip: the balance before is taken after the wallet moved.
RecordAdjustmentReadLate(p) ==
    /\ tx[p].at = "record" /\ Granted(p)
    /\ db[tx[p].id] = Absent
    /\ LET balance == View(p, Owner(p)).balance
       IN  Write(p, tx[p].id, [user |-> Owner(p), delta |-> Delta(p),
                               before |-> balance, after |-> balance + Delta(p)])
    /\ Continue(p)
    /\ UNCHANGED db

\* walletAdjustment.create: the unique key rejects the loser of a race, which
\* then answers with the winner's row and changes nothing.
RecordAdjustment(p) ==
    /\ tx[p].at = "record" /\ Granted(p)
    /\ db[tx[p].id] = Absent
    /\ LET balance == View(p, Owner(p)).balance
       IN  Write(p, tx[p].id, [user |-> Owner(p), delta |-> Delta(p),
                               before |-> balance - Delta(p), after |-> balance])
    /\ Continue(p)
    /\ UNCHANGED db

ReplayAdjustment(p) ==
    /\ tx[p].at = "record" /\ Granted(p)
    /\ db[tx[p].id] # Absent
    /\ Rollback(p)

\* The closing update of updateReceivingAccount and updateTransferAccount writes
\* only descriptive columns, but takes the row lock.
SaveDetails(p) ==
    /\ tx[p].at = "save" /\ Granted(p)
    /\ Write(p, tx[p].id, Subject(p))
    /\ Continue(p)
    /\ UNCHANGED db

\* The connection, the process or Prisma's transaction timeout ends a request.
Abort(p) == tx[p] # Idle /\ Rollback(p)

\* Postgres aborts a transaction of a cycle of waiters.
Deadlocked(S) == S # {} /\ \A p \in S : \E q \in S : WaitsFor(p, q)
DeadlockCycle(S) == Deadlocked(S) /\ \A T \in SUBSET S : Deadlocked(T) => T = S

BreakDeadlock(p) ==
    /\ \E S \in SUBSET Procs : p \in S /\ DeadlockCycle(S)
    /\ Rollback(p)

Arrive(p) ==
    \/ PrecheckDeposit(p) \/ PrecheckWithdrawal(p) \/ ReadForDecision(p)
    \/ ReadForRelink(p) \/ ProbeKey(p) \/ ReadAccount(p)

Statement(p) ==
    \/ InsertDeposit(p) \/ InsertRefused(p) \/ InsertWithdrawal(p)
    \/ Claim(p) \/ ClaimLost(p)
    \/ ClaimLink(p) \/ ClaimLinkLost(p) \/ Reverse(p) \/ Post(p)
    \/ Pay(p) \/ PayRefused(p) \/ RecordAdjustment(p) \/ ReplayAdjustment(p)
    \/ SaveDetails(p) \/ Commit(p)

Next == \E p \in Procs : Arrive(p) \/ Statement(p) \/ Abort(p) \/ BreakDeadlock(p)

Spec == Init /\ [][Next]_vars

(***************************************************************************)
(* A handler runs on until its next statement has to wait, Postgres grants *)
(* a row lock to its waiters in the order they came (a waiter gets the     *)
(* lock if it is released over and over), and its deadlock detector does   *)
(* not leave a cycle standing.  Requests need not arrive.                  *)
(***************************************************************************)
FairSpec == Spec /\ \A p \in Procs : SF_vars(Statement(p) \/ BreakDeadlock(p))

-----------------------------------------------------------------------------
(* Properties of the requests *)

TypeOK ==
    /\ TablesTypeOK
    /\ tx \in [Procs -> Request]
    /\ pend = [p \in Procs |-> pend[p]]
    /\ \A p \in Procs :
          /\ pend[p] = [r \in Rows |-> pend[p][r]]
          /\ \A u \in Users : pend[p][u] \in WalletRow \cup {Clean}
          /\ \A a \in Accounts : pend[p][a] \in AccountRow \cup {Clean}
          /\ \A d \in Deposits : pend[p][d] \in DepositRow \cup {Clean}
          /\ \A w \in Withdrawals : pend[p][w] \in WithdrawalRow \cup {Clean}
          /\ \A k \in Keys : pend[p][k] \in AdjustmentRow \cup {Clean}

\* Every handler takes its locks in the order item, account, wallet, key, so
\* requests can only block each other for good when re-links move items between
\* the same accounts in opposite directions.
OnlyRelinksDeadlock ==
    \A S \in SUBSET Procs : DeadlockCycle(S) =>
       \A p \in S : /\ tx[p].op = "relink" /\ tx[p].at = "post"
                    /\ \E q \in S : tx[q].seen = tx[p].to

\* Statement by statement the services do what they promise request by request:
\* interleaving and failures add no outcome.
Atomic == INSTANCE MoneyAtomic
ImplementsAtomic == Atomic!AtomicSpec

\* Every request ends: no lock is kept and no cycle of waiters stands.
EveryRequestEnds == \A p \in Procs : tx[p] # Idle ~> tx[p] = Idle

\* "This is safe to retry: a key that has already been written returns the
\* original adjustment" (wallet-adjustments.service.ts): a retry is not refused
\* for want of balance when its key is in the table with the same payload.
RetryIsReplayed ==
    [][\A p \in Procs : PayRefused(p) /\ tx[p].op = "adjust" =>
          ~ /\ db[tx[p].id] # Absent
            /\ db[tx[p].id].user = tx[p].new.user
            /\ db[tx[p].id].delta = tx[p].new.delta]_vars

=============================================================================
