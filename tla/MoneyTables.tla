---------------------------- MODULE MoneyTables ----------------------------
(***************************************************************************)
(* The tables money moves through: wallets with their Transaction rows,    *)
(* the platform's own payment accounts with their ledger rows, deposits,   *)
(* withdrawals and wallet adjustments.  "db" is what is committed; the two  *)
(* specifications over it are MoneyAtomic (a request is one step) and      *)
(* Money (a request is one SQL statement per step).                        *)
(*                                                                         *)
(* The Transaction rows of a user are kept inside that user's wallet row,  *)
(* and the PaymentAccountTransaction rows of an account inside the account *)
(* row: the code inserts them only while it holds the row lock of the      *)
(* balance they explain, so they become visible together.                  *)
(***************************************************************************)
EXTENDS Integers, Sequences, FiniteSets

CONSTANTS
    Users,        \* every user owns exactly one wallet row
    Accounts,     \* the platform's payment accounts
    Deposits,     \* ids for deposit rows
    Withdrawals,  \* ids for withdrawal rows
    Keys,         \* idempotency keys of wallet adjustments
    References,   \* payment references a depositor can quote
    Amounts,      \* amounts within the configured limits, in the currency's smallest unit
    None,         \* SQL NULL
    Absent        \* a row that has not been inserted

VARIABLE db       \* [row -> committed value]

Items == Deposits \cup Withdrawals
Rows == Users \cup Accounts \cup Items \cup Keys

\* Row ids are UUIDs of different tables, so no id names two rows.
ASSUME RowsAreDistinct ==
    /\ Users \cap (Accounts \cup Items \cup Keys) = {}
    /\ Accounts \cap (Items \cup Keys) = {}
    /\ Items \cap Keys = {}
    /\ Deposits \cap Withdrawals = {}
    /\ None \notin Rows
ASSUME AmountsArePositive == Amounts \subseteq Nat \ {0}

-----------------------------------------------------------------------------
(* Row types *)

CreditTypes == {"OPENING_BALANCE", "MANUAL_CREDIT", "DEPOSIT_IN", "ADJUSTMENT_CREDIT"}
DebitTypes == {"MANUAL_DEBIT", "WITHDRAWAL_OUT", "ADJUSTMENT_DEBIT"}
\* What the manual Add/Remove Money dialog may post.
ManualTypes == (CreditTypes \cup DebitTypes) \ {"DEPOSIT_IN", "WITHDRAWAL_OUT"}

Status == {"PENDING", "APPROVED", "REJECTED"}
Link == Accounts \cup {None}

\* A Transaction row.  "after" is a history variable: the wallet balance its
\* own transaction wrote.
WalletEntry == [cause : Items \cup Keys, delta : Int, after : Int]
WalletRow == [balance : Int, history : Seq(WalletEntry)]

AccountEntry == [type : CreditTypes \cup DebitTypes, amount : Amounts,
                 before : Int, after : Int, item : Items \cup {None}]
AccountRow == [balance : Int, totalIn : Int, totalOut : Int, entries : Seq(AccountEntry)]

DepositRow == [status : Status, user : Users, amount : Amounts, reference : References,
               link : Link, before : Int \cup {None}, after : Int \cup {None}]
WithdrawalRow == [status : Status, user : Users, amount : Amounts, link : Link]
AdjustmentRow == [user : Users, delta : Int, before : Int, after : Int]

\* "No such row" is not a row.
ASSUME AbsentIsNoRow == Absent \notin DepositRow \cup WithdrawalRow \cup AdjustmentRow

TablesTypeOK ==
    /\ db = [r \in Rows |-> db[r]]
    /\ \A u \in Users : db[u] \in WalletRow
    /\ \A a \in Accounts : db[a] \in AccountRow
    /\ \A d \in Deposits : db[d] \in DepositRow \cup {Absent}
    /\ \A w \in Withdrawals : db[w] \in WithdrawalRow \cup {Absent}
    /\ \A k \in Keys : db[k] \in AdjustmentRow \cup {Absent}

NewWallet == [balance |-> 0, history |-> <<>>]
NewAccount == [balance |-> 0, totalIn |-> 0, totalOut |-> 0, entries |-> <<>>]

\* Users and payment accounts exist and nothing has been requested yet.
TablesInit == db = [r \in Rows |-> IF r \in Users THEN NewWallet
                                   ELSE IF r \in Accounts THEN NewAccount
                                   ELSE Absent]

-----------------------------------------------------------------------------
(* What one statement, or one helper of the services, does to a row *)

\* A slip: debits forget their Transaction row.
MoveWalletQuietly(wallet, cause, delta) ==
    LET after == wallet.balance + delta
    IN  [balance |-> after,
         history |-> IF delta < 0 THEN wallet.history
                     ELSE Append(wallet.history, [cause |-> cause, delta |-> delta, after |-> after])]

\* WalletService.creditWithinTransaction and debitWithinTransaction, with the
\* Transaction row their caller inserts next.
MoveWallet(wallet, cause, delta) ==
    LET after == wallet.balance + delta
    IN  [balance |-> after,
         history |-> Append(wallet.history, [cause |-> cause, delta |-> delta, after |-> after])]

\* A slip: the UPDATE loses its condition, the pre-check alone guards a debit.
CanMoveUnchecked(wallet, delta) == TRUE

\* The conditional UPDATE's "balance >= amount"; a credit has no condition.
CanMove(wallet, delta) == delta < 0 => wallet.balance >= -delta

\* A slip: balanceBefore is read after the increment.
ApplyMovementReadLate(account, type, amount, item) ==
    LET isCredit == type \in CreditTypes
        after == IF isCredit THEN account.balance + amount ELSE account.balance - amount
    IN  [balance |-> after,
         totalIn |-> IF isCredit THEN account.totalIn + amount ELSE account.totalIn,
         totalOut |-> IF isCredit THEN account.totalOut ELSE account.totalOut + amount,
         entries |-> Append(account.entries,
                            [type |-> type, amount |-> amount, before |-> after,
                             after |-> after, item |-> item])]

\* PaymentAccountLedgerService.applyMovement: no lower bound on the balance.
ApplyMovement(account, type, amount, item) ==
    LET isCredit == type \in CreditTypes
        after == IF isCredit THEN account.balance + amount ELSE account.balance - amount
    IN  [balance |-> after,
         totalIn |-> IF isCredit THEN account.totalIn + amount ELSE account.totalIn,
         totalOut |-> IF isCredit THEN account.totalOut ELSE account.totalOut + amount,
         entries |-> Append(account.entries,
                            [type |-> type, amount |-> amount, before |-> account.balance,
                             after |-> after, item |-> item])]

\* What syncDepositLink and syncWithdrawalLink post against the account an item
\* is linked to, and what they post to take that back.
ForwardType(i) == IF i \in Deposits THEN "DEPOSIT_IN" ELSE "WITHDRAWAL_OUT"
ReversalType(i) == IF i \in Deposits THEN "ADJUSTMENT_DEBIT" ELSE "ADJUSTMENT_CREDIT"

\* How an approved item moves its owner's wallet.
WalletDelta(i, row) == IF i \in Deposits THEN row.amount ELSE -row.amount

\* The partial unique index deposits_reference_active_key covers this row.
Live(row, x) == row # Absent /\ row.status \in {"PENDING", "APPROVED"} /\ row.reference = x

-----------------------------------------------------------------------------
(* What must hold of the committed tables *)

\* The balance a wallet had after the first n rows of its history.
BalanceAfter(history, n) == IF n = 0 THEN 0 ELSE history[n].after

\* A wallet's balance is its Transaction rows added up, row by row: no movement
\* is lost, doubled or unexplained (wallet.service.ts).
IsHistory(wallet) ==
    LET h == wallet.history
    IN  /\ wallet.balance = BalanceAfter(h, Len(h))
        /\ \A n \in 1..Len(h) : h[n].after = BalanceAfter(h, n - 1) + h[n].delta
WalletIsItsHistory == \A u \in Users : IsHistory(db[u])

\* "can otherwise ... letting the balance go negative" (wallet.service.ts): no
\* movement ever leaves a wallet below zero.
NeverBelowZero(wallet) == \A n \in 1..Len(wallet.history) : wallet.history[n].after >= 0
NeverOverdrawn == \A u \in Users : NeverBelowZero(db[u])

\* The row a movement of a wallet was made for: decided in its favour, for the
\* same user and the same amount.
Explains(c, u, delta) ==
    /\ db[c] # Absent
    /\ db[c].user = u
    /\ IF c \in Items THEN db[c].status = "APPROVED" /\ delta = WalletDelta(c, db[c])
                      ELSE delta = db[c].delta

\* Every approved deposit and withdrawal, and every recorded adjustment, moved
\* its owner's wallet once; nothing pending or rejected moved anything, and
\* nothing moved someone else's wallet.
PaidExactlyOnce ==
    /\ \A u \in Users : \A n \in 1..Len(db[u].history) :
          LET move == db[u].history[n]
          IN  /\ Explains(move.cause, u, move.delta)
              /\ \A m \in 1..Len(db[u].history) : db[u].history[m].cause = move.cause => m = n
    /\ \A c \in Items \cup Keys :
          db[c] # Absent /\ (c \in Items => db[c].status = "APPROVED")
             => \E n \in 1..Len(db[db[c].user].history) : db[db[c].user].history[n].cause = c

\* The balances recorded on a deposit and on an adjustment are those around the
\* very movement it caused, whatever else moved the wallet meanwhile.
SnapshotsMatchHistory ==
    \A u \in Users : \A n \in 1..Len(db[u].history) :
       LET h == db[u].history
       IN  h[n].cause \in Deposits \cup Keys =>
              /\ db[h[n].cause].before = BalanceAfter(h, n - 1)
              /\ db[h[n].cause].after = h[n].after

\* A payment account's balance and totals are caches of its append-only ledger,
\* whose rows chain: each starts at the balance the one before it left.
IsItsLedger(account) ==
    LET e == account.entries
    IN  /\ account.balance = BalanceAfter(e, Len(e))
        /\ account.balance = account.totalIn - account.totalOut
        /\ \A n \in 1..Len(e) :
              /\ e[n].before = BalanceAfter(e, n - 1)
              /\ e[n].after = IF e[n].type \in CreditTypes THEN e[n].before + e[n].amount
                                                          ELSE e[n].before - e[n].amount
AccountIsItsLedger == \A a \in Accounts : IsItsLedger(db[a])

Postings(a, i, type) == {n \in 1..Len(db[a].entries) : /\ db[a].entries[n].item = i
                                                       /\ db[a].entries[n].type = type}

\* However often a deposit or withdrawal is re-linked, its money stands on the
\* account it is linked to once, and on no other account.
LinkMatchesLedger ==
    \A i \in Items, a \in Accounts :
       LET linked == db[i] # Absent /\ db[i].link = a
       IN  /\ Cardinality(Postings(a, i, ForwardType(i)))
                = Cardinality(Postings(a, i, ReversalType(i))) + (IF linked THEN 1 ELSE 0)
           /\ \A n \in 1..Len(db[a].entries) :
                 db[a].entries[n].item = i => db[i] # Absent /\ db[a].entries[n].amount = db[i].amount

\* One live deposit per payment reference: the same real-world payment cannot
\* credit a wallet twice (deposits_reference_active_key).
ReferenceLivesOnce ==
    \A d \in Deposits, e \in Deposits, x \in References : Live(db[d], x) /\ Live(db[e], x) => d = e
=============================================================================
