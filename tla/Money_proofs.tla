--------------------------- MODULE Money_proofs ---------------------------
(***************************************************************************)
(* Proofs about Money: whatever requests interleave, fail or deadlock,     *)
(* every row keeps its type, every wallet and payment account is what its  *)
(* history says, no wallet is overdrawn, and the handlers implement        *)
(* MoneyAtomic.                                                            *)
(*                                                                         *)
(* The first invariant says of the versions that open transactions have    *)
(* written what the properties say of the committed rows, because commit   *)
(* publishes them, and what a request's position says about its operands.  *)
(*                                                                         *)
(* The second describes an open transaction by its position: which rows it *)
(* has written (and keeps locked), what each of them will become, as a     *)
(* function of the committed rows alone, and what its guards have          *)
(* established about them.  Locks keep the description true while others   *)
(* commit; a commit is then one whole request, and everything else leaves  *)
(* the tables alone.  What MoneyAtomic promises therefore holds in Money.  *)
(***************************************************************************)
EXTENDS Money, MoneyAtomic, FiniteSetTheorems, TLAPS

-----------------------------------------------------------------------------
(* What the helpers that move a wallet or a payment account return: a row of
   the same type that is still explained by its own history *)

\* A moved wallet is a wallet row.
LEMMA MoveWalletType ==
  ASSUME NEW wallet \in WalletRow, NEW c \in Items \cup Keys, NEW delta \in Int
  PROVE  MoveWallet(wallet, c, delta) \in WalletRow
BY DEF MoveWallet, WalletRow, WalletEntry

\* A moved payment account is an account row.
LEMMA ApplyMovementType ==
  ASSUME NEW account \in AccountRow, NEW type \in CreditTypes \cup DebitTypes,
         NEW amount \in Amounts, NEW item \in Items \cup {None}
  PROVE  ApplyMovement(account, type, amount, item) \in AccountRow
<1>1. amount \in Int
  BY AmountsArePositive
<1> DEFINE after == IF type \in CreditTypes THEN account.balance + amount ELSE account.balance - amount
           entry == [type |-> type, amount |-> amount, before |-> account.balance,
                     after |-> after, item |-> item]
<1>2. account.balance \in Int /\ account.totalIn \in Int /\ account.totalOut \in Int
      /\ account.entries \in Seq(AccountEntry)
  BY DEF AccountRow
<1>3. after \in Int
  BY <1>1, <1>2
<1>4. entry \in AccountEntry
  BY <1>2, <1>3 DEF AccountEntry
<1>5. Append(account.entries, entry) \in Seq(AccountEntry)
  BY <1>2, <1>4
<1> QED
  BY <1>1, <1>2, <1>3, <1>5 DEF ApplyMovement, AccountRow

\* A moved wallet is its history still, and a debit that the conditional UPDATE
\* lets through leaves nothing below zero.
LEMMA MoveWalletSound ==
  ASSUME NEW wallet \in WalletRow, NEW c \in Items \cup Keys, NEW delta \in Int,
         IsHistory(wallet), NeverBelowZero(wallet), CanMove(wallet, delta)
  PROVE  LET moved == MoveWallet(wallet, c, delta)
         IN  moved \in WalletRow /\ IsHistory(moved) /\ NeverBelowZero(moved)
<1> DEFINE h == wallet.history
           after == wallet.balance + delta
           entry == [cause |-> c, delta |-> delta, after |-> after]
           moved == MoveWallet(wallet, c, delta)
<1>1. h \in Seq(WalletEntry) /\ wallet.balance \in Int /\ after \in Int /\ entry \in WalletEntry
  BY DEF WalletRow, WalletEntry
<1>2. moved.balance = after /\ moved.history = Append(h, entry)
  BY DEF MoveWallet
<1>3. /\ Len(Append(h, entry)) = Len(h) + 1 /\ Len(h) \in Nat
      /\ \A n \in 1..Len(h) : Append(h, entry)[n] = h[n]
      /\ Append(h, entry)[Len(h) + 1] = entry
  BY <1>1
<1>4. \A n \in 0..Len(h) : BalanceAfter(Append(h, entry), n) = BalanceAfter(h, n)
  BY <1>3 DEF BalanceAfter
<1>5. BalanceAfter(Append(h, entry), Len(h) + 1) = after
  BY <1>3 DEF BalanceAfter
<1>6. wallet.balance = BalanceAfter(h, Len(h))
  BY DEF IsHistory
<1>7. IsHistory(moved)
  <2>1. ASSUME NEW n \in 1..(Len(h) + 1)
        PROVE  Append(h, entry)[n].after = BalanceAfter(Append(h, entry), n - 1) + Append(h, entry)[n].delta
    <3>1. CASE n = Len(h) + 1
      BY <1>1, <1>3, <1>4, <1>6, <3>1
    <3>2. CASE n \in 1..Len(h)
      <4>1. h[n].after = BalanceAfter(h, n - 1) + h[n].delta
        BY <3>2 DEF IsHistory
      <4>2. BalanceAfter(Append(h, entry), n - 1) = BalanceAfter(h, n - 1)
        BY <1>3, <1>4, <3>2
      <4> QED
        BY <1>3, <3>2, <4>1, <4>2
    <3> QED
      BY <1>3, <3>1, <3>2
  <2> QED
    BY <1>2, <1>3, <1>5, <2>1 DEF IsHistory
<1>8. NeverBelowZero(moved)
  <2>1. wallet.balance >= 0
    BY <1>1, <1>3, <1>6 DEF BalanceAfter, NeverBelowZero
  <2>2. after >= 0
    BY <1>1, <2>1 DEF CanMove
  <2> QED
    BY <1>2, <1>3, <2>2 DEF NeverBelowZero
<1> QED
  BY <1>7, <1>8, MoveWalletType

\* A moved payment account is its ledger still.
LEMMA ApplyMovementSound ==
  ASSUME NEW account \in AccountRow, NEW type \in CreditTypes \cup DebitTypes,
         NEW amount \in Amounts, NEW item \in Items \cup {None}, IsItsLedger(account)
  PROVE  LET moved == ApplyMovement(account, type, amount, item)
         IN  moved \in AccountRow /\ IsItsLedger(moved)
<1> DEFINE e == account.entries
           after == IF type \in CreditTypes THEN account.balance + amount ELSE account.balance - amount
           entry == [type |-> type, amount |-> amount, before |-> account.balance,
                     after |-> after, item |-> item]
           m == Append(e, entry)
           moved == ApplyMovement(account, type, amount, item)
<1>1. /\ amount \in Int /\ e \in Seq(AccountEntry) /\ account.balance \in Int
      /\ account.totalIn \in Int /\ account.totalOut \in Int /\ after \in Int
  BY AmountsArePositive DEF AccountRow
<1>2. entry \in AccountEntry
  BY <1>1 DEF AccountEntry
<1>3. /\ Len(m) = Len(e) + 1 /\ Len(e) \in Nat
      /\ \A n \in 1..Len(e) : m[n] = e[n]
      /\ m[Len(e) + 1] = entry
  BY <1>1, <1>2
<1>4. \A n \in 0..Len(e) : BalanceAfter(m, n) = BalanceAfter(e, n)
  BY <1>3 DEF BalanceAfter
<1>5. BalanceAfter(m, Len(e) + 1) = after
  BY <1>3 DEF BalanceAfter
<1>6. account.balance = BalanceAfter(e, Len(e)) /\ account.balance = account.totalIn - account.totalOut
  BY DEF IsItsLedger
<1>7. moved.entries = m /\ moved.balance = after
  BY DEF ApplyMovement
<1>8. moved.balance = moved.totalIn - moved.totalOut
  BY <1>1, <1>6 DEF ApplyMovement
<1>9. ASSUME NEW n \in 1..(Len(e) + 1)
      PROVE  /\ m[n].before = BalanceAfter(m, n - 1)
             /\ m[n].after = IF m[n].type \in CreditTypes THEN m[n].before + m[n].amount
                                                         ELSE m[n].before - m[n].amount
  <2>1. CASE n = Len(e) + 1
    <3>1. m[n].before = account.balance /\ m[n].after = after /\ m[n].type = type /\ m[n].amount = amount
      BY <1>3, <2>1
    <3>2. n - 1 = Len(e) /\ Len(e) \in 0..Len(e)
      BY <1>3, <2>1
    <3>3. BalanceAfter(m, n - 1) = account.balance
      <4> HIDE DEF m, e
      <4> QED
        BY <1>4, <1>6, <3>2
    <3> HIDE DEF m
    <3> QED
      BY <3>1, <3>3
  <2>2. CASE n \in 1..Len(e)
    <3>1. /\ e[n].before = BalanceAfter(e, n - 1)
          /\ e[n].after = IF e[n].type \in CreditTypes THEN e[n].before + e[n].amount
                                                      ELSE e[n].before - e[n].amount
      BY <2>2 DEF IsItsLedger
    <3>2. BalanceAfter(m, n - 1) = BalanceAfter(e, n - 1)
      BY <1>3, <1>4, <2>2
    <3> QED
      BY <1>3, <2>2, <3>1, <3>2
  <2> QED
    BY <1>3, <2>1, <2>2
<1>10. IsItsLedger(moved)
  BY <1>3, <1>5, <1>7, <1>8, <1>9 DEF IsItsLedger
<1> QED
  BY <1>10, ApplyMovementType

\* The rows TablesInit starts from.
LEMMA NewRowsSound ==
  /\ NewWallet \in WalletRow /\ IsHistory(NewWallet) /\ NeverBelowZero(NewWallet)
  /\ NewAccount \in AccountRow /\ IsItsLedger(NewAccount)
BY DEF NewWallet, NewAccount, WalletRow, AccountRow, IsHistory, NeverBelowZero, IsItsLedger, BalanceAfter

USE DEF Rows, Items

-----------------------------------------------------------------------------
(* The tables keep their types *)

LEMMA TypesInit == TablesInit => TablesTypeOK
<1>1. NewWallet \in WalletRow /\ NewAccount \in AccountRow
  BY DEF NewWallet, NewAccount, WalletRow, AccountRow
<1> QED
  BY <1>1, RowsAreDistinct DEF TablesInit, TablesTypeOK

\* No request stores a row of another shape.
LEMMA TypesStep == TablesTypeOK /\ [AtomicNext]_db => TablesTypeOK'
<1> SUFFICES ASSUME TablesTypeOK, AtomicNext PROVE TablesTypeOK'
  BY DEF TablesTypeOK
<1> USE DEF TablesTypeOK
<1>1. ASSUME NEW d \in Deposits, NEW u \in Users, NEW n \in Amounts, NEW x \in References,
             CreateDeposit(d, u, n, x)
      PROVE  TablesTypeOK'
  <2>1. [status |-> "PENDING", user |-> u, amount |-> n, reference |-> x, link |-> None,
         before |-> None, after |-> None] \in DepositRow
    BY DEF DepositRow, Status, Link
  <2> QED
    BY <1>1, <2>1, RowsAreDistinct DEF CreateDeposit
<1>2. ASSUME NEW d \in Deposits, NEW row \in DepositRow, NEW a \in Link, CreditDeposit(d, row, a)
      PROVE  TablesTypeOK'
  <2>1. row.user \in Users /\ row.amount \in Amounts /\ row.amount \in Int
    BY AmountsArePositive DEF DepositRow
  <2>2. MoveWallet(db[row.user], d, row.amount) \in WalletRow
    BY <2>1, MoveWalletType
  <2>3. a \in Accounts => ApplyMovement(db[a], "DEPOSIT_IN", row.amount, d) \in AccountRow
    BY <2>1, ApplyMovementType DEF CreditTypes
  <2>4. db[row.user].balance \in Int /\ MoveWallet(db[row.user], d, row.amount).balance \in Int
    BY <2>1, <2>2 DEF WalletRow
  <2>5. [row EXCEPT !.status = "APPROVED", !.link = a, !.before = db[row.user].balance,
                    !.after = MoveWallet(db[row.user], d, row.amount).balance] \in DepositRow
    BY <2>4 DEF DepositRow, Status
  <2> QED
    BY <1>2, <2>1, <2>2, <2>3, <2>5, RowsAreDistinct DEF CreditDeposit, Link
<1>3. ASSUME NEW d \in Deposits, NEW u \in Users, NEW n \in Amounts, NEW x \in References,
             NEW a \in Accounts, CreateManualDeposit(d, u, n, x, a)
      PROVE  TablesTypeOK'
  <2>1. [status |-> "APPROVED", user |-> u, amount |-> n, reference |-> x, link |-> None,
         before |-> None, after |-> None] \in DepositRow
    BY DEF DepositRow, Status, Link
  <2> QED
    BY <1>2, <1>3, <2>1 DEF CreateManualDeposit, Link
<1>4. ASSUME NEW d \in Deposits, NEW a \in Link, ApproveDeposit(d, a)
      PROVE  TablesTypeOK'
  BY <1>2, <1>4 DEF ApproveDeposit
<1>5. ASSUME NEW w \in Withdrawals, NEW u \in Users, NEW n \in Amounts, CreateWithdrawal(w, u, n)
      PROVE  TablesTypeOK'
  <2>1. [status |-> "PENDING", user |-> u, amount |-> n, link |-> None] \in WithdrawalRow
    BY DEF WithdrawalRow, Status, Link
  <2> QED
    BY <1>5, <2>1, RowsAreDistinct DEF CreateWithdrawal
<1>6. ASSUME NEW w \in Withdrawals, ApproveWithdrawal(w)
      PROVE  TablesTypeOK'
  <2>1. db[w] \in WithdrawalRow /\ db[w].user \in Users /\ -db[w].amount \in Int
    BY <1>6, AmountsArePositive DEF ApproveWithdrawal, WithdrawalRow
  <2>2. MoveWallet(db[db[w].user], w, -db[w].amount) \in WalletRow
    BY <2>1, MoveWalletType
  <2>3. [db[w] EXCEPT !.status = "APPROVED"] \in WithdrawalRow
    BY <2>1 DEF WithdrawalRow, Status
  <2> QED
    BY <1>6, <2>1, <2>2, <2>3, RowsAreDistinct DEF ApproveWithdrawal
<1>7. ASSUME NEW i \in Items, Reject(i)
      PROVE  TablesTypeOK'
  <2>1. CASE i \in Deposits
    <3>1. [db[i] EXCEPT !.status = "REJECTED"] \in DepositRow
      BY <1>7, <2>1 DEF Reject, DepositRow, Status
    <3> QED
      BY <1>7, <2>1, <3>1, RowsAreDistinct DEF Reject
  <2>2. CASE i \in Withdrawals
    <3>1. [db[i] EXCEPT !.status = "REJECTED"] \in WithdrawalRow
      BY <1>7, <2>2 DEF Reject, WithdrawalRow, Status
    <3> QED
      BY <1>7, <2>2, <3>1, RowsAreDistinct DEF Reject
  <2> QED
    BY <2>1, <2>2
<1>8. ASSUME NEW i \in Items, NEW a \in Link, Relink(i, a)
      PROVE  TablesTypeOK'
  <2>1. db[i].amount \in Amounts /\ db[i].link \in Link
    BY <1>8 DEF Relink, DepositRow, WithdrawalRow
  <2>2. \A b \in Accounts : /\ ApplyMovement(db[b], ReversalType(i), db[i].amount, i) \in AccountRow
                            /\ ApplyMovement(db[b], ForwardType(i), db[i].amount, i) \in AccountRow
    BY <2>1, ApplyMovementType DEF ReversalType, ForwardType, CreditTypes, DebitTypes
  <2>3. /\ i \in Deposits => [db[i] EXCEPT !.link = a] \in DepositRow
        /\ i \in Withdrawals => [db[i] EXCEPT !.link = a] \in WithdrawalRow
    BY <1>8 DEF Relink, DepositRow, WithdrawalRow
  <2> QED
    BY <1>8, <2>1, <2>2, <2>3, RowsAreDistinct DEF Relink, Link
<1>9. ASSUME NEW k \in Keys, NEW u \in Users, NEW delta \in Int, Adjust(k, u, delta)
      PROVE  TablesTypeOK'
  <2>1. MoveWallet(db[u], k, delta) \in WalletRow
    BY MoveWalletType
  <2>2. [user |-> u, delta |-> delta, before |-> db[u].balance, after |-> db[u].balance + delta]
           \in AdjustmentRow
    BY DEF AdjustmentRow, WalletRow
  <2> QED
    BY <1>9, <2>1, <2>2, RowsAreDistinct DEF Adjust
<1>10. ASSUME NEW a \in Accounts, NEW type \in ManualTypes, NEW n \in Amounts,
              RecordManualEntry(a, type, n)
       PROVE  TablesTypeOK'
  <2>1. ApplyMovement(db[a], type, n, None) \in AccountRow
    BY ApplyMovementType DEF ManualTypes
  <2> QED
    BY <1>10, <2>1, RowsAreDistinct DEF RecordManualEntry
<1> QED
  BY <1>1, <1>3, <1>4, <1>5, <1>6, <1>7, <1>8, <1>9, <1>10, AmountsArePositive DEF AtomicNext

\* Every row of every table keeps the type its table gives it.
THEOREM AtomicTypes == AtomicSpec => []TablesTypeOK
BY TypesInit, TypesStep, PTL DEF AtomicSpec

-----------------------------------------------------------------------------
(* Wallets: every decision is paid once *)

\* A row that entitles its user to a movement of the wallet.
Settled(c) == db[c] # Absent /\ (c \in Items => db[c].status = "APPROVED")

Paid == TablesTypeOK /\ WalletIsItsHistory /\ NeverOverdrawn /\ PaidExactlyOnce /\ SnapshotsMatchHistory

\* Row c stays unsettled, or stays settled for the same user, amount and balances.
SameClaim(c) ==
    \/ ~Settled(c) /\ ~Settled(c)'
    \/ /\ Settled(c) /\ Settled(c)' /\ db'[c].user = db[c].user
       /\ c \in Items => db'[c].amount = db[c].amount
       /\ c \in Keys => db'[c].delta = db[c].delta
       /\ c \in Deposits \cup Keys => db'[c].before = db[c].before /\ db'[c].after = db[c].after

\* Appending leaves the rows and the balances that are there.
LEMMA AppendedHistory ==
  ASSUME NEW wallet \in WalletRow, NEW c \in Items \cup Keys, NEW delta \in Int
  PROVE  LET h == wallet.history
             moved == MoveWallet(wallet, c, delta)
         IN  /\ Len(h) \in Nat /\ Len(moved.history) = Len(h) + 1
             /\ \A n \in 1..Len(h) : moved.history[n] = h[n]
             /\ \A n \in 0..Len(h) : BalanceAfter(moved.history, n) = BalanceAfter(h, n)
             /\ moved.history[Len(h) + 1] = [cause |-> c, delta |-> delta, after |-> wallet.balance + delta]
<1> DEFINE h == wallet.history
           entry == [cause |-> c, delta |-> delta, after |-> wallet.balance + delta]
<1>1. h \in Seq(WalletEntry) /\ entry \in WalletEntry
  BY DEF WalletRow, WalletEntry
<1>2. MoveWallet(wallet, c, delta).history = Append(h, entry)
  BY DEF MoveWallet
<1>3. /\ Len(h) \in Nat /\ Len(Append(h, entry)) = Len(h) + 1
      /\ \A n \in 1..Len(h) : Append(h, entry)[n] = h[n]
      /\ Append(h, entry)[Len(h) + 1] = entry
  BY <1>1
<1>4. \A n \in 0..Len(h) : BalanceAfter(Append(h, entry), n) = BalanceAfter(h, n)
  BY <1>3 DEF BalanceAfter
<1> QED
  BY <1>2, <1>3, <1>4

\* What PaidExactlyOnce asks of the row a movement was made for.
Entitles(row, c, u, delta) ==
    /\ row # Absent
    /\ row.user = u
    /\ IF c \in Items THEN row.status = "APPROVED" /\ delta = WalletDelta(c, row)
                      ELSE delta = row.delta

\* The balances around a movement are on the row it was made for.
Recorded(row, c, history, n) ==
    c \in Deposits \cup Keys => row.before = BalanceAfter(history, n - 1) /\ row.after = history[n].after

\* What Paid says of one movement.
LEMMA MovementPaid ==
  ASSUME Paid, NEW u \in Users, NEW n \in 1..Len(db[u].history),
         NEW c, db[u].history[n].cause = c
  PROVE  /\ c \in Items \cup Keys /\ Settled(c)
         /\ Entitles(db[c], c, u, db[u].history[n].delta)
         /\ Recorded(db[c], c, db[u].history, n)
         /\ \A m \in 1..Len(db[u].history) : db[u].history[m].cause = c => m = n
<1>1. db[u].history \in Seq(WalletEntry)
  BY DEF Paid, TablesTypeOK, WalletRow
<1>2. db[u].history[n] \in WalletEntry
  BY <1>1
<1>3. c \in Items \cup Keys
  BY <1>2 DEF WalletEntry
<1>4. /\ Explains(c, u, db[u].history[n].delta)
      /\ \A m \in 1..Len(db[u].history) : db[u].history[m].cause = c => m = n
  BY DEF Paid, PaidExactlyOnce
<1>5. Recorded(db[c], c, db[u].history, n)
  BY DEF Paid, SnapshotsMatchHistory, Recorded
<1> QED
  BY <1>3, <1>4, <1>5 DEF Explains, Entitles, Settled

\* The wallet movement of a settled row is in its user's history.
LEMMA SettledPaid ==
  ASSUME Paid, NEW c \in Items \cup Keys, Settled(c)
  PROVE  /\ db[c].user \in Users
         /\ \E n \in 1..Len(db[db[c].user].history) : db[db[c].user].history[n].cause = c
<1>1. db[c].user \in Users
  BY DEF Paid, TablesTypeOK, Settled, DepositRow, WithdrawalRow, AdjustmentRow
<1> QED
  BY <1>1 DEF Paid, PaidExactlyOnce, Settled

\* Paid from its parts, movement by movement.
LEMMA PaidFromMovements ==
  ASSUME TablesTypeOK', WalletIsItsHistory', NeverOverdrawn',
         \A u \in Users : \A n \in 1..Len(db'[u].history) :
            LET c == db'[u].history[n].cause
            IN  /\ Entitles(db'[c], c, u, db'[u].history[n].delta)
                /\ Recorded(db'[c], c, db'[u].history, n)
                /\ \A m \in 1..Len(db'[u].history) : db'[u].history[m].cause = c => m = n,
         \A c \in Items \cup Keys : db'[c] # Absent /\ (c \in Items => db'[c].status = "APPROVED")
            => \E n \in 1..Len(db'[db'[c].user].history) : db'[db'[c].user].history[n].cause = c
  PROVE  Paid'
<1>1. PaidExactlyOnce'
  BY DEF PaidExactlyOnce, Explains, Entitles
<1>2. SnapshotsMatchHistory'
  BY DEF SnapshotsMatchHistory, Recorded
<1> QED
  BY <1>1, <1>2 DEF Paid

\* A request that settles nothing and moves no wallet.
LEMMA NoPaymentKeeps ==
  ASSUME Paid, TablesTypeOK', \A u \in Users : db'[u] = db[u], \A c \in Items \cup Keys : SameClaim(c)
  PROVE  Paid'
<1>1. WalletIsItsHistory' /\ NeverOverdrawn'
  BY DEF Paid, WalletIsItsHistory, NeverOverdrawn
<1>2. ASSUME NEW u \in Users, NEW n \in 1..Len(db[u].history), NEW c, db[u].history[n].cause = c
      PROVE  /\ Entitles(db'[c], c, u, db[u].history[n].delta)
             /\ Recorded(db'[c], c, db[u].history, n)
             /\ \A m \in 1..Len(db[u].history) : db[u].history[m].cause = c => m = n
  <2>1. /\ c \in Items \cup Keys /\ Settled(c)
        /\ Entitles(db[c], c, u, db[u].history[n].delta)
        /\ Recorded(db[c], c, db[u].history, n)
        /\ \A m \in 1..Len(db[u].history) : db[u].history[m].cause = c => m = n
    BY <1>2, MovementPaid
  <2>2. SameClaim(c) /\ Settled(c)'
    BY <2>1 DEF SameClaim
  <2>3. Entitles(db'[c], c, u, db[u].history[n].delta)
    BY <2>1, <2>2, RowsAreDistinct DEF Entitles, SameClaim, Settled, WalletDelta
  <2>4. Recorded(db'[c], c, db[u].history, n)
    BY <2>1, <2>2 DEF Recorded, SameClaim
  <2> QED
    BY <2>1, <2>3, <2>4
<1>3. ASSUME NEW c \in Items \cup Keys, Settled(c)'
      PROVE  \E n \in 1..Len(db'[db'[c].user].history) : db'[db'[c].user].history[n].cause = c
  <2>1. Settled(c) /\ db'[c].user = db[c].user
    BY <1>3 DEF SameClaim
  <2> QED
    BY <2>1, SettledPaid
<1> QED
  BY <1>1, <1>2, <1>3, PaidFromMovements DEF Settled

\* A request that settles c and moves the wallet of u for it.
LEMMA PaymentKeeps ==
  ASSUME Paid, TablesTypeOK', NEW c \in Items \cup Keys, NEW u \in Users, NEW delta \in Int,
         ~Settled(c), Entitles(db'[c], c, u, delta), CanMove(db[u], delta),
         db'[u] = MoveWallet(db[u], c, delta),
         c \in Deposits \cup Keys => db'[c].before = db[u].balance /\ db'[c].after = db[u].balance + delta,
         \A v \in Users \ {u} : db'[v] = db[v],
         \A e \in (Items \cup Keys) \ {c} : db'[e] = db[e]
  PROVE  Paid'
<1> DEFINE h == db[u].history
           moved == MoveWallet(db[u], c, delta)
           latest == [cause |-> c, delta |-> delta, after |-> db[u].balance + delta]
<1>1. db[u] \in WalletRow /\ IsHistory(db[u]) /\ NeverBelowZero(db[u])
  BY DEF Paid, TablesTypeOK, WalletIsItsHistory, NeverOverdrawn
<1>2. /\ Len(h) \in Nat /\ Len(moved.history) = Len(h) + 1
      /\ \A n \in 1..Len(h) : moved.history[n] = h[n]
      /\ \A n \in 0..Len(h) : BalanceAfter(moved.history, n) = BalanceAfter(h, n)
      /\ moved.history[Len(h) + 1] = latest
  BY <1>1, AppendedHistory
<1>3. db[u].balance = BalanceAfter(h, Len(h))
  BY <1>1 DEF IsHistory
<1>4. WalletIsItsHistory' /\ NeverOverdrawn'
  BY <1>1, MoveWalletSound DEF Paid, WalletIsItsHistory, NeverOverdrawn
<1> HIDE DEF moved
<1>5. db'[u] = moved
  BY DEF moved
<1>6. ASSUME NEW v \in Users, NEW n \in 1..Len(db[v].history), NEW e, db[v].history[n].cause = e
      PROVE  e # c /\ db'[e] = db[e]
  BY <1>6, MovementPaid
<1>7. ASSUME NEW v \in Users, NEW n \in 1..Len(db'[v].history)
      PROVE  \/ /\ n \in 1..Len(db[v].history) /\ db'[v].history[n] = db[v].history[n]
                /\ BalanceAfter(db'[v].history, n - 1) = BalanceAfter(db[v].history, n - 1)
             \/ /\ v = u /\ n = Len(h) + 1 /\ db'[v].history[n] = latest
                /\ BalanceAfter(db'[v].history, n - 1) = db[u].balance
  <2> HIDE DEF latest
  <2>1. CASE v # u
    BY <1>7, <2>1
  <2>2. CASE v = u /\ n \in 1..Len(h)
    <3>1. n - 1 \in 0..Len(h)
      BY <1>2, <2>2
    <3> QED
      BY <1>2, <1>5, <2>2, <3>1
  <2>3. CASE v = u /\ n \notin 1..Len(h)
    <3>1. n = Len(h) + 1 /\ n - 1 = Len(h) /\ Len(h) \in 0..Len(h)
      BY <1>2, <1>5, <1>7, <2>3
    <3> QED
      BY <1>2, <1>3, <1>5, <2>3, <3>1
  <2> QED
    BY <2>1, <2>2, <2>3
<1>8. ASSUME NEW v \in Users, NEW n \in 1..Len(db'[v].history), NEW e, db'[v].history[n].cause = e
      PROVE  /\ Entitles(db'[e], e, v, db'[v].history[n].delta)
             /\ Recorded(db'[e], e, db'[v].history, n)
             /\ \A m \in 1..Len(db'[v].history) : db'[v].history[m].cause = e => m = n
  <2>1. CASE n \in 1..Len(db[v].history) /\ db'[v].history[n] = db[v].history[n]
             /\ BalanceAfter(db'[v].history, n - 1) = BalanceAfter(db[v].history, n - 1)
    <3>1. /\ Entitles(db[e], e, v, db[v].history[n].delta) /\ Recorded(db[e], e, db[v].history, n)
          /\ \A m \in 1..Len(db[v].history) : db[v].history[m].cause = e => m = n
      BY <1>8, <2>1, MovementPaid
    <3>2. e # c /\ db'[e] = db[e]
      BY <1>6, <1>8, <2>1
    <3>3. ASSUME NEW m \in 1..Len(db'[v].history), db'[v].history[m].cause = e
          PROVE  m = n
      <4>1. latest.cause = c
        OBVIOUS
      <4> HIDE DEF latest
      <4>2. m \in 1..Len(db[v].history) /\ db'[v].history[m] = db[v].history[m]
        BY <1>7, <3>2, <3>3, <4>1
      <4> QED
        BY <3>1, <3>3, <4>2
    <3>4. Recorded(db'[e], e, db'[v].history, n)
      BY <2>1, <3>1, <3>2 DEF Recorded
    <3> QED
      BY <2>1, <3>1, <3>2, <3>3, <3>4
  <2>2. CASE /\ v = u /\ n = Len(h) + 1 /\ db'[v].history[n] = latest
             /\ BalanceAfter(db'[v].history, n - 1) = db[u].balance
    <3>1. latest.cause = c /\ latest.delta = delta /\ latest.after = db[u].balance + delta
      OBVIOUS
    <3> HIDE DEF latest
    <3>2. e = c
      BY <1>8, <2>2, <3>1
    <3>3. ASSUME NEW m \in 1..Len(db'[v].history), db'[v].history[m].cause = c
          PROVE  m = n
      BY <1>6, <1>7, <2>2, <3>3
    <3>4. Recorded(db'[c], c, db'[v].history, n)
      BY <2>2, <3>1 DEF Recorded
    <3> QED
      BY <2>2, <3>1, <3>2, <3>3, <3>4
  <2> QED
    BY <1>7, <2>1, <2>2
<1>9. ASSUME NEW e \in Items \cup Keys, Settled(e)'
      PROVE  \E n \in 1..Len(db'[db'[e].user].history) : db'[db'[e].user].history[n].cause = e
  <2>1. CASE e = c
    <3>1. db'[c].user = u
      BY DEF Entitles
    <3>2. Len(h) + 1 \in 1..Len(moved.history) /\ moved.history[Len(h) + 1].cause = c
      BY <1>2
    <3> QED
      BY <1>5, <2>1, <3>1, <3>2
  <2>2. CASE e # c
    <3>1. db'[e] = db[e] /\ Settled(e)
      BY <1>9, <2>2 DEF Settled
    <3>2. PICK n \in 1..Len(db[db[e].user].history) : db[db[e].user].history[n].cause = e
      BY <3>1, SettledPaid
    <3>3. db[e].user \in Users
      BY <3>1, SettledPaid
    <3>4. n \in 1..Len(db'[db[e].user].history) /\ db'[db[e].user].history[n] = db[db[e].user].history[n]
      <4>1. CASE db[e].user = u
        BY <1>2, <1>5, <4>1
      <4>2. CASE db[e].user # u
        BY <3>3, <4>2
      <4> QED
        BY <4>1, <4>2
    <3> QED
      BY <3>1, <3>2, <3>4
  <2> QED
    BY <2>1, <2>2
<1> QED
  BY <1>4, <1>8, <1>9, PaidFromMovements DEF Settled

-----------------------------------------------------------------------------
(* Payment accounts: every link stands on its account once *)

\* How many rows of an account's ledger name an item and a type.
Naming(ledger, i, type) == {n \in 1..Len(ledger) : ledger[n].item = i /\ ledger[n].type = type}
Count(account, i, type) == Cardinality(Naming(account.entries, i, type))

\* What LinkMatchesLedger says of one item and one account.
Standing(row, account, i, a) ==
    LET linked == row # Absent /\ row.link = a
    IN  /\ Count(account, i, ForwardType(i)) = Count(account, i, ReversalType(i)) + (IF linked THEN 1 ELSE 0)
        /\ \A n \in 1..Len(account.entries) :
              account.entries[n].item = i => row # Absent /\ account.entries[n].amount = row.amount

\* An undecided item has no account, so approving it cannot post it twice.
PendingUnlinked == \A i \in Items : db[i] # Absent /\ db[i].status = "PENDING" => db[i].link = None

Booked == TablesTypeOK /\ LinkMatchesLedger /\ PendingUnlinked

LEMMA LinksAreStandings == LinkMatchesLedger <=> \A i \in Items, a \in Accounts : Standing(db[i], db[a], i, a)
BY DEF LinkMatchesLedger, Standing, Postings, Naming, Count

\* A movement appends one row to the account's ledger ...
LEMMA AppendedLedger ==
  ASSUME NEW account \in AccountRow, NEW type \in CreditTypes \cup DebitTypes,
         NEW amount \in Amounts, NEW item \in Items \cup {None}, NEW moved,
         moved = ApplyMovement(account, type, amount, item)
  PROVE  LET e == account.entries
             m == moved.entries
         IN  /\ Len(e) \in Nat /\ Len(m) = Len(e) + 1
             /\ \A n \in 1..Len(e) : m[n] = e[n]
             /\ m[Len(e) + 1].item = item /\ m[Len(e) + 1].type = type /\ m[Len(e) + 1].amount = amount
             /\ \A n \in 1..Len(m) : \/ n \in 1..Len(e) /\ m[n] = e[n]
                                     \/ m[n].item = item /\ m[n].amount = amount
<1> DEFINE e == account.entries
           after == IF type \in CreditTypes THEN account.balance + amount ELSE account.balance - amount
           entry == [type |-> type, amount |-> amount, before |-> account.balance,
                     after |-> after, item |-> item]
           m == Append(e, entry)
<1>1. e \in Seq(AccountEntry) /\ account.balance \in Int /\ amount \in Int
  BY AmountsArePositive DEF AccountRow
<1>2. entry \in AccountEntry
  <2>1. after \in Int
    BY <1>1
  <2> QED
    BY <1>1, <2>1 DEF AccountEntry
<1>3. moved.entries = m
  BY DEF ApplyMovement
<1>4. entry.item = item /\ entry.type = type /\ entry.amount = amount
  OBVIOUS
<1> HIDE DEF entry
<1>5. /\ Len(m) = Len(e) + 1 /\ Len(e) \in Nat
      /\ \A n \in 1..Len(e) : m[n] = e[n]
      /\ m[Len(e) + 1] = entry
  BY <1>1, <1>2
<1> HIDE DEF m, e
<1>6. ASSUME NEW n \in 1..Len(m)
      PROVE  \/ n \in 1..Len(e) /\ m[n] = e[n]
             \/ m[n].item = item /\ m[n].amount = amount
  <2>1. CASE n \in 1..Len(e)
    BY <1>5, <2>1
  <2>2. CASE n = Len(e) + 1
    BY <1>4, <1>5, <2>2
  <2> QED
    BY <1>5, <2>1, <2>2
<1> QED
  BY <1>3, <1>4, <1>5, <1>6 DEF e

\* ... which is one posting more for the item and type it names and none for others.
LEMMA AppendPosting ==
  ASSUME NEW account \in AccountRow, NEW type \in CreditTypes \cup DebitTypes,
         NEW amount \in Amounts, NEW item \in Items \cup {None}, NEW i, NEW t
  PROVE  /\ Count(account, i, t) \in Nat
         /\ item = i /\ type = t => Count(ApplyMovement(account, type, amount, item), i, t) = Count(account, i, t) + 1
         /\ item # i \/ type # t => Count(ApplyMovement(account, type, amount, item), i, t) = Count(account, i, t)
<1> DEFINE e == account.entries
           m == ApplyMovement(account, type, amount, item).entries
           Of(x) == Naming(x, i, t)
<1>1. /\ Len(e) \in Nat /\ Len(m) = Len(e) + 1
      /\ \A n \in 1..Len(e) : m[n] = e[n]
      /\ m[Len(e) + 1].item = item /\ m[Len(e) + 1].type = type
  BY AppendedLedger
<1> HIDE DEF m, e
<1>2. IsFiniteSet(Of(e)) /\ Len(e) + 1 \notin Of(e)
  <2>1. IsFiniteSet(1..Len(e))
    <3>1. Len(e) \in Int
      BY <1>1
    <3> QED
      BY <3>1, FS_Interval
  <2>2. Of(e) \subseteq 1..Len(e)
    BY DEF Naming
  <2> QED
    BY <1>1, <2>1, <2>2, FS_Subset
<1>3. Of(m) = IF item = i /\ type = t THEN Of(e) \cup {Len(e) + 1} ELSE Of(e)
  <2>1. ASSUME NEW n PROVE n \in Of(m) <=> n \in Of(e) \/ (n = Len(e) + 1 /\ item = i /\ type = t)
    <3>1. CASE n \in 1..Len(e)
      <4>1. n \in 1..Len(m) /\ m[n] = e[n] /\ n # Len(e) + 1
        BY <1>1, <3>1
      <4> QED
        BY <3>1, <4>1 DEF Naming
    <3>2. CASE n = Len(e) + 1
      <4>1. n \in 1..Len(m) /\ n \notin 1..Len(e)
        BY <1>1, <3>2
      <4> QED
        BY <1>1, <3>2, <4>1 DEF Naming
    <3>3. CASE n \notin 1..Len(e) /\ n # Len(e) + 1
      <4>1. n \notin 1..Len(m)
        BY <1>1, <3>3
      <4> QED
        BY <3>3, <4>1 DEF Naming
    <3> QED
      BY <3>1, <3>2, <3>3
  <2> HIDE DEF Of
  <2> QED
    BY <2>1
<1>4. Cardinality(Of(e)) \in Nat
  BY <1>2, FS_CardinalityType
<1>5. Cardinality(Of(m)) = Cardinality(Of(e)) + (IF item = i /\ type = t THEN 1 ELSE 0)
  <2> HIDE DEF Of
  <2>1. Cardinality(Of(e) \cup {Len(e) + 1}) = Cardinality(Of(e)) + 1
    BY <1>2, FS_AddElement
  <2> QED
    BY <1>3, <1>4, <2>1
<1> QED
  BY <1>4, <1>5 DEF e, m, Count

\* A ledger row for another item, or for none, leaves item i standing as it did.
LEMMA OtherStanding ==
  ASSUME NEW account \in AccountRow, NEW type \in CreditTypes \cup DebitTypes, NEW amount \in Amounts,
         NEW item \in Items \cup {None}, NEW i \in Items, item # i, NEW row, NEW a, Standing(row, account, i, a)
  PROVE  Standing(row, ApplyMovement(account, type, amount, item), i, a)
<1> DEFINE moved == ApplyMovement(account, type, amount, item)
<1>1. ASSUME NEW t PROVE Count(moved, i, t) = Count(account, i, t)
  BY AppendPosting
<1>2. \A n \in 1..Len(moved.entries) : \/ n \in 1..Len(account.entries) /\ moved.entries[n] = account.entries[n]
                                       \/ moved.entries[n].item = item
  BY AppendedLedger
<1> HIDE DEF moved
<1> QED
  BY <1>1, <1>2 DEF Standing, moved

\* Posting an item to the account it becomes linked to, or taking it back from
\* the account it was linked to, keeps it standing there as often as it is linked.
LEMMA MovedStanding ==
  ASSUME NEW account \in AccountRow, NEW amount \in Amounts, NEW i \in Items, NEW a,
         NEW row, NEW new, Standing(row, account, i, a),
         row # Absent => row.amount = amount, new # Absent, new.amount = amount,
         NEW type, \/ type = ForwardType(i) /\ ~(row # Absent /\ row.link = a) /\ new.link = a
                   \/ type = ReversalType(i) /\ row # Absent /\ row.link = a /\ new.link # a
  PROVE  Standing(new, ApplyMovement(account, type, amount, i), i, a)
<1> DEFINE moved == ApplyMovement(account, type, amount, i)
<1>1. type \in CreditTypes \cup DebitTypes /\ ForwardType(i) # ReversalType(i)
  BY DEF ForwardType, ReversalType, CreditTypes, DebitTypes
<1>2. ASSUME NEW t
      PROVE  /\ Count(account, i, t) \in Nat
             /\ type = t => Count(moved, i, t) = Count(account, i, t) + 1
             /\ type # t => Count(moved, i, t) = Count(account, i, t)
  BY <1>1, AppendPosting
<1>3. \A n \in 1..Len(moved.entries) : \/ n \in 1..Len(account.entries) /\ moved.entries[n] = account.entries[n]
                                       \/ moved.entries[n].item = i /\ moved.entries[n].amount = amount
  BY <1>1, AppendedLedger
<1> HIDE DEF moved
<1>4. /\ Count(account, i, ForwardType(i))
           = Count(account, i, ReversalType(i)) + (IF row # Absent /\ row.link = a THEN 1 ELSE 0)
      /\ \A n \in 1..Len(account.entries) : account.entries[n].item = i => account.entries[n].amount = amount
  BY DEF Standing
<1>5. Count(moved, i, ForwardType(i))
        = Count(moved, i, ReversalType(i)) + (IF new.link = a THEN 1 ELSE 0)
  BY <1>1, <1>2, <1>4
<1> QED
  BY <1>3, <1>4, <1>5 DEF Standing, moved

\* A request that moves the link of item i from one account to another, or only
\* decides it.
LEMMA LinkingKeeps ==
  ASSUME Booked, TablesTypeOK', NEW i \in Items, NEW to \in Link, NEW from,
         from = (IF db[i] = Absent THEN None ELSE db[i].link), to # from \/ to = None,
         db'[i] # Absent, db'[i].link = to, db'[i].status = "PENDING" => to = None,
         db[i] # Absent => db'[i].amount = db[i].amount,
         \A j \in Items \ {i} : db'[j] = db[j],
         \A a \in Accounts :
            db'[a] = IF a = from THEN ApplyMovement(db[a], ReversalType(i), db'[i].amount, i)
                     ELSE IF a = to THEN ApplyMovement(db[a], ForwardType(i), db'[i].amount, i)
                     ELSE db[a]
  PROVE  Booked'
<1>1. PendingUnlinked'
  BY DEF Booked, PendingUnlinked
<1>2. db'[i].amount \in Amounts
  BY DEF TablesTypeOK, DepositRow, WithdrawalRow
<1>3. ASSUME NEW j \in Items, NEW a \in Accounts PROVE Standing(db'[j], db'[a], j, a)
  <2>1. Standing(db[j], db[a], j, a) /\ db[a] \in AccountRow /\ a # None
    BY <1>3, LinksAreStandings, RowsAreDistinct DEF Booked, TablesTypeOK
  <2>2. {ReversalType(i), ForwardType(i)} \subseteq CreditTypes \cup DebitTypes
    BY DEF ReversalType, ForwardType, CreditTypes, DebitTypes
  <2>3. CASE j # i
    BY <1>2, <2>1, <2>2, <2>3, OtherStanding
  <2>4. CASE j = i /\ a = from
    BY <1>2, <2>1, <2>4, MovedStanding
  <2>5. CASE j = i /\ a # from /\ a = to
    BY <1>2, <2>1, <2>5, MovedStanding
  <2>6. CASE j = i /\ a # from /\ a # to
    BY <2>1, <2>6 DEF Standing
  <2> QED
    BY <2>3, <2>4, <2>5, <2>6
<1> QED
  BY <1>1, <1>3 DEF Booked, LinkMatchesLedger, Standing, Postings, Naming, Count

\* A request that moves no link: at most one account gets a row of its own.
LEMMA NoLinkingKeeps ==
  ASSUME Booked, TablesTypeOK', \A i \in Items : db'[i] = db[i],
         \A a \in Accounts : \/ db'[a] = db[a]
                             \/ \E type \in CreditTypes \cup DebitTypes, n \in Amounts :
                                   db'[a] = ApplyMovement(db[a], type, n, None)
  PROVE  Booked'
<1>1. PendingUnlinked'
  BY DEF Booked, PendingUnlinked
<1>2. ASSUME NEW i \in Items, NEW a \in Accounts PROVE Standing(db'[i], db'[a], i, a)
  <2>1. Standing(db[i], db[a], i, a) /\ db[a] \in AccountRow /\ i # None
    BY <1>2, LinksAreStandings, RowsAreDistinct DEF Booked, TablesTypeOK
  <2> QED
    BY <2>1, OtherStanding
<1> QED
  BY <1>1, <1>2 DEF Booked, LinkMatchesLedger, Standing, Postings, Naming, Count

-----------------------------------------------------------------------------
(* The requests *)

AtomicInv == Paid /\ Booked /\ ReferenceLivesOnce

LEMMA AtomicInit == TablesInit => AtomicInv
<1> SUFFICES ASSUME TablesInit PROVE AtomicInv
  OBVIOUS
<1>1. /\ \A u \in Users : db[u] = NewWallet
      /\ \A a \in Accounts : db[a] = NewAccount
      /\ \A i \in Items \cup Keys : db[i] = Absent
  BY RowsAreDistinct DEF TablesInit
<1>2. TablesTypeOK
  BY TypesInit
<1>3. Len(NewWallet.history) = 0 /\ Len(NewAccount.entries) = 0
  BY DEF NewWallet, NewAccount
<1>4. WalletIsItsHistory /\ NeverOverdrawn
  BY <1>1, NewRowsSound DEF WalletIsItsHistory, NeverOverdrawn
<1>5. PaidExactlyOnce /\ SnapshotsMatchHistory
  BY <1>1, <1>3 DEF PaidExactlyOnce, SnapshotsMatchHistory
<1>6. LinkMatchesLedger
  <2> SUFFICES ASSUME NEW i \in Items, NEW a \in Accounts PROVE Standing(db[i], db[a], i, a)
    BY LinksAreStandings
  <2>1. Len(db[a].entries) = 0 /\ db[i] = Absent
    BY <1>1, <1>3
  <2>2. Naming(db[a].entries, i, ForwardType(i)) = {} /\ Naming(db[a].entries, i, ReversalType(i)) = {}
    BY <2>1 DEF Naming
  <2>3. Cardinality({}) = 0
    BY FS_EmptySet
  <2> QED
    BY <2>1, <2>2, <2>3 DEF Standing, Count
<1>7. PendingUnlinked /\ ReferenceLivesOnce
  BY <1>1 DEF PendingUnlinked, ReferenceLivesOnce, Live
<1> QED
  BY <1>2, <1>4, <1>5, <1>6, <1>7 DEF AtomicInv, Paid, Booked

\* The deposit a credit writes ...
LEMMA CreditedDeposit ==
  ASSUME NEW d \in Deposits, NEW row \in DepositRow, NEW a \in Link, CreditDeposit(d, row, a)
  PROVE  /\ db'[d].status = "APPROVED" /\ db'[d].link = a /\ db'[d].reference = row.reference
         /\ db'[d].user = row.user /\ db'[d].amount = row.amount
         /\ db'[d].before = db[row.user].balance /\ db'[d].after = db[row.user].balance + row.amount
<1>1. db'[d] = [row EXCEPT !.status = "APPROVED", !.link = a, !.before = db[row.user].balance,
                           !.after = MoveWallet(db[row.user], d, row.amount).balance]
  BY RowsAreDistinct DEF CreditDeposit
<1> QED
  BY <1>1 DEF DepositRow, MoveWallet

\* ... and the other rows.
LEMMA CreditedOthers ==
  ASSUME NEW d \in Deposits, NEW row \in DepositRow, NEW a \in Link, CreditDeposit(d, row, a)
  PROVE  /\ row.user \in Users /\ db'[row.user] = MoveWallet(db[row.user], d, row.amount)
         /\ \A v \in Users \ {row.user} : db'[v] = db[v]
         /\ \A e \in (Items \cup Keys) \ {d} : db'[e] = db[e]
         /\ \A b \in Accounts \ {a} : db'[b] = db[b]
         /\ a \in Accounts => db'[a] = ApplyMovement(db[a], "DEPOSIT_IN", row.amount, d)
<1>1. row.user \in Users
  BY DEF DepositRow
<1> QED
  BY <1>1, RowsAreDistinct DEF CreditDeposit, Link

\* Crediting a deposit pays it and stands it on the account it names.
LEMMA CreditKeeps ==
  ASSUME Paid, Booked, TablesTypeOK', NEW d \in Deposits, NEW row \in DepositRow, NEW a \in Link,
         db[d] = Absent \/ db[d] = row, row.link = None, ~Settled(d), CreditDeposit(d, row, a)
  PROVE  Paid' /\ Booked'
<1>1. row.user \in Users /\ row.amount \in Amounts /\ row.amount \in Int /\ row.amount > 0
  <2>1. row.user \in Users /\ row.amount \in Amounts
    BY DEF DepositRow
  <2>2. \A n \in Amounts : n \in Int /\ n > 0
    BY AmountsArePositive
  <2> QED
    BY <2>1, <2>2
<1>2. /\ db'[row.user] = MoveWallet(db[row.user], d, row.amount)
      /\ \A v \in Users \ {row.user} : db'[v] = db[v]
      /\ \A e \in (Items \cup Keys) \ {d} : db'[e] = db[e]
      /\ \A b \in Accounts \ {a} : db'[b] = db[b]
      /\ a \in Accounts => db'[a] = ApplyMovement(db[a], "DEPOSIT_IN", row.amount, d)
  BY CreditedOthers
<1>3. db[row.user].balance \in Int
  BY <1>1 DEF Paid, TablesTypeOK, WalletRow
<1>4. /\ db'[d].status = "APPROVED" /\ db'[d].link = a /\ db'[d].user = row.user /\ db'[d].amount = row.amount
      /\ db'[d].before = db[row.user].balance /\ db'[d].after = db[row.user].balance + row.amount
  BY CreditedDeposit
<1>5. db'[d] # Absent
  <2>1. MoveWallet(db[row.user], d, row.amount).balance \in Int
    BY <1>1, <1>3 DEF MoveWallet
  <2>2. db'[d] = [row EXCEPT !.status = "APPROVED", !.link = a, !.before = db[row.user].balance,
                             !.after = MoveWallet(db[row.user], d, row.amount).balance]
    BY RowsAreDistinct DEF CreditDeposit
  <2>3. db'[d] \in DepositRow
    BY <1>3, <2>1, <2>2 DEF DepositRow, Status
  <2> QED
    BY <2>3, AbsentIsNoRow
<1>6. Paid'
  <2>1. Entitles(db'[d], d, row.user, row.amount)
    BY <1>4, <1>5 DEF Entitles, WalletDelta
  <2>2. CanMove(db[row.user], row.amount)
    BY <1>1 DEF CanMove
  <2> QED
    BY <1>1, <1>2, <1>4, <2>1, <2>2, PaymentKeeps
<1>7. Booked'
  <2>1. \A b \in Accounts : b # None
    BY RowsAreDistinct
  <2> QED
    BY <1>2, <1>4, <1>5, <2>1, LinkingKeeps DEF ForwardType
<1> QED
  BY <1>6, <1>7

\* A reference stays on one live deposit when only deposit d can become live, and
\* with a reference that no other deposit has live.
LEMMA ReferenceKeeps ==
  ASSUME ReferenceLivesOnce, NEW d \in Deposits,
         \A e \in Deposits \ {d} : db'[e] = db[e],
         \A x \in References : Live(db'[d], x) => Live(db[d], x) \/ \A e \in Deposits : ~Live(db[e], x)
  PROVE  ReferenceLivesOnce'
BY DEF ReferenceLivesOnce

\* Every request of the services keeps what the tables promise.
LEMMA AtomicStep == AtomicInv /\ [AtomicNext]_db => AtomicInv'
<1> SUFFICES ASSUME AtomicInv, [AtomicNext]_db PROVE AtomicInv'
  OBVIOUS
<1>1. CASE UNCHANGED db
  <2>1. TablesTypeOK' /\ WalletIsItsHistory' /\ NeverOverdrawn'
    BY <1>1, TypesStep DEF AtomicInv, Paid, WalletIsItsHistory, NeverOverdrawn
  <2>2. PaidExactlyOnce' /\ SnapshotsMatchHistory'
    BY <1>1 DEF AtomicInv, Paid, PaidExactlyOnce, Explains, SnapshotsMatchHistory
  <2>3. Booked'
    BY <1>1, <2>1, NoLinkingKeeps DEF AtomicInv
  <2>4. ReferenceLivesOnce'
    BY <1>1 DEF AtomicInv, ReferenceLivesOnce, Live
  <2> QED
    BY <2>1, <2>2, <2>3, <2>4 DEF AtomicInv, Paid
<1>2. CASE AtomicNext
  <2>1. TablesTypeOK /\ TablesTypeOK' /\ Paid /\ Booked /\ ReferenceLivesOnce
    BY <1>2, TypesStep DEF AtomicInv, Paid
  <2>2. \A n \in Amounts : n \in Int /\ -n \in Int /\ n > 0
    BY AmountsArePositive
  <2>3. \A r \in Items \cup Keys : r \notin Users /\ r \notin Accounts /\ r # None
    BY RowsAreDistinct
  <2>4. ASSUME NEW d \in Deposits, NEW u \in Users, NEW n \in Amounts, NEW x \in References,
               CreateDeposit(d, u, n, x)
        PROVE  AtomicInv'
    <3> DEFINE row == [status |-> "PENDING", user |-> u, amount |-> n, reference |-> x, link |-> None,
                       before |-> None, after |-> None]
    <3>1. db' = [db EXCEPT ![d] = row] /\ db[d] = Absent /\ \A e \in Deposits : ~Live(db[e], x)
      BY <2>4 DEF CreateDeposit
    <3>2. row.status = "PENDING" /\ row.amount = n /\ row.link = None /\ row.reference = x
      OBVIOUS
    <3>3. row # Absent
      <4>1. row \in DepositRow
        BY DEF DepositRow, Status, Link
      <4> QED
        BY <4>1, AbsentIsNoRow
    <3> HIDE DEF row
    <3>4. /\ \A r \in Rows \ {d} : db'[r] = db[r]
          /\ db'[d] = row
      BY <2>1, <3>1 DEF TablesTypeOK
    <3>5. Paid'
      <4>1. \A c \in Items \cup Keys : SameClaim(c)
        BY <3>1, <3>2, <3>4 DEF SameClaim, Settled
      <4> QED
        BY <2>1, <2>3, <3>4, <4>1, NoPaymentKeeps
    <3>6. Booked'
      BY <2>1, <2>3, <3>1, <3>2, <3>3, <3>4, RowsAreDistinct, LinkingKeeps DEF Link
    <3>7. ReferenceLivesOnce'
      BY <2>1, <3>1, <3>2, <3>4, ReferenceKeeps DEF Live
    <3> QED
      BY <3>5, <3>6, <3>7 DEF AtomicInv
  <2>5. ASSUME NEW d \in Deposits, NEW u \in Users, NEW n \in Amounts, NEW x \in References,
               NEW a \in Accounts, CreateManualDeposit(d, u, n, x, a)
        PROVE  AtomicInv'
    <3> DEFINE row == [status |-> "APPROVED", user |-> u, amount |-> n, reference |-> x, link |-> None,
                       before |-> None, after |-> None]
    <3>1. CreditDeposit(d, row, a) /\ db[d] = Absent /\ \A e \in Deposits : ~Live(db[e], x)
      BY <2>5 DEF CreateManualDeposit
    <3>2. row \in DepositRow /\ row.link = None /\ row.reference = x /\ row.user \in Users
      BY DEF DepositRow, Status, Link
    <3> HIDE DEF row
    <3>3. Paid' /\ Booked'
      BY <2>1, <3>1, <3>2, CreditKeeps DEF Settled, Link
    <3>4. db'[d].reference = x /\ \A e \in Deposits \ {d} : db'[e] = db[e]
      BY <3>1, <3>2, CreditedDeposit, CreditedOthers DEF Link
    <3>5. ReferenceLivesOnce'
      BY <2>1, <3>1, <3>4, ReferenceKeeps DEF Live
    <3> QED
      BY <3>3, <3>5 DEF AtomicInv
  <2>6. ASSUME NEW d \in Deposits, NEW a \in Link, ApproveDeposit(d, a)
        PROVE  AtomicInv'
    <3>1. /\ db[d] # Absent /\ db[d].status = "PENDING" /\ CreditDeposit(d, db[d], a)
          /\ db[d] \in DepositRow /\ db[d].user \in Users
      BY <2>1, <2>6 DEF ApproveDeposit, TablesTypeOK, DepositRow
    <3>2. db[d].link = None /\ ~Settled(d)
      BY <2>1, <3>1 DEF Booked, PendingUnlinked, Settled
    <3>3. Paid' /\ Booked'
      BY <2>1, <3>1, <3>2, CreditKeeps
    <3>4. db'[d].reference = db[d].reference /\ \A e \in Deposits \ {d} : db'[e] = db[e]
      BY <3>1, CreditedDeposit, CreditedOthers
    <3>5. ReferenceLivesOnce'
      BY <2>1, <3>1, <3>4, ReferenceKeeps DEF Live
    <3> QED
      BY <3>3, <3>5 DEF AtomicInv
  <2>7. ASSUME NEW w \in Withdrawals, NEW u \in Users, NEW n \in Amounts, CreateWithdrawal(w, u, n)
        PROVE  AtomicInv'
    <3> DEFINE row == [status |-> "PENDING", user |-> u, amount |-> n, link |-> None]
    <3>1. db' = [db EXCEPT ![w] = row] /\ db[w] = Absent
      BY <2>7 DEF CreateWithdrawal
    <3>2. row.status = "PENDING" /\ row.amount = n /\ row.link = None
      OBVIOUS
    <3>3. row # Absent
      <4>1. row \in WithdrawalRow
        BY DEF WithdrawalRow, Status, Link
      <4> QED
        BY <4>1, AbsentIsNoRow
    <3> HIDE DEF row
    <3>4. /\ \A r \in Rows \ {w} : db'[r] = db[r]
          /\ db'[w] = row
      BY <2>1, <3>1 DEF TablesTypeOK
    <3>5. Paid'
      <4>1. \A c \in Items \cup Keys : SameClaim(c)
        BY <3>1, <3>2, <3>4 DEF SameClaim, Settled
      <4> QED
        BY <2>1, <2>3, <3>4, <4>1, NoPaymentKeeps
    <3>6. Booked'
      BY <2>1, <2>3, <3>1, <3>2, <3>3, <3>4, RowsAreDistinct, LinkingKeeps DEF Link
    <3>7. ReferenceLivesOnce'
      BY <2>1, <3>4, RowsAreDistinct DEF ReferenceLivesOnce
    <3> QED
      BY <3>5, <3>6, <3>7 DEF AtomicInv
  <2>8. ASSUME NEW w \in Withdrawals, ApproveWithdrawal(w)
        PROVE  AtomicInv'
    <3> DEFINE row == [db[w] EXCEPT !.status = "APPROVED"]
               u == db[w].user
               delta == -db[w].amount
    <3>1. /\ db[w] # Absent /\ db[w].status = "PENDING" /\ db[w] \in WithdrawalRow
          /\ u \in Users /\ db[w].amount \in Amounts /\ CanMove(db[u], delta)
      BY <2>1, <2>8 DEF ApproveWithdrawal, TablesTypeOK, WithdrawalRow
    <3>2. /\ row \in WithdrawalRow /\ row.status = "APPROVED" /\ row.user = u /\ row.amount = db[w].amount
          /\ row.link = db[w].link
      BY <3>1 DEF WithdrawalRow, Status
    <3>3. /\ db'[w] = row /\ db'[u] = MoveWallet(db[u], w, delta)
          /\ \A r \in Rows \ {w, u} : db'[r] = db[r]
      <4>1. db' = [db EXCEPT ![w].status = "APPROVED", ![u] = MoveWallet(@, w, delta)]
        BY <2>8 DEF ApproveWithdrawal
      <4>2. w \in Rows /\ u \in Rows /\ w # u /\ db = [r \in Rows |-> db[r]]
        BY <2>1, <2>3, <3>1 DEF TablesTypeOK
      <4> HIDE DEF u, delta
      <4> QED
        BY <4>1, <4>2
    <3>4. row # Absent /\ w \notin Deposits \cup Keys /\ ~Settled(w) /\ db[w].link = None
      BY <2>1, <3>1, <3>2, AbsentIsNoRow, RowsAreDistinct DEF Settled, Booked, PendingUnlinked
    <3> HIDE DEF row
    <3>5. Paid'
      <4>1. Entitles(db'[w], w, u, delta)
        BY <3>2, <3>3, <3>4 DEF Entitles, WalletDelta
      <4>2. delta \in Int
        BY <2>2, <3>1
      <4> HIDE DEF delta, u
      <4> QED
        BY <2>1, <2>3, <3>1, <3>3, <3>4, <4>1, <4>2, PaymentKeeps
    <3>6. Booked'
      <4>1. /\ \A j \in Items \ {w} : db'[j] = db[j]
            /\ \A a \in Accounts : db'[a] = db[a] /\ a # None
        BY <2>3, <3>1, <3>3, RowsAreDistinct
      <4> QED
        BY <2>1, <3>1, <3>2, <3>3, <3>4, <4>1, LinkingKeeps DEF Link
    <3>7. ReferenceLivesOnce'
      <4>1. \A d \in Deposits : db'[d] = db[d]
        BY <2>3, <3>1, <3>3, RowsAreDistinct
      <4> QED
        BY <2>1, <4>1 DEF ReferenceLivesOnce
    <3> QED
      BY <3>5, <3>6, <3>7 DEF AtomicInv
  <2>9. ASSUME NEW i \in Items, Reject(i)
        PROVE  AtomicInv'
    <3> DEFINE row == [db[i] EXCEPT !.status = "REJECTED"]
    <3>1. /\ db[i] # Absent /\ db[i].status = "PENDING" /\ db[i].link = None
          /\ db[i] \in DepositRow \cup WithdrawalRow
      BY <2>1, <2>9 DEF Reject, TablesTypeOK, Booked, PendingUnlinked
    <3>2. /\ row.status = "REJECTED" /\ row.amount = db[i].amount /\ row.link = None
          /\ row \in DepositRow \cup WithdrawalRow
      BY <3>1 DEF DepositRow, WithdrawalRow, Status
    <3>3. db'[i] = row /\ row # Absent /\ \A r \in Rows \ {i} : db'[r] = db[r]
      BY <2>1, <2>9, <3>2, AbsentIsNoRow DEF Reject, TablesTypeOK
    <3> HIDE DEF row
    <3>4. Paid'
      <4>1. \A c \in Items \cup Keys : SameClaim(c)
        BY <3>1, <3>2, <3>3 DEF SameClaim, Settled
      <4> QED
        BY <2>1, <2>3, <3>3, <4>1, NoPaymentKeeps
    <3>5. Booked'
      BY <2>1, <2>3, <3>1, <3>2, <3>3, RowsAreDistinct, LinkingKeeps DEF Link
    <3>6. ReferenceLivesOnce'
      BY <2>1, <3>2, <3>3 DEF ReferenceLivesOnce, Live
    <3> QED
      BY <3>4, <3>5, <3>6 DEF AtomicInv
  <2>10. ASSUME NEW i \in Items, NEW a \in Link, Relink(i, a)
         PROVE  AtomicInv'
    <3> DEFINE row == [db[i] EXCEPT !.link = a]
    <3>1. /\ db[i] # Absent /\ db[i].status = "APPROVED" /\ db[i].link # a
          /\ db[i] \in DepositRow \cup WithdrawalRow /\ (i \in Deposits => db[i] \in DepositRow)
      BY <2>1, <2>10 DEF Relink, TablesTypeOK
    <3>2. /\ row.status = "APPROVED" /\ row.amount = db[i].amount /\ row.user = db[i].user /\ row.link = a
          /\ i \in Deposits => /\ row.before = db[i].before /\ row.after = db[i].after
                               /\ row.reference = db[i].reference
      BY <3>1 DEF DepositRow, WithdrawalRow
    <3>3. /\ db'[i] = row
          /\ \A u \in Users : db'[u] = db[u]
          /\ \A e \in (Items \cup Keys) \ {i} : db'[e] = db[e]
          /\ \A b \in Accounts :
                db'[b] = IF b = db[i].link THEN ApplyMovement(db[b], ReversalType(i), db[i].amount, i)
                         ELSE IF b = a THEN ApplyMovement(db[b], ForwardType(i), db[i].amount, i)
                         ELSE db[b]
      <4>1. db[i].link \in Accounts \cup {None} /\ a \in Accounts \cup {None}
        BY <3>1 DEF DepositRow, WithdrawalRow, Link
      <4> QED
        BY <2>3, <2>10, <4>1, RowsAreDistinct DEF Relink
    <3>4. row # Absent
      <4>1. row \in DepositRow \cup WithdrawalRow
        BY <3>1 DEF DepositRow, WithdrawalRow
      <4> QED
        BY <4>1, AbsentIsNoRow
    <3> HIDE DEF row
    <3>5. Paid'
      <4>1. \A c \in Items \cup Keys : SameClaim(c)
        BY <3>1, <3>2, <3>3, <3>4, RowsAreDistinct DEF SameClaim, Settled
      <4> QED
        BY <2>1, <3>3, <4>1, NoPaymentKeeps
    <3>6. Booked'
      BY <2>1, <3>1, <3>2, <3>3, <3>4, LinkingKeeps
    <3>7. ReferenceLivesOnce'
      BY <2>1, <3>1, <3>2, <3>3 DEF ReferenceLivesOnce, Live
    <3> QED
      BY <3>5, <3>6, <3>7 DEF AtomicInv
  <2>11. ASSUME NEW k \in Keys, NEW u \in Users, NEW delta \in Int, Adjust(k, u, delta)
         PROVE  AtomicInv'
    <3> DEFINE row == [user |-> u, delta |-> delta, before |-> db[u].balance, after |-> db[u].balance + delta]
    <3>1. /\ row.user = u /\ row.delta = delta /\ row.before = db[u].balance
          /\ row.after = db[u].balance + delta
      OBVIOUS
    <3>2. row # Absent
      <4>1. row \in AdjustmentRow
        BY <2>1 DEF AdjustmentRow, TablesTypeOK, WalletRow
      <4> QED
        BY <4>1, AbsentIsNoRow
    <3>3. /\ CanMove(db[u], delta) /\ db[k] = Absent /\ db'[k] = row /\ db'[u] = MoveWallet(db[u], k, delta)
          /\ \A r \in Rows \ {k, u} : db'[r] = db[r]
      BY <2>1, <2>3, <2>11 DEF Adjust, TablesTypeOK
    <3> HIDE DEF row
    <3>4. /\ \A v \in Users \ {u} : db'[v] = db[v]
          /\ \A e \in (Items \cup Keys) \ {k} : db'[e] = db[e]
          /\ \A i \in Items : db'[i] = db[i]
          /\ \A a \in Accounts : db'[a] = db[a]
      BY <3>3, RowsAreDistinct
    <3>5. Paid'
      <4>1. Entitles(db'[k], k, u, delta) /\ ~Settled(k)
        BY <3>1, <3>2, <3>3, RowsAreDistinct DEF Entitles, Settled
      <4> QED
        BY <2>1, <3>1, <3>3, <3>4, <4>1, PaymentKeeps
    <3>6. Booked'
      BY <2>1, <3>4, NoLinkingKeeps
    <3>7. ReferenceLivesOnce'
      BY <2>1, <3>4 DEF ReferenceLivesOnce
    <3> QED
      BY <3>5, <3>6, <3>7 DEF AtomicInv
  <2>12. ASSUME NEW a \in Accounts, NEW type \in ManualTypes, NEW n \in Amounts,
                RecordManualEntry(a, type, n)
         PROVE  AtomicInv'
    <3>1. /\ db'[a] = ApplyMovement(db[a], type, n, None)
          /\ \A r \in Rows \ {a} : db'[r] = db[r]
      BY <2>1, <2>12 DEF RecordManualEntry, TablesTypeOK
    <3>2. /\ \A u \in Users : db'[u] = db[u]
          /\ \A e \in Items \cup Keys : db'[e] = db[e]
      BY <3>1, RowsAreDistinct
    <3>3. type \in CreditTypes \cup DebitTypes
      BY DEF ManualTypes
    <3>4. Paid'
      <4>1. \A c \in Items \cup Keys : SameClaim(c)
        BY <3>2 DEF SameClaim, Settled
      <4> QED
        BY <2>1, <3>2, <4>1, NoPaymentKeeps
    <3>5. Booked'
      BY <2>1, <3>1, <3>2, <3>3, NoLinkingKeeps
    <3>6. ReferenceLivesOnce'
      BY <2>1, <3>2 DEF ReferenceLivesOnce
    <3> QED
      BY <3>4, <3>5, <3>6 DEF AtomicInv
  <2> QED
    BY <1>2, <2>2, <2>4, <2>5, <2>6, <2>7, <2>8, <2>9, <2>10, <2>11, <2>12 DEF AtomicNext
<1> QED
  BY <1>1, <1>2

\* Every decision moves its owner's wallet once and records the balances around
\* that movement, every linked item stands on its account once, and a payment
\* reference is live on one deposit.
THEOREM AtomicInvariance == AtomicSpec => []AtomicInv
BY AtomicInit, AtomicStep, PTL DEF AtomicSpec

-----------------------------------------------------------------------------
(* The first invariant *)

\* A row of r's table, explained by its own history.
Sound(r, v) ==
    /\ r \in Users => v \in WalletRow /\ IsHistory(v) /\ NeverBelowZero(v)
    /\ r \in Accounts => v \in AccountRow /\ IsItsLedger(v)
    /\ r \in Deposits => v \in DepositRow
    /\ r \in Withdrawals => v \in WithdrawalRow
    /\ r \in Keys => v \in AdjustmentRow

CommittedSound ==
    /\ db = [r \in Rows |-> db[r]]
    /\ \A r \in Rows : Sound(r, db[r]) \/ (r \in Items \cup Keys /\ db[r] = Absent)

WrittenSound ==
    /\ pend = [p \in Procs |-> [r \in Rows |-> pend[p][r]]]
    /\ \A p \in Procs, r \in Rows : pend[p][r] = Clean \/ Sound(r, pend[p][r])

\* What a request asks for, and where it can stand.
Shape(t) ==
    /\ t.at = "insert" => \/ t.op \in {"create", "manual"} /\ t.id \in Deposits /\ t.new \in DepositRow
                          \/ t.op = "create" /\ t.id \in Withdrawals /\ t.new \in WithdrawalRow
    /\ t.op \in {"approve", "reject", "relink", "manual"} => t.id \in Items
    /\ t.op = "adjust" => /\ t.id \in Keys /\ t.new \in Asked
                          /\ t.at \in {"wallet", "record", "commit"}
    /\ t.op = "entry" => /\ t.to \in Accounts /\ t.new \in Movement
                         /\ t.at \in {"post", "commit"}
    /\ t.op = "create" => t.at = "insert"
    /\ t.op = "idle" <=> t.at = "idle"
    /\ t.at = "claim" => t.op \in {"approve", "reject"}
    /\ t.at = "link" => t.op \in {"approve", "manual", "relink"} /\ t.to # t.seen
    /\ t.at = "reverse" => t.op \in {"approve", "manual", "relink"} /\ t.seen \in Accounts
    /\ t.at = "post" => t.op \in {"approve", "manual", "relink", "entry"} /\ t.to \in Accounts
    /\ t.at = "wallet" => t.op \in {"approve", "manual", "adjust"}
    /\ t.at = "record" => t.op = "adjust"
    /\ t.at = "save" => t.op = "relink"

\* A request about an item that is past its insertion sees the item.
SubjectExists(p) ==
    tx[p].op \in {"approve", "reject", "relink", "manual"} /\ tx[p].at # "insert"
       => Subject(p) # Absent

RequestsOK ==
    /\ tx \in [Procs -> Request]
    /\ \A p \in Procs : Shape(tx[p]) /\ SubjectExists(p)

IInv == CommittedSound /\ WrittenSound /\ RequestsOK

-----------------------------------------------------------------------------
(* Lemmas *)

\* What a statement works on is a sound row, unless the row does not exist.
LEMMA ViewSound ==
  ASSUME IInv, NEW p \in Procs, NEW r \in Rows
  PROVE  \/ Sound(r, View(p, r)) /\ (r \in Items => View(p, r) # Absent)
         \/ r \in Items \cup Keys /\ View(p, r) = Absent /\ db[r] = Absent
<1>1. CASE pend[p][r] = Clean
  <2>1. View(p, r) = db[r]
    BY <1>1 DEF View
  <2> QED
    BY <2>1 DEF IInv, CommittedSound
<1>2. CASE pend[p][r] # Clean
  <2>1. View(p, r) = pend[p][r]
    BY <1>2 DEF View
  <2>2. Sound(r, pend[p][r])
    BY <1>2 DEF IInv, WrittenSound
  <2>3. r \in Items => pend[p][r] # Absent
    BY <2>2, AbsentIsNoRow DEF Sound, Items
  <2> QED
    BY <2>1, <2>2, <2>3
<1> QED
  BY <1>1, <1>2

\* The item an active decision, re-link or recording is about is a typed row.
LEMMA SubjectTyped ==
  ASSUME IInv, NEW p \in Procs, tx[p].at # "insert",
         tx[p].op \in {"approve", "reject", "relink", "manual"}
  PROVE  /\ tx[p].id \in Items
         /\ tx[p].id \in Deposits => Subject(p) \in DepositRow
         /\ tx[p].id \in Withdrawals => Subject(p) \in WithdrawalRow
         /\ Subject(p).user \in Users /\ Subject(p).amount \in Amounts
         /\ WalletDelta(tx[p].id, Subject(p)) \in Int
<1>1. tx[p].id \in Items /\ Subject(p) # Absent
  BY DEF IInv, RequestsOK, Shape, SubjectExists
<1>2. Sound(tx[p].id, Subject(p))
  BY <1>1, ViewSound DEF Subject, Rows
<1>3. /\ tx[p].id \in Deposits => Subject(p) \in DepositRow
      /\ tx[p].id \in Withdrawals => Subject(p) \in WithdrawalRow
  BY <1>2 DEF Sound
<1>4. Subject(p).user \in Users /\ Subject(p).amount \in Amounts
  BY <1>1, <1>3 DEF DepositRow, WithdrawalRow, Items
<1>5. \A n \in Amounts : n \in Int /\ -n \in Int
  BY AmountsArePositive
<1>6. WalletDelta(tx[p].id, Subject(p)) \in Int
  BY <1>4, <1>5 DEF WalletDelta
<1> QED
  BY <1>1, <1>3, <1>4, <1>6

\* The statement order keeps requests in shape.
LEMMA FollowingShape ==
  ASSUME NEW t \in Request, Shape(t), t.at \notin {"idle", "commit"}, t.op # "create"
  PROVE  LET next == [t EXCEPT !.at = Following(t)]
         IN  /\ next \in Request /\ Shape(next)
             /\ next.at # "insert" /\ next.op = t.op /\ next.id = t.id
<1> DEFINE linking == IF t.to = t.seen THEN "wallet" ELSE "link"
           next == [t EXCEPT !.at = Following(t)]
<1>1. /\ t.at = "insert" => t.op = "manual" /\ Following(t) = linking
      /\ t.at = "claim" => Following(t) = IF t.op = "reject" THEN "commit" ELSE linking
      /\ t.at = "link" => Following(t) = IF t.seen # None THEN "reverse" ELSE "post"
      /\ t.at = "reverse" => Following(t) = IF t.to # None THEN "post"
                                            ELSE IF t.op = "relink" THEN "save" ELSE "wallet"
      /\ t.at = "post" => Following(t) = IF t.op = "relink" THEN "save"
                                         ELSE IF t.op = "entry" THEN "commit" ELSE "wallet"
      /\ t.at = "wallet" => Following(t) = IF t.op = "adjust" THEN "record" ELSE "commit"
      /\ t.at \in {"record", "save"} => Following(t) = "commit"
  BY DEF Following, Shape
<1>2. t.at \in {"insert", "claim", "link", "reverse", "post", "wallet", "record", "save"}
  BY DEF Request, Steps
<1>3. Following(t) \in Steps \ {"insert", "idle"}
  BY <1>1, <1>2 DEF Steps
<1>4. next \in Request /\ next.at = Following(t) /\ next.op = t.op /\ next.id = t.id
      /\ next.new = t.new /\ next.to = t.to /\ next.seen = t.seen
  BY <1>3 DEF Request
<1>5. t.seen \in Accounts \cup {None} /\ t.to \in Accounts \cup {None}
  BY DEF Request, Link
<1>6. Shape(next)
  <2> HIDE DEF next
  <2> QED
    BY <1>1, <1>2, <1>3, <1>4, <1>5 DEF Shape, Items
<1> QED
  BY <1>3, <1>4, <1>6

\* A transaction that ends, and leaves sound rows behind, keeps the invariant.
LEMMA FinishKeeps ==
  ASSUME IInv, NEW p \in Procs, Finish(p), CommittedSound',
         \A i \in Items : db[i] # Absent => db'[i] # Absent
  PROVE  IInv'
<1>1. WrittenSound'
  BY DEF IInv, WrittenSound, Finish, NothingWritten
<1>2. Idle \in Request /\ Shape(Idle)
  BY DEF Idle, Request, Ops, Steps, Link, Shape
<1>3. tx' \in [Procs -> Request] /\ \A q \in Procs : Shape(tx'[q])
  BY <1>2 DEF IInv, RequestsOK, Finish
<1>4. ASSUME NEW q \in Procs PROVE SubjectExists(q)'
  <2>1. CASE q = p
    BY <2>1 DEF Finish, IInv, RequestsOK, SubjectExists, Idle
  <2>2. CASE q # p
    <3>1. tx'[q] = tx[q] /\ pend'[q] = pend[q]
      BY <2>2 DEF Finish, IInv, RequestsOK, WrittenSound
    <3>2. SubjectExists(q) /\ Shape(tx[q])
      BY DEF IInv, RequestsOK
    <3> QED
      BY <3>1, <3>2 DEF SubjectExists, Subject, View, Shape
  <2> QED
    BY <2>1, <2>2
<1> QED
  BY <1>1, <1>3, <1>4 DEF IInv, RequestsOK

\* A statement that writes a sound row keeps the invariant.
LEMMA WriteKeeps ==
  ASSUME IInv, NEW p \in Procs, NEW r \in Rows, NEW v, Sound(r, v), Write(p, r, v),
         Continue(p), UNCHANGED db, tx[p].at \notin {"idle", "commit"}, tx[p].op # "create",
         tx[p].at = "insert" => r = tx[p].id
  PROVE  IInv'
<1>1. CommittedSound'
  BY DEF IInv, CommittedSound
<1>2. WrittenSound'
  BY DEF IInv, WrittenSound, Write
<1> DEFINE next == [tx[p] EXCEPT !.at = Following(tx[p])]
<1>3. tx' = [tx EXCEPT ![p] = next] /\ tx \in [Procs -> Request] /\ Shape(tx[p])
  BY DEF Continue, IInv, RequestsOK
<1>4. /\ next \in Request /\ Shape(next)
      /\ next.at # "insert" /\ next.op = tx[p].op /\ next.id = tx[p].id
  BY <1>3, FollowingShape
<1>5. tx' \in [Procs -> Request] /\ \A q \in Procs : Shape(tx'[q])
  BY <1>3, <1>4 DEF IInv, RequestsOK
<1>6. ASSUME NEW q \in Procs PROVE SubjectExists(q)'
  <2>1. CASE q # p
    <3>1. tx'[q] = tx[q] /\ pend'[q] = pend[q] /\ db' = db
      BY <1>3, <2>1 DEF Write, IInv, WrittenSound
    <3> QED
      BY <3>1 DEF SubjectExists, Subject, View, IInv, RequestsOK
  <2>2. CASE q = p
    <3> SUFFICES ASSUME tx[p].op \in {"approve", "reject", "relink", "manual"}
                 PROVE  Subject(p)' # Absent
      BY <1>3, <1>4, <2>2 DEF SubjectExists
    <3>1. tx[p].id \in Items /\ tx'[p].id = tx[p].id /\ tx[p].id \in Rows
      BY <1>3, <1>4 DEF Shape, Rows
    <3>2. CASE r = tx[p].id
      <4>1. pend'[p][tx[p].id] = v
        BY <3>1, <3>2 DEF Write, IInv, WrittenSound
      <4>2. v # Absent /\ v # Clean
        BY <3>1, <3>2, AbsentIsNoRow, CleanIsNoRowValue DEF Sound, Items
      <4>3. db'[tx[p].id] = db[tx[p].id]
        OBVIOUS
      <4> QED
        BY <3>1, <4>1, <4>2, <4>3 DEF Subject, View
    <3>3. CASE r # tx[p].id
      <4>1. pend'[p][tx[p].id] = pend[p][tx[p].id]
        BY <3>1, <3>3 DEF Write, IInv, WrittenSound
      <4>2. Subject(p) # Absent
        BY <3>3 DEF IInv, RequestsOK, SubjectExists
      <4> QED
        BY <3>1, <4>1, <4>2 DEF Subject, View
    <3> QED
      BY <3>2, <3>3
  <2> QED
    BY <2>1, <2>2
<1> QED
  BY <1>1, <1>2, <1>5, <1>6 DEF IInv, RequestsOK

\* A request that arrives in shape keeps the invariant.
LEMMA BeginKeeps ==
  ASSUME IInv, NEW p \in Procs, NEW t \in Request, Begin(p, t), Shape(t),
         t.op \in {"approve", "reject", "relink", "manual"} /\ t.at # "insert" => db[t.id] # Absent
  PROVE  IInv'
<1>1. CommittedSound' /\ WrittenSound'
  BY DEF IInv, CommittedSound, WrittenSound, Begin
<1>2. tx' \in [Procs -> Request] /\ \A q \in Procs : Shape(tx'[q])
  BY DEF IInv, RequestsOK, Begin
<1>3. ASSUME NEW q \in Procs PROVE SubjectExists(q)'
  <2>1. CASE q # p
    BY <2>1 DEF Begin, IInv, RequestsOK, SubjectExists, Subject, View
  <2>2. CASE q = p
    <3> SUFFICES ASSUME t.op \in {"approve", "reject", "relink", "manual"}, t.at # "insert"
                 PROVE  View(p, t.id)' # Absent
      BY <2>2 DEF Begin, IInv, RequestsOK, SubjectExists, Subject
    <3>1. t.id \in Items /\ t.id \in Rows
      BY DEF Shape, Rows
    <3> QED
      BY <3>1, ViewSound DEF Begin, View
  <2> QED
    BY <2>1, <2>2
<1> QED
  BY <1>1, <1>2, <1>3 DEF IInv, RequestsOK

-----------------------------------------------------------------------------
(* Each action keeps the invariant *)

LEMMA InitSound == Init => IInv
<1> SUFFICES ASSUME Init PROVE IInv
  OBVIOUS
<1>1. CommittedSound
  <2>1. \A r \in Rows : db[r] = IF r \in Users THEN NewWallet
                                ELSE IF r \in Accounts THEN NewAccount ELSE Absent
    BY DEF Init, TablesInit
  <2>2. ASSUME NEW r \in Rows PROVE Sound(r, db[r]) \/ (r \in Items \cup Keys /\ db[r] = Absent)
    BY <2>1, NewRowsSound, RowsAreDistinct DEF Sound, Rows, Items
  <2> QED
    BY <2>2 DEF CommittedSound, Init, TablesInit
<1>2. WrittenSound
  BY DEF Init, WrittenSound, NothingWritten
<1>3. Idle \in Request /\ Shape(Idle)
  BY DEF Idle, Request, Ops, Steps, Link, Shape
<1>4. tx = [p \in Procs |-> Idle]
  BY DEF Init
<1>5. \A p \in Procs : SubjectExists(p)
  BY <1>4 DEF SubjectExists, Idle
<1> QED
  BY <1>1, <1>2, <1>3, <1>4, <1>5 DEF IInv, RequestsOK

\* Requests arrive in shape.
LEMMA ArriveKeeps ==
  ASSUME IInv, NEW p \in Procs, Arrive(p)
  PROVE  IInv'
<1>1. ASSUME NEW d \in Deposits, NEW u \in Users, NEW n \in Amounts, NEW x \in References, NEW a \in Link,
             Begin(p, [op |-> IF a = None THEN "create" ELSE "manual", at |-> "insert", id |-> d,
                       new |-> [status |-> IF a = None THEN "PENDING" ELSE "APPROVED", user |-> u,
                                amount |-> n, reference |-> x, link |-> None,
                                before |-> None, after |-> None],
                       seen |-> None, to |-> a])
      PROVE  IInv'
  <2> DEFINE row == [status |-> IF a = None THEN "PENDING" ELSE "APPROVED", user |-> u,
                     amount |-> n, reference |-> x, link |-> None, before |-> None, after |-> None]
             t == [op |-> IF a = None THEN "create" ELSE "manual", at |-> "insert", id |-> d,
                   new |-> row, seen |-> None, to |-> a]
  <2>1. row \in DepositRow
    BY DEF DepositRow, Status, Link
  <2> HIDE DEF row
  <2>2. t \in Request /\ Shape(t) /\ t.at = "insert"
    BY <2>1 DEF Request, Ops, Steps, Shape, Link, Rows, Items
  <2> QED
    BY <1>1, <2>2, BeginKeeps DEF row
<1>2. ASSUME NEW w \in Withdrawals, NEW u \in Users, NEW n \in Amounts,
             Begin(p, [op |-> "create", at |-> "insert", id |-> w,
                       new |-> [status |-> "PENDING", user |-> u, amount |-> n, link |-> None],
                       seen |-> None, to |-> None])
      PROVE  IInv'
  <2> DEFINE row == [status |-> "PENDING", user |-> u, amount |-> n, link |-> None]
             t == [op |-> "create", at |-> "insert", id |-> w, new |-> row, seen |-> None, to |-> None]
  <2>1. row \in WithdrawalRow
    BY DEF WithdrawalRow, Status, Link
  <2> HIDE DEF row
  <2>2. t \in Request /\ Shape(t) /\ t.at = "insert"
    BY <2>1 DEF Request, Ops, Steps, Shape, Link, Rows, Items
  <2> QED
    BY <1>2, <2>2, BeginKeeps DEF row
<1>3. ASSUME NEW i \in Items, db[i] # Absent
      PROVE  db[i].link \in Link
  BY <1>3 DEF IInv, CommittedSound, Sound, Rows, Items, DepositRow, WithdrawalRow
<1>4. ASSUME NEW i \in Items, NEW op \in {"approve", "reject"}, NEW a \in Link, db[i] # Absent,
             Begin(p, [op |-> op, at |-> "claim", id |-> i, new |-> None,
                       seen |-> db[i].link, to |-> a])
      PROVE  IInv'
  <2> DEFINE t == [op |-> op, at |-> "claim", id |-> i, new |-> None, seen |-> db[i].link, to |-> a]
  <2>1. t \in Request /\ Shape(t) /\ t.id = i
    BY <1>3, <1>4 DEF Request, Ops, Steps, Shape, Rows
  <2> QED
    BY <1>4, <2>1, BeginKeeps
<1>5. ASSUME NEW i \in Items, NEW a \in Link, db[i] # Absent,
             Begin(p, [op |-> "relink", at |-> IF a = db[i].link THEN "save" ELSE "link", id |-> i,
                       new |-> None, seen |-> db[i].link, to |-> a])
      PROVE  IInv'
  <2> DEFINE t == [op |-> "relink", at |-> IF a = db[i].link THEN "save" ELSE "link", id |-> i,
                   new |-> None, seen |-> db[i].link, to |-> a]
  <2>1. t \in Request /\ Shape(t) /\ t.id = i
    BY <1>3, <1>5 DEF Request, Ops, Steps, Shape, Rows
  <2> QED
    BY <1>5, <2>1, BeginKeeps
<1>6. ASSUME NEW k \in Keys, NEW u \in Users, NEW n \in Amounts, NEW sign \in {1, -1},
             Begin(p, [op |-> "adjust", at |-> "wallet", id |-> k,
                       new |-> [user |-> u, delta |-> sign * n], seen |-> None, to |-> None])
      PROVE  IInv'
  <2> DEFINE new == [user |-> u, delta |-> sign * n]
             t == [op |-> "adjust", at |-> "wallet", id |-> k, new |-> new, seen |-> None, to |-> None]
  <2>1. sign * n \in Int
    BY AmountsArePositive
  <2>2. new \in Asked
    BY <2>1 DEF Asked
  <2> HIDE DEF new
  <2>3. t \in Request /\ Shape(t) /\ t.op = "adjust"
    BY <2>2 DEF Request, Ops, Steps, Shape, Link, Rows
  <2> QED
    BY <1>6, <2>3, BeginKeeps DEF new
<1>7. ASSUME NEW a \in Accounts, NEW type \in ManualTypes, NEW n \in Amounts,
             Begin(p, [op |-> "entry", at |-> "post", id |-> None,
                       new |-> [type |-> type, amount |-> n], seen |-> None, to |-> a])
      PROVE  IInv'
  <2> DEFINE new == [type |-> type, amount |-> n]
             t == [op |-> "entry", at |-> "post", id |-> None, new |-> new, seen |-> None, to |-> a]
  <2>1. new \in Movement
    BY DEF Movement
  <2> HIDE DEF new
  <2>2. t \in Request /\ Shape(t) /\ t.op = "entry"
    BY <2>1 DEF Request, Ops, Steps, Shape, Link
  <2> QED
    BY <1>7, <2>2, BeginKeeps DEF new
<1>8. CASE PrecheckDeposit(p)
  BY <1>1, <1>8 DEF PrecheckDeposit
<1>9. CASE PrecheckWithdrawal(p)
  BY <1>2, <1>9 DEF PrecheckWithdrawal
<1>10. CASE ReadForDecision(p)
  BY <1>4, <1>10 DEF ReadForDecision
<1>11. CASE ReadForRelink(p)
  BY <1>5, <1>11 DEF ReadForRelink
<1>12. CASE ProbeKey(p)
  BY <1>6, <1>12 DEF ProbeKey
<1>13. CASE ReadAccount(p)
  BY <1>7, <1>13 DEF ReadAccount
<1> QED
  BY <1>8, <1>9, <1>10, <1>11, <1>12, <1>13 DEF Arrive

\* A request that fails leaves nothing behind.
LEMMA RollbackKeeps ==
  ASSUME IInv, NEW p \in Procs, Rollback(p)
  PROVE  IInv'
<1>1. CommittedSound'
  BY DEF IInv, CommittedSound, Rollback
<1> QED
  BY <1>1, FinishKeeps DEF Rollback

\* Commit publishes sound rows, and no item disappears.
LEMMA CommitKeeps ==
  ASSUME IInv, NEW p \in Procs, Commit(p)
  PROVE  IInv'
<1>1. db' = [r \in Rows |-> View(p, r)] /\ Finish(p)
  BY DEF Commit
<1>2. CommittedSound'
  BY <1>1, ViewSound DEF CommittedSound
<1>3. \A i \in Items : db[i] # Absent => db'[i] # Absent
  BY <1>1, ViewSound DEF Rows
<1> QED
  BY <1>1, <1>2, <1>3, FinishKeeps

\* An autocommitted INSERT of a typed row keeps the invariant.
LEMMA StoreKeeps ==
  ASSUME IInv, NEW p \in Procs, NEW i \in Items, NEW v, Sound(i, v), Finish(p),
         db' = [db EXCEPT ![i] = v]
  PROVE  IInv'
<1>1. v # Absent
  BY AbsentIsNoRow DEF Sound, Items
<1>2. CommittedSound'
  BY DEF IInv, CommittedSound
<1>3. \A j \in Items : db[j] # Absent => db'[j] # Absent
  BY <1>1 DEF IInv, CommittedSound, Rows
<1> QED
  BY <1>2, <1>3, FinishKeeps

LEMMA InsertKeeps ==
  ASSUME IInv, NEW p \in Procs, InsertDeposit(p) \/ InsertWithdrawal(p)
  PROVE  IInv'
<1>1. Shape(tx[p]) /\ tx[p].at = "insert"
  BY DEF IInv, RequestsOK, InsertDeposit, InsertWithdrawal
<1>2. ASSUME tx[p].id \in Deposits, tx[p].new \in DepositRow
      PROVE  tx[p].id \in Items /\ tx[p].id \in Rows /\ Sound(tx[p].id, tx[p].new)
  BY <1>2, RowsAreDistinct DEF Sound, Items, Rows
<1>3. ASSUME tx[p].id \in Withdrawals, tx[p].new \in WithdrawalRow
      PROVE  tx[p].id \in Items /\ Sound(tx[p].id, tx[p].new)
  BY <1>3, RowsAreDistinct DEF Sound, Items, Rows
<1>4. CASE InsertDeposit(p)
  <2>1. tx[p].new \in DepositRow
    BY <1>4 DEF InsertDeposit
  <2>2. tx[p].id \in Items /\ tx[p].id \in Rows /\ Sound(tx[p].id, tx[p].new)
    BY <1>1, <1>2, <1>3, <2>1 DEF Shape, Items, Rows
  <2>3. CASE tx[p].op = "create"
    <3>1. Finish(p) /\ db' = [db EXCEPT ![tx[p].id] = tx[p].new]
      BY <1>4, <2>3 DEF InsertDeposit
    <3> QED
      BY <2>2, <3>1, StoreKeeps
  <2>4. CASE tx[p].op = "manual"
    <3>1. Write(p, tx[p].id, tx[p].new) /\ Continue(p) /\ UNCHANGED db
      BY <1>4, <2>4 DEF InsertDeposit
    <3> QED
      BY <1>1, <2>2, <2>4, <3>1, WriteKeeps
  <2> QED
    BY <1>4, <2>3, <2>4 DEF InsertDeposit
<1>5. CASE InsertWithdrawal(p)
  <2>1. Finish(p) /\ db' = [db EXCEPT ![tx[p].id] = tx[p].new] /\ tx[p].new \in WithdrawalRow
    BY <1>5 DEF InsertWithdrawal
  <2>2. tx[p].id \in Items /\ Sound(tx[p].id, tx[p].new)
    BY <1>1, <1>2, <1>3, <2>1 DEF Shape
  <2> QED
    BY <2>1, <2>2, StoreKeeps
<1> QED
  BY <1>4, <1>5

\* Claims of a status or a link, and the closing update, write the item's row.
LEMMA ItemWriteKeeps ==
  ASSUME IInv, NEW p \in Procs, Claim(p) \/ ClaimLink(p) \/ SaveDetails(p)
  PROVE  IInv'
<1>1. /\ tx[p] \in Request /\ Shape(tx[p]) /\ tx[p].at \in {"claim", "link", "save"}
      /\ tx[p].op \in {"approve", "reject", "relink", "manual"}
  BY DEF IInv, RequestsOK, Claim, ClaimLink, SaveDetails, Shape
<1>2. /\ tx[p].id \in Items /\ tx[p].id \in Rows
      /\ tx[p].id \in Deposits => Subject(p) \in DepositRow
      /\ tx[p].id \in Withdrawals => Subject(p) \in WithdrawalRow
  BY <1>1, SubjectTyped DEF Rows
<1>3. ASSUME NEW v, tx[p].id \in Deposits => v \in DepositRow,
             tx[p].id \in Withdrawals => v \in WithdrawalRow
      PROVE  Sound(tx[p].id, v)
  BY <1>2, <1>3, RowsAreDistinct DEF Sound, Rows, Items
<1>4. CASE Claim(p)
  <2> DEFINE status == IF tx[p].op = "approve" THEN "APPROVED" ELSE "REJECTED"
             v == [Subject(p) EXCEPT !.status = status]
  <2>1. status \in Status
    BY DEF Status
  <2>2. Sound(tx[p].id, v)
    <3> HIDE DEF status
    <3>1. /\ tx[p].id \in Deposits => v \in DepositRow
          /\ tx[p].id \in Withdrawals => v \in WithdrawalRow
      BY <1>2, <2>1 DEF DepositRow, WithdrawalRow
    <3> HIDE DEF v
    <3> QED
      BY <1>3, <3>1
  <2>3. Write(p, tx[p].id, v) /\ Continue(p) /\ UNCHANGED db
    BY <1>4 DEF Claim
  <2> QED
    BY <1>1, <1>2, <2>2, <2>3, WriteKeeps
<1>5. CASE ClaimLink(p)
  <2> DEFINE v == [Subject(p) EXCEPT !.link = tx[p].to]
  <2>1. tx[p].to \in Link
    BY <1>1 DEF Request
  <2>2. Sound(tx[p].id, v)
    <3>1. /\ tx[p].id \in Deposits => v \in DepositRow
          /\ tx[p].id \in Withdrawals => v \in WithdrawalRow
      BY <1>2, <2>1 DEF DepositRow, WithdrawalRow
    <3> HIDE DEF v
    <3> QED
      BY <1>3, <3>1
  <2>3. Write(p, tx[p].id, v) /\ Continue(p) /\ UNCHANGED db
    BY <1>5 DEF ClaimLink
  <2> QED
    BY <1>1, <1>2, <2>2, <2>3, WriteKeeps
<1>6. CASE SaveDetails(p)
  <2>1. Sound(tx[p].id, Subject(p))
    BY <1>2, <1>3
  <2>2. Write(p, tx[p].id, Subject(p)) /\ Continue(p) /\ UNCHANGED db
    BY <1>6 DEF SaveDetails
  <2> QED
    BY <1>1, <1>2, <2>1, <2>2, WriteKeeps
<1> QED
  BY <1>4, <1>5, <1>6

\* Movements of a payment account write its row.
LEMMA AccountWriteKeeps ==
  ASSUME IInv, NEW p \in Procs, Reverse(p) \/ Post(p)
  PROVE  IInv'
<1>1. /\ Shape(tx[p]) /\ tx[p].at \in {"reverse", "post"}
      /\ tx[p].op \in {"approve", "manual", "relink", "entry"}
  BY DEF IInv, RequestsOK, Reverse, Post, Shape
<1>2. ASSUME NEW a \in Accounts PROVE View(p, a) \in AccountRow /\ IsItsLedger(View(p, a))
  BY <1>2, ViewSound, RowsAreDistinct DEF Sound, Rows, Items
<1>3. ASSUME NEW a \in Accounts, NEW type \in CreditTypes \cup DebitTypes, NEW n \in Amounts,
             NEW item \in Items \cup {None}, Continue(p), UNCHANGED db,
             Write(p, a, ApplyMovement(View(p, a), type, n, item))
      PROVE  IInv'
  <2> DEFINE v == ApplyMovement(View(p, a), type, n, item)
  <2>1. v \in AccountRow /\ IsItsLedger(v)
    BY <1>2, ApplyMovementSound
  <2> HIDE DEF v
  <2>2. Sound(a, v) /\ a \in Rows
    BY <2>1, RowsAreDistinct DEF Sound, Rows, Items
  <2> QED
    BY <1>1, <1>3, <2>2, WriteKeeps DEF v
<1>4. tx[p].op # "entry" =>
         /\ tx[p].id \in Items /\ Subject(p).amount \in Amounts
         /\ {ReversalType(tx[p].id), ForwardType(tx[p].id)} \subseteq CreditTypes \cup DebitTypes
  BY <1>1, SubjectTyped DEF ReversalType, ForwardType, CreditTypes, DebitTypes
<1>5. CASE Reverse(p)
  <2>1. tx[p].seen \in Accounts /\ tx[p].op # "entry"
    BY <1>1, <1>5 DEF Reverse, Shape
  <2>2. /\ Write(p, tx[p].seen, ApplyMovement(View(p, tx[p].seen), ReversalType(tx[p].id),
                                             Subject(p).amount, tx[p].id))
        /\ Continue(p) /\ UNCHANGED db
    BY <1>5 DEF Reverse
  <2> QED
    BY <1>3, <1>4, <2>1, <2>2
<1>6. CASE Post(p)
  <2>1. tx[p].to \in Accounts
    BY <1>1, <1>6 DEF Post, Shape
  <2>2. CASE tx[p].op = "entry"
    <3>1. tx[p].new.type \in CreditTypes \cup DebitTypes /\ tx[p].new.amount \in Amounts
      BY <1>1, <2>2 DEF Shape, Movement, ManualTypes
    <3>2. /\ Write(p, tx[p].to, ApplyMovement(View(p, tx[p].to), tx[p].new.type, tx[p].new.amount, None))
          /\ Continue(p) /\ UNCHANGED db
      BY <1>6, <2>2 DEF Post
    <3> QED
      BY <1>3, <2>1, <3>1, <3>2
  <2>3. CASE tx[p].op # "entry"
    <3>1. /\ Write(p, tx[p].to, ApplyMovement(View(p, tx[p].to), ForwardType(tx[p].id),
                                             Subject(p).amount, tx[p].id))
          /\ Continue(p) /\ UNCHANGED db
      BY <1>6, <2>3 DEF Post
    <3> QED
      BY <1>3, <1>4, <2>1, <2>3, <3>1
  <2> QED
    BY <2>2, <2>3
<1> QED
  BY <1>5, <1>6

\* A payment writes the wallet it moves and, on a deposit, the balances around it.
LEMMA PayKeeps ==
  ASSUME IInv, NEW p \in Procs, Pay(p)
  PROVE  IInv'
<1> DEFINE id == tx[p].id
           wallet == View(p, Owner(p))
           moved == MoveWallet(wallet, id, Delta(p))
           row == [Subject(p) EXCEPT !.before = wallet.balance, !.after = moved.balance]
<1>1. /\ tx[p] \in Request /\ Shape(tx[p]) /\ tx[p].at = "wallet"
      /\ tx[p].op \in {"approve", "manual", "adjust"}
  BY DEF IInv, RequestsOK, Pay, Shape
<1>2. Owner(p) \in Users /\ Delta(p) \in Int /\ id \in Items \cup Keys
  <2>1. CASE tx[p].op = "adjust"
    BY <1>1, <2>1 DEF Shape, Asked, Owner, Delta
  <2>2. CASE tx[p].op # "adjust"
    BY <1>1, <2>2, SubjectTyped DEF Owner, Delta
  <2> QED
    BY <2>1, <2>2
<1>3. id \in Deposits => /\ tx[p].op \in {"approve", "manual"} /\ id \in Items
                         /\ Subject(p) \in DepositRow
  <2>1. id \in Deposits => tx[p].op # "adjust"
    BY <1>1, RowsAreDistinct DEF Shape, Items
  <2> QED
    BY <1>1, <2>1, SubjectTyped
<1>4. wallet \in WalletRow /\ IsHistory(wallet) /\ NeverBelowZero(wallet)
  BY <1>2, ViewSound, RowsAreDistinct DEF Sound, Rows, Items
<1>5. moved \in WalletRow /\ IsHistory(moved) /\ NeverBelowZero(moved)
  <2>1. CanMove(wallet, Delta(p))
    BY DEF Pay
  <2> HIDE DEF wallet
  <2> QED
    BY <1>2, <1>4, <2>1, MoveWalletSound
<1>6. Sound(Owner(p), moved) /\ Owner(p) \in Rows
  <2> HIDE DEF moved
  <2> QED
    BY <1>2, <1>5, RowsAreDistinct DEF Sound, Rows, Items
<1>7. CASE id \notin Deposits
  <2>1. Write(p, Owner(p), moved) /\ Continue(p) /\ UNCHANGED db
    BY <1>7 DEF Pay
  <2> HIDE DEF moved
  <2> QED
    BY <1>1, <1>6, <2>1, WriteKeeps
<1>8. CASE id \in Deposits
  <2>1. pend' = [pend EXCEPT ![p][Owner(p)] = moved, ![p][id] = row] /\ Continue(p) /\ UNCHANGED db
    BY <1>8 DEF Pay
  <2>2. wallet.balance \in Int /\ moved.balance \in Int
    BY <1>4, <1>5 DEF WalletRow
  <2>3. row \in DepositRow
    <3> HIDE DEF wallet, moved
    <3> QED
      BY <1>3, <1>8, <2>2 DEF DepositRow
  <2> HIDE DEF moved, row, wallet
  <2>4. Sound(id, row) /\ id \in Rows
    BY <1>8, <2>3, RowsAreDistinct DEF Sound, Rows, Items
  <2>5. CommittedSound' /\ WrittenSound'
    BY <1>6, <2>1, <2>4 DEF IInv, CommittedSound, WrittenSound
  <2> DEFINE next == [tx[p] EXCEPT !.at = Following(tx[p])]
  <2>6. tx' = [tx EXCEPT ![p] = next] /\ tx \in [Procs -> Request]
    BY <2>1 DEF Continue, IInv, RequestsOK
  <2>7. next \in Request /\ Shape(next) /\ next.id = id
    BY <1>1, FollowingShape
  <2> HIDE DEF next
  <2>8. tx' \in [Procs -> Request] /\ \A q \in Procs : Shape(tx'[q])
    BY <2>6, <2>7 DEF IInv, RequestsOK
  <2>9. ASSUME NEW q \in Procs PROVE SubjectExists(q)'
    <3>1. CASE q # p
      <4>1. tx'[q] = tx[q] /\ pend'[q] = pend[q] /\ db' = db
        BY <2>1, <2>6, <3>1 DEF IInv, WrittenSound
      <4> QED
        BY <4>1 DEF SubjectExists, Subject, View, IInv, RequestsOK
    <3>2. CASE q = p
      <4>1. tx'[p].id = id /\ pend'[p][id] = row /\ row # Clean /\ row # Absent
        BY <2>1, <2>3, <2>4, <2>6, <2>7, CleanIsNoRowValue, AbsentIsNoRow DEF IInv, WrittenSound
      <4> QED
        BY <3>2, <4>1 DEF SubjectExists, Subject, View
    <3> QED
      BY <3>1, <3>2
  <2> QED
    BY <2>5, <2>8, <2>9 DEF IInv, RequestsOK
<1> QED
  BY <1>7, <1>8

\* The adjustment row is written under its key.
LEMMA RecordKeeps ==
  ASSUME IInv, NEW p \in Procs, RecordAdjustment(p)
  PROVE  IInv'
<1>1. Shape(tx[p]) /\ tx[p].at = "record" /\ tx[p].op = "adjust"
  BY DEF IInv, RequestsOK, RecordAdjustment, Shape
<1>2. tx[p].id \in Keys /\ Owner(p) \in Users /\ Delta(p) \in Int
  BY <1>1 DEF Shape, Asked, Owner, Delta
<1> DEFINE balance == View(p, Owner(p)).balance
           row == [user |-> Owner(p), delta |-> Delta(p), before |-> balance - Delta(p), after |-> balance]
<1>3. balance \in Int
  BY <1>2, ViewSound, RowsAreDistinct DEF Sound, Rows, Items, WalletRow
<1>4. row \in AdjustmentRow
  <2> HIDE DEF balance
  <2> QED
    BY <1>2, <1>3 DEF AdjustmentRow
<1>5. Write(p, tx[p].id, row) /\ Continue(p) /\ UNCHANGED db
  BY DEF RecordAdjustment
<1> HIDE DEF row
<1>6. Sound(tx[p].id, row) /\ tx[p].id \in Rows
  BY <1>2, <1>4, RowsAreDistinct DEF Sound, Rows, Items
<1> QED
  BY <1>1, <1>5, <1>6, WriteKeeps

\* Every step keeps the invariant.
LEMMA InvariantStep ==
  ASSUME IInv, [Next]_vars
  PROVE  IInv'
<1>1. CASE UNCHANGED vars
  BY <1>1 DEF vars, IInv, CommittedSound, WrittenSound, RequestsOK, SubjectExists, Subject, View
<1>2. ASSUME NEW p \in Procs, Statement(p) PROVE IInv'
  <2>1. CASE InsertDeposit(p) \/ InsertWithdrawal(p)
    BY <2>1, InsertKeeps
  <2>2. CASE Claim(p) \/ ClaimLink(p) \/ SaveDetails(p)
    BY <2>2, ItemWriteKeeps
  <2>3. CASE Reverse(p) \/ Post(p)
    BY <2>3, AccountWriteKeeps
  <2>4. CASE Pay(p)
    BY <2>4, PayKeeps
  <2>5. CASE RecordAdjustment(p)
    BY <2>5, RecordKeeps
  <2>6. CASE Commit(p)
    BY <2>6, CommitKeeps
  <2>7. CASE InsertRefused(p) \/ ClaimLost(p) \/ ClaimLinkLost(p) \/ PayRefused(p) \/ ReplayAdjustment(p)
    BY <2>7, RollbackKeeps DEF InsertRefused, ClaimLost, ClaimLinkLost, PayRefused, ReplayAdjustment
  <2> QED
    BY <1>2, <2>1, <2>2, <2>3, <2>4, <2>5, <2>6, <2>7 DEF Statement
<1>3. ASSUME NEW p \in Procs, Arrive(p) PROVE IInv'
  BY <1>3, ArriveKeeps
<1>4. ASSUME NEW p \in Procs, Abort(p) \/ BreakDeadlock(p) PROVE IInv'
  BY <1>4, RollbackKeeps DEF Abort, BreakDeadlock
<1> QED
  BY <1>1, <1>2, <1>3, <1>4 DEF Next

-----------------------------------------------------------------------------
(* The theorems *)

\* Committed and uncommitted rows stay typed and explained by their history, and
\* requests keep their shape, in every behaviour of the services.
THEOREM Invariance == Spec => []IInv
<1>1. IInv /\ [Next]_vars => IInv'
  BY InvariantStep
<1> QED
  BY InitSound, <1>1, PTL DEF Spec

\* Every row of every table, committed or being written, keeps its type, and
\* every handler its place (the row types of schema.prisma).
THEOREM TypeCorrectness == Spec => []TypeOK
<1>1. IInv => TypeOK
  <2> SUFFICES ASSUME IInv PROVE TypeOK
    OBVIOUS
  <2>1. TablesTypeOK
    BY RowsAreDistinct DEF IInv, CommittedSound, TablesTypeOK, Sound, Rows, Items
  <2>2. ASSUME NEW p \in Procs
        PROVE  /\ pend[p] = [r \in Rows |-> pend[p][r]]
               /\ \A u \in Users : pend[p][u] \in WalletRow \cup {Clean}
               /\ \A a \in Accounts : pend[p][a] \in AccountRow \cup {Clean}
               /\ \A d \in Deposits : pend[p][d] \in DepositRow \cup {Clean}
               /\ \A w \in Withdrawals : pend[p][w] \in WithdrawalRow \cup {Clean}
               /\ \A k \in Keys : pend[p][k] \in AdjustmentRow \cup {Clean}
    <3>1. \A r \in Rows : pend[p][r] = Clean \/ Sound(r, pend[p][r])
      BY DEF IInv, WrittenSound
    <3>2. pend[p] = [r \in Rows |-> pend[p][r]]
      BY DEF IInv, WrittenSound
    <3> QED
      BY <3>1, <3>2 DEF Sound, Rows, Items
  <2>3. pend = [p \in Procs |-> pend[p]] /\ tx \in [Procs -> Request]
    BY DEF IInv, WrittenSound, RequestsOK
  <2> QED
    BY <2>1, <2>2, <2>3 DEF TypeOK
<1> QED
  BY Invariance, <1>1, PTL

\* The balance of a wallet is always its Transaction rows added up.
THEOREM WalletHistory == Spec => []WalletIsItsHistory
<1>1. IInv => WalletIsItsHistory
  BY RowsAreDistinct DEF IInv, CommittedSound, Sound, Rows, Items, WalletIsItsHistory
<1> QED
  BY Invariance, <1>1, PTL

\* No movement ever leaves a wallet below zero.
THEOREM NoOverdraft == Spec => []NeverOverdrawn
<1>1. IInv => NeverOverdrawn
  BY RowsAreDistinct DEF IInv, CommittedSound, Sound, Rows, Items, NeverOverdrawn
<1> QED
  BY Invariance, <1>1, PTL

\* The balance and totals of a payment account are always those of its ledger.
THEOREM AccountLedger == Spec => []AccountIsItsLedger
<1>1. IInv => AccountIsItsLedger
  BY RowsAreDistinct DEF IInv, CommittedSound, Sound, Rows, Items, AccountIsItsLedger
<1> QED
  BY Invariance, <1>1, PTL

-----------------------------------------------------------------------------
(* Where a request stands: what it has done so far *)

HoldsItem(t) ==
    \/ t.op \in {"approve", "reject"} /\ t.at # "claim"
    \/ t.op = "manual" /\ t.at # "insert"
    \/ t.op = "relink" /\ (t.at = "commit" \/ (t.to # t.seen /\ t.at # "link"))
HasLinked(t) == /\ t.op \in {"approve", "manual", "relink"} /\ t.to # t.seen
                /\ t.at \notin {"insert", "claim", "link"}
HasReversed(t) == HasLinked(t) /\ t.seen # None /\ t.at # "reverse"
HasPosted(t) == HasLinked(t) /\ t.to # None /\ t.at \notin {"reverse", "post"}
HasEntered(t) == t.op = "entry" /\ t.at = "commit"
HasPaid(t) == t.op \in {"approve", "manual", "adjust"} /\ t.at \in {"record", "commit"}
HasRecorded(t) == t.op = "adjust" /\ t.at = "commit"

(* What it makes of the rows, as a function of the committed tables d *)

\* The item before the request, or as an admin enters it.
Original(t, d) == IF t.op = "manual" THEN t.new ELSE d[t.id]
Payee(t, d) == IF t.op = "adjust" THEN t.new.user ELSE Original(t, d).user
Payment(t, d) == IF t.op = "adjust" THEN t.new.delta ELSE WalletDelta(t.id, Original(t, d))

Decided(t, d) == CASE t.op = "approve" -> [d[t.id] EXCEPT !.status = "APPROVED"]
                   [] t.op = "reject"  -> [d[t.id] EXCEPT !.status = "REJECTED"]
                   [] OTHER            -> Original(t, d)
Linked(t, d) == IF HasLinked(t) THEN [Decided(t, d) EXCEPT !.link = t.to] ELSE Decided(t, d)
ItemVersion(t, d) ==
    IF HasPaid(t) /\ t.id \in Deposits
    THEN [Linked(t, d) EXCEPT !.before = d[Payee(t, d)].balance,
                              !.after = d[Payee(t, d)].balance + Payment(t, d)]
    ELSE Linked(t, d)

\* The rows it has written, and so locked.
Locked(t, d) ==
    {r \in Rows : \/ (HoldsItem(t) \/ HasRecorded(t)) /\ r = t.id
                  \/ HasReversed(t) /\ r = t.seen
                  \/ (HasPosted(t) \/ HasEntered(t)) /\ r = t.to
                  \/ HasPaid(t) /\ r = Payee(t, d)}

\* The versions v it has written.
Written(t, d, v) ==
    /\ \A r \in Rows : v[r] # Clean <=> r \in Locked(t, d)
    /\ HoldsItem(t) => v[t.id] = ItemVersion(t, d)
    /\ HasReversed(t) => v[t.seen] = ApplyMovement(d[t.seen], ReversalType(t.id), Original(t, d).amount, t.id)
    /\ HasPosted(t) => v[t.to] = ApplyMovement(d[t.to], ForwardType(t.id), Original(t, d).amount, t.id)
    /\ HasEntered(t) => v[t.to] = ApplyMovement(d[t.to], t.new.type, t.new.amount, None)
    /\ HasPaid(t) => v[Payee(t, d)] = MoveWallet(d[Payee(t, d)], t.id, Payment(t, d))
    /\ HasRecorded(t) => v[t.id] = [user |-> t.new.user, delta |-> t.new.delta,
                                    before |-> d[t.new.user].balance,
                                    after |-> d[t.new.user].balance + t.new.delta]

(* What it has read or checked, and still holds of d *)

Creating(t) == t.op \in {"create", "manual"}
CreateChecked(t, d) ==
    /\ d[t.id] = Absent /\ t.seen = None /\ t.new.link = None
    /\ \/ t.id \in Deposits /\ t.new \in DepositRow /\ t.new.before = None /\ t.new.after = None
       \/ t.id \in Withdrawals /\ t.new \in WithdrawalRow /\ t.op = "create"
    /\ t.op = "create" => t.new.status = "PENDING"
    /\ t.op = "manual" => t.new.status = "APPROVED" /\ t.to \in Accounts

DecisionChecked(t, d) ==
    /\ d[t.id] # Absent
    /\ d[t.id].status = "PENDING" => t.seen = None
    /\ t.at # "claim" => d[t.id].status = "PENDING"
    /\ t.to # None => t.op = "approve" /\ t.id \in Deposits

RelinkChecked(t, d) ==
    /\ d[t.id] # Absent /\ d[t.id].status = "APPROVED"
    /\ HasLinked(t) => d[t.id].link = t.seen

Checked(t, d) ==
    /\ Creating(t) => CreateChecked(t, d)
    /\ t.op \in {"approve", "reject"} => DecisionChecked(t, d)
    /\ t.op = "relink" => RelinkChecked(t, d)
    /\ t.op = "adjust" => t.new.delta \in Amounts \/ -t.new.delta \in Amounts
    /\ t.at \in {"link", "reverse", "post"} /\ t.op # "entry" => t.to # t.seen
    /\ HasPaid(t) => CanMove(d[Payee(t, d)], Payment(t, d))
    /\ HasRecorded(t) => d[t.id] = Absent

Described(t, d, v) == Checked(t, d) /\ Written(t, d, v)

-----------------------------------------------------------------------------
(* The invariant *)

AllDescribed == \A p \in Procs : Described(tx[p], db, pend[p])

\* A row lock has one holder.
LocksExclude == \A p, q \in Procs : p # q => \A r \in Rows : pend[p][r] = Clean \/ pend[q][r] = Clean

\* No other request is about a row that is still to be inserted.
IdsFresh == \A p, q \in Procs : p # q /\ Creating(tx[p]) => tx[q].id # tx[p].id

\* An admin's deposit that has entered the unique index has its reference alone.
Indexed(t) == t.op = "manual" /\ t.at # "insert"
IndexUnique ==
    \A p \in Procs : Indexed(tx[p]) =>
       /\ \A e \in Deposits : ~Live(db[e], tx[p].new.reference)
       /\ \A q \in Procs : q # p /\ Indexed(tx[q]) => tx[q].new.reference # tx[p].new.reference

RInv == IInv /\ AllDescribed /\ LocksExclude /\ IdsFresh /\ IndexUnique /\ PendingUnlinked

-----------------------------------------------------------------------------
(* One request moves while the tables stand still *)

\* A request's step that keeps its own description, takes only free locks and
\* indexes only a free reference keeps the invariant.
LEMMA OneMoves ==
  ASSUME RInv, NEW p \in Procs, IInv', db' = db,
         \A q \in Procs \ {p} : tx'[q] = tx[q] /\ pend'[q] = pend[q],
         Described(tx'[p], db, pend'[p]),
         \A r \in Rows : \A q \in Procs \ {p} : pend'[p][r] = Clean \/ pend[q][r] = Clean,
         \A q \in Procs \ {p} : Creating(tx'[p]) \/ Creating(tx[q]) => tx[q].id # tx'[p].id,
         Indexed(tx'[p]) =>
            /\ \A e \in Deposits : ~Live(db[e], tx'[p].new.reference)
            /\ \A q \in Procs \ {p} : Indexed(tx[q]) => tx[q].new.reference # tx'[p].new.reference
  PROVE  RInv'
<1>1. AllDescribed'
  BY DEF RInv, AllDescribed
<1>2. LocksExclude'
  BY DEF RInv, LocksExclude
<1>3. IdsFresh'
  BY DEF RInv, IdsFresh
<1>4. IndexUnique'
  BY DEF RInv, IndexUnique
<1>5. PendingUnlinked'
  BY DEF RInv, PendingUnlinked
<1> QED
  BY <1>1, <1>2, <1>3, <1>4, <1>5 DEF RInv

\* A request that has written nothing yet.
Starting(t) ==
    \/ t.at \in {"idle", "insert", "claim"}
    \/ t.op = "entry" /\ t.at = "post"
    \/ t.op = "adjust" /\ t.at = "wallet"
    \/ t.op = "relink" /\ t.at = (IF t.to = t.seen THEN "save" ELSE "link")

LEMMA NothingHeld ==
  ASSUME NEW t, NEW d, Starting(t), Shape(t)
  PROVE  /\ ~HoldsItem(t) /\ ~HasLinked(t) /\ ~HasReversed(t) /\ ~HasPosted(t) /\ ~HasEntered(t)
         /\ ~HasPaid(t) /\ ~HasRecorded(t)
         /\ Locked(t, d) = {} /\ Written(t, d, NothingWritten)
<1>1. /\ ~HoldsItem(t) /\ ~HasLinked(t) /\ ~HasReversed(t) /\ ~HasPosted(t) /\ ~HasEntered(t)
      /\ ~HasPaid(t) /\ ~HasRecorded(t)
  BY DEF Starting, Shape, HoldsItem, HasLinked, HasReversed, HasPosted, HasEntered, HasPaid, HasRecorded
<1>2. Locked(t, d) = {}
  BY <1>1 DEF Locked
<1>3. Written(t, d, NothingWritten)
  BY <1>1, <1>2 DEF Written, NothingWritten
<1> QED
  BY <1>1, <1>2, <1>3

LEMMA IdleDescribed ==
  ASSUME NEW d
  PROVE  /\ Idle.id = None /\ Starting(Idle) /\ Shape(Idle) /\ ~Indexed(Idle) /\ ~Creating(Idle)
         /\ Described(Idle, d, NothingWritten)
<1>1. Idle.id = None /\ Starting(Idle) /\ Shape(Idle) /\ ~Indexed(Idle) /\ ~Creating(Idle) /\ Checked(Idle, d)
  BY DEF Idle, Starting, Shape, Indexed, Checked, Creating, HasPaid, HasRecorded
<1>2. Written(Idle, d, NothingWritten)
  BY <1>1, NothingHeld
<1> QED
  BY <1>1, <1>2 DEF Described

\* A request that fails is forgotten.
LEMMA RollbackDescribed ==
  ASSUME RInv, NEW p \in Procs, Rollback(p)
  PROVE  RInv'
<1>1. IInv /\ IInv'
  BY RollbackKeeps DEF RInv
<1>2. /\ db' = db /\ tx'[p] = Idle /\ pend'[p] = NothingWritten
      /\ \A q \in Procs \ {p} : tx'[q] = tx[q] /\ pend'[q] = pend[q]
  BY <1>1 DEF Rollback, Finish, IInv, RequestsOK, WrittenSound
<1>3. \A q \in Procs \ {p} : Creating(tx[q]) => tx[q].id # None
  <2> SUFFICES ASSUME NEW q \in Procs, Creating(tx[q]) PROVE tx[q].id # None
    OBVIOUS
  <2>1. CreateChecked(tx[q], db)
    BY DEF RInv, AllDescribed, Described, Checked
  <2> QED
    BY <2>1, RowsAreDistinct DEF CreateChecked, Rows, Items
<1>4. \A r \in Rows : NothingWritten[r] = Clean
  BY DEF NothingWritten
<1> QED
  BY <1>1, <1>2, <1>3, <1>4, IdleDescribed, OneMoves

\* A request that arrives with what its first statement has read.
LEMMA BeginDescribed ==
  ASSUME RInv, NEW p \in Procs, NEW t, Begin(p, t), IInv', Checked(t, db), Starting(t),
         t.op \in {"create", "manual"} => t.at = "insert" /\ Fresh(t.id),
         t.op = "entry" => t.id = None, t.op # "idle"
  PROVE  RInv'
<1>1. /\ db' = db /\ tx'[p] = t /\ pend' = pend
      /\ \A q \in Procs \ {p} : tx'[q] = tx[q] /\ pend'[q] = pend[q]
  BY DEF Begin, RInv, IInv, RequestsOK
<1>2. Shape(t) /\ t \in Request
  BY <1>1 DEF IInv, RequestsOK
<1>3. \A r \in Rows : pend[p][r] = Clean
  <2>1. tx[p] = Idle /\ Described(tx[p], db, pend[p])
    BY DEF Begin, RInv, AllDescribed
  <2>2. Locked(Idle, db) = {}
    BY IdleDescribed, NothingHeld
  <2> QED
    BY <2>1, <2>2 DEF Described, Written
<1>4. pend[p] = NothingWritten
  BY <1>3 DEF RInv, IInv, WrittenSound, NothingWritten
<1>5. Described(t, db, pend[p])
  BY <1>2, <1>4, NothingHeld DEF Described
<1>6. ~Indexed(t)
  BY DEF Indexed
<1>7. \A q \in Procs \ {p} : Creating(t) \/ Creating(tx[q]) => tx[q].id # t.id
  <2> SUFFICES ASSUME NEW q \in Procs \ {p}, Creating(t) \/ Creating(tx[q]) PROVE tx[q].id # t.id
    OBVIOUS
  <2>1. CASE Creating(t)
    BY <2>1 DEF Creating, Fresh
  <2>2. CASE Creating(tx[q]) /\ ~Creating(t)
    <3>1. db[tx[q].id] = Absent /\ tx[q].id \in Items
      BY <2>2 DEF RInv, AllDescribed, Described, Checked, CreateChecked, Items
    <3>2. t.op \in {"approve", "reject", "relink"} => db[t.id] # Absent
      BY DEF Checked, DecisionChecked, RelinkChecked
    <3>3. t.op \notin {"approve", "reject", "relink"} => t.id \notin Items
      <4>1. t.op \notin {"approve", "reject", "relink"} => t.op \in {"adjust", "entry", "idle"}
        BY <1>2, <2>2 DEF Creating, Request, Ops
      <4> QED
        BY <1>2, <4>1, RowsAreDistinct DEF Shape, Rows, Items
    <3> QED
      BY <3>1, <3>2, <3>3
  <2> QED
    BY <2>1, <2>2
<1> QED
  BY <1>1, <1>3, <1>5, <1>6, <1>7, OneMoves

\* Every first statement has read what its request goes on to rely on.
LEMMA ArriveDescribed ==
  ASSUME RInv, NEW p \in Procs, Arrive(p)
  PROVE  RInv'
<1>1. IInv' /\ IInv
  BY ArriveKeeps DEF RInv
<1>2. ASSUME NEW d \in Deposits, NEW u \in Users, NEW n \in Amounts, NEW x \in References, NEW a \in Link,
             Fresh(d),
             Begin(p, [op |-> IF a = None THEN "create" ELSE "manual", at |-> "insert", id |-> d,
                       new |-> [status |-> IF a = None THEN "PENDING" ELSE "APPROVED", user |-> u,
                                amount |-> n, reference |-> x, link |-> None,
                                before |-> None, after |-> None],
                       seen |-> None, to |-> a])
      PROVE  RInv'
  <2> DEFINE row == [status |-> IF a = None THEN "PENDING" ELSE "APPROVED", user |-> u,
                     amount |-> n, reference |-> x, link |-> None, before |-> None, after |-> None]
             t == [op |-> IF a = None THEN "create" ELSE "manual", at |-> "insert", id |-> d,
                   new |-> row, seen |-> None, to |-> a]
  <2>1. /\ row \in DepositRow /\ row.before = None /\ row.after = None /\ row.link = None
        /\ row.status = IF a = None THEN "PENDING" ELSE "APPROVED"
    BY DEF DepositRow, Status, Link
  <2>2. db[d] = Absent
    BY <1>2 DEF Fresh
  <2> HIDE DEF row
  <2>3. /\ t.at = "insert" /\ t.id = d /\ t.new = row /\ t.seen = None /\ t.to = a
        /\ t.op = IF a = None THEN "create" ELSE "manual"
    OBVIOUS
  <2>4. Begin(p, t)
    BY <1>2 DEF row
  <2> HIDE DEF t
  <2>5. Checked(t, db)
    BY <2>1, <2>2, <2>3 DEF Checked, Creating, CreateChecked, HasPaid, HasRecorded, Link
  <2> QED
    BY <1>1, <1>2, <2>3, <2>4, <2>5, BeginDescribed DEF Starting
<1>3. ASSUME NEW w \in Withdrawals, NEW u \in Users, NEW n \in Amounts, Fresh(w),
             Begin(p, [op |-> "create", at |-> "insert", id |-> w,
                       new |-> [status |-> "PENDING", user |-> u, amount |-> n, link |-> None],
                       seen |-> None, to |-> None])
      PROVE  RInv'
  <2> DEFINE row == [status |-> "PENDING", user |-> u, amount |-> n, link |-> None]
             t == [op |-> "create", at |-> "insert", id |-> w, new |-> row, seen |-> None, to |-> None]
  <2>1. row \in WithdrawalRow /\ row.link = None /\ row.status = "PENDING"
    BY DEF WithdrawalRow, Status, Link
  <2>2. db[w] = Absent
    BY <1>3 DEF Fresh
  <2> HIDE DEF row
  <2>3. t.at = "insert" /\ t.id = w /\ t.new = row /\ t.seen = None /\ t.op = "create"
    OBVIOUS
  <2>4. Begin(p, t)
    BY <1>3 DEF row
  <2> HIDE DEF t
  <2>5. Checked(t, db)
    BY <2>1, <2>2, <2>3 DEF Checked, Creating, CreateChecked, HasPaid, HasRecorded
  <2> QED
    BY <1>1, <1>3, <2>3, <2>4, <2>5, BeginDescribed DEF Starting
<1>4. ASSUME NEW i \in Items, NEW op \in {"approve", "reject"}, NEW a \in Link, db[i] # Absent,
             a # None => op = "approve" /\ i \in Deposits,
             Begin(p, [op |-> op, at |-> "claim", id |-> i, new |-> None,
                       seen |-> db[i].link, to |-> a])
      PROVE  RInv'
  <2> DEFINE t == [op |-> op, at |-> "claim", id |-> i, new |-> None, seen |-> db[i].link, to |-> a]
  <2>1. t.at = "claim" /\ t.id = i /\ t.seen = db[i].link /\ t.op = op /\ t.to = a
    OBVIOUS
  <2>2. Begin(p, t)
    BY <1>4
  <2> HIDE DEF t
  <2>3. Checked(t, db)
    BY <1>4, <2>1 DEF Checked, Creating, DecisionChecked, HasPaid, HasRecorded, RInv, PendingUnlinked
  <2> QED
    BY <1>1, <2>1, <2>2, <2>3, BeginDescribed DEF Starting
<1>5. ASSUME NEW i \in Items, NEW a \in Link, db[i] # Absent, db[i].status = "APPROVED",
             Begin(p, [op |-> "relink", at |-> IF a = db[i].link THEN "save" ELSE "link", id |-> i,
                       new |-> None, seen |-> db[i].link, to |-> a])
      PROVE  RInv'
  <2> DEFINE t == [op |-> "relink", at |-> IF a = db[i].link THEN "save" ELSE "link", id |-> i,
                   new |-> None, seen |-> db[i].link, to |-> a]
  <2>1. /\ t.at = (IF a = db[i].link THEN "save" ELSE "link") /\ t.id = i /\ t.seen = db[i].link
        /\ t.op = "relink" /\ t.to = a
    OBVIOUS
  <2>2. Begin(p, t)
    BY <1>5
  <2> HIDE DEF t
  <2>3. Starting(t)
    BY <2>1 DEF Starting
  <2>4. Shape(t)
    BY <1>1, <2>2 DEF Begin, IInv, RequestsOK
  <2>5. Checked(t, db)
    BY <1>5, <2>1, <2>3, <2>4, NothingHeld DEF Checked, Creating, RelinkChecked
  <2> QED
    BY <1>1, <2>1, <2>2, <2>3, <2>5, BeginDescribed
<1>6. ASSUME NEW k \in Keys, NEW u \in Users, NEW n \in Amounts, NEW sign \in {1, -1},
             Begin(p, [op |-> "adjust", at |-> "wallet", id |-> k,
                       new |-> [user |-> u, delta |-> sign * n], seen |-> None, to |-> None])
      PROVE  RInv'
  <2> DEFINE delta == sign * n
             t == [op |-> "adjust", at |-> "wallet", id |-> k,
                   new |-> [user |-> u, delta |-> delta], seen |-> None, to |-> None]
  <2>1. n \in Int
    BY AmountsArePositive
  <2>2. delta \in Amounts \/ -delta \in Amounts
    <3>1. delta = n \/ delta = -n
      BY <2>1
    <3> QED
      BY <2>1, <3>1
  <2> HIDE DEF delta
  <2>3. t.at = "wallet" /\ t.op = "adjust" /\ t.new.delta = delta
    OBVIOUS
  <2>4. Begin(p, t)
    BY <1>6 DEF delta
  <2> HIDE DEF t
  <2>5. Checked(t, db)
    BY <2>2, <2>3 DEF Checked, Creating, HasPaid, HasRecorded
  <2> QED
    BY <1>1, <2>3, <2>4, <2>5, BeginDescribed DEF Starting
<1>7. ASSUME NEW a \in Accounts, NEW type \in ManualTypes, NEW n \in Amounts,
             Begin(p, [op |-> "entry", at |-> "post", id |-> None,
                       new |-> [type |-> type, amount |-> n], seen |-> None, to |-> a])
      PROVE  RInv'
  <2> DEFINE t == [op |-> "entry", at |-> "post", id |-> None,
                   new |-> [type |-> type, amount |-> n], seen |-> None, to |-> a]
  <2>1. t.at = "post" /\ t.op = "entry" /\ t.id = None
    OBVIOUS
  <2>2. Begin(p, t)
    BY <1>7
  <2> HIDE DEF t
  <2>3. Checked(t, db)
    BY <2>1 DEF Checked, Creating, HasPaid, HasRecorded
  <2> QED
    BY <1>1, <2>1, <2>2, <2>3, BeginDescribed DEF Starting
<1>8. CASE PrecheckDeposit(p)
  BY <1>2, <1>8 DEF PrecheckDeposit
<1>9. CASE PrecheckWithdrawal(p)
  BY <1>3, <1>9 DEF PrecheckWithdrawal
<1>10. CASE ReadForDecision(p)
  BY <1>4, <1>10 DEF ReadForDecision
<1>11. CASE ReadForRelink(p)
  BY <1>5, <1>11 DEF ReadForRelink
<1>12. CASE ProbeKey(p)
  BY <1>6, <1>12 DEF ProbeKey
<1>13. CASE ReadAccount(p)
  BY <1>7, <1>13 DEF ReadAccount
<1> QED
  BY <1>8, <1>9, <1>10, <1>11, <1>12, <1>13 DEF Arrive

-----------------------------------------------------------------------------
(* What a statement makes of the description of its transaction *)

\* n is t, standing at its next statement.
Proceeds(t, n) == /\ n.op = t.op /\ n.id = t.id /\ n.new = t.new /\ n.seen = t.seen /\ n.to = t.to
                  /\ n.at = Following(t)

\* The version of a row that a transaction with versions v works on.
Seen(d, v, r) == IF v[r] = Clean THEN d[r] ELSE v[r]

\* The transaction writes one row.
Writes(v, w, r) == w[r] # Clean /\ \A s \in Rows : s # r => w[s] = v[s]

LEMMA SameIntent ==
  ASSUME NEW t, NEW n, NEW d, Proceeds(t, n)
  PROVE  /\ Original(n, d) = Original(t, d) /\ Payee(n, d) = Payee(t, d)
         /\ Payment(n, d) = Payment(t, d) /\ Decided(n, d) = Decided(t, d)
<1>1. Original(n, d) = Original(t, d)
  BY DEF Proceeds, Original
<1>2. Payee(n, d) = Payee(t, d) /\ Payment(n, d) = Payment(t, d) /\ Decided(n, d) = Decided(t, d)
  BY <1>1 DEF Proceeds, Payee, Payment, Decided
<1> QED
  BY <1>1, <1>2

\* Where the statements lead, handler by handler.
LEMMA FollowingTable ==
  ASSUME NEW t, Shape(t)
  PROVE  /\ t.at = "insert" /\ t.op = "manual" => Following(t) = IF t.to = t.seen THEN "wallet" ELSE "link"
         /\ t.at = "claim" => Following(t) = IF t.op = "reject" THEN "commit"
                                             ELSE IF t.to = t.seen THEN "wallet" ELSE "link"
         /\ t.at = "link" => Following(t) = IF t.seen # None THEN "reverse" ELSE "post"
         /\ t.at = "reverse" => Following(t) = IF t.to # None THEN "post"
                                               ELSE IF t.op = "relink" THEN "save" ELSE "wallet"
         /\ t.at = "post" => Following(t) = IF t.op = "relink" THEN "save"
                                            ELSE IF t.op = "entry" THEN "commit" ELSE "wallet"
         /\ t.at = "wallet" => Following(t) = IF t.op = "adjust" THEN "record" ELSE "commit"
         /\ t.at \in {"record", "save"} => Following(t) = "commit"
BY DEF Following, Shape

\* A decision claims its item.
LEMMA ClaimDescribes ==
  ASSUME NEW t, NEW n, NEW d, NEW v, NEW w, Proceeds(t, n), Shape(t), Described(t, d, v),
         t.at = "claim", Seen(d, v, t.id).status = "PENDING", Writes(v, w, t.id),
         w[t.id] = [Seen(d, v, t.id) EXCEPT !.status = IF t.op = "approve" THEN "APPROVED" ELSE "REJECTED"]
  PROVE  Described(n, d, w)
<1>1. t.op \in {"approve", "reject"} /\ t.id \in Items /\ t.id \in Rows
  BY DEF Shape, Rows
<1>2. n.at = IF t.op = "reject" THEN "commit" ELSE IF t.to = t.seen THEN "wallet" ELSE "link"
  BY FollowingTable DEF Proceeds
<1>3. \A r \in Rows : v[r] = Clean
  <2>1. Locked(t, d) = {} /\ Written(t, d, v)
    BY NothingHeld DEF Starting, Described
  <2> QED
    BY <2>1 DEF Written
<1>4. /\ HoldsItem(n) /\ ~HasLinked(n) /\ ~HasReversed(n) /\ ~HasPosted(n) /\ ~HasEntered(n)
      /\ ~HasPaid(n) /\ ~HasRecorded(n)
  BY <1>1, <1>2 DEF Proceeds, HoldsItem, HasLinked, HasReversed, HasPosted, HasEntered, HasPaid, HasRecorded
<1>5. Locked(n, d) = {t.id}
  BY <1>1, <1>4 DEF Locked, Proceeds
<1>6. w[t.id] = ItemVersion(n, d)
  BY <1>1, <1>3, <1>4 DEF ItemVersion, Linked, Decided, Proceeds, Seen
<1>7. Written(n, d, w)
  BY <1>1, <1>3, <1>4, <1>5, <1>6 DEF Written, Writes, Proceeds
<1>8. Checked(n, d)
  BY <1>1, <1>2, <1>3, <1>4 DEF Described, Checked, DecisionChecked, Creating, Proceeds, Seen
<1> QED
  BY <1>7, <1>8 DEF Described

\* An admin's deposit is inserted.
LEMMA InsertDescribes ==
  ASSUME NEW t, NEW n, NEW d, NEW v, NEW w, Proceeds(t, n), Shape(t), Described(t, d, v),
         t.at = "insert", t.op = "manual", Writes(v, w, t.id), w[t.id] = t.new
  PROVE  Described(n, d, w)
<1>1. t.id \in Items /\ t.id \in Rows /\ t.to \in Accounts /\ t.seen = None /\ t.to # t.seen
  BY RowsAreDistinct DEF Shape, Rows, Described, Checked, Creating, CreateChecked
<1>2. n.at = "link"
  BY <1>1, FollowingTable DEF Proceeds
<1>3. \A r \in Rows : v[r] = Clean
  <2>1. Locked(t, d) = {} /\ Written(t, d, v)
    BY NothingHeld DEF Starting, Described
  <2> QED
    BY <2>1 DEF Written
<1>4. /\ HoldsItem(n) /\ ~HasLinked(n) /\ ~HasReversed(n) /\ ~HasPosted(n) /\ ~HasEntered(n)
      /\ ~HasPaid(n) /\ ~HasRecorded(n)
  BY <1>1, <1>2 DEF Proceeds, HoldsItem, HasLinked, HasReversed, HasPosted, HasEntered, HasPaid, HasRecorded
<1>5. Locked(n, d) = {t.id}
  BY <1>1, <1>4 DEF Locked, Proceeds
<1>6. w[t.id] = ItemVersion(n, d)
  BY <1>4 DEF ItemVersion, Linked, Decided, Original, Proceeds
<1>7. Written(n, d, w)
  BY <1>1, <1>3, <1>4, <1>5, <1>6 DEF Written, Writes, Proceeds
<1>8. Checked(n, d)
  BY <1>1, <1>2, <1>3, <1>4 DEF Described, Checked, CreateChecked, Creating, Proceeds
<1> QED
  BY <1>7, <1>8 DEF Described

\* The link of the item is claimed.
LEMMA LinkDescribes ==
  ASSUME NEW t, NEW n, NEW d, NEW v, NEW w, Proceeds(t, n), Shape(t), Described(t, d, v),
         t.at = "link", Seen(d, v, t.id).link = t.seen, Writes(v, w, t.id),
         w[t.id] = [Seen(d, v, t.id) EXCEPT !.link = t.to]
  PROVE  Described(n, d, w)
<1>1. /\ t.op \in {"approve", "manual", "relink"} /\ t.id \in Items /\ t.id \in Rows
      /\ t.to # t.seen
  BY DEF Shape, Rows
<1>2. n.at = IF t.seen # None THEN "reverse" ELSE "post"
  BY FollowingTable DEF Proceeds
<1>3. /\ HoldsItem(t) <=> t.op # "relink"
      /\ ~HasLinked(t) /\ ~HasReversed(t) /\ ~HasPosted(t) /\ ~HasEntered(t) /\ ~HasPaid(t) /\ ~HasRecorded(t)
  BY <1>1 DEF HoldsItem, HasLinked, HasReversed, HasPosted, HasEntered, HasPaid, HasRecorded
<1>4. /\ HoldsItem(n) /\ HasLinked(n) /\ ~HasReversed(n) /\ ~HasPosted(n) /\ ~HasEntered(n)
      /\ ~HasPaid(n) /\ ~HasRecorded(n)
  BY <1>1, <1>2 DEF Proceeds, HoldsItem, HasLinked, HasReversed, HasPosted, HasEntered, HasPaid, HasRecorded
<1>5. \A r \in Rows : r # t.id => v[r] = Clean
  BY <1>1, <1>3 DEF Described, Written, Locked
<1>6. Seen(d, v, t.id) = Decided(t, d)
  <2>1. CASE t.op = "relink"
    <3>1. v[t.id] = Clean
      BY <1>1, <1>3, <2>1 DEF Described, Written, Locked
    <3> QED
      BY <2>1, <3>1 DEF Seen, Decided, Original
  <2>2. CASE t.op # "relink"
    <3>1. v[t.id] # Clean /\ v[t.id] = ItemVersion(t, d)
      BY <1>1, <1>3, <2>2 DEF Described, Written, Locked
    <3> QED
      BY <1>3, <3>1 DEF Seen, ItemVersion, Linked
  <2> QED
    BY <2>1, <2>2
<1>7. Locked(n, d) = {t.id}
  BY <1>1, <1>4 DEF Locked, Proceeds
<1>8. w[t.id] = ItemVersion(n, d)
  BY <1>4, <1>6, SameIntent DEF ItemVersion, Linked, Proceeds
<1>9. Written(n, d, w)
  BY <1>1, <1>4, <1>5, <1>7, <1>8 DEF Written, Writes, Proceeds
<1>10. Checked(n, d)
  <2>1. t.op = "relink" => d[t.id].link = t.seen
    BY <1>6 DEF Decided, Original
  <2> QED
    BY <1>1, <1>2, <1>4, <2>1
       DEF Described, Checked, CreateChecked, DecisionChecked, RelinkChecked, Creating, Proceeds
<1> QED
  BY <1>9, <1>10 DEF Described

\* An item's row, of its own table.
ItemRow(i, row) == /\ i \in Deposits => row \in DepositRow
                   /\ i \in Withdrawals => row \in WithdrawalRow

\* What a decision makes of a status.
StatusMade(t, status) == CASE t.op = "approve" -> "APPROVED"
                           [] t.op = "reject"  -> "REJECTED"
                           [] OTHER            -> status

\* Deciding, linking and paying an item leaves its owner, amount and reference alone.
LEMMA VersionFields ==
  ASSUME NEW t, NEW d, t.id \in Items, ItemRow(t.id, Original(t, d))
  PROVE  /\ ItemVersion(t, d).amount = Original(t, d).amount
         /\ ItemVersion(t, d).user = Original(t, d).user
         /\ t.id \in Deposits => ItemVersion(t, d).reference = Original(t, d).reference
         /\ ItemVersion(t, d).status = StatusMade(t, Original(t, d).status)
<1> DEFINE i == t.id
           fields == IF i \in Deposits
                     THEN {"status", "user", "amount", "reference", "link", "before", "after"}
                     ELSE {"status", "user", "amount", "link"}
           Keeps(row) == /\ DOMAIN row = fields
                         /\ row.amount = Original(t, d).amount /\ row.user = Original(t, d).user
                         /\ i \in Deposits => row.reference = Original(t, d).reference
                         /\ row.status = StatusMade(t, Original(t, d).status)
<1>1. DOMAIN Original(t, d) = fields
  BY DEF ItemRow, DepositRow, WithdrawalRow, Items
<1>2. Keeps(Decided(t, d))
  <2>1. CASE t.op \in {"approve", "reject"}
    <3>1. Original(t, d) = d[t.id]
      BY <2>1 DEF Original
    <3> QED
      BY <1>1, <2>1, <3>1 DEF Decided, StatusMade
  <2>2. CASE t.op \notin {"approve", "reject"}
    BY <1>1, <2>2 DEF Decided, StatusMade
  <2> QED
    BY <2>1, <2>2
<1>3. Keeps(Linked(t, d))
  BY <1>2 DEF Linked
<1> QED
  BY <1>3 DEF ItemVersion

\* While its item is linked and posted, a transaction works on the item's row as
\* it will be, and on every account it has not posted to as it is committed.
LEMMA LinkingView ==
  ASSUME NEW t, NEW d, NEW v, Shape(t), Described(t, d, v), t.op # "entry",
         t.at \in {"reverse", "post", "wallet"}, t.op # "adjust", ItemRow(t.id, Original(t, d))
  PROVE  /\ t.id \in Items /\ t.id \in Rows
         /\ HoldsItem(t) /\ ~HasPaid(t) /\ ~HasEntered(t) /\ ~HasRecorded(t)
         /\ v[t.id] # Clean /\ Seen(d, v, t.id) = Linked(t, d)
         /\ Seen(d, v, t.id).amount = Original(t, d).amount
         /\ Seen(d, v, t.id).user = Original(t, d).user
<1>1. t.op \in {"approve", "manual", "relink"} /\ t.id \in Items /\ t.id \in Rows
  BY DEF Shape, Rows
<1>2. HoldsItem(t) /\ ~HasPaid(t) /\ ~HasEntered(t) /\ ~HasRecorded(t)
  BY <1>1 DEF Shape, HoldsItem, HasPaid, HasEntered, HasRecorded, Described, Checked
<1>3. v[t.id] # Clean /\ v[t.id] = ItemVersion(t, d)
  BY <1>1, <1>2 DEF Described, Written, Locked
<1>4. ItemVersion(t, d) = Linked(t, d)
  BY <1>2 DEF ItemVersion
<1> QED
  BY <1>1, <1>2, <1>3, <1>4, VersionFields DEF Seen

\* The old account's posting is reversed.
LEMMA ReverseDescribes ==
  ASSUME NEW t, NEW n, NEW d, NEW v, NEW w, Proceeds(t, n), Shape(t), Described(t, d, v),
         ItemRow(t.id, Original(t, d)), t.at = "reverse", Writes(v, w, t.seen),
         w[t.seen] = ApplyMovement(Seen(d, v, t.seen), ReversalType(t.id), Seen(d, v, t.id).amount, t.id)
  PROVE  Described(n, d, w)
<1>1. /\ t.op \in {"approve", "manual", "relink"} /\ t.to # t.seen /\ t.seen \in Accounts
      /\ t.seen \in Rows /\ t.seen # None
  BY RowsAreDistinct DEF Shape, Described, Checked, Rows
<1>2. n.at = IF t.to # None THEN "post" ELSE IF t.op = "relink" THEN "save" ELSE "wallet"
  BY FollowingTable DEF Proceeds
<1>3. /\ t.id \in Items /\ t.id \in Rows /\ HoldsItem(t) /\ ~HasPaid(t) /\ ~HasEntered(t) /\ ~HasRecorded(t)
      /\ v[t.id] # Clean /\ Seen(d, v, t.id) = Linked(t, d)
      /\ Seen(d, v, t.id).amount = Original(t, d).amount
  BY <1>1, LinkingView
<1>4. HasLinked(t) /\ ~HasReversed(t) /\ ~HasPosted(t)
  BY <1>1 DEF HasLinked, HasReversed, HasPosted
<1>5. /\ HoldsItem(n) /\ HasLinked(n) /\ HasReversed(n) /\ ~HasPosted(n) /\ ~HasEntered(n)
      /\ ~HasPaid(n) /\ ~HasRecorded(n)
  BY <1>1, <1>2 DEF Proceeds, HoldsItem, HasLinked, HasReversed, HasPosted, HasEntered, HasPaid, HasRecorded
<1>6. \A r \in Rows : v[r] # Clean <=> r = t.id
  BY <1>3, <1>4 DEF Described, Written, Locked
<1>7. t.seen # t.id
  BY <1>1, <1>3, RowsAreDistinct
<1>8. Locked(n, d) = {t.id, t.seen}
  BY <1>1, <1>3, <1>5 DEF Locked, Proceeds
<1>9. w[t.id] = ItemVersion(n, d)
  <2>1. w[t.id] = Linked(t, d)
    BY <1>3, <1>7 DEF Writes, Seen
  <2> QED
    BY <1>4, <1>5, <2>1, SameIntent DEF ItemVersion, Linked, Proceeds
<1>10. w[n.seen] = ApplyMovement(d[n.seen], ReversalType(n.id), Original(n, d).amount, n.id)
  BY <1>1, <1>3, <1>6, <1>7, SameIntent DEF Proceeds, Seen
<1>11. Written(n, d, w)
  BY <1>1, <1>3, <1>5, <1>6, <1>8, <1>9, <1>10 DEF Written, Writes, Proceeds
<1>12. Checked(n, d)
  BY <1>1, <1>2, <1>4, <1>5
     DEF Described, Checked, CreateChecked, DecisionChecked, RelinkChecked, Creating, Proceeds
<1> QED
  BY <1>11, <1>12 DEF Described

\* The new account is posted to, or a manual entry is made.
LEMMA PostDescribes ==
  ASSUME NEW t, NEW n, NEW d, NEW v, NEW w, Proceeds(t, n), Shape(t), Described(t, d, v),
         t.op # "entry" => ItemRow(t.id, Original(t, d)), t.seen \in Link, t.at = "post", Writes(v, w, t.to),
         w[t.to] = IF t.op = "entry"
                   THEN ApplyMovement(Seen(d, v, t.to), t.new.type, t.new.amount, None)
                   ELSE ApplyMovement(Seen(d, v, t.to), ForwardType(t.id), Seen(d, v, t.id).amount, t.id)
  PROVE  Described(n, d, w)
<1>1. /\ t.op \in {"approve", "manual", "relink", "entry"} /\ t.to \in Accounts
      /\ t.to \in Rows /\ t.to # None
  BY RowsAreDistinct DEF Shape, Rows
<1>2. n.at = IF t.op = "relink" THEN "save" ELSE IF t.op = "entry" THEN "commit" ELSE "wallet"
  BY FollowingTable DEF Proceeds
<1>3. CASE t.op = "entry"
  <2>1. \A r \in Rows : v[r] = Clean
    <3>1. Locked(t, d) = {} /\ Written(t, d, v)
      BY <1>3, NothingHeld DEF Starting, Described
    <3> QED
      BY <3>1 DEF Written
  <2>2. /\ ~HoldsItem(n) /\ ~HasLinked(n) /\ ~HasReversed(n) /\ ~HasPosted(n) /\ HasEntered(n)
        /\ ~HasPaid(n) /\ ~HasRecorded(n)
    BY <1>2, <1>3 DEF Proceeds, HoldsItem, HasLinked, HasReversed, HasPosted, HasEntered, HasPaid, HasRecorded
  <2>3. Locked(n, d) = {t.to}
    BY <1>1, <2>2 DEF Locked, Proceeds
  <2>4. w[n.to] = ApplyMovement(d[n.to], n.new.type, n.new.amount, None)
    BY <1>1, <1>3, <2>1 DEF Proceeds, Seen
  <2>5. Written(n, d, w)
    BY <1>1, <2>1, <2>2, <2>3, <2>4 DEF Written, Writes
  <2>6. Checked(n, d)
    BY <1>2, <1>3, <2>2 DEF Checked, Creating, Proceeds
  <2> QED
    BY <2>5, <2>6 DEF Described
<1>4. CASE t.op # "entry"
  <2>1. t.to # t.seen
    BY <1>4 DEF Described, Checked
  <2>2. /\ t.id \in Items /\ t.id \in Rows /\ HoldsItem(t) /\ ~HasPaid(t) /\ ~HasEntered(t) /\ ~HasRecorded(t)
        /\ v[t.id] # Clean /\ Seen(d, v, t.id) = Linked(t, d)
        /\ Seen(d, v, t.id).amount = Original(t, d).amount
    BY <1>1, <1>4, LinkingView
  <2>3. HasLinked(t) /\ ~HasPosted(t) /\ (HasReversed(t) <=> t.seen # None)
    BY <1>1, <1>4, <2>1 DEF HasLinked, HasReversed, HasPosted
  <2>4. /\ HoldsItem(n) /\ HasLinked(n) /\ HasPosted(n) /\ ~HasEntered(n) /\ ~HasPaid(n) /\ ~HasRecorded(n)
        /\ HasReversed(n) <=> HasReversed(t)
    BY <1>1, <1>2, <1>4, <2>1
       DEF Proceeds, HoldsItem, HasLinked, HasReversed, HasPosted, HasEntered, HasPaid, HasRecorded
  <2>5. \A r \in Rows : v[r] # Clean <=> r = t.id \/ (HasReversed(t) /\ r = t.seen)
    BY <2>2, <2>3 DEF Described, Written, Locked
  <2>6. t.to # t.id /\ v[t.to] = Clean
    BY <1>1, <2>1, <2>2, <2>5, RowsAreDistinct
  <2>7. Locked(n, d) = {r \in Rows : r = t.id \/ (HasReversed(t) /\ r = t.seen) \/ r = t.to}
    BY <2>4 DEF Locked, Proceeds
  <2>8. w[t.id] = ItemVersion(n, d)
    <3>1. w[t.id] = Linked(t, d)
      BY <2>2, <2>6 DEF Writes, Seen
    <3> QED
      BY <2>3, <2>4, <3>1, SameIntent DEF ItemVersion, Linked, Proceeds
  <2>9. HasReversed(n) => w[n.seen] = ApplyMovement(d[n.seen], ReversalType(n.id), Original(n, d).amount, n.id)
    <3> SUFFICES ASSUME HasReversed(n)
                 PROVE  w[t.seen] = ApplyMovement(d[t.seen], ReversalType(t.id), Original(t, d).amount, t.id)
      BY SameIntent DEF Proceeds
    <3>1. v[t.seen] = ApplyMovement(d[t.seen], ReversalType(t.id), Original(t, d).amount, t.id)
      BY <2>4 DEF Described, Written
    <3>2. t.seen \in Rows
      BY <2>4 DEF HasReversed, Link, Rows
    <3> QED
      BY <2>1, <3>1, <3>2 DEF Writes
  <2>10. w[n.to] = ApplyMovement(d[n.to], ForwardType(n.id), Original(n, d).amount, n.id)
    BY <1>4, <2>2, <2>6, SameIntent DEF Proceeds, Seen
  <2>11. Written(n, d, w)
    BY <1>1, <2>2, <2>4, <2>5, <2>7, <2>8, <2>9, <2>10 DEF Written, Writes, Proceeds
  <2>12. Checked(n, d)
    BY <1>1, <1>2, <1>4, <2>3, <2>4
       DEF Described, Checked, CreateChecked, DecisionChecked, RelinkChecked, Creating, Proceeds
  <2> QED
    BY <2>11, <2>12 DEF Described
<1> QED
  BY <1>3, <1>4

\* Whom a request pays, and how much, when its item is row.
OwnerOf(t, row) == IF t.op = "adjust" THEN t.new.user ELSE row.user
DeltaOf(t, row) == IF t.op = "adjust" THEN t.new.delta ELSE WalletDelta(t.id, row)

\* A deposit with the balances around its credit.
Balanced(row, before, after) == [row EXCEPT !.before = before, !.after = after]

\* The owner is paid, or pays.
LEMMA PayDescribes ==
  ASSUME NEW t, NEW n, NEW d, NEW v, NEW w, NEW owner \in Users, NEW delta,
         Proceeds(t, n), Shape(t), Described(t, d, v), t.seen \in Link, t.to \in Link,
         t.op # "adjust" => ItemRow(t.id, Original(t, d)), t.at = "wallet",
         owner = OwnerOf(t, Seen(d, v, t.id)), delta = DeltaOf(t, Seen(d, v, t.id)),
         CanMove(Seen(d, v, owner), delta),
         w[owner] # Clean, w[owner] = MoveWallet(Seen(d, v, owner), t.id, delta),
         t.id \in Deposits =>
            w[t.id] # Clean /\ w[t.id] = Balanced(Seen(d, v, t.id), Seen(d, v, owner).balance, w[owner].balance),
         \A s \in Rows : s # owner /\ (t.id \in Deposits => s # t.id) => w[s] = v[s]
  PROVE  Described(n, d, w)
<1>1. t.op \in {"approve", "manual", "adjust"}
  BY DEF Shape
<1>2. n.at = IF t.op = "adjust" THEN "record" ELSE "commit"
  BY FollowingTable DEF Proceeds
<1>3. owner = Payee(t, d) /\ delta = Payment(t, d)
  <2>1. CASE t.op = "adjust"
    BY <2>1 DEF Payee, Payment, OwnerOf, DeltaOf
  <2>2. CASE t.op # "adjust"
    <3>1. Seen(d, v, t.id).user = Original(t, d).user /\ Seen(d, v, t.id).amount = Original(t, d).amount
      BY <1>1, <2>2, LinkingView
    <3> QED
      BY <2>2, <3>1 DEF Payee, Payment, WalletDelta, OwnerOf, DeltaOf
  <2> QED
    BY <2>1, <2>2
<1>4. /\ HoldsItem(t) <=> t.op # "adjust"
      /\ ~HasPaid(t) /\ ~HasEntered(t) /\ ~HasRecorded(t)
  BY <1>1 DEF HoldsItem, HasPaid, HasEntered, HasRecorded
<1>5. /\ HoldsItem(n) <=> HoldsItem(t)
      /\ HasLinked(n) <=> HasLinked(t)
      /\ HasReversed(n) <=> HasReversed(t)
      /\ HasPosted(n) <=> HasPosted(t)
      /\ HasPaid(n) /\ ~HasEntered(n) /\ ~HasRecorded(n)
  BY <1>1, <1>2 DEF Proceeds, HoldsItem, HasLinked, HasReversed, HasPosted, HasEntered, HasPaid, HasRecorded
<1>6. /\ t.op # "adjust" => t.id \in Items /\ t.id \in Rows /\ v[t.id] # Clean /\ Seen(d, v, t.id) = Linked(t, d)
      /\ t.op = "adjust" => t.id \in Keys /\ t.id \notin Deposits
  BY <1>1, LinkingView, RowsAreDistinct DEF Shape, Items
<1>7. owner \in Rows /\ owner \notin Items \cup Accounts \cup Keys /\ owner # None
  BY RowsAreDistinct DEF Rows
<1>8. owner # t.id /\ owner # t.seen /\ owner # t.to
  BY <1>6, <1>7 DEF Link
<1>9. v[owner] = Clean /\ Seen(d, v, owner) = d[owner]
  BY <1>4, <1>7, <1>8 DEF Described, Written, Locked, Seen
<1>10. Locked(n, d) = Locked(t, d) \cup {owner}
  BY <1>3, <1>4, <1>5, <1>7, SameIntent DEF Locked, Proceeds
<1>11. \A r \in Rows : w[r] # Clean <=> r \in Locked(n, d)
  <2>1. \A r \in Rows : v[r] # Clean <=> r \in Locked(t, d)
    BY DEF Described, Written
  <2>2. \A r \in Rows : r # owner /\ r # t.id => w[r] = v[r]
    OBVIOUS
  <2>3. t.id \in Deposits => v[t.id] # Clean /\ w[t.id] # Clean
    BY <1>6
  <2>4. t.id \in Rows /\ t.id \notin Deposits => w[t.id] = v[t.id]
    BY <1>8
  <2> QED
    BY <1>7, <1>10, <2>1, <2>2, <2>3, <2>4
<1>12. HoldsItem(n) => w[n.id] = ItemVersion(n, d)
  <2> SUFFICES ASSUME t.op # "adjust" PROVE w[t.id] = ItemVersion(n, d)
    BY <1>4, <1>5 DEF Proceeds
  <2>1. Linked(n, d) = Linked(t, d) /\ Payee(n, d) = owner /\ Payment(n, d) = delta
    BY <1>3, <1>5, SameIntent DEF Linked, Proceeds
  <2>2. CASE t.id \in Deposits
    <3>1. w[owner].balance = d[owner].balance + delta
      BY <1>9 DEF MoveWallet
    <3> QED
      <4>1. w[t.id] = [Linked(t, d) EXCEPT !.before = d[owner].balance, !.after = d[owner].balance + delta]
        <5>1. w[t.id] = [Seen(d, v, t.id) EXCEPT !.before = Seen(d, v, owner).balance, !.after = w[owner].balance]
          BY <2>2 DEF Balanced
        <5> QED
          BY <1>6, <1>9, <3>1, <5>1
      <4>2. ItemVersion(n, d) = [Linked(n, d) EXCEPT !.before = d[Payee(n, d)].balance,
                                                    !.after = d[Payee(n, d)].balance + Payment(n, d)]
        BY <1>5, <2>2 DEF ItemVersion, Proceeds
      <4> QED
        BY <2>1, <4>1, <4>2
  <2>3. CASE t.id \notin Deposits
    <3>1. w[t.id] = Linked(t, d)
      BY <1>6, <1>8, <2>3 DEF Seen
    <3> QED
      BY <2>1, <2>3, <3>1 DEF ItemVersion, Proceeds
  <2> QED
    BY <2>2, <2>3
<1>13. /\ HasReversed(n) => w[n.seen] = ApplyMovement(d[n.seen], ReversalType(n.id), Original(n, d).amount, n.id)
       /\ HasPosted(n) => w[n.to] = ApplyMovement(d[n.to], ForwardType(n.id), Original(n, d).amount, n.id)
  <2>1. \A a \in Accounts : a \in Rows /\ a # owner /\ a \notin Deposits /\ w[a] = v[a]
    BY <1>7, RowsAreDistinct DEF Rows, Items
  <2>2. /\ HasReversed(n) => t.seen \in Accounts
        /\ HasPosted(n) => t.to \in Accounts
    BY DEF HasReversed, HasPosted, Link, Proceeds
  <2> QED
    BY <1>5, <2>1, <2>2, SameIntent DEF Described, Written, Proceeds
<1>14. w[Payee(n, d)] = MoveWallet(d[Payee(n, d)], n.id, Payment(n, d))
  BY <1>3, <1>9, SameIntent DEF Proceeds
<1>15. Written(n, d, w)
  BY <1>5, <1>11, <1>12, <1>13, <1>14 DEF Written
<1>16. CanMove(d[Payee(n, d)], Payment(n, d))
  BY <1>3, <1>9, SameIntent
<1>17. Checked(n, d)
  BY <1>1, <1>2, <1>5, <1>16 DEF Described, Checked, CreateChecked, DecisionChecked, Creating, Proceeds
<1> QED
  BY <1>15, <1>17 DEF Described

\* The adjustment is recorded under its key.
LEMMA RecordDescribes ==
  ASSUME NEW t, NEW n, NEW d, NEW v, NEW w, Proceeds(t, n), Shape(t), Described(t, d, v),
         t.at = "record", d[t.new.user] \in WalletRow, d[t.id] = Absent, Writes(v, w, t.id),
         w[t.id] = [user |-> t.new.user, delta |-> t.new.delta,
                    before |-> Seen(d, v, t.new.user).balance - t.new.delta,
                    after |-> Seen(d, v, t.new.user).balance]
  PROVE  Described(n, d, w)
<1>1. t.op = "adjust" /\ t.id \in Keys /\ t.id \in Rows /\ t.new.user \in Users /\ t.new.delta \in Int
  BY DEF Shape, Rows, Asked
<1>2. n.at = "commit"
  BY FollowingTable DEF Proceeds
<1>3. /\ ~HoldsItem(t) /\ ~HasLinked(t) /\ ~HasReversed(t) /\ ~HasPosted(t) /\ ~HasEntered(t)
      /\ HasPaid(t) /\ ~HasRecorded(t)
  BY <1>1 DEF HoldsItem, HasLinked, HasReversed, HasPosted, HasEntered, HasPaid, HasRecorded
<1>4. /\ ~HoldsItem(n) /\ ~HasLinked(n) /\ ~HasReversed(n) /\ ~HasPosted(n) /\ ~HasEntered(n)
      /\ HasPaid(n) /\ HasRecorded(n)
  BY <1>1, <1>2 DEF Proceeds, HoldsItem, HasLinked, HasReversed, HasPosted, HasEntered, HasPaid, HasRecorded
<1>5. Payee(t, d) = t.new.user /\ Payment(t, d) = t.new.delta
  BY <1>1 DEF Payee, Payment
<1>6. t.new.user \in Rows /\ t.new.user # t.id
  BY <1>1, RowsAreDistinct DEF Rows
<1>7. \A r \in Rows : v[r] # Clean <=> r = t.new.user
  BY <1>3, <1>5 DEF Described, Written, Locked
<1>8. v[t.new.user] = MoveWallet(d[t.new.user], t.id, t.new.delta)
  BY <1>3, <1>5 DEF Described, Written
<1>9. Seen(d, v, t.new.user).balance = d[t.new.user].balance + t.new.delta
  <2>1. Seen(d, v, t.new.user) = v[t.new.user]
    BY <1>6, <1>7 DEF Seen
  <2> QED
    BY <1>8, <2>1 DEF MoveWallet
<1>10. Seen(d, v, t.new.user).balance - t.new.delta = d[t.new.user].balance
  BY <1>1, <1>9 DEF WalletRow
<1>11. w[n.id] = [user |-> n.new.user, delta |-> n.new.delta, before |-> d[n.new.user].balance,
                  after |-> d[n.new.user].balance + n.new.delta]
  BY <1>9, <1>10 DEF Proceeds
<1>12. Locked(n, d) = {r \in Rows : r = t.id \/ r = t.new.user}
  BY <1>4, <1>5, SameIntent DEF Locked, Proceeds
<1>13. w[Payee(n, d)] = MoveWallet(d[Payee(n, d)], n.id, Payment(n, d))
  BY <1>5, <1>6, <1>8, SameIntent DEF Writes, Proceeds
<1>14. Written(n, d, w)
  BY <1>1, <1>4, <1>7, <1>11, <1>12, <1>13 DEF Written, Writes
<1>15. CanMove(d[Payee(n, d)], Payment(n, d))
  BY <1>3, SameIntent DEF Described, Checked
<1>16. Checked(n, d)
  BY <1>1, <1>2, <1>4, <1>15 DEF Described, Checked, Creating, Proceeds
<1> QED
  BY <1>14, <1>16 DEF Described

\* The closing update of a re-link locks the item.
LEMMA SaveDescribes ==
  ASSUME NEW t, NEW n, NEW d, NEW v, NEW w, Proceeds(t, n), Shape(t), Described(t, d, v),
         t.at = "save", Writes(v, w, t.id), w[t.id] = Seen(d, v, t.id), t.seen \in Link, t.to \in Link
  PROVE  Described(n, d, w)
<1>1. t.op = "relink" /\ t.id \in Items /\ t.id \in Rows
  BY DEF Shape, Rows
<1>2. n.at = "commit"
  BY FollowingTable DEF Proceeds
<1>3. /\ HoldsItem(t) <=> t.to # t.seen
      /\ HasLinked(t) <=> t.to # t.seen
      /\ ~HasEntered(t) /\ ~HasPaid(t) /\ ~HasRecorded(t)
  BY <1>1 DEF HoldsItem, HasLinked, HasEntered, HasPaid, HasRecorded
<1>4. /\ HoldsItem(n) /\ ~HasEntered(n) /\ ~HasPaid(n) /\ ~HasRecorded(n)
      /\ HasLinked(n) <=> HasLinked(t)
      /\ HasReversed(n) <=> HasReversed(t)
      /\ HasPosted(n) <=> HasPosted(t)
  BY <1>1, <1>2 DEF Proceeds, HoldsItem, HasLinked, HasReversed, HasPosted, HasEntered, HasPaid, HasRecorded
<1>5. /\ HasReversed(t) => t.seen \in Accounts
      /\ HasPosted(t) => t.to \in Accounts
  BY DEF HasReversed, HasPosted, Link
<1>6. \A a \in Accounts : a \in Rows /\ a # t.id
  BY <1>1, RowsAreDistinct DEF Rows
<1>7. \A r \in Rows : v[r] # Clean <=> r \in Locked(t, d)
  BY DEF Described, Written
<1>8. Seen(d, v, t.id) = Linked(t, d)
  <2>1. CASE t.to # t.seen
    <3>1. v[t.id] # Clean /\ v[t.id] = ItemVersion(t, d)
      BY <1>1, <1>3, <2>1 DEF Described, Written, Locked
    <3> QED
      BY <1>3, <3>1 DEF Seen, ItemVersion
  <2>2. CASE t.to = t.seen
    <3>1. v[t.id] = Clean
      BY <1>1, <1>3, <1>5, <1>6, <1>7, <2>2 DEF Locked
    <3> QED
      BY <1>1, <1>3, <2>2, <3>1 DEF Seen, Linked, Decided, Original
  <2> QED
    BY <2>1, <2>2
<1>9. Locked(n, d) = Locked(t, d) \cup {t.id}
  BY <1>1, <1>3, <1>4 DEF Locked, Proceeds
<1>10. w[n.id] = ItemVersion(n, d)
  BY <1>4, <1>8, SameIntent DEF ItemVersion, Linked, Proceeds
<1>11. /\ HasReversed(n) => w[n.seen] = ApplyMovement(d[n.seen], ReversalType(n.id), Original(n, d).amount, n.id)
       /\ HasPosted(n) => w[n.to] = ApplyMovement(d[n.to], ForwardType(n.id), Original(n, d).amount, n.id)
  BY <1>4, <1>5, <1>6, SameIntent DEF Described, Written, Writes, Proceeds
<1>12. \A r \in Rows : w[r] # Clean <=> r \in Locked(n, d)
  BY <1>1, <1>7, <1>9 DEF Writes
<1>13. Written(n, d, w)
  BY <1>4, <1>10, <1>11, <1>12 DEF Written
<1>14. Checked(n, d)
  BY <1>1, <1>2, <1>4 DEF Described, Checked, RelinkChecked, Creating, Proceeds
<1> QED
  BY <1>13, <1>14 DEF Described

-----------------------------------------------------------------------------
(* Statements keep the invariant *)

LEMMA RequestContext ==
  ASSUME RInv, NEW p \in Procs
  PROVE  /\ tx[p] \in Request /\ Shape(tx[p]) /\ Described(tx[p], db, pend[p])
         /\ tx[p].seen \in Link /\ tx[p].to \in Link
         /\ tx[p].op \in {"approve", "reject", "relink", "manual"} =>
               tx[p].id \in Items /\ ItemRow(tx[p].id, Original(tx[p], db))
<1>1. tx[p] \in Request /\ Shape(tx[p]) /\ Described(tx[p], db, pend[p])
  BY DEF RInv, IInv, RequestsOK, AllDescribed
<1>2. tx[p].seen \in Link /\ tx[p].to \in Link
  BY <1>1 DEF Request
<1>3. ASSUME tx[p].op \in {"approve", "reject", "relink", "manual"}
      PROVE  tx[p].id \in Items /\ ItemRow(tx[p].id, Original(tx[p], db))
  <2>1. tx[p].id \in Items
    BY <1>1, <1>3 DEF Shape
  <2>2. CASE tx[p].op = "manual"
    <3>1. CreateChecked(tx[p], db)
      BY <1>1, <2>2 DEF Described, Checked, Creating
    <3>2. tx[p].id \in Deposits /\ tx[p].new \in DepositRow
      BY <2>2, <3>1 DEF CreateChecked
    <3>3. tx[p].id \notin Withdrawals
      BY <3>2, RowsAreDistinct
    <3> QED
      BY <2>1, <2>2, <3>2, <3>3 DEF ItemRow, Original
  <2>3. CASE tx[p].op # "manual"
    <3>1. db[tx[p].id] # Absent
      BY <1>1, <1>3, <2>3 DEF Described, Checked, DecisionChecked, RelinkChecked
    <3>2. Sound(tx[p].id, db[tx[p].id])
      BY <2>1, <3>1 DEF RInv, IInv, CommittedSound, Rows
    <3>3. Original(tx[p], db) = db[tx[p].id]
      BY <2>3 DEF Original
    <3> QED
      BY <2>1, <3>2, <3>3 DEF ItemRow, Sound
  <2> QED
    BY <2>2, <2>3
<1> QED
  BY <1>1, <1>2, <1>3

LEMMA StatementContext ==
  ASSUME RInv, NEW p \in Procs, Continue(p), tx[p].at \notin {"idle", "commit"}, tx[p].op # "create"
  PROVE  /\ Proceeds(tx[p], tx'[p]) /\ Shape(tx[p]) /\ Described(tx[p], db, pend[p])
         /\ tx[p].seen \in Link /\ tx[p].to \in Link
         /\ tx[p].op \in {"approve", "reject", "relink", "manual"} =>
               tx[p].id \in Items /\ ItemRow(tx[p].id, Original(tx[p], db))
         /\ \A q \in Procs \ {p} : tx'[q] = tx[q]
<1>1. tx \in [Procs -> Request]
  BY DEF RInv, IInv, RequestsOK
<1>2. tx' = [tx EXCEPT ![p] = [tx[p] EXCEPT !.at = Following(tx[p])]]
  BY <1>1 DEF Continue
<1>3. tx'[p] = [tx[p] EXCEPT !.at = Following(tx[p])] /\ tx[p] \in Request
  BY <1>1, <1>2
<1>4. Proceeds(tx[p], tx'[p])
  BY <1>3 DEF Proceeds, Request
<1>5. \A q \in Procs \ {p} : tx'[q] = tx[q]
  BY <1>1, <1>2
<1> QED
  BY <1>4, <1>5, RequestContext

\* A granted statement that describes its transaction anew keeps the invariant.
LEMMA StatementKeeps ==
  ASSUME RInv, IInv', NEW p \in Procs, Continue(p), db' = db,
         tx[p].at \notin {"idle", "commit", "insert"}, tx[p].op # "create",
         \A q \in Procs \ {p} : pend'[q] = pend[q],
         Described(tx'[p], db, pend'[p]),
         \A r \in Rows : pend'[p][r] # Clean =>
            pend[p][r] # Clean \/ \A q \in Procs \ {p} : pend[q][r] = Clean
  PROVE  RInv'
<1>1. /\ Proceeds(tx[p], tx'[p]) /\ \A q \in Procs \ {p} : tx'[q] = tx[q]
  BY StatementContext
<1>2. \A r \in Rows : \A q \in Procs \ {p} : pend'[p][r] = Clean \/ pend[q][r] = Clean
  BY DEF RInv, LocksExclude
<1>3. \A q \in Procs \ {p} : Creating(tx'[p]) \/ Creating(tx[q]) => tx[q].id # tx'[p].id
  BY <1>1 DEF RInv, IdsFresh, Creating, Proceeds
<1>4. Indexed(tx'[p]) => Indexed(tx[p]) /\ tx'[p].new = tx[p].new
  BY <1>1 DEF Indexed, Proceeds
<1>5. Indexed(tx'[p]) =>
         /\ \A e \in Deposits : ~Live(db[e], tx'[p].new.reference)
         /\ \A q \in Procs \ {p} : Indexed(tx[q]) => tx[q].new.reference # tx'[p].new.reference
  BY <1>4 DEF RInv, IndexUnique
<1> QED
  BY <1>1, <1>2, <1>3, <1>5, OneMoves

\* What writing a row does to the versions, and to whom the row was free.
LEMMA WriteEffect ==
  ASSUME RInv, NEW p \in Procs, NEW r \in Rows, NEW v, Write(p, r, v), v # Clean
  PROVE  /\ pend'[p][r] = v /\ Writes(pend[p], pend'[p], r)
         /\ \A q \in Procs \ {p} : pend'[q] = pend[q]
<1>1. pend = [q \in Procs |-> [s \in Rows |-> pend[q][s]]]
  BY DEF RInv, IInv, WrittenSound
<1>2. pend' = [pend EXCEPT ![p] = [pend[p] EXCEPT ![r] = v]]
  BY DEF Write
<1>3. pend'[p] = [pend[p] EXCEPT ![r] = v] /\ \A q \in Procs \ {p} : pend'[q] = pend[q]
  BY <1>1, <1>2
<1>4. pend[p] = [s \in Rows |-> pend[p][s]]
  BY <1>1
<1> QED
  BY <1>3, <1>4 DEF Writes

LEMMA GrantedRow ==
  ASSUME NEW p \in Procs, Granted(p), NEW r \in Wanted(p)
  PROVE  \A q \in Procs \ {p} : pend[q][r] = Clean
BY DEF Granted, WaitsFor

\* One row, granted and written.
LEMMA RowStatementKeeps ==
  ASSUME RInv, IInv', NEW p \in Procs, Granted(p), Continue(p), db' = db,
         tx[p].at \notin {"idle", "commit", "insert"}, tx[p].op # "create",
         NEW r \in Rows, r \in Wanted(p), Writes(pend[p], pend'[p], r),
         \A q \in Procs \ {p} : pend'[q] = pend[q],
         Described(tx'[p], db, pend'[p])
  PROVE  RInv'
<1>1. \A q \in Procs \ {p} : pend[q][r] = Clean
  BY GrantedRow
<1>2. \A s \in Rows : pend'[p][s] # Clean =>
            pend[p][s] # Clean \/ \A q \in Procs \ {p} : pend[q][s] = Clean
  BY <1>1 DEF Writes
<1> QED
  BY <1>2, StatementKeeps

LEMMA ItemStatementDescribed ==
  ASSUME RInv, NEW p \in Procs, Claim(p) \/ ClaimLink(p) \/ SaveDetails(p)
  PROVE  RInv'
<1>1. IInv /\ IInv'
  BY ItemWriteKeeps DEF RInv
<1>2. /\ Shape(tx[p]) /\ tx[p].at \in {"claim", "link", "save"}
      /\ tx[p].op \in {"approve", "reject", "relink", "manual"}
      /\ Granted(p) /\ Continue(p) /\ db' = db
  BY <1>1 DEF IInv, RequestsOK, Claim, ClaimLink, SaveDetails, Shape
<1>3. /\ Proceeds(tx[p], tx'[p]) /\ Described(tx[p], db, pend[p])
      /\ tx[p].seen \in Link /\ tx[p].to \in Link /\ tx[p].id \in Items
  BY <1>2, StatementContext
<1>4. tx[p].id \in Rows /\ tx[p].id \in Wanted(p) /\ Subject(p) = Seen(db, pend[p], tx[p].id)
  BY <1>2, <1>3 DEF Rows, Wanted, Subject, View, Seen
<1>5. /\ tx[p].id \in Deposits => Subject(p) \in DepositRow
      /\ tx[p].id \in Withdrawals => Subject(p) \in WithdrawalRow
  BY <1>1, <1>2, SubjectTyped
<1>6. ASSUME NEW v, Write(p, tx[p].id, v),
             tx[p].id \in Deposits => v \in DepositRow, tx[p].id \in Withdrawals => v \in WithdrawalRow,
             Writes(pend[p], pend'[p], tx[p].id) /\ pend'[p][tx[p].id] = v => Described(tx'[p], db, pend'[p])
      PROVE  RInv'
  <2>1. v # Clean
    BY <1>3, <1>6, CleanIsNoRowValue DEF Items
  <2>2. /\ pend'[p][tx[p].id] = v /\ Writes(pend[p], pend'[p], tx[p].id)
        /\ \A q \in Procs \ {p} : pend'[q] = pend[q]
    BY <1>4, <1>6, <2>1, WriteEffect
  <2> QED
    BY <1>1, <1>2, <1>4, <1>6, <2>2, RowStatementKeeps
<1>7. CASE Claim(p)
  <2> DEFINE status == IF tx[p].op = "approve" THEN "APPROVED" ELSE "REJECTED"
             v == [Subject(p) EXCEPT !.status = status]
  <2>1. status \in Status
    BY DEF Status
  <2>2. /\ tx[p].id \in Deposits => v \in DepositRow
        /\ tx[p].id \in Withdrawals => v \in WithdrawalRow
    <3> HIDE DEF status
    <3> QED
      BY <1>5, <2>1 DEF DepositRow, WithdrawalRow
  <2>3. Write(p, tx[p].id, v) /\ tx[p].at = "claim" /\ Subject(p).status = "PENDING"
    BY <1>7 DEF Claim
  <2>4. ASSUME Writes(pend[p], pend'[p], tx[p].id), pend'[p][tx[p].id] = v
        PROVE  Described(tx'[p], db, pend'[p])
    BY <1>2, <1>3, <1>4, <2>3, <2>4, ClaimDescribes
  <2> HIDE DEF v
  <2> QED
    BY <1>6, <2>2, <2>3, <2>4
<1>8. CASE ClaimLink(p)
  <2> DEFINE v == [Subject(p) EXCEPT !.link = tx[p].to]
  <2>1. /\ tx[p].id \in Deposits => v \in DepositRow
        /\ tx[p].id \in Withdrawals => v \in WithdrawalRow
    BY <1>3, <1>5 DEF DepositRow, WithdrawalRow
  <2>2. Write(p, tx[p].id, v) /\ tx[p].at = "link" /\ Subject(p).link = tx[p].seen
    BY <1>8 DEF ClaimLink
  <2>3. ASSUME Writes(pend[p], pend'[p], tx[p].id), pend'[p][tx[p].id] = v
        PROVE  Described(tx'[p], db, pend'[p])
    BY <1>2, <1>3, <1>4, <2>2, <2>3, LinkDescribes
  <2> HIDE DEF v
  <2> QED
    BY <1>6, <2>1, <2>2, <2>3
<1>9. CASE SaveDetails(p)
  <2>1. Write(p, tx[p].id, Subject(p)) /\ tx[p].at = "save"
    BY <1>9 DEF SaveDetails
  <2>2. ASSUME Writes(pend[p], pend'[p], tx[p].id), pend'[p][tx[p].id] = Subject(p)
        PROVE  Described(tx'[p], db, pend'[p])
    BY <1>2, <1>3, <1>4, <2>1, <2>2, SaveDescribes
  <2> QED
    BY <1>5, <1>6, <2>1, <2>2
<1> QED
  BY <1>7, <1>8, <1>9

LEMMA AccountStatementDescribed ==
  ASSUME RInv, NEW p \in Procs, Reverse(p) \/ Post(p)
  PROVE  RInv'
<1>1. IInv /\ IInv'
  BY AccountWriteKeeps DEF RInv
<1>2. /\ Shape(tx[p]) /\ tx[p].at \in {"reverse", "post"}
      /\ tx[p].op \in {"approve", "relink", "manual", "entry"}
      /\ Granted(p) /\ Continue(p) /\ db' = db
  BY <1>1 DEF IInv, RequestsOK, Reverse, Post, Shape
<1>3. /\ Proceeds(tx[p], tx'[p]) /\ Described(tx[p], db, pend[p])
      /\ tx[p].seen \in Link /\ tx[p].to \in Link
      /\ tx[p].op # "entry" => tx[p].id \in Items /\ ItemRow(tx[p].id, Original(tx[p], db))
  BY <1>2, StatementContext
<1>4. \A r : View(p, r) = Seen(db, pend[p], r)
  BY DEF View, Seen
<1>5. ASSUME NEW a \in Accounts, NEW type \in CreditTypes \cup DebitTypes, NEW n \in Amounts,
             NEW item \in Items \cup {None}, a \in Wanted(p), NEW v,
             v = ApplyMovement(View(p, a), type, n, item), Write(p, a, v),
             Writes(pend[p], pend'[p], a) /\ pend'[p][a] = v => Described(tx'[p], db, pend'[p])
      PROVE  RInv'
  <2>1. View(p, a) \in AccountRow /\ IsItsLedger(View(p, a)) /\ a \in Rows
    BY <1>1, ViewSound, RowsAreDistinct DEF Sound, Rows, Items
  <2>2. v \in AccountRow
    BY <1>5, <2>1, ApplyMovementSound
  <2>3. v # Clean
    BY <2>2, CleanIsNoRowValue
  <2>4. /\ pend'[p][a] = v /\ Writes(pend[p], pend'[p], a)
        /\ \A q \in Procs \ {p} : pend'[q] = pend[q]
    BY <1>5, <2>1, <2>3, WriteEffect
  <2> QED
    BY <1>1, <1>2, <1>5, <2>1, <2>4, RowStatementKeeps
<1>6. tx[p].op # "entry" =>
         /\ tx[p].id \in Items /\ Subject(p).amount \in Amounts
         /\ ReversalType(tx[p].id) \in CreditTypes \cup DebitTypes
         /\ ForwardType(tx[p].id) \in CreditTypes \cup DebitTypes
  BY <1>1, <1>2, SubjectTyped DEF ReversalType, ForwardType, CreditTypes, DebitTypes
<1>7. CASE Reverse(p)
  <2>1. /\ tx[p].at = "reverse" /\ tx[p].seen \in Accounts /\ tx[p].op # "entry"
        /\ tx[p].seen \in Wanted(p)
    BY <1>2, <1>7 DEF Reverse, Shape, Wanted
  <2> DEFINE v == ApplyMovement(View(p, tx[p].seen), ReversalType(tx[p].id), Subject(p).amount, tx[p].id)
  <2>2. Write(p, tx[p].seen, v)
    BY <1>7 DEF Reverse
  <2>3. ASSUME Writes(pend[p], pend'[p], tx[p].seen), pend'[p][tx[p].seen] = v
        PROVE  Described(tx'[p], db, pend'[p])
    BY <1>2, <1>3, <1>4, <2>1, <2>3, ReverseDescribes DEF Subject
  <2> QED
    BY <1>5, <1>6, <2>1, <2>2, <2>3
<1>8. CASE Post(p)
  <2>1. tx[p].at = "post" /\ tx[p].to \in Accounts /\ tx[p].to \in Wanted(p)
    BY <1>2, <1>8 DEF Post, Shape, Wanted
  <2>2. CASE tx[p].op = "entry"
    <3> DEFINE v == ApplyMovement(View(p, tx[p].to), tx[p].new.type, tx[p].new.amount, None)
    <3>1. tx[p].new.type \in CreditTypes \cup DebitTypes /\ tx[p].new.amount \in Amounts
      BY <1>2, <2>2 DEF Shape, Movement, ManualTypes
    <3>2. Write(p, tx[p].to, v)
      BY <1>8, <2>2 DEF Post
    <3>3. ASSUME Writes(pend[p], pend'[p], tx[p].to), pend'[p][tx[p].to] = v
          PROVE  Described(tx'[p], db, pend'[p])
      BY <1>2, <1>3, <1>4, <2>1, <2>2, <3>3, PostDescribes
    <3> QED
      BY <1>5, <2>1, <3>1, <3>2, <3>3
  <2>3. CASE tx[p].op # "entry"
    <3> DEFINE v == ApplyMovement(View(p, tx[p].to), ForwardType(tx[p].id), Subject(p).amount, tx[p].id)
    <3>1. Write(p, tx[p].to, v)
      BY <1>8, <2>3 DEF Post
    <3>2. ASSUME Writes(pend[p], pend'[p], tx[p].to), pend'[p][tx[p].to] = v
          PROVE  Described(tx'[p], db, pend'[p])
      BY <1>2, <1>3, <1>4, <2>1, <2>3, <3>2, PostDescribes DEF Subject
    <3> QED
      BY <1>5, <1>6, <2>1, <2>3, <3>1, <3>2
  <2> QED
    BY <2>2, <2>3
<1> QED
  BY <1>7, <1>8

LEMMA PayDescribed ==
  ASSUME RInv, NEW p \in Procs, Pay(p)
  PROVE  RInv'
<1> DEFINE id == tx[p].id
           wallet == View(p, Owner(p))
           moved == MoveWallet(wallet, id, Delta(p))
           row == [Subject(p) EXCEPT !.before = wallet.balance, !.after = moved.balance]
<1>1. IInv /\ IInv'
  BY PayKeeps DEF RInv
<1>2. /\ Shape(tx[p]) /\ tx[p].at = "wallet" /\ tx[p].op \in {"approve", "manual", "adjust"}
      /\ Granted(p) /\ Continue(p) /\ db' = db /\ CanMove(wallet, Delta(p))
  BY <1>1 DEF IInv, RequestsOK, Pay, Shape
<1>3. /\ Proceeds(tx[p], tx'[p]) /\ Described(tx[p], db, pend[p])
      /\ tx[p].seen \in Link /\ tx[p].to \in Link
      /\ tx[p].op # "adjust" => id \in Items /\ ItemRow(id, Original(tx[p], db))
  BY <1>2, StatementContext
<1>4. \A r : View(p, r) = Seen(db, pend[p], r)
  BY DEF View, Seen
<1>5. Owner(p) \in Users /\ Delta(p) \in Int /\ id \in Items \cup Keys
  <2>1. CASE tx[p].op = "adjust"
    BY <1>2, <2>1 DEF Shape, Asked, Owner, Delta
  <2>2. CASE tx[p].op # "adjust"
    BY <1>1, <1>2, <2>2, SubjectTyped DEF Owner, Delta
  <2> QED
    BY <2>1, <2>2
<1>6. /\ Owner(p) = OwnerOf(tx[p], Seen(db, pend[p], id))
      /\ Delta(p) = DeltaOf(tx[p], Seen(db, pend[p], id))
  BY <1>4 DEF Owner, Delta, Subject, OwnerOf, DeltaOf
<1>7. Owner(p) \in Rows /\ Owner(p) \in Wanted(p) /\ Owner(p) # id
  BY <1>2, <1>5, RowsAreDistinct DEF Wanted, Rows
<1>8. moved \in WalletRow /\ moved # Clean /\ wallet \in WalletRow
  <2>1. wallet \in WalletRow /\ IsHistory(wallet) /\ NeverBelowZero(wallet)
    BY <1>1, <1>5, ViewSound, RowsAreDistinct DEF Sound, Rows, Items
  <2> HIDE DEF wallet
  <2>2. moved \in WalletRow
    BY <1>2, <1>5, <2>1, MoveWalletSound
  <2> QED
    BY <2>1, <2>2, CleanIsNoRowValue
<1>9. id \in Deposits => /\ id \in Rows /\ tx[p].op # "adjust" /\ pend[p][id] # Clean
                         /\ row # Clean
  <2> SUFFICES ASSUME id \in Deposits
               PROVE  id \in Rows /\ tx[p].op # "adjust" /\ pend[p][id] # Clean /\ row # Clean
    OBVIOUS
  <2>1. tx[p].op # "adjust" /\ id \in Rows
    BY <1>2, RowsAreDistinct DEF Shape, Items, Rows
  <2>2. pend[p][id] # Clean
    BY <1>2, <1>3, <2>1, LinkingView
  <2>3. Subject(p) \in DepositRow
    BY <1>1, <1>2, <2>1, SubjectTyped
  <2>4. wallet.balance \in Int /\ moved.balance \in Int
    <3> HIDE DEF wallet, moved
    <3> QED
      BY <1>8 DEF WalletRow
  <2>5. row \in DepositRow
    <3> HIDE DEF wallet, moved
    <3> QED
      BY <2>3, <2>4 DEF DepositRow
  <2> QED
    BY <2>1, <2>2, <2>5, CleanIsNoRowValue
<1>10. /\ pend'[p][Owner(p)] = moved
       /\ id \in Deposits => pend'[p][id] = row
       /\ \A s \in Rows : s # Owner(p) /\ (id \in Deposits => s # id) => pend'[p][s] = pend[p][s]
       /\ \A q \in Procs \ {p} : pend'[q] = pend[q]
  <2>1. pend = [q \in Procs |-> [s \in Rows |-> pend[q][s]]]
    BY <1>1 DEF IInv, WrittenSound
  <2>2. CASE id \in Deposits
    <3>1. pend' = [pend EXCEPT ![p][Owner(p)] = moved, ![p][id] = row]
      BY <2>2 DEF Pay
    <3> HIDE DEF moved, row
    <3> QED
      BY <1>7, <1>9, <2>1, <2>2, <3>1
  <2>3. CASE id \notin Deposits
    <3>1. Write(p, Owner(p), moved)
      BY <2>3 DEF Pay
    <3>2. moved # Clean
      BY <1>8
    <3> HIDE DEF moved
    <3> QED
      BY <1>7, <2>3, <3>1, <3>2, WriteEffect DEF Writes
  <2> QED
    BY <2>2, <2>3
<1> HIDE DEF moved, row
<1>11. Described(tx'[p], db, pend'[p])
  <2>1. moved = MoveWallet(Seen(db, pend[p], Owner(p)), id, Delta(p))
    BY <1>4 DEF moved
  <2>2. row = Balanced(Seen(db, pend[p], id), Seen(db, pend[p], Owner(p)).balance, moved.balance)
    <3>1. wallet = Seen(db, pend[p], Owner(p)) /\ Subject(p) = Seen(db, pend[p], id)
      BY <1>4 DEF Subject
    <3> HIDE DEF wallet
    <3> QED
      BY <3>1 DEF row, Balanced
  <2>3. CanMove(Seen(db, pend[p], Owner(p)), Delta(p))
    BY <1>2, <1>4
  <2>4. id \in Deposits =>
           /\ pend'[p][id] # Clean
           /\ pend'[p][id] = Balanced(Seen(db, pend[p], id), Seen(db, pend[p], Owner(p)).balance,
                                      pend'[p][Owner(p)].balance)
    BY <1>9, <1>10, <2>2
  <2>5. pend'[p][Owner(p)] # Clean
    BY <1>8, <1>10
  <2>6. pend'[p][Owner(p)] = MoveWallet(Seen(db, pend[p], Owner(p)), id, Delta(p))
    BY <1>10, <2>1
  <2> QED
    BY <1>2, <1>3, <1>5, <1>6, <1>10, <2>3, <2>4, <2>5, <2>6, PayDescribes
<1>12. \A q \in Procs \ {p} : pend[q][Owner(p)] = Clean
  BY <1>2, <1>7, GrantedRow
<1>13. \A r \in Rows : pend'[p][r] # Clean => pend[p][r] # Clean \/ \A q \in Procs \ {p} : pend[q][r] = Clean
  BY <1>9, <1>10, <1>12
<1> QED
  BY <1>1, <1>2, <1>10, <1>11, <1>13, StatementKeeps

LEMMA RecordDescribed ==
  ASSUME RInv, NEW p \in Procs, RecordAdjustment(p)
  PROVE  RInv'
<1>1. IInv /\ IInv'
  BY RecordKeeps DEF RInv
<1>2. /\ Shape(tx[p]) /\ tx[p].at = "record" /\ tx[p].op = "adjust"
      /\ Granted(p) /\ Continue(p) /\ db' = db /\ db[tx[p].id] = Absent
  BY <1>1 DEF IInv, RequestsOK, RecordAdjustment, Shape
<1>3. Proceeds(tx[p], tx'[p]) /\ Described(tx[p], db, pend[p])
  BY <1>2, StatementContext
<1>4. \A r : View(p, r) = Seen(db, pend[p], r)
  BY DEF View, Seen
<1>5. /\ tx[p].id \in Keys /\ tx[p].id \in Rows /\ tx[p].id \in Wanted(p)
      /\ tx[p].new.user \in Users /\ tx[p].new.delta \in Int
  BY <1>2 DEF Shape, Asked, Wanted, Rows
<1>6. Owner(p) = tx[p].new.user /\ Delta(p) = tx[p].new.delta
  BY <1>2 DEF Owner, Delta
<1> DEFINE balance == Seen(db, pend[p], tx[p].new.user).balance
           row == [user |-> tx[p].new.user, delta |-> tx[p].new.delta,
                   before |-> balance - tx[p].new.delta, after |-> balance]
<1>7. Write(p, tx[p].id, row)
  BY <1>4, <1>6 DEF RecordAdjustment
<1>8. balance \in Int /\ db[tx[p].new.user] \in WalletRow
  <2>1. View(p, tx[p].new.user) \in WalletRow
    BY <1>1, <1>5, ViewSound, RowsAreDistinct DEF Sound, Rows, Items
  <2>2. db[tx[p].new.user] \in WalletRow
    BY <1>1, <1>5, RowsAreDistinct DEF IInv, CommittedSound, Sound, Rows, Items
  <2> QED
    BY <1>4, <2>1, <2>2 DEF WalletRow
<1>9. row # Clean
  <2> HIDE DEF balance
  <2>1. row \in AdjustmentRow
    BY <1>5, <1>8 DEF AdjustmentRow
  <2> QED
    BY <2>1, CleanIsNoRowValue
<1>10. /\ pend'[p][tx[p].id] = row /\ Writes(pend[p], pend'[p], tx[p].id)
       /\ \A q \in Procs \ {p} : pend'[q] = pend[q]
  <2> HIDE DEF row
  <2> QED
    BY <1>5, <1>7, <1>9, WriteEffect
<1>11. Described(tx'[p], db, pend'[p])
  BY <1>2, <1>3, <1>8, <1>10, RecordDescribes
<1> HIDE DEF row
<1> QED
  BY <1>1, <1>2, <1>5, <1>10, <1>11, RowStatementKeeps

\* A request locks no item or key but the one it is about.
LEMMA NotLocked ==
  ASSUME NEW t, NEW d, NEW v, t \in Request, Shape(t), Described(t, d, v),
         t.op \in {"approve", "reject", "relink", "manual"} => ItemRow(t.id, Original(t, d)),
         NEW i \in Items \cup Keys, i # t.id
  PROVE  i \notin Locked(t, d)
<1>1. i \notin Link /\ i \notin Users
  BY RowsAreDistinct DEF Link, Rows, Items
<1>2. t.seen \in Link /\ t.to \in Link
  BY DEF Request
<1>3. HasPaid(t) => Payee(t, d) \in Users
  <2>1. CASE t.op = "adjust"
    BY <2>1 DEF Payee, Shape, Asked
  <2>2. CASE t.op # "adjust"
    BY <2>2 DEF HasPaid, Payee, Shape, ItemRow, Items, DepositRow, WithdrawalRow
  <2> QED
    BY <2>1, <2>2
<1> QED
  BY <1>1, <1>2, <1>3 DEF Locked

\* An admin's deposit that is inserted holds its reference in the unique index.
LEMMA IndexedIsLive ==
  ASSUME RInv, NEW q \in Procs, Indexed(tx[q])
  PROVE  /\ tx[q].id \in Deposits /\ pend[q][tx[q].id] # Clean
         /\ Live(pend[q][tx[q].id], tx[q].new.reference)
<1> DEFINE t == tx[q]
<1>1. t.op = "manual" /\ HoldsItem(t)
  BY DEF Indexed, HoldsItem
<1>2. Described(t, db, pend[q])
  BY DEF RInv, AllDescribed
<1>3. t.id \in Deposits /\ t.new \in DepositRow /\ t.new.status = "APPROVED" /\ t.id \in Rows
  BY <1>1, <1>2 DEF Described, Checked, Creating, CreateChecked, Rows, Items
<1>4. pend[q][t.id] # Clean /\ pend[q][t.id] = ItemVersion(t, db)
  BY <1>1, <1>2, <1>3 DEF Described, Written, Locked
<1>5. t.id \in Items /\ ItemRow(t.id, Original(t, db)) /\ Original(t, db) = t.new
  BY <1>1, RequestContext DEF Original
<1>6. /\ ItemVersion(t, db).status = "APPROVED"
      /\ ItemVersion(t, db).reference = t.new.reference
  BY <1>1, <1>3, <1>5, VersionFields DEF StatusMade
<1>7. pend[q][t.id] # Absent
  <2>1. Sound(t.id, pend[q][t.id])
    BY <1>3, <1>4 DEF RInv, IInv, WrittenSound
  <2> QED
    BY <1>3, <2>1, AbsentIsNoRow DEF Sound
<1> QED
  BY <1>3, <1>4, <1>6, <1>7 DEF Live

\* An admin's deposit enters the unique index alone.
LEMMA InsertDescribed ==
  ASSUME RInv, NEW p \in Procs, InsertDeposit(p), tx[p].op = "manual"
  PROVE  RInv'
<1>1. IInv /\ IInv'
  BY InsertKeeps DEF RInv
<1>2. /\ Shape(tx[p]) /\ tx[p].at = "insert" /\ Holders(tx[p].new.reference) = {}
      /\ Write(p, tx[p].id, tx[p].new) /\ Continue(p) /\ db' = db
  BY <1>1 DEF IInv, RequestsOK, InsertDeposit
<1>3. /\ Proceeds(tx[p], tx'[p]) /\ Described(tx[p], db, pend[p]) /\ tx[p].id \in Items
      /\ \A q \in Procs \ {p} : tx'[q] = tx[q]
  BY <1>2, StatementContext
<1>4. tx[p].id \in Rows /\ tx[p].new \in DepositRow /\ tx[p].new # Clean
  BY <1>3, CleanIsNoRowValue DEF InsertDeposit, Rows
<1>5. /\ pend'[p][tx[p].id] = tx[p].new /\ Writes(pend[p], pend'[p], tx[p].id)
      /\ \A q \in Procs \ {p} : pend'[q] = pend[q]
  BY <1>2, <1>4, WriteEffect
<1>6. Described(tx'[p], db, pend'[p])
  BY <1>2, <1>3, <1>5, InsertDescribes
<1>7. \A q \in Procs \ {p} : pend[q][tx[p].id] = Clean
  <2> SUFFICES ASSUME NEW q \in Procs \ {p} PROVE pend[q][tx[p].id] = Clean
    OBVIOUS
  <2>1. tx[q].id # tx[p].id
    BY DEF RInv, IdsFresh, Creating
  <2>2. /\ Described(tx[q], db, pend[q]) /\ Shape(tx[q]) /\ tx[q] \in Request
        /\ tx[q].op \in {"approve", "reject", "relink", "manual"} => ItemRow(tx[q].id, Original(tx[q], db))
    BY RequestContext
  <2>3. tx[p].id \notin Locked(tx[q], db)
    BY <1>3, <2>1, <2>2, NotLocked
  <2> QED
    BY <1>4, <2>2, <2>3 DEF Described, Written
<1>8. \A r \in Rows : \A q \in Procs \ {p} : pend'[p][r] = Clean \/ pend[q][r] = Clean
  BY <1>5, <1>7 DEF Writes, RInv, LocksExclude
<1>9. \A q \in Procs \ {p} : Creating(tx'[p]) \/ Creating(tx[q]) => tx[q].id # tx'[p].id
  BY <1>3 DEF RInv, IdsFresh, Creating, Proceeds
<1>10. \A e \in Deposits : ~Live(db[e], tx[p].new.reference)
  BY <1>2 DEF Holders
<1>11. ASSUME NEW q \in Procs \ {p}, Indexed(tx[q])
       PROVE  tx[q].new.reference # tx[p].new.reference
  <2>1. tx[q].id \in Deposits /\ pend[q][tx[q].id] # Clean /\ Live(pend[q][tx[q].id], tx[q].new.reference)
    BY <1>11, IndexedIsLive
  <2> QED
    BY <1>2, <2>1 DEF Holders
<1> QED
  BY <1>1, <1>2, <1>3, <1>5, <1>6, <1>8, <1>9, <1>10, <1>11, OneMoves DEF Proceeds

-----------------------------------------------------------------------------
(* The tables move under the other requests *)

LEMMA PayeeIsUser ==
  ASSUME RInv, NEW p \in Procs, HasPaid(tx[p]) \/ (tx[p].at = "wallet")
  PROVE  Payee(tx[p], db) \in Users
<1>1. tx[p].op \in {"approve", "manual", "adjust"} /\ Shape(tx[p])
  BY RequestContext DEF HasPaid, Shape
<1>2. CASE tx[p].op = "adjust"
  BY <1>1, <1>2 DEF Payee, Shape, Asked
<1>3. CASE tx[p].op # "adjust"
  <2>1. tx[p].id \in Items /\ ItemRow(tx[p].id, Original(tx[p], db))
    BY <1>1, <1>3, RequestContext
  <2> QED
    BY <1>3, <2>1 DEF Payee, ItemRow, Items, DepositRow, WithdrawalRow
<1> QED
  BY <1>2, <1>3

\* Items that exist stay, what is decided stays decided, and what is approved
\* stays approved.
Gentle(d, e) ==
    \A i \in Items : d[i] # Absent =>
       /\ e[i] # Absent
       /\ e[i].status = "PENDING" => d[i].status = "PENDING"
       /\ d[i].status = "APPROVED" => e[i].status = "APPROVED"

\* The description of a request survives such a change of rows it has not locked.
LEMMA Stable ==
  ASSUME RInv, NEW q \in Procs, NEW e, Gentle(db, e),
         \A r \in Locked(tx[q], db) : e[r] = db[r],
         Creating(tx[q]) => e[tx[q].id] = db[tx[q].id]
  PROVE  Described(tx[q], e, pend[q])
<1> DEFINE t == tx[q]
<1>1. /\ t \in Request /\ Shape(t) /\ Described(t, db, pend[q]) /\ t.seen \in Link /\ t.to \in Link
      /\ t.op \in {"approve", "reject", "relink", "manual"} => t.id \in Items
  BY RequestContext
<1>2. HasPaid(t) => Payee(t, db) \in Users
  BY PayeeIsUser
<1> HIDE DEF t
<1>3. HoldsItem(t) => t.id \in Items /\ t.id \in Rows /\ t.op \in {"approve", "reject", "relink", "manual"}
  BY <1>1 DEF HoldsItem, Rows
<1>4. HoldsItem(t) => e[t.id] = db[t.id]
  BY <1>3 DEF Locked, t
<1>5. HoldsItem(t) => Original(t, e) = Original(t, db) /\ Decided(t, e) = Decided(t, db)
                      /\ Linked(t, e) = Linked(t, db)
  BY <1>4 DEF Original, Decided, Linked
<1>6. HasPaid(t) => HoldsItem(t) \/ t.op = "adjust"
  BY DEF HasPaid, HoldsItem
<1>7. HasPaid(t) => Payee(t, e) = Payee(t, db) /\ Payment(t, e) = Payment(t, db)
  BY <1>5, <1>6 DEF Payee, Payment
<1>8. HasPaid(t) => e[Payee(t, db)] = db[Payee(t, db)]
  <2> SUFFICES ASSUME HasPaid(t) PROVE e[Payee(t, db)] = db[Payee(t, db)]
    OBVIOUS
  <2>1. Payee(t, db) \in Rows
    BY <1>2 DEF Rows
  <2>2. Payee(t, db) \in Locked(t, db)
    BY <2>1 DEF Locked
  <2> QED
    BY <2>2 DEF t
<1>9. /\ HasReversed(t) => t.seen \in Rows /\ e[t.seen] = db[t.seen] /\ HoldsItem(t)
      /\ HasPosted(t) => t.to \in Rows /\ e[t.to] = db[t.to] /\ HoldsItem(t)
      /\ HasEntered(t) => e[t.to] = db[t.to]
  <2>1. HasReversed(t) => t.seen \in Rows /\ HoldsItem(t)
    BY <1>1 DEF HasReversed, HasLinked, HoldsItem, Link, Rows, Shape
  <2>2. HasPosted(t) => t.to \in Rows /\ HoldsItem(t)
    BY <1>1 DEF HasPosted, HasLinked, HoldsItem, Link, Rows, Shape
  <2>3. HasEntered(t) => t.to \in Rows
    BY <1>1 DEF HasEntered, Shape, Rows
  <2> QED
    BY <2>1, <2>2, <2>3 DEF Locked, t
<1>10. HasRecorded(t) => /\ HasPaid(t) /\ t.op = "adjust" /\ t.new.user \in Users
                         /\ Payee(t, db) = t.new.user /\ e[t.id] = db[t.id]
  BY <1>1 DEF HasRecorded, HasPaid, Payee, Shape, Asked, Locked, Rows, t
<1>11. Locked(t, e) = Locked(t, db)
  BY <1>7 DEF Locked
<1>12. HoldsItem(t) => ItemVersion(t, e) = ItemVersion(t, db)
  BY <1>5, <1>7, <1>8 DEF ItemVersion
<1>13. /\ HasReversed(t) => pend[q][t.seen] = ApplyMovement(e[t.seen], ReversalType(t.id), Original(t, e).amount, t.id)
       /\ HasPosted(t) => pend[q][t.to] = ApplyMovement(e[t.to], ForwardType(t.id), Original(t, e).amount, t.id)
       /\ HasEntered(t) => pend[q][t.to] = ApplyMovement(e[t.to], t.new.type, t.new.amount, None)
  BY <1>1, <1>5, <1>9 DEF Described, Written
<1>14. HasPaid(t) => pend[q][Payee(t, e)] = MoveWallet(e[Payee(t, e)], t.id, Payment(t, e))
  BY <1>1, <1>7, <1>8 DEF Described, Written
<1>15. HasRecorded(t) => pend[q][t.id] = [user |-> t.new.user, delta |-> t.new.delta,
                                          before |-> e[t.new.user].balance,
                                          after |-> e[t.new.user].balance + t.new.delta]
  BY <1>1, <1>8, <1>10 DEF Described, Written
<1>16. Written(t, e, pend[q])
  BY <1>1, <1>11, <1>12, <1>13, <1>14, <1>15 DEF Described, Written
<1>17. t.op \in {"approve", "reject"} => DecisionChecked(t, e)
  <2> SUFFICES ASSUME t.op \in {"approve", "reject"} PROVE DecisionChecked(t, e)
    OBVIOUS
  <2>1. DecisionChecked(t, db) /\ t.id \in Items
    BY <1>1 DEF Described, Checked
  <2>2. t.at # "claim" => HoldsItem(t)
    BY DEF HoldsItem
  <2> QED
    BY <1>4, <2>1, <2>2 DEF DecisionChecked, Gentle
<1>18. t.op = "relink" => RelinkChecked(t, e)
  <2> SUFFICES ASSUME t.op = "relink" PROVE RelinkChecked(t, e)
    OBVIOUS
  <2>1. RelinkChecked(t, db) /\ t.id \in Items
    BY <1>1 DEF Described, Checked
  <2>2. HasLinked(t) => HoldsItem(t)
    BY DEF HoldsItem, HasLinked
  <2> QED
    BY <1>4, <2>1, <2>2 DEF RelinkChecked, Gentle
<1>19. Creating(t) => CreateChecked(t, e)
  <2> SUFFICES ASSUME Creating(t) PROVE CreateChecked(t, e)
    OBVIOUS
  <2>1. CreateChecked(t, db) /\ e[t.id] = db[t.id]
    BY <1>1 DEF Described, Checked, t
  <2> QED
    BY <2>1 DEF CreateChecked
<1>20. Checked(t, e)
  BY <1>1, <1>7, <1>8, <1>10, <1>17, <1>18, <1>19 DEF Described, Checked
<1> QED
  BY <1>16, <1>20 DEF Described, t

\* A request that ends, having changed only rows it had locked or created.
LEMMA EndKeeps ==
  ASSUME RInv, IInv', NEW p \in Procs, Finish(p), Gentle(db, db'), PendingUnlinked',
         \A r \in Rows : db'[r] = db[r] \/ pend[p][r] # Clean \/ (Creating(tx[p]) /\ r = tx[p].id),
         \A q \in Procs \ {p} : Indexed(tx[q]) => \A e \in Deposits : ~Live(db'[e], tx[q].new.reference)
  PROVE  RInv'
<1>1. /\ tx'[p] = Idle /\ pend'[p] = NothingWritten
      /\ \A q \in Procs \ {p} : tx'[q] = tx[q] /\ pend'[q] = pend[q]
  BY DEF Finish, RInv, IInv, RequestsOK, WrittenSound
<1>2. ASSUME NEW q \in Procs \ {p}, NEW i \in Items \cup Keys, i # tx[q].id
      PROVE  i \notin Locked(tx[q], db)
  <2>1. /\ Described(tx[q], db, pend[q]) /\ Shape(tx[q]) /\ tx[q] \in Request
        /\ tx[q].op \in {"approve", "reject", "relink", "manual"} => ItemRow(tx[q].id, Original(tx[q], db))
    BY RequestContext
  <2> QED
    BY <1>2, <2>1, NotLocked
<1>3. ASSUME NEW q \in Procs \ {p}
      PROVE  Described(tx[q], db', pend[q])
  <2>1. ASSUME NEW r \in Locked(tx[q], db) PROVE db'[r] = db[r]
    <3>1. r \in Rows /\ pend[q][r] # Clean
      BY DEF Locked, RInv, AllDescribed, Described, Written
    <3>2. pend[p][r] = Clean
      BY <3>1 DEF RInv, LocksExclude
    <3>3. CASE Creating(tx[p]) /\ r = tx[p].id
      <4>1. tx[q].id # r /\ r \in Items
        BY <3>3 DEF RInv, IdsFresh, AllDescribed, Described, Checked, CreateChecked, Items
      <4> QED
        BY <1>2, <4>1
    <3> QED
      BY <3>1, <3>2, <3>3
  <2>2. ASSUME Creating(tx[q]) PROVE db'[tx[q].id] = db[tx[q].id]
    <3>1. tx[p].id # tx[q].id /\ tx[q].id \in Items /\ tx[q].id \in Rows
      BY <2>2 DEF RInv, IdsFresh, AllDescribed, Described, Checked, CreateChecked, Items, Rows
    <3>2. /\ Described(tx[p], db, pend[p]) /\ Shape(tx[p]) /\ tx[p] \in Request
          /\ tx[p].op \in {"approve", "reject", "relink", "manual"} => ItemRow(tx[p].id, Original(tx[p], db))
      BY RequestContext
    <3>3. tx[q].id \notin Locked(tx[p], db)
      BY <3>1, <3>2, NotLocked
    <3>4. pend[p][tx[q].id] = Clean
      BY <3>1, <3>2, <3>3 DEF Described, Written
    <3> QED
      BY <3>1, <3>4
  <2> QED
    BY <2>1, <2>2, Stable
<1>4. AllDescribed'
  BY <1>1, <1>3, IdleDescribed DEF AllDescribed
<1>5. LocksExclude'
  BY <1>1 DEF RInv, LocksExclude, NothingWritten
<1>6. IdsFresh'
  <2>1. \A q \in Procs \ {p} : Creating(tx[q]) => tx[q].id # Idle.id
    <3> SUFFICES ASSUME NEW q \in Procs, Creating(tx[q]) PROVE tx[q].id # Idle.id
      OBVIOUS
    <3>1. CreateChecked(tx[q], db)
      BY DEF RInv, AllDescribed, Described, Checked
    <3> QED
      BY <3>1, RowsAreDistinct, IdleDescribed DEF CreateChecked, Rows, Items
  <2> QED
    BY <1>1, <2>1, IdleDescribed DEF RInv, IdsFresh
<1>7. IndexUnique'
  BY <1>1, IdleDescribed DEF RInv, IndexUnique
<1> QED
  BY <1>4, <1>5, <1>6, <1>7 DEF RInv

\* The one item a request has written is the one it is about, and it is decided.
LEMMA WrittenItem ==
  ASSUME RInv, NEW p \in Procs, NEW i \in Items, pend[p][i] # Clean
  PROVE  /\ i = tx[p].id /\ HoldsItem(tx[p]) /\ tx[p].op \in {"approve", "reject", "relink", "manual"}
         /\ pend[p][i] = ItemVersion(tx[p], db) /\ pend[p][i] # Absent
         /\ pend[p][i].status = StatusMade(tx[p], Original(tx[p], db).status)
         /\ i \in Deposits => pend[p][i].reference = Original(tx[p], db).reference
<1> DEFINE t == tx[p]
<1>1. /\ t \in Request /\ Shape(t) /\ Described(t, db, pend[p]) /\ t.seen \in Link /\ t.to \in Link
      /\ t.op \in {"approve", "reject", "relink", "manual"} => t.id \in Items /\ ItemRow(t.id, Original(t, db))
  BY RequestContext
<1>2. i \in Rows /\ i \in Locked(t, db)
  BY <1>1 DEF Described, Written, Rows
<1>3. i = t.id
  BY <1>1, <1>2, NotLocked
<1>4. HoldsItem(t)
  <2>1. i \notin Link /\ i \notin Users /\ i \notin Keys
    BY RowsAreDistinct DEF Link, Rows, Items
  <2>2. HasPaid(t) => Payee(t, db) \in Users
    BY PayeeIsUser
  <2>3. HasRecorded(t) => t.id \in Keys
    BY <1>1 DEF HasRecorded, Shape
  <2> QED
    BY <1>1, <1>2, <1>3, <2>1, <2>2, <2>3 DEF Locked
<1>5. t.op \in {"approve", "reject", "relink", "manual"}
  BY <1>4 DEF HoldsItem
<1>6. pend[p][i] = ItemVersion(t, db)
  BY <1>1, <1>3, <1>4 DEF Described, Written
<1>7. pend[p][i] # Absent
  <2>1. Sound(i, pend[p][i])
    BY <1>2 DEF RInv, IInv, WrittenSound
  <2> QED
    BY <2>1, AbsentIsNoRow DEF Sound, Items
<1> QED
  BY <1>1, <1>3, <1>4, <1>5, <1>6, <1>7, VersionFields

LEMMA CommitDescribed ==
  ASSUME RInv, NEW p \in Procs, Commit(p)
  PROVE  RInv'
<1> DEFINE t == tx[p]
<1>1. IInv /\ IInv' /\ Finish(p)
  BY CommitKeeps DEF RInv, Commit
<1>2. \A r \in Rows : db'[r] = IF pend[p][r] = Clean THEN db[r] ELSE pend[p][r]
  BY DEF Commit, View
<1>3. ASSUME NEW i \in Items, pend[p][i] # Clean
      PROVE  /\ i = t.id /\ db'[i] = pend[p][i] /\ db'[i] # Absent
             /\ t.op \in {"approve", "reject"} => db[i] # Absent /\ db[i].status = "PENDING"
             /\ t.op = "relink" => db[i] # Absent /\ db[i].status = "APPROVED"
             /\ t.op = "manual" => db[i] = Absent
             /\ db'[i].status = IF t.op = "reject" THEN "REJECTED" ELSE "APPROVED"
             /\ t.op \in {"approve", "reject", "relink", "manual"}
  <2>1. /\ i = t.id /\ HoldsItem(t) /\ t.op \in {"approve", "reject", "relink", "manual"}
        /\ pend[p][i] # Absent /\ pend[p][i].status = StatusMade(t, Original(t, db).status)
    BY <1>3, WrittenItem
  <2>2. db'[i] = pend[p][i]
    BY <1>2, <1>3 DEF Rows
  <2>3. Checked(t, db)
    BY RequestContext DEF Described
  <2>4. t.op \in {"approve", "reject"} => db[i] # Absent /\ db[i].status = "PENDING"
    BY <2>1, <2>3 DEF Checked, DecisionChecked, HoldsItem
  <2>5. t.op = "relink" => db[i] # Absent /\ db[i].status = "APPROVED"
    BY <2>1, <2>3 DEF Checked, RelinkChecked
  <2>6. t.op = "manual" => db[i] = Absent /\ t.new.status = "APPROVED"
    BY <2>1, <2>3 DEF Checked, CreateChecked, Creating
  <2> QED
    BY <2>1, <2>2, <2>4, <2>5, <2>6 DEF StatusMade, Original
<1>4. \A i \in Items : i \in Rows
  BY DEF Rows
<1>5. Gentle(db, db')
  BY <1>2, <1>3, <1>4 DEF Gentle
<1>6. PendingUnlinked'
  BY <1>2, <1>3, <1>4 DEF RInv, PendingUnlinked
<1>7. ASSUME NEW q \in Procs \ {p}, Indexed(tx[q]), NEW e \in Deposits, Live(db'[e], tx[q].new.reference)
      PROVE  FALSE
  <2>1. e \in Items /\ e \in Rows /\ ~Live(db[e], tx[q].new.reference)
    BY <1>7 DEF Items, Rows, RInv, IndexUnique
  <2>2. pend[p][e] # Clean
    BY <1>2, <1>7, <2>1
  <2>3. /\ e = t.id /\ t.op # "reject" /\ t.op \in {"approve", "relink", "manual"}
        /\ HoldsItem(t) /\ Original(t, db).reference = tx[q].new.reference
    BY <1>3, <1>7, <2>1, <2>2, WrittenItem DEF Live
  <2>4. CASE t.op = "manual"
    <3>1. Indexed(t) /\ Original(t, db) = t.new
      BY <2>3, <2>4 DEF Indexed, HoldsItem, Original
    <3> QED
      BY <1>7, <2>3, <3>1 DEF RInv, IndexUnique
  <2>5. CASE t.op # "manual"
    <3>1. Original(t, db) = db[e]
      BY <2>3, <2>5 DEF Original
    <3> QED
      BY <1>3, <2>1, <2>2, <2>3, <2>5, <3>1 DEF Live
  <2> QED
    BY <2>4, <2>5
<1> QED
  BY <1>1, <1>2, <1>5, <1>6, <1>7, EndKeeps

LEMMA RowKinds == \A row : ~(row \in DepositRow /\ row \in WithdrawalRow)
<1> SUFFICES ASSUME NEW row \in DepositRow, row \in WithdrawalRow PROVE FALSE
  OBVIOUS
<1>1. DOMAIN row = {"status", "user", "amount", "reference", "link", "before", "after"}
  BY DEF DepositRow
<1>2. DOMAIN row = {"status", "user", "amount", "link"}
  BY DEF WithdrawalRow
<1> QED
  BY <1>1, <1>2

\* A user's request is stored by one autocommitted INSERT.
LEMMA CreateDescribed ==
  ASSUME RInv, NEW p \in Procs, InsertWithdrawal(p) \/ (InsertDeposit(p) /\ tx[p].op = "create")
  PROVE  RInv'
<1> DEFINE t == tx[p]
<1>1. IInv /\ IInv'
  BY InsertKeeps DEF RInv
<1>2. t.at = "insert" /\ db' = [db EXCEPT ![t.id] = t.new] /\ Finish(p)
  BY DEF InsertWithdrawal, InsertDeposit
<1>3. t.op = "create" /\ Shape(t)
  <2>1. InsertWithdrawal(p) => t.op = "create"
    <3>1. Shape(t) /\ Checked(t, db)
      BY RequestContext DEF Described
    <3>2. ASSUME InsertWithdrawal(p), t.op = "manual" PROVE FALSE
      BY <3>1, <3>2, RowKinds DEF InsertWithdrawal, Checked, Creating, CreateChecked
    <3> QED
      BY <3>1, <3>2 DEF InsertWithdrawal, Shape
  <2> QED
    BY <2>1, RequestContext
<1>4. CreateChecked(t, db) /\ t.id \in Items /\ t.id \in Rows
  BY <1>3, RequestContext DEF Described, Checked, Creating, CreateChecked, Items, Rows
<1>5. \A r \in Rows : db'[r] = IF r = t.id THEN t.new ELSE db[r]
  BY <1>1, <1>2 DEF IInv, CommittedSound
<1>6. db[t.id] = Absent /\ t.new.link = None
  BY <1>4 DEF CreateChecked
<1>7. Gentle(db, db')
  BY <1>5, <1>6 DEF Gentle, Rows
<1>8. PendingUnlinked'
  BY <1>5, <1>6 DEF PendingUnlinked, RInv, Rows
<1>9. \A r \in Rows : db'[r] = db[r] \/ (Creating(t) /\ r = t.id)
  BY <1>3, <1>5 DEF Creating
<1>10. ASSUME NEW q \in Procs \ {p}, Indexed(tx[q]), NEW e \in Deposits, Live(db'[e], tx[q].new.reference)
       PROVE  FALSE
  <2>1. e \in Items /\ e \in Rows /\ ~Live(db[e], tx[q].new.reference)
    BY <1>10 DEF Items, Rows, RInv, IndexUnique
  <2>2. e = t.id /\ t.new.reference = tx[q].new.reference
    BY <1>5, <1>10, <2>1 DEF Live
  <2>3. InsertDeposit(p)
    <3>1. t.new \in DepositRow
      BY <1>4, <2>2, RowsAreDistinct DEF CreateChecked
    <3> QED
      BY <3>1, RowKinds DEF InsertWithdrawal
  <2>4. tx[q].id \in Deposits /\ pend[q][tx[q].id] # Clean /\ Live(pend[q][tx[q].id], tx[q].new.reference)
    BY <1>10, IndexedIsLive
  <2>5. Holders(t.new.reference) = {}
    BY <2>3 DEF InsertDeposit
  <2> QED
    BY <2>2, <2>4, <2>5 DEF Holders
<1> QED
  BY <1>1, <1>2, <1>7, <1>8, <1>9, <1>10, EndKeeps

LEMMA RefinementInit == Init => RInv
<1> SUFFICES ASSUME Init PROVE RInv
  OBVIOUS
<1>1. IInv
  BY InitSound
<1>2. \A p \in Procs : tx[p] = Idle /\ pend[p] = NothingWritten
  BY DEF Init
<1>3. \A i \in Items : db[i] = Absent
  BY RowsAreDistinct DEF Init, TablesInit, Rows, Items
<1> QED
  BY <1>1, <1>2, <1>3, IdleDescribed
     DEF RInv, AllDescribed, LocksExclude, NothingWritten, IdsFresh, IndexUnique, PendingUnlinked

\* Every step keeps the invariant.
LEMMA RefinementStep ==
  ASSUME RInv, [Next]_vars
  PROVE  RInv'
<1>1. CASE UNCHANGED vars
  <2>1. IInv'
    BY <1>1, InvariantStep DEF RInv
  <2> QED
    BY <1>1, <2>1 DEF vars, RInv, AllDescribed, LocksExclude, IdsFresh, IndexUnique, PendingUnlinked
<1>2. ASSUME NEW p \in Procs, Statement(p) PROVE RInv'
  <2>1. CASE InsertWithdrawal(p) \/ (InsertDeposit(p) /\ tx[p].op = "create")
    BY <2>1, CreateDescribed
  <2>2. CASE InsertDeposit(p) /\ tx[p].op # "create"
    BY <2>2, InsertDescribed DEF InsertDeposit
  <2>3. CASE Claim(p) \/ ClaimLink(p) \/ SaveDetails(p)
    BY <2>3, ItemStatementDescribed
  <2>4. CASE Reverse(p) \/ Post(p)
    BY <2>4, AccountStatementDescribed
  <2>5. CASE Pay(p)
    BY <2>5, PayDescribed
  <2>6. CASE RecordAdjustment(p)
    BY <2>6, RecordDescribed
  <2>7. CASE Commit(p)
    BY <2>7, CommitDescribed
  <2>8. CASE InsertRefused(p) \/ ClaimLost(p) \/ ClaimLinkLost(p) \/ PayRefused(p) \/ ReplayAdjustment(p)
    BY <2>8, RollbackDescribed DEF InsertRefused, ClaimLost, ClaimLinkLost, PayRefused, ReplayAdjustment
  <2> QED
    BY <1>2, <2>1, <2>2, <2>3, <2>4, <2>5, <2>6, <2>7, <2>8 DEF Statement
<1>3. ASSUME NEW p \in Procs, Arrive(p) PROVE RInv'
  BY <1>3, ArriveDescribed
<1>4. ASSUME NEW p \in Procs, Abort(p) \/ BreakDeadlock(p) PROVE RInv'
  BY <1>4, RollbackDescribed DEF Abort, BreakDeadlock
<1> QED
  BY <1>1, <1>2, <1>3, <1>4 DEF Next

-----------------------------------------------------------------------------
(* A commit is one request of MoneyAtomic *)

\* Both specifications mean the same by a row and by what happens to it.
LEMMA SameTables ==
  /\ Atomic!Rows = Rows /\ Atomic!Items = Items /\ Atomic!Link = Link
  /\ Atomic!ManualTypes = ManualTypes
  /\ \A w, c, n : Atomic!MoveWallet(w, c, n) = MoveWallet(w, c, n)
  /\ \A w, n : Atomic!CanMove(w, n) <=> CanMove(w, n)
  /\ \A a, type, n, i : Atomic!ApplyMovement(a, type, n, i) = ApplyMovement(a, type, n, i)
  /\ \A i : Atomic!ForwardType(i) = ForwardType(i) /\ Atomic!ReversalType(i) = ReversalType(i)
  /\ \A row, x : Atomic!Live(row, x) <=> Live(row, x)
<1>1. Atomic!Items = Items /\ Atomic!CreditTypes = CreditTypes /\ Atomic!DebitTypes = DebitTypes
  BY DEF Atomic!Items, Items, Atomic!CreditTypes, CreditTypes, Atomic!DebitTypes, DebitTypes
<1>2. /\ Atomic!Rows = Rows /\ Atomic!Link = Link /\ Atomic!ManualTypes = ManualTypes
  BY <1>1 DEF Atomic!Rows, Rows, Atomic!Link, Link, Atomic!ManualTypes, ManualTypes
<1>3. \A w, c, n : Atomic!MoveWallet(w, c, n) = MoveWallet(w, c, n)
  BY DEF Atomic!MoveWallet, MoveWallet
<1>4. \A w, n : Atomic!CanMove(w, n) <=> CanMove(w, n)
  BY DEF Atomic!CanMove, CanMove
<1>5. \A a, type, n, i : Atomic!ApplyMovement(a, type, n, i) = ApplyMovement(a, type, n, i)
  BY <1>1 DEF Atomic!ApplyMovement, ApplyMovement
<1>6. \A i : Atomic!ForwardType(i) = ForwardType(i) /\ Atomic!ReversalType(i) = ReversalType(i)
  BY DEF Atomic!ForwardType, ForwardType, Atomic!ReversalType, ReversalType
<1>7. \A row, x : Atomic!Live(row, x) <=> Live(row, x)
  BY DEF Atomic!Live, Live
<1> QED
  BY <1>1, <1>2, <1>3, <1>4, <1>5, <1>6, <1>7

LEMMA SameInit == TablesInit <=> Atomic!TablesInit
BY SameTables DEF TablesInit, Atomic!TablesInit, NewWallet, NewAccount, Atomic!NewWallet, Atomic!NewAccount

LEMMA CommitRows ==
  ASSUME RInv, NEW p \in Procs, Commit(p)
  PROVE  /\ db' = [r \in Rows |-> db'[r]]
         /\ \A r \in Rows : db'[r] = IF r \in Locked(tx[p], db) THEN pend[p][r] ELSE db[r]
<1>1. db' = [r \in Rows |-> View(p, r)]
  BY DEF Commit
<1>2. \A r \in Rows : pend[p][r] # Clean <=> r \in Locked(tx[p], db)
  BY RequestContext DEF Described, Written
<1>3. \A r \in Rows : db'[r] = IF r \in Locked(tx[p], db) THEN pend[p][r] ELSE db[r]
  BY <1>1, <1>2 DEF View
<1> QED
  BY <1>1, <1>3

\* An approved deposit, and an admin's own, credits its owner and the account
\* that received the money.
LEMMA DepositCredited ==
  ASSUME RInv, NEW p \in Procs, Commit(p), tx[p].op \in {"approve", "manual"}, tx[p].id \in Deposits
  PROVE  Atomic!CreditDeposit(tx[p].id, Original(tx[p], db), tx[p].to)
<1> DEFINE t == tx[p]
           row == Original(t, db)
           moved == MoveWallet(db[row.user], t.id, row.amount)
<1>1. /\ t \in Request /\ Shape(t) /\ Described(t, db, pend[p]) /\ t.seen \in Link /\ t.to \in Link
      /\ t.id \in Items /\ ItemRow(t.id, row) /\ t.at = "commit"
  BY RequestContext DEF Commit
<1>2. row \in DepositRow
  BY <1>1 DEF ItemRow
<1>3. t.seen = None /\ row.link = None
  <2>1. CASE t.op = "approve"
    <3>1. DecisionChecked(t, db)
      BY <1>1, <2>1 DEF Described, Checked
    <3>2. db[t.id] # Absent /\ db[t.id].status = "PENDING" /\ t.seen = None
      BY <1>1, <3>1 DEF DecisionChecked
    <3>3. row = db[t.id]
      BY <2>1 DEF Original
    <3> QED
      BY <1>1, <3>2, <3>3 DEF RInv, PendingUnlinked
  <2>2. CASE t.op = "manual"
    <3>1. CreateChecked(t, db) /\ row = t.new
      BY <1>1, <2>2 DEF Described, Checked, Creating, Original
    <3> QED
      BY <3>1 DEF CreateChecked
  <2> QED
    BY <2>1, <2>2
<1>4. t.op = "manual" => row.status = "APPROVED"
  BY <1>1 DEF Described, Checked, Creating, CreateChecked, Original
<1>5. /\ HoldsItem(t) /\ HasPaid(t) /\ ~HasReversed(t) /\ ~HasEntered(t) /\ ~HasRecorded(t)
      /\ HasLinked(t) <=> t.to # None
      /\ HasPosted(t) <=> t.to # None
  BY <1>1, <1>3 DEF HoldsItem, HasPaid, HasReversed, HasEntered, HasRecorded, HasLinked, HasPosted
<1>6. Payee(t, db) = row.user /\ Payment(t, db) = row.amount
  BY DEF Payee, Payment, WalletDelta
<1>7. row.user \in Users /\ row.user # t.id /\ row.user # t.to /\ t.id # t.to /\ row.user \in Rows
  BY <1>1, <1>2, RowsAreDistinct DEF DepositRow, Link, Rows, Items
<1>8. \A r \in Rows : r \in Locked(t, db) <=> r = t.id \/ r = row.user \/ r = t.to
  BY <1>5, <1>6, RowsAreDistinct DEF Locked
<1>9. pend[p][t.id] = [row EXCEPT !.status = "APPROVED", !.link = t.to,
                                  !.before = db[row.user].balance, !.after = moved.balance]
  <2>1. Linked(t, db) = [row EXCEPT !.status = "APPROVED", !.link = t.to]
    <3>1. Decided(t, db) = [row EXCEPT !.status = "APPROVED"]
      <4>1. CASE t.op = "approve"
        BY <4>1 DEF Decided, Original
      <4>2. CASE t.op = "manual"
        <5>1. row = [row EXCEPT !.status = "APPROVED"]
          <6> HIDE DEF row
          <6> QED
            BY <1>2, <1>4, <4>2 DEF DepositRow
        <5> QED
          BY <4>2, <5>1 DEF Decided
      <4> QED
        BY <4>1, <4>2
    <3>2. CASE t.to # None
      BY <1>5, <3>1, <3>2 DEF Linked
    <3>3. CASE t.to = None
      <4>1. Linked(t, db) = [row EXCEPT !.status = "APPROVED"]
        BY <1>5, <3>1, <3>3 DEF Linked
      <4>2. [row EXCEPT !.status = "APPROVED"] = [row EXCEPT !.status = "APPROVED", !.link = None]
        <5> HIDE DEF row
        <5> QED
          BY <1>2, <1>3 DEF DepositRow
      <4> QED
        BY <3>3, <4>1, <4>2
    <3> QED
      BY <3>2, <3>3
  <2>2. pend[p][t.id] = ItemVersion(t, db)
    BY <1>1, <1>5 DEF Described, Written
  <2>3. ItemVersion(t, db) = [Linked(t, db) EXCEPT !.before = db[row.user].balance,
                                                   !.after = db[row.user].balance + row.amount]
    BY <1>5, <1>6 DEF ItemVersion
  <2>4. moved.balance = db[row.user].balance + row.amount
    BY DEF MoveWallet
  <2> HIDE DEF row, moved, t
  <2> QED
    BY <2>1, <2>2, <2>3, <2>4
<1>10. pend[p][row.user] = moved
  BY <1>1, <1>5, <1>6 DEF Described, Written
<1>11. t.to # None => pend[p][t.to] = ApplyMovement(db[t.to], "DEPOSIT_IN", row.amount, t.id)
  BY <1>1, <1>5 DEF Described, Written, ForwardType
<1>12. db' = [r \in Rows |->
                IF r = t.id THEN [row EXCEPT !.status = "APPROVED", !.link = t.to,
                                             !.before = db[row.user].balance, !.after = moved.balance]
                ELSE IF r = row.user THEN moved
                ELSE IF r = t.to THEN ApplyMovement(db[t.to], "DEPOSIT_IN", row.amount, t.id)
                ELSE db[r]]
  <2> DEFINE stored == [row EXCEPT !.status = "APPROVED", !.link = t.to,
                                   !.before = db[row.user].balance, !.after = moved.balance]
             posted == ApplyMovement(db[t.to], "DEPOSIT_IN", row.amount, t.id)
  <2>1. \A r \in Rows : r = t.to => t.to # None
    BY RowsAreDistinct
  <2>2. pend[p][t.id] = stored
    BY <1>9
  <2> HIDE DEF row, moved, stored, posted
  <2>3. \A r \in Rows : db'[r] = IF r = t.id THEN stored ELSE IF r = row.user THEN moved
                                 ELSE IF r = t.to THEN posted ELSE db[r]
    <3>1. t.to # None => pend[p][t.to] = posted
      BY <1>11 DEF posted
    <3> QED
      BY <1>7, <1>8, <1>10, <2>1, <2>2, <3>1, CommitRows
  <2> QED
    BY <2>3, CommitRows DEF stored, posted
<1> QED
  BY <1>12, SameTables DEF Atomic!CreditDeposit

LEMMA WithdrawalPaid ==
  ASSUME RInv, NEW p \in Procs, Commit(p), tx[p].op = "approve", tx[p].id \in Withdrawals
  PROVE  Atomic!ApproveWithdrawal(tx[p].id)
<1> DEFINE t == tx[p]
           row == db[t.id]
           moved == MoveWallet(db[row.user], t.id, -row.amount)
<1>1. /\ t \in Request /\ Shape(t) /\ Described(t, db, pend[p]) /\ t.seen \in Link /\ t.to \in Link
      /\ t.id \in Items /\ ItemRow(t.id, Original(t, db)) /\ t.at = "commit" /\ t.id \notin Deposits
  BY RequestContext, RowsAreDistinct DEF Commit
<1>2. Original(t, db) = row /\ row \in WithdrawalRow
  BY <1>1 DEF ItemRow, Original
<1>3. row # Absent /\ row.status = "PENDING" /\ t.seen = None /\ t.to = None
  BY <1>1 DEF Described, Checked, DecisionChecked
<1>4. /\ HoldsItem(t) /\ HasPaid(t) /\ ~HasLinked(t) /\ ~HasReversed(t) /\ ~HasPosted(t)
      /\ ~HasEntered(t) /\ ~HasRecorded(t)
  BY <1>1, <1>3 DEF HoldsItem, HasPaid, HasReversed, HasEntered, HasRecorded, HasLinked, HasPosted
<1>5. Payee(t, db) = row.user /\ Payment(t, db) = -row.amount
  BY <1>1, <1>2 DEF Payee, Payment, WalletDelta
<1>6. row.user \in Users /\ row.user # t.id /\ row.user \in Rows /\ t.id \in Rows
  BY <1>1, <1>2, RowsAreDistinct DEF WithdrawalRow, Rows, Items
<1>7. \A r \in Rows : r \in Locked(t, db) <=> r = t.id \/ r = row.user
  BY <1>4, <1>5 DEF Locked
<1>8. pend[p][t.id] = [row EXCEPT !.status = "APPROVED"]
  BY <1>1, <1>4 DEF Described, Written, ItemVersion, Linked, Decided
<1>9. pend[p][row.user] = moved
  BY <1>1, <1>4, <1>5 DEF Described, Written
<1>10. CanMove(db[row.user], -row.amount)
  BY <1>1, <1>4, <1>5 DEF Described, Checked
<1>11. db' = [db EXCEPT ![t.id].status = "APPROVED", ![row.user] = moved]
  <2> DEFINE stored == [row EXCEPT !.status = "APPROVED"]
  <2>1. db = [r \in Rows |-> db[r]]
    BY DEF RInv, IInv, CommittedSound
  <2>2. pend[p][t.id] = stored
    BY <1>8
  <2>3. \A r \in Rows : db'[r] = IF r = row.user THEN moved ELSE IF r = t.id THEN stored ELSE db[r]
    <3> HIDE DEF row, moved, stored
    <3> QED
      BY <1>6, <1>7, <1>9, <2>2, CommitRows
  <2>4. db' = [db EXCEPT ![t.id] = stored, ![row.user] = moved]
    <3> HIDE DEF row, moved, stored
    <3> QED
      BY <1>6, <2>1, <2>3, CommitRows
  <2> QED
    BY <2>4
<1> QED
  BY <1>3, <1>10, <1>11, SameTables DEF Atomic!ApproveWithdrawal

LEMMA ItemRejected ==
  ASSUME RInv, NEW p \in Procs, Commit(p), tx[p].op = "reject"
  PROVE  tx[p].id \in Items /\ Atomic!Reject(tx[p].id)
<1> DEFINE t == tx[p]
<1>1. Described(t, db, pend[p]) /\ t.id \in Items /\ t.id \in Rows /\ t.at = "commit"
  BY RequestContext DEF Commit, Rows
<1>2. db[t.id] # Absent /\ db[t.id].status = "PENDING"
  BY <1>1 DEF Described, Checked, DecisionChecked
<1>3. /\ HoldsItem(t) /\ ~HasPaid(t) /\ ~HasLinked(t) /\ ~HasReversed(t) /\ ~HasPosted(t)
      /\ ~HasEntered(t) /\ ~HasRecorded(t)
  BY <1>1 DEF HoldsItem, HasPaid, HasReversed, HasEntered, HasRecorded, HasLinked, HasPosted
<1>4. \A r \in Rows : r \in Locked(t, db) <=> r = t.id
  BY <1>3 DEF Locked
<1>5. pend[p][t.id] = [db[t.id] EXCEPT !.status = "REJECTED"]
  BY <1>1, <1>3 DEF Described, Written, ItemVersion, Linked, Decided
<1>6. db' = [db EXCEPT ![t.id] = [db[t.id] EXCEPT !.status = "REJECTED"]]
  <2> DEFINE stored == [db[t.id] EXCEPT !.status = "REJECTED"]
  <2>1. db = [r \in Rows |-> db[r]]
    BY DEF RInv, IInv, CommittedSound
  <2> HIDE DEF stored
  <2>2. \A r \in Rows : db'[r] = IF r = t.id THEN stored ELSE db[r]
    BY <1>4, <1>5, CommitRows DEF stored
  <2>3. db' = [db EXCEPT ![t.id] = stored]
    BY <1>1, <2>1, <2>2, CommitRows
  <2> QED
    BY <2>3 DEF stored
<1> QED
  BY <1>1, <1>2, <1>6 DEF Atomic!Reject

LEMMA ItemRelinked ==
  ASSUME RInv, NEW p \in Procs, Commit(p), tx[p].op = "relink"
  PROVE  /\ tx[p].id \in Items /\ tx[p].to \in Link
         /\ Atomic!Relink(tx[p].id, tx[p].to) \/ UNCHANGED db
<1> DEFINE t == tx[p]
           row == db[t.id]
<1>1. /\ Described(t, db, pend[p]) /\ t.id \in Items /\ t.id \in Rows /\ t.at = "commit"
      /\ t.seen \in Link /\ t.to \in Link
  BY RequestContext DEF Commit, Rows
<1>2. row # Absent /\ row.status = "APPROVED" /\ (HasLinked(t) => row.link = t.seen)
  BY <1>1 DEF Described, Checked, RelinkChecked
<1>3. /\ HoldsItem(t) /\ ~HasPaid(t) /\ ~HasEntered(t) /\ ~HasRecorded(t)
      /\ HasLinked(t) <=> t.to # t.seen
      /\ HasReversed(t) <=> t.to # t.seen /\ t.seen # None
      /\ HasPosted(t) <=> t.to # t.seen /\ t.to # None
  BY <1>1 DEF HoldsItem, HasPaid, HasReversed, HasEntered, HasRecorded, HasLinked, HasPosted
<1>4. pend[p][t.id] = Linked(t, db) /\ Decided(t, db) = row /\ Original(t, db) = row
  BY <1>1, <1>3 DEF Described, Written, ItemVersion, Decided, Original
<1>5. db = [r \in Rows |-> db[r]]
  BY DEF RInv, IInv, CommittedSound
<1>6. CASE t.to = t.seen
  <2>1. \A r \in Rows : r \in Locked(t, db) => r = t.id
    BY <1>3, <1>6 DEF Locked
  <2>2. pend[p][t.id] = db[t.id]
    BY <1>3, <1>4, <1>6 DEF Linked
  <2>3. \A r \in Rows : db'[r] = db[r]
    BY <2>1, <2>2, CommitRows
  <2> QED
    BY <1>1, <1>5, <2>3, CommitRows
<1>7. CASE t.to # t.seen
  <2> DEFINE stored == [row EXCEPT !.link = t.to]
  <2>1. row.link = t.seen
    BY <1>2, <1>3, <1>7
  <2>2. \A r \in Rows : r \in Locked(t, db) <=> r = t.id \/ r = t.seen \/ r = t.to
    BY <1>3, <1>7, RowsAreDistinct DEF Locked
  <2>3. pend[p][t.id] = stored
    BY <1>3, <1>4, <1>7 DEF Linked
  <2>4. /\ t.seen \in Rows => pend[p][t.seen] = ApplyMovement(db[t.seen], ReversalType(t.id), row.amount, t.id)
        /\ t.to \in Rows => pend[p][t.to] = ApplyMovement(db[t.to], ForwardType(t.id), row.amount, t.id)
    <3>1. t.seen \in Rows => HasReversed(t)
      BY <1>3, <1>7, RowsAreDistinct
    <3>2. t.to \in Rows => HasPosted(t)
      BY <1>3, <1>7, RowsAreDistinct
    <3> QED
      BY <1>1, <1>4, <3>1, <3>2 DEF Described, Written
  <2> HIDE DEF stored
  <2>5. \A r \in Rows :
           db'[r] = IF r = t.id THEN stored
                    ELSE IF r = row.link THEN ApplyMovement(db[r], ReversalType(t.id), row.amount, t.id)
                    ELSE IF r = t.to THEN ApplyMovement(db[r], ForwardType(t.id), row.amount, t.id)
                    ELSE db[r]
    BY <2>1, <2>2, <2>3, <2>4, CommitRows
  <2>6. db' = [r \in Rows |-> IF r = t.id THEN stored
                    ELSE IF r = row.link THEN ApplyMovement(db[r], ReversalType(t.id), row.amount, t.id)
                    ELSE IF r = t.to THEN ApplyMovement(db[r], ForwardType(t.id), row.amount, t.id)
                    ELSE db[r]]
    BY <2>5, CommitRows
  <2>7. Atomic!Relink(t.id, t.to)
    BY <1>2, <1>7, <2>1, <2>6, SameTables DEF Atomic!Relink, stored
  <2> QED
    BY <1>1, <2>7
<1> QED
  BY <1>6, <1>7

LEMMA WalletAdjusted ==
  ASSUME RInv, NEW p \in Procs, Commit(p), tx[p].op = "adjust"
  PROVE  /\ tx[p].id \in Keys /\ tx[p].new.user \in Users
         /\ tx[p].new.delta \in Amounts \/ -tx[p].new.delta \in Amounts
         /\ tx[p].new.delta \in Int
         /\ Atomic!Adjust(tx[p].id, tx[p].new.user, tx[p].new.delta)
<1> DEFINE t == tx[p]
           u == t.new.user
           delta == t.new.delta
           moved == MoveWallet(db[u], t.id, delta)
           stored == [user |-> u, delta |-> delta, before |-> db[u].balance, after |-> db[u].balance + delta]
<1>1. /\ Described(t, db, pend[p]) /\ t.id \in Keys /\ t.id \in Rows /\ t.at = "commit"
      /\ u \in Users /\ u \in Rows /\ delta \in Int
  BY RequestContext DEF Commit, Rows, Shape, Asked
<1>2. /\ ~HoldsItem(t) /\ HasPaid(t) /\ ~HasEntered(t) /\ HasRecorded(t)
      /\ ~HasLinked(t) /\ ~HasReversed(t) /\ ~HasPosted(t)
  BY <1>1 DEF HoldsItem, HasPaid, HasReversed, HasEntered, HasRecorded, HasLinked, HasPosted
<1>3. Payee(t, db) = u /\ Payment(t, db) = delta
  BY DEF Payee, Payment
<1>4. db[t.id] = Absent /\ CanMove(db[u], delta) /\ (delta \in Amounts \/ -delta \in Amounts)
  BY <1>1, <1>2, <1>3 DEF Described, Checked
<1>5. \A r \in Rows : r \in Locked(t, db) <=> r = t.id \/ r = u
  BY <1>2, <1>3 DEF Locked
<1>6. pend[p][t.id] = stored /\ pend[p][u] = moved
  BY <1>1, <1>2, <1>3 DEF Described, Written
<1>7. u # t.id
  BY <1>1, RowsAreDistinct
<1>8. db' = [db EXCEPT ![t.id] = stored, ![u] = moved]
  <2> HIDE DEF stored, moved, u, delta
  <2>1. db = [r \in Rows |-> db[r]]
    BY DEF RInv, IInv, CommittedSound
  <2>2. \A r \in Rows : db'[r] = IF r = u THEN moved ELSE IF r = t.id THEN stored ELSE db[r]
    BY <1>5, <1>6, <1>7, CommitRows
  <2> QED
    BY <1>1, <2>1, <2>2, CommitRows
<1>9. db' = [db EXCEPT ![t.id] = stored, ![u] = Atomic!MoveWallet(@, t.id, delta)]
  <2>1. [db EXCEPT ![t.id] = stored, ![u] = moved] = [db EXCEPT ![t.id] = stored, ![u] = MoveWallet(@, t.id, delta)]
    <3> HIDE DEF stored
    <3> QED
      BY <1>7
  <2> QED
    BY <1>8, <2>1, SameTables
<1> QED
  BY <1>1, <1>4, <1>9, SameTables DEF Atomic!Adjust

LEMMA EntryRecorded ==
  ASSUME RInv, NEW p \in Procs, Commit(p), tx[p].op = "entry"
  PROVE  /\ tx[p].to \in Accounts /\ tx[p].new.type \in ManualTypes /\ tx[p].new.amount \in Amounts
         /\ Atomic!RecordManualEntry(tx[p].to, tx[p].new.type, tx[p].new.amount)
<1> DEFINE t == tx[p]
           posted == ApplyMovement(db[t.to], t.new.type, t.new.amount, None)
<1>1. /\ Described(t, db, pend[p]) /\ t.at = "commit" /\ t.to \in Accounts /\ t.to \in Rows
      /\ t.new.type \in ManualTypes /\ t.new.amount \in Amounts
  BY RequestContext DEF Commit, Rows, Shape, Movement
<1>2. /\ ~HoldsItem(t) /\ ~HasPaid(t) /\ HasEntered(t) /\ ~HasRecorded(t)
      /\ ~HasLinked(t) /\ ~HasReversed(t) /\ ~HasPosted(t)
  BY <1>1 DEF HoldsItem, HasPaid, HasReversed, HasEntered, HasRecorded, HasLinked, HasPosted
<1>3. \A r \in Rows : r \in Locked(t, db) <=> r = t.to
  BY <1>2 DEF Locked
<1>4. pend[p][t.to] = posted
  BY <1>1, <1>2 DEF Described, Written
<1>5. db' = [db EXCEPT ![t.to] = posted]
  <2> HIDE DEF posted
  <2>1. db = [r \in Rows |-> db[r]]
    BY DEF RInv, IInv, CommittedSound
  <2>2. \A r \in Rows : db'[r] = IF r = t.to THEN posted ELSE db[r]
    BY <1>3, <1>4, CommitRows
  <2> QED
    BY <1>1, <2>1, <2>2, CommitRows
<1> QED
  BY <1>1, <1>5, SameTables DEF Atomic!RecordManualEntry

\* A deposit row, written out.
LEMMA DepositFields ==
  ASSUME NEW row \in DepositRow, row.link = None, row.before = None, row.after = None
  PROVE  /\ row.user \in Users /\ row.amount \in Amounts /\ row.reference \in References
         /\ row = [status |-> row.status, user |-> row.user, amount |-> row.amount,
                   reference |-> row.reference, link |-> None, before |-> None, after |-> None]
BY DEF DepositRow

LEMMA DepositStored ==
  ASSUME RInv, NEW p \in Procs, InsertDeposit(p), tx[p].op = "create"
  PROVE  Atomic!AtomicNext
<1> DEFINE t == tx[p]
           row == t.new
<1>1. /\ db' = [db EXCEPT ![t.id] = row] /\ row \in DepositRow /\ Holders(row.reference) = {}
      /\ CreateChecked(t, db)
  BY RequestContext DEF InsertDeposit, Described, Checked, Creating
<1>2. /\ t.id \in Deposits /\ db[t.id] = Absent /\ row.status = "PENDING" /\ row.link = None
      /\ row.before = None /\ row.after = None
  BY <1>1, RowKinds DEF CreateChecked
<1>3. \A e \in Deposits : ~Live(db[e], row.reference)
  BY <1>1 DEF Holders
<1>4. /\ row.user \in Users /\ row.amount \in Amounts /\ row.reference \in References
      /\ row = [status |-> "PENDING", user |-> row.user, amount |-> row.amount,
                reference |-> row.reference, link |-> None, before |-> None, after |-> None]
  BY <1>1, <1>2, DepositFields
<1>5. Atomic!CreateDeposit(t.id, row.user, row.amount, row.reference)
  BY <1>1, <1>2, <1>3, <1>4, SameTables DEF Atomic!CreateDeposit
<1> QED
  BY <1>2, <1>4, <1>5 DEF Atomic!AtomicNext

LEMMA WithdrawalStored ==
  ASSUME RInv, NEW p \in Procs, InsertWithdrawal(p)
  PROVE  Atomic!AtomicNext
<1> DEFINE t == tx[p]
           row == t.new
<1>1. /\ db' = [db EXCEPT ![t.id] = row] /\ row \in WithdrawalRow /\ Creating(t) /\ CreateChecked(t, db)
  BY RequestContext DEF InsertWithdrawal, Described, Checked, Creating, Shape
<1>2. /\ t.id \in Withdrawals /\ db[t.id] = Absent /\ row.status = "PENDING" /\ row.link = None
  BY <1>1, RowKinds DEF CreateChecked
<1>3. /\ row.user \in Users /\ row.amount \in Amounts
      /\ row = [status |-> "PENDING", user |-> row.user, amount |-> row.amount, link |-> None]
  BY <1>1, <1>2 DEF WithdrawalRow
<1>4. Atomic!CreateWithdrawal(t.id, row.user, row.amount)
  BY <1>1, <1>2, <1>3 DEF Atomic!CreateWithdrawal
<1> QED
  BY <1>2, <1>3, <1>4 DEF Atomic!AtomicNext

\* A commit is the whole request.
LEMMA CommitRefines ==
  ASSUME RInv, NEW p \in Procs, Commit(p)
  PROVE  Atomic!AtomicNext \/ UNCHANGED db
<1> DEFINE t == tx[p]
<1>1. /\ t \in Request /\ Shape(t) /\ Checked(t, db) /\ t.at = "commit" /\ t.to \in Link
      /\ t.op \in {"approve", "reject", "relink", "manual"} => t.id \in Items
  BY RequestContext DEF Commit, Described
<1>2. CASE t.op = "approve" /\ t.id \in Deposits
  <2>1. db[t.id] # Absent /\ db[t.id].status = "PENDING"
    BY <1>1, <1>2 DEF Checked, DecisionChecked
  <2>2. Atomic!CreditDeposit(t.id, db[t.id], t.to)
    BY <1>2, DepositCredited DEF Original
  <2>3. Atomic!ApproveDeposit(t.id, t.to)
    BY <2>1, <2>2 DEF Atomic!ApproveDeposit
  <2> QED
    BY <1>1, <1>2, <2>3, SameTables DEF Atomic!AtomicNext
<1>3. CASE t.op = "approve" /\ t.id \in Withdrawals
  BY <1>3, WithdrawalPaid DEF Atomic!AtomicNext
<1>4. CASE t.op = "manual"
  <2> DEFINE row == t.new
  <2>1. CreateChecked(t, db)
    BY <1>1, <1>4 DEF Checked, Creating
  <2>2. /\ t.id \in Deposits /\ db[t.id] = Absent /\ row \in DepositRow /\ row.status = "APPROVED"
        /\ row.link = None /\ row.before = None /\ row.after = None /\ t.to \in Accounts
    BY <1>4, <2>1 DEF CreateChecked
  <2>3. /\ row.user \in Users /\ row.amount \in Amounts /\ row.reference \in References
        /\ row = [status |-> "APPROVED", user |-> row.user, amount |-> row.amount,
                  reference |-> row.reference, link |-> None, before |-> None, after |-> None]
    BY <2>2, DepositFields
  <2>4. \A e \in Deposits : ~Live(db[e], row.reference)
    BY <1>1, <1>4 DEF RInv, IndexUnique, Indexed
  <2>5. Atomic!CreditDeposit(t.id, row, t.to)
    BY <1>4, <2>2, DepositCredited DEF Original
  <2>6. Atomic!CreateManualDeposit(t.id, row.user, row.amount, row.reference, t.to)
    BY <2>2, <2>3, <2>4, <2>5, SameTables DEF Atomic!CreateManualDeposit
  <2> QED
    BY <2>2, <2>3, <2>6 DEF Atomic!AtomicNext
<1>5. CASE t.op = "reject"
  BY <1>5, ItemRejected, SameTables DEF Atomic!AtomicNext
<1>6. CASE t.op = "relink"
  BY <1>6, ItemRelinked, SameTables DEF Atomic!AtomicNext
<1>7. CASE t.op = "adjust"
  <2>1. /\ t.id \in Keys /\ t.new.user \in Users /\ t.new.delta \in Int
        /\ t.new.delta \in Amounts \/ -t.new.delta \in Amounts
        /\ Atomic!Adjust(t.id, t.new.user, t.new.delta)
    BY <1>7, WalletAdjusted
  <2>2. t.new.delta = -(-t.new.delta)
    BY <2>1
  <2> QED
    BY <2>1, <2>2 DEF Atomic!AtomicNext
<1>8. CASE t.op = "entry"
  BY <1>8, EntryRecorded, SameTables DEF Atomic!AtomicNext
<1>9. t.op \notin {"create", "idle"}
  BY <1>1 DEF Shape
<1> QED
  BY <1>1, <1>2, <1>3, <1>4, <1>5, <1>6, <1>7, <1>8, <1>9 DEF Request, Ops, Items

\* Only an insert of a user's request and a commit reach the tables.
LEMMA StepRefines ==
  ASSUME RInv, [Next]_vars
  PROVE  [Atomic!AtomicNext]_db
<1>1. CASE UNCHANGED vars
  BY <1>1 DEF vars
<1>2. ASSUME NEW p \in Procs, Statement(p) PROVE Atomic!AtomicNext \/ UNCHANGED db
  <2>1. CASE InsertWithdrawal(p)
    BY <2>1, WithdrawalStored
  <2>2. CASE InsertDeposit(p)
    BY <2>2, DepositStored DEF InsertDeposit
  <2>3. CASE Commit(p)
    BY <2>3, CommitRefines
  <2> QED
    BY <1>2, <2>1, <2>2, <2>3
       DEF Statement, Claim, ClaimLink, SaveDetails, Reverse, Post, Pay, RecordAdjustment, InsertRefused,
           ClaimLost, ClaimLinkLost, PayRefused, ReplayAdjustment, Rollback
<1>3. ASSUME NEW p \in Procs, Arrive(p) PROVE UNCHANGED db
  BY <1>3 DEF Arrive, PrecheckDeposit, PrecheckWithdrawal, ReadForDecision, ReadForRelink, ProbeKey,
              ReadAccount, Begin
<1>4. ASSUME NEW p \in Procs, Abort(p) \/ BreakDeadlock(p) PROVE UNCHANGED db
  BY <1>4 DEF Abort, BreakDeadlock, Rollback
<1> QED
  BY <1>1, <1>2, <1>3, <1>4 DEF Next

-----------------------------------------------------------------------------
(* The theorems *)

\* What an open transaction holds, has written and has checked is always what its
\* place in its handler says, locks exclude, and the unique index is respected.
THEOREM RefinementInvariance == Spec => []RInv
<1>1. RInv /\ [Next]_vars => RInv'
  BY RefinementStep
<1> QED
  BY RefinementInit, <1>1, PTL DEF Spec

\* Statement by statement the services do what they promise request by request:
\* interleaving, failures and deadlocks add no outcome (the transactions of the
\* deposit, withdrawal, adjustment and ledger services).
THEOREM Implementation == Spec => ImplementsAtomic
<1>1. Init => Atomic!TablesInit
  BY SameInit DEF Init
<1>2. RInv /\ [Next]_vars => [Atomic!AtomicNext]_db
  BY StepRefines
<1> QED
  BY RefinementInvariance, <1>1, <1>2, PTL DEF Spec, ImplementsAtomic, Atomic!AtomicSpec

-----------------------------------------------------------------------------
(* What MoneyAtomic promises holds in Money *)

\* The steps of the instance are those of MoneyAtomic.
LEMMA AtomicSteps == Atomic!AtomicNext => AtomicNext
<1>1. /\ Atomic!Items = Items /\ Atomic!Rows = Rows /\ Atomic!Link = Link /\ Atomic!ManualTypes = ManualTypes
      /\ \A w, c, n : Atomic!MoveWallet(w, c, n) = MoveWallet(w, c, n)
      /\ \A w, n : Atomic!CanMove(w, n) <=> CanMove(w, n)
      /\ \A a, type, n, i : Atomic!ApplyMovement(a, type, n, i) = ApplyMovement(a, type, n, i)
      /\ \A i : Atomic!ForwardType(i) = ForwardType(i) /\ Atomic!ReversalType(i) = ReversalType(i)
      /\ \A row, x : Atomic!Live(row, x) <=> Live(row, x)
  BY SameTables
<1>3. \A d, row, a : Atomic!CreditDeposit(d, row, a) <=> CreditDeposit(d, row, a)
  <2> SUFFICES ASSUME NEW d, NEW row, NEW a
               PROVE  Atomic!CreditDeposit(d, row, a) <=> CreditDeposit(d, row, a)
    OBVIOUS
  <2>1. /\ Atomic!MoveWallet(db[row.user], d, row.amount) = MoveWallet(db[row.user], d, row.amount)
        /\ Atomic!ApplyMovement(db[a], "DEPOSIT_IN", row.amount, d) = ApplyMovement(db[a], "DEPOSIT_IN", row.amount, d)
    BY <1>1
  <2> QED
    BY <1>1, <2>1, Zenon DEF Atomic!CreditDeposit, CreditDeposit
<1>4. \A d, a : Atomic!ApproveDeposit(d, a) <=> ApproveDeposit(d, a)
  BY <1>3 DEF Atomic!ApproveDeposit, ApproveDeposit
<1>5. \A d, u, n, x, a : Atomic!CreateManualDeposit(d, u, n, x, a) <=> CreateManualDeposit(d, u, n, x, a)
  BY <1>1, <1>3 DEF Atomic!CreateManualDeposit, CreateManualDeposit
<1>6. \A d, u, n, x : Atomic!CreateDeposit(d, u, n, x) <=> CreateDeposit(d, u, n, x)
  BY <1>1 DEF Atomic!CreateDeposit, CreateDeposit
<1>7. \A w, u, n : Atomic!CreateWithdrawal(w, u, n) <=> CreateWithdrawal(w, u, n)
  BY DEF Atomic!CreateWithdrawal, CreateWithdrawal
<1>8. \A w : Atomic!ApproveWithdrawal(w) <=> ApproveWithdrawal(w)
  BY <1>1 DEF Atomic!ApproveWithdrawal, ApproveWithdrawal
<1>9. \A i : Atomic!Reject(i) <=> Reject(i)
  BY DEF Atomic!Reject, Reject
<1>10. \A i, a : Atomic!Relink(i, a) <=> Relink(i, a)
  BY <1>1 DEF Atomic!Relink, Relink
<1>11. \A k, u, n : Atomic!Adjust(k, u, n) <=> Adjust(k, u, n)
  BY <1>1 DEF Atomic!Adjust, Adjust
<1>12. \A a, type, n : Atomic!RecordManualEntry(a, type, n) <=> RecordManualEntry(a, type, n)
  BY <1>1 DEF Atomic!RecordManualEntry, RecordManualEntry
<1> QED
  BY <1>1, <1>4, <1>5, <1>6, <1>7, <1>8, <1>9, <1>10, <1>11, <1>12 DEF Atomic!AtomicNext, AtomicNext

\* What holds of whole requests holds of requests that interleave.
LEMMA AtomicHolds == Spec => []AtomicInv
<1>1. Atomic!TablesInit => TablesInit
  BY SameInit
<1>2. [Atomic!AtomicNext]_db => [AtomicNext]_db
  BY AtomicSteps
<1>3. AtomicSpec => []AtomicInv
  BY AtomicInvariance
<1> QED
  BY Implementation, <1>1, <1>2, <1>3, PTL DEF ImplementsAtomic, Atomic!AtomicSpec, AtomicSpec

\* Every approved deposit and withdrawal, and every recorded adjustment, moved its
\* owner's wallet once, whatever requests raced for it: approving twice, approving
\* while rejecting, and retrying an adjustment pay once (the claims of the deposit
\* and withdrawal services, the unique key of wallet adjustments).
THEOREM PaidOnce == Spec => []PaidExactlyOnce
<1>1. AtomicInv => PaidExactlyOnce
  BY DEF AtomicInv, Paid
<1> QED
  BY AtomicHolds, <1>1, PTL

\* The balances recorded on a deposit and on an adjustment are those around the
\* movement it caused, although other payments to the same wallet interleave.
THEOREM SnapshotsExact == Spec => []SnapshotsMatchHistory
<1>1. AtomicInv => SnapshotsMatchHistory
  BY DEF AtomicInv, Paid
<1> QED
  BY AtomicHolds, <1>1, PTL

\* However re-links, approvals and failures interleave, the money of a deposit or
\* withdrawal stands once on the account it is linked to and on no other account
\* (syncDepositLink, syncWithdrawalLink).
THEOREM LinksExact == Spec => []LinkMatchesLedger
<1>1. AtomicInv => LinkMatchesLedger
  BY DEF AtomicInv, Booked
<1> QED
  BY AtomicHolds, <1>1, PTL

\* A payment reference is live on one deposit at most, although every request
\* checks it before it inserts (deposits_reference_active_key).
THEOREM ReferenceUnique == Spec => []ReferenceLivesOnce
<1>1. AtomicInv => ReferenceLivesOnce
  BY DEF AtomicInv
<1> QED
  BY AtomicHolds, <1>1, PTL

-----------------------------------------------------------------------------
(* Deadlocks *)

\* In a smallest set of requests that block each other, each one waits for another
\* of the set and keeps another of the set waiting.
LEMMA CycleMembers ==
  ASSUME NEW S \in SUBSET Procs, DeadlockCycle(S), NEW p \in S
  PROVE  /\ \E q \in S : WaitsFor(p, q)
         /\ \E q \in S : WaitsFor(q, p)
<1>1. \A x \in S : \E q \in S : WaitsFor(x, q)
  BY DEF DeadlockCycle, Deadlocked
<1>2. \E q \in S : WaitsFor(q, p)
  <2> SUFFICES ASSUME \A q \in S : ~WaitsFor(q, p) PROVE FALSE
    OBVIOUS
  <2>1. PICK y \in S : WaitsFor(p, y)
    BY <1>1
  <2>2. y # p
    BY <2>1 DEF WaitsFor
  <2>3. Deadlocked(S \ {p})
    BY <1>1, <2>2 DEF Deadlocked
  <2> QED
    BY <2>3 DEF DeadlockCycle
<1> QED
  BY <1>1, <1>2

\* The kind of row a statement waits for.
LEMMA WantedKinds ==
  ASSUME RInv, NEW p \in Procs
  PROVE  /\ tx[p].at \in {"insert", "claim", "link", "save"} => Wanted(p) \subseteq Items
         /\ tx[p].at \in {"claim", "link", "save"} => Wanted(p) = {tx[p].id}
         /\ tx[p].at = "reverse" => Wanted(p) \subseteq Accounts
         /\ tx[p].at = "post" => Wanted(p) = {tx[p].to} /\ tx[p].to \in Accounts
         /\ tx[p].at = "wallet" => Wanted(p) \subseteq Users
         /\ tx[p].at = "record" => Wanted(p) \subseteq Keys
         /\ tx[p].at \in {"idle", "commit"} => Wanted(p) = {}
<1>1. Shape(tx[p])
  BY RequestContext
<1>2. tx[p].at = "insert" => Wanted(p) \subseteq Items
  BY DEF Wanted, Holders, Items
<1>3. tx[p].at \in {"claim", "link", "save"} => Wanted(p) = {tx[p].id} /\ tx[p].id \in Items
  BY <1>1 DEF Wanted, Shape
<1>4. tx[p].at = "wallet" => Wanted(p) \subseteq Users
  <2> SUFFICES ASSUME tx[p].at = "wallet" PROVE Owner(p) \in Users
    BY DEF Wanted
  <2>1. CASE tx[p].op = "adjust"
    BY <1>1, <2>1 DEF Owner, Shape, Asked
  <2>2. CASE tx[p].op # "adjust"
    BY <1>1, <2>2, SubjectTyped DEF Owner, Shape, RInv
  <2> QED
    BY <2>1, <2>2
<1>5. /\ tx[p].at = "reverse" => Wanted(p) \subseteq Accounts
      /\ tx[p].at = "post" => Wanted(p) = {tx[p].to} /\ tx[p].to \in Accounts
      /\ tx[p].at = "record" => Wanted(p) \subseteq Keys
      /\ tx[p].at \in {"idle", "commit"} => Wanted(p) = {}
  BY <1>1 DEF Wanted, Shape
<1> QED
  BY <1>2, <1>3, <1>4, <1>5

\* Where a request stands that holds a row of a kind.
LEMMA HeldKinds ==
  ASSUME RInv, NEW p \in Procs, NEW r \in Locked(tx[p], db)
  PROVE  /\ r \in Keys => tx[p].at = "commit"
         /\ r \in Users => tx[p].at \in {"record", "commit"}
         /\ r \in Accounts /\ tx[p].at = "reverse" => FALSE
         /\ r \in Accounts /\ tx[p].at = "post" => tx[p].op = "relink" /\ r = tx[p].seen
         /\ tx[p].at \notin {"insert", "claim"}
         /\ tx[p].at \in {"link", "save"} => tx[p].id \in Locked(tx[p], db)
<1> DEFINE t == tx[p]
<1>1. /\ t \in Request /\ Shape(t) /\ Checked(t, db) /\ t.seen \in Link /\ t.to \in Link
      /\ t.op \in {"approve", "reject", "relink", "manual"} => t.id \in Items /\ t.id \in Rows
  BY RequestContext DEF Described, Rows
<1>2. HasPaid(t) => Payee(t, db) \in Users
  BY PayeeIsUser
<1> HIDE DEF t
<1>3. \/ (HoldsItem(t) \/ HasRecorded(t)) /\ r = t.id
      \/ HasReversed(t) /\ r = t.seen
      \/ (HasPosted(t) \/ HasEntered(t)) /\ r = t.to
      \/ HasPaid(t) /\ r = Payee(t, db)
  BY DEF Locked, t
<1>4. HoldsItem(t) => t.id \in Items
  BY <1>1 DEF HoldsItem
<1>5. HasRecorded(t) => t.id \in Keys /\ t.at = "commit"
  BY <1>1 DEF HasRecorded, Shape
<1>6. r \in Keys => t.at = "commit"
  BY <1>1, <1>2, <1>3, <1>4, <1>5, RowsAreDistinct DEF Link, Rows
<1>7. r \in Users => t.at \in {"record", "commit"}
  <2>1. HasPaid(t) => t.at \in {"record", "commit"}
    BY DEF HasPaid
  <2> QED
    BY <1>1, <1>3, <1>4, <1>5, <2>1, RowsAreDistinct DEF Link, Rows, Items
<1>8. r \in Accounts => \/ HasReversed(t) /\ r = t.seen
                        \/ (HasPosted(t) \/ HasEntered(t)) /\ r = t.to
  BY <1>2, <1>3, <1>4, <1>5, RowsAreDistinct
<1>9. r \in Accounts /\ t.at = "reverse" => FALSE
  BY <1>1, <1>8 DEF HasReversed, HasPosted, HasEntered
<1>10. r \in Accounts /\ t.at = "post" => t.op = "relink" /\ r = t.seen
  <2> SUFFICES ASSUME r \in Accounts, t.at = "post" PROVE t.op = "relink" /\ r = t.seen
    OBVIOUS
  <2>1. HasReversed(t) /\ r = t.seen
    BY <1>8 DEF HasPosted, HasEntered
  <2>2. t.op \in {"approve", "manual", "relink"} /\ t.seen # None
    BY <2>1 DEF HasReversed, HasLinked
  <2>3. t.op = "approve" => t.seen = None
    BY <1>1 DEF Checked, DecisionChecked
  <2>4. t.op = "manual" => t.seen = None
    BY <1>1 DEF Checked, Creating, CreateChecked
  <2> QED
    BY <2>1, <2>2, <2>3, <2>4
<1>11. t.at \notin {"insert", "claim"}
  BY <1>1, <1>3, NothingHeld DEF Starting
<1>12. t.at \in {"link", "save"} => t.id \in Locked(t, db)
  <2> SUFFICES ASSUME t.at \in {"link", "save"} PROVE t.id \in Locked(t, db)
    OBVIOUS
  <2>1. t.op \in {"approve", "manual", "relink"}
    BY <1>1 DEF Shape
  <2>2. ~Starting(t)
    BY <1>1, <1>3, NothingHeld
  <2>3. HoldsItem(t)
    BY <1>1, <2>1, <2>2 DEF HoldsItem, Starting, Checked, Shape
  <2> QED
    BY <1>1, <2>1, <2>3 DEF Locked
<1> QED
  BY <1>6, <1>7, <1>9, <1>10, <1>11, <1>12 DEF t

LEMMA WaitingRow ==
  ASSUME RInv, NEW p \in Procs, NEW q \in Procs, WaitsFor(p, q)
  PROVE  \E r \in Wanted(p) : r \in Locked(tx[q], db) /\ r \notin Locked(tx[p], db)
<1>1. PICK r \in Wanted(p) : q # p /\ pend[q][r] # Clean
  BY DEF WaitsFor
<1>2. r \in Rows
  BY <1>1, WantedKinds, RequestContext DEF Request, Steps, Rows
<1>3. pend[p][r] = Clean
  BY <1>1, <1>2 DEF RInv, LocksExclude
<1>4. \A x \in Procs : pend[x][r] # Clean <=> r \in Locked(tx[x], db)
  BY <1>2, RequestContext DEF Described, Written
<1> QED
  BY <1>1, <1>3, <1>4

\* Every handler takes its locks in the order item, account, wallet, key: requests
\* block each other for good only when re-links move items between the same
\* accounts in opposite directions, each posting to the account the next reversed.
THEOREM DeadlocksAreRelinks == Spec => []OnlyRelinksDeadlock
<1>1. RInv => OnlyRelinksDeadlock
  <2> SUFFICES ASSUME RInv, NEW S \in SUBSET Procs, DeadlockCycle(S), NEW p \in S
               PROVE  /\ tx[p].op = "relink" /\ tx[p].at = "post"
                      /\ \E q \in S : tx[q].seen = tx[p].to
    BY DEF OnlyRelinksDeadlock
  <2>1. ASSUME NEW x \in S
        PROVE  /\ \E y \in S : \E r \in Wanted(x) : r \in Locked(tx[y], db) /\ r \notin Locked(tx[x], db)
               /\ \E y \in S : \E r \in Wanted(y) : r \in Locked(tx[x], db)
    <3>1. PICK y \in S : WaitsFor(x, y)
      BY CycleMembers
    <3>2. PICK z \in S : WaitsFor(z, x)
      BY CycleMembers
    <3> QED
      BY <3>1, <3>2, WaitingRow
  <2>2. ASSUME NEW x \in S PROVE tx[x].at \notin {"idle", "commit", "insert", "claim", "link", "save"}
    <3>1. tx[x].at \notin {"idle", "commit"}
      BY <2>1, WantedKinds
    <3>2. tx[x].at \notin {"insert", "claim"}
      BY <2>1, HeldKinds
    <3>3. tx[x].at \notin {"link", "save"}
      <4> SUFFICES ASSUME tx[x].at \in {"link", "save"} PROVE FALSE
        OBVIOUS
      <4>1. PICK y \in S : \E r \in Wanted(x) : r \in Locked(tx[y], db) /\ r \notin Locked(tx[x], db)
        BY <2>1
      <4>2. \E r \in Wanted(x) : r \notin Locked(tx[x], db)
        BY <4>1
      <4>3. Wanted(x) = {tx[x].id}
        BY WantedKinds
      <4>4. PICK z \in S : \E r \in Wanted(z) : r \in Locked(tx[x], db)
        BY <2>1
      <4>5. PICK r \in Locked(tx[x], db) : TRUE
        BY <4>4
      <4>6. tx[x].id \in Locked(tx[x], db)
        BY <4>5, HeldKinds
      <4> QED
        BY <4>2, <4>3, <4>6
    <3> QED
      BY <3>1, <3>2, <3>3
  <2>3. ASSUME NEW x \in S PROVE tx[x].at # "record"
    <3> SUFFICES ASSUME tx[x].at = "record" PROVE FALSE
      OBVIOUS
    <3>1. PICK y \in S : \E r \in Wanted(x) : r \in Locked(tx[y], db)
      BY <2>1
    <3>2. PICK r \in Keys : r \in Locked(tx[y], db)
      BY <3>1, WantedKinds
    <3> QED
      BY <2>2, <3>2, HeldKinds
  <2>4. ASSUME NEW x \in S PROVE tx[x].at # "wallet"
    <3> SUFFICES ASSUME tx[x].at = "wallet" PROVE FALSE
      OBVIOUS
    <3>1. PICK y \in S : \E r \in Wanted(x) : r \in Locked(tx[y], db)
      BY <2>1
    <3>2. PICK r \in Users : r \in Locked(tx[y], db)
      BY <3>1, WantedKinds
    <3> QED
      BY <2>2, <2>3, <3>2, HeldKinds
  <2>5. ASSUME NEW x \in S PROVE tx[x].at \in {"reverse", "post"} /\ Wanted(x) \subseteq Accounts
    <3>1. tx[x].at \in Steps
      BY RequestContext DEF Request
    <3>2. tx[x].at \in {"reverse", "post"}
      BY <2>2, <2>3, <2>4, <3>1 DEF Steps
    <3> QED
      BY <3>2, WantedKinds
  <2>6. ASSUME NEW x \in S PROVE tx[x].at = "post" /\ tx[x].op = "relink"
    <3>1. PICK y \in S : \E r \in Wanted(y) : r \in Locked(tx[x], db)
      BY <2>1
    <3>2. PICK r \in Accounts : r \in Locked(tx[x], db)
      BY <2>5, <3>1
    <3> QED
      BY <2>5, <3>2, HeldKinds
  <2>7. PICK q \in S : \E r \in Wanted(p) : r \in Locked(tx[q], db)
    BY <2>1
  <2>8. tx[p].to \in Locked(tx[q], db) /\ tx[p].to \in Accounts
    BY <2>6, <2>7, WantedKinds
  <2>9. tx[q].seen = tx[p].to
    BY <2>6, <2>8, HeldKinds
  <2> QED
    BY <2>6, <2>9
<1> QED
  BY RefinementInvariance, <1>1, PTL

=============================================================================
