---------------------------- MODULE MoneyAtomic ----------------------------
(***************************************************************************)
(* What the money services promise: every request that succeeds takes      *)
(* effect in one step, and a request that fails has no effect at all.      *)
(* Money.tla, where requests interleave statement by statement, implements *)
(* this specification.                                                     *)
(***************************************************************************)
EXTENDS MoneyTables

\* DepositsService.create.
CreateDeposit(d, u, amount, x) ==
    /\ db[d] = Absent
    /\ \A e \in Deposits : ~Live(db[e], x)
    /\ db' = [db EXCEPT ![d] = [status |-> "PENDING", user |-> u, amount |-> amount,
                                reference |-> x, link |-> None, before |-> None, after |-> None]]

\* The rows an approved deposit touches: itself, the wallet and, when there is
\* one, the payment account that received the money.
CreditDeposit(d, row, a) ==
    LET wallet == MoveWallet(db[row.user], d, row.amount)
    IN  db' = [r \in Rows |->
                 IF r = d THEN [row EXCEPT !.status = "APPROVED", !.link = a,
                                           !.before = db[row.user].balance,
                                           !.after = wallet.balance]
                 ELSE IF r = row.user THEN wallet
                 ELSE IF r = a THEN ApplyMovement(db[a], "DEPOSIT_IN", row.amount, d)
                 ELSE db[r]]

\* DepositsService.approve: any account the admin picks or the depositor
\* declared, or none.
ApproveDeposit(d, a) ==
    /\ db[d] # Absent /\ db[d].status = "PENDING"
    /\ CreditDeposit(d, db[d], a)

\* DepositsService.createManual.
CreateManualDeposit(d, u, amount, x, a) ==
    /\ db[d] = Absent
    /\ \A e \in Deposits : ~Live(db[e], x)
    /\ CreditDeposit(d, [status |-> "APPROVED", user |-> u, amount |-> amount, reference |-> x,
                         link |-> None, before |-> None, after |-> None], a)

\* WithdrawalsService.create: nothing is reserved, so the request may be for
\* more than the wallet holds by the time it is stored.
CreateWithdrawal(w, u, amount) ==
    /\ db[w] = Absent
    /\ db' = [db EXCEPT ![w] = [status |-> "PENDING", user |-> u, amount |-> amount, link |-> None]]

\* WithdrawalsService.approve.
ApproveWithdrawal(w) ==
    /\ db[w] # Absent /\ db[w].status = "PENDING"
    /\ CanMove(db[db[w].user], -db[w].amount)
    /\ db' = [db EXCEPT ![w].status = "APPROVED",
                        ![db[w].user] = MoveWallet(@, w, -db[w].amount)]

\* DepositsService.reject and WithdrawalsService.reject.
Reject(i) ==
    /\ db[i] # Absent /\ db[i].status = "PENDING"
    /\ db' = [db EXCEPT ![i].status = "REJECTED"]

\* updateReceivingAccount and updateTransferAccount.
Relink(i, a) ==
    /\ db[i] # Absent /\ db[i].status = "APPROVED" /\ db[i].link # a
    /\ db' = [r \in Rows |->
                IF r = i THEN [db[i] EXCEPT !.link = a]
                ELSE IF r = db[i].link THEN ApplyMovement(db[r], ReversalType(i), db[i].amount, i)
                ELSE IF r = a THEN ApplyMovement(db[r], ForwardType(i), db[i].amount, i)
                ELSE db[r]]

\* WalletAdjustmentsService.adjust.
Adjust(k, u, delta) ==
    /\ db[k] = Absent
    /\ CanMove(db[u], delta)
    /\ db' = [db EXCEPT ![k] = [user |-> u, delta |-> delta, before |-> db[u].balance,
                                after |-> db[u].balance + delta],
                        ![u] = MoveWallet(@, k, delta)]

\* PaymentAccountLedgerService.recordManualEntry.
RecordManualEntry(a, type, amount) ==
    db' = [db EXCEPT ![a] = ApplyMovement(@, type, amount, None)]

AtomicNext ==
    \/ \E d \in Deposits, u \in Users, n \in Amounts, x \in References :
          \/ CreateDeposit(d, u, n, x)
          \/ \E a \in Accounts : CreateManualDeposit(d, u, n, x, a)
    \/ \E d \in Deposits, a \in Link : ApproveDeposit(d, a)
    \/ \E w \in Withdrawals, u \in Users, n \in Amounts : CreateWithdrawal(w, u, n)
    \/ \E w \in Withdrawals : ApproveWithdrawal(w)
    \/ \E i \in Items : Reject(i)
    \/ \E i \in Items, a \in Link : Relink(i, a)
    \/ \E k \in Keys, u \in Users, n \in Amounts : Adjust(k, u, n) \/ Adjust(k, u, -n)
    \/ \E a \in Accounts, type \in ManualTypes, n \in Amounts : RecordManualEntry(a, type, n)

AtomicSpec == TablesInit /\ [][AtomicNext]_db

=============================================================================
