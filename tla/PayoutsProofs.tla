---------------------------- MODULE PayoutsProofs ----------------------------
(***************************************************************************)
(* Publisher payouts and their destination, for any number of publishers,  *)
(* payouts and accounts.                                                   *)
(*                                                                         *)
(* The two money facts are sums over payouts: each transaction moves one   *)
(* payout into or out of one sum by its amount (MoneyInv), which needs     *)
(* OwnSettlements, since the unique index that refuses a second settlement *)
(* is keyed by wallet.  SettledOneWay needs CallsUnsettled: an answer that *)
(* comes late finds a row only an early admin can have settled.            *)
(***************************************************************************)
EXTENDS Payouts, Beneficiary, WalletProofs

USE DEF Users

-----------------------------------------------------------------------------
(* Types *)

LEMMA PayoutRowType ==
  ASSUME PayoutTypeOK, NEW p \in PayoutIds, payout[p] # NoPayout
  PROVE  /\ payout[p] \in PayoutRows
         /\ payout[p].user \in Publishers
         /\ payout[p].amount \in Amounts
         /\ payout[p].amount \in Nat
         /\ payout[p].status \in Open \cup Settled
<1>1. payout[p] \in PayoutRows
  BY DEF PayoutTypeOK
<1>2. payout[p].user \in Publishers /\ payout[p].amount \in Amounts
      /\ payout[p].status \in Open \cup Settled
  BY <1>1 DEF PayoutRows
<1>. QED
  BY <1>1, <1>2, WalletAssumption

LEMMA StatusMeansRow ==
  ASSUME NEW p \in PayoutIds, payout[p].status \in Open \cup Settled
  PROVE  payout[p] # NoPayout
  BY DEF NoPayout, Open, Settled

\* What the row's new status and reference make of the table.
LEMMA RowUpdateType ==
  ASSUME PayoutTypeOK, NEW p \in PayoutIds, payout[p] # NoPayout,
         NEW s \in Open \cup Settled, NEW r \in ProviderRefs,
         \/ payout' = [payout EXCEPT ![p].status = s, ![p].providerRef = r]
         \/ payout' = [payout EXCEPT ![p].status = s]
  PROVE  payout' \in [PayoutIds -> PayoutRows \cup {NoPayout}]
<1>. DEFINE one == [payout[p] EXCEPT !.status = s, !.providerRef = r]
            two == [payout[p] EXCEPT !.status = s]
<1>1. payout[p] \in PayoutRows /\ payout \in [PayoutIds -> PayoutRows \cup {NoPayout}]
  BY PayoutRowType DEF PayoutTypeOK
<1>2. one \in PayoutRows /\ two \in PayoutRows
  BY <1>1 DEF PayoutRows
<1>3. payout' = [payout EXCEPT ![p] = one] \/ payout' = [payout EXCEPT ![p] = two]
  BY <1>1
<1>. HIDE DEF one, two
<1>. QED
  BY <1>1, <1>2, <1>3

\* What completing an open payout changes.
LEMMA CompleteMoves ==
  ASSUME PayoutTypeOK, NEW p \in PayoutIds, NEW ref \in ProviderRefs, Complete(p, ref)
  PROVE  \E u \in Publishers, a \in Amounts :
           /\ u = payout[p].user /\ a = payout[p].amount
           /\ payout[p] # NoPayout /\ payout[p].status \in Open
           /\ RecordTransaction(u, "PAYOUT_COMPLETED", a, p)
           /\ wallet'[u].reservedBalance = wallet[u].reservedBalance - a
           /\ wallet'[u].totalWithdrawn = wallet[u].totalWithdrawn + a
           /\ wallet'[u].totalDeposited = wallet[u].totalDeposited
           /\ \A v \in Users \ {u} : wallet'[v] = wallet[v]
           /\ balance' = balance /\ campaign' = campaign
           /\ payout'[p].status = "COMPLETED"
           /\ payout'[p].user = u /\ payout'[p].amount = a /\ payout'[p] # NoPayout
           /\ \A q \in PayoutIds \ {p} : payout'[q] = payout[q]
           /\ TypeOK' /\ payout' \in [PayoutIds -> PayoutRows \cup {NoPayout}]
<1>1. payout[p] # NoPayout /\ payout[p].status \in Open
  BY StatusMeansRow DEF Complete
<1>2. payout[p] \in PayoutRows
  BY <1>1, PayoutRowType
<1>3. PICK u \in Publishers, a \in Amounts : u = payout[p].user /\ a = payout[p].amount
  BY <1>1, PayoutRowType
<1>. DEFINE r == IF ref = "none" THEN payout[p].providerRef ELSE ref
<1>4. payout' = [payout EXCEPT ![p].status = "COMPLETED", ![p].providerRef = r]
  BY DEF Complete
<1>5. r \in ProviderRefs
  BY <1>2 DEF PayoutRows
<1>. HIDE DEF r
<1>6. payout' \in [PayoutIds -> PayoutRows \cup {NoPayout}]
  BY <1>1, <1>4, <1>5, RowUpdateType DEF Settled
<1>7. payout'[p] = [payout[p] EXCEPT !.status = "COMPLETED", !.providerRef = r]
      /\ \A q \in PayoutIds \ {p} : payout'[q] = payout[q]
  BY <1>4 DEF PayoutTypeOK
<1>8. /\ payout'[p].status = "COMPLETED"
      /\ payout'[p].user = u /\ payout'[p].amount = a
  BY <1>2, <1>3, <1>7 DEF PayoutRows
<1>9. payout'[p] # NoPayout
  BY <1>8 DEF NoPayout
<1>10. RecordTransaction(u, "PAYOUT_COMPLETED", a, p) /\ balance' = balance /\ campaign' = campaign
  BY <1>3 DEF Complete
<1>. DEFINE new == [wallet[u] EXCEPT !.reservedBalance = @ - a, !.totalWithdrawn = @ + a]
<1>11. wallet \in [Users -> Wallets] /\ wallet[u] \in Wallets /\ a \in Nat
  BY WalletAssumption DEF PayoutTypeOK, TypeOK
<1>12. wallet' = [wallet EXCEPT ![u] = new]
  BY <1>3, <1>11 DEF Complete
<1>13. /\ new \in Wallets
       /\ new.reservedBalance = wallet[u].reservedBalance - a
       /\ new.totalWithdrawn = wallet[u].totalWithdrawn + a
       /\ new.totalDeposited = wallet[u].totalDeposited
  <2>1. wallet[u].reservedBalance - a \in Int /\ wallet[u].totalWithdrawn + a \in Nat
    BY <1>11 DEF Wallets
  <2>2. new \in Wallets
    BY <1>11, <2>1 DEF Wallets
  <2>. QED
    BY <1>11, <2>2 DEF Wallets
<1>. HIDE DEF new
<1>14. /\ wallet' \in [Users -> Wallets] /\ wallet'[u] = new
       /\ \A v \in Users \ {u} : wallet'[v] = wallet[v]
  BY <1>11, <1>12, <1>13
<1>15. ledger' \subseteq WalletTransaction
  <2>1. p \in TransactionRefs
    BY PayoutAssumption DEF TransactionRefs
  <2>. QED
    BY <1>10, <2>1, AddRowType DEF PayoutTypeOK, TypeOK, TransactionType
<1>16. TypeOK'
  BY <1>10, <1>14, <1>15 DEF PayoutTypeOK, TypeOK
<1>. QED
  BY <1>1, <1>3, <1>6, <1>7, <1>8, <1>9, <1>10, <1>13, <1>14, <1>16

LEMMA FailMoves ==
  ASSUME PayoutTypeOK, NEW p \in PayoutIds, Fail(p)
  PROVE  \E u \in Publishers, a \in Amounts :
           /\ u = payout[p].user /\ a = payout[p].amount
           /\ payout[p] # NoPayout /\ payout[p].status \in Open
           /\ RecordTransaction(u, "PAYOUT_FAILED", a, p)
           /\ wallet'[u].reservedBalance = wallet[u].reservedBalance - a
           /\ wallet'[u].totalWithdrawn = wallet[u].totalWithdrawn
           /\ wallet'[u].totalDeposited = wallet[u].totalDeposited
           /\ \A v \in Users \ {u} : wallet'[v] = wallet[v] /\ balance'[v] = balance[v]
           /\ balance'[u] = balance[u] + a /\ campaign' = campaign
           /\ payout'[p].status = "FAILED"
           /\ payout'[p].user = u /\ payout'[p].amount = a /\ payout'[p] # NoPayout
           /\ \A q \in PayoutIds \ {p} : payout'[q] = payout[q]
           /\ TypeOK' /\ payout' \in [PayoutIds -> PayoutRows \cup {NoPayout}]
<1>1. payout[p] # NoPayout /\ payout[p].status \in Open
  BY StatusMeansRow DEF Fail
<1>2. payout[p] \in PayoutRows
  BY <1>1, PayoutRowType
<1>3. PICK u \in Publishers, a \in Amounts : u = payout[p].user /\ a = payout[p].amount
  BY <1>1, PayoutRowType
<1>4. payout' = [payout EXCEPT ![p].status = "FAILED"]
  BY DEF Fail
<1>6. payout' \in [PayoutIds -> PayoutRows \cup {NoPayout}]
  BY <1>1, <1>4, RowUpdateType DEF Settled, ProviderRefs
<1>7. payout'[p] = [payout[p] EXCEPT !.status = "FAILED"]
      /\ \A q \in PayoutIds \ {p} : payout'[q] = payout[q]
  BY <1>4 DEF PayoutTypeOK
<1>8. /\ payout'[p].status = "FAILED"
      /\ payout'[p].user = u /\ payout'[p].amount = a
  BY <1>2, <1>3, <1>7 DEF PayoutRows
<1>9. payout'[p] # NoPayout
  BY <1>8 DEF NoPayout
<1>10. RecordTransaction(u, "PAYOUT_FAILED", a, p) /\ campaign' = campaign
  BY <1>3 DEF Fail
<1>. DEFINE new == [wallet[u] EXCEPT !.reservedBalance = @ - a]
<1>11. /\ wallet \in [Users -> Wallets] /\ wallet[u] \in Wallets
       /\ balance \in [Users -> Nat] /\ a \in Nat /\ u \in Users
  BY WalletAssumption DEF PayoutTypeOK, TypeOK
<1>12. wallet' = [wallet EXCEPT ![u] = new] /\ balance' = [balance EXCEPT ![u] = balance[u] + a]
  BY <1>3, <1>11 DEF Fail
<1>13. /\ new \in Wallets
       /\ new.reservedBalance = wallet[u].reservedBalance - a
       /\ new.totalWithdrawn = wallet[u].totalWithdrawn
       /\ new.totalDeposited = wallet[u].totalDeposited
  BY <1>11 DEF Wallets
<1>. HIDE DEF new
<1>14. /\ wallet' \in [Users -> Wallets] /\ wallet'[u] = new
       /\ \A v \in Users \ {u} : wallet'[v] = wallet[v] /\ balance'[v] = balance[v]
       /\ balance' \in [Users -> Nat] /\ balance'[u] = balance[u] + a
  BY <1>11, <1>12, <1>13
<1>15. ledger' \subseteq WalletTransaction
  <2>1. p \in TransactionRefs
    BY PayoutAssumption DEF TransactionRefs
  <2>. QED
    BY <1>10, <2>1, AddRowType DEF PayoutTypeOK, TypeOK, TransactionType
<1>16. TypeOK'
  BY <1>10, <1>14, <1>15 DEF PayoutTypeOK, TypeOK
<1>. QED
  BY <1>1, <1>3, <1>6, <1>7, <1>8, <1>9, <1>10, <1>13, <1>14, <1>16

LEMMA RequestMoves ==
  ASSUME PayoutTypeOK, NEW p \in PayoutIds, NEW u \in Publishers, NEW a \in Amounts,
         NEW ref \in IdempotencyKeys \cup {p}, RequestPayout(u, p, a, ref)
  PROVE  /\ payout[p] = NoPayout
         /\ RecordTransaction(u, "PAYOUT_REQUEST", a, ref)
         /\ wallet'[u].reservedBalance = wallet[u].reservedBalance + a
         /\ wallet'[u].totalWithdrawn = wallet[u].totalWithdrawn
         /\ wallet'[u].totalDeposited = wallet[u].totalDeposited
         /\ \A v \in Users \ {u} : wallet'[v] = wallet[v] /\ balance'[v] = balance[v]
         /\ balance'[u] = balance[u] - a /\ campaign' = campaign
         /\ payout'[p] = [user |-> u, amount |-> a, status |-> "REQUESTED",
                          providerRef |-> "none"]
         /\ \A q \in PayoutIds \ {p} : payout'[q] = payout[q]
         /\ submission' = [submission EXCEPT ![p] = Calling]
         /\ TypeOK' /\ payout' \in [PayoutIds -> PayoutRows \cup {NoPayout}]
<1>. DEFINE fresh == [user |-> u, amount |-> a, status |-> "REQUESTED", providerRef |-> "none"]
            new == [wallet[u] EXCEPT !.reservedBalance = @ + a]
<1>1. fresh \in PayoutRows
  BY DEF PayoutRows, Open, ProviderRefs
<1>2. payout' = [payout EXCEPT ![p] = fresh]
  BY DEF RequestPayout
<1>. HIDE DEF fresh
<1>3. /\ payout' \in [PayoutIds -> PayoutRows \cup {NoPayout}]
      /\ payout'[p] = fresh
      /\ \A q \in PayoutIds \ {p} : payout'[q] = payout[q]
  BY <1>1, <1>2 DEF PayoutTypeOK
<1>11. /\ wallet \in [Users -> Wallets] /\ wallet[u] \in Wallets
       /\ balance \in [Users -> Nat] /\ a \in Nat /\ u \in Users
  BY WalletAssumption DEF PayoutTypeOK, TypeOK
<1>12. /\ wallet' = [wallet EXCEPT ![u] = new]
       /\ balance' = [balance EXCEPT ![u] = balance[u] - a] /\ balance[u] >= a
  BY <1>11 DEF RequestPayout
<1>13. /\ new \in Wallets
       /\ new.reservedBalance = wallet[u].reservedBalance + a
       /\ new.totalWithdrawn = wallet[u].totalWithdrawn
       /\ new.totalDeposited = wallet[u].totalDeposited
  BY <1>11 DEF Wallets
<1>. HIDE DEF new
<1>14. /\ wallet' \in [Users -> Wallets] /\ wallet'[u] = new
       /\ \A v \in Users \ {u} : wallet'[v] = wallet[v] /\ balance'[v] = balance[v]
       /\ balance' \in [Users -> Nat] /\ balance'[u] = balance[u] - a
  BY <1>11, <1>12, <1>13
<1>15. ledger' \subseteq WalletTransaction
  <2>1. ref \in TransactionRefs
    BY PayoutAssumption DEF TransactionRefs
  <2>. QED
    BY <2>1, AddRowType DEF RequestPayout, PayoutTypeOK, TypeOK, TransactionType
<1>16. TypeOK'
  BY <1>14, <1>15 DEF RequestPayout, PayoutTypeOK, TypeOK
<1>. QED
  BY <1>3, <1>13, <1>14, <1>16 DEF RequestPayout, fresh

-----------------------------------------------------------------------------
(* Money held for payouts, paid out, and given back *)

OpenFor(u) == {p \in PayoutIds : payout[p].status \in Open /\ payout[p].user = u}

PaidFor(u) == {p \in PayoutIds : Paid(p) /\ payout[p].user = u}

\* Requested, and not given back.
OutFor(u) ==
  {p \in PayoutIds : payout[p] # NoPayout /\ ~Refunded(p) /\ payout[p].user = u}

Holds(u) == wallet[u].reservedBalance = SumFunctionOnSet(AmountOf, OpenFor(u))

Withdraws(u) == wallet[u].totalWithdrawn = SumFunctionOnSet(AmountOf, PaidFor(u))

Balances(u) ==
  balance[u] + SumFunctionOnSet(AmountOf, OutFor(u)) = wallet[u].totalDeposited

MoneyInv ==
  \A u \in Publishers :
    /\ Withdraws(u)
    /\ Balances(u)
    /\ Holds(u) \/ \E p \in PayoutIds : early[p]

\* What settles a payout is recorded under the wallet of the payout's own user,
\* the one the unique index is consulted for when it is settled again.
OwnSettlements ==
  \A p \in PayoutIds : \A new \in ledger :
    new.type \in {"PAYOUT_COMPLETED", "PAYOUT_FAILED"} /\ new.ref = p =>
      payout[p] # NoPayout /\ new.user = payout[p].user

LEMMA AmountsOfPayouts ==
  ASSUME PayoutTypeOK
  PROVE  /\ \A p \in PayoutIds : AmountOf[p] \in Nat
         /\ \A S \in SUBSET PayoutIds : IsFiniteSet(S)
         /\ \A p \in PayoutIds : payout[p] # NoPayout => AmountOf[p] = payout[p].amount
<1>1. \A S \in SUBSET PayoutIds : IsFiniteSet(S)
  BY PayoutAssumption, FS_Subset
<1>2. \A p \in PayoutIds : AmountOf[p] \in Nat
  BY PayoutRowType DEF AmountOf
<1>. QED
  BY <1>1, <1>2 DEF AmountOf

LEMMA PayoutJoins ==
  ASSUME PayoutTypeOK, NEW S \in SUBSET PayoutIds, NEW p \in PayoutIds, p \notin S
  PROVE  SumFunctionOnSet(AmountOf, S \cup {p}) = SumFunctionOnSet(AmountOf, S) + AmountOf[p]
<1>1. /\ IsFiniteSet(S)
      /\ \A q \in S \cup {p} : AmountOf[q] \in Int
  BY AmountsOfPayouts
<1>2. SumFunctionOnSet(AmountOf, S) \in Int
  BY <1>1, SumType
<1>3. SumFunctionOnSet(AmountOf, S \cup {p}) = AmountOf[p] + SumFunctionOnSet(AmountOf, S)
  BY <1>1, SumAdd
<1>4. AmountOf[p] \in Int
  BY <1>1
<1>. QED
  BY <1>2, <1>3, <1>4

LEMMA PayoutLeaves ==
  ASSUME PayoutTypeOK, NEW S \in SUBSET PayoutIds, NEW p \in S
  PROVE  SumFunctionOnSet(AmountOf, S \ {p}) = SumFunctionOnSet(AmountOf, S) - AmountOf[p]
<1>1. IsFiniteSet(S) /\ IsFiniteSet(S \ {p}) /\ \A q \in S : AmountOf[q] \in Int
  BY AmountsOfPayouts
<1>2. SumFunctionOnSet(AmountOf, S \ {p}) \in Int
  BY <1>1, SumType
<1>3. SumFunctionOnSet(AmountOf, S) = AmountOf[p] + SumFunctionOnSet(AmountOf, S \ {p})
  BY <1>1, SumRemove
<1>4. AmountOf[p] \in Int
  BY <1>1
<1>. QED
  BY <1>2, <1>3, <1>4

\* What a ledger row written for p says of every payout.
LEMMA RowSays ==
  ASSUME NEW u, NEW type, NEW a, NEW r, RecordTransaction(u, type, a, r)
  PROVE  /\ \A q : Paid(q)' <=> (Paid(q) \/ (type = "PAYOUT_COMPLETED" /\ q = r))
         /\ \A q : Refunded(q)' <=> (Refunded(q) \/ (type = "PAYOUT_FAILED" /\ q = r))
         /\ type = "PAYOUT_COMPLETED" => Paid(r)'
         /\ type = "PAYOUT_FAILED" => Refunded(r)'
<1>. DEFINE new == [user |-> u, type |-> type, ref |-> r, amount |-> a]
<1>1. ledger' = ledger \cup {new} /\ new.type = type /\ new.ref = r
  BY DEF RecordTransaction, AddRow
<1>. HIDE DEF new
<1>. QED
  BY <1>1 DEF Paid, Refunded

\* A payout that was settled one way has its row in its user's wallet, so that
\* it is not settled that way again.
LEMMA NotSettledYet ==
  ASSUME OwnSettlements, NEW p \in PayoutIds, NEW u, u = payout[p].user
  PROVE  /\ ~Recorded(u, "PAYOUT_COMPLETED", p) => ~Paid(p)
         /\ ~Recorded(u, "PAYOUT_FAILED", p) => ~Refunded(p)
  BY DEF OwnSettlements, Recorded, Paid, Refunded

LEMMA OwnSettlementsKept ==
  ASSUME OwnSettlements, NEW u, NEW type, NEW a, NEW r,
         RecordTransaction(u, type, a, r),
         \A q \in PayoutIds : payout[q] # NoPayout =>
           payout'[q] # NoPayout /\ payout'[q].user = payout[q].user,
         type \in {"PAYOUT_COMPLETED", "PAYOUT_FAILED"} /\ r \in PayoutIds =>
           payout[r] # NoPayout /\ u = payout[r].user
  PROVE  OwnSettlements'
<1>. DEFINE new == [user |-> u, type |-> type, ref |-> r, amount |-> a]
<1>1. ledger' = ledger \cup {new} /\ new.type = type /\ new.ref = r /\ new.user = u
  BY DEF RecordTransaction, AddRow
<1>. HIDE DEF new
<1>. QED
  BY <1>1 DEF OwnSettlements

\* A user none of whose payouts, wallet columns and balance moved.
LEMMA UserUnmoved ==
  ASSUME NEW u, Withdraws(u), Balances(u), AmountOf' = AmountOf,
         wallet'[u] = wallet[u], balance'[u] = balance[u],
         PaidFor(u)' = PaidFor(u), OutFor(u)' = OutFor(u), OpenFor(u)' = OpenFor(u)
  PROVE  Withdraws(u)' /\ Balances(u)' /\ (Holds(u) => Holds(u)')
  BY DEF Withdraws, Balances, Holds

LEMMA CompleteMoney ==
  ASSUME PayoutTypeOK, MoneyInv, OwnSettlements, NEW p \in PayoutIds,
         NEW ref \in ProviderRefs, Complete(p, ref),
         \A q \in PayoutIds : early[q] => early'[q]
  PROVE  MoneyInv' /\ OwnSettlements'
<1>1. PICK u \in Publishers, a \in Amounts :
           /\ u = payout[p].user /\ a = payout[p].amount
           /\ payout[p] # NoPayout /\ payout[p].status \in Open
           /\ RecordTransaction(u, "PAYOUT_COMPLETED", a, p)
           /\ wallet'[u].reservedBalance = wallet[u].reservedBalance - a
           /\ wallet'[u].totalWithdrawn = wallet[u].totalWithdrawn + a
           /\ wallet'[u].totalDeposited = wallet[u].totalDeposited
           /\ \A v \in Users \ {u} : wallet'[v] = wallet[v]
           /\ balance' = balance
           /\ payout'[p].status = "COMPLETED"
           /\ payout'[p].user = u /\ payout'[p].amount = a /\ payout'[p] # NoPayout
           /\ \A q \in PayoutIds \ {p} : payout'[q] = payout[q]
  BY CompleteMoves
<1>2. AmountOf' = AmountOf /\ AmountOf[p] = a /\ a \in Nat
  BY <1>1, WalletAssumption DEF AmountOf
<1>3. /\ ~Paid(p) /\ Paid(p)'
      /\ \A q \in PayoutIds \ {p} : Paid(q)' <=> Paid(q)
      /\ \A q \in PayoutIds : Refunded(q)' <=> Refunded(q)
  BY <1>1, RowSays, NotSettledYet DEF RecordTransaction
<1>4. OwnSettlements'
  BY <1>1, OwnSettlementsKept
<1>5. \A v \in Publishers : OutFor(v)' = OutFor(v)
  BY <1>1, <1>3 DEF OutFor
<1>6. /\ PaidFor(u)' = PaidFor(u) \cup {p} /\ p \notin PaidFor(u)
      /\ OpenFor(u)' = OpenFor(u) \ {p} /\ p \in OpenFor(u)
  BY <1>1, <1>3 DEF PaidFor, OpenFor, Open
<1>7. Withdraws(u)'
  <2>1. SumFunctionOnSet(AmountOf, PaidFor(u) \cup {p})
          = SumFunctionOnSet(AmountOf, PaidFor(u)) + a
    BY <1>2, <1>6, PayoutJoins DEF PaidFor
  <2>. QED
    BY <1>1, <1>2, <1>6, <2>1 DEF MoneyInv, Withdraws
<1>8. Holds(u) => Holds(u)'
  <2>1. SumFunctionOnSet(AmountOf, OpenFor(u) \ {p})
          = SumFunctionOnSet(AmountOf, OpenFor(u)) - a
    BY <1>2, <1>6, PayoutLeaves DEF OpenFor
  <2>. QED
    BY <1>1, <1>2, <1>6, <2>1 DEF Holds
<1>9. Balances(u)'
  BY <1>1, <1>2, <1>5 DEF MoneyInv, Balances
<1>10. ASSUME NEW v \in Publishers, v # u
       PROVE  Withdraws(v)' /\ Balances(v)' /\ (Holds(v) => Holds(v)')
  <2>1. PaidFor(v)' = PaidFor(v) /\ OpenFor(v)' = OpenFor(v)
    BY <1>1, <1>3, <1>10 DEF PaidFor, OpenFor
  <2>. QED
    BY <1>1, <1>2, <1>5, <1>10, <2>1, UserUnmoved DEF MoneyInv
<1>. QED
  BY <1>4, <1>7, <1>8, <1>9, <1>10 DEF MoneyInv

LEMMA FailMoney ==
  ASSUME PayoutTypeOK, MoneyInv, OwnSettlements, NEW p \in PayoutIds, Fail(p),
         \A q \in PayoutIds : early[q] => early'[q]
  PROVE  MoneyInv' /\ OwnSettlements'
<1>1. PICK u \in Publishers, a \in Amounts :
           /\ u = payout[p].user /\ a = payout[p].amount
           /\ payout[p] # NoPayout /\ payout[p].status \in Open
           /\ RecordTransaction(u, "PAYOUT_FAILED", a, p)
           /\ wallet'[u].reservedBalance = wallet[u].reservedBalance - a
           /\ wallet'[u].totalWithdrawn = wallet[u].totalWithdrawn
           /\ wallet'[u].totalDeposited = wallet[u].totalDeposited
           /\ \A v \in Users \ {u} : wallet'[v] = wallet[v] /\ balance'[v] = balance[v]
           /\ balance'[u] = balance[u] + a
           /\ payout'[p].status = "FAILED"
           /\ payout'[p].user = u /\ payout'[p].amount = a /\ payout'[p] # NoPayout
           /\ \A q \in PayoutIds \ {p} : payout'[q] = payout[q]
  BY FailMoves
<1>2. AmountOf' = AmountOf /\ AmountOf[p] = a /\ a \in Nat
  BY <1>1, WalletAssumption DEF AmountOf
<1>3. /\ ~Refunded(p) /\ Refunded(p)'
      /\ \A q \in PayoutIds \ {p} : Refunded(q)' <=> Refunded(q)
      /\ \A q \in PayoutIds : Paid(q)' <=> Paid(q)
  BY <1>1, RowSays, NotSettledYet DEF RecordTransaction
<1>4. OwnSettlements'
  BY <1>1, OwnSettlementsKept
<1>5. \A v \in Publishers : PaidFor(v)' = PaidFor(v)
  BY <1>1, <1>3 DEF PaidFor
<1>6. /\ OutFor(u)' = OutFor(u) \ {p} /\ p \in OutFor(u)
      /\ OpenFor(u)' = OpenFor(u) \ {p} /\ p \in OpenFor(u)
  BY <1>1, <1>3 DEF OutFor, OpenFor, Open
<1>7. Balances(u)'
  <2>1. SumFunctionOnSet(AmountOf, OutFor(u) \ {p})
          = SumFunctionOnSet(AmountOf, OutFor(u)) - a
    BY <1>2, <1>6, PayoutLeaves DEF OutFor
  <2>2. SumFunctionOnSet(AmountOf, OutFor(u)) \in Int
    BY AmountsOfPayouts, SumType DEF OutFor
  <2>3. balance[u] \in Nat
    BY DEF PayoutTypeOK, TypeOK
  <2>. QED
    BY <1>1, <1>2, <1>6, <2>1, <2>2, <2>3 DEF MoneyInv, Balances
<1>8. Holds(u) => Holds(u)'
  <2>1. SumFunctionOnSet(AmountOf, OpenFor(u) \ {p})
          = SumFunctionOnSet(AmountOf, OpenFor(u)) - a
    BY <1>2, <1>6, PayoutLeaves DEF OpenFor
  <2>. QED
    BY <1>1, <1>2, <1>6, <2>1 DEF Holds
<1>9. Withdraws(u)'
  BY <1>1, <1>2, <1>5 DEF MoneyInv, Withdraws
<1>10. ASSUME NEW v \in Publishers, v # u
       PROVE  Withdraws(v)' /\ Balances(v)' /\ (Holds(v) => Holds(v)')
  <2>1. OutFor(v)' = OutFor(v) /\ OpenFor(v)' = OpenFor(v)
    BY <1>1, <1>3, <1>10 DEF OutFor, OpenFor
  <2>. QED
    BY <1>1, <1>2, <1>5, <1>10, <2>1, UserUnmoved DEF MoneyInv
<1>. QED
  BY <1>4, <1>7, <1>8, <1>9, <1>10 DEF MoneyInv

LEMMA RequestMoney ==
  ASSUME PayoutTypeOK, MoneyInv, OwnSettlements, NEW p \in PayoutIds, NEW u \in Publishers,
         NEW a \in Amounts, NEW ref \in IdempotencyKeys \cup {p}, RequestPayout(u, p, a, ref)
  PROVE  MoneyInv' /\ OwnSettlements'
<1>1. /\ payout[p] = NoPayout
      /\ RecordTransaction(u, "PAYOUT_REQUEST", a, ref)
      /\ wallet'[u].reservedBalance = wallet[u].reservedBalance + a
      /\ wallet'[u].totalWithdrawn = wallet[u].totalWithdrawn
      /\ wallet'[u].totalDeposited = wallet[u].totalDeposited
      /\ \A v \in Users \ {u} : wallet'[v] = wallet[v] /\ balance'[v] = balance[v]
      /\ balance'[u] = balance[u] - a
      /\ payout'[p] = [user |-> u, amount |-> a, status |-> "REQUESTED",
                       providerRef |-> "none"]
      /\ \A q \in PayoutIds \ {p} : payout'[q] = payout[q]
      /\ early' = early
  <2>1. early' = early
    BY DEF RequestPayout
  <2>. QED
    BY <2>1, RequestMoves
<1>. /\ TypeOK' /\ payout' \in [PayoutIds -> PayoutRows \cup {NoPayout}]
  BY RequestMoves
<1>2. /\ payout'[p].user = u /\ payout'[p].amount = a /\ payout'[p].status = "REQUESTED"
      /\ a \in Nat
  BY <1>1, WalletAssumption
<1>3. payout'[p] # NoPayout
  BY <1>2 DEF NoPayout
<1>4. /\ AmountOf'[p] = a /\ AmountOf[p] = 0
      /\ \A q \in PayoutIds \ {p} : AmountOf'[q] = AmountOf[q]
  BY <1>1, <1>2, <1>3 DEF AmountOf
<1>5. ~Paid(p) /\ ~Refunded(p)
  BY <1>1 DEF OwnSettlements, Paid, Refunded
<1>6. /\ \A q \in PayoutIds : Paid(q)' <=> Paid(q)
      /\ \A q \in PayoutIds : Refunded(q)' <=> Refunded(q)
  BY <1>1, RowSays
<1>7. OwnSettlements'
  BY <1>1, OwnSettlementsKept
<1>8. \A v \in Publishers :
        /\ PaidFor(v)' = PaidFor(v) /\ p \notin PaidFor(v)
        /\ p \notin OutFor(v) /\ p \notin OpenFor(v)
        /\ v # u => OutFor(v)' = OutFor(v) /\ OpenFor(v)' = OpenFor(v)
  BY <1>1, <1>2, <1>5, <1>6 DEF PaidFor, OutFor, OpenFor, NoPayout, Open
<1>9. OutFor(u)' = OutFor(u) \cup {p} /\ OpenFor(u)' = OpenFor(u) \cup {p}
  BY <1>1, <1>2, <1>3, <1>5, <1>6 DEF OutFor, OpenFor, Open
<1>10. ASSUME NEW S \in SUBSET PayoutIds, p \notin S
       PROVE  /\ SumFunctionOnSet(AmountOf', S) = SumFunctionOnSet(AmountOf, S)
              /\ SumFunctionOnSet(AmountOf', S \cup {p}) = SumFunctionOnSet(AmountOf, S) + a
              /\ SumFunctionOnSet(AmountOf, S) \in Int
  <2>1. /\ IsFiniteSet(S)
        /\ \A q \in S : AmountOf[q] \in Int /\ AmountOf'[q] = AmountOf[q]
    BY <1>4, <1>10, AmountsOfPayouts
  <2>2. SumFunctionOnSet(AmountOf', S) = SumFunctionOnSet(AmountOf, S)
    BY <2>1, SumCongruent
  <2>3. \A q \in S \cup {p} : AmountOf'[q] \in Int
    BY <1>2, <1>4, <2>1
  <2>4. SumFunctionOnSet(AmountOf', S \cup {p}) = AmountOf'[p] + SumFunctionOnSet(AmountOf', S)
    BY <1>10, <2>1, <2>3, SumAdd
  <2>5. SumFunctionOnSet(AmountOf, S) \in Int
    BY <2>1, SumType
  <2>. QED
    BY <1>2, <1>4, <2>2, <2>4, <2>5
<1>11. /\ OutFor(u) \in SUBSET PayoutIds /\ OpenFor(u) \in SUBSET PayoutIds
       /\ \A v \in Publishers : /\ PaidFor(v) \in SUBSET PayoutIds
                                /\ OutFor(v) \in SUBSET PayoutIds
                                /\ OpenFor(v) \in SUBSET PayoutIds
  BY DEF OutFor, OpenFor, PaidFor
<1>. HIDE DEF AmountOf
<1>12. \A v \in Publishers : Withdraws(v)'
  <2>1. \A v \in Publishers : wallet'[v].totalWithdrawn = wallet[v].totalWithdrawn
    BY <1>1
  <2>. QED
    BY <1>8, <1>10, <1>11, <2>1 DEF MoneyInv, Withdraws
<1>13. Balances(u)'
  <2>1. SumFunctionOnSet(AmountOf', OutFor(u) \cup {p}) = SumFunctionOnSet(AmountOf, OutFor(u)) + a
        /\ SumFunctionOnSet(AmountOf, OutFor(u)) \in Int
    BY <1>8, <1>10, <1>11
  <2>2. balance[u] \in Nat
    BY DEF PayoutTypeOK, TypeOK
  <2>. QED
    BY <1>1, <1>2, <1>9, <2>1, <2>2 DEF MoneyInv, Balances
<1>14. Holds(u) => Holds(u)'
  <2>1. SumFunctionOnSet(AmountOf', OpenFor(u) \cup {p})
          = SumFunctionOnSet(AmountOf, OpenFor(u)) + a
    BY <1>8, <1>10, <1>11
  <2>. QED
    BY <1>1, <1>9, <2>1 DEF Holds
<1>15. ASSUME NEW v \in Publishers, v # u
       PROVE  Balances(v)' /\ (Holds(v) => Holds(v)')
  <2>1. /\ SumFunctionOnSet(AmountOf', OutFor(v)) = SumFunctionOnSet(AmountOf, OutFor(v))
        /\ SumFunctionOnSet(AmountOf', OpenFor(v)) = SumFunctionOnSet(AmountOf, OpenFor(v))
    BY <1>8, <1>10, <1>11
  <2>2. OutFor(v)' = OutFor(v) /\ OpenFor(v)' = OpenFor(v)
        /\ wallet'[v] = wallet[v] /\ balance'[v] = balance[v]
    BY <1>1, <1>8, <1>15
  <2>. QED
    BY <2>1, <2>2 DEF MoneyInv, Balances, Holds
<1>. QED
  BY <1>1, <1>7, <1>12, <1>13, <1>14, <1>15 DEF MoneyInv

\* A step that moves no money: a row may only move between open statuses,
\* unless an admin was early.
LEMMA QuietMoney ==
  ASSUME MoneyInv, OwnSettlements, UNCHANGED walletVars,
         \A q \in PayoutIds :
           /\ payout'[q] = NoPayout <=> payout[q] = NoPayout
           /\ payout[q] # NoPayout =>
                /\ payout'[q].user = payout[q].user
                /\ payout'[q].amount = payout[q].amount
           /\ \/ payout[q].status \in Open <=> payout'[q].status \in Open
              \/ early'[q],
         \A q \in PayoutIds : payout[q] = NoPayout => payout'[q] = payout[q],
         \A q \in PayoutIds : early[q] => early'[q]
  PROVE  MoneyInv' /\ OwnSettlements'
<1>1. /\ wallet' = wallet /\ balance' = balance /\ ledger' = ledger
      /\ \A q : (Paid(q)' <=> Paid(q)) /\ (Refunded(q)' <=> Refunded(q))
  BY DEF walletVars, Paid, Refunded
<1>2. OwnSettlements'
  BY <1>1 DEF OwnSettlements
<1>3. AmountOf' = AmountOf
  BY DEF AmountOf
<1>4. \A q \in PayoutIds : payout'[q].user = payout[q].user
  OBVIOUS
<1>5. ASSUME NEW u \in Publishers
      PROVE  PaidFor(u)' = PaidFor(u) /\ OutFor(u)' = OutFor(u)
  BY <1>1, <1>4 DEF PaidFor, OutFor
<1>6. ASSUME NEW u \in Publishers, \A p \in PayoutIds : ~early'[p]
      PROVE  OpenFor(u)' = OpenFor(u)
  BY <1>4, <1>6 DEF OpenFor
<1>7. ASSUME NEW u \in Publishers
      PROVE  /\ Withdraws(u)' /\ Balances(u)'
             /\ Holds(u)' \/ \E p \in PayoutIds : early'[p]
  <2>1. Withdraws(u)' /\ Balances(u)'
    BY <1>1, <1>3, <1>5 DEF MoneyInv, Withdraws, Balances
  <2>2. Holds(u)' \/ \E p \in PayoutIds : early'[p]
    BY <1>1, <1>3, <1>6 DEF MoneyInv, Holds
  <2>. QED
    BY <2>1, <2>2
<1>. QED
  BY <1>2, <1>7 DEF MoneyInv

LEMMA DepositMoney ==
  ASSUME PayoutTypeOK, MoneyInv, OwnSettlements, NEW u \in Publishers, NEW a \in Amounts,
         NEW r, Deposit(u, a, r), UNCHANGED <<payout, early>>
  PROVE  MoneyInv' /\ OwnSettlements'
<1>1. /\ RecordTransaction(u, "DEPOSIT", a, r)
      /\ wallet'[u].reservedBalance = wallet[u].reservedBalance
      /\ wallet'[u].totalWithdrawn = wallet[u].totalWithdrawn
      /\ wallet'[u].totalDeposited = wallet[u].totalDeposited + a
      /\ balance'[u] = balance[u] + a
      /\ \A v \in Users \ {u} : wallet'[v] = wallet[v] /\ balance'[v] = balance[v]
  <2>1. /\ wallet \in [Users -> Wallets] /\ balance \in [Users -> Nat] /\ a \in Nat
        /\ wallet[u] \in Wallets
    BY WalletAssumption DEF PayoutTypeOK, TypeOK
  <2>. QED
    BY <2>1 DEF Deposit, Wallets
<1>2. /\ \A q \in PayoutIds : Paid(q)' <=> Paid(q)
      /\ \A q \in PayoutIds : Refunded(q)' <=> Refunded(q)
  BY <1>1, RowSays
<1>3. OwnSettlements'
  BY <1>1, OwnSettlementsKept
<1>4. AmountOf' = AmountOf
  BY DEF AmountOf
<1>5. \A v \in Publishers : /\ PaidFor(v)' = PaidFor(v) /\ OutFor(v)' = OutFor(v)
                            /\ OpenFor(v)' = OpenFor(v)
  BY <1>2 DEF PaidFor, OutFor, OpenFor
<1>6. Withdraws(u)' /\ Balances(u)' /\ (Holds(u) => Holds(u)')
  <2>1. Withdraws(u)' /\ (Holds(u) => Holds(u)')
    BY <1>1, <1>4, <1>5 DEF MoneyInv, Withdraws, Holds
  <2>2. SumFunctionOnSet(AmountOf, OutFor(u)) \in Int
    BY AmountsOfPayouts, SumType DEF OutFor
  <2>3. balance[u] \in Nat /\ a \in Nat
    BY WalletAssumption DEF PayoutTypeOK, TypeOK
  <2>4. Balances(u)'
    BY <1>1, <1>4, <1>5, <2>2, <2>3 DEF MoneyInv, Balances
  <2>. QED
    BY <2>1, <2>4
<1>7. ASSUME NEW v \in Publishers, v # u
      PROVE  Withdraws(v)' /\ Balances(v)' /\ (Holds(v) => Holds(v)')
  BY <1>1, <1>4, <1>5, <1>7, UserUnmoved DEF MoneyInv
<1>. QED
  BY <1>3, <1>6, <1>7 DEF MoneyInv

-----------------------------------------------------------------------------
(* The steps of a payout *)

\* SettledOneWay is not inductive: an answer applied late must not reopen a
\* settled row, so that while a call is in flight only an early admin can have
\* settled its row, a webhook cannot find it, and it has been requested.
CallsUnsettled ==
  \A p \in PayoutIds :
    /\ payout[p] = NoPayout => ~early[p] /\ submission[p] = NoCall
    /\ submission[p] # NoCall =>
         /\ payout[p].providerRef # "gateway"
         /\ early[p] \/ payout[p].status = "REQUESTED"

PayoutInv ==
  /\ PayoutTypeOK
  /\ MoneyInv
  /\ OwnSettlements
  /\ SettledOneWay
  /\ CallsUnsettled

RowsTyped == payout \in [PayoutIds -> PayoutRows \cup {NoPayout}]

\* Settling a payout, or refusing to settle it again, keeps its invariant.
LEMMA SettlingKeeps ==
  ASSUME PayoutInv, NEW p \in PayoutIds,
         FailPayout(p) \/ \E ref \in ProviderRefs : CompletePayout(p, ref),
         \A q \in PayoutIds : early[q] => early'[q]
  PROVE  /\ TypeOK' /\ RowsTyped' /\ MoneyInv' /\ OwnSettlements' /\ SettledOneWay'
         /\ payout[p] # NoPayout /\ payout'[p] # NoPayout
         /\ \A q \in PayoutIds \ {p} : payout'[q] = payout[q]
<1>0. PayoutTypeOK
  BY DEF PayoutInv
<1>1. CASE Fail(p)
  <2>1. PICK u \in Publishers, a \in Amounts :
           /\ payout[p] # NoPayout /\ payout[p].status \in Open
           /\ RecordTransaction(u, "PAYOUT_FAILED", a, p)
           /\ payout'[p].status = "FAILED" /\ payout'[p] # NoPayout
           /\ \A q \in PayoutIds \ {p} : payout'[q] = payout[q]
           /\ TypeOK' /\ RowsTyped'
    BY <1>0, <1>1, FailMoves DEF RowsTyped
  <2>2. /\ Refunded(p)'
        /\ \A q \in PayoutIds \ {p} : Refunded(q)' <=> Refunded(q)
        /\ \A q \in PayoutIds : Paid(q)' <=> Paid(q)
    BY <2>1, RowSays
  <2>3. SettledOneWay'
    BY <2>1, <2>2 DEF PayoutInv, SettledOneWay, Open
  <2>. QED
    BY <1>0, <1>1, <2>1, <2>3, FailMoney DEF PayoutInv
<1>2. ASSUME NEW ref \in ProviderRefs, Complete(p, ref)
      PROVE  /\ TypeOK' /\ RowsTyped' /\ MoneyInv' /\ OwnSettlements' /\ SettledOneWay'
             /\ payout[p] # NoPayout /\ payout'[p] # NoPayout
             /\ \A q \in PayoutIds \ {p} : payout'[q] = payout[q]
  <2>1. PICK u \in Publishers, a \in Amounts :
           /\ payout[p] # NoPayout /\ payout[p].status \in Open
           /\ RecordTransaction(u, "PAYOUT_COMPLETED", a, p)
           /\ payout'[p].status = "COMPLETED" /\ payout'[p] # NoPayout
           /\ \A q \in PayoutIds \ {p} : payout'[q] = payout[q]
           /\ TypeOK' /\ RowsTyped'
    BY <1>0, <1>2, CompleteMoves DEF RowsTyped
  <2>2. /\ Paid(p)'
        /\ \A q \in PayoutIds \ {p} : Paid(q)' <=> Paid(q)
        /\ \A q \in PayoutIds : Refunded(q)' <=> Refunded(q)
    BY <2>1, RowSays
  <2>3. SettledOneWay'
    BY <2>1, <2>2 DEF PayoutInv, SettledOneWay, Open
  <2>. QED
    BY <1>0, <1>2, <2>1, <2>3, CompleteMoney DEF PayoutInv
<1>3. CASE payout[p].status \in Settled /\ UNCHANGED <<walletVars, payout>>
  <2>1. payout[p] # NoPayout
    BY <1>3, StatusMeansRow
  <2>2. TypeOK' /\ RowsTyped'
    BY <1>0, <1>3 DEF PayoutTypeOK, TypeOK, walletVars, RowsTyped
  <2>3. SettledOneWay'
    BY <1>3 DEF PayoutInv, SettledOneWay, walletVars, Paid, Refunded
  <2>4. MoneyInv' /\ OwnSettlements'
    BY <1>3, QuietMoney DEF PayoutInv
  <2>. QED
    BY <1>3, <2>1, <2>2, <2>3, <2>4
<1>. QED
  BY <1>1, <1>2, <1>3 DEF FailPayout, CompletePayout, Settled

\* Only a webhook, or an answer, makes a row known to the gateway's webhooks.
LEMMA StaysUnknown ==
  ASSUME PayoutTypeOK, NEW p \in PayoutIds, payout[p].providerRef # "gateway",
         FailPayout(p) \/ \E ref \in {"none", "typed"} : CompletePayout(p, ref)
  PROVE  payout'[p].providerRef # "gateway"
<1>1. CASE Fail(p)
  <2>1. payout[p] \in PayoutRows
    BY <1>1, FailMoves, PayoutRowType
  <2>2. payout'[p] = [payout[p] EXCEPT !.status = "FAILED"]
    BY <1>1 DEF Fail, PayoutTypeOK
  <2>. QED
    BY <2>1, <2>2 DEF PayoutRows
<1>2. ASSUME NEW ref \in {"none", "typed"}, Complete(p, ref)
      PROVE  payout'[p].providerRef # "gateway"
  <2>0. ref \in ProviderRefs
    BY DEF ProviderRefs
  <2>1. payout[p] \in PayoutRows
    BY <1>2, <2>0, CompleteMoves, PayoutRowType
  <2>. DEFINE r == IF ref = "none" THEN payout[p].providerRef ELSE ref
  <2>2. payout'[p] = [payout[p] EXCEPT !.status = "COMPLETED", !.providerRef = r]
    BY <1>2 DEF Complete, PayoutTypeOK
  <2>3. r # "gateway"
    OBVIOUS
  <2>. HIDE DEF r
  <2>. QED
    BY <2>1, <2>2, <2>3 DEF PayoutRows
<1>3. CASE UNCHANGED payout
  BY <1>3
<1>. QED
  BY <1>1, <1>2, <1>3 DEF FailPayout, CompletePayout

\* A step that changes neither money nor rows.
LEMMA QuietKeeps ==
  ASSUME PayoutInv, UNCHANGED <<walletVars, payout, early>>
  PROVE  TypeOK' /\ RowsTyped' /\ MoneyInv' /\ OwnSettlements' /\ SettledOneWay'
<1>1. TypeOK' /\ RowsTyped'
  BY DEF PayoutInv, PayoutTypeOK, TypeOK, walletVars, RowsTyped
<1>2. SettledOneWay'
  BY DEF PayoutInv, SettledOneWay, walletVars, Paid, Refunded
<1>3. MoneyInv' /\ OwnSettlements'
  BY QuietMoney DEF PayoutInv
<1>. QED
  BY <1>1, <1>2, <1>3

OthersTyped ==
  /\ submission \in [PayoutIds -> Submissions]
  /\ gateway \in [PayoutIds -> {"none", "accepted", "processed", "reversed"}]
  /\ sent \in [PayoutIds -> SUBSET Events]
  /\ early \in [PayoutIds -> BOOLEAN]

LEMMA CallKeeps ==
  ASSUME PayoutInv, NEW p \in PayoutIds, NEW s \in Submissions,
         submission[p] # NoCall, submission' = [submission EXCEPT ![p] = s],
         UNCHANGED <<walletVars, payout, outside, early>>
  PROVE  PayoutInv'
<1>1. TypeOK' /\ RowsTyped' /\ MoneyInv' /\ OwnSettlements' /\ SettledOneWay'
  BY QuietKeeps
<1>2. OthersTyped'
  BY DEF PayoutInv, PayoutTypeOK, OthersTyped, outside
<1>3. CallsUnsettled'
  <2>1. \A q \in PayoutIds : submission'[q] # NoCall => submission[q] # NoCall
    BY DEF PayoutInv, PayoutTypeOK
  <2>. QED
    BY <2>1 DEF PayoutInv, CallsUnsettled
<1>. QED
  BY <1>1, <1>2, <1>3 DEF PayoutInv, PayoutTypeOK, RowsTyped, OthersTyped

LEMMA AnsweredKeeps ==
  ASSUME PayoutInv, NEW p \in PayoutIds,
         \/ ManualProvider(p)
         \/ NotSubmitted(p)
         \/ GatewayAnswers(p)
         \/ AnswerLost(p)
         \/ Crash(p)
  PROVE  PayoutInv'
<1>1. /\ NoCall \in Submissions /\ Calling # NoCall
      /\ Answer("PROCESSING", "none") \in Submissions
      /\ Answer("PROCESSING", "gateway") \in Submissions
      /\ Answer("COMPLETED", "gateway") \in Submissions
      /\ Answer("FAILED", "none") \in Submissions
  BY DEF Submissions, Settled, NoCall, Calling
<1>2. ASSUME NEW s \in Submissions, Answered(p, s)
      PROVE  PayoutInv'
  BY <1>1, <1>2, CallKeeps DEF Answered
<1>. QED
  BY <1>1, <1>2, CallKeeps
  DEF ManualProvider, NotSubmitted, GatewayAnswers, AnswerLost, Crash

\* What an answer in flight can be.
LEMMA AnswerTypes ==
  ASSUME PayoutInv, NEW p \in PayoutIds, submission[p].state = "answered"
  PROVE  /\ submission[p] # NoCall
         /\ submission[p].ref \in {"none", "gateway"}
         /\ payout[p] # NoPayout
         /\ payout[p].providerRef # "gateway"
         /\ early[p] \/ payout[p].status = "REQUESTED"
<1>1. submission[p] # NoCall
  BY DEF NoCall
<1>2. submission[p].ref \in {"none", "gateway"}
  BY DEF PayoutInv, PayoutTypeOK, Submissions, NoCall, Calling, Answer
<1>. QED
  BY <1>1, <1>2 DEF PayoutInv, CallsUnsettled

LEMMA ProcessingKeeps ==
  ASSUME PayoutInv, NEW p \in PayoutIds, ApplyProcessing(p)
  PROVE  PayoutInv'
<1>1. /\ submission[p].ref \in {"none", "gateway"}
      /\ payout[p] # NoPayout
      /\ early[p] \/ payout[p].status = "REQUESTED"
  BY AnswerTypes DEF ApplyProcessing
<1>2. payout[p] \in PayoutRows /\ PayoutTypeOK
  BY <1>1, PayoutRowType DEF PayoutInv
<1>. DEFINE r == IF submission[p].ref = "none" THEN payout[p].providerRef ELSE submission[p].ref
<1>3. r \in ProviderRefs
  BY <1>1, <1>2 DEF PayoutRows, ProviderRefs
<1>4. payout' = [payout EXCEPT ![p].status = "PROCESSING", ![p].providerRef = r]
  BY DEF ApplyProcessing
<1>. HIDE DEF r
<1>5. RowsTyped'
  BY <1>1, <1>2, <1>3, <1>4, RowUpdateType DEF RowsTyped, Open
<1>6. /\ payout'[p] = [payout[p] EXCEPT !.status = "PROCESSING", !.providerRef = r]
      /\ \A q \in PayoutIds \ {p} : payout'[q] = payout[q]
  BY <1>2, <1>4 DEF PayoutTypeOK
<1>7. /\ payout'[p].status = "PROCESSING" /\ payout'[p].user = payout[p].user
      /\ payout'[p].amount = payout[p].amount
  BY <1>2, <1>6 DEF PayoutRows
<1>8. payout'[p] # NoPayout
  BY <1>7 DEF NoPayout
<1>9. /\ UNCHANGED walletVars /\ early' = early /\ UNCHANGED outside
      /\ submission' = [submission EXCEPT ![p] = NoCall]
  BY DEF ApplyProcessing
<1>10. /\ payout[p].status \in Open <=> payout'[p].status \in Open
       \/ early'[p]
  BY <1>1, <1>7, <1>9 DEF Open
<1>11. MoneyInv' /\ OwnSettlements'
  <2>1. /\ \A q \in PayoutIds :
           /\ payout'[q] = NoPayout <=> payout[q] = NoPayout
           /\ payout[q] # NoPayout =>
                /\ payout'[q].user = payout[q].user
                /\ payout'[q].amount = payout[q].amount
           /\ \/ payout[q].status \in Open <=> payout'[q].status \in Open
              \/ early'[q]
        /\ \A q \in PayoutIds : payout[q] = NoPayout => payout'[q] = payout[q]
        /\ \A q \in PayoutIds : early[q] => early'[q]
    BY <1>1, <1>6, <1>7, <1>8, <1>9, <1>10
  <2>. QED
    BY <1>9, <2>1, QuietMoney DEF PayoutInv
<1>12. SettledOneWay'
  <2>1. \A q : (Paid(q)' <=> Paid(q)) /\ (Refunded(q)' <=> Refunded(q))
    BY <1>9 DEF walletVars, Paid, Refunded
  <2>2. early[p] \/ (~Paid(p) /\ ~Refunded(p))
    BY <1>1 DEF PayoutInv, SettledOneWay
  <2>3. \A q \in PayoutIds \ {p} : \/ early'[q]
                                   \/ /\ Paid(q)' <=> payout'[q].status = "COMPLETED"
                                      /\ Refunded(q)' <=> payout'[q].status = "FAILED"
    BY <1>6, <1>9, <2>1 DEF PayoutInv, SettledOneWay
  <2>4. \/ early'[p]
        \/ /\ Paid(p)' <=> payout'[p].status = "COMPLETED"
           /\ Refunded(p)' <=> payout'[p].status = "FAILED"
    BY <1>7, <1>9, <2>1, <2>2
  <2>. QED
    BY <2>3, <2>4 DEF SettledOneWay
<1>13. TypeOK' /\ OthersTyped'
  <2>1. TypeOK'
    BY <1>9 DEF PayoutInv, PayoutTypeOK, TypeOK, walletVars
  <2>2. NoCall \in Submissions
    BY DEF Submissions
  <2>. QED
    BY <1>2, <1>9, <2>1, <2>2 DEF PayoutTypeOK, OthersTyped, outside
<1>14. CallsUnsettled'
  <2>1. submission'[p] = NoCall /\ \A q \in PayoutIds \ {p} : submission'[q] = submission[q]
    BY <1>2, <1>9 DEF PayoutTypeOK
  <2>. QED
    BY <1>6, <1>8, <1>9, <2>1 DEF PayoutInv, CallsUnsettled
<1>. QED
  BY <1>5, <1>11, <1>12, <1>13, <1>14 DEF PayoutInv, PayoutTypeOK, RowsTyped, OthersTyped

LEMMA FinalKeeps ==
  ASSUME PayoutInv, NEW p \in PayoutIds, ApplyFinal(p)
  PROVE  PayoutInv'
<1>1. /\ submission[p].ref \in ProviderRefs /\ payout[p] # NoPayout
      /\ submission' = [submission EXCEPT ![p] = NoCall]
      /\ UNCHANGED <<outside, early>>
  BY AnswerTypes DEF ApplyFinal, ProviderRefs
<1>2. /\ TypeOK' /\ RowsTyped' /\ MoneyInv' /\ OwnSettlements' /\ SettledOneWay'
      /\ payout'[p] # NoPayout
      /\ \A q \in PayoutIds \ {p} : payout'[q] = payout[q]
  <2>1. CASE FailPayout(p) \/ CompletePayout(p, submission[p].ref)
    BY <1>1, <2>1, SettlingKeeps
  <2>2. CASE UNCHANGED <<walletVars, payout>>
    BY <1>1, <2>2, QuietKeeps
  <2>. QED
    BY <2>1, <2>2 DEF ApplyFinal
<1>3. OthersTyped'
  <2>1. NoCall \in Submissions
    BY DEF Submissions
  <2>. QED
    BY <1>1, <2>1 DEF PayoutInv, PayoutTypeOK, OthersTyped, outside
<1>4. CallsUnsettled'
  <2>1. submission'[p] = NoCall /\ \A q \in PayoutIds \ {p} : submission'[q] = submission[q]
    BY <1>1 DEF PayoutInv, PayoutTypeOK
  <2>. QED
    BY <1>1, <1>2, <2>1 DEF PayoutInv, CallsUnsettled
<1>. QED
  BY <1>2, <1>3, <1>4 DEF PayoutInv, PayoutTypeOK, RowsTyped, OthersTyped

LEMMA AdminKeeps ==
  ASSUME PayoutInv, NEW p \in PayoutIds,
         AdminFails(p) \/ \E ref \in {"none", "typed"} : AdminCompletes(p, ref)
  PROVE  PayoutInv'
<1>1. /\ FailPayout(p) \/ \E ref \in {"none", "typed"} : CompletePayout(p, ref)
      /\ payout[p] # NoPayout
      /\ early' = [early EXCEPT ![p] = @ \/ submission[p] # NoCall]
      /\ UNCHANGED <<submission, outside>>
  BY DEF AdminFails, AdminCompletes, MarkEarly
<1>2. early \in [PayoutIds -> BOOLEAN] /\ PayoutTypeOK
  BY DEF PayoutInv, PayoutTypeOK
<1>3. /\ early' \in [PayoutIds -> BOOLEAN]
      /\ early'[p] <=> early[p] \/ submission[p] # NoCall
      /\ \A q \in PayoutIds \ {p} : early'[q] = early[q]
  BY <1>1, <1>2
<1>4. /\ TypeOK' /\ RowsTyped' /\ MoneyInv' /\ OwnSettlements' /\ SettledOneWay'
      /\ payout'[p] # NoPayout
      /\ \A q \in PayoutIds \ {p} : payout'[q] = payout[q]
  BY <1>1, <1>3, SettlingKeeps DEF ProviderRefs
<1>5. OthersTyped'
  BY <1>1, <1>3 DEF PayoutInv, PayoutTypeOK, OthersTyped, outside
<1>6. CallsUnsettled'
  <2>1. submission[p] # NoCall => payout'[p].providerRef # "gateway" /\ early'[p]
    BY <1>1, <1>2, <1>3, StaysUnknown DEF PayoutInv, CallsUnsettled
  <2>2. \A q \in PayoutIds \ {p} :
          /\ payout'[q] = NoPayout => ~early'[q] /\ submission'[q] = NoCall
          /\ submission'[q] # NoCall =>
               /\ payout'[q].providerRef # "gateway"
               /\ early'[q] \/ payout'[q].status = "REQUESTED"
    BY <1>1, <1>3, <1>4 DEF PayoutInv, CallsUnsettled
  <2>. QED
    BY <1>1, <1>4, <2>1, <2>2 DEF CallsUnsettled
<1>. QED
  BY <1>4, <1>5, <1>6 DEF PayoutInv, PayoutTypeOK, RowsTyped, OthersTyped

LEMMA WebhookKeeps ==
  ASSUME PayoutInv, NEW p \in PayoutIds, NEW event \in Events, DeliverWebhook(p, event)
  PROVE  PayoutInv'
<1>1. UNCHANGED <<submission, gateway, early>> /\ HandleEvent(p, event)
  BY DEF DeliverWebhook
<1>2. sent' \in [PayoutIds -> SUBSET Events]
  BY DEF DeliverWebhook, PayoutInv, PayoutTypeOK
<1>3. OthersTyped'
  BY <1>1, <1>2 DEF PayoutInv, PayoutTypeOK, OthersTyped
<1>4. CASE UNCHANGED <<walletVars, payout>>
  <2>1. CallsUnsettled'
    BY <1>1, <1>4 DEF PayoutInv, CallsUnsettled
  <2>. QED
    BY <1>1, <1>3, <1>4, <2>1, QuietKeeps DEF PayoutInv, PayoutTypeOK, RowsTyped, OthersTyped
<1>5. CASE /\ payout[p].providerRef = "gateway"
           /\ FailPayout(p) \/ CompletePayout(p, "gateway")
  <2>1. /\ TypeOK' /\ RowsTyped' /\ MoneyInv' /\ OwnSettlements' /\ SettledOneWay'
        /\ payout[p] # NoPayout /\ payout'[p] # NoPayout
        /\ \A q \in PayoutIds \ {p} : payout'[q] = payout[q]
    BY <1>1, <1>5, SettlingKeeps DEF ProviderRefs
  <2>2. submission[p] = NoCall
    BY <1>5 DEF PayoutInv, CallsUnsettled
  <2>3. CallsUnsettled'
    BY <1>1, <2>1, <2>2 DEF PayoutInv, CallsUnsettled
  <2>. QED
    BY <1>3, <2>1, <2>3 DEF PayoutInv, PayoutTypeOK, RowsTyped, OthersTyped
<1>. QED
  BY <1>1, <1>4, <1>5 DEF HandleEvent

LEMMA GatewayKeeps ==
  ASSUME PayoutInv, NEW p \in PayoutIds, GatewayStep(p)
  PROVE  PayoutInv'
<1>1. PICK from \in SUBSET {"none", "accepted", "processed"},
            to \in {"accepted", "processed", "reversed"},
            events \in SUBSET Events : GatewayMoves(p, from, to, events)
  BY DEF GatewayStep, GatewayTakes, GatewayProcesses, GatewayReverses, Events
<1>2. UNCHANGED <<walletVars, payout, submission, early>>
  BY <1>1 DEF GatewayMoves
<1>3. OthersTyped'
  BY <1>1, <1>2 DEF GatewayMoves, PayoutInv, PayoutTypeOK, OthersTyped
<1>4. CallsUnsettled'
  BY <1>2 DEF PayoutInv, CallsUnsettled
<1>. QED
  BY <1>2, <1>3, <1>4, QuietKeeps DEF PayoutInv, PayoutTypeOK, RowsTyped, OthersTyped

LEMMA RequestKeeps ==
  ASSUME PayoutInv, NEW p \in PayoutIds, NEW u \in Publishers, NEW a \in Amounts,
         NEW ref \in IdempotencyKeys \cup {p}, RequestPayout(u, p, a, ref)
  PROVE  PayoutInv'
<1>1. /\ payout[p] = NoPayout
      /\ RecordTransaction(u, "PAYOUT_REQUEST", a, ref)
      /\ payout'[p] = [user |-> u, amount |-> a, status |-> "REQUESTED",
                       providerRef |-> "none"]
      /\ \A q \in PayoutIds \ {p} : payout'[q] = payout[q]
      /\ submission' = [submission EXCEPT ![p] = Calling]
      /\ TypeOK' /\ payout' \in [PayoutIds -> PayoutRows \cup {NoPayout}]
  BY RequestMoves DEF PayoutInv
<1>2. /\ payout'[p].status = "REQUESTED" /\ payout'[p].providerRef = "none"
      /\ payout'[p] # NoPayout
  BY <1>1 DEF NoPayout
<1>3. MoneyInv' /\ OwnSettlements'
  BY RequestMoney DEF PayoutInv
<1>4. SettledOneWay'
  <2>1. ~Paid(p) /\ ~Refunded(p)
    BY <1>1 DEF PayoutInv, OwnSettlements, Paid, Refunded
  <2>2. \A q \in PayoutIds : (Paid(q)' <=> Paid(q)) /\ (Refunded(q)' <=> Refunded(q))
    BY <1>1, RowSays
  <2>3. early' = early
    BY DEF RequestPayout
  <2>. QED
    BY <1>1, <1>2, <2>1, <2>2, <2>3 DEF PayoutInv, SettledOneWay
<1>5. OthersTyped'
  <2>1. Calling \in Submissions
    BY DEF Submissions
  <2>. QED
    BY <2>1 DEF RequestPayout, PayoutInv, PayoutTypeOK, OthersTyped
<1>6. CallsUnsettled'
  <2>1. \A q \in PayoutIds \ {p} : submission'[q] = submission[q]
    BY <1>1 DEF PayoutInv, PayoutTypeOK
  <2>2. early' = early
    BY DEF RequestPayout
  <2>. QED
    BY <1>1, <1>2, <2>1, <2>2 DEF PayoutInv, CallsUnsettled
<1>. QED
  BY <1>1, <1>3, <1>4, <1>5, <1>6 DEF PayoutInv, PayoutTypeOK, RowsTyped, OthersTyped

LEMMA FundKeeps ==
  ASSUME PayoutInv, FundPublisher
  PROVE  PayoutInv'
<1>1. PICK u \in Publishers, a \in Amounts, r \in IdempotencyKeys : Deposit(u, a, r)
  BY DEF FundPublisher
<1>2. UNCHANGED <<payout, submission, outside, early>>
  BY DEF FundPublisher
<1>3. TypeOK'
  BY <1>1, DepositTypeOK, PayoutAssumption DEF PayoutInv, PayoutTypeOK
<1>4. MoneyInv' /\ OwnSettlements'
  BY <1>1, <1>2, DepositMoney DEF PayoutInv
<1>5. SettledOneWay'
  <2>1. \A q \in PayoutIds : (Paid(q)' <=> Paid(q)) /\ (Refunded(q)' <=> Refunded(q))
    BY <1>1, RowSays DEF Deposit
  <2>. QED
    BY <1>2, <2>1 DEF PayoutInv, SettledOneWay
<1>6. RowsTyped' /\ OthersTyped' /\ CallsUnsettled'
  BY <1>2 DEF PayoutInv, PayoutTypeOK, RowsTyped, OthersTyped, CallsUnsettled, outside
<1>. QED
  BY <1>3, <1>4, <1>5, <1>6 DEF PayoutInv, PayoutTypeOK, RowsTyped, OthersTyped

LEMMA PayoutStepKeeps == PayoutInv /\ [PayoutNext]_payoutVars => PayoutInv'
<1>. SUFFICES ASSUME PayoutInv, [PayoutNext]_payoutVars
              PROVE  PayoutInv'
  OBVIOUS
<1>1. ASSUME NEW p \in PayoutIds, PayoutStep(p)
      PROVE  PayoutInv'
  BY <1>1, RequestKeeps, AnsweredKeeps, ProcessingKeeps, FinalKeeps, AdminKeeps, WebhookKeeps
  DEF PayoutStep
<1>2. CASE UNCHANGED payoutVars
  <2>1. UNCHANGED <<walletVars, payout, early>> /\ UNCHANGED <<submission, gateway, sent>>
    BY <1>2 DEF payoutVars, walletVars
  <2>2. OthersTyped' /\ CallsUnsettled'
    BY <2>1 DEF PayoutInv, PayoutTypeOK, OthersTyped, CallsUnsettled
  <2>. QED
    BY <2>1, <2>2, QuietKeeps DEF PayoutInv, PayoutTypeOK, RowsTyped, OthersTyped
<1>. QED
  BY <1>1, <1>2, GatewayKeeps, FundKeeps DEF PayoutNext

LEMMA PayoutInitKeeps == PayoutInit => PayoutInv
<1>. SUFFICES ASSUME PayoutInit
              PROVE  PayoutInv
  OBVIOUS
<1>1. /\ \A p \in PayoutIds : payout[p] = NoPayout /\ submission[p] = NoCall /\ ~early[p]
      /\ ledger = {}
  BY DEF PayoutInit, Init
<1>2. \A p : ~Paid(p) /\ ~Refunded(p)
  BY <1>1 DEF Paid, Refunded
<1>3. TypeOK /\ RowsTyped /\ OthersTyped
  BY InitTypeOK DEF PayoutInit, RowsTyped, OthersTyped, Submissions
<1>4. OwnSettlements /\ SettledOneWay /\ CallsUnsettled
  BY <1>1, <1>2 DEF OwnSettlements, SettledOneWay, CallsUnsettled, NoPayout
<1>5. MoneyInv
  <2>. SUFFICES ASSUME NEW u \in Publishers
                PROVE  Withdraws(u) /\ Balances(u) /\ Holds(u)
    BY DEF MoneyInv
  <2>1. PaidFor(u) = {} /\ OutFor(u) = {} /\ OpenFor(u) = {}
    BY <1>1, <1>2 DEF PaidFor, OutFor, OpenFor, NoPayout, Open
  <2>2. SumFunctionOnSet(AmountOf, {}) = 0
    BY SumEmpty
  <2>3. /\ wallet[u].totalWithdrawn = 0 /\ wallet[u].reservedBalance = 0
        /\ wallet[u].totalDeposited = 0 /\ balance[u] = 0
    BY DEF PayoutInit, Init, EmptyWallet
  <2>. QED
    BY <2>1, <2>2, <2>3 DEF Withdraws, Balances, Holds
<1>. QED
  BY <1>3, <1>4, <1>5 DEF PayoutInv, PayoutTypeOK, RowsTyped, OthersTyped

LEMMA PayoutInvariant == PayoutSpec => []PayoutInv
  BY PayoutInitKeeps, PayoutStepKeeps, PTL DEF PayoutSpec

LEMMA MoneyMeans == MoneyInv => HoldBacksOpenPayouts /\ NeverSettledTwiceAlike
  BY DEF MoneyInv, Holds, Withdraws, Balances, OpenFor, PaidFor, OutFor,
         HoldBacksOpenPayouts, NeverSettledTwiceAlike

\* However admins, answers, webhooks, their repetitions and crashes interleave,
\* every payout is settled one way at most, but for an admin who settles it
\* while its provider call is in flight; and no payout is ever paid twice or
\* given back twice, early admin or not.
THEOREM PayoutsSettleOnce == PayoutSpec => []SettlesOnce
<1>1. PayoutInv => SettlesOnce
  BY MoneyMeans DEF PayoutInv, SettlesOnce
<1>. QED
  BY <1>1, PayoutInvariant, PTL

\* A publisher's reserve is the sum of the payouts still open, for any number
\* of publishers and payouts, but for that same race.
THEOREM ReserveHoldsPayouts == PayoutSpec => []HoldBacksOpenPayouts
<1>1. PayoutInv => HoldBacksOpenPayouts
  BY MoneyMeans DEF PayoutInv
<1>. QED
  BY <1>1, PayoutInvariant, PTL

-----------------------------------------------------------------------------
(* The destination: a publisher is paid on the account on file, but for one  *)
(* race, for any number of accounts, payouts and changes between them.       *)
(*                                                                           *)
(* PaysTheAccountOnFile is not inductive: it does not say what a submission  *)
(* in flight will save.  ReadsAreCurrent does: a submission that did not see *)
(* the account change has read the one on file.                              *)

\* What ensureFundAccount works on is what the row still holds, but for those
\* that passed a change.
ReadsAreCurrent == \A p \in InFlight \ passed : submit[p].account = row.account

\* A fund account is created for the account read; one that was cached is the
\* account's own, but for those that read a stale row.
FundsAreOwn ==
  \A p \in Payouts :
    /\ submit[p].at = "saving" => submit[p].fund = submit[p].account
    /\ submit[p].at = "paying" => submit[p].fund = submit[p].account \/ submit[p].stale
    /\ submit[p].at # "done" => paidTo[p] = None

BeneficiaryInv == BeneficiaryTypeOK /\ ReadsAreCurrent /\ FundsAreOwn /\ PaysTheAccountOnFile

RowTypes == [account: Accounts \cup {None}, contact: BOOLEAN, fund: Accounts \cup {None}]

SubmitTypes ==
  [at: {"unsent", "creating", "saving", "paying", "done"}, account: Accounts \cup {None},
   contact: BOOLEAN, fund: Accounts \cup {None}, stale: BOOLEAN]

LEMMA InitEstablishes ==
  ASSUME MaxSets \in Nat, BeneficiaryInit
  PROVE  BeneficiaryInv
  <1>1. BeneficiaryTypeOK
    <2>1. row \in RowTypes /\ submit \in [Payouts -> SubmitTypes]
      BY DEF BeneficiaryInit, NoRow, Unsent, RowTypes, SubmitTypes
    <2>2. paidTo \in [Payouts -> Accounts \cup {None}] /\ sets \in 0..MaxSets
      BY DEF BeneficiaryInit
    <2>3. passed \subseteq Payouts /\ stale \in BOOLEAN
      BY DEF BeneficiaryInit
    <2> QED BY <2>1, <2>2, <2>3 DEF BeneficiaryTypeOK, RowTypes, SubmitTypes
  <1>2. ReadsAreCurrent /\ FundsAreOwn /\ PaysTheAccountOnFile
    BY DEF BeneficiaryInit, ReadsAreCurrent, FundsAreOwn, PaysTheAccountOnFile, NoRow,
           Unsent, InFlight
  <1> QED BY <1>1, <1>2 DEF BeneficiaryInv

LEMMA ChangePreserves ==
  ASSUME MaxSets \in Nat, BeneficiaryInv, NEW a \in Accounts, SetBeneficiaryAccount(a)
  PROVE  BeneficiaryInv'
  <1> USE DEF SetBeneficiaryAccount, RowOf, InFlight
  <1>1. BeneficiaryTypeOK'
    <2>1. row' \in RowTypes
      BY DEF RowTypes
    <2>2. sets' \in 0..MaxSets /\ passed' \subseteq Payouts
      BY DEF BeneficiaryInv, BeneficiaryTypeOK
    <2> QED BY <2>1, <2>2 DEF BeneficiaryInv, BeneficiaryTypeOK, RowTypes
  <1>2. ReadsAreCurrent'
    BY DEF ReadsAreCurrent
  <1>3. FundsAreOwn' /\ PaysTheAccountOnFile'
    BY DEF BeneficiaryInv, FundsAreOwn, PaysTheAccountOnFile
  <1> QED BY <1>1, <1>2, <1>3 DEF BeneficiaryInv

LEMMA ReadPreserves ==
  ASSUME BeneficiaryInv, NEW p \in Payouts, Read(p)
  PROVE  BeneficiaryInv'
  <1> USE DEF Read, InFlight
  <1>1. BeneficiaryTypeOK'
    BY DEF BeneficiaryInv, BeneficiaryTypeOK, NoRow
  <1>2. ReadsAreCurrent'
    BY DEF BeneficiaryInv, BeneficiaryTypeOK, ReadsAreCurrent
  <1>3. FundsAreOwn' /\ PaysTheAccountOnFile'
    BY DEF BeneficiaryInv, BeneficiaryTypeOK, FundsAreOwn, PaysTheAccountOnFile
  <1> QED BY <1>1, <1>2, <1>3 DEF BeneficiaryInv

LEMMA CreatePreserves ==
  ASSUME BeneficiaryInv, NEW p \in Payouts, CreateFundAccount(p)
  PROVE  BeneficiaryInv'
  <1> USE DEF CreateFundAccount, InFlight
  <1>1. BeneficiaryTypeOK'
    <2>1. submit \in [Payouts -> SubmitTypes]
      BY DEF BeneficiaryInv, BeneficiaryTypeOK, SubmitTypes
    <2> DEFINE created == [submit[p] EXCEPT !.at = "saving", !.contact = TRUE,
                                            !.fund = submit[p].account]
    <2>2. created \in SubmitTypes
      BY <2>1 DEF SubmitTypes
    <2>3. submit' = [submit EXCEPT ![p] = created]
      BY <2>1
    <2> HIDE DEF created
    <2>4. submit' \in [Payouts -> SubmitTypes]
      BY <2>1, <2>2, <2>3
    <2> QED BY <2>4 DEF BeneficiaryInv, BeneficiaryTypeOK, SubmitTypes
  <1>2. ReadsAreCurrent'
    BY DEF BeneficiaryInv, BeneficiaryTypeOK, ReadsAreCurrent
  <1>3. FundsAreOwn' /\ PaysTheAccountOnFile'
    BY DEF BeneficiaryInv, BeneficiaryTypeOK, FundsAreOwn, PaysTheAccountOnFile
  <1> QED BY <1>1, <1>2, <1>3 DEF BeneficiaryInv

\* The one step that can cache another account's fund account: it is the one of
\* a submission that passed a change, and stale says so.
LEMMA SavePreserves ==
  ASSUME BeneficiaryInv, NEW p \in Payouts, SaveRazorpayIds(p)
  PROVE  BeneficiaryInv'
  <1> USE DEF SaveRazorpayIds, InFlight
  <1>1. BeneficiaryTypeOK'
    <2>1. row \in RowTypes /\ submit \in [Payouts -> SubmitTypes]
      BY DEF BeneficiaryInv, BeneficiaryTypeOK, RowTypes, SubmitTypes
    <2>2. row' \in RowTypes /\ submit' \in [Payouts -> SubmitTypes]
      BY <2>1 DEF RowTypes, SubmitTypes
    <2>3. passed' \subseteq Payouts /\ stale' \in BOOLEAN
      BY DEF BeneficiaryInv, BeneficiaryTypeOK
    <2> QED BY <2>2, <2>3 DEF BeneficiaryInv, BeneficiaryTypeOK, RowTypes, SubmitTypes
  <1>2. ReadsAreCurrent'
    BY DEF BeneficiaryInv, BeneficiaryTypeOK, ReadsAreCurrent
  <1>3. FundsAreOwn'
    BY DEF BeneficiaryInv, BeneficiaryTypeOK, FundsAreOwn
  <1>4. row'.fund \in {None, row'.account} \/ stale'
    <2>1. CASE p \in passed
      BY <2>1
    <2>2. CASE p \notin passed
      BY <2>2 DEF BeneficiaryInv, BeneficiaryTypeOK, ReadsAreCurrent, FundsAreOwn
    <2> QED BY <2>1, <2>2
  <1>5. PaysTheAccountOnFile'
    BY <1>4 DEF BeneficiaryInv, BeneficiaryTypeOK, PaysTheAccountOnFile
  <1> QED BY <1>1, <1>2, <1>3, <1>5 DEF BeneficiaryInv

LEMMA EndPreserves ==
  ASSUME BeneficiaryInv, NEW p \in Payouts, CreatePayout(p) \/ SubmitFails(p)
  PROVE  BeneficiaryInv'
  <1> USE DEF CreatePayout, SubmitFails, InFlight
  <1>1. BeneficiaryTypeOK'
    BY DEF BeneficiaryInv, BeneficiaryTypeOK
  <1>2. ReadsAreCurrent'
    BY DEF BeneficiaryInv, BeneficiaryTypeOK, ReadsAreCurrent
  <1>3. FundsAreOwn' /\ PaysTheAccountOnFile'
    BY DEF BeneficiaryInv, BeneficiaryTypeOK, FundsAreOwn, PaysTheAccountOnFile
  <1> QED BY <1>1, <1>2, <1>3 DEF BeneficiaryInv

LEMMA InvIsInvariant ==
  ASSUME MaxSets \in Nat
  PROVE  BeneficiarySpec => []BeneficiaryInv
  <1>1. BeneficiaryInit => BeneficiaryInv
    BY InitEstablishes
  <1>2. BeneficiaryInv /\ [BeneficiaryNext]_beneficiaryVars => BeneficiaryInv'
    <2> SUFFICES ASSUME BeneficiaryInv, [BeneficiaryNext]_beneficiaryVars PROVE BeneficiaryInv'
      OBVIOUS
    <2>1. CASE \E a \in Accounts : SetBeneficiaryAccount(a)
      BY <2>1, ChangePreserves
    <2>2. ASSUME NEW p \in Payouts,
                 \/ Read(p) \/ CreateFundAccount(p) \/ SaveRazorpayIds(p)
                 \/ CreatePayout(p) \/ SubmitFails(p)
          PROVE  BeneficiaryInv'
      BY <2>2, ReadPreserves, CreatePreserves, SavePreserves, EndPreserves
    <2>3. CASE UNCHANGED beneficiaryVars
      BY <2>3 DEF beneficiaryVars, BeneficiaryInv, BeneficiaryTypeOK, ReadsAreCurrent, FundsAreOwn,
                  PaysTheAccountOnFile, InFlight
    <2> QED BY <2>1, <2>2, <2>3 DEF BeneficiaryNext
  <1> QED BY <1>1, <1>2, PTL DEF BeneficiarySpec

-----------------------------------------------------------------------------
\* The publisher is paid on the account on file when the submission read it, and
\* the cached fund account is that account's, unless a submission that was
\* creating one while the account changed has saved it since.
THEOREM PaidOnFile ==
  ASSUME MaxSets \in Nat
  PROVE  BeneficiarySpec => []PaysTheAccountOnFile
  <1>1. BeneficiaryInv => PaysTheAccountOnFile
    BY DEF BeneficiaryInv
  <1> QED BY <1>1, InvIsInvariant, PTL
=============================================================================
