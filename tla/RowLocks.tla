------------------------------ MODULE RowLocks ------------------------------
(***************************************************************************)
(* The row locks under WalletManager's transactions, in the order each one *)
(* takes them.  Wallet.tla and Payouts.tla take a transaction for one step *)
(* because each holds every row it changes until it ends; this module asks *)
(* what that costs: which transactions can wait for each other for ever.   *)
(* The class comment promises User -> Wallet -> Campaign throughout.       *)
(*                                                                         *)
(* A wallet row exists when it is locked here (lockOrCreateWallet's upsert *)
(* takes the same lock), and a Payout row being inserted is nobody else's. *)
(***************************************************************************)
EXTENDS Naturals, Sequences, FiniteSets

CONSTANTS
  Transactions,  \* concurrent $transaction calls
  Advertisers, Publishers, Campaigns, PayoutIds,
  Owner,         \* Owner[c]: the advertiser of campaign c
  Payee          \* Payee[p]: the publisher of payout p

ASSUME LockAssumption ==
  /\ Owner \in [Campaigns -> Advertisers]
  /\ Payee \in [PayoutIds -> Publishers]

VARIABLE txn     \* txn[t]: what transaction t runs, holds and still has to lock

Users == Advertisers \cup Publishers

User(u) == <<"User", u>>
Wallet(u) == <<"Wallet", u>>
Campaign(c) == <<"Campaign", c>>
Payout(p) == <<"Payout", p>>

Rows ==
  ({"User", "Wallet"} \X Users) \cup ({"Campaign"} \X Campaigns)
    \cup ({"Payout"} \X PayoutIds)

MutUserWallet(u) == <<Wallet(u), User(u)>>

\* deposit, creditPublisherEarning, promotePendingEarnings, requestPayout.
UserWallet(u) == <<User(u), Wallet(u)>>

\* reserveCampaignBudget and releaseCampaignReservation.
Funding(c) == <<User(Owner[c]), Wallet(Owner[c]), Campaign(c)>>

\* recordCampaignSpend looks the advertiser up on the campaign it has locked.
Spending(c) == <<Campaign(c), Wallet(Owner[c])>>

\* completePayout, and failPayout, which also updates the User row.
Completing(p) == <<Payout(p), Wallet(Payee[p])>>
Failing(p) == <<Payout(p), Wallet(Payee[p]), User(Payee[p])>>

Idle == [op |-> "none", held |-> {}, wanted |-> <<>>]

Operations == {"userWallet", "funding", "spending", "completing", "failing"}

\* Types, and what makes one transaction one step elsewhere: no row is held
\* by two transactions, however their statements interleave.
LockTypeOK ==
  /\ txn \in [Transactions -> [op: Operations \cup {"none"}, held: SUBSET Rows,
                               wanted: UNION {[1..n -> Rows] : n \in 0..3}]]
  /\ \A s, t \in Transactions : s # t => txn[s].held \cap txn[t].held = {}

LockInit == txn = [t \in Transactions |-> Idle]

-----------------------------------------------------------------------------

Start(t, op, rows) ==
  /\ txn[t] = Idle
  /\ txn' = [txn EXCEPT ![t] = [op |-> op, held |-> {}, wanted |-> rows]]

Begin(t) ==
  \/ \E u \in Users : Start(t, "userWallet", UserWallet(u))
  \/ \E c \in Campaigns :
       Start(t, "funding", Funding(c)) \/ Start(t, "spending", Spending(c))
  \/ \E p \in PayoutIds :
       Start(t, "completing", Completing(p)) \/ Start(t, "failing", Failing(p))

Waiting(t) == txn[t].wanted # <<>>

\* s holds the row t asks for next.
WaitsFor(t, s) == s # t /\ Waiting(t) /\ Head(txn[t].wanted) \in txn[s].held

MutPlainSelect(t) ==
  /\ Waiting(t)
  /\ txn' = [txn EXCEPT ![t].held = @ \cup {Head(txn[t].wanted)},
                        ![t].wanted = Tail(@)]

\* SELECT ... FOR UPDATE, or an UPDATE of a row not locked before.
LockNext(t) ==
  /\ Waiting(t)
  /\ \A s \in Transactions : ~WaitsFor(t, s)
  /\ txn' = [txn EXCEPT ![t].held = @ \cup {Head(txn[t].wanted)},
                        ![t].wanted = Tail(@)]

\* COMMIT, or ROLLBACK when the code throws: every lock goes.
End(t) ==
  /\ txn[t] # Idle
  /\ \A s \in Transactions : ~WaitsFor(t, s)
  /\ txn' = [txn EXCEPT ![t] = Idle]

\* A set of transactions none of which can go on before another has ended.
Stuck(S) == S # {} /\ \A t \in S : \E s \in S : WaitsFor(t, s)

\* Postgres cancels one transaction of a cycle after deadlock_timeout.
CancelVictim(t) ==
  /\ \E S \in SUBSET Transactions : t \in S /\ Stuck(S)
  /\ txn' = [txn EXCEPT ![t] = Idle]

LockStep ==
  \E t \in Transactions : Begin(t) \/ LockNext(t) \/ End(t) \/ CancelVictim(t)

LockSpec == LockInit /\ [][LockStep]_txn

-----------------------------------------------------------------------------
(* Properties *)

\* Deposits, earnings, payout requests and completions, reservations and
\* releases never lock each other out: a cycle needs a click being charged
\* (Campaign before Wallet) or a payout failing (Wallet before User).
OnlyReversedOrdersDeadlock ==
  \A S \in SUBSET Transactions :
    Stuck(S) => \E t \in S : txn[t].op \in {"spending", "failing"}

=============================================================================
