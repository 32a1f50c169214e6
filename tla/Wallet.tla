------------------------------- MODULE Wallet -------------------------------
(***************************************************************************)
(* The money ledger of AdsBender: WalletManager (wallet-manager.service.ts)*)
(* over the User.balance_usd column and the Wallet, Campaign and           *)
(* WalletTransaction tables.                                               *)
(*                                                                         *)
(* Every operation of WalletManager is one Prisma $transaction whose reads *)
(* are SELECT ... FOR UPDATE on every row it then changes, so each is one  *)
(* action here: it commits as a whole, or throws and rolls back as a whole *)
(* (the action is not enabled).  RowLocks.tla models the locking itself.   *)
(* The payout transactions of the same class are in Payouts.tla, which     *)
(* extends this module.                                                    *)
(*                                                                         *)
(* The specification lets any caller invoke any operation at any time with *)
(* any argument: what holds here holds for every caller.                   *)
(***************************************************************************)
EXTENDS Integers, FiniteSets, Functions

CONSTANTS
  Advertisers,   \* users with role ADVERTISER
  Publishers,    \* users with role PUBLISHER
  Campaigns,     \* campaign ids
  Owner,         \* Owner[c] is campaign c's advertiserId
  Amounts,       \* amounts, in the smallest unit of Decimal(12, 2)
  Refs,          \* reference ids callers supply: payment ids, event ids, keys
  Instants,      \* readings of Date.now() used in a release's reference id
  StatusWrites,  \* the values other services write to Campaign.status
  MinBalances,   \* values the cached minAdvertiserBalanceUsd setting may have
  ColumnMax      \* largest value a Decimal(12, 2) column holds

Users == Advertisers \cup Publishers

CampaignStatus ==
  {"DRAFT", "PENDING_REVIEW", "ACTIVE", "PAUSED", "COMPLETED", "ARCHIVED"}

ASSUME WalletAssumption ==
  /\ IsFiniteSet(Campaigns)
  /\ Owner \in [Campaigns -> Advertisers]
  /\ Amounts \subseteq Nat \ {0}       \* normalizeAmount: strictly positive
  /\ StatusWrites \subseteq CampaignStatus
  /\ MinBalances \subseteq Nat
  /\ ColumnMax \in Nat

TransactionType ==
  {"DEPOSIT", "CAMPAIGN_RESERVATION", "AD_SPEND", "REFUND",
   "PUBLISHER_EARNING", "PAYOUT_REQUEST", "PAYOUT_COMPLETED", "PAYOUT_FAILED"}

\* A reservation's reference is the campaign id, a release's is
\* `${campaignId}:release:${Date.now()}`; the others come from the caller.
TransactionRefs == Refs \cup Campaigns \cup (Campaigns \X Instants)

WalletTransaction ==
  [user: Users, type: TransactionType, ref: TransactionRefs, amount: Amounts]

VARIABLES
  balance,     \* balance[u]: User.balance_usd
  wallet,      \* wallet[u]: the Wallet row, all zero until it is upserted
  campaign,    \* campaign[c]: the funding columns and status of a Campaign row
  ledger       \* the WalletTransaction rows

walletVars == <<balance, wallet, campaign, ledger>>

Wallets ==
  [reservedBalance: Int, pendingEarnings: Int, totalDeposited: Nat,
   totalSpent: Nat, totalEarned: Nat, totalWithdrawn: Nat]

\* Types, and what no guard states alone: no available balance and no
\* campaign reservation is ever driven below zero, by any order of calls.
TypeOK ==
  /\ balance \in [Users -> Nat]
  /\ wallet \in [Users -> Wallets]
  /\ campaign \in [Campaigns -> [status: CampaignStatus, reservedAmount: Nat,
                                 spentAmount: Nat]]
  /\ ledger \subseteq WalletTransaction

EmptyWallet ==
  [reservedBalance |-> 0, pendingEarnings |-> 0, totalDeposited |-> 0,
   totalSpent |-> 0, totalEarned |-> 0, totalWithdrawn |-> 0]

Init ==
  /\ balance = [u \in Users |-> 0]
  /\ wallet = [u \in Users |-> EmptyWallet]
  /\ campaign = [c \in Campaigns |-> [status |-> "PENDING_REVIEW",
                                      reservedAmount |-> 0, spentAmount |-> 0]]
  /\ ledger = {}

-----------------------------------------------------------------------------
(* Helpers *)

\* Postgres rejects a value the column cannot hold: the transaction aborts.
Fits(x) == x <= ColumnMax

Recorded(u, type, r) ==
  \E row \in ledger : row.user = u /\ row.type = type /\ row.ref = r

AddRow(u, type, a, r) ==
  ledger' = ledger \cup {[user |-> u, type |-> type, ref |-> r, amount |-> a]}

MutRecordTransactionTwice(u, type, a, r) == AddRow(u, type, a, r)

\* recordTransaction: the unique index on (walletId, type, referenceId) turns
\* a second row into DUPLICATE_TRANSACTION, which aborts the caller.  A NULL
\* reference never collides: it behaves as a reference nobody used before.
RecordTransaction(u, type, a, r) ==
  /\ ~Recorded(u, type, r)
  /\ AddRow(u, type, a, r)

-----------------------------------------------------------------------------
(* Deposits *)

Deposit(u, a, r) ==
  /\ RecordTransaction(u, "DEPOSIT", a, r)
  /\ Fits(wallet[u].totalDeposited + a)
  /\ Fits(balance[u] + a)
  /\ wallet' = [wallet EXCEPT ![u].totalDeposited = @ + a]
  /\ balance' = [balance EXCEPT ![u] = @ + a]
  /\ UNCHANGED campaign

-----------------------------------------------------------------------------
(* Campaign budget: reserve, release, spend *)

MutReserveUnchecked(c, a, minBalance) ==
  LET u == Owner[c] IN
  /\ RecordTransaction(u, "CAMPAIGN_RESERVATION", a, c)
  /\ balance' = [balance EXCEPT ![u] = @ - a]
  /\ wallet' = [wallet EXCEPT ![u].reservedBalance = @ + a]
  /\ campaign' = [campaign EXCEPT ![c].reservedAmount = @ + a]

\* The available balance must reach both the amount and the platform floor,
\* but only the amount leaves it.  The campaign's status is not looked at.
ReserveCampaignBudget(c, a, minBalance) ==
  LET u == Owner[c] IN
  /\ balance[u] >= a
  /\ balance[u] >= minBalance
  /\ RecordTransaction(u, "CAMPAIGN_RESERVATION", a, c)
  /\ Fits(wallet[u].reservedBalance + a)
  /\ Fits(campaign[c].reservedAmount + a)
  /\ balance' = [balance EXCEPT ![u] = @ - a]
  /\ wallet' = [wallet EXCEPT ![u].reservedBalance = @ + a]
  /\ campaign' = [campaign EXCEPT ![c].reservedAmount = @ + a]

ReleaseCampaignReservation(c, a, t) ==
  LET u == Owner[c] IN
  /\ campaign[c].reservedAmount >= a
  /\ RecordTransaction(u, "REFUND", a, <<c, t>>)
  /\ Fits(balance[u] + a)
  /\ balance' = [balance EXCEPT ![u] = @ + a]
  /\ wallet' = [wallet EXCEPT ![u].reservedBalance = @ - a]
  /\ campaign' = [campaign EXCEPT ![c].reservedAmount = @ - a]

MutSpendKeepsWalletReserve(c, a, r) ==
  LET u == Owner[c] IN
  /\ campaign[c].status = "ACTIVE"
  /\ campaign[c].reservedAmount >= a
  /\ RecordTransaction(u, "AD_SPEND", a, r)
  /\ wallet' = [wallet EXCEPT ![u].totalSpent = @ + a]
  /\ campaign' = [campaign EXCEPT ![c].reservedAmount = @ - a,
                                  ![c].spentAmount = @ + a]
  /\ UNCHANGED balance

RecordCampaignSpend(c, a, r) ==
  LET u == Owner[c] IN
  /\ campaign[c].status = "ACTIVE"
  /\ campaign[c].reservedAmount >= a
  /\ RecordTransaction(u, "AD_SPEND", a, r)
  /\ Fits(wallet[u].totalSpent + a)
  /\ Fits(campaign[c].spentAmount + a)
  /\ wallet' = [wallet EXCEPT ![u].reservedBalance = @ - a,
                              ![u].totalSpent = @ + a]
  /\ campaign' = [campaign EXCEPT ![c].reservedAmount = @ - a,
                                  ![c].spentAmount = @ + a]
  /\ UNCHANGED balance

-----------------------------------------------------------------------------
(* Publisher earnings *)

MutCreditImmediatePends(u, a, r, immediate) ==
  /\ RecordTransaction(u, "PUBLISHER_EARNING", a, r)
  /\ wallet' = [wallet EXCEPT ![u].totalEarned = @ + a,
                              ![u].pendingEarnings = @ + a]
  /\ balance' = IF immediate THEN [balance EXCEPT ![u] = @ + a] ELSE balance
  /\ UNCHANGED campaign

\* An earning is pending unless it is credited at once (immediate).
CreditPublisherEarning(u, a, r, immediate) ==
  /\ RecordTransaction(u, "PUBLISHER_EARNING", a, r)
  /\ Fits(wallet[u].totalEarned + a)
  /\ IF immediate
       THEN /\ Fits(balance[u] + a)
            /\ wallet' = [wallet EXCEPT ![u].totalEarned = @ + a]
            /\ balance' = [balance EXCEPT ![u] = @ + a]
       ELSE /\ Fits(wallet[u].pendingEarnings + a)
            /\ wallet' = [wallet EXCEPT ![u].totalEarned = @ + a,
                                        ![u].pendingEarnings = @ + a]
            /\ UNCHANGED balance
  /\ UNCHANGED campaign

PromotePendingEarnings(u, a) ==
  /\ wallet[u].pendingEarnings >= a
  /\ Fits(balance[u] + a)
  /\ wallet' = [wallet EXCEPT ![u].pendingEarnings = @ - a]
  /\ balance' = [balance EXCEPT ![u] = @ + a]
  /\ UNCHANGED <<campaign, ledger>>

-----------------------------------------------------------------------------
(* Composition *)

\* The admin and advertiser services write Campaign.status on their own.
SetCampaignStatus(c, s) ==
  /\ campaign' = [campaign EXCEPT ![c].status = s]
  /\ UNCHANGED <<balance, wallet, ledger>>

DepositStep ==
  \E u \in Users, a \in Amounts, r \in Refs : Deposit(u, a, r)

CampaignStep ==
  \E c \in Campaigns :
    \/ \E s \in StatusWrites : SetCampaignStatus(c, s)
    \/ \E a \in Amounts :
         \/ \E m \in MinBalances : ReserveCampaignBudget(c, a, m)
         \/ \E t \in Instants : ReleaseCampaignReservation(c, a, t)
         \/ \E r \in Refs : RecordCampaignSpend(c, a, r)

PublisherStep ==
  \E u \in Publishers, a \in Amounts :
    \/ \E r \in Refs, immediate \in BOOLEAN :
         CreditPublisherEarning(u, a, r, immediate)
    \/ PromotePendingEarnings(u, a)

Next == DepositStep \/ CampaignStep \/ PublisherStep

Spec == Init /\ [][Next]_walletVars

-----------------------------------------------------------------------------
(* Properties *)

\* Every cent a user ever put in or earned is in exactly one place: the
\* available balance, the reserve, the pending earnings, or gone as spend or
\* withdrawal.  No operation creates or destroys money on the way.
MoneyConserved ==
  \A u \in Users :
    balance[u] + wallet[u].reservedBalance + wallet[u].pendingEarnings
      = wallet[u].totalDeposited + wallet[u].totalEarned
        - wallet[u].totalSpent - wallet[u].totalWithdrawn

SumAmounts(rows) == SumFunctionOnSet([row \in rows |-> row.amount], rows)

Total(u, type) ==
  SumAmounts({row \in ledger : row.user = u /\ row.type = type})

\* The wallet's reserve and its campaigns' reservations live in two tables
\* that three different transactions update: they always agree.
ReservedIsBacked ==
  \A u \in Advertisers :
    wallet[u].reservedBalance
      = SumFunctionOnSet([c \in Campaigns |-> campaign[c].reservedAmount],
                         {c \in Campaigns : Owner[c] = u})

\* The ledger is the audit trail: replaying its rows gives every total and
\* the money the user still has.
LedgerReplays ==
  \A u \in Users :
    /\ wallet[u].totalDeposited = Total(u, "DEPOSIT")
    /\ wallet[u].totalEarned = Total(u, "PUBLISHER_EARNING")
    /\ wallet[u].totalSpent = Total(u, "AD_SPEND")
    /\ wallet[u].totalWithdrawn = Total(u, "PAYOUT_COMPLETED")
    /\ balance[u] + wallet[u].pendingEarnings
         = Total(u, "DEPOSIT") + Total(u, "PUBLISHER_EARNING")
           + Total(u, "REFUND") + Total(u, "PAYOUT_FAILED")
           - Total(u, "CAMPAIGN_RESERVATION") - Total(u, "PAYOUT_REQUEST")

\* A campaign never costs its advertiser more than the one amount that was
\* set aside for it, whatever is spent, released and reserved again.
SpendWithinReservation ==
  \A c \in Campaigns :
    LET held == campaign[c].reservedAmount + campaign[c].spentAmount IN
    \/ held = 0
    \/ \E row \in ledger : /\ row.type = "CAMPAIGN_RESERVATION"
                           /\ row.ref = c
                           /\ held <= row.amount
=============================================================================
