------------------------------- MODULE Payouts -------------------------------
(***************************************************************************)
(* Publisher payouts: the second half of WalletManager, the RazorpayX and  *)
(* manual providers, and the RazorpayX webhook.                            *)
(*                                                                         *)
(* requestPayout commits a REQUESTED row that holds the money, and only    *)
(* then calls the provider; what the provider answers is applied in a      *)
(* later transaction.  Between the two an admin may settle the row, the    *)
(* gateway may send a webhook, or the process may stop (submission is then *)
(* lost: nothing resubmits a payout).  The gateway itself is outside the   *)
(* repository: gateway, sent and their actions say what the code allows    *)
(* for.                                                                    *)
(***************************************************************************)
EXTENDS Wallet

CONSTANTS
  PayoutIds,       \* ids of Payout rows
  IdempotencyKeys, \* keys a publisher's client may send with a request
  MinPayout        \* MIN_PAYOUT_USD

ASSUME PayoutAssumption ==
  /\ IsFiniteSet(PayoutIds)
  /\ PayoutIds \cup IdempotencyKeys \subseteq Refs
  /\ MinPayout \in Nat

VARIABLES
  payout,      \* payout[p]: the Payout row, or NoPayout
  submission,  \* submission[p]: the submitToProvider call in flight
  gateway,     \* gateway[p]: what RazorpayX made of the request
  sent,        \* sent[p]: webhook events RazorpayX has not dropped yet
  early        \* history: an admin settled the row while its call was in flight

payoutVars ==
  <<balance, wallet, campaign, ledger, payout, submission, gateway, sent, early>>

outside == <<gateway, sent>>

Open == {"REQUESTED", "PROCESSING"}
Settled == {"COMPLETED", "FAILED"}
ProviderRefs == {"none", "gateway", "typed"}
Events == {"payout.processed", "payout.reversed"}
NoPayout == [status |-> "none"]
NoCall == [state |-> "none"]
Calling == [state |-> "calling"]

\* PayoutSubmissionResult
Answer(status, ref) == [state |-> "answered", status |-> status, ref |-> ref]

PayoutRows ==
  [user: Publishers, amount: Amounts, status: Open \cup Settled,
   providerRef: ProviderRefs]

Submissions ==
  {NoCall, Calling}
    \cup {Answer(s, r) : s \in {"PROCESSING"} \cup Settled, r \in {"none", "gateway"}}

PayoutTypeOK ==
  /\ TypeOK
  /\ payout \in [PayoutIds -> PayoutRows \cup {NoPayout}]
  /\ submission \in [PayoutIds -> Submissions]
  /\ gateway \in [PayoutIds -> {"none", "accepted", "processed", "reversed"}]
  /\ sent \in [PayoutIds -> SUBSET Events]
  /\ early \in [PayoutIds -> BOOLEAN]

PayoutInit ==
  /\ Init
  /\ payout = [p \in PayoutIds |-> NoPayout]
  /\ submission = [p \in PayoutIds |-> NoCall]
  /\ gateway = [p \in PayoutIds |-> "none"]
  /\ sent = [p \in PayoutIds |-> {}]
  /\ early = [p \in PayoutIds |-> FALSE]

-----------------------------------------------------------------------------
(* WalletManager's payout transactions *)

\* The money leaves the available balance with the row's creation; the ledger
\* row carries the client's key, or the payout's own id when it sent none.
RequestPayout(u, p, a, ref) ==
  /\ payout[p] = NoPayout
  /\ a >= MinPayout
  /\ balance[u] >= a
  /\ RecordTransaction(u, "PAYOUT_REQUEST", a, ref)
  /\ Fits(wallet[u].reservedBalance + a)
  /\ balance' = [balance EXCEPT ![u] = @ - a]
  /\ wallet' = [wallet EXCEPT ![u].reservedBalance = @ + a]
  /\ payout' = [payout EXCEPT ![p] = [user |-> u, amount |-> a,
                  status |-> "REQUESTED", providerRef |-> "none"]]
  /\ submission' = [submission EXCEPT ![p] = Calling]
  /\ UNCHANGED <<campaign, gateway, sent, early>>

\* completePayout, when the row is open.
Complete(p, ref) ==
  LET row == payout[p] IN
  /\ row.status \in Open
  /\ RecordTransaction(row.user, "PAYOUT_COMPLETED", row.amount, p)
  /\ Fits(wallet[row.user].totalWithdrawn + row.amount)
  /\ wallet' = [wallet EXCEPT ![row.user].reservedBalance = @ - row.amount,
                              ![row.user].totalWithdrawn = @ + row.amount]
  /\ payout' = [payout EXCEPT ![p].status = "COMPLETED",
                              ![p].providerRef = IF ref = "none" THEN @ ELSE ref]
  /\ UNCHANGED <<balance, campaign>>

\* completePayout: the second time it changes nothing; a FAILED row throws.
CompletePayout(p, ref) ==
  \/ Complete(p, ref)
  \/ /\ payout[p].status = "COMPLETED"
     /\ UNCHANGED <<walletVars, payout>>

CompleteThrows(p) ==
  \/ payout[p].status = "FAILED"
  \/ payout[p].status \in Open /\ Recorded(payout[p].user, "PAYOUT_COMPLETED", p)

Fail(p) ==
  LET row == payout[p] IN
  /\ row.status \in Open
  /\ RecordTransaction(row.user, "PAYOUT_FAILED", row.amount, p)
  /\ Fits(balance[row.user] + row.amount)
  /\ wallet' = [wallet EXCEPT ![row.user].reservedBalance = @ - row.amount]
  /\ balance' = [balance EXCEPT ![row.user] = @ + row.amount]
  /\ payout' = [payout EXCEPT ![p].status = "FAILED"]
  /\ UNCHANGED campaign

MutFailKeepsHold(p) ==
  LET row == payout[p] IN
  /\ row.status \in Open
  /\ RecordTransaction(row.user, "PAYOUT_FAILED", row.amount, p)
  /\ balance' = [balance EXCEPT ![row.user] = @ + row.amount]
  /\ payout' = [payout EXCEPT ![p].status = "FAILED"]
  /\ UNCHANGED <<wallet, campaign>>

\* failPayout: the mirror image.
FailPayout(p) ==
  \/ Fail(p)
  \/ /\ payout[p].status = "FAILED"
     /\ UNCHANGED <<walletVars, payout>>

FailThrows(p) ==
  \/ payout[p].status = "COMPLETED"
  \/ payout[p].status \in Open /\ Recorded(payout[p].user, "PAYOUT_FAILED", p)

-----------------------------------------------------------------------------
(* submitToProvider: the call, its answer, and applying the answer *)

Answered(p, answer) ==
  /\ submission[p] = Calling
  /\ submission' = [submission EXCEPT ![p] = answer]
  /\ UNCHANGED <<walletVars, payout, outside, early>>

\* ManualPayoutProvider queues the payout for a human.
ManualProvider(p) == gateway[p] = "none" /\ Answered(p, Answer("PROCESSING", "none"))

\* Not configured, no beneficiary, no fund account, or a rejected request:
\* the gateway has taken nothing.
NotSubmitted(p) == gateway[p] = "none" /\ Answered(p, Answer("FAILED", "none"))

\* RazorpayXPayoutProvider.submit's answers once the gateway took the payout.
GatewayAnswers(p) ==
  /\ gateway[p] # "none"
  /\ \/ Answered(p, Answer("PROCESSING", "gateway"))
     \/ gateway[p] = "processed" /\ Answered(p, Answer("COMPLETED", "gateway"))

\* fetch throws (a timeout, a dropped connection): reported as FAILED.
AnswerLost(p) == Answered(p, Answer("FAILED", "none"))

\* PROCESSING is written by id, whatever the row has become meanwhile.
ApplyProcessing(p) ==
  LET answer == submission[p] IN
  /\ answer.state = "answered" /\ answer.status = "PROCESSING"
  /\ payout' = [payout EXCEPT ![p].status = "PROCESSING",
                              ![p].providerRef = IF answer.ref = "none" THEN @ ELSE answer.ref]
  /\ submission' = [submission EXCEPT ![p] = NoCall]
  /\ UNCHANGED <<walletVars, outside, early>>

\* A final answer goes through completePayout or failPayout, whose refusal
\* (the admin got there first) only fails the publisher's HTTP request.
ApplyFinal(p) ==
  LET answer == submission[p] IN
  /\ answer.state = "answered" /\ answer.status \in Settled
  /\ submission' = [submission EXCEPT ![p] = NoCall]
  /\ \/ answer.status = "COMPLETED" /\ CompletePayout(p, answer.ref)
     \/ answer.status = "FAILED" /\ FailPayout(p)
     \/ /\ IF answer.status = "COMPLETED" THEN CompleteThrows(p) ELSE FailThrows(p)
        /\ UNCHANGED <<walletVars, payout>>
  /\ UNCHANGED <<outside, early>>

\* The process stops during the call: the row stays as it is.
Crash(p) ==
  /\ submission[p] # NoCall
  /\ submission' = [submission EXCEPT ![p] = NoCall]
  /\ UNCHANGED <<walletVars, payout, outside, early>>

-----------------------------------------------------------------------------
(* The admin endpoints and the webhook *)

MarkEarly(p) == early' = [early EXCEPT ![p] = @ \/ submission[p] # NoCall]

AdminCompletes(p, ref) ==
  /\ payout[p] # NoPayout
  /\ CompletePayout(p, ref)
  /\ MarkEarly(p)
  /\ UNCHANGED <<submission, outside>>

AdminFails(p) ==
  /\ payout[p] # NoPayout
  /\ FailPayout(p)
  /\ MarkEarly(p)
  /\ UNCHANGED <<submission, outside>>

MutHandleEventWhenKnown(p, event) ==
  /\ payout[p].providerRef = "gateway"
  /\ IF event = "payout.processed" THEN CompletePayout(p, "gateway")
     ELSE /\ payout[p].status = "COMPLETED"
          /\ wallet' = [wallet EXCEPT ![payout[p].user].totalWithdrawn = @ - payout[p].amount]
          /\ balance' = [balance EXCEPT ![payout[p].user] = @ + payout[p].amount]
          /\ payout' = [payout EXCEPT ![p].status = "FAILED"]
          /\ AddRow(payout[p].user, "PAYOUT_FAILED", payout[p].amount, p)
          /\ UNCHANGED campaign

\* handleRazorpayXPayoutWebhookEvent: the row is looked up by providerRef.
HandleEvent(p, event) ==
  IF payout[p].providerRef # "gateway" THEN UNCHANGED <<walletVars, payout>>
  ELSE IF event = "payout.processed" THEN CompletePayout(p, "gateway")
  ELSE FailPayout(p)

\* A handled event is answered 200, and may still be delivered again; one
\* whose handler throws is not, and the gateway keeps it for a retry.
DeliverWebhook(p, event) ==
  /\ event \in sent[p]
  /\ HandleEvent(p, event)
  /\ \/ sent' = [sent EXCEPT ![p] = @ \ {event}]
     \/ UNCHANGED sent
  /\ UNCHANGED <<submission, gateway, early>>

-----------------------------------------------------------------------------
(* The gateway (external) *)

GatewayMoves(p, from, to, events) ==
  /\ gateway[p] \in from
  /\ gateway' = [gateway EXCEPT ![p] = to]
  /\ sent' = [sent EXCEPT ![p] = @ \cup events]
  /\ UNCHANGED <<walletVars, payout, submission, early>>

GatewayTakes(p) ==
  submission[p] = Calling /\ GatewayMoves(p, {"none"}, "accepted", {})

GatewayProcesses(p) ==
  GatewayMoves(p, {"accepted"}, "processed", {"payout.processed"})

\* payout.failed and payout.reversed are handled alike.
GatewayReverses(p) ==
  GatewayMoves(p, {"accepted", "processed"}, "reversed", {"payout.reversed"})

-----------------------------------------------------------------------------
(* Composition *)

\* adminDeposit is how a publisher's available balance is fed.
FundPublisher ==
  /\ \E u \in Publishers, a \in Amounts, r \in IdempotencyKeys : Deposit(u, a, r)
  /\ UNCHANGED <<payout, submission, outside, early>>

PayoutStep(p) ==
  \/ \E u \in Publishers, a \in Amounts, ref \in IdempotencyKeys \cup {p} :
       RequestPayout(u, p, a, ref)
  \/ ManualProvider(p)
  \/ NotSubmitted(p)
  \/ GatewayAnswers(p)
  \/ AnswerLost(p)
  \/ ApplyProcessing(p)
  \/ ApplyFinal(p)
  \/ Crash(p)
  \/ \E ref \in {"none", "typed"} : AdminCompletes(p, ref)
  \/ AdminFails(p)
  \/ \E event \in Events : DeliverWebhook(p, event)

GatewayStep(p) == GatewayTakes(p) \/ GatewayProcesses(p) \/ GatewayReverses(p)

PayoutNext == FundPublisher \/ \E p \in PayoutIds : PayoutStep(p) \/ GatewayStep(p)

PayoutSpec == PayoutInit /\ [][PayoutNext]_payoutVars

-----------------------------------------------------------------------------
(* Properties *)

Paid(p) == \E row \in ledger : row.type = "PAYOUT_COMPLETED" /\ row.ref = p
Refunded(p) == \E row \in ledger : row.type = "PAYOUT_FAILED" /\ row.ref = p

\* What each payout is over; 0 for one that has not been requested.
AmountOf == [p \in PayoutIds |-> IF payout[p] = NoPayout THEN 0 ELSE payout[p].amount]

\* The wallet holds exactly the money of the payouts still open, so that each
\* can be paid or given back: only an admin who settles a payout while its
\* provider call is in flight can break that.
HoldBacksOpenPayouts ==
  \A u \in Publishers :
    \/ \E p \in PayoutIds : early[p]
    \/ wallet[u].reservedBalance
         = SumFunctionOnSet(AmountOf, {p \in PayoutIds : /\ payout[p].status \in Open
                                                         /\ payout[p].user = u})

\* A payout is settled one way at most and the row says which, over admins,
\* answers, webhooks and their repetitions: but for the same race.
SettledOneWay ==
  \A p \in PayoutIds :
    \/ early[p]
    \/ /\ Paid(p) <=> payout[p].status = "COMPLETED"
       /\ Refunded(p) <=> payout[p].status = "FAILED"

\* No repetition or race of settlements pays one payout twice, or gives its
\* money back twice: not even the early admin's.
NeverSettledTwiceAlike ==
  \A u \in Publishers :
    /\ wallet[u].totalWithdrawn
         = SumFunctionOnSet(AmountOf, {p \in PayoutIds : Paid(p) /\ payout[p].user = u})
    /\ balance[u] + SumFunctionOnSet(AmountOf, {p \in PayoutIds : /\ payout[p] # NoPayout
                                                                 /\ ~Refunded(p)
                                                                 /\ payout[p].user = u})
         = wallet[u].totalDeposited

\* Typed rows, each settled once and one way.
SettlesOnce == PayoutTypeOK /\ SettledOneWay /\ NeverSettledTwiceAlike
=============================================================================
