-------------------------------- MODULE TopUp --------------------------------
(***************************************************************************)
(* Advertiser top-ups: PaymentsService (payments.service.ts) between the   *)
(* browser, PayPal or Razorpay, and the ledger of Wallet.tla.              *)
(*                                                                         *)
(* The browser's confirm call and the gateway's webhooks reach the same    *)
(* markPaidAndCredit in any order and any number of times.  It wins the    *)
(* order with a compare-and-swap CREATED -> PAID, and deposits in a second *)
(* transaction.  A handler is a small process; it may stop at any await.   *)
(* A webhook answered with 200 may come again; one that is not answered,   *)
(* or whose handler throws, stays with the gateway for a retry.            *)
(***************************************************************************)
EXTENDS Wallet

CONSTANTS
  Orders,      \* PaymentOrder ids, standing for their gateway order ids too
  CaptureId,   \* CaptureId[o]: the gateway's id of the payment that pays o
  Handlers     \* confirm calls and webhook deliveries served at a time

ASSUME TopUpAssumption ==
  /\ Orders \subseteq Refs
  /\ CaptureId \in [Orders -> Refs \ Orders]
  /\ \A o, p \in Orders : CaptureId[o] = CaptureId[p] => o = p

VARIABLES
  order,     \* order[o]: the PaymentOrder row, or NoOrder
  handler,   \* handler[h]: what handler h is doing
  gateway,   \* gateway[o]: the order as the gateway sees it
  events,    \* events[o]: webhook events the gateway still delivers
  acked,     \* history: the captured event of o was answered with 200
  died       \* history: a handler stopped after it had marked o PAID

topUpVars ==
  <<balance, wallet, campaign, ledger, order, handler, gateway, events, acked, died>>

NoOrder == [status |-> "none"]
Idle == [stage |-> "idle"]
Events == {"approved", "captured", "failed"}

\* A capture went through: at once, or it is PENDING and decided later.
Taken == {"captured", "pending", "denied"}

OrderRows ==
  [status: {"CREATED", "PAID", "FAILED"}, user: Advertisers, credit: Amounts,
   provider: {"paypal", "razorpay"}, linked: BOOLEAN]

Handling ==
  [stage: {"capture", "mark", "credit"}, order: Orders, payment: Refs,
   event: Events \cup {"none"}]

TopUpTypeOK ==
  /\ TypeOK
  /\ order \in [Orders -> OrderRows \cup {NoOrder}]
  /\ handler \in [Handlers -> Handling \cup {Idle}]
  /\ gateway \in [Orders -> {"none", "open", "approved"} \cup Taken]
  /\ events \in [Orders -> SUBSET Events]
  /\ acked \in [Orders -> BOOLEAN]
  /\ died \in [Orders -> BOOLEAN]

TopUpInit ==
  /\ Init
  /\ order = [o \in Orders |-> NoOrder]
  /\ handler = [h \in Handlers |-> Idle]
  /\ gateway = [o \in Orders |-> "none"]
  /\ events = [o \in Orders |-> {}]
  /\ acked = [o \in Orders |-> FALSE]
  /\ died = [o \in Orders |-> FALSE]

-----------------------------------------------------------------------------
(* Creating an order: the row, then the gateway's order, then the link *)

CreateOrder(o, u, a, provider) ==
  /\ order[o] = NoOrder
  /\ order' = [order EXCEPT ![o] = [status |-> "CREATED", user |-> u,
                 credit |-> a, provider |-> provider, linked |-> FALSE]]
  /\ UNCHANGED <<walletVars, handler, gateway, events, acked, died>>

Unlinked(o) == order[o] # NoOrder /\ ~order[o].linked /\ order[o].status = "CREATED"

\* providerOrderId replaces its placeholder; the browser may pay from now on.
LinkOrder(o) ==
  /\ Unlinked(o)
  /\ order' = [order EXCEPT ![o].linked = TRUE]
  /\ gateway' = [gateway EXCEPT ![o] = "open"]
  /\ UNCHANGED <<walletVars, handler, events, acked, died>>

FailDanglingOrder(o) ==
  /\ Unlinked(o)
  /\ order' = [order EXCEPT ![o].status = "FAILED"]
  /\ UNCHANGED <<walletVars, handler, gateway, events, acked, died>>

-----------------------------------------------------------------------------
(* The gateway (external) *)

GatewayMoves(o, to, event) ==
  /\ gateway' = [gateway EXCEPT ![o] = to]
  /\ events' = [events EXCEPT ![o] = @ \cup {event}]
  /\ UNCHANGED <<walletVars, order, handler, acked, died>>

\* A PayPal buyer approves, and this backend captures; Razorpay captures.
BuyerPays(o) ==
  /\ gateway[o] = "open"
  /\ IF order[o].provider = "paypal"
       THEN GatewayMoves(o, "approved", "approved")
       ELSE GatewayMoves(o, "captured", "captured")

\* An attempt fails; the buyer may try again in the same Razorpay checkout.
AttemptFails(o) ==
  /\ gateway[o] = "open" /\ order[o].provider = "razorpay"
  /\ GatewayMoves(o, "open", "failed")

\* PayPal decides a PENDING capture: CAPTURE.COMPLETED or CAPTURE.DENIED.
PendingSettles(o) ==
  /\ gateway[o] = "pending"
  /\ GatewayMoves(o, "captured", "captured") \/ GatewayMoves(o, "denied", "failed")

-----------------------------------------------------------------------------
(* Entry points: the browser's confirm call and the webhook *)

Begin(h, stage, o, payment, event) ==
  /\ handler[h] = Idle
  /\ handler' = [handler EXCEPT ![h] = [stage |-> stage, order |-> o,
                                        payment |-> payment, event |-> event]]
  /\ UNCHANGED <<walletVars, order, gateway, events, acked, died>>

\* confirmPayment captures; confirmRazorpayPayment has a signature that only
\* a payment that happened comes with.
ConfirmPayment(h, o) ==
  /\ order[o].status = "CREATED" /\ order[o].linked
  /\ \/ /\ order[o].provider = "paypal"
        /\ Begin(h, "capture", o, o, "none")
     \/ /\ order[o].provider = "razorpay" /\ gateway[o] = "captured"
        /\ Begin(h, "mark", o, CaptureId[o], "none")

\* Answering 200 leaves the gateway free to drop the event, or to repeat it.
Ack(o, event) ==
  /\ acked' = [acked EXCEPT ![o] = @ \/ event = "captured"]
  /\ \/ events' = [events EXCEPT ![o] = @ \ {event}]
     \/ UNCHANGED events

WebhookApproved(h, o) ==
  /\ "approved" \in events[o]
  /\ IF order[o].status = "CREATED"
       THEN Begin(h, "capture", o, o, "approved")
       ELSE /\ Ack(o, "approved")
            /\ UNCHANGED <<walletVars, order, handler, gateway, died>>

WebhookCaptured(h, o) ==
  "captured" \in events[o] /\ Begin(h, "mark", o, CaptureId[o], "captured")

MutFailAnyOrder(o) ==
  /\ "failed" \in events[o]
  /\ order' = [order EXCEPT ![o].status = "FAILED"]
  /\ Ack(o, "failed")
  /\ UNCHANGED <<walletVars, handler, gateway, died>>

\* payment.failed, and PayPal's CAPTURE.DENIED and DECLINED: one updateMany.
WebhookFailed(o) ==
  /\ "failed" \in events[o]
  /\ order' = IF order[o].status = "CREATED"
                THEN [order EXCEPT ![o].status = "FAILED"] ELSE order
  /\ Ack(o, "failed")
  /\ UNCHANGED <<walletVars, handler, gateway, died>>

-----------------------------------------------------------------------------
(* Inside a handler *)

Current(h, stage, o) == handler[h] # Idle /\ handler[h].stage = stage /\ handler[h].order = o

\* captureOrder: PayPal takes the approved payment, or leaves it PENDING.
PayPalTakes(o) ==
  /\ gateway[o] = "approved"
  /\ \E to \in {"captured", "pending"} :
       /\ gateway' = [gateway EXCEPT ![o] = to]
       /\ events' = [events EXCEPT ![o] = @ \cup ({to} \cap Events)]

\* captureAndExtractId: the answer's own id is preferred over its capture's;
\* an order captured before is looked up.  No status is looked at.
Capture(h, o) ==
  /\ Current(h, "capture", o)
  /\ \/ PayPalTakes(o)
     \/ gateway[o] \in Taken /\ UNCHANGED <<gateway, events>>
  /\ \E payment \in (IF gateway[o] = "approved" THEN {o, CaptureId[o]} ELSE {CaptureId[o]}) :
       handler' = [handler EXCEPT ![h].stage = "mark", ![h].payment = payment]
  /\ UNCHANGED <<walletVars, order, acked, died>>

\* PayPal declines the capture: captureOrder throws, CAPTURE.DECLINED follows.
CaptureDeclined(h, o) ==
  /\ Current(h, "capture", o) /\ gateway[o] = "approved"
  /\ handler' = [handler EXCEPT ![h] = Idle]
  /\ events' = [events EXCEPT ![o] = @ \cup {"failed"}]
  /\ UNCHANGED <<walletVars, order, gateway, acked, died>>

Finish(h) ==
  /\ handler' = [handler EXCEPT ![h] = Idle]
  /\ IF handler[h].event = "none" THEN UNCHANGED <<events, acked>>
     ELSE Ack(handler[h].order, handler[h].event)

MutMarkPaidReadFirst(h, o) ==
  /\ Current(h, "mark", o)
  /\ order[o].status \in {"CREATED", "PAID"}
  /\ order' = [order EXCEPT ![o].status = "PAID"]
  /\ handler' = [handler EXCEPT ![h].stage = "credit"]
  /\ UNCHANGED <<walletVars, gateway, events, acked, died>>

\* The compare-and-swap: whoever does not win it returns, and answers 200.
MarkPaid(h, o) ==
  /\ Current(h, "mark", o)
  /\ IF order[o].status = "CREATED"
       THEN /\ order' = [order EXCEPT ![o].status = "PAID"]
            /\ handler' = [handler EXCEPT ![h].stage = "credit"]
            /\ UNCHANGED <<events, acked>>
       ELSE Finish(h) /\ UNCHANGED order
  /\ UNCHANGED <<walletVars, gateway, died>>

Credit(h, o) ==
  /\ Current(h, "credit", o)
  /\ Deposit(order[o].user, order[o].credit, handler[h].payment)
  /\ Finish(h)
  /\ UNCHANGED <<order, gateway, died>>

\* A gateway call or the database throws, or the process stops: the handler
\* ends without an answer.  Its capture may still have gone through.
Die(h, o) ==
  /\ handler[h] # Idle /\ handler[h].order = o
  /\ handler' = [handler EXCEPT ![h] = Idle]
  /\ died' = [died EXCEPT ![o] = @ \/ handler[h].stage = "credit"]
  /\ \/ UNCHANGED <<gateway, events>>
     \/ handler[h].stage = "capture" /\ PayPalTakes(o)
  /\ UNCHANGED <<walletVars, order, acked>>

-----------------------------------------------------------------------------
(* Composition *)

OrderStep(o) ==
  \/ \E u \in Advertisers, a \in Amounts, provider \in {"paypal", "razorpay"} :
       CreateOrder(o, u, a, provider)
  \/ LinkOrder(o)
  \/ FailDanglingOrder(o)
  \/ BuyerPays(o)
  \/ AttemptFails(o)
  \/ PendingSettles(o)
  \/ WebhookFailed(o)

HandlerStep(h, o) ==
  \/ ConfirmPayment(h, o)
  \/ WebhookApproved(h, o)
  \/ WebhookCaptured(h, o)
  \/ Capture(h, o)
  \/ CaptureDeclined(h, o)
  \/ MarkPaid(h, o)
  \/ Credit(h, o)
  \/ Die(h, o)

TopUpNext ==
  \E o \in Orders : OrderStep(o) \/ \E h \in Handlers : HandlerStep(h, o)

TopUpSpec == TopUpInit /\ [][TopUpNext]_topUpVars

-----------------------------------------------------------------------------
(* Properties *)

\* The DEPOSIT rows of order o, under either id its payment may go by.
CreditRows(o) ==
  {row \in ledger : row.type = "DEPOSIT" /\ row.ref \in {o, CaptureId[o]}}

\* Confirm calls and webhooks, however they interleave and repeat, credit an
\* order at most once, in one piece, and only once the gateway has taken the
\* payment.  (A PENDING capture counts: the code treats it so.)
Contract ==
  INSTANCE TopUpContract WITH
    Buyers <- Advertisers, Credits <- Amounts,
    received <- [o \in Orders |-> gateway[o] \in Taken],
    credited <- [o \in Orders |-> SumAmounts(CreditRows(o))],
    funds <- [u \in Advertisers |-> balance[u]]

CreditsExactlyOnce == Contract!ContractSpec

\* An order says PAID exactly while its credit is on the ledger or on its
\* way to its buyer: the two transactions come apart only when a handler dies
\* between them.  A captured payment whose webhook was answered with 200 is
\* credited too, unless the order had FAILED before: payment.failed of a first
\* attempt in the same checkout does that.
PaidMeansCredited ==
  \A o \in Orders :
    /\ \A row \in CreditRows(o) :
         /\ order[o].status = "PAID"
         /\ row.user = order[o].user /\ row.amount = order[o].credit
    /\ order[o].status = "PAID" =>
         CreditRows(o) # {} \/ died[o] \/ \E h \in Handlers : Current(h, "credit", o)
    /\ acked[o] => order[o].status \in {"PAID", "FAILED"}

\* Only one handler ever gets past the compare-and-swap of an order, and it
\* gets there after the payment was taken.
OneWinner ==
  \A o \in Orders, h \in Handlers :
    Current(h, "credit", o) =>
      /\ order[o].status = "PAID" /\ gateway[o] \in Taken /\ CreditRows(o) = {}
      /\ \A g \in Handlers : Current(g, "credit", o) => g = h

\* Typed rows, one handler per credit, and a credit for every paid order.
OrdersAreSound == TopUpTypeOK /\ OneWinner /\ PaidMeansCredited
=============================================================================
