--------------------------- MODULE CampaignFunding ---------------------------
(***************************************************************************)
(* How the admin and advertiser services drive a campaign's money:         *)
(* approve, reject, pause, resume, archive and edit requests over the      *)
(* ledger of Wallet.tla.                                                   *)
(*                                                                         *)
(* Each request reads the Campaign row without a lock, checks what it      *)
(* read, awaits at most one WalletManager transaction, and then writes the *)
(* row by id alone, whatever the row says by then.  Each await is a point  *)
(* where another request, the billing worker or a restart may come in, so  *)
(* a request is a small process (req) and every await ends an action.      *)
(***************************************************************************)
EXTENDS Wallet

CONSTANTS
  Handlers,    \* requests the API serves at the same time
  Budgets      \* totalBudget values a campaign is submitted with or edited to

ASSUME FundingAssumption ==
  /\ Budgets \subseteq Amounts              \* the DTOs' @Min(10)
  /\ \A a \in Amounts : 1..a \subseteq Amounts  \* whole smallest units
  /\ {"ACTIVE", "PAUSED", "ARCHIVED"} \subseteq StatusWrites

VARIABLES
  totalBudget,  \* totalBudget[c]: Campaign.totalBudget
  req,          \* req[h]: the request handler h is serving
  overlapped,   \* history: two requests of c overlapped, or one died half done
  edited        \* history: campaigns whose budget was edited

fundingVars == <<balance, wallet, campaign, ledger, totalBudget, req, overlapped, edited>>

requestVars == <<totalBudget, req, overlapped, edited>>

Requests ==
  [stage: {"reserve", "release", "status", "edit"}, campaign: Campaigns,
   amount: Nat, next: StatusWrites]

Idle == [stage |-> "idle"]

FundingTypeOK ==
  /\ TypeOK
  /\ totalBudget \in [Campaigns -> Budgets]
  /\ req \in [Handlers -> Requests \cup {Idle}]
  /\ overlapped \in [Campaigns -> BOOLEAN]
  /\ edited \subseteq Campaigns

\* createCampaign: a campaign is born PENDING_REVIEW and holds nothing.
FundingInit ==
  /\ Init
  /\ totalBudget \in [Campaigns -> Budgets]
  /\ req = [h \in Handlers |-> Idle]
  /\ overlapped = [c \in Campaigns |-> FALSE]
  /\ edited = {}

-----------------------------------------------------------------------------
(* A request reads the campaign and checks what it read *)

InFlight(h, c) == req[h] # Idle /\ req[h].campaign = c

Begin(h, c, stage, a, next) ==
  /\ req[h] = Idle
  /\ req' = [req EXCEPT ![h] = [stage |-> stage, campaign |-> c,
                                amount |-> a, next |-> next]]
  /\ overlapped' = [overlapped EXCEPT ![c] = @ \/ \E g \in Handlers : InFlight(g, c)]
  /\ UNCHANGED <<balance, wallet, campaign, ledger, totalBudget, edited>>

MutApproveActive(h, c) ==
  /\ campaign[c].status = "PENDING_REVIEW"
  /\ Begin(h, c, "status", totalBudget[c], "ACTIVE")

ApproveCampaign(h, c) ==
  /\ campaign[c].status = "PENDING_REVIEW"
  /\ Begin(h, c, "reserve", totalBudget[c], "ACTIVE")

RejectCampaign(h, c) ==
  /\ campaign[c].status = "PENDING_REVIEW"
  /\ Begin(h, c, "status", 0, "ARCHIVED")

MutArchivedResumes(next) ==
  CASE next = "PAUSED" -> {"ACTIVE"}
    [] next = "ACTIVE" -> {"PAUSED", "ARCHIVED"}
    [] next = "ARCHIVED" -> {"DRAFT", "PENDING_REVIEW", "PAUSED", "COMPLETED"}

\* CAMPAIGN_TRANSITIONS, without the moves no endpoint asks for
\* (DRAFT -> PENDING_REVIEW, ACTIVE -> COMPLETED).
AllowedFrom(next) ==
  CASE next = "PAUSED" -> {"ACTIVE"}
    [] next = "ACTIVE" -> {"PAUSED"}
    [] next = "ARCHIVED" -> {"DRAFT", "PENDING_REVIEW", "PAUSED", "COMPLETED"}

\* pauseCampaign, resumeCampaign and archiveCampaign.
TransitionCampaign(h, c, next) ==
  LET held == campaign[c].reservedAmount IN
  /\ campaign[c].status \in AllowedFrom(next)
  /\ IF next = "ARCHIVED" /\ held > 0
       THEN Begin(h, c, "release", held, next)
       ELSE Begin(h, c, "status", 0, next)

UpdateCampaign(h, c, budget) ==
  /\ campaign[c].status \in {"DRAFT", "PAUSED"}
  /\ Begin(h, c, "edit", budget, "PAUSED")

-----------------------------------------------------------------------------
(* What the request does once the database answers *)

Advance(h, stage) == req' = [req EXCEPT ![h].stage = stage]

Finish(h) == req' = [req EXCEPT ![h] = Idle]

HoldBudget(h) ==
  /\ req[h].stage = "reserve"
  /\ \E m \in MinBalances : ReserveCampaignBudget(req[h].campaign, req[h].amount, m)
  /\ Advance(h, "status")
  /\ UNCHANGED <<totalBudget, overlapped, edited>>

ReturnBudget(h) ==
  /\ req[h].stage = "release"
  /\ \E t \in Instants :
       ReleaseCampaignReservation(req[h].campaign, req[h].amount, t)
  /\ Advance(h, "status")
  /\ UNCHANGED <<totalBudget, overlapped, edited>>

\* A plausible rewrite: archiving clears the column it has just released.
MutWriteStatusClears(h) ==
  /\ req[h].stage = "status"
  /\ campaign' = [campaign EXCEPT
       ![req[h].campaign].status = req[h].next,
       ![req[h].campaign].reservedAmount = IF req[h].next = "ARCHIVED" THEN 0 ELSE @]
  /\ Finish(h)
  /\ UNCHANGED <<balance, wallet, ledger, totalBudget, overlapped, edited>>

\* campaign.update({ where: { id }, data: { status } }): nothing re-read.
WriteStatus(h) ==
  /\ req[h].stage = "status"
  /\ SetCampaignStatus(req[h].campaign, req[h].next)
  /\ Finish(h)
  /\ UNCHANGED <<totalBudget, overlapped, edited>>

WriteBudget(h) ==
  /\ req[h].stage = "edit"
  /\ totalBudget' = [totalBudget EXCEPT ![req[h].campaign] = req[h].amount]
  /\ edited' = edited \cup {req[h].campaign}
  /\ Finish(h)
  /\ UNCHANGED <<balance, wallet, campaign, ledger, overlapped>>

\* WalletManager throws and the request answers 4xx, or the process stops.
\* A request that stops after its wallet transaction leaves it half done.
Abandon(h) ==
  /\ req[h] # Idle
  /\ Finish(h)
  /\ overlapped' = [overlapped EXCEPT
       ![req[h].campaign] = @ \/ req[h].stage = "status"]
  /\ UNCHANGED <<balance, wallet, campaign, ledger, totalBudget, edited>>

-----------------------------------------------------------------------------
(* Composition *)

RequestStep ==
  \E h \in Handlers :
    \/ \E c \in Campaigns :
         \/ ApproveCampaign(h, c)
         \/ RejectCampaign(h, c)
         \/ \E next \in {"PAUSED", "ACTIVE", "ARCHIVED"} :
              TransitionCampaign(h, c, next)
         \/ \E budget \in Budgets : UpdateCampaign(h, c, budget)
    \/ HoldBudget(h)
    \/ ReturnBudget(h)
    \/ WriteStatus(h)
    \/ WriteBudget(h)
    \/ Abandon(h)

\* Payments and the billing worker run beside the requests.
DepositBeside == DepositStep /\ UNCHANGED requestVars

SpendBeside ==
  /\ \E c \in Campaigns, a \in Amounts, r \in Refs : RecordCampaignSpend(c, a, r)
  /\ UNCHANGED requestVars

FundingNext == RequestStep \/ DepositBeside \/ SpendBeside

FundingSpec == FundingInit /\ [][FundingNext]_fundingVars

-----------------------------------------------------------------------------
(* Properties *)

\* The services change money only through the ledger's own operations: every
\* step of theirs is a step of Wallet's specification, or leaves it alone.
ImplementsLedger == Spec

\* A campaign an advertiser can resume, and one that serves, was funded once: a
\* reservation of its whole budget was recorded, whichever requests raced to
\* change it.  Only an edit of a paused campaign sets the two apart afterwards:
\* it changes the budget and reserves nothing, and the campaign may resume.
WholeBudgetReserved(c) ==
  \E row \in ledger :
    /\ row.user = Owner[c] /\ row.type = "CAMPAIGN_RESERVATION" /\ row.ref = c
    /\ row.amount = totalBudget[c] \/ c \in edited

LiveIsFunded ==
  \A c \in Campaigns :
    campaign[c].status \in {"ACTIVE", "PAUSED"} => WholeBudgetReserved(c)

\* Archiving settles a campaign for good: what came back and what was spent
\* add up to the reservation, nothing is left to release or spend again, and
\* no second archive, resume or late charge changes that.  Only overlapping
\* requests, or one that died half done, bring it back to life.
RefundSettles ==
  \A c \in Campaigns, back \in ledger :
    back.type = "REFUND" /\ back.ref \in {c} \X Instants =>
      /\ campaign[c].reservedAmount = 0
      /\ \/ campaign[c].status = "ARCHIVED"
         \/ overlapped[c]
         \/ \E h \in Handlers : InFlight(h, c)
      /\ \A row \in ledger :
           row.type = "CAMPAIGN_RESERVATION" /\ row.ref = c =>
             back.amount + campaign[c].spentAmount = row.amount

\* Money is stranded on a campaign (reserved, though it is archived or still
\* waits for review) only if two of its requests overlapped or one died
\* between its wallet transaction and its status write.
StrandedOnlyByOverlap ==
  \A c \in Campaigns :
    \/ campaign[c].status \notin {"ARCHIVED", "PENDING_REVIEW"}
    \/ campaign[c].reservedAmount = 0
    \/ overlapped[c]
    \/ \E h \in Handlers : InFlight(h, c)

\* An archived campaign's money is where it belongs.
ArchivingSettles == RefundSettles /\ StrandedOnlyByOverlap
=============================================================================
