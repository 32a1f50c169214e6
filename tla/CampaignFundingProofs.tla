------------------------ MODULE CampaignFundingProofs ------------------------
(***************************************************************************)
(* The requests of CampaignFunding implement the ledger of Wallet, and a   *)
(* live campaign was funded, for every number of concurrent requests.      *)
(*                                                                         *)
(* Implementing the ledger takes more than reading the actions: a release  *)
(* carries the amount its request read before the await.  That amount is   *)
(* one WalletManager accepts because the ledger's own FundingInv bounds    *)
(* what a campaign can hold by its one reservation, so the two invariants  *)
(* are carried together.                                                   *)
(***************************************************************************)
EXTENDS CampaignFunding, WalletProofs

USE DEF Users

\* What a request in flight carries is what it read, and its next status is
\* one its checks allow.
RequestsInv ==
  \A h \in Handlers :
    /\ req[h].stage = "reserve" => req[h].amount \in Amounts
    /\ req[h].stage = "release" => req[h].amount \in Amounts /\ req[h].next = "ARCHIVED"
    /\ req[h].stage = "edit" => req[h].amount \in Budgets

CarriedInv == FundingTypeOK /\ FundingInv /\ RequestsInv

LEMMA RequestTypes ==
  ASSUME FundingTypeOK, NEW h \in Handlers, req[h] # Idle
  PROVE  /\ req[h] \in Requests
         /\ req[h].campaign \in Campaigns
         /\ req[h].next \in StatusWrites
         /\ req[h].stage # "idle"
  BY DEF FundingTypeOK, Requests, Idle

LEMMA StageMeansBusy ==
  ASSUME NEW h \in Handlers, req[h].stage # "idle"
  PROVE  req[h] # Idle
  BY DEF Idle

-----------------------------------------------------------------------------
(* What requests carry *)

\* A campaign's reservation, when there is one, is an amount of the ledger.
LEMMA HeldIsAnAmount ==
  ASSUME TypeOK, FundingInv, NEW c \in Campaigns, campaign[c].reservedAmount > 0
  PROVE  campaign[c].reservedAmount \in Amounts
<1>1. /\ campaign[c].reservedAmount \in Nat
      /\ campaign[c].spentAmount \in Nat
  BY DEF TypeOK
<1>2. Held(c) # 0 /\ campaign[c].reservedAmount <= Held(c)
  BY <1>1 DEF Held
<1>3. PICK row \in ledger : Held(c) <= row.amount
  BY <1>2 DEF FundingInv, SpendWithinReservation, Held
<1>4. row.amount \in Amounts /\ row.amount \in Nat
  BY WalletAssumption DEF TypeOK, WalletTransaction
<1>5. campaign[c].reservedAmount <= row.amount
  BY <1>1, <1>2, <1>3, <1>4 DEF Held
<1>6. campaign[c].reservedAmount \in 1..row.amount
  BY <1>1, <1>4, <1>5
<1>. QED
  BY <1>4, <1>6, FundingAssumption

\* A request that begins well typed, and carries an amount when it has to,
\* keeps the invariant.
LEMMA BeginCarries ==
  ASSUME CarriedInv, NEW h \in Handlers, NEW c \in Campaigns,
         NEW stage \in {"reserve", "release", "status", "edit"},
         NEW a \in Nat, NEW next \in StatusWrites,
         stage = "reserve" => a \in Amounts,
         stage = "release" => a \in Amounts /\ next = "ARCHIVED",
         stage = "edit" => a \in Budgets,
         Begin(h, c, stage, a, next)
  PROVE  CarriedInv'
<1>1. req' \in [Handlers -> Requests \cup {Idle}]
  BY DEF Begin, CarriedInv, FundingTypeOK, Requests
<1>2. overlapped' \in [Campaigns -> BOOLEAN]
  BY DEF Begin, CarriedInv, FundingTypeOK
<1>3. UNCHANGED walletVars /\ UNCHANGED <<totalBudget, edited>>
  BY DEF Begin, walletVars
<1>4. TypeOK' /\ FundingInv'
  BY <1>3, NextTypeOK, NextFunding DEF CarriedInv, FundingTypeOK
<1>5. RequestsInv'
  BY DEF Begin, CarriedInv, RequestsInv, FundingTypeOK
<1>. QED
  BY <1>1, <1>2, <1>3, <1>4, <1>5 DEF CarriedInv, FundingTypeOK

LEMMA BeginIsStutter ==
  ASSUME NEW h, NEW c, NEW stage, NEW a, NEW next, Begin(h, c, stage, a, next)
  PROVE  UNCHANGED walletVars
  BY DEF Begin, walletVars

\* The requests' first steps leave the ledger alone and carry what they read.
LEMMA BeginningCarries ==
  ASSUME CarriedInv, NEW h \in Handlers, NEW c \in Campaigns,
         \/ ApproveCampaign(h, c)
         \/ RejectCampaign(h, c)
         \/ \E next \in {"PAUSED", "ACTIVE", "ARCHIVED"} : TransitionCampaign(h, c, next)
         \/ \E budget \in Budgets : UpdateCampaign(h, c, budget)
  PROVE  CarriedInv' /\ UNCHANGED walletVars
<1>1. CASE ApproveCampaign(h, c)
  <2>1. totalBudget[c] \in Amounts /\ totalBudget[c] \in Nat
    BY FundingAssumption, WalletAssumption DEF CarriedInv, FundingTypeOK
  <2>. QED
    BY <1>1, <2>1, BeginCarries, BeginIsStutter, FundingAssumption DEF ApproveCampaign
<1>2. CASE RejectCampaign(h, c)
  BY <1>2, BeginCarries, BeginIsStutter, FundingAssumption DEF RejectCampaign
<1>3. ASSUME NEW next \in {"PAUSED", "ACTIVE", "ARCHIVED"}, TransitionCampaign(h, c, next)
      PROVE  CarriedInv' /\ UNCHANGED walletVars
  <2>1. next \in StatusWrites
    BY FundingAssumption
  <2>2. CASE next = "ARCHIVED" /\ campaign[c].reservedAmount > 0
    <3>1. campaign[c].reservedAmount \in Amounts /\ campaign[c].reservedAmount \in Nat
      BY <2>2, HeldIsAnAmount, WalletAssumption DEF CarriedInv, FundingTypeOK
    <3>2. Begin(h, c, "release", campaign[c].reservedAmount, next)
      BY <1>3, <2>2 DEF TransitionCampaign
    <3>. QED
      BY <2>1, <2>2, <3>1, <3>2, BeginCarries, BeginIsStutter
  <2>3. CASE ~(next = "ARCHIVED" /\ campaign[c].reservedAmount > 0)
    <3>1. Begin(h, c, "status", 0, next)
      BY <1>3, <2>3 DEF TransitionCampaign
    <3>. QED
      BY <2>1, <3>1, BeginCarries, BeginIsStutter
  <2>. QED
    BY <2>2, <2>3
<1>4. ASSUME NEW budget \in Budgets, UpdateCampaign(h, c, budget)
      PROVE  CarriedInv' /\ UNCHANGED walletVars
  <2>1. budget \in Nat
    BY FundingAssumption, WalletAssumption
  <2>. QED
    BY <1>4, <2>1, BeginCarries, BeginIsStutter, FundingAssumption DEF UpdateCampaign
<1>. QED
  BY <1>1, <1>2, <1>3, <1>4

-----------------------------------------------------------------------------
(* The later steps are steps of the ledger *)

LEMMA HoldIsLedgerStep ==
  ASSUME CarriedInv, NEW h \in Handlers, HoldBudget(h)
  PROVE  Next
<1>1. req[h].campaign \in Campaigns /\ req[h].amount \in Amounts
  BY RequestTypes, StageMeansBusy DEF HoldBudget, CarriedInv, RequestsInv
<1>. QED
  BY <1>1 DEF HoldBudget, Next, CampaignStep

LEMMA ReturnIsLedgerStep ==
  ASSUME CarriedInv, NEW h \in Handlers, ReturnBudget(h)
  PROVE  Next
<1>1. req[h].campaign \in Campaigns /\ req[h].amount \in Amounts
  BY RequestTypes, StageMeansBusy DEF ReturnBudget, CarriedInv, RequestsInv
<1>. QED
  BY <1>1 DEF ReturnBudget, Next, CampaignStep

LEMMA WriteIsLedgerStep ==
  ASSUME CarriedInv, NEW h \in Handlers, WriteStatus(h)
  PROVE  Next
<1>1. req[h].campaign \in Campaigns /\ req[h].next \in StatusWrites
  BY RequestTypes, StageMeansBusy DEF WriteStatus, CarriedInv
<1>. QED
  BY <1>1 DEF WriteStatus, Next, CampaignStep

\* A request moves on or ends: what it carries is what it carried.
LEMMA MovingOnCarries ==
  ASSUME CarriedInv, NEW h \in Handlers, req[h] # Idle,
         Advance(h, "status") \/ Finish(h),
         totalBudget' \in [Campaigns -> Budgets],
         overlapped' \in [Campaigns -> BOOLEAN],
         edited' \subseteq Campaigns,
         [Next]_walletVars
  PROVE  CarriedInv'
<1>1. TypeOK' /\ FundingInv'
  BY NextTypeOK, NextFunding DEF CarriedInv, FundingTypeOK
<1>2. req' \in [Handlers -> Requests \cup {Idle}]
  <2>1. req[h] \in Requests
    BY RequestTypes DEF CarriedInv
  <2>2. CASE Advance(h, "status")
    BY <2>1, <2>2 DEF Advance, Requests, CarriedInv, FundingTypeOK
  <2>3. CASE Finish(h)
    BY <2>3 DEF Finish, CarriedInv, FundingTypeOK
  <2>. QED
    BY <2>2, <2>3
<1>3. RequestsInv'
  <2>1. CASE Advance(h, "status")
    <3>1. req'[h].stage = "status"
      BY <2>1, RequestTypes DEF Advance, Requests, CarriedInv, FundingTypeOK
    <3>2. \A g \in Handlers \ {h} : req'[g] = req[g]
      BY <2>1 DEF Advance, CarriedInv, FundingTypeOK
    <3>. QED
      BY <3>1, <3>2 DEF CarriedInv, RequestsInv
  <2>2. CASE Finish(h)
    <3>1. req'[h].stage = "idle"
      BY <2>2 DEF Finish, Idle, CarriedInv, FundingTypeOK
    <3>2. \A g \in Handlers \ {h} : req'[g] = req[g]
      BY <2>2 DEF Finish, CarriedInv, FundingTypeOK
    <3>. QED
      BY <3>1, <3>2 DEF CarriedInv, RequestsInv
  <2>. QED
    BY <2>1, <2>2
<1>. QED
  BY <1>1, <1>2, <1>3 DEF CarriedInv, FundingTypeOK

\* Money moving beside the requests leaves what they carry alone.
LEMMA BesideCarries ==
  ASSUME CarriedInv, [Next]_walletVars, UNCHANGED requestVars
  PROVE  CarriedInv'
<1>1. TypeOK' /\ FundingInv'
  BY NextTypeOK, NextFunding DEF CarriedInv, FundingTypeOK
<1>. QED
  BY <1>1 DEF requestVars, CarriedInv, FundingTypeOK, RequestsInv

LEMMA FundingStep ==
  CarriedInv /\ [FundingNext]_fundingVars => CarriedInv' /\ [Next]_walletVars
<1>. SUFFICES ASSUME CarriedInv, [FundingNext]_fundingVars
              PROVE  CarriedInv' /\ [Next]_walletVars
  OBVIOUS
<1>. /\ totalBudget \in [Campaigns -> Budgets]
     /\ overlapped \in [Campaigns -> BOOLEAN] /\ edited \subseteq Campaigns
  BY DEF CarriedInv, FundingTypeOK
<1>1. ASSUME NEW h \in Handlers, HoldBudget(h)
      PROVE  CarriedInv' /\ [Next]_walletVars
  BY <1>1, HoldIsLedgerStep, MovingOnCarries, StageMeansBusy DEF HoldBudget
<1>2. ASSUME NEW h \in Handlers, ReturnBudget(h)
      PROVE  CarriedInv' /\ [Next]_walletVars
  BY <1>2, ReturnIsLedgerStep, MovingOnCarries, StageMeansBusy DEF ReturnBudget
<1>3. ASSUME NEW h \in Handlers, WriteStatus(h)
      PROVE  CarriedInv' /\ [Next]_walletVars
  BY <1>3, WriteIsLedgerStep, MovingOnCarries, StageMeansBusy DEF WriteStatus
<1>4. ASSUME NEW h \in Handlers, WriteBudget(h)
      PROVE  CarriedInv' /\ [Next]_walletVars
  <2>1. req[h] # Idle /\ UNCHANGED walletVars
    BY <1>4, StageMeansBusy DEF WriteBudget, walletVars
  <2>2. totalBudget' \in [Campaigns -> Budgets]
    <3>1. req[h].amount \in Budgets
      BY <1>4 DEF WriteBudget, CarriedInv, RequestsInv
    <3>. QED
      BY <1>4, <3>1 DEF WriteBudget
  <2>3. edited' \subseteq Campaigns
    BY <1>4, <2>1, RequestTypes DEF WriteBudget, CarriedInv
  <2>. QED
    BY <1>4, <2>1, <2>2, <2>3, MovingOnCarries DEF WriteBudget
<1>5. ASSUME NEW h \in Handlers, Abandon(h)
      PROVE  CarriedInv' /\ [Next]_walletVars
  <2>1. req[h] # Idle /\ Finish(h) /\ UNCHANGED walletVars /\ UNCHANGED <<totalBudget, edited>>
    BY <1>5 DEF Abandon, walletVars
  <2>2. overlapped' \in [Campaigns -> BOOLEAN]
    BY <1>5 DEF Abandon
  <2>. QED
    BY <2>1, <2>2, MovingOnCarries
<1>6. CASE RequestStep
  BY <1>1, <1>2, <1>3, <1>4, <1>5, <1>6, BeginningCarries DEF RequestStep
<1>7. CASE DepositBeside
  BY <1>7, BesideCarries DEF DepositBeside, Next
<1>8. CASE SpendBeside
  <2>1. Next
    BY <1>8 DEF SpendBeside, Next, CampaignStep
  <2>. QED
    BY <1>8, <2>1, BesideCarries DEF SpendBeside
<1>9. CASE UNCHANGED fundingVars
  BY <1>9, BesideCarries DEF fundingVars, walletVars, requestVars
<1>. QED
  BY <1>6, <1>7, <1>8, <1>9 DEF FundingNext

LEMMA InitCarries == FundingInit => CarriedInv /\ Init
<1>. SUFFICES ASSUME FundingInit
              PROVE  CarriedInv /\ Init
  OBVIOUS
<1>1. TypeOK /\ FundingInv
  BY InitTypeOK
  DEF FundingInit, Init, FundingInv, SpendWithinReservation, OwnReservations
<1>. QED
  BY <1>1 DEF FundingInit, CarriedInv, FundingTypeOK, RequestsInv, Idle

LEMMA Carried == FundingSpec => []CarriedInv
  BY InitCarries, FundingStep, PTL DEF FundingSpec

\* Requests, however many and however they interleave, never hold a value the
\* code does not expect and never drive a campaign's reservation negative.
THEOREM FundingTypesCorrect == FundingSpec => []FundingTypeOK
<1>1. CarriedInv => FundingTypeOK
  BY DEF CarriedInv
<1>. QED
  BY <1>1, Carried, PTL

\* The admin and advertiser services implement the ledger: every step of
\* theirs is one of WalletManager's, or leaves money and status alone.
THEOREM ServicesImplementLedger == FundingSpec => ImplementsLedger
<1>1. FundingInit => Init
  BY InitCarries
<1>2. CarriedInv /\ [FundingNext]_fundingVars => [Next]_walletVars
  BY FundingStep
<1>. QED
  BY <1>1, <1>2, Carried, PTL DEF FundingSpec, ImplementsLedger, Spec

-----------------------------------------------------------------------------
(* A live campaign was funded *)

Funded == {c \in Campaigns : WholeBudgetReserved(c)}

\* LiveIsFunded is not inductive: a request about to write ACTIVE or PAUSED
\* must already have seen, or made, the reservation, and one about to reserve
\* must carry the whole budget.
Ready(h) ==
  /\ req[h].stage = "status" /\ req[h].next \in {"ACTIVE", "PAUSED"} =>
       req[h].campaign \in Funded
  /\ req[h].stage = "reserve" =>
       req[h].amount = totalBudget[req[h].campaign] \/ req[h].campaign \in edited

LiveInv == LiveIsFunded /\ \A h \in Handlers : Ready(h)

\* A budget changes by an edit only, and that is remembered.
EditsOnly ==
  /\ edited \subseteq edited'
  /\ \A c \in Campaigns : totalBudget'[c] = totalBudget[c] \/ c \in edited'

LEMMA BudgetsMove ==
  ASSUME CarriedInv, [FundingNext]_fundingVars PROVE EditsOnly
<1>1. ASSUME NEW h \in Handlers, WriteBudget(h) PROVE EditsOnly
  BY <1>1 DEF WriteBudget, EditsOnly, CarriedInv, FundingTypeOK
<1>2. CASE UNCHANGED <<totalBudget, edited>>
  BY <1>2 DEF EditsOnly
<1>3. ASSUME NEW h \in Handlers, NEW c \in Campaigns,
             \/ ApproveCampaign(h, c) \/ RejectCampaign(h, c)
             \/ \E next \in {"PAUSED", "ACTIVE", "ARCHIVED"} : TransitionCampaign(h, c, next)
             \/ \E budget \in Budgets : UpdateCampaign(h, c, budget)
      PROVE  UNCHANGED <<totalBudget, edited>>
  BY <1>3 DEF ApproveCampaign, RejectCampaign, TransitionCampaign, UpdateCampaign, Begin
<1>4. ASSUME NEW h \in Handlers,
             HoldBudget(h) \/ ReturnBudget(h) \/ WriteStatus(h) \/ Abandon(h)
      PROVE  UNCHANGED <<totalBudget, edited>>
  BY <1>4 DEF HoldBudget, ReturnBudget, WriteStatus, Abandon
<1>5. CASE DepositBeside \/ SpendBeside \/ UNCHANGED fundingVars
  BY <1>2, <1>5 DEF DepositBeside, SpendBeside, requestVars, fundingVars
<1>6. CASE RequestStep
  BY <1>1, <1>2, <1>3, <1>4, <1>6 DEF RequestStep
<1>. QED
  BY <1>5, <1>6 DEF FundingNext

\* Rows are only ever added to the ledger.
LEMMA LedgerGrows ==
  ASSUME [Next]_walletVars
  PROVE  ledger \subseteq ledger'
<1>1. ASSUME NEW u, NEW type, NEW a, NEW r, RecordTransaction(u, type, a, r)
      PROVE  ledger \subseteq ledger'
  BY <1>1 DEF RecordTransaction, AddRow
<1>2. CASE DepositStep
  BY <1>1, <1>2 DEF DepositStep, Deposit
<1>3. CASE CampaignStep
  <2>1. ASSUME NEW c \in Campaigns, NEW s \in StatusWrites, SetCampaignStatus(c, s)
        PROVE  ledger \subseteq ledger'
    BY <2>1 DEF SetCampaignStatus
  <2>2. ASSUME NEW c \in Campaigns, NEW a \in Amounts, NEW m \in MinBalances,
               ReserveCampaignBudget(c, a, m)
        PROVE  ledger \subseteq ledger'
    BY <1>1, <2>2 DEF ReserveCampaignBudget
  <2>3. ASSUME NEW c \in Campaigns, NEW a \in Amounts, NEW t \in Instants,
               ReleaseCampaignReservation(c, a, t)
        PROVE  ledger \subseteq ledger'
    BY <1>1, <2>3 DEF ReleaseCampaignReservation
  <2>4. ASSUME NEW c \in Campaigns, NEW a \in Amounts, NEW r \in Refs,
               RecordCampaignSpend(c, a, r)
        PROVE  ledger \subseteq ledger'
    BY <1>1, <2>4 DEF RecordCampaignSpend
  <2>. QED
    BY <1>3, <2>1, <2>2, <2>3, <2>4 DEF CampaignStep
<1>4. CASE PublisherStep
  <2>1. ASSUME NEW u \in Publishers, NEW a \in Amounts, NEW r \in Refs,
               NEW immediate \in BOOLEAN, CreditPublisherEarning(u, a, r, immediate)
        PROVE  ledger \subseteq ledger'
    BY <1>1, <2>1 DEF CreditPublisherEarning
  <2>. QED
    BY <1>4, <2>1 DEF PublisherStep, PromotePendingEarnings
<1>5. CASE UNCHANGED walletVars
  BY <1>5 DEF walletVars
<1>. QED
  BY <1>2, <1>3, <1>4, <1>5 DEF Next

\* So a campaign once funded stays funded.
LEMMA FundedForGood ==
  ASSUME [Next]_walletVars, EditsOnly
  PROVE  Funded \subseteq Funded'
  BY LedgerGrows DEF Funded, WholeBudgetReserved, EditsOnly

\* A step that makes no campaign live, and no request about to, keeps LiveInv.
LEMMA NothingGoesLive ==
  ASSUME LiveInv, [Next]_walletVars, EditsOnly, req \in [Handlers -> Requests \cup {Idle}],
         \A c \in Campaigns : campaign'[c].status = campaign[c].status,
         \A h \in Handlers : req'[h] = req[h] \/ Ready(h)'
  PROVE  LiveInv'
<1>1. LiveIsFunded'
  BY FundedForGood DEF LiveInv, LiveIsFunded, Funded
<1>2. ASSUME NEW h \in Handlers, req'[h] = req[h] PROVE Ready(h)'
  <2>1. req[h].stage = "reserve" => req[h].campaign \in Campaigns
    BY DEF Requests, Idle
  <2>. QED
    BY <1>2, <2>1, FundedForGood DEF LiveInv, Ready, EditsOnly
<1>. QED
  BY <1>1, <1>2 DEF LiveInv

LEMMA LiveStep ==
  CarriedInv /\ LiveInv /\ [FundingNext]_fundingVars => LiveInv'
<1>. SUFFICES ASSUME CarriedInv, LiveInv, [FundingNext]_fundingVars
              PROVE  LiveInv'
  OBVIOUS
<1>1. [Next]_walletVars /\ EditsOnly /\ req \in [Handlers -> Requests \cup {Idle}]
  BY FundingStep, BudgetsMove DEF CarriedInv, FundingTypeOK
<1>. HIDE DEF FundingNext
<1>2. ASSUME NEW h \in Handlers, NEW c \in Campaigns, NEW stage, NEW a, NEW next,
             Begin(h, c, stage, a, next),
             stage = "status" /\ next \in {"ACTIVE", "PAUSED"} => c \in Funded,
             stage = "reserve" => a = totalBudget[c]
      PROVE  LiveInv'
  <2>1. UNCHANGED walletVars /\ UNCHANGED <<totalBudget, edited>> /\ Funded' = Funded
    BY <1>2, BeginIsStutter DEF Begin, walletVars, Funded, WholeBudgetReserved
  <2>2. \A d \in Campaigns : campaign'[d].status = campaign[d].status
    BY <2>1 DEF walletVars
  <2>3. req' = [req EXCEPT ![h] = [stage |-> stage, campaign |-> c,
                                   amount |-> a, next |-> next]]
    BY <1>2 DEF Begin
  <2>4. req'[h] = [stage |-> stage, campaign |-> c, amount |-> a, next |-> next]
    BY <1>1, <2>3
  <2>5. \A g \in Handlers \ {h} : req'[g] = req[g]
    BY <1>1, <2>3
  <2>6. Ready(h)'
    BY <1>2, <2>1, <2>4 DEF Ready
  <2>. QED
    BY <1>1, <2>2, <2>5, <2>6, NothingGoesLive
<1>3. ASSUME NEW h \in Handlers, NEW c \in Campaigns,
             \/ ApproveCampaign(h, c)
             \/ RejectCampaign(h, c)
             \/ \E next \in {"PAUSED", "ACTIVE", "ARCHIVED"} : TransitionCampaign(h, c, next)
             \/ \E budget \in Budgets : UpdateCampaign(h, c, budget)
      PROVE  LiveInv'
  <2>1. ASSUME NEW next \in {"PAUSED", "ACTIVE", "ARCHIVED"},
               TransitionCampaign(h, c, next)
        PROVE  LiveInv'
    <3>1. next \in {"ACTIVE", "PAUSED"} => c \in Funded
      BY <2>1 DEF TransitionCampaign, AllowedFrom, LiveInv, LiveIsFunded, Funded
    <3>. QED
      BY <1>2, <2>1, <3>1 DEF TransitionCampaign
  <2>. QED
    BY <1>2, <1>3, <2>1 DEF ApproveCampaign, RejectCampaign, UpdateCampaign
<1>4. ASSUME NEW h \in Handlers, HoldBudget(h)
      PROVE  LiveInv'
  <2>1. req[h].campaign \in Funded'
    <3>. DEFINE c == req[h].campaign
                new == [user |-> Owner[c], type |-> "CAMPAIGN_RESERVATION",
                        ref |-> c, amount |-> req[h].amount]
    <3>1. c \in Campaigns
      BY <1>4, RequestTypes, StageMeansBusy DEF HoldBudget, CarriedInv
    <3>2. new \in ledger'
      BY <1>4 DEF HoldBudget, ReserveCampaignBudget, RecordTransaction, AddRow
    <3>3. /\ new.user = Owner[c] /\ new.type = "CAMPAIGN_RESERVATION" /\ new.ref = c
          /\ new.amount = req[h].amount
      OBVIOUS
    <3>4. req[h].amount = totalBudget'[c] \/ c \in edited'
      BY <1>4 DEF HoldBudget, LiveInv, Ready
    <3>. HIDE DEF new, c
    <3>. QED
      BY <3>1, <3>2, <3>3, <3>4 DEF Funded, WholeBudgetReserved, c
  <2>2. req' = [req EXCEPT ![h].stage = "status"] /\ req[h] \in Requests
    BY <1>1, <1>4 DEF HoldBudget, Advance, Idle
  <2>3. Ready(h)'
    <3>1. req'[h].campaign = req[h].campaign /\ req'[h].stage = "status"
      BY <1>1, <2>2 DEF Requests
    <3>. QED
      BY <2>1, <3>1 DEF Ready
  <2>4. \A g \in Handlers \ {h} : req'[g] = req[g]
    BY <1>1, <2>2
  <2>5. \A c \in Campaigns : campaign'[c].status = campaign[c].status
    BY <1>4 DEF HoldBudget, ReserveCampaignBudget, CarriedInv, FundingTypeOK, TypeOK
  <2>. QED
    BY <1>1, <2>3, <2>4, <2>5, NothingGoesLive
<1>5. ASSUME NEW h \in Handlers, ReturnBudget(h)
      PROVE  LiveInv'
  <2>1. req' = [req EXCEPT ![h].stage = "status"] /\ req[h] \in Requests
    BY <1>1, <1>5 DEF ReturnBudget, Advance, Idle
  <2>2. Ready(h)'
    <3>1. req'[h].next = "ARCHIVED" /\ req'[h].stage = "status"
      BY <1>1, <1>5, <2>1 DEF ReturnBudget, CarriedInv, RequestsInv, Requests
    <3>. QED
      BY <3>1 DEF Ready
  <2>3. \A g \in Handlers \ {h} : req'[g] = req[g]
    BY <1>1, <2>1
  <2>4. \A c \in Campaigns : campaign'[c].status = campaign[c].status
    BY <1>5 DEF ReturnBudget, ReleaseCampaignReservation, CarriedInv, FundingTypeOK, TypeOK
  <2>. QED
    BY <1>1, <2>2, <2>3, <2>4, NothingGoesLive
<1>6. ASSUME NEW h \in Handlers, Finish(h),
             \A c \in Campaigns : campaign'[c].status = campaign[c].status
      PROVE  LiveInv'
  <2>1. req'[h].stage = "idle" /\ \A g \in Handlers \ {h} : req'[g] = req[g]
    BY <1>1, <1>6 DEF Finish, Idle
  <2>2. Ready(h)'
    BY <2>1 DEF Ready
  <2>. QED
    BY <1>1, <1>6, <2>1, <2>2, NothingGoesLive
<1>7. ASSUME NEW h \in Handlers, WriteStatus(h)
      PROVE  LiveInv'
  <2>. DEFINE c == req[h].campaign
  <2>1. c \in Campaigns
    BY <1>7, RequestTypes, StageMeansBusy DEF WriteStatus, CarriedInv
  <2>2. /\ campaign'[c].status = req[h].next
        /\ \A d \in Campaigns \ {c} : campaign'[d] = campaign[d]
    BY <1>7, <2>1 DEF WriteStatus, SetCampaignStatus, CarriedInv, FundingTypeOK, TypeOK
  <2>3. req[h].next \in {"ACTIVE", "PAUSED"} => c \in Funded
    BY <1>7 DEF WriteStatus, LiveInv, Ready
  <2>4. LiveIsFunded'
    BY <1>1, <2>2, <2>3, FundedForGood DEF LiveInv, LiveIsFunded, Funded
  <2>5. req'[h].stage = "idle" /\ \A g \in Handlers \ {h} : req'[g] = req[g]
    BY <1>1, <1>7 DEF WriteStatus, Finish, Idle
  <2>6. \A g \in Handlers : Ready(g)'
    <3>1. UNCHANGED <<totalBudget, edited>>
      BY <1>7 DEF WriteStatus
    <3>. QED
      BY <1>1, <2>5, <3>1, FundedForGood DEF LiveInv, Ready
  <2>. QED
    BY <2>4, <2>6 DEF LiveInv
<1>8. CASE RequestStep
  BY <1>3, <1>4, <1>5, <1>6, <1>7, <1>8 DEF RequestStep, WriteBudget, Abandon
<1>9. CASE DepositBeside
  BY <1>1, <1>9, NothingGoesLive DEF DepositBeside, DepositStep, Deposit, requestVars
<1>10. CASE SpendBeside
  <2>1. \A c \in Campaigns : campaign'[c].status = campaign[c].status
    BY <1>10 DEF SpendBeside, RecordCampaignSpend, CarriedInv, FundingTypeOK, TypeOK
  <2>. QED
    BY <1>1, <1>10, <2>1, NothingGoesLive DEF SpendBeside, requestVars
<1>11. CASE UNCHANGED fundingVars
  BY <1>1, <1>11, NothingGoesLive DEF fundingVars
<1>. QED
  BY <1>8, <1>9, <1>10, <1>11 DEF FundingNext

\* No race between requests lets a campaign serve, or be resumed, whose whole
\* budget was not reserved: approval alone makes one live, after reserving what
\* it read.  Only an edit changes the budget afterwards.
THEOREM LiveCampaignsAreFunded == FundingSpec => []LiveIsFunded
<1>1. FundingInit => LiveInv
  BY DEF FundingInit, Init, LiveInv, LiveIsFunded, Ready, Idle
<1>2. LiveInv => LiveIsFunded
  BY DEF LiveInv
<1>. QED
  BY <1>1, <1>2, LiveStep, Carried, PTL DEF FundingSpec

-----------------------------------------------------------------------------
(* Archiving settles a campaign *)

Reservations(c) == {row \in ledger : IsReservationOf(row, c)}

Refunds(c) ==
  {row \in ledger : row.type = "REFUND" /\ row.ref \in {c} \X Instants}

\* What is left of a campaign's one reservation: all of it held or spent until
\* it is released, and then nothing held.
BooksBalance(c) ==
  /\ \A row \in Reservations(c) :
       IF Refunds(c) = {}
         THEN Held(c) = row.amount
         ELSE /\ campaign[c].reservedAmount = 0
              /\ \A back \in Refunds(c) : back.amount + campaign[c].spentAmount = row.amount
  /\ Reservations(c) = {} => Refunds(c) = {} /\ Held(c) = 0

\* A release asks for what its campaign held when it was read; since then the
\* campaign can only have spent, so that the release takes all or nothing.
ReleaseTakesAll(h) ==
  LET c == req[h].campaign IN
  req[h].stage = "release" =>
    Reservations(c) # {} /\ campaign[c].reservedAmount <= req[h].amount

AllowedNext(h) ==
  req[h] # Idle =>
    /\ req[h].next \in {"ACTIVE", "PAUSED", "ARCHIVED"}
    /\ req[h].stage = "reserve" => req[h].next = "ACTIVE"

Writing(h, c, status) ==
  InFlight(h, c) /\ req[h].stage = "status" /\ req[h].next = status

\* While no two requests of a campaign overlapped, it has one at a time, and
\* that one alone decides what becomes of the campaign's money.
OneAtATime(c) ==
  /\ \A g, h \in Handlers : InFlight(g, c) /\ InFlight(h, c) => g = h
  /\ campaign[c].status = "ARCHIVED" =>
       campaign[c].reservedAmount = 0 /\ \A h \in Handlers : ~InFlight(h, c)
  /\ campaign[c].status = "PENDING_REVIEW" =>
       \/ campaign[c].reservedAmount = 0
       \/ \E h \in Handlers : Writing(h, c, "ACTIVE")
  /\ Refunds(c) # {} =>
       \/ campaign[c].status = "ARCHIVED"
       \/ \E h \in Handlers : Writing(h, c, "ARCHIVED")
  /\ \A h \in Handlers :
       Writing(h, c, "ARCHIVED") => campaign[c].reservedAmount = 0

SettleInv ==
  /\ \A c \in Campaigns : BooksBalance(c) /\ (overlapped[c] \/ OneAtATime(c))
  /\ \A h \in Handlers : ReleaseTakesAll(h) /\ AllowedNext(h)

LEMMA FundingColumns ==
  ASSUME TypeOK, NEW c \in Campaigns
  PROVE  /\ campaign[c].reservedAmount \in Nat
         /\ campaign[c].spentAmount \in Nat
         /\ campaign[c].status \in CampaignStatus
  BY DEF TypeOK

\* A row that neither reserves nor refunds is no campaign's business.
LEMMA OtherRow ==
  ASSUME NEW u, NEW type, NEW a, NEW r, RecordTransaction(u, type, a, r),
         type \notin {"CAMPAIGN_RESERVATION", "REFUND"}, NEW c
  PROVE  Reservations(c)' = Reservations(c) /\ Refunds(c)' = Refunds(c)
<1>. DEFINE new == [user |-> u, type |-> type, ref |-> r, amount |-> a]
<1>1. ledger' = ledger \cup {new} /\ new.type = type
  BY DEF RecordTransaction, AddRow
<1>. HIDE DEF new
<1>. QED
  BY <1>1 DEF Reservations, IsReservationOf, Refunds

LEMMA SameBooks ==
  ASSUME NEW c, BooksBalance(c),
         Reservations(c)' = Reservations(c), Refunds(c)' = Refunds(c),
         campaign'[c].reservedAmount = campaign[c].reservedAmount,
         campaign'[c].spentAmount = campaign[c].spentAmount
  PROVE  BooksBalance(c)'
<1>1. Held(c)' = Held(c)
  BY DEF Held
<1>. QED
  BY <1>1 DEF BooksBalance

LEMMA HoldBooks ==
  ASSUME TypeOK, OwnReservations, \A d \in Campaigns : BooksBalance(d),
         NEW c \in Campaigns, NEW a \in Amounts, NEW m, ReserveCampaignBudget(c, a, m)
  PROVE  /\ \A d \in Campaigns : BooksBalance(d)' /\ Refunds(d)' = Refunds(d)
         /\ Reservations(c) = {}
         /\ campaign'[c].status = campaign[c].status
         /\ \A d \in Campaigns \ {c} : campaign'[d] = campaign[d]
<1>. DEFINE new == [user |-> Owner[c], type |-> "CAMPAIGN_RESERVATION", ref |-> c,
                    amount |-> a]
<1>1. /\ ledger' = ledger \cup {new}
      /\ ~Recorded(Owner[c], "CAMPAIGN_RESERVATION", c)
      /\ campaign' = [campaign EXCEPT ![c].reservedAmount = @ + a]
  BY DEF ReserveCampaignBudget, RecordTransaction, AddRow
<1>2. new.type = "CAMPAIGN_RESERVATION" /\ new.ref = c /\ new.amount = a
  OBVIOUS
<1>. HIDE DEF new
<1>3. Reservations(c) = {}
  BY <1>1 DEF Reservations, OwnReservations, IsReservationOf, Recorded
<1>4. Refunds(c) = {} /\ Held(c) = 0
  BY <1>3 DEF BooksBalance
<1>5. \A d \in Campaigns : Refunds(d)' = Refunds(d)
  BY <1>1, <1>2 DEF Refunds
<1>6. /\ campaign'[c].reservedAmount = campaign[c].reservedAmount + a
      /\ campaign'[c].spentAmount = campaign[c].spentAmount
      /\ campaign'[c].status = campaign[c].status
      /\ \A d \in Campaigns \ {c} : campaign'[d] = campaign[d]
  BY <1>1 DEF TypeOK
<1>7. \A d \in Campaigns \ {c} : Reservations(d)' = Reservations(d)
  BY <1>1, <1>2 DEF Reservations, IsReservationOf
<1>8. \A d \in Campaigns \ {c} : BooksBalance(d)'
  BY <1>5, <1>6, <1>7, SameBooks
<1>9. BooksBalance(c)'
  <2>1. Reservations(c)' = {new}
    BY <1>1, <1>2, <1>3 DEF Reservations, IsReservationOf
  <2>2. Held(c)' = a
    BY <1>4, <1>6, FundingColumns, WalletAssumption DEF Held
  <2>. QED
    BY <1>2, <1>4, <1>5, <2>1, <2>2 DEF BooksBalance
<1>. QED
  BY <1>3, <1>5, <1>6, <1>8, <1>9

\* A release that asks for at least what is held takes all of it.
LEMMA ReturnBooks ==
  ASSUME TypeOK, \A d \in Campaigns : BooksBalance(d),
         NEW c \in Campaigns, NEW a \in Amounts, NEW t \in Instants,
         Reservations(c) # {}, campaign[c].reservedAmount <= a,
         ReleaseCampaignReservation(c, a, t)
  PROVE  /\ \A d \in Campaigns : BooksBalance(d)' /\ Reservations(d)' = Reservations(d)
         /\ campaign'[c].reservedAmount = 0
         /\ campaign'[c].status = campaign[c].status
         /\ \A d \in Campaigns \ {c} : campaign'[d] = campaign[d] /\ Refunds(d)' = Refunds(d)
<1>. DEFINE new == [user |-> Owner[c], type |-> "REFUND", ref |-> <<c, t>>, amount |-> a]
<1>1. /\ ledger' = ledger \cup {new}
      /\ campaign[c].reservedAmount >= a
      /\ campaign' = [campaign EXCEPT ![c].reservedAmount = @ - a]
  BY DEF ReleaseCampaignReservation, RecordTransaction, AddRow
<1>2. new.type = "REFUND" /\ new.ref = <<c, t>> /\ new.amount = a
  OBVIOUS
<1>. HIDE DEF new
<1>3. a \in Nat /\ a > 0
  BY WalletAssumption
<1>4. campaign[c].reservedAmount = a
  BY <1>1, <1>3, FundingColumns
<1>5. /\ campaign'[c].reservedAmount = 0
      /\ campaign'[c].spentAmount = campaign[c].spentAmount
      /\ campaign'[c].status = campaign[c].status
      /\ \A d \in Campaigns \ {c} : campaign'[d] = campaign[d]
  BY <1>1, <1>3, <1>4 DEF TypeOK
<1>6. \A d \in Campaigns : Reservations(d)' = Reservations(d)
  BY <1>1, <1>2 DEF Reservations, IsReservationOf
<1>7. \A d \in Campaigns \ {c} : Refunds(d)' = Refunds(d)
  BY <1>1, <1>2 DEF Refunds
<1>8. \A d \in Campaigns \ {c} : BooksBalance(d)'
  BY <1>5, <1>6, <1>7, SameBooks
<1>9. BooksBalance(c)'
  <2>0. campaign[c].reservedAmount # 0
    BY <1>3, <1>4
  <2>1. Refunds(c) = {}
    BY <2>0 DEF BooksBalance
  <2>2. Refunds(c)' = {new}
    <3>1. new.ref \in {c} \X Instants
      BY <1>2
    <3>2. Refunds(c)' = Refunds(c) \cup {new}
      BY <1>1, <1>2, <3>1 DEF Refunds
    <3>. QED
      BY <2>1, <3>2
  <2>3. \A row \in Reservations(c) : a + campaign[c].spentAmount = row.amount
    BY <1>4, <2>1 DEF BooksBalance, Held
  <2>. QED
    BY <1>2, <1>5, <1>6, <2>2, <2>3 DEF BooksBalance
<1>. QED
  BY <1>5, <1>6, <1>7, <1>8, <1>9

LEMMA SpendBooks ==
  ASSUME TypeOK, \A d \in Campaigns : BooksBalance(d),
         NEW c \in Campaigns, NEW a \in Amounts, NEW r, RecordCampaignSpend(c, a, r)
  PROVE  \A d \in Campaigns :
           /\ BooksBalance(d)'
           /\ Reservations(d)' = Reservations(d)
           /\ Refunds(d)' = Refunds(d)
           /\ campaign'[d].status = campaign[d].status
           /\ campaign'[d].reservedAmount \in Nat
           /\ campaign'[d].reservedAmount <= campaign[d].reservedAmount
<1>1. /\ RecordTransaction(Owner[c], "AD_SPEND", a, r)
      /\ campaign[c].reservedAmount >= a
      /\ campaign' = [campaign EXCEPT ![c].reservedAmount = @ - a, ![c].spentAmount = @ + a]
  BY DEF RecordCampaignSpend
<1>2. a \in Nat /\ a > 0
  BY WalletAssumption
<1>3. /\ campaign'[c].reservedAmount = campaign[c].reservedAmount - a
      /\ campaign'[c].spentAmount = campaign[c].spentAmount + a
      /\ campaign'[c].status = campaign[c].status
      /\ \A d \in Campaigns \ {c} : campaign'[d] = campaign[d]
  BY <1>1 DEF TypeOK
<1>4. \A d \in Campaigns : Reservations(d)' = Reservations(d) /\ Refunds(d)' = Refunds(d)
  BY <1>1, OtherRow
<1>5. \A d \in Campaigns \ {c} : BooksBalance(d)'
  BY <1>3, <1>4, SameBooks
<1>6. BooksBalance(c)'
  <2>1. Held(c)' = Held(c) /\ Held(c) # 0 /\ campaign[c].reservedAmount # 0
    BY <1>1, <1>2, <1>3, FundingColumns DEF Held
  <2>2. Reservations(c) # {}
    BY <2>1 DEF BooksBalance
  <2>3. Refunds(c) = {}
    BY <2>1, <2>2 DEF BooksBalance
  <2>. QED
    BY <1>4, <2>1, <2>2, <2>3 DEF BooksBalance
<1>7. \A d \in Campaigns : /\ campaign'[d].reservedAmount \in Nat
                           /\ campaign'[d].reservedAmount <= campaign[d].reservedAmount
  <2>1. \A d \in Campaigns : campaign[d].reservedAmount \in Nat
    BY FundingColumns
  <2>2. /\ campaign'[c].reservedAmount \in Nat
        /\ campaign'[c].reservedAmount <= campaign[c].reservedAmount
    BY <1>1, <1>2, <1>3, <2>1
  <2>. QED
    BY <1>3, <2>1, <2>2
<1>. QED
  BY <1>3, <1>4, <1>5, <1>6, <1>7

-----------------------------------------------------------------------------
(* One request at a time *)

\* What other requests, and spending, do leaves a campaign's own one at a time.
LEMMA NotThisCampaign ==
  ASSUME TypeOK, NEW d \in Campaigns, OneAtATime(d),
         \A g \in Handlers : \/ req'[g] = req[g]
                             \/ ~InFlight(g, d) /\ ~InFlight(g, d)',
         campaign'[d].status = campaign[d].status,
         campaign'[d].reservedAmount \in Nat,
         campaign'[d].reservedAmount <= campaign[d].reservedAmount,
         Refunds(d)' = Refunds(d)
  PROVE  OneAtATime(d)'
<1>1. \A g \in Handlers : InFlight(g, d)' <=> InFlight(g, d)
  BY DEF InFlight
<1>2. \A g \in Handlers : \A s : Writing(g, d, s)' <=> Writing(g, d, s)
  BY <1>1 DEF Writing
<1>3. campaign[d].reservedAmount = 0 => campaign'[d].reservedAmount = 0
  OBVIOUS
<1>. QED
  BY <1>1, <1>2, <1>3 DEF OneAtATime

\* Of a campaign's requests, the one in flight is alone while none overlapped,
\* and no money was refunded before it.
LEMMA AloneInFlight ==
  ASSUME NEW c \in Campaigns, NEW h \in Handlers, OneAtATime(c), InFlight(h, c)
  PROVE  /\ \A g \in Handlers \ {h} : ~InFlight(g, c)
         /\ campaign[c].status # "ARCHIVED"
         /\ Refunds(c) # {} => Writing(h, c, "ARCHIVED")
         /\ campaign[c].status = "PENDING_REVIEW" =>
              campaign[c].reservedAmount = 0 \/ Writing(h, c, "ACTIVE")
         /\ Writing(h, c, "ARCHIVED") => campaign[c].reservedAmount = 0
<1>1. \A g \in Handlers : InFlight(g, c) => g = h
  BY DEF OneAtATime
<1>2. campaign[c].status # "ARCHIVED"
  BY DEF OneAtATime
<1>3. \A g \in Handlers : \A s : Writing(g, c, s) => g = h
  BY <1>1 DEF Writing
<1>. QED
  BY <1>1, <1>2, <1>3 DEF OneAtATime

LEMMA BeginSettles ==
  ASSUME CarriedInv, SettleInv, NEW h \in Handlers, NEW c \in Campaigns,
         NEW stage, NEW a, NEW next \in {"ACTIVE", "PAUSED", "ARCHIVED"},
         Begin(h, c, stage, a, next),
         campaign[c].status # "ARCHIVED",
         stage = "reserve" => next = "ACTIVE",
         stage = "release" => campaign[c].reservedAmount > 0
                              /\ campaign[c].reservedAmount = a,
         stage = "status" /\ next = "ARCHIVED" =>
           campaign[c].reservedAmount = 0 \/ campaign[c].status = "PENDING_REVIEW"
  PROVE  SettleInv'
<1>1. UNCHANGED walletVars
  BY BeginIsStutter
<1>2. /\ ledger' = ledger /\ campaign' = campaign
      /\ \A d : /\ Reservations(d)' = Reservations(d)
                /\ Refunds(d)' = Refunds(d)
                /\ BooksBalance(d)' = BooksBalance(d)
  BY <1>1 DEF walletVars, Reservations, Refunds, BooksBalance, Held
<1>3. /\ req'[h] = [stage |-> stage, campaign |-> c, amount |-> a, next |-> next]
      /\ \A g \in Handlers \ {h} : req'[g] = req[g]
      /\ req[h] = Idle
  BY DEF Begin, CarriedInv, FundingTypeOK
<1>4. /\ req'[h].stage = stage /\ req'[h].campaign = c
      /\ req'[h].amount = a /\ req'[h].next = next
  BY <1>3
<1>5. \A g \in Handlers : AllowedNext(g)'
  BY <1>3, <1>4 DEF SettleInv, AllowedNext
<1>6. \A g \in Handlers : ReleaseTakesAll(g)'
  <2>1. ReleaseTakesAll(h)'
    <3>1. campaign[c].reservedAmount > 0 => Held(c) # 0
      BY FundingColumns DEF CarriedInv, FundingTypeOK, Held
    <3>2. campaign[c].reservedAmount > 0 => Reservations(c) # {}
      BY <3>1 DEF SettleInv, BooksBalance
    <3>3. stage = "release" => campaign[c].reservedAmount <= a
      BY FundingColumns DEF CarriedInv, FundingTypeOK
    <3>. QED
      BY <1>2, <1>4, <3>2, <3>3 DEF ReleaseTakesAll
  <2>2. \A g \in Handlers \ {h} : ReleaseTakesAll(g)'
    BY <1>2, <1>3 DEF SettleInv, ReleaseTakesAll
  <2>. QED
    BY <2>1, <2>2
<1>7. ASSUME NEW d \in Campaigns, d # c
      PROVE  overlapped'[d] \/ OneAtATime(d)'
  <2>1. overlapped'[d] = overlapped[d]
    BY <1>7 DEF Begin, CarriedInv, FundingTypeOK
  <2>2. ~InFlight(h, d) /\ ~InFlight(h, d)'
    BY <1>3, <1>4, <1>7 DEF InFlight
  <2>3. campaign'[d].reservedAmount \in Nat
        /\ campaign'[d].reservedAmount <= campaign[d].reservedAmount
    BY <1>2, FundingColumns DEF CarriedInv, FundingTypeOK
  <2>4. \A g \in Handlers : \/ req'[g] = req[g]
                            \/ ~InFlight(g, d) /\ ~InFlight(g, d)'
    BY <1>3, <2>2
  <2>5. OneAtATime(d) => OneAtATime(d)'
    <3>1. TypeOK /\ Refunds(d)' = Refunds(d) /\ campaign'[d].status = campaign[d].status
      BY <1>2 DEF CarriedInv, FundingTypeOK
    <3>. QED
      BY <2>3, <2>4, <3>1, NotThisCampaign
  <2>. QED
    BY <2>1, <2>5 DEF SettleInv
<1>8. ASSUME ~overlapped'[c]
      PROVE  OneAtATime(c)'
  <2>1. ~overlapped[c] /\ \A g \in Handlers : ~InFlight(g, c)
    BY <1>8 DEF Begin, CarriedInv, FundingTypeOK
  <2>2. OneAtATime(c)
    BY <2>1 DEF SettleInv
  <2>3. \A g \in Handlers : \A s : ~Writing(g, c, s)
    BY <2>1 DEF Writing
  <2>4. /\ Refunds(c) = {}
        /\ campaign[c].status = "PENDING_REVIEW" => campaign[c].reservedAmount = 0
    BY <2>2, <2>3 DEF OneAtATime
  <2>5. \A g \in Handlers \ {h} : ~InFlight(g, c)'
    BY <1>3, <2>1 DEF InFlight
  <2>6. \A g \in Handlers : Writing(g, c, "ARCHIVED")' => campaign[c].reservedAmount = 0
    <3>1. Writing(h, c, "ARCHIVED")' => stage = "status" /\ next = "ARCHIVED"
      BY <1>4 DEF Writing
    <3>2. \A g \in Handlers \ {h} : ~Writing(g, c, "ARCHIVED")'
      BY <2>5 DEF Writing
    <3>. QED
      BY <2>4, <3>1, <3>2
  <2>. QED
    BY <1>2, <2>4, <2>5, <2>6 DEF OneAtATime
<1>. QED
  BY <1>2, <1>5, <1>6, <1>7, <1>8 DEF SettleInv

LEMMA BeginningSettles ==
  ASSUME CarriedInv, SettleInv, NEW h \in Handlers, NEW c \in Campaigns,
         \/ ApproveCampaign(h, c)
         \/ RejectCampaign(h, c)
         \/ \E next \in {"PAUSED", "ACTIVE", "ARCHIVED"} : TransitionCampaign(h, c, next)
         \/ \E budget \in Budgets : UpdateCampaign(h, c, budget)
  PROVE  SettleInv'
<1>1. CASE ApproveCampaign(h, c)
  BY <1>1, BeginSettles DEF ApproveCampaign
<1>2. CASE RejectCampaign(h, c)
  BY <1>2, BeginSettles DEF RejectCampaign
<1>3. ASSUME NEW next \in {"PAUSED", "ACTIVE", "ARCHIVED"}, TransitionCampaign(h, c, next)
      PROVE  SettleInv'
  <2>1. campaign[c].status # "ARCHIVED"
    BY <1>3 DEF TransitionCampaign, AllowedFrom
  <2>2. CASE next = "ARCHIVED" /\ campaign[c].reservedAmount > 0
    <3>1. Begin(h, c, "release", campaign[c].reservedAmount, next)
      BY <1>3, <2>2 DEF TransitionCampaign
    <3>. QED
      BY <2>1, <2>2, <3>1, BeginSettles
  <2>3. CASE ~(next = "ARCHIVED" /\ campaign[c].reservedAmount > 0)
    <3>1. Begin(h, c, "status", 0, next)
      BY <1>3, <2>3 DEF TransitionCampaign
    <3>2. next = "ARCHIVED" => campaign[c].reservedAmount = 0
      BY <2>3, FundingColumns DEF CarriedInv, FundingTypeOK
    <3>. QED
      BY <2>1, <3>1, <3>2, BeginSettles
  <2>. QED
    BY <2>2, <2>3
<1>4. ASSUME NEW budget \in Budgets, UpdateCampaign(h, c, budget)
      PROVE  SettleInv'
  BY <1>4, BeginSettles DEF UpdateCampaign
<1>. QED
  BY <1>1, <1>2, <1>3, <1>4

\* What a request's later step does to req.
LEMMA RequestMoves ==
  ASSUME CarriedInv, NEW h \in Handlers, req[h] # Idle
  PROVE  /\ Advance(h, "status") =>
              /\ req'[h].stage = "status" /\ req'[h] # Idle
              /\ req'[h].campaign = req[h].campaign
              /\ req'[h].next = req[h].next
         /\ Finish(h) => req'[h] = Idle
         /\ Advance(h, "status") \/ Finish(h) =>
              \A g \in Handlers \ {h} : req'[g] = req[g]
<1>1. req[h] \in Requests /\ req \in [Handlers -> Requests \cup {Idle}]
  BY RequestTypes DEF CarriedInv, FundingTypeOK
<1>2. ASSUME Advance(h, "status")
      PROVE  /\ req'[h].stage = "status" /\ req'[h] # Idle
             /\ req'[h].campaign = req[h].campaign
             /\ req'[h].next = req[h].next
  <2>1. req'[h] = [req[h] EXCEPT !.stage = "status"]
    BY <1>1, <1>2 DEF Advance
  <2>. QED
    BY <1>1, <2>1 DEF Requests, Idle
<1>3. Finish(h) => req'[h] = Idle
  BY <1>1 DEF Finish
<1>4. Advance(h, "status") \/ Finish(h) => \A g \in Handlers \ {h} : req'[g] = req[g]
  BY <1>1 DEF Advance, Finish
<1>. QED
  BY <1>2, <1>3, <1>4

\* A step of one request keeps what the others carry and every other campaign.
LEMMA OthersUndisturbed ==
  ASSUME CarriedInv, SettleInv, NEW h \in Handlers, req[h] # Idle,
         Advance(h, "status") \/ Finish(h),
         \A d \in Campaigns \ {req[h].campaign} :
           /\ Refunds(d)' = Refunds(d)
           /\ campaign'[d] = campaign[d]
           /\ overlapped'[d] = overlapped[d],
         \A d \in Campaigns : /\ Reservations(d) \subseteq Reservations(d)'
                              /\ Reservations(d) # {} =>
                                   campaign'[d].reservedAmount <= campaign[d].reservedAmount
                              /\ campaign'[d].reservedAmount \in Nat
  PROVE  /\ \A g \in Handlers : ReleaseTakesAll(g)' /\ AllowedNext(g)'
         /\ \A d \in Campaigns \ {req[h].campaign} : overlapped'[d] \/ OneAtATime(d)'
<1>1. \A g \in Handlers \ {h} : req'[g] = req[g]
  BY RequestMoves
<1>2. ReleaseTakesAll(h)' /\ AllowedNext(h)'
  <2>1. CASE Advance(h, "status")
    BY <2>1, RequestMoves DEF SettleInv, ReleaseTakesAll, AllowedNext
  <2>2. CASE Finish(h)
    BY <2>2, RequestMoves DEF ReleaseTakesAll, AllowedNext, Idle
  <2>. QED
    BY <2>1, <2>2
<1>3. ASSUME NEW g \in Handlers \ {h}
      PROVE  ReleaseTakesAll(g)' /\ AllowedNext(g)'
  <2>1. AllowedNext(g)'
    BY <1>1, <1>3 DEF SettleInv, AllowedNext
  <2>2. ASSUME req[g].stage = "release"
        PROVE  ReleaseTakesAll(g)'
    <3>1. PICK d \in Campaigns : d = req[g].campaign
      BY <1>3, <2>2, RequestTypes, StageMeansBusy DEF CarriedInv
    <3>2. Reservations(d) # {} /\ campaign[d].reservedAmount <= req[g].amount
      BY <1>3, <2>2, <3>1 DEF SettleInv, ReleaseTakesAll
    <3>3. req[g].amount \in Nat /\ campaign[d].reservedAmount \in Nat
      BY <1>3, <2>2, WalletAssumption, FundingColumns
      DEF CarriedInv, FundingTypeOK, RequestsInv
    <3>4. Reservations(d)' # {} /\ campaign'[d].reservedAmount <= req[g].amount
      BY <3>2, <3>3
    <3>5. d = req'[g].campaign /\ req'[g] = req[g]
      BY <1>1, <1>3, <3>1
    <3>. QED
      BY <3>4, <3>5 DEF ReleaseTakesAll
  <2>3. req[g].stage # "release" => ReleaseTakesAll(g)'
    BY <1>1, <1>3 DEF ReleaseTakesAll
  <2>. QED
    BY <2>1, <2>2, <2>3
<1>4. ASSUME NEW d \in Campaigns \ {req[h].campaign}
      PROVE  overlapped'[d] \/ OneAtATime(d)'
  <2>1. ~InFlight(h, d) /\ ~InFlight(h, d)'
    BY <1>4, RequestMoves DEF InFlight
  <2>2. \A g \in Handlers : \/ req'[g] = req[g]
                            \/ ~InFlight(g, d) /\ ~InFlight(g, d)'
    BY <1>1, <2>1
  <2>3. campaign'[d].reservedAmount \in Nat
        /\ campaign'[d].reservedAmount <= campaign[d].reservedAmount
    BY <1>4, FundingColumns DEF CarriedInv, FundingTypeOK
  <2>4. OneAtATime(d) => OneAtATime(d)'
    <3>1. TypeOK
      BY DEF CarriedInv, FundingTypeOK
    <3>. QED
      BY <1>4, <2>2, <2>3, <3>1, NotThisCampaign
  <2>. QED
    BY <1>4, <2>4 DEF SettleInv
<1>. QED
  BY <1>2, <1>3, <1>4

\* The request's own campaign, when it is still the only request in flight.
LEMMA OwnSettles ==
  ASSUME CarriedInv, SettleInv, NEW h \in Handlers, NEW c \in Campaigns,
         InFlight(h, c), Advance(h, "status") \/ Finish(h),
         OneAtATime(c),
         Advance(h, "status") =>
           /\ req[h].next = "ARCHIVED" =>
                campaign'[c].reservedAmount = 0
           /\ Refunds(c)' # {} => req[h].next = "ARCHIVED"
           /\ campaign'[c].status # "ARCHIVED"
           /\ campaign'[c].status = "PENDING_REVIEW" =>
                campaign'[c].reservedAmount = 0 \/ req[h].next = "ACTIVE",
         Finish(h) =>
           /\ campaign'[c].status \in {"ARCHIVED", "PENDING_REVIEW"} =>
                campaign'[c].reservedAmount = 0
           /\ Refunds(c)' # {} => campaign'[c].status = "ARCHIVED"
  PROVE  OneAtATime(c)'
<1>1. /\ \A g \in Handlers \ {h} : req'[g] = req[g] /\ ~InFlight(g, c)
      /\ req[h] # Idle
  BY RequestMoves, AloneInFlight DEF InFlight
<1>2. \A g \in Handlers \ {h} : ~InFlight(g, c)'
  BY <1>1 DEF InFlight
<1>3. \A g \in Handlers \ {h} : \A s : ~Writing(g, c, s)'
  BY <1>2 DEF Writing
<1>4. CASE Advance(h, "status")
  <2>1. \A s : Writing(h, c, s)' <=> req[h].next = s
    BY <1>1, <1>4, RequestMoves DEF Writing, InFlight
  <2>. QED
    BY <1>2, <1>3, <1>4, <2>1 DEF OneAtATime
<1>5. CASE Finish(h)
  <2>1. ~InFlight(h, c)' /\ \A s : ~Writing(h, c, s)'
    BY <1>1, <1>5, RequestMoves DEF Writing, InFlight
  <2>. QED
    BY <1>2, <1>3, <1>5, <2>1 DEF OneAtATime
<1>. QED
  BY <1>4, <1>5

LEMMA HoldSettles ==
  ASSUME CarriedInv, SettleInv, NEW h \in Handlers, HoldBudget(h)
  PROVE  SettleInv'
<1>1. PICK c \in Campaigns : c = req[h].campaign
  BY RequestTypes, StageMeansBusy DEF HoldBudget, CarriedInv
<1>2. /\ req[h].stage = "reserve" /\ req[h].amount \in Amounts /\ Advance(h, "status")
      /\ req[h] # Idle /\ overlapped' = overlapped
  BY StageMeansBusy DEF HoldBudget, CarriedInv, RequestsInv
<1>3. PICK m \in MinBalances : ReserveCampaignBudget(c, req[h].amount, m)
  BY <1>1 DEF HoldBudget
<1>4. /\ \A d \in Campaigns : BooksBalance(d)' /\ Refunds(d)' = Refunds(d)
      /\ Reservations(c) = {}
      /\ campaign'[c].status = campaign[c].status
      /\ \A d \in Campaigns \ {c} : campaign'[d] = campaign[d]
  BY <1>2, <1>3, HoldBooks DEF SettleInv, CarriedInv, FundingTypeOK, FundingInv
<1>5. \A d \in Campaigns : Reservations(d) \subseteq Reservations(d)'
  <2>1. [Next]_walletVars
    BY HoldIsLedgerStep
  <2>. QED
    BY <2>1, LedgerGrows DEF Reservations, IsReservationOf
<1>6. \A d \in Campaigns : campaign'[d].reservedAmount \in Nat
  <2>1. TypeOK'
    BY HoldIsLedgerStep, NextTypeOK DEF CarriedInv, FundingTypeOK
  <2>. QED
    BY <2>1 DEF TypeOK
<1>7. \A d \in Campaigns : Reservations(d) # {} =>
        campaign'[d].reservedAmount <= campaign[d].reservedAmount
  BY <1>4, FundingColumns DEF CarriedInv, FundingTypeOK
<1>8. /\ \A g \in Handlers : ReleaseTakesAll(g)' /\ AllowedNext(g)'
      /\ \A d \in Campaigns \ {c} : overlapped'[d] \/ OneAtATime(d)'
  BY <1>1, <1>2, <1>4, <1>5, <1>6, <1>7, OthersUndisturbed
<1>9. ASSUME OneAtATime(c)
      PROVE  OneAtATime(c)'
  <2>1. InFlight(h, c) /\ req[h].next = "ACTIVE"
    BY <1>1, <1>2 DEF InFlight, SettleInv, AllowedNext
  <2>2. Refunds(c) = {} /\ campaign[c].status # "ARCHIVED"
    BY <1>2, <1>9, <2>1, AloneInFlight DEF Writing
  <2>3. ~Finish(h)
    BY <1>2, RequestMoves
  <2>. QED
    BY <1>2, <1>4, <1>9, <2>1, <2>2, <2>3, OwnSettles
<1>. QED
  BY <1>2, <1>4, <1>8, <1>9 DEF SettleInv

LEMMA ReturnSettles ==
  ASSUME CarriedInv, SettleInv, NEW h \in Handlers, ReturnBudget(h)
  PROVE  SettleInv'
<1>1. PICK c \in Campaigns : c = req[h].campaign
  BY RequestTypes, StageMeansBusy DEF ReturnBudget, CarriedInv
<1>2. /\ req[h].stage = "release" /\ req[h].amount \in Amounts /\ Advance(h, "status")
      /\ req[h] # Idle /\ overlapped' = overlapped /\ req[h].next = "ARCHIVED"
  BY StageMeansBusy DEF ReturnBudget, CarriedInv, RequestsInv
<1>3. PICK t \in Instants : ReleaseCampaignReservation(c, req[h].amount, t)
  BY <1>1 DEF ReturnBudget
<1>4. Reservations(c) # {} /\ campaign[c].reservedAmount <= req[h].amount
  BY <1>1, <1>2 DEF SettleInv, ReleaseTakesAll
<1>5. /\ \A d \in Campaigns : BooksBalance(d)' /\ Reservations(d)' = Reservations(d)
      /\ campaign'[c].reservedAmount = 0
      /\ campaign'[c].status = campaign[c].status
      /\ \A d \in Campaigns \ {c} : campaign'[d] = campaign[d] /\ Refunds(d)' = Refunds(d)
  BY <1>2, <1>3, <1>4, ReturnBooks DEF SettleInv, CarriedInv, FundingTypeOK
<1>6. \A d \in Campaigns : /\ campaign'[d].reservedAmount \in Nat
                           /\ campaign'[d].reservedAmount <= campaign[d].reservedAmount
  BY <1>5, FundingColumns DEF CarriedInv, FundingTypeOK
<1>7. /\ \A g \in Handlers : ReleaseTakesAll(g)' /\ AllowedNext(g)'
      /\ \A d \in Campaigns \ {c} : overlapped'[d] \/ OneAtATime(d)'
  BY <1>1, <1>2, <1>5, <1>6, OthersUndisturbed
<1>8. ASSUME OneAtATime(c)
      PROVE  OneAtATime(c)'
  <2>1. InFlight(h, c)
    BY <1>1, <1>2 DEF InFlight
  <2>2. campaign[c].status # "ARCHIVED"
    BY <1>8, <2>1, AloneInFlight
  <2>3. ~Finish(h)
    BY <1>2, RequestMoves
  <2>. QED
    BY <1>2, <1>5, <1>8, <2>1, <2>2, <2>3, OwnSettles
<1>. QED
  BY <1>2, <1>5, <1>7, <1>8 DEF SettleInv

LEMMA StatusSettles ==
  ASSUME CarriedInv, SettleInv, NEW h \in Handlers, WriteStatus(h)
  PROVE  SettleInv'
<1>1. PICK c \in Campaigns : c = req[h].campaign
  BY RequestTypes, StageMeansBusy DEF WriteStatus, CarriedInv
<1>2. /\ req[h].stage = "status" /\ Finish(h) /\ req[h] # Idle
      /\ overlapped' = overlapped /\ ledger' = ledger
      /\ campaign' = [campaign EXCEPT ![c].status = req[h].next]
      /\ req[h].next \in {"ACTIVE", "PAUSED", "ARCHIVED"}
  BY <1>1, StageMeansBusy DEF WriteStatus, SetCampaignStatus, SettleInv, AllowedNext
<1>3. /\ campaign'[c].status = req[h].next
      /\ campaign'[c].reservedAmount = campaign[c].reservedAmount
      /\ campaign'[c].spentAmount = campaign[c].spentAmount
      /\ \A d \in Campaigns \ {c} : campaign'[d] = campaign[d]
  BY <1>2 DEF CarriedInv, FundingTypeOK, TypeOK
<1>4. \A d \in Campaigns : Reservations(d)' = Reservations(d) /\ Refunds(d)' = Refunds(d)
  BY <1>2 DEF Reservations, Refunds
<1>5. \A d \in Campaigns : BooksBalance(d)'
  BY <1>3, <1>4, SameBooks DEF SettleInv
<1>6. \A d \in Campaigns : /\ campaign'[d].reservedAmount \in Nat
                           /\ campaign'[d].reservedAmount <= campaign[d].reservedAmount
  BY <1>3, FundingColumns DEF CarriedInv, FundingTypeOK
<1>7. /\ \A g \in Handlers : ReleaseTakesAll(g)' /\ AllowedNext(g)'
      /\ \A d \in Campaigns \ {c} : overlapped'[d] \/ OneAtATime(d)'
  BY <1>1, <1>2, <1>3, <1>4, <1>6, OthersUndisturbed
<1>8. ASSUME OneAtATime(c)
      PROVE  OneAtATime(c)'
  <2>1. InFlight(h, c) /\ \A s : Writing(h, c, s) <=> req[h].next = s
    BY <1>1, <1>2 DEF InFlight, Writing
  <2>2. /\ Refunds(c) # {} => req[h].next = "ARCHIVED"
        /\ req[h].next = "ARCHIVED" => campaign[c].reservedAmount = 0
    BY <1>8, <2>1, AloneInFlight
  <2>3. ~Advance(h, "status")
    BY <1>2, RequestMoves
  <2>. QED
    BY <1>2, <1>3, <1>4, <1>8, <2>1, <2>2, <2>3, OwnSettles
<1>. QED
  BY <1>2, <1>5, <1>7, <1>8 DEF SettleInv

\* A request that ends and leaves its campaign as it was, unless it ends half done.
LEMMA EndingSettles ==
  ASSUME CarriedInv, SettleInv, NEW h \in Handlers, req[h] # Idle, Finish(h),
         campaign' = campaign, ledger' = ledger,
         \A d \in Campaigns : \/ overlapped'[d] = overlapped[d]
                              \/ d = req[h].campaign /\ overlapped'[d],
         req[h].stage = "status" => overlapped'[req[h].campaign]
  PROVE  SettleInv'
<1>1. PICK c \in Campaigns : c = req[h].campaign
  BY RequestTypes DEF CarriedInv
<1>2. \A d \in Campaigns : Reservations(d)' = Reservations(d) /\ Refunds(d)' = Refunds(d)
  BY DEF Reservations, Refunds
<1>3. \A d \in Campaigns : BooksBalance(d)'
  BY <1>2, SameBooks DEF SettleInv
<1>4. \A d \in Campaigns : /\ campaign'[d].reservedAmount \in Nat
                           /\ campaign'[d].reservedAmount <= campaign[d].reservedAmount
  BY FundingColumns DEF CarriedInv, FundingTypeOK
<1>5. /\ \A g \in Handlers : ReleaseTakesAll(g)' /\ AllowedNext(g)'
      /\ \A d \in Campaigns \ {c} : overlapped'[d] \/ OneAtATime(d)'
  BY <1>1, <1>2, <1>4, OthersUndisturbed
<1>6. ASSUME ~overlapped'[c]
      PROVE  OneAtATime(c)'
  <2>1. InFlight(h, c) /\ req[h].stage # "status" /\ OneAtATime(c)
    BY <1>1, <1>6 DEF InFlight, SettleInv
  <2>2. /\ Refunds(c) = {}
        /\ campaign[c].status # "ARCHIVED"
        /\ campaign[c].status = "PENDING_REVIEW" => campaign[c].reservedAmount = 0
    BY <2>1, AloneInFlight DEF Writing
  <2>3. ~Advance(h, "status")
    BY RequestMoves
  <2>. QED
    BY <1>2, <2>1, <2>2, <2>3, OwnSettles
<1>. QED
  BY <1>3, <1>5, <1>6 DEF SettleInv

\* Money moving beside the requests settles nothing and strands nothing.
LEMMA BesideSettles ==
  ASSUME CarriedInv, SettleInv, UNCHANGED requestVars,
         \A d \in Campaigns :
           /\ BooksBalance(d)'
           /\ Reservations(d)' = Reservations(d)
           /\ Refunds(d)' = Refunds(d)
           /\ campaign'[d].status = campaign[d].status
           /\ campaign'[d].reservedAmount \in Nat
           /\ campaign'[d].reservedAmount <= campaign[d].reservedAmount
  PROVE  SettleInv'
<1>1. req' = req /\ overlapped' = overlapped
  BY DEF requestVars
<1>2. ASSUME NEW d \in Campaigns
      PROVE  overlapped'[d] \/ OneAtATime(d)'
  <2>1. OneAtATime(d) => OneAtATime(d)'
    <3>1. TypeOK
      BY DEF CarriedInv, FundingTypeOK
    <3>. QED
      BY <1>1, <3>1, NotThisCampaign
  <2>. QED
    BY <1>1, <2>1 DEF SettleInv
<1>3. ASSUME NEW g \in Handlers
      PROVE  ReleaseTakesAll(g)' /\ AllowedNext(g)'
  <2>1. AllowedNext(g)'
    BY <1>1 DEF SettleInv, AllowedNext
  <2>2. ASSUME req[g].stage = "release"
        PROVE  ReleaseTakesAll(g)'
    <3>1. PICK d \in Campaigns : d = req[g].campaign
      BY <2>2, RequestTypes, StageMeansBusy DEF CarriedInv
    <3>2. Reservations(d) # {} /\ campaign[d].reservedAmount <= req[g].amount
      BY <2>2, <3>1 DEF SettleInv, ReleaseTakesAll
    <3>3. req[g].amount \in Nat /\ campaign[d].reservedAmount \in Nat
      BY <2>2, WalletAssumption, FundingColumns DEF CarriedInv, FundingTypeOK, RequestsInv
    <3>4. Reservations(d)' # {} /\ campaign'[d].reservedAmount <= req[g].amount
      BY <3>2, <3>3
    <3>. QED
      BY <1>1, <3>1, <3>4 DEF ReleaseTakesAll
  <2>3. req[g].stage # "release" => ReleaseTakesAll(g)'
    BY <1>1 DEF ReleaseTakesAll
  <2>. QED
    BY <2>1, <2>2, <2>3
<1>. QED
  BY <1>2, <1>3 DEF SettleInv

LEMMA SettleStep ==
  CarriedInv /\ SettleInv /\ [FundingNext]_fundingVars => SettleInv'
<1>. SUFFICES ASSUME CarriedInv, SettleInv, [FundingNext]_fundingVars
              PROVE  SettleInv'
  OBVIOUS
<1>1. ASSUME NEW h \in Handlers, WriteBudget(h)
      PROVE  SettleInv'
  BY <1>1, StageMeansBusy, EndingSettles DEF WriteBudget
<1>2. ASSUME NEW h \in Handlers, Abandon(h)
      PROVE  SettleInv'
  <2>1. PICK c \in Campaigns : c = req[h].campaign
    BY <1>2, RequestTypes DEF Abandon, CarriedInv
  <2>2. /\ \A d \in Campaigns : \/ overlapped'[d] = overlapped[d]
                                \/ d = req[h].campaign /\ overlapped'[d]
        /\ req[h].stage = "status" => overlapped'[c]
    BY <1>2, <2>1 DEF Abandon, CarriedInv, FundingTypeOK
  <2>. QED
    BY <1>2, <2>1, <2>2, EndingSettles DEF Abandon
<1>3. CASE RequestStep
  BY <1>1, <1>2, <1>3, BeginningSettles, HoldSettles, ReturnSettles, StatusSettles
  DEF RequestStep
<1>4. ASSUME campaign' = campaign,
             \A d : Reservations(d)' = Reservations(d) /\ Refunds(d)' = Refunds(d),
             UNCHANGED requestVars
      PROVE  SettleInv'
  <2>1. \A d \in Campaigns : BooksBalance(d)'
    BY <1>4, SameBooks DEF SettleInv
  <2>2. \A d \in Campaigns : campaign[d].reservedAmount \in Nat
    BY FundingColumns DEF CarriedInv, FundingTypeOK
  <2>3. \A d \in Campaigns : campaign'[d].reservedAmount \in Nat
                             /\ campaign'[d].reservedAmount <= campaign[d].reservedAmount
    BY <1>4, <2>2
  <2>. QED
    BY <1>4, <2>1, <2>3, BesideSettles
<1>5. CASE DepositBeside
  <2>1. PICK u \in Users, a \in Amounts, r \in Refs : Deposit(u, a, r)
    BY <1>5 DEF DepositBeside, DepositStep
  <2>2. RecordTransaction(u, "DEPOSIT", a, r) /\ campaign' = campaign
    BY <2>1 DEF Deposit
  <2>3. \A d : Reservations(d)' = Reservations(d) /\ Refunds(d)' = Refunds(d)
    BY <2>2, OtherRow
  <2>. QED
    BY <1>4, <1>5, <2>2, <2>3 DEF DepositBeside
<1>6. CASE SpendBeside
  <2>1. PICK c \in Campaigns, a \in Amounts, r \in Refs : RecordCampaignSpend(c, a, r)
    BY <1>6 DEF SpendBeside
  <2>2. \A d \in Campaigns :
          /\ BooksBalance(d)'
          /\ Reservations(d)' = Reservations(d)
          /\ Refunds(d)' = Refunds(d)
          /\ campaign'[d].status = campaign[d].status
          /\ campaign'[d].reservedAmount \in Nat
          /\ campaign'[d].reservedAmount <= campaign[d].reservedAmount
    BY <2>1, SpendBooks DEF CarriedInv, FundingTypeOK, SettleInv
  <2>. QED
    BY <1>6, <2>2, BesideSettles DEF SpendBeside
<1>7. CASE UNCHANGED fundingVars
  <2>1. /\ campaign' = campaign /\ ledger' = ledger /\ UNCHANGED requestVars
    BY <1>7 DEF fundingVars, requestVars
  <2>2. \A d : Reservations(d)' = Reservations(d) /\ Refunds(d)' = Refunds(d)
    BY <2>1 DEF Reservations, Refunds
  <2>. QED
    BY <1>4, <2>1, <2>2
<1>. QED
  BY <1>3, <1>5, <1>6, <1>7 DEF FundingNext

LEMMA InitSettles == FundingInit => SettleInv
<1>. SUFFICES ASSUME FundingInit
              PROVE  SettleInv
  OBVIOUS
<1>1. /\ ledger = {} /\ \A h \in Handlers : req[h] = Idle
      /\ \A c \in Campaigns : /\ campaign[c].status = "PENDING_REVIEW"
                              /\ campaign[c].reservedAmount = 0
                              /\ campaign[c].spentAmount = 0
  BY DEF FundingInit, Init
<1>2. \A c : Reservations(c) = {} /\ Refunds(c) = {}
  BY <1>1 DEF Reservations, Refunds
<1>3. \A c \in Campaigns : BooksBalance(c)
  BY <1>1, <1>2 DEF BooksBalance, Held
<1>4. \A c \in Campaigns : OneAtATime(c)
  BY <1>1, <1>2 DEF OneAtATime, InFlight, Writing
<1>5. \A h \in Handlers : ReleaseTakesAll(h) /\ AllowedNext(h)
  BY <1>1 DEF ReleaseTakesAll, AllowedNext, Idle
<1>. QED
  BY <1>3, <1>4, <1>5 DEF SettleInv

LEMMA SettledMeans == SettleInv => ArchivingSettles
<1>. SUFFICES ASSUME SettleInv
              PROVE  ArchivingSettles
  OBVIOUS
<1>1. RefundSettles
  <2>. SUFFICES ASSUME NEW c \in Campaigns, NEW back \in ledger,
                       back.type = "REFUND", back.ref \in {c} \X Instants
                PROVE  /\ campaign[c].reservedAmount = 0
                       /\ \/ campaign[c].status = "ARCHIVED"
                          \/ overlapped[c]
                          \/ \E h \in Handlers : InFlight(h, c)
                       /\ \A row \in ledger :
                            row.type = "CAMPAIGN_RESERVATION" /\ row.ref = c =>
                              back.amount + campaign[c].spentAmount = row.amount
    BY DEF RefundSettles
  <2>1. back \in Refunds(c)
    BY DEF Refunds
  <2>2. BooksBalance(c) /\ (overlapped[c] \/ OneAtATime(c))
    BY DEF SettleInv
  <2>3. Reservations(c) # {}
    BY <2>1, <2>2 DEF BooksBalance
  <2>4. /\ campaign[c].reservedAmount = 0
        /\ \A row \in Reservations(c) : back.amount + campaign[c].spentAmount = row.amount
    BY <2>1, <2>2, <2>3 DEF BooksBalance
  <2>5. \/ campaign[c].status = "ARCHIVED"
        \/ overlapped[c]
        \/ \E h \in Handlers : InFlight(h, c)
    BY <2>1, <2>2 DEF OneAtATime, Writing
  <2>. QED
    BY <2>4, <2>5 DEF Reservations, IsReservationOf
<1>2. StrandedOnlyByOverlap
  BY DEF SettleInv, OneAtATime, Writing, StrandedOnlyByOverlap
<1>. QED
  BY <1>1, <1>2 DEF ArchivingSettles

\* However many requests race, archiving returns exactly what a campaign had
\* not spent, once and for all; and no money stays behind on an archived or
\* unreviewed campaign unless two of its requests overlapped or one died
\* between its wallet transaction and its status write.
THEOREM ArchivingIsFinal == FundingSpec => []ArchivingSettles
  BY InitSettles, SettleStep, SettledMeans, Carried, PTL DEF FundingSpec
=============================================================================
