------------------------------- MODULE Billing -------------------------------
(***************************************************************************)
(* From delivered events to money: the click and impression streams, the   *)
(* two ingestion workers that read them, AdBillingService,                 *)
(* CpmBillingService and the CPA postbacks of ConversionTrackingService,   *)
(* over the ledger of Wallet.tla.                                          *)
(*                                                                         *)
(* A worker reads a batch (XREAD), bills it message by message, inserts it *)
(* into ClickHouse, and only then deletes it from the stream (XDEL).  An   *)
(* error or a restart anywhere before that makes it read the same messages *)
(* again.  A click's id is its ledger reference; impressions are counted   *)
(* in Redis and every BatchSize-th one bills a numbered batch.             *)
(***************************************************************************)
EXTENDS Wallet, SequencesExt

CONSTANTS
  Clicks, Impressions, Conversions,  \* stream message ids and AdClick ids
  CampaignOf,   \* CampaignOf[x]: the campaign event x belongs to
  PublisherOf,  \* PublisherOf[x]: the publisher of the zone x came from
  Price,        \* Price[x]: a click's cost, an impression's maxCpm, or maxCpa
  Unique,       \* impressions flagged uniquePublisherImpression
  BatchSize,    \* IMPRESSIONS_PER_CPM_BATCH
  FeeBps,       \* values of PlatformSetting.platformFeeBps
  Budget,       \* what every campaign has reserved at the start
  MaxRetries    \* bound: batches that fail and are read again

Messages == Clicks \cup Impressions
Channels == {"clicks", "impressions"}
ChannelOf(m) == IF m \in Clicks THEN "clicks" ELSE "impressions"

ChargeRef(c, n) == <<"cpm", c, n>>           \* `cpm:${c}:batch:${n}`
ShareRef(c, n) == <<"cpm unique", c, n>>     \* `cpm:${c}:unique-batch:${n}`

BatchRefs == {"cpm", "cpm unique"} \X Campaigns \X Nat

\* publisherShareOf: the share after the platform's cut, rounded half up.
PublisherShare(a, bps) == (a * (10000 - bps) + 5000) \div 10000

\* Event ids, `conversion:` references, batch references and campaign ids are
\* strings of different forms; a share is an amount, or rounds to nothing.
ASSUME BillingAssumption ==
  /\ Clicks \cup Conversions \subseteq Refs
  /\ Clicks \cap Conversions = {}
  /\ \A x \in Clicks \cup Conversions \cup Campaigns : x \notin BatchRefs
  /\ CampaignOf \in [Messages \cup Conversions -> Campaigns]
  /\ PublisherOf \in [Messages \cup Conversions -> Publishers]
  /\ Price \in [Messages \cup Conversions -> Amounts]
  /\ Unique \subseteq Impressions
  /\ BatchSize \in Nat \ {0}
  /\ FeeBps \subseteq 0..10000
  /\ \A x \in Messages \cup Conversions : \A bps \in FeeBps :
       PublisherShare(Price[x], bps) \in Amounts \cup {0}
  /\ Budget \in Amounts
  /\ MaxRetries \in Nat
  /\ IsFiniteSet(Publishers)

VARIABLES
  published,   \* events /serve and /click have sent so far
  stream,      \* stream[ch]: the messages not deleted yet, oldest first
  worker,      \* worker[ch]: where the channel's only reader is in its batch
  counter,     \* counter[k][c]: Redis' "raw" and "unique" counts of campaign c
  conversion,  \* conversion[x]: AdClick.convertedAt and the postback serving it
  retries,     \* bound
  dropped      \* history: charged, but the publisher's credit was not reached

billingVars ==
  <<balance, wallet, campaign, ledger, published, stream, worker, counter,
    conversion, retries, dropped>>

Waiting == [stage |-> "read", batch |-> <<>>, todo |-> <<>>, n |-> 0]

BillingTypeOK ==
  /\ TypeOK
  /\ published \subseteq Messages
  /\ \A ch \in Channels : Range(stream[ch]) \subseteq published
  /\ \A ch \in Channels :
       /\ worker[ch].stage \in {"read", "count", "charge", "unique", "share", "flush"}
       /\ worker[ch].n \in Nat
       /\ IsSuffix(worker[ch].todo, worker[ch].batch)
       /\ IsPrefix(worker[ch].batch, stream[ch])
  /\ counter \in [{"raw", "unique"} -> [Campaigns -> Nat]]
  /\ conversion \in [Conversions -> {"clicked", "charge", "share", "done"}]
  /\ retries \in 0..MaxRetries
  /\ dropped \subseteq Clicks \cup Conversions

\* Every campaign is live: its budget was deposited and reserved.
BillingInit ==
  /\ balance = [u \in Users |-> 0]
  /\ wallet = [u \in Users |->
       LET total == Budget * Cardinality({c \in Campaigns : Owner[c] = u})
       IN [EmptyWallet EXCEPT !.reservedBalance = total, !.totalDeposited = total]]
  /\ campaign = [c \in Campaigns |-> [status |-> "ACTIVE",
                                      reservedAmount |-> Budget, spentAmount |-> 0]]
  /\ ledger = UNION {{[user |-> Owner[c], type |-> type, ref |-> c, amount |-> Budget] :
                         type \in {"DEPOSIT", "CAMPAIGN_RESERVATION"}} : c \in Campaigns}
  /\ published = {}
  /\ stream = [ch \in Channels |-> <<>>]
  /\ worker = [ch \in Channels |-> Waiting]
  /\ counter = [k \in {"raw", "unique"} |-> [c \in Campaigns |-> 0]]
  /\ conversion = [x \in Conversions |-> "clicked"]
  /\ retries = 0
  /\ dropped = {}

-----------------------------------------------------------------------------
(* Helpers *)

Charge(x, r) == RecordCampaignSpend(CampaignOf[x], Price[x], r)

\* creditPublisherShare: a share that rounds to nothing is not credited.
Share(x, r) ==
  \E bps \in FeeBps :
    LET share == PublisherShare(Price[x], bps) IN
    IF share = 0 THEN UNCHANGED walletVars
    ELSE CreditPublisherEarning(PublisherOf[x], share, r, FALSE)

\* Every error of a charge or a credit is logged and swallowed: a duplicate, a
\* campaign paused or out of funds, a zone that is gone, a failed transaction.
Swallowed == UNCHANGED walletVars

FirstStage(m) == IF m \in Clicks THEN "charge" ELSE "count"

\* The next message of the batch, or the end of its billing.
Advance(ch) ==
  LET rest == Tail(worker[ch].todo) IN
  worker' = [worker EXCEPT
    ![ch].todo = rest, ![ch].n = 0,
    ![ch].stage = IF rest = <<>> THEN "flush" ELSE FirstStage(Head(rest))]

Goto(ch, stage, n) == worker' = [worker EXCEPT ![ch].stage = stage, ![ch].n = n]

At(ch, stage, m) ==
  worker[ch].stage = stage /\ worker[ch].todo # <<>> /\ Head(worker[ch].todo) = m

-----------------------------------------------------------------------------
(* The streams and the batch loop *)

\* XADD, fire and forget: an event whose publish fails is never published.
Publish(m) ==
  /\ m \notin published
  /\ published' = published \cup {m}
  /\ stream' = [stream EXCEPT ![ChannelOf(m)] = Append(@, m)]
  /\ UNCHANGED <<walletVars, worker, counter, conversion, retries, dropped>>

ReadBatch(ch) ==
  /\ worker[ch].stage = "read"
  /\ stream[ch] # <<>>
  /\ worker' = [worker EXCEPT ![ch] = [stage |-> FirstStage(Head(stream[ch])),
                                       batch |-> stream[ch], todo |-> stream[ch],
                                       n |-> 0]]
  /\ UNCHANGED <<walletVars, published, stream, counter, conversion, retries, dropped>>

MutAckNothing(ch) ==
  /\ worker[ch].stage = "flush"
  /\ worker' = [worker EXCEPT ![ch] = Waiting]
  /\ UNCHANGED <<walletVars, published, stream, counter, conversion, retries, dropped>>

\* flush, then acknowledge: XDEL of the whole batch.
Acknowledge(ch) ==
  /\ worker[ch].stage = "flush"
  /\ stream' = [stream EXCEPT ![ch] = SubSeq(@, Len(worker[ch].batch) + 1, Len(@))]
  /\ worker' = [worker EXCEPT ![ch] = Waiting]
  /\ UNCHANGED <<walletVars, published, counter, conversion, retries, dropped>>

\* The insert, the XDEL or a lookup throws, or the process restarts (with its
\* cursor back at 0-0): nothing was deleted, so the batch is read again.
BatchFails(ch) ==
  /\ worker[ch].stage # "read"
  /\ retries < MaxRetries
  /\ retries' = retries + 1
  /\ worker' = [worker EXCEPT ![ch] = Waiting]
  /\ dropped' = IF ch = "clicks" /\ worker[ch].stage = "share"
                  THEN dropped \cup {Head(worker[ch].todo)} ELSE dropped
  /\ UNCHANGED <<walletVars, published, stream, counter, conversion>>

-----------------------------------------------------------------------------
(* billClick: charge the advertiser, then credit the publisher *)

\* For a mutant: the zone is looked up after the charge.
MutChargeThenLookUp(m) ==
  /\ At("clicks", "charge", m)
  /\ \/ Charge(m, m) /\ (Goto("clicks", "share", 0) \/ Advance("clicks"))
     \/ Swallowed /\ Advance("clicks")
  /\ UNCHANGED <<published, stream, counter, conversion, retries, dropped>>

\* A click that cannot be charged is passed over, publisher's share included.
ChargeClick(m) ==
  /\ At("clicks", "charge", m)
  /\ \/ Charge(m, m) /\ Goto("clicks", "share", 0)
     \/ Swallowed /\ Advance("clicks")
  /\ UNCHANGED <<published, stream, counter, conversion, retries, dropped>>

ShareClick(m) ==
  /\ At("clicks", "share", m)
  /\ \/ Share(m, m) /\ UNCHANGED dropped
     \/ Swallowed /\ dropped' = dropped \cup {m}
  /\ Advance("clicks")
  /\ UNCHANGED <<published, stream, counter, conversion, retries>>

-----------------------------------------------------------------------------
(* CpmBillingService.recordImpression *)

\* RedisVelocityCounterStore.increment fails open: it answers 0, whether or
\* not Redis had counted before the error.
Increment(k, c, count) ==
  \/ /\ count = counter[k][c] + 1
     /\ counter' = [counter EXCEPT ![k][c] = count]
  \/ /\ count = 0
     /\ UNCHANGED counter \/ counter' = [counter EXCEPT ![k][c] = @ + 1]

\* count % BatchSize # 0 returns early: 0 does not.
AfterCount(count, full, otherwise) ==
  IF count % BatchSize = 0
    THEN Goto("impressions", full, count \div BatchSize) ELSE otherwise

AfterRaw(m) ==
  IF m \in Unique THEN Goto("impressions", "unique", 0) ELSE Advance("impressions")

CountRaw(m) ==
  /\ At("impressions", "count", m)
  /\ \E count \in {0, counter["raw"][CampaignOf[m]] + 1} :
       /\ Increment("raw", CampaignOf[m], count)
       /\ AfterCount(count, "charge", AfterRaw(m))
  /\ UNCHANGED <<walletVars, published, stream, conversion, retries, dropped>>

\* For a mutant: the reference is the count, not the batch's number.
MutChargeEveryTime(m) ==
  /\ At("impressions", "charge", m)
  /\ \/ Charge(m, ChargeRef(CampaignOf[m], counter["raw"][CampaignOf[m]]))
     \/ Swallowed
  /\ AfterRaw(m)
  /\ UNCHANGED <<published, stream, counter, conversion, retries, dropped>>

ChargeBatch(m) ==
  /\ At("impressions", "charge", m)
  /\ \/ Charge(m, ChargeRef(CampaignOf[m], worker["impressions"].n))
     \/ Swallowed
  /\ AfterRaw(m)
  /\ UNCHANGED <<published, stream, counter, conversion, retries, dropped>>

CountUnique(m) ==
  /\ At("impressions", "unique", m)
  /\ \E count \in {0, counter["unique"][CampaignOf[m]] + 1} :
       /\ Increment("unique", CampaignOf[m], count)
       /\ AfterCount(count, "share", Advance("impressions"))
  /\ UNCHANGED <<walletVars, published, stream, conversion, retries, dropped>>

\* The publisher of the impression that fills the batch is credited for it.
ShareBatch(m) ==
  /\ At("impressions", "share", m)
  /\ \/ Share(m, ShareRef(CampaignOf[m], worker["impressions"].n))
     \/ Swallowed
  /\ Advance("impressions")
  /\ UNCHANGED <<published, stream, counter, conversion, retries, dropped>>

-----------------------------------------------------------------------------
(* Conversion postbacks: claim the AdClick, then charge and credit *)

ConversionMoves(x, from, to) ==
  /\ conversion[x] = from
  /\ conversion' = [conversion EXCEPT ![x] = to]
  /\ UNCHANGED <<published, stream, worker, counter, retries>>

\* updateMany where convertedAt is null: later postbacks find it set.
ClaimConversion(x) ==
  ConversionMoves(x, "clicked", "charge") /\ UNCHANGED <<walletVars, dropped>>

ChargeConversion(x) ==
  /\ \/ Charge(x, x) /\ ConversionMoves(x, "charge", "share")
     \/ Swallowed /\ ConversionMoves(x, "charge", "done")
  /\ UNCHANGED dropped

ShareConversion(x) ==
  /\ ConversionMoves(x, "share", "done")
  /\ \/ Share(x, x) /\ UNCHANGED dropped
     \/ Swallowed /\ dropped' = dropped \cup {x}

-----------------------------------------------------------------------------
(* Composition *)

Bill(m) ==
  \/ ChargeClick(m) \/ ShareClick(m)
  \/ CountRaw(m) \/ ChargeBatch(m) \/ CountUnique(m) \/ ShareBatch(m)

WorkerStep(ch) ==
  \/ ReadBatch(ch)
  \/ \E m \in Messages : ChannelOf(m) = ch /\ Bill(m)
  \/ Acknowledge(ch)

Postback(x) == ClaimConversion(x) \/ ChargeConversion(x) \/ ShareConversion(x)

BillingNext ==
  \/ \E m \in Messages : Publish(m)
  \/ \E ch \in Channels : WorkerStep(ch) \/ BatchFails(ch)
  \/ \E x \in Conversions : Postback(x)

\* runLoop's while keeps the singleton worker going; batches fail finitely
\* often (MaxRetries).
BillingSpec ==
  /\ BillingInit
  /\ [][BillingNext]_billingVars
  /\ \A ch \in Channels : WF_billingVars(WorkerStep(ch))

-----------------------------------------------------------------------------
(* Properties *)

Spends(r) == {row \in ledger : row.type = "AD_SPEND" /\ row.ref = r}
Earnings(r) == {row \in ledger : row.type = "PUBLISHER_EARNING" /\ row.ref = r}

\* A publisher earns on a click or a conversion only what its advertiser was
\* in fact charged, never more, however often the event is delivered.
EarnedWasCharged ==
  \A x \in Clicks \cup Conversions : \A e \in Earnings(x) :
    \E s \in Spends(x) : e.amount <= s.amount

\* A charged click or conversion is shared with its publisher, unless the
\* credit failed or the worker stopped right between the two transactions:
\* the redelivery that follows finds the charge and gives up.
ChargedIsShared ==
  \A x \in Clicks \cup Conversions :
    Spends(x) # {} =>
      \/ Earnings(x) # {}
      \/ x \in dropped
      \/ \E bps \in FeeBps : PublisherShare(Price[x], bps) = 0
      \/ x \in Conversions /\ conversion[x] = "share"
      \/ x \in Clicks /\ At("clicks", "share", x)

CpmCharges(c) == {row \in ledger : row.ref \in {ChargeRef(c, n) : n \in 0..counter["raw"][c]}}
CpmShares(c) == {row \in ledger : row.ref \in {ShareRef(c, n) : n \in 0..counter["unique"][c]}}

\* Redelivery and outages of Redis included, a campaign pays for one batch
\* per BatchSize counted impressions and at most one more, batch 0.  Batch 0
\* of its unique impressions can be shared once with every publisher: the
\* unique index is per wallet, and the impression that meets a failed INCR
\* says who is credited.  A batch that was counted is shared once in all.
BatchesFollowCounter ==
  \A c \in Campaigns :
    /\ Cardinality(CpmCharges(c)) <= counter["raw"][c] \div BatchSize + 1
    /\ Cardinality(CpmShares(c)) <=
         counter["unique"][c] \div BatchSize + Cardinality(Publishers)

\* Whatever the batches before it cost, every published event leaves its
\* stream: no unbillable event stalls the ones behind it.
EveryEventIsProcessed ==
  \A m \in Messages : m \in published ~> m \notin Range(stream[ChannelOf(m)])

\* Typed rows, and charges and shares that agree.
ChargesMatchShares == BillingTypeOK /\ EarnedWasCharged /\ ChargedIsShared
=============================================================================
