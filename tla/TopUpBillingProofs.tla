------------------------- MODULE TopUpBillingProofs -------------------------
(***************************************************************************)
(* Advertisers' money comes in by TopUp and goes out by Billing: proofs    *)
(* about both, for any number of orders, handlers, events, campaigns,      *)
(* publishers and workers' failures.                                       *)
(*                                                                         *)
(* Billing: both properties need to know where a worker is: it bills the   *)
(* head of what is left of a batch, which is the front of the stream it    *)
(* was read from (WorkersInv).  SharesInv ties each event's charge to its  *)
(* share with the one state between them, AwaitsShare.  BatchesInv speaks  *)
(* of each row, not of their number: a batch that was charged was counted, *)
(* one that was counted is shared with one publisher.  The bounds on how   *)
(* many rows there are follow by mapping the rows into sets whose size is  *)
(* known (ChargesCounted, SharesCounted).                                  *)
(*                                                                         *)
(* TopUp: the orders, the ledger and the gateway agree, and what the       *)
(* handlers do together is what TopUpContract promises.  OrdersAreSound is *)
(* nearly inductive.  What it leaves out is the gateway's side: nobody     *)
(* marks or credits an order, and no event reports it captured, before its *)
(* payment was taken (PaymentTaken).  The invariant is a conjunction over  *)
(* the orders, and a step moves one order: OneOrderMoves leaves one order  *)
(* to look at in each action.                                              *)
(***************************************************************************)
EXTENDS TopUp, Billing, WalletProofs, SequenceTheorems

-----------------------------------------------------------------------------
(* Prefixes and suffixes, element by element *)

\* s is the front of t.
FrontOf(s, t) ==
  /\ Len(s) <= Len(t)
  /\ \A i \in 1..Len(s) : s[i] = t[i]

\* s is the back of t.
BackOf(s, t) ==
  /\ Len(s) <= Len(t)
  /\ \A i \in 1..Len(s) : s[i] = t[i + (Len(t) - Len(s))]

LEMMA FrontIsPrefix ==
  ASSUME NEW S, NEW s \in Seq(S), NEW t \in Seq(S), FrontOf(s, t)
  PROVE  IsPrefix(s, t)
<1>1. /\ Len(s) \in Nat /\ Len(t) \in Nat
      /\ SubSeq(s, 1, Len(s)) = [i \in 1..Len(s) |-> s[i]]
      /\ SubSeq(t, 1, Len(s)) = [i \in 1..Len(s) |-> t[i]]
  <2>1. Len(s) \in Nat /\ Len(t) \in Nat /\ Len(s) <= Len(t)
    BY DEF FrontOf
  <2>2. SubSeq(s, 1, Len(s)) \in Seq(S) /\ SubSeq(t, 1, Len(s)) \in Seq(S)
    BY <2>1, SubSeqProperties
  <2>3. /\ Len(SubSeq(s, 1, Len(s))) = Len(s)
        /\ Len(SubSeq(t, 1, Len(s))) = Len(s)
    BY <2>1, SubSeqProperties
  <2>4. /\ \A i \in 1..Len(s) : SubSeq(s, 1, Len(s))[i] = s[i]
        /\ \A i \in 1..Len(s) : SubSeq(t, 1, Len(s))[i] = t[i]
    BY <2>1, SubSeqProperties
  <2>. QED
    BY <2>1, <2>2, <2>3, <2>4
<1>. QED
  BY <1>1 DEF FrontOf, IsPrefix

LEMMA BackIsSuffix ==
  ASSUME NEW S, NEW s \in Seq(S), NEW t \in Seq(S), BackOf(s, t)
  PROVE  IsSuffix(s, t)
<1>1. Len(s) \in Nat /\ Len(t) \in Nat /\ Len(s) <= Len(t)
  BY DEF BackOf
<1>2. /\ Reverse(s) \in Seq(S) /\ Len(Reverse(s)) = Len(s)
      /\ \A i \in 1..Len(s) : Reverse(s)[i] = s[Len(s) - i + 1]
  <2>1. \A i \in 1..Len(s) : s[Len(s) - i + 1] \in S
    BY <1>1
  <2>. QED
    BY <1>1, <2>1 DEF Reverse
<1>3. /\ Reverse(t) \in Seq(S) /\ Len(Reverse(t)) = Len(t)
      /\ \A i \in 1..Len(t) : Reverse(t)[i] = t[Len(t) - i + 1]
  <2>1. \A i \in 1..Len(t) : t[Len(t) - i + 1] \in S
    BY <1>1
  <2>. QED
    BY <1>1, <2>1 DEF Reverse
<1>4. ASSUME NEW i \in 1..Len(s)
      PROVE  Reverse(s)[i] = Reverse(t)[i]
  <2>1. i \in 1..Len(t) /\ Len(s) - i + 1 \in 1..Len(s)
    BY <1>1
  <2>2. s[Len(s) - i + 1] = t[(Len(s) - i + 1) + (Len(t) - Len(s))]
    BY <2>1 DEF BackOf
  <2>3. (Len(s) - i + 1) + (Len(t) - Len(s)) = Len(t) - i + 1
    BY <1>1
  <2>. QED
    BY <1>2, <1>3, <2>1, <2>2, <2>3
<1>5. FrontOf(Reverse(s), Reverse(t))
  BY <1>1, <1>2, <1>3, <1>4 DEF FrontOf
<1>. QED
  BY <1>2, <1>3, <1>5, FrontIsPrefix DEF IsSuffix

LEMMA TailIsBack ==
  ASSUME NEW S, NEW s \in Seq(S), NEW t \in Seq(S), BackOf(s, t), s # <<>>
  PROVE  BackOf(Tail(s), t)
<1>1. /\ Len(s) \in Nat /\ Len(t) \in Nat /\ Len(s) > 0
      /\ Len(Tail(s)) = Len(s) - 1
      /\ \A i \in 1..Len(Tail(s)) : Tail(s)[i] = s[i + 1]
  BY HeadTailProperties, EmptySeq
<1>2. ASSUME NEW i \in 1..Len(Tail(s))
      PROVE  Tail(s)[i] = t[i + (Len(t) - Len(Tail(s)))]
  <2>1. i + 1 \in 1..Len(s)
    BY <1>1
  <2>2. s[i + 1] = t[(i + 1) + (Len(t) - Len(s))]
    BY <2>1 DEF BackOf
  <2>3. (i + 1) + (Len(t) - Len(s)) = i + (Len(t) - Len(Tail(s)))
    BY <1>1
  <2>. QED
    BY <1>1, <2>2, <2>3
<1>. QED
  BY <1>1, <1>2 DEF BackOf

LEMMA AppendKeepsFront ==
  ASSUME NEW S, NEW s \in Seq(S), NEW t \in Seq(S), NEW x \in S, FrontOf(s, t)
  PROVE  FrontOf(s, Append(t, x))
<1>1. Len(s) \in Nat /\ Len(t) \in Nat
  OBVIOUS
<1>2. /\ Len(Append(t, x)) = Len(t) + 1
      /\ \A i \in 1..Len(t) : Append(t, x)[i] = t[i]
  BY AppendProperties
<1>. QED
  BY <1>1, <1>2 DEF FrontOf

-----------------------------------------------------------------------------
(* The workers and their streams *)

MessagesOf(ch) == {m \in Messages : ChannelOf(m) = ch}

Stages == {"read", "count", "charge", "unique", "share", "flush"}

Workers == [stage: Stages, batch: Seq(Messages), todo: Seq(Messages), n: Nat]

\* A worker that bills has a message left to bill; what is left is the back of
\* its batch, and the batch the front of the stream it was read from.
ReadsInOrder(ch) ==
  /\ stream[ch] \in Seq(MessagesOf(ch))
  /\ worker[ch].batch \in Seq(MessagesOf(ch))
  /\ worker[ch].todo \in Seq(MessagesOf(ch))
  /\ worker[ch].stage \notin {"read", "flush"} => worker[ch].todo # <<>>
  /\ BackOf(worker[ch].todo, worker[ch].batch)
  /\ FrontOf(worker[ch].batch, stream[ch])
  /\ \A i \in 1..Len(stream[ch]) : stream[ch][i] \in published

WorkersInv ==
  /\ published \subseteq Messages
  /\ worker \in [Channels -> Workers]
  /\ stream \in [Channels -> Seq(Messages)]
  /\ \A ch \in Channels : ReadsInOrder(ch)

LEMMA MessagesOfChannel ==
  /\ MessagesOf("clicks") = Clicks
  /\ \A ch : MessagesOf(ch) \subseteq Messages
  BY DEF MessagesOf, ChannelOf, Messages

LEMMA WaitingIsWorker == Waiting \in Workers
<1>1. <<>> \in Seq(Messages) /\ 0 \in Nat /\ "read" \in Stages
  BY EmptySeq DEF Stages
<1>. QED
  BY <1>1 DEF Waiting, Workers

\* A worker that starts over holds nothing.
LEMMA WaitingReadsInOrder ==
  ASSUME NEW ch \in Channels, NEW s \in Seq(MessagesOf(ch))
  PROVE  /\ Waiting.stage = "read"
         /\ Waiting.batch \in Seq(MessagesOf(ch))
         /\ Waiting.todo \in Seq(MessagesOf(ch))
         /\ BackOf(Waiting.todo, Waiting.batch)
         /\ FrontOf(Waiting.batch, s)
<1>1. Len(<<>>) = 0 /\ <<>> \in Seq(MessagesOf(ch)) /\ Len(s) \in Nat
  BY EmptySeq
<1>. QED
  BY <1>1 DEF Waiting, BackOf, FrontOf

\* Only one worker's record changes, and its batch and stream do not.
LEMMA OneWorkerMoves ==
  ASSUME WorkersInv, NEW ch \in Channels, NEW w \in Workers,
         worker' = [worker EXCEPT ![ch] = w], UNCHANGED <<published, stream>>,
         w.batch = worker[ch].batch, w.todo \in Seq(MessagesOf(ch)),
         BackOf(w.todo, w.batch),
         w.stage \notin {"read", "flush"} => w.todo # <<>>
  PROVE  WorkersInv'
<1>1. worker' \in [Channels -> Workers] /\ worker'[ch] = w
  BY DEF WorkersInv
<1>2. ReadsInOrder(ch)'
  BY <1>1 DEF WorkersInv, ReadsInOrder
<1>3. ASSUME NEW d \in Channels, d # ch
      PROVE  ReadsInOrder(d)'
  <2>1. worker'[d] = worker[d]
    BY <1>3 DEF WorkersInv
  <2>. QED
    BY <2>1 DEF WorkersInv, ReadsInOrder
<1>. QED
  BY <1>1, <1>2, <1>3 DEF WorkersInv

LEMMA AdvanceWorkers ==
  ASSUME WorkersInv, NEW ch \in Channels, worker[ch].todo # <<>>, Advance(ch),
         UNCHANGED <<published, stream>>
  PROVE  WorkersInv'
<1>. DEFINE old == worker[ch]
            rest == Tail(old.todo)
            next == IF rest = <<>> THEN "flush" ELSE FirstStage(Head(rest))
            w == [old EXCEPT !.todo = rest, !.n = 0, !.stage = next]
<1>1. /\ old \in Workers /\ old.batch \in Seq(MessagesOf(ch))
      /\ old.todo \in Seq(MessagesOf(ch)) /\ BackOf(old.todo, old.batch)
  BY DEF WorkersInv, ReadsInOrder
<1>2. rest \in Seq(MessagesOf(ch)) /\ BackOf(rest, old.batch)
  BY <1>1, TailIsBack, HeadTailProperties
<1>3. rest \in Seq(Messages)
  BY <1>2, MessagesOfChannel, SeqMonotonic
<1>4. next \in Stages /\ (next # "flush" => rest # <<>>)
  BY DEF Stages, FirstStage
<1>5. w \in Workers
  BY <1>1, <1>3, <1>4 DEF Workers
<1>6. worker' = [worker EXCEPT ![ch] = w]
  BY DEF Advance, WorkersInv
<1>7. /\ w.batch = worker[ch].batch /\ w.todo \in Seq(MessagesOf(ch))
      /\ BackOf(w.todo, w.batch)
      /\ w.stage \notin {"read", "flush"} => w.todo # <<>>
  BY <1>1, <1>2, <1>4 DEF Workers
<1>. HIDE DEF w, next, rest, old
<1>. QED
  BY <1>5, <1>6, <1>7, OneWorkerMoves

LEMMA GotoWorkers ==
  ASSUME WorkersInv, NEW ch \in Channels, worker[ch].todo # <<>>,
         NEW st \in Stages, NEW n \in Nat, Goto(ch, st, n),
         UNCHANGED <<published, stream>>
  PROVE  WorkersInv'
<1>. DEFINE old == worker[ch]
            w == [old EXCEPT !.stage = st, !.n = n]
<1>1. /\ old \in Workers /\ BackOf(old.todo, old.batch)
      /\ old.todo \in Seq(MessagesOf(ch))
  BY DEF WorkersInv, ReadsInOrder
<1>2. w \in Workers
  BY <1>1 DEF Workers
<1>3. worker' = [worker EXCEPT ![ch] = w]
  BY DEF Goto, WorkersInv
<1>4. /\ w.batch = worker[ch].batch /\ w.todo \in Seq(MessagesOf(ch))
      /\ BackOf(w.todo, w.batch)
      /\ w.stage \notin {"read", "flush"} => w.todo # <<>>
  BY <1>1 DEF Workers
<1>. HIDE DEF w, old
<1>. QED
  BY <1>2, <1>3, <1>4, OneWorkerMoves

LEMMA PublishWorkers ==
  ASSUME WorkersInv, NEW m \in Messages, Publish(m)
  PROVE  WorkersInv'
<1>. DEFINE ch == ChannelOf(m)
            s == Append(stream[ch], m)
<1>1. ch \in Channels /\ m \in MessagesOf(ch)
  BY DEF ChannelOf, Channels, MessagesOf
<1>2. ReadsInOrder(ch) /\ stream[ch] \in Seq(MessagesOf(ch))
  BY <1>1 DEF WorkersInv, ReadsInOrder
<1>3. /\ s \in Seq(MessagesOf(ch)) /\ Len(s) = Len(stream[ch]) + 1
      /\ \A i \in 1..Len(stream[ch]) : s[i] = stream[ch][i]
      /\ s[Len(stream[ch]) + 1] = m
  BY <1>1, <1>2, AppendProperties
<1>4. stream' = [stream EXCEPT ![ch] = s] /\ published' = published \cup {m}
      /\ UNCHANGED worker
  BY DEF Publish
<1>5. FrontOf(worker[ch].batch, s)
  BY <1>1, <1>2, AppendKeepsFront DEF ReadsInOrder
<1>6. stream' \in [Channels -> Seq(Messages)] /\ stream'[ch] = s
  <2>1. s \in Seq(Messages)
    BY <1>3, MessagesOfChannel, SeqMonotonic
  <2>. HIDE DEF s, ch
  <2>. QED
    BY <1>1, <1>4, <2>1 DEF WorkersInv
<1>7. \A i \in 1..Len(s) : s[i] \in published'
  <2>1. Len(stream[ch]) \in Nat
    BY <1>2
  <2>. HIDE DEF s, ch
  <2>. QED
    BY <1>2, <1>3, <1>4, <2>1 DEF ReadsInOrder
<1>. HIDE DEF s, ch
<1>8. ReadsInOrder(ch)'
  BY <1>2, <1>3, <1>4, <1>5, <1>6, <1>7 DEF ReadsInOrder
<1>9. ASSUME NEW d \in Channels, d # ch
      PROVE  ReadsInOrder(d)'
  <2>1. stream'[d] = stream[d]
    BY <1>4, <1>9 DEF WorkersInv
  <2>. QED
    BY <1>4, <2>1 DEF WorkersInv, ReadsInOrder
<1>. QED
  BY <1>4, <1>6, <1>8, <1>9 DEF WorkersInv

LEMMA ReadBatchWorkers ==
  ASSUME WorkersInv, NEW ch \in Channels, ReadBatch(ch)
  PROVE  WorkersInv'
<1>. DEFINE w == [stage |-> FirstStage(Head(stream[ch])), batch |-> stream[ch],
                  todo |-> stream[ch], n |-> 0]
<1>1. /\ stream[ch] \in Seq(MessagesOf(ch)) /\ stream[ch] \in Seq(Messages)
      /\ stream[ch] # <<>> /\ Len(stream[ch]) \in Nat
  BY DEF WorkersInv, ReadsInOrder, ReadBatch
<1>2. w \in Workers
  <2>1. FirstStage(Head(stream[ch])) \in Stages
    BY DEF FirstStage, Stages
  <2>. QED
    BY <1>1, <2>1 DEF Workers
<1>3. worker' = [worker EXCEPT ![ch] = w] /\ UNCHANGED <<published, stream>>
  BY DEF ReadBatch
<1>4. BackOf(w.todo, w.batch) /\ FrontOf(w.batch, stream[ch])
  BY <1>1 DEF BackOf, FrontOf
<1>5. /\ w.batch \in Seq(MessagesOf(ch)) /\ w.todo \in Seq(MessagesOf(ch))
      /\ w.todo # <<>>
  BY <1>1
<1>. HIDE DEF w
<1>6. worker' \in [Channels -> Workers] /\ worker'[ch] = w
  BY <1>2, <1>3 DEF WorkersInv
<1>7. ReadsInOrder(ch)'
  BY <1>3, <1>4, <1>5, <1>6 DEF WorkersInv, ReadsInOrder
<1>8. ASSUME NEW d \in Channels, d # ch
      PROVE  ReadsInOrder(d)'
  <2>1. worker'[d] = worker[d]
    BY <1>3, <1>8 DEF WorkersInv
  <2>. QED
    BY <1>3, <2>1 DEF WorkersInv, ReadsInOrder
<1>. QED
  BY <1>3, <1>6, <1>7, <1>8 DEF WorkersInv

\* A worker starts over, on a stream that lost none or some of its oldest.
LEMMA StartOverWorkers ==
  ASSUME WorkersInv, NEW ch \in Channels, NEW s \in Seq(MessagesOf(ch)),
         worker' = [worker EXCEPT ![ch] = Waiting],
         stream' = [stream EXCEPT ![ch] = s], UNCHANGED published,
         \A i \in 1..Len(s) : s[i] \in published
  PROVE  WorkersInv'
<1>1. s \in Seq(Messages)
  BY MessagesOfChannel, SeqMonotonic
<1>2. worker' \in [Channels -> Workers] /\ worker'[ch] = Waiting
  BY WaitingIsWorker DEF WorkersInv
<1>3. stream' \in [Channels -> Seq(Messages)] /\ stream'[ch] = s
  BY <1>1 DEF WorkersInv
<1>4. ReadsInOrder(ch)'
  BY <1>2, <1>3, WaitingReadsInOrder DEF WorkersInv, ReadsInOrder
<1>5. ASSUME NEW d \in Channels, d # ch
      PROVE  ReadsInOrder(d)'
  <2>1. worker'[d] = worker[d] /\ stream'[d] = stream[d]
    BY <1>5 DEF WorkersInv
  <2>. QED
    BY <2>1 DEF WorkersInv, ReadsInOrder
<1>. QED
  BY <1>2, <1>3, <1>4, <1>5 DEF WorkersInv

LEMMA WithoutFront ==
  ASSUME NEW S, NEW t \in Seq(S), NEW k \in Nat
  PROVE  /\ SubSeq(t, k + 1, Len(t)) \in Seq(S)
         /\ \A i \in 1..Len(SubSeq(t, k + 1, Len(t))) :
              \E j \in 1..Len(t) : SubSeq(t, k + 1, Len(t))[i] = t[j]
<1>. DEFINE a == k + 1
            b == Len(t)
            s == SubSeq(t, a, b)
<1>1. a \in Int /\ b \in Int /\ b \in Nat /\ a >= 1
  OBVIOUS
<1>2. \A i \in a..b : t[i] \in S
  BY <1>1
<1>. HIDE DEF a, b
<1>3. /\ s \in Seq(S)
      /\ Len(s) = IF a <= b THEN b - a + 1 ELSE 0
      /\ \A i \in 1..(b - a + 1) : s[i] = t[a + i - 1]
  BY <1>1, <1>2, SubSeqProperties
<1>. HIDE DEF s
<1>4. ASSUME NEW i \in 1..Len(s)
      PROVE  \E j \in 1..b : s[i] = t[j]
  <2>1. i \in 1..(b - a + 1) /\ a + i - 1 \in 1..b
    BY <1>1, <1>3
  <2>. QED
    BY <1>3, <2>1
<1>. QED
  BY <1>3, <1>4 DEF s, a, b

LEMMA AcknowledgeWorkers ==
  ASSUME WorkersInv, NEW ch \in Channels, Acknowledge(ch)
  PROVE  WorkersInv'
<1>. DEFINE t == stream[ch]
            k == Len(worker[ch].batch)
            s == SubSeq(t, k + 1, Len(t))
<1>1. /\ t \in Seq(MessagesOf(ch)) /\ k \in Nat
      /\ \A i \in 1..Len(t) : t[i] \in published
  BY DEF WorkersInv, ReadsInOrder
<1>2. /\ worker' = [worker EXCEPT ![ch] = Waiting]
      /\ stream' = [stream EXCEPT ![ch] = s] /\ UNCHANGED published
  BY DEF Acknowledge
<1>. HIDE DEF t, k
<1>3. s \in Seq(MessagesOf(ch)) /\ \A i \in 1..Len(s) : s[i] \in published
  BY <1>1, WithoutFront
<1>. HIDE DEF s
<1>. QED
  BY <1>2, <1>3, StartOverWorkers

LEMMA FailureWorkers ==
  ASSUME WorkersInv, NEW ch \in Channels, BatchFails(ch)
  PROVE  WorkersInv'
<1>1. /\ stream[ch] \in Seq(MessagesOf(ch))
      /\ \A i \in 1..Len(stream[ch]) : stream[ch][i] \in published
  BY DEF WorkersInv, ReadsInOrder
<1>2. /\ worker' = [worker EXCEPT ![ch] = Waiting]
      /\ stream' = [stream EXCEPT ![ch] = stream[ch]] /\ UNCHANGED published
  BY DEF BatchFails, WorkersInv
<1>. QED
  BY <1>1, <1>2, StartOverWorkers

LEMMA WholeBatches ==
  ASSUME NEW count \in Nat
  PROVE  /\ count \div BatchSize \in Nat
         /\ (count \div BatchSize) * BatchSize <= count
         /\ count % BatchSize = 0 => (count \div BatchSize) * BatchSize = count
         /\ \A n \in Nat : n * BatchSize <= count => n <= count \div BatchSize
  BY BillingAssumption

LEMMA AfterRawWorkers ==
  ASSUME WorkersInv, worker["impressions"].todo # <<>>, NEW m, AfterRaw(m),
         UNCHANGED <<published, stream>>
  PROVE  WorkersInv'
  BY AdvanceWorkers, GotoWorkers DEF AfterRaw, Channels, Stages

LEMMA BillWorkers ==
  ASSUME WorkersInv, NEW m \in Messages, Bill(m),
         counter \in [{"raw", "unique"} -> [Campaigns -> Nat]]
  PROVE  WorkersInv'
<1>1. CampaignOf[m] \in Campaigns
  BY BillingAssumption
<1>2. ASSUME NEW k \in {"raw", "unique"},
             NEW count \in {0, counter[k][CampaignOf[m]] + 1}
      PROVE  count \in Nat
  BY <1>1
<1>3. "clicks" \in Channels /\ "impressions" \in Channels
  BY DEF Channels
<1>4. CASE ChargeClick(m)
  BY <1>3, <1>4, AdvanceWorkers, GotoWorkers DEF ChargeClick, At, Stages
<1>5. CASE ShareClick(m)
  BY <1>3, <1>5, AdvanceWorkers DEF ShareClick, At
<1>6. CASE CountRaw(m)
  <2>1. PICK count \in {0, counter["raw"][CampaignOf[m]] + 1} :
          AfterCount(count, "charge", AfterRaw(m))
    BY <1>6 DEF CountRaw
  <2>2. count \in Nat
    BY <1>2
  <2>3. worker["impressions"].todo # <<>> /\ UNCHANGED <<published, stream>>
    BY <1>6 DEF CountRaw, At
  <2>4. AfterRaw(m) => WorkersInv'
    BY <2>3, AfterRawWorkers
  <2>5. CASE count % BatchSize = 0
    BY <1>3, <2>1, <2>2, <2>3, <2>5, WholeBatches, GotoWorkers
    DEF AfterCount, Stages
  <2>6. CASE count % BatchSize # 0
    BY <2>1, <2>4, <2>6 DEF AfterCount
  <2>. QED
    BY <2>5, <2>6
<1>7. CASE ChargeBatch(m)
  BY <1>7, AfterRawWorkers DEF ChargeBatch, At
<1>8. CASE CountUnique(m)
  <2>1. PICK count \in {0, counter["unique"][CampaignOf[m]] + 1} :
          AfterCount(count, "share", Advance("impressions"))
    BY <1>8 DEF CountUnique
  <2>2. count \in Nat
    BY <1>2
  <2>3. worker["impressions"].todo # <<>> /\ UNCHANGED <<published, stream>>
    BY <1>8 DEF CountUnique, At
  <2>4. Advance("impressions") => WorkersInv'
    BY <1>3, <2>3, AdvanceWorkers
  <2>5. CASE count % BatchSize = 0
    BY <1>3, <2>1, <2>2, <2>3, <2>5, WholeBatches, GotoWorkers
    DEF AfterCount, Stages
  <2>6. CASE count % BatchSize # 0
    BY <2>1, <2>4, <2>6 DEF AfterCount
  <2>. QED
    BY <2>5, <2>6
<1>9. CASE ShareBatch(m)
  BY <1>3, <1>9, AdvanceWorkers DEF ShareBatch, At
<1>. QED
  BY <1>4, <1>5, <1>6, <1>7, <1>8, <1>9 DEF Bill

-----------------------------------------------------------------------------
(* What a charge and a credit write *)

SpendRow(x, r) ==
  [user |-> Owner[CampaignOf[x]], type |-> "AD_SPEND", ref |-> r, amount |-> Price[x]]

EarningRow(x, r, a) ==
  [user |-> PublisherOf[x], type |-> "PUBLISHER_EARNING", ref |-> r, amount |-> a]

\* The platform's cut is never negative.
LEMMA ShareAtMostPrice ==
  ASSUME NEW a \in Nat, NEW bps \in Nat, bps <= 10000
  PROVE  PublisherShare(a, bps) <= a
<1>1. /\ a * (10000 - bps) \in Int /\ a * (10000 - bps) <= a * 10000
  OBVIOUS
<1>. DEFINE p == a * (10000 - bps)
<1>2. p \in Int /\ p <= a * 10000
  BY <1>1
<1>. HIDE DEF p
<1>3. (p + 5000) \div 10000 <= a
  BY <1>2
<1>. QED
  BY <1>3 DEF PublisherShare, p

LEMMA EventsAreTyped ==
  ASSUME NEW x \in Messages \cup Conversions
  PROVE  /\ CampaignOf[x] \in Campaigns /\ PublisherOf[x] \in Publishers
         /\ Price[x] \in Amounts /\ Price[x] \in Nat
         /\ Owner[CampaignOf[x]] \in Users
         /\ \A bps \in FeeBps : /\ bps \in Nat /\ bps <= 10000
                               /\ PublisherShare(Price[x], bps) \in Amounts \cup {0}
<1>1. /\ CampaignOf \in [Messages \cup Conversions -> Campaigns]
      /\ PublisherOf \in [Messages \cup Conversions -> Publishers]
      /\ Price \in [Messages \cup Conversions -> Amounts]
  BY BillingAssumption
<1>2. CampaignOf[x] \in Campaigns /\ PublisherOf[x] \in Publishers /\ Price[x] \in Amounts
  BY <1>1
<1>3. \A bps \in FeeBps : /\ bps \in Nat /\ bps <= 10000
                          /\ PublisherShare(Price[x], bps) \in Amounts \cup {0}
  <2>1. FeeBps \subseteq 0..10000
    BY BillingAssumption
  <2>2. \A y \in Messages \cup Conversions : \A bps \in FeeBps :
          PublisherShare(Price[y], bps) \in Amounts \cup {0}
    BY BillingAssumption
  <2>. QED
    BY <2>1, <2>2
<1>4. Owner[CampaignOf[x]] \in Users /\ Price[x] \in Nat
  BY <1>2, WalletAssumption DEF Users
<1>. QED
  BY <1>2, <1>3, <1>4

LEMMA ChargeWrites ==
  ASSUME TypeOK, NEW x \in Messages \cup Conversions, NEW r \in Refs, Charge(x, r)
  PROVE  /\ TypeOK' /\ ledger' = ledger \cup {SpendRow(x, r)}
         /\ ~Recorded(Owner[CampaignOf[x]], "AD_SPEND", r)
<1>1. CampaignOf[x] \in Campaigns /\ Price[x] \in Amounts
  BY EventsAreTyped
<1>2. RecordCampaignSpend(CampaignOf[x], Price[x], r)
  BY DEF Charge
<1>3. TypeOK'
  BY <1>1, <1>2, SpendTypeOK
<1>. QED
  BY <1>2, <1>3 DEF RecordCampaignSpend, RecordTransaction, AddRow, SpendRow

LEMMA ShareWrites ==
  ASSUME TypeOK, NEW x \in Messages \cup Conversions, NEW r \in Refs, Share(x, r)
  PROVE  /\ TypeOK'
         /\ \/ /\ ledger' = ledger
               /\ \E bps \in FeeBps : PublisherShare(Price[x], bps) = 0
            \/ \E a \in Amounts :
                 /\ a <= Price[x] /\ ledger' = ledger \cup {EarningRow(x, r, a)}
                 /\ ~Recorded(PublisherOf[x], "PUBLISHER_EARNING", r)
<1>1. PublisherOf[x] \in Publishers /\ Price[x] \in Nat
  BY EventsAreTyped
<1>2. PICK bps \in FeeBps :
        IF PublisherShare(Price[x], bps) = 0 THEN UNCHANGED walletVars
        ELSE CreditPublisherEarning(PublisherOf[x], PublisherShare(Price[x], bps),
                                    r, FALSE)
  BY DEF Share
<1>. DEFINE share == PublisherShare(Price[x], bps)
<1>3. share \in Amounts \cup {0} /\ share <= Price[x]
  <2>1. bps \in Nat /\ bps <= 10000
    BY EventsAreTyped
  <2>2. PublisherShare(Price[x], bps) <= Price[x]
    BY <1>1, <2>1, ShareAtMostPrice
  <2>3. share \in Amounts \cup {0}
    BY EventsAreTyped
  <2>. QED
    BY <2>2, <2>3
<1>4. CASE share = 0
  BY <1>2, <1>4 DEF walletVars, TypeOK
<1>5. CASE share # 0
  <2>1. share \in Amounts /\ CreditPublisherEarning(PublisherOf[x], share, r, FALSE)
    BY <1>2, <1>3, <1>5
  <2>. HIDE DEF share
  <2>2. TypeOK'
    BY <1>1, <2>1, EarningTypeOK
  <2>3. /\ ledger' = ledger \cup {EarningRow(x, r, share)}
        /\ ~Recorded(PublisherOf[x], "PUBLISHER_EARNING", r)
    BY <2>1 DEF CreditPublisherEarning, RecordTransaction, AddRow, EarningRow
  <2>. QED
    BY <1>3, <2>1, <2>2, <2>3
<1>. QED
  BY <1>4, <1>5

LEMMA RefsAreTyped ==
  ASSUME BatchRefs \subseteq Refs
  PROVE  /\ \A x \in Clicks \cup Conversions : x \in Refs
         /\ \A c \in Campaigns, n \in Nat :
              /\ ChargeRef(c, n) \in Refs /\ ShareRef(c, n) \in Refs
              /\ \A x \in Clicks \cup Conversions \cup Campaigns :
                   x # ChargeRef(c, n) /\ x # ShareRef(c, n)
<1>1. \A c \in Campaigns, n \in Nat :
        ChargeRef(c, n) \in BatchRefs /\ ShareRef(c, n) \in BatchRefs
  BY DEF ChargeRef, ShareRef, BatchRefs
<1>2. /\ Clicks \cup Conversions \subseteq Refs
      /\ \A x \in Clicks \cup Conversions \cup Campaigns : x \notin BatchRefs
  BY BillingAssumption
<1>3. ASSUME NEW c \in Campaigns, NEW n \in Nat
      PROVE  /\ ChargeRef(c, n) \in Refs /\ ShareRef(c, n) \in Refs
             /\ \A x \in Clicks \cup Conversions \cup Campaigns :
                  x # ChargeRef(c, n) /\ x # ShareRef(c, n)
  <2>. DEFINE p == ChargeRef(c, n)
              q == ShareRef(c, n)
  <2>1. p \in BatchRefs /\ q \in BatchRefs
    BY <1>1
  <2>. HIDE DEF p, q
  <2>2. /\ p \in Refs /\ q \in Refs
        /\ \A x \in Clicks \cup Conversions \cup Campaigns : x # p /\ x # q
    BY <1>2, <2>1, Zenon
  <2>. QED
    BY <2>2 DEF p, q
<1>. QED
  BY <1>2, <1>3, Zenon

-----------------------------------------------------------------------------
(* A charge and its share *)

\* Charged, with the publisher's credit still to come.
AwaitsShare(x) ==
  \/ x \in Conversions /\ conversion[x] = "share"
  \/ x \in Clicks /\ At("clicks", "share", x)

\* What EarnedWasCharged and ChargedIsShared say of one event, and that an
\* event on its way to its share was charged its price.
Agrees(x) ==
  /\ AwaitsShare(x) => \E s \in Spends(x) : s.amount = Price[x]
  /\ \A e \in Earnings(x) : \E s \in Spends(x) : e.amount <= s.amount
  /\ Spends(x) # {} =>
       \/ Earnings(x) # {}
       \/ x \in dropped
       \/ \E bps \in FeeBps : PublisherShare(Price[x], bps) = 0
       \/ AwaitsShare(x)

SharesInv == \A x \in Clicks \cup Conversions : Agrees(x)

LEMMA AgreesIsBoth == SharesInv => EarnedWasCharged /\ ChargedIsShared
  BY DEF SharesInv, Agrees, AwaitsShare, EarnedWasCharged, ChargedIsShared

\* A step that leaves an event alone.
LEMMA AgreesIsKept ==
  ASSUME NEW x, Agrees(x), Spends(x)' = Spends(x), Earnings(x)' = Earnings(x),
         AwaitsShare(x)' = AwaitsShare(x), dropped \subseteq dropped'
  PROVE  Agrees(x)'
  BY DEF Agrees

LEMMA OtherRow ==
  ASSUME NEW x, NEW row, ledger' = ledger \/ ledger' = ledger \cup {row}, row.ref # x
  PROVE  Spends(x)' = Spends(x) /\ Earnings(x)' = Earnings(x)
  BY DEF Spends, Earnings

\* The charge of an event makes it await its share.
LEMMA AgreesWhenCharged ==
  ASSUME NEW x, Agrees(x), ledger' = ledger \cup {SpendRow(x, x)}, AwaitsShare(x)'
  PROVE  Agrees(x)'
<1>1. SpendRow(x, x) \in Spends(x)' /\ Spends(x) \subseteq Spends(x)'
  BY DEF Spends, SpendRow
<1>2. Earnings(x)' = Earnings(x)
  BY DEF Earnings, SpendRow
<1>3. SpendRow(x, x).amount = Price[x]
  BY DEF SpendRow
<1>. QED
  BY <1>1, <1>2, <1>3 DEF Agrees

\* An event that awaited its share gets it, needs none, or is dropped.
LEMMA AgreesWhenShared ==
  ASSUME NEW x \in Messages \cup Conversions, Agrees(x), AwaitsShare(x),
         \/ /\ ledger' = ledger
            /\ x \in dropped' \/ \E bps \in FeeBps : PublisherShare(Price[x], bps) = 0
         \/ \E a \in Amounts : a <= Price[x] /\ ledger' = ledger \cup {EarningRow(x, x, a)}
  PROVE  Agrees(x)'
<1>1. PICK s \in Spends(x) : s.amount = Price[x]
  BY DEF Agrees
<1>2. CASE \E a \in Amounts : a <= Price[x] /\ ledger' = ledger \cup {EarningRow(x, x, a)}
  <2>1. PICK a \in Amounts : a <= Price[x] /\ ledger' = ledger \cup {EarningRow(x, x, a)}
    BY <1>2
  <2>. DEFINE row == EarningRow(x, x, a)
  <2>2. row.type = "PUBLISHER_EARNING" /\ row.ref = x /\ row.amount = a
    BY DEF EarningRow
  <2>. HIDE DEF row
  <2>3. Spends(x)' = Spends(x) /\ Earnings(x)' = Earnings(x) \cup {row}
    BY <2>1, <2>2 DEF Spends, Earnings, row
  <2>4. \A e \in Earnings(x)' : \E t \in Spends(x)' : e.amount <= t.amount
    BY <1>1, <2>1, <2>2, <2>3 DEF Agrees
  <2>. QED
    BY <1>1, <2>3, <2>4 DEF Agrees
<1>3. CASE ledger' = ledger
  <2>1. Spends(x)' = Spends(x) /\ Earnings(x)' = Earnings(x)
    BY <1>3 DEF Spends, Earnings
  <2>2. CASE \E a \in Amounts : a <= Price[x] /\ ledger' = ledger \cup {EarningRow(x, x, a)}
    BY <1>2, <2>2
  <2>. QED
    BY <1>1, <2>1, <2>2 DEF Agrees
<1>. QED
  BY <1>2, <1>3

-----------------------------------------------------------------------------
(* What a move of a worker does to its record *)

LEMMA AdvanceMoves ==
  ASSUME WorkersInv, NEW ch \in Channels, Advance(ch)
  PROVE  /\ worker'[ch].stage \in {"flush", "charge", "count"}
         /\ worker'[ch].n = 0
         /\ worker'[ch].stage = "charge" => Head(Tail(worker[ch].todo)) \in Clicks
         /\ \A d \in Channels \ {ch} : worker'[d] = worker[d]
<1>. DEFINE old == worker[ch]
            rest == Tail(old.todo)
            next == IF rest = <<>> THEN "flush" ELSE FirstStage(Head(rest))
            w == [old EXCEPT !.todo = rest, !.n = 0, !.stage = next]
<1>1. worker \in [Channels -> Workers] /\ old \in Workers
  BY DEF WorkersInv
<1>2. worker' = [worker EXCEPT ![ch] = w]
  BY <1>1 DEF Advance
<1>3. /\ next \in {"flush", "charge", "count"}
      /\ next = "charge" => Head(rest) \in Clicks
  BY DEF FirstStage
<1>4. w.stage = next /\ w.n = 0
  BY <1>1 DEF Workers
<1>. HIDE DEF w, next, rest
<1>. QED
  BY <1>1, <1>2, <1>3, <1>4 DEF rest

LEMMA GotoMoves ==
  ASSUME WorkersInv, NEW ch \in Channels, NEW st, NEW n, Goto(ch, st, n)
  PROVE  /\ worker'[ch].stage = st /\ worker'[ch].n = n
         /\ worker'[ch].todo = worker[ch].todo
         /\ \A d \in Channels \ {ch} : worker'[d] = worker[d]
<1>. DEFINE old == worker[ch]
            w == [old EXCEPT !.stage = st, !.n = n]
<1>1. worker \in [Channels -> Workers] /\ old \in Workers
  BY DEF WorkersInv
<1>2. worker' = [worker EXCEPT ![ch] = w]
  BY <1>1 DEF Goto
<1>3. w.stage = st /\ w.n = n /\ w.todo = old.todo
  BY <1>1 DEF Workers
<1>. HIDE DEF w
<1>. QED
  BY <1>1, <1>2, <1>3

LEMMA HeadOfClicks ==
  ASSUME WorkersInv, worker["clicks"].todo # <<>>
  PROVE  Head(worker["clicks"].todo) \in Clicks
<1>1. worker["clicks"].todo \in Seq(Clicks)
  BY MessagesOfChannel DEF WorkersInv, ReadsInOrder, Channels
<1>. QED
  BY <1>1, HeadTailProperties

\* Steps of the other worker, and steps of this one outside its share stage.
LEMMA AwaitsIsKept ==
  ASSUME UNCHANGED conversion,
         \/ worker'["clicks"] = worker["clicks"]
         \/ worker["clicks"].stage # "share" /\ worker'["clicks"].stage # "share"
  PROVE  \A x \in Clicks \cup Conversions : AwaitsShare(x)' = AwaitsShare(x)
<1>. SUFFICES ASSUME NEW x \in Clicks \cup Conversions
              PROVE  AwaitsShare(x)' = AwaitsShare(x)
  OBVIOUS
<1>1. At("clicks", "share", x)' = At("clicks", "share", x)
  BY Zenon DEF At
<1>. QED
  BY <1>1, Zenon DEF AwaitsShare

Typed ==
  /\ counter \in [{"raw", "unique"} -> [Campaigns -> Nat]]
  /\ conversion \in [Conversions -> {"clicked", "charge", "share", "done"}]
  /\ retries \in 0..MaxRetries
  /\ dropped \subseteq Clicks \cup Conversions

MoneyInv == TypeOK /\ Typed /\ SharesInv

\* A step that writes no row, and no event starts or stops to await its share.
LEMMA QuietMoney ==
  ASSUME MoneyInv, WorkersInv, UNCHANGED <<walletVars, conversion, dropped>>,
         Typed',
         \/ worker'["clicks"] = worker["clicks"]
         \/ worker["clicks"].stage # "share" /\ worker'["clicks"].stage # "share"
  PROVE  MoneyInv'
<1>1. TypeOK' /\ ledger' = ledger
  BY DEF walletVars, TypeOK, MoneyInv
<1>2. \A x \in Clicks \cup Conversions : AwaitsShare(x)' = AwaitsShare(x)
  BY AwaitsIsKept
<1>3. ASSUME NEW x \in Clicks \cup Conversions
      PROVE  Agrees(x)'
  <2>1. Spends(x)' = Spends(x) /\ Earnings(x)' = Earnings(x)
    BY <1>1 DEF Spends, Earnings
  <2>. QED
    BY <1>2, <2>1, AgreesIsKept DEF MoneyInv, SharesInv
<1>. QED
  BY <1>1, <1>3 DEF MoneyInv, SharesInv

\* A row for another reference is written, and nothing else of the money moves.
LEMMA OtherMoney ==
  ASSUME MoneyInv, WorkersInv, NEW row,
         ledger' = ledger \/ ledger' = ledger \cup {row}, TypeOK',
         \A x \in Clicks \cup Conversions : row.ref # x,
         UNCHANGED <<counter, conversion, retries, dropped>>,
         worker'["clicks"] = worker["clicks"]
  PROVE  MoneyInv'
<1>1. \A x \in Clicks \cup Conversions : AwaitsShare(x)' = AwaitsShare(x)
  BY AwaitsIsKept
<1>2. ASSUME NEW x \in Clicks \cup Conversions
      PROVE  Agrees(x)'
  <2>1. Spends(x)' = Spends(x) /\ Earnings(x)' = Earnings(x)
    BY OtherRow
  <2>. QED
    BY <1>1, <2>1, AgreesIsKept DEF MoneyInv, SharesInv
<1>. QED
  BY <1>2 DEF MoneyInv, SharesInv, Typed

LEMMA PublishMoney ==
  ASSUME MoneyInv, WorkersInv, NEW m \in Messages, Publish(m)
  PROVE  MoneyInv'
  BY QuietMoney DEF Publish, MoneyInv, Typed

LEMMA ReadBatchMoney ==
  ASSUME MoneyInv, WorkersInv, NEW ch \in Channels, ReadBatch(ch)
  PROVE  MoneyInv'
<1>. DEFINE w == [stage |-> FirstStage(Head(stream[ch])), batch |-> stream[ch],
                  todo |-> stream[ch], n |-> 0]
<1>1. worker' = [worker EXCEPT ![ch] = w] /\ worker[ch].stage = "read"
  BY DEF ReadBatch
<1>2. w.stage # "share"
  BY DEF FirstStage
<1>. HIDE DEF w
<1>3. \/ worker'["clicks"] = worker["clicks"]
      \/ worker["clicks"].stage # "share" /\ worker'["clicks"].stage # "share"
  BY <1>1, <1>2 DEF WorkersInv, Channels
<1>. QED
  BY <1>3, QuietMoney DEF ReadBatch, MoneyInv, Typed

LEMMA AcknowledgeMoney ==
  ASSUME MoneyInv, WorkersInv, NEW ch \in Channels, Acknowledge(ch)
  PROVE  MoneyInv'
<1>1. worker' = [worker EXCEPT ![ch] = Waiting] /\ worker[ch].stage = "flush"
  BY DEF Acknowledge
<1>2. Waiting.stage # "share"
  BY DEF Waiting
<1>3. \/ worker'["clicks"] = worker["clicks"]
      \/ worker["clicks"].stage # "share" /\ worker'["clicks"].stage # "share"
  BY <1>1, <1>2 DEF WorkersInv, Channels
<1>. QED
  BY <1>3, QuietMoney DEF Acknowledge, MoneyInv, Typed

LEMMA FailureMoney ==
  ASSUME MoneyInv, WorkersInv, NEW ch \in Channels, BatchFails(ch)
  PROVE  MoneyInv'
<1>1. /\ worker' = [worker EXCEPT ![ch] = Waiting] /\ retries' = retries + 1
      /\ retries < MaxRetries /\ UNCHANGED <<walletVars, counter, conversion>>
      /\ TypeOK' /\ ledger' = ledger
  BY DEF BatchFails, walletVars, MoneyInv, TypeOK
<1>2. Waiting.stage # "share"
  BY DEF Waiting
<1>3. retries' \in 0..MaxRetries
  BY <1>1, BillingAssumption DEF MoneyInv, Typed
<1>4. CASE ch = "clicks" /\ worker["clicks"].stage = "share"
  <2>. DEFINE m == Head(worker["clicks"].todo)
  <2>1. worker["clicks"].todo # <<>>
    BY <1>4 DEF WorkersInv, ReadsInOrder, Channels
  <2>2. m \in Clicks
    BY <2>1, HeadOfClicks
  <2>3. dropped' = dropped \cup {m}
    BY <1>4 DEF BatchFails
  <2>4. worker'["clicks"].stage # "share"
    BY <1>1, <1>2, <1>4 DEF WorkersInv, Channels
  <2>5. ASSUME NEW x \in Clicks \cup Conversions
        PROVE  Agrees(x)'
    <3>1. /\ Spends(x)' = Spends(x) /\ Earnings(x)' = Earnings(x)
          /\ Agrees(x)
      BY <1>1 DEF Spends, Earnings, MoneyInv, SharesInv
    <3>2. CASE x \in Conversions
      <4>1. x \notin Clicks
        BY <3>2, BillingAssumption
      <4>2. AwaitsShare(x)' = AwaitsShare(x)
        BY <1>1, <4>1, Zenon DEF AwaitsShare
      <4>. QED
        BY <2>3, <3>1, <4>2, AgreesIsKept
    <3>3. CASE x \notin Conversions
      <4>1. ~AwaitsShare(x)' /\ (AwaitsShare(x) => x = m)
        BY <2>4, <3>3, Zenon DEF AwaitsShare, At
      <4>. QED
        BY <2>3, <3>1, <4>1 DEF Agrees
    <3>. QED
      BY <3>2, <3>3
  <2>6. dropped' \subseteq Clicks \cup Conversions
    BY <2>2, <2>3 DEF MoneyInv, Typed
  <2>. QED
    BY <1>1, <1>3, <2>5, <2>6 DEF MoneyInv, SharesInv, Typed
<1>5. CASE ~(ch = "clicks" /\ worker["clicks"].stage = "share")
  <2>1. dropped' = dropped
    BY <1>5, Zenon DEF BatchFails
  <2>2. \/ worker'["clicks"] = worker["clicks"]
        \/ worker["clicks"].stage # "share" /\ worker'["clicks"].stage # "share"
    BY <1>1, <1>2, <1>5 DEF WorkersInv, Channels
  <2>3. Typed'
    BY <1>1, <1>3, <2>1 DEF MoneyInv, Typed
  <2>. QED
    BY <1>1, <2>1, <2>2, <2>3, QuietMoney
<1>. QED
  BY <1>4, <1>5

LEMMA ChargeClickMoney ==
  ASSUME MoneyInv, WorkersInv, NEW m \in Messages, ChargeClick(m)
  PROVE  MoneyInv'
<1>1. /\ At("clicks", "charge", m) /\ UNCHANGED <<counter, conversion, retries, dropped>>
      /\ worker["clicks"].stage = "charge" /\ worker["clicks"].todo # <<>>
      /\ Head(worker["clicks"].todo) = m
  BY DEF ChargeClick, At
<1>2. m \in Clicks /\ m \notin Conversions /\ m \in Refs /\ "clicks" \in Channels
  BY <1>1, HeadOfClicks, BillingAssumption DEF Channels
<1>3. Typed'
  BY <1>1 DEF MoneyInv, Typed
<1>4. CASE Charge(m, m) /\ Goto("clicks", "share", 0)
  <2>1. TypeOK' /\ ledger' = ledger \cup {SpendRow(m, m)}
    BY <1>2, <1>4, ChargeWrites DEF MoneyInv
  <2>2. /\ worker'["clicks"].stage = "share"
        /\ worker'["clicks"].todo = worker["clicks"].todo
    BY <1>2, <1>4, GotoMoves
  <2>3. ASSUME NEW x \in Clicks \cup Conversions
        PROVE  Agrees(x)'
    <3>1. Agrees(x)
      BY DEF MoneyInv, SharesInv
    <3>2. CASE x = m
      <4>1. AwaitsShare(x)'
        BY <1>1, <1>2, <2>2, <3>2 DEF AwaitsShare, At
      <4>. QED
        BY <2>1, <3>1, <3>2, <4>1, AgreesWhenCharged
    <3>3. CASE x # m
      <4>1. AwaitsShare(x)' = AwaitsShare(x)
        <5>1. ~At("clicks", "share", x) /\ ~At("clicks", "share", x)'
          BY <1>1, <2>2, <3>3 DEF At
        <5>. QED
          BY <1>1, <5>1, Zenon DEF AwaitsShare
      <4>2. SpendRow(m, m).ref # x
        BY <3>3 DEF SpendRow
      <4>3. Spends(x)' = Spends(x) /\ Earnings(x)' = Earnings(x)
        BY <2>1, <4>2, OtherRow
      <4>. QED
        BY <1>1, <3>1, <4>1, <4>3, AgreesIsKept
    <3>. QED
      BY <3>2, <3>3
  <2>. QED
    BY <1>3, <2>1, <2>3 DEF MoneyInv, SharesInv
<1>5. CASE Swallowed /\ Advance("clicks")
  <2>1. worker'["clicks"].stage # "share"
    BY <1>2, <1>5, AdvanceMoves
  <2>. QED
    BY <1>1, <1>3, <1>5, <2>1, QuietMoney DEF Swallowed
<1>. QED
  BY <1>4, <1>5 DEF ChargeClick

\* The one event a step shares stops awaiting its share; the others keep theirs.
LEMMA SharedMoney ==
  ASSUME MoneyInv, NEW m \in Clicks \cup Conversions, AwaitsShare(m),
         \/ Share(m, m) /\ dropped' = dropped
         \/ Swallowed /\ dropped' = dropped \cup {m},
         Typed',
         \A x \in Clicks \cup Conversions : x # m => AwaitsShare(x)' = AwaitsShare(x)
  PROVE  MoneyInv'
<1>1. m \in Messages \cup Conversions /\ m \in Refs
  BY BillingAssumption DEF Messages
<1>2. /\ TypeOK' /\ dropped \subseteq dropped'
      /\ \/ /\ ledger' = ledger
            /\ m \in dropped' \/ \E bps \in FeeBps : PublisherShare(Price[m], bps) = 0
         \/ \E a \in Amounts : a <= Price[m] /\ ledger' = ledger \cup {EarningRow(m, m, a)}
  <2>1. CASE Share(m, m) /\ dropped' = dropped
    BY <1>1, <2>1, ShareWrites DEF MoneyInv
  <2>2. CASE Swallowed /\ dropped' = dropped \cup {m}
    BY <2>2 DEF Swallowed, walletVars, MoneyInv, TypeOK
  <2>. QED
    BY <2>1, <2>2
<1>3. ASSUME NEW x \in Clicks \cup Conversions
      PROVE  Agrees(x)'
  <2>1. Agrees(x)
    BY DEF MoneyInv, SharesInv
  <2>2. CASE x = m
    BY <1>1, <1>2, <2>1, <2>2, AgreesWhenShared
  <2>3. CASE x # m
    <3>1. Spends(x)' = Spends(x) /\ Earnings(x)' = Earnings(x)
      <4>1. \A a : EarningRow(m, m, a).ref # x
        BY <2>3 DEF EarningRow
      <4>. QED
        BY <1>2, <4>1, OtherRow
    <3>. QED
      BY <1>2, <2>1, <2>3, <3>1, AgreesIsKept
  <2>. QED
    BY <2>2, <2>3
<1>. QED
  BY <1>2, <1>3 DEF MoneyInv, SharesInv

LEMMA ShareClickMoney ==
  ASSUME MoneyInv, WorkersInv, NEW m \in Messages, ShareClick(m)
  PROVE  MoneyInv'
<1>1. /\ At("clicks", "share", m) /\ UNCHANGED <<counter, conversion, retries>>
      /\ worker["clicks"].stage = "share" /\ worker["clicks"].todo # <<>>
      /\ Head(worker["clicks"].todo) = m /\ Advance("clicks")
      /\ \/ Share(m, m) /\ dropped' = dropped
         \/ Swallowed /\ dropped' = dropped \cup {m}
  BY DEF ShareClick, At
<1>2. m \in Clicks /\ "clicks" \in Channels
  BY <1>1, HeadOfClicks DEF Channels
<1>3. worker'["clicks"].stage # "share"
  BY <1>1, <1>2, AdvanceMoves
<1>4. Typed'
  BY <1>1, <1>2 DEF MoneyInv, Typed
<1>5. AwaitsShare(m)
  BY <1>1, <1>2 DEF AwaitsShare
<1>6. ASSUME NEW x \in Clicks \cup Conversions, x # m
      PROVE  AwaitsShare(x)' = AwaitsShare(x)
  <2>1. ~At("clicks", "share", x) /\ ~At("clicks", "share", x)'
    BY <1>1, <1>3, <1>6 DEF At
  <2>. QED
    BY <1>1, <2>1, Zenon DEF AwaitsShare
<1>. QED
  BY <1>1, <1>2, <1>4, <1>5, <1>6, SharedMoney

LEMMA AfterRawMoves ==
  ASSUME WorkersInv, NEW m, AfterRaw(m)
  PROVE  /\ worker'["clicks"] = worker["clicks"]
         /\ worker'["impressions"].stage \in {"unique", "flush", "charge", "count"}
<1>1. "clicks" \in Channels \ {"impressions"} /\ "impressions" \in Channels
  BY DEF Channels
<1>. QED
  BY <1>1, AdvanceMoves, GotoMoves DEF AfterRaw

LEMMA CountMoney ==
  ASSUME MoneyInv, WorkersInv, NEW m \in Messages, CountRaw(m) \/ CountUnique(m)
  PROVE  MoneyInv'
<1>1. UNCHANGED <<walletVars, conversion, retries, dropped>>
  BY DEF CountRaw, CountUnique
<1>2. CampaignOf[m] \in Campaigns
  BY EventsAreTyped
<1>3. "clicks" \in Channels \ {"impressions"} /\ "impressions" \in Channels
  BY DEF Channels
<1>4. PICK k \in {"raw", "unique"} :
        \E count \in {0, counter[k][CampaignOf[m]] + 1} :
          /\ Increment(k, CampaignOf[m], count)
          /\ \/ AfterCount(count, "charge", AfterRaw(m))
             \/ AfterCount(count, "share", Advance("impressions"))
  BY Zenon DEF CountRaw, CountUnique
<1>5. PICK count \in {0, counter[k][CampaignOf[m]] + 1} :
        /\ Increment(k, CampaignOf[m], count)
        /\ \/ AfterCount(count, "charge", AfterRaw(m))
           \/ AfterCount(count, "share", Advance("impressions"))
  BY <1>4
<1>6. counter' \in [{"raw", "unique"} -> [Campaigns -> Nat]]
  <2>. DEFINE d == CampaignOf[m]
  <2>1. /\ counter \in [{"raw", "unique"} -> [Campaigns -> Nat]]
        /\ counter[k][d] + 1 \in Nat
    BY <1>2 DEF MoneyInv, Typed
  <2>2. \/ counter' = counter
        \/ counter' = [counter EXCEPT ![k][d] = counter[k][d] + 1]
    BY <1>5, <2>1 DEF Increment
  <2>. HIDE DEF d
  <2>. QED
    BY <1>2, <2>1, <2>2 DEF d
<1>7. worker'["clicks"] = worker["clicks"]
  BY <1>3, <1>5, AfterRawMoves, AdvanceMoves, GotoMoves DEF AfterCount
<1>8. Typed'
  BY <1>1, <1>6 DEF MoneyInv, Typed
<1>. QED
  BY <1>1, <1>7, <1>8, QuietMoney

LEMMA HeadOfImpressions ==
  ASSUME WorkersInv, NEW m \in Messages, NEW st, At("impressions", st, m)
  PROVE  worker["impressions"].n \in Nat
  BY DEF WorkersInv, Workers, Channels

LEMMA ChargeBatchMoney ==
  ASSUME BatchRefs \subseteq Refs, MoneyInv, WorkersInv, NEW m \in Messages, ChargeBatch(m)
  PROVE  MoneyInv'
<1>. DEFINE r == ChargeRef(CampaignOf[m], worker["impressions"].n)
<1>1. CampaignOf[m] \in Campaigns /\ worker["impressions"].n \in Nat
  BY EventsAreTyped, HeadOfImpressions DEF ChargeBatch
<1>2. r \in Refs /\ \A x \in Clicks \cup Conversions : r # x
  BY <1>1, RefsAreTyped
<1>3. /\ Charge(m, r) \/ Swallowed
      /\ AfterRaw(m) /\ UNCHANGED <<counter, conversion, retries, dropped>>
  BY DEF ChargeBatch
<1>4. worker'["clicks"] = worker["clicks"]
  BY <1>3, AfterRawMoves
<1>. HIDE DEF r
<1>5. TypeOK' /\ (ledger' = ledger \/ ledger' = ledger \cup {SpendRow(m, r)})
  BY <1>2, <1>3, ChargeWrites DEF Swallowed, walletVars, MoneyInv, TypeOK
<1>6. \A x \in Clicks \cup Conversions : SpendRow(m, r).ref # x
  BY <1>2 DEF SpendRow
<1>. QED
  BY <1>3, <1>4, <1>5, <1>6, OtherMoney

LEMMA ShareBatchMoney ==
  ASSUME BatchRefs \subseteq Refs, MoneyInv, WorkersInv, NEW m \in Messages, ShareBatch(m)
  PROVE  MoneyInv'
<1>. DEFINE r == ShareRef(CampaignOf[m], worker["impressions"].n)
<1>1. CampaignOf[m] \in Campaigns /\ worker["impressions"].n \in Nat
  BY EventsAreTyped, HeadOfImpressions DEF ShareBatch
<1>2. r \in Refs /\ \A x \in Clicks \cup Conversions : r # x
  BY <1>1, RefsAreTyped
<1>3. /\ Share(m, r) \/ Swallowed
      /\ Advance("impressions") /\ UNCHANGED <<counter, conversion, retries, dropped>>
  BY DEF ShareBatch
<1>4. worker'["clicks"] = worker["clicks"]
  <2>1. "clicks" \in Channels \ {"impressions"} /\ "impressions" \in Channels
    BY DEF Channels
  <2>. QED
    BY <1>3, <2>1, AdvanceMoves
<1>. HIDE DEF r
<1>5. PICK a : TypeOK' /\ (ledger' = ledger \/ ledger' = ledger \cup {EarningRow(m, r, a)})
  BY <1>2, <1>3, ShareWrites DEF Swallowed, walletVars, MoneyInv, TypeOK
<1>6. \A x \in Clicks \cup Conversions : EarningRow(m, r, a).ref # x
  BY <1>2 DEF EarningRow
<1>. QED
  BY <1>3, <1>4, <1>5, <1>6, OtherMoney

LEMMA PostbackMoney ==
  ASSUME MoneyInv, WorkersInv, NEW c \in Conversions, Postback(c)
  PROVE  MoneyInv'
<1>1. c \in Refs /\ c \notin Clicks /\ c \in Messages \cup Conversions
  BY BillingAssumption
<1>2. conversion \in [Conversions -> {"clicked", "charge", "share", "done"}]
  BY DEF MoneyInv, Typed
<1>3. UNCHANGED <<worker, counter, retries>>
  BY DEF Postback, ClaimConversion, ChargeConversion, ShareConversion, ConversionMoves
<1>4. ASSUME NEW from, NEW to \in {"charge", "share", "done"},
             ConversionMoves(c, from, to)
      PROVE  /\ conversion'[c] = to /\ conversion[c] = from
             /\ conversion' \in [Conversions -> {"clicked", "charge", "share", "done"}]
             /\ \A x \in Clicks \cup Conversions : x # c => AwaitsShare(x)' = AwaitsShare(x)
  <2>1. /\ conversion' = [conversion EXCEPT ![c] = to] /\ conversion[c] = from
    BY <1>4 DEF ConversionMoves
  <2>2. ASSUME NEW x \in Clicks \cup Conversions, x # c
        PROVE  AwaitsShare(x)' = AwaitsShare(x)
    <3>1. (x \in Conversions /\ conversion[x] = "share")'
            = (x \in Conversions /\ conversion[x] = "share")
      BY <1>2, <2>1, <2>2
    <3>2. At("clicks", "share", x)' = At("clicks", "share", x)
      BY <1>3, Zenon DEF At
    <3>. QED
      BY <3>1, <3>2, Zenon DEF AwaitsShare
  <2>. QED
    BY <1>2, <2>1, <2>2
<1>5. CASE ClaimConversion(c)
  <2>1. ConversionMoves(c, "clicked", "charge") /\ UNCHANGED <<walletVars, dropped>>
    BY <1>5 DEF ClaimConversion
  <2>2. (AwaitsShare(c)' = FALSE) /\ (AwaitsShare(c) = FALSE)
    BY <1>1, <1>4, <2>1 DEF AwaitsShare
  <2>3. ASSUME NEW x \in Clicks \cup Conversions
        PROVE  AwaitsShare(x)' = AwaitsShare(x)
    <3>1. CASE x = c
      BY <2>2, <3>1
    <3>2. CASE x # c
      BY <1>4, <2>1, <3>2
    <3>. QED
      BY <3>1, <3>2
  <2>4. ledger' = ledger /\ TypeOK'
    BY <2>1 DEF walletVars, MoneyInv, TypeOK
  <2>5. \A x \in Clicks \cup Conversions : Agrees(x)'
    BY <2>1, <2>3, <2>4, AgreesIsKept DEF MoneyInv, SharesInv, Spends, Earnings
  <2>. QED
    BY <1>3, <1>4, <2>1, <2>4, <2>5 DEF MoneyInv, SharesInv, Typed
<1>6. CASE ChargeConversion(c)
  <2>1. CASE Charge(c, c) /\ ConversionMoves(c, "charge", "share")
    <3>1. TypeOK' /\ ledger' = ledger \cup {SpendRow(c, c)} /\ dropped' = dropped
      BY <1>1, <1>6, <2>1, ChargeWrites DEF MoneyInv, ChargeConversion
    <3>2. AwaitsShare(c)'
      BY <1>4, <2>1 DEF AwaitsShare
    <3>3. ASSUME NEW x \in Clicks \cup Conversions
          PROVE  Agrees(x)'
      <4>1. Agrees(x)
        BY DEF MoneyInv, SharesInv
      <4>2. CASE x = c
        BY <3>1, <3>2, <4>1, <4>2, AgreesWhenCharged
      <4>3. CASE x # c
        <5>1. SpendRow(c, c).ref # x
          BY <4>3 DEF SpendRow
        <5>2. Spends(x)' = Spends(x) /\ Earnings(x)' = Earnings(x)
          BY <3>1, <5>1, OtherRow
        <5>3. AwaitsShare(x)' = AwaitsShare(x)
          BY <1>4, <2>1, <4>3
        <5>. QED
          BY <3>1, <4>1, <5>2, <5>3, AgreesIsKept
      <4>. QED
        BY <4>2, <4>3
    <3>. QED
      BY <1>3, <1>4, <2>1, <3>1, <3>3 DEF MoneyInv, SharesInv, Typed
  <2>2. CASE Swallowed /\ ConversionMoves(c, "charge", "done")
    <3>1. (AwaitsShare(c)' = FALSE) /\ (AwaitsShare(c) = FALSE)
      BY <1>1, <1>4, <2>2 DEF AwaitsShare
    <3>2. ASSUME NEW x \in Clicks \cup Conversions
          PROVE  AwaitsShare(x)' = AwaitsShare(x)
      <4>1. CASE x = c
        BY <3>1, <4>1
      <4>2. CASE x # c
        BY <1>4, <2>2, <4>2
      <4>. QED
        BY <4>1, <4>2
    <3>3. ledger' = ledger /\ TypeOK' /\ dropped' = dropped
      BY <1>6, <2>2 DEF Swallowed, walletVars, MoneyInv, TypeOK, ChargeConversion
    <3>4. \A x \in Clicks \cup Conversions : Agrees(x)'
      BY <3>2, <3>3, AgreesIsKept DEF MoneyInv, SharesInv, Spends, Earnings
    <3>. QED
      BY <1>3, <1>4, <2>2, <3>3, <3>4 DEF MoneyInv, SharesInv, Typed
  <2>. QED
    BY <1>6, <2>1, <2>2 DEF ChargeConversion
<1>7. CASE ShareConversion(c)
  <2>1. /\ ConversionMoves(c, "share", "done")
        /\ \/ Share(c, c) /\ dropped' = dropped
           \/ Swallowed /\ dropped' = dropped \cup {c}
    BY <1>7 DEF ShareConversion
  <2>2. AwaitsShare(c)
    BY <1>4, <2>1 DEF AwaitsShare
  <2>3. Typed'
    BY <1>3, <1>4, <2>1 DEF MoneyInv, Typed
  <2>. QED
    BY <1>4, <2>1, <2>2, <2>3, SharedMoney
<1>. QED
  BY <1>5, <1>6, <1>7 DEF Postback

-----------------------------------------------------------------------------
(* Every step *)

LEMMA InitMoney == BillingInit => MoneyInv /\ WorkersInv
<1>. SUFFICES ASSUME BillingInit
              PROVE  MoneyInv /\ WorkersInv
  OBVIOUS
<1>1. Budget \in Amounts /\ Budget \in Nat /\ MaxRetries \in Nat
  BY BillingAssumption, WalletAssumption
<1>2. \A c \in Campaigns : Owner[c] \in Users
  BY WalletAssumption DEF Users
<1>3. wallet \in [Users -> Wallets]
  <2>1. ASSUME NEW u \in Users
        PROVE  Budget * Cardinality({c \in Campaigns : Owner[c] = u}) \in Nat
    <3>1. IsFiniteSet({c \in Campaigns : Owner[c] = u})
      BY WalletAssumption, FS_Subset
    <3>2. Cardinality({c \in Campaigns : Owner[c] = u}) \in Nat
      BY <3>1, FS_CardinalityType
    <3>. QED
      BY <1>1, <3>2
  <2>2. ASSUME NEW total \in Nat
        PROVE  [EmptyWallet EXCEPT !.reservedBalance = total, !.totalDeposited = total]
                 \in Wallets
    <3>. DEFINE w == [EmptyWallet EXCEPT !.reservedBalance = total]
    <3>1. EmptyWallet \in Wallets
      BY DEF EmptyWallet, Wallets
    <3>2. w \in Wallets
      BY <2>2, <3>1 DEF Wallets
    <3>. HIDE DEF w
    <3>3. [w EXCEPT !.totalDeposited = total] \in Wallets
      BY <2>2, <3>2 DEF Wallets
    <3>. QED
      BY <3>3 DEF w
  <2>. QED
    BY <2>1, <2>2 DEF BillingInit
<1>4. ASSUME NEW row \in ledger
      PROVE  /\ row \in WalletTransaction /\ row.ref \in Campaigns
             /\ row.user = Owner[row.ref] /\ row.amount = Budget
             /\ row.type \in {"DEPOSIT", "CAMPAIGN_RESERVATION"}
  <2>1. PICK c \in Campaigns, type \in {"DEPOSIT", "CAMPAIGN_RESERVATION"} :
          row = [user |-> Owner[c], type |-> type, ref |-> c, amount |-> Budget]
    BY DEF BillingInit
  <2>2. /\ row.ref = c /\ row.user = Owner[c] /\ row.amount = Budget /\ row.type = type
    BY <2>1
  <2>3. /\ type \in TransactionType /\ c \in TransactionRefs /\ Owner[c] \in Users
    BY <1>2, <2>1 DEF TransactionType, TransactionRefs
  <2>4. row \in WalletTransaction
    BY <1>1, <2>1, <2>3 DEF WalletTransaction
  <2>. QED
    BY <2>1, <2>2, <2>4
<1>5. TypeOK
  <2>1. /\ balance \in [Users -> Nat]
        /\ campaign \in [Campaigns -> [status: CampaignStatus, reservedAmount: Nat,
                                       spentAmount: Nat]]
    BY <1>1 DEF BillingInit, CampaignStatus
  <2>. QED
    BY <1>3, <1>4, <2>1 DEF TypeOK
<1>6. Typed
  <2>1. 0 \in 0..MaxRetries
    BY <1>1
  <2>2. counter \in [{"raw", "unique"} -> [Campaigns -> Nat]]
    BY DEF BillingInit
  <2>3. conversion \in [Conversions -> {"clicked", "charge", "share", "done"}]
    BY DEF BillingInit
  <2>. QED
    BY <2>1, <2>2, <2>3 DEF BillingInit, Typed
<1>7. ASSUME NEW x \in Clicks \cup Conversions
      PROVE  Agrees(x)
  <2>1. Spends(x) = {} /\ Earnings(x) = {}
    BY <1>4 DEF Spends, Earnings
  <2>2. ~AwaitsShare(x)
    BY DEF BillingInit, AwaitsShare, At, Waiting, Channels
  <2>. QED
    BY <2>1, <2>2 DEF Agrees
<1>8. WorkersInv
  <2>1. /\ published = {} /\ worker \in [Channels -> Workers]
        /\ \A ch \in Channels : worker[ch] = Waiting /\ stream[ch] = <<>>
    BY WaitingIsWorker DEF BillingInit
  <2>2. stream \in [Channels -> Seq(Messages)]
    BY EmptySeq DEF BillingInit
  <2>3. ASSUME NEW ch \in Channels
        PROVE  ReadsInOrder(ch)
    <3>. DEFINE none == <<>>
    <3>1. none \in Seq(MessagesOf(ch)) /\ \A i \in 1..Len(none) : none[i] \in published
      BY EmptySeq
    <3>2. worker[ch] = Waiting /\ stream[ch] = none
      BY <2>1
    <3>3. /\ Waiting.stage = "read" /\ Waiting.batch \in Seq(MessagesOf(ch))
          /\ Waiting.todo \in Seq(MessagesOf(ch))
          /\ BackOf(Waiting.todo, Waiting.batch) /\ FrontOf(Waiting.batch, none)
      BY <3>1, WaitingReadsInOrder
    <3>. HIDE DEF none
    <3>. QED
      BY <3>1, <3>2, <3>3 DEF ReadsInOrder
  <2>. QED
    BY <2>1, <2>2, <2>3 DEF WorkersInv
<1>. QED
  BY <1>5, <1>6, <1>7, <1>8 DEF MoneyInv, SharesInv

LEMMA NextMoney ==
  ASSUME BatchRefs \subseteq Refs, MoneyInv, WorkersInv, [BillingNext]_billingVars
  PROVE  MoneyInv' /\ WorkersInv'
<1>1. CASE UNCHANGED billingVars
  <2>1. UNCHANGED <<published, stream>> /\ worker' = worker /\ UNCHANGED walletVars
        /\ UNCHANGED <<conversion, dropped, counter, retries>>
    BY <1>1 DEF billingVars, walletVars
  <2>2. Typed' /\ WorkersInv'
    BY <2>1 DEF MoneyInv, Typed, WorkersInv, ReadsInOrder
  <2>. QED
    BY <2>1, <2>2, QuietMoney
<1>2. ASSUME NEW m \in Messages, Publish(m)
      PROVE  MoneyInv' /\ WorkersInv'
  BY <1>2, PublishMoney, PublishWorkers
<1>3. ASSUME NEW ch \in Channels, WorkerStep(ch)
      PROVE  MoneyInv' /\ WorkersInv'
  <2>1. ASSUME NEW m \in Messages, Bill(m)
        PROVE  MoneyInv' /\ WorkersInv'
    <3>1. WorkersInv'
      BY <2>1, BillWorkers DEF MoneyInv, Typed
    <3>2. MoneyInv'
      BY <2>1, ChargeClickMoney, ShareClickMoney, CountMoney, ChargeBatchMoney,
         ShareBatchMoney DEF Bill
    <3>. QED
      BY <3>1, <3>2
  <2>. QED
    BY <1>3, <2>1, ReadBatchMoney, ReadBatchWorkers, AcknowledgeMoney,
       AcknowledgeWorkers DEF WorkerStep
<1>4. ASSUME NEW ch \in Channels, BatchFails(ch)
      PROVE  MoneyInv' /\ WorkersInv'
  BY <1>4, FailureMoney, FailureWorkers
<1>5. ASSUME NEW c \in Conversions, Postback(c)
      PROVE  MoneyInv' /\ WorkersInv'
  <2>1. UNCHANGED <<published, stream, worker>>
    BY <1>5 DEF Postback, ClaimConversion, ChargeConversion, ShareConversion,
                ConversionMoves
  <2>2. WorkersInv'
    BY <2>1 DEF WorkersInv, ReadsInOrder
  <2>. QED
    BY <1>5, <2>2, PostbackMoney
<1>. QED
  BY <1>1, <1>2, <1>3, <1>4, <1>5 DEF BillingNext

LEMMA WorkersAreTyped ==
  ASSUME MoneyInv, WorkersInv
  PROVE  BillingTypeOK
<1>1. ASSUME NEW ch \in Channels
      PROVE  /\ Range(stream[ch]) \subseteq published
             /\ worker[ch].stage \in
                  {"read", "count", "charge", "unique", "share", "flush"}
             /\ worker[ch].n \in Nat
             /\ IsSuffix(worker[ch].todo, worker[ch].batch)
             /\ IsPrefix(worker[ch].batch, stream[ch])
  <2>1. ReadsInOrder(ch) /\ worker[ch] \in Workers
    BY DEF WorkersInv
  <2>2. /\ IsSuffix(worker[ch].todo, worker[ch].batch)
        /\ IsPrefix(worker[ch].batch, stream[ch])
    BY <2>1, BackIsSuffix, FrontIsPrefix DEF ReadsInOrder
  <2>3. Range(stream[ch]) \subseteq published
    <3>1. DOMAIN stream[ch] = 1..Len(stream[ch])
      BY <2>1 DEF ReadsInOrder
    <3>. QED
      BY <2>1, <3>1 DEF Range, ReadsInOrder
  <2>. QED
    BY <2>1, <2>2, <2>3 DEF Workers, Stages
<1>. QED
  BY <1>1 DEF BillingTypeOK, MoneyInv, Typed, WorkersInv

BillingInv == MoneyInv /\ WorkersInv

\* However events are redelivered, batches fail and lookups or transactions are
\* swallowed: earnings never exceed charges, and a charge is shared unless its
\* credit was dropped.  Batch references are ledger references.
THEOREM ChargesAndSharesAgree ==
  ASSUME BatchRefs \subseteq Refs
  PROVE  BillingSpec => []ChargesMatchShares
<1>1. BillingInit => BillingInv
  BY InitMoney DEF BillingInv
<1>2. BillingInv /\ [BillingNext]_billingVars => BillingInv'
  BY NextMoney DEF BillingInv
<1>3. BillingInv => ChargesMatchShares
  BY WorkersAreTyped, AgreesIsBoth DEF BillingInv, ChargesMatchShares, MoneyInv
<1>. QED
  BY <1>1, <1>2, <1>3, PTL DEF BillingSpec

-----------------------------------------------------------------------------
(* Batches *)

\* WalletTransaction's unique index.
UniqueRows ==
  \A p, q \in ledger : p.user = q.user /\ p.type = q.type /\ p.ref = q.ref => p = q

\* A charge of batch n follows n * BatchSize counted impressions.
ChargesFollow ==
  \A row \in ledger, c \in Campaigns, n \in Nat :
    row.ref = ChargeRef(c, n) =>
      /\ row.user = Owner[c] /\ row.type = "AD_SPEND"
      /\ n * BatchSize <= counter["raw"][c]

SharesFollow ==
  \A row \in ledger, c \in Campaigns, n \in Nat :
    row.ref = ShareRef(c, n) =>
      /\ row.user \in Publishers /\ row.type = "PUBLISHER_EARNING"
      /\ n * BatchSize <= counter["unique"][c]

\* A batch that was counted is shared with one publisher.
SharedOnce ==
  \A p, q \in ledger, c \in Campaigns, n \in Nat \ {0} :
    p.ref = ShareRef(c, n) /\ q.ref = ShareRef(c, n) => p = q

\* What the worker knows of the batch it is about to bill: it counted it, and a
\* batch it counted was not shared before.
BillsCounted ==
  \A m \in Messages :
    LET c == CampaignOf[m]
        n == worker["impressions"].n
    IN /\ At("impressions", "charge", m) => n * BatchSize <= counter["raw"][c]
       /\ At("impressions", "share", m) =>
            /\ n * BatchSize <= counter["unique"][c]
            /\ n # 0 => \A row \in ledger : row.ref # ShareRef(c, n)

BatchesInv == UniqueRows /\ ChargesFollow /\ SharesFollow /\ SharedOnce /\ BillsCounted

LEMMA RefsDiffer ==
  ASSUME NEW c, NEW n, NEW d, NEW k
  PROVE  /\ ChargeRef(c, n) = ChargeRef(d, k) => c = d /\ n = k
         /\ ShareRef(c, n) = ShareRef(d, k) => c = d /\ n = k
         /\ ChargeRef(c, n) # ShareRef(d, k)
  BY DEF ChargeRef, ShareRef

LEMMA ProductsAreNat ==
  ASSUME NEW n \in Nat
  PROVE  n * BatchSize \in Nat
<1>1. BatchSize \in Nat
  BY BillingAssumption
<1>. QED
  BY <1>1

\* No row is written, no counter falls, and no batch is about to be billed that
\* was not before.
LEMMA QuietBatches ==
  ASSUME BatchesInv, Typed, Typed', ledger' = ledger,
         \A k \in {"raw", "unique"}, c \in Campaigns : counter[k][c] <= counter'[k][c],
         \/ worker'["impressions"] = worker["impressions"]
         \/ worker'["impressions"].stage \notin {"charge", "share"},
         WorkersInv
  PROVE  BatchesInv'
<1>1. \A k \in {"raw", "unique"}, c \in Campaigns :
        counter[k][c] \in Nat /\ counter'[k][c] \in Nat
  BY DEF Typed
<1>2. ASSUME NEW n \in Nat, NEW k \in {"raw", "unique"}, NEW c \in Campaigns,
             n * BatchSize <= counter[k][c]
      PROVE  n * BatchSize <= counter'[k][c]
  <2>. DEFINE p == n * BatchSize
  <2>1. p \in Nat /\ p <= counter[k][c] /\ counter[k][c] <= counter'[k][c]
    BY <1>2, ProductsAreNat
  <2>. HIDE DEF p
  <2>2. p <= counter'[k][c]
    BY <1>1, <2>1
  <2>. QED
    BY <2>2 DEF p
<1>3. UniqueRows' /\ SharedOnce'
  BY DEF BatchesInv, UniqueRows, SharedOnce
<1>4. ChargesFollow' /\ SharesFollow'
  BY <1>2 DEF BatchesInv, ChargesFollow, SharesFollow
<1>5. BillsCounted'
  <2>1. CASE worker'["impressions"] = worker["impressions"]
    <3>. SUFFICES ASSUME NEW m \in Messages
                  PROVE  LET c == CampaignOf[m]
                             n == worker'["impressions"].n
                         IN /\ At("impressions", "charge", m)' =>
                                 n * BatchSize <= counter'["raw"][c]
                            /\ At("impressions", "share", m)' =>
                                 /\ n * BatchSize <= counter'["unique"][c]
                                 /\ n # 0 => \A row \in ledger' : row.ref # ShareRef(c, n)
      BY DEF BillsCounted
    <3>1. CampaignOf[m] \in Campaigns /\ worker["impressions"].n \in Nat
      BY EventsAreTyped DEF WorkersInv, Workers, Channels
    <3>2. /\ At("impressions", "charge", m)' => At("impressions", "charge", m)
          /\ At("impressions", "share", m)' => At("impressions", "share", m)
      BY <2>1 DEF At
    <3>. QED
      BY <1>2, <2>1, <3>1, <3>2 DEF BatchesInv, BillsCounted
  <2>2. CASE worker'["impressions"].stage \notin {"charge", "share"}
    BY <2>2 DEF BillsCounted, At
  <2>. QED
    BY <2>1, <2>2
<1>. QED
  BY <1>3, <1>4, <1>5 DEF BatchesInv

\* A row of a click or a conversion is written, and the impressions' worker
\* stays where it is.
LEMMA EventBatches ==
  ASSUME BatchesInv, WorkersInv, NEW x \in Clicks \cup Conversions, NEW row,
         row.ref = x, BatchRefs \subseteq Refs,
         ~Recorded(row.user, row.type, x), ledger' = ledger \cup {row},
         UNCHANGED counter, worker'["impressions"] = worker["impressions"]
  PROVE  BatchesInv'
<1>1. \A c \in Campaigns, n \in Nat : row.ref # ChargeRef(c, n) /\ row.ref # ShareRef(c, n)
  BY RefsAreTyped
<1>2. UniqueRows'
  BY DEF BatchesInv, UniqueRows, Recorded
<1>3. ChargesFollow' /\ SharesFollow' /\ SharedOnce'
  BY <1>1 DEF BatchesInv, ChargesFollow, SharesFollow, SharedOnce
<1>4. BillsCounted'
  <2>1. \A m \in Messages : CampaignOf[m] \in Campaigns
    BY EventsAreTyped
  <2>2. worker["impressions"].n \in Nat
    BY DEF WorkersInv, Workers, Channels
  <2>. QED
    BY <1>1, <2>1, <2>2 DEF BatchesInv, BillsCounted, At
<1>. QED
  BY <1>2, <1>3, <1>4 DEF BatchesInv

\* An impression is counted before it is charged.
LEMMA ImpressionsCountFirst ==
  ASSUME NEW rest \in Seq(MessagesOf("impressions")), rest # <<>>
  PROVE  FirstStage(Head(rest)) = "count"
<1>1. Head(rest) \in MessagesOf("impressions")
  BY HeadTailProperties
<1>. QED
  BY <1>1 DEF MessagesOf, ChannelOf, FirstStage

LEMMA ImpressionsAdvance ==
  ASSUME WorkersInv, worker["impressions"].todo # <<>>, Advance("impressions")
  PROVE  worker'["impressions"].stage \in {"flush", "count"}
<1>. DEFINE old == worker["impressions"]
            rest == Tail(old.todo)
            next == IF rest = <<>> THEN "flush" ELSE FirstStage(Head(rest))
            w == [old EXCEPT !.todo = rest, !.n = 0, !.stage = next]
<1>1. /\ "impressions" \in Channels /\ worker \in [Channels -> Workers]
      /\ old \in Workers /\ old.todo \in Seq(MessagesOf("impressions"))
  BY DEF WorkersInv, ReadsInOrder, Channels
<1>2. rest \in Seq(MessagesOf("impressions"))
  BY <1>1, HeadTailProperties
<1>3. next \in {"flush", "count"}
  BY <1>2, ImpressionsCountFirst
<1>4. worker' = [worker EXCEPT !["impressions"] = w]
  BY <1>1 DEF Advance
<1>5. w.stage = next
  BY <1>1 DEF Workers
<1>. HIDE DEF w, next
<1>. QED
  BY <1>1, <1>3, <1>4, <1>5

LEMMA ImpressionsAfterRaw ==
  ASSUME WorkersInv, worker["impressions"].todo # <<>>, NEW m, AfterRaw(m)
  PROVE  worker'["impressions"].stage \in {"unique", "flush", "count"}
  BY ImpressionsAdvance, GotoMoves DEF AfterRaw, Channels

LEMMA MovesBatches ==
  ASSUME BatchesInv, WorkersInv, MoneyInv,
         \/ \E m \in Messages : Publish(m)
         \/ \E ch \in Channels : ReadBatch(ch) \/ Acknowledge(ch) \/ BatchFails(ch)
  PROVE  BatchesInv'
<1>1. ledger' = ledger /\ counter' = counter
  BY DEF Publish, ReadBatch, Acknowledge, BatchFails, walletVars
<1>2. /\ Typed /\ counter \in [{"raw", "unique"} -> [Campaigns -> Nat]]
  BY DEF MoneyInv, Typed
<1>3. MoneyInv'
  BY PublishMoney, ReadBatchMoney, AcknowledgeMoney, FailureMoney
<1>4. \A k \in {"raw", "unique"}, c \in Campaigns : counter[k][c] <= counter'[k][c]
  BY <1>1, <1>2
<1>5. \/ worker'["impressions"] = worker["impressions"]
      \/ worker'["impressions"].stage \notin {"charge", "share"}
  <2>1. CASE \E m \in Messages : Publish(m)
    BY <2>1 DEF Publish
  <2>2. ASSUME NEW ch \in Channels, ReadBatch(ch)
        PROVE  \/ worker'["impressions"] = worker["impressions"]
               \/ worker'["impressions"].stage \notin {"charge", "share"}
    <3>. DEFINE w == [stage |-> FirstStage(Head(stream[ch])), batch |-> stream[ch],
                      todo |-> stream[ch], n |-> 0]
    <3>1. /\ worker' = [worker EXCEPT ![ch] = w] /\ w.stage = FirstStage(Head(stream[ch]))
          /\ stream[ch] # <<>> /\ worker \in [Channels -> Workers]
          /\ stream[ch] \in Seq(MessagesOf(ch)) /\ "impressions" \in Channels
      BY <2>2 DEF ReadBatch, WorkersInv, ReadsInOrder, Channels
    <3>. HIDE DEF w
    <3>. QED
      BY <3>1, ImpressionsCountFirst
  <2>3. ASSUME NEW ch \in Channels, worker' = [worker EXCEPT ![ch] = Waiting]
        PROVE  \/ worker'["impressions"] = worker["impressions"]
               \/ worker'["impressions"].stage \notin {"charge", "share"}
    <3>1. Waiting.stage = "read" /\ worker \in [Channels -> Workers]
      BY DEF Waiting, WorkersInv
    <3>. QED
      BY <2>3, <3>1 DEF Channels
  <2>. QED
    BY <2>1, <2>2, <2>3 DEF Acknowledge, BatchFails
<1>. QED
  BY <1>1, <1>2, <1>3, <1>4, <1>5, QuietBatches DEF MoneyInv

LEMMA ClickBatches ==
  ASSUME BatchRefs \subseteq Refs, BatchesInv, WorkersInv, MoneyInv,
         NEW m \in Messages, ChargeClick(m) \/ ShareClick(m)
  PROVE  BatchesInv'
<1>1. /\ worker["clicks"].todo # <<>> /\ Head(worker["clicks"].todo) = m
      /\ counter' = counter
  BY DEF ChargeClick, ShareClick, At
<1>2. m \in Clicks /\ m \in Refs
  BY <1>1, HeadOfClicks, BillingAssumption
<1>3. "impressions" \in Channels \ {"clicks"} /\ "clicks" \in Channels
  BY DEF Channels
<1>4. worker'["impressions"] = worker["impressions"]
  BY <1>3, AdvanceMoves, GotoMoves DEF ChargeClick, ShareClick
<1>5. Typed /\ Typed'
  BY ChargeClickMoney, ShareClickMoney DEF MoneyInv
<1>6. CASE ledger' = ledger
  <2>1. \A k \in {"raw", "unique"}, c \in Campaigns : counter[k][c] <= counter'[k][c]
    BY <1>1, <1>5 DEF Typed
  <2>. QED
    BY <1>4, <1>5, <1>6, <2>1, QuietBatches
<1>7. CASE Charge(m, m)
  <2>1. /\ ledger' = ledger \cup {SpendRow(m, m)}
        /\ ~Recorded(Owner[CampaignOf[m]], "AD_SPEND", m)
    BY <1>2, <1>7, ChargeWrites DEF MoneyInv
  <2>2. /\ SpendRow(m, m).ref = m /\ SpendRow(m, m).type = "AD_SPEND"
        /\ SpendRow(m, m).user = Owner[CampaignOf[m]]
    BY DEF SpendRow
  <2>. QED
    BY <1>1, <1>2, <1>4, <2>1, <2>2, EventBatches
<1>8. CASE Share(m, m)
  <2>1. \/ ledger' = ledger
        \/ \E a \in Amounts :
             /\ ledger' = ledger \cup {EarningRow(m, m, a)}
             /\ ~Recorded(PublisherOf[m], "PUBLISHER_EARNING", m)
    BY <1>2, <1>8, ShareWrites DEF MoneyInv
  <2>2. \A a : /\ EarningRow(m, m, a).ref = m
                /\ EarningRow(m, m, a).type = "PUBLISHER_EARNING"
                /\ EarningRow(m, m, a).user = PublisherOf[m]
    BY DEF EarningRow
  <2>. QED
    BY <1>1, <1>2, <1>4, <1>6, <2>1, <2>2, EventBatches
<1>. QED
  BY <1>6, <1>7, <1>8 DEF ChargeClick, ShareClick, Swallowed, walletVars

LEMMA PostbackBatches ==
  ASSUME BatchRefs \subseteq Refs, BatchesInv, WorkersInv, MoneyInv,
         NEW x \in Conversions, Postback(x)
  PROVE  BatchesInv'
<1>1. UNCHANGED <<worker, counter>>
  BY DEF Postback, ClaimConversion, ChargeConversion, ShareConversion, ConversionMoves
<1>2. x \in Refs /\ x \in Messages \cup Conversions
  BY BillingAssumption
<1>3. Typed /\ Typed'
  BY PostbackMoney DEF MoneyInv
<1>4. CASE ledger' = ledger
  <2>1. \A k \in {"raw", "unique"}, c \in Campaigns : counter[k][c] <= counter'[k][c]
    BY <1>1, <1>3 DEF Typed
  <2>. QED
    BY <1>1, <1>3, <1>4, <2>1, QuietBatches
<1>5. CASE Charge(x, x)
  <2>1. /\ ledger' = ledger \cup {SpendRow(x, x)}
        /\ ~Recorded(Owner[CampaignOf[x]], "AD_SPEND", x)
    BY <1>2, <1>5, ChargeWrites DEF MoneyInv
  <2>2. /\ SpendRow(x, x).ref = x /\ SpendRow(x, x).type = "AD_SPEND"
        /\ SpendRow(x, x).user = Owner[CampaignOf[x]]
    BY DEF SpendRow
  <2>. QED
    BY <1>1, <2>1, <2>2, EventBatches
<1>6. CASE Share(x, x)
  <2>1. \/ ledger' = ledger
        \/ \E a \in Amounts :
             /\ ledger' = ledger \cup {EarningRow(x, x, a)}
             /\ ~Recorded(PublisherOf[x], "PUBLISHER_EARNING", x)
    BY <1>2, <1>6, ShareWrites DEF MoneyInv
  <2>2. \A a : /\ EarningRow(x, x, a).ref = x
                /\ EarningRow(x, x, a).type = "PUBLISHER_EARNING"
                /\ EarningRow(x, x, a).user = PublisherOf[x]
    BY DEF EarningRow
  <2>. QED
    BY <1>1, <1>4, <2>1, <2>2, EventBatches
<1>. QED
  BY <1>4, <1>5, <1>6
  DEF Postback, ClaimConversion, ChargeConversion, ShareConversion, Swallowed, walletVars

\* What an INCR does to the counters, and what it answers.
LEMMA IncrementCounts ==
  ASSUME Typed, NEW k \in {"raw", "unique"}, NEW d \in Campaigns,
         NEW count \in {0, counter[k][d] + 1}, Increment(k, d, count)
  PROVE  /\ count \in Nat /\ count <= counter'[k][d]
         /\ count # 0 => counter[k][d] < count
         /\ \A j \in {"raw", "unique"}, c \in Campaigns : counter[j][c] <= counter'[j][c]
<1>1. /\ counter \in [{"raw", "unique"} -> [Campaigns -> Nat]]
      /\ counter[k][d] \in Nat
  BY DEF Typed
<1>2. \/ count = counter[k][d] + 1 /\ counter' = [counter EXCEPT ![k][d] = count]
      \/ count = 0 /\ counter' = counter
      \/ count = 0 /\ counter' = [counter EXCEPT ![k][d] = counter[k][d] + 1]
  BY <1>1 DEF Increment
<1>3. \/ counter' = counter
      \/ /\ counter'[k][d] = counter[k][d] + 1
         /\ \A j \in {"raw", "unique"}, c \in Campaigns :
              (j # k \/ c # d) => counter'[j][c] = counter[j][c]
  BY <1>1, <1>2
<1>4. ASSUME NEW j \in {"raw", "unique"}, NEW c \in Campaigns
      PROVE  counter[j][c] <= counter'[j][c]
  <2>1. counter[j][c] \in Nat
    BY <1>1
  <2>2. CASE j = k /\ c = d
    BY <1>1, <1>3, <2>1, <2>2
  <2>3. CASE j # k \/ c # d
    BY <1>3, <2>1, <2>3
  <2>. QED
    BY <2>2, <2>3
<1>5. count \in Nat /\ count <= counter'[k][d] /\ (count # 0 => counter[k][d] < count)
  <2>1. CASE count = counter[k][d] + 1 /\ counter' = [counter EXCEPT ![k][d] = count]
    <3>1. counter'[k][d] = count
      BY <1>1, <2>1
    <3>. QED
      BY <1>1, <2>1, <3>1
  <2>2. CASE count = 0
    <3>1. 0 <= counter'[k][d]
      BY <1>1, <1>3
    <3>. QED
      BY <2>2, <3>1
  <2>. QED
    BY <1>2, <2>1, <2>2
<1>. QED
  BY <1>4, <1>5

\* The worker moves on to bill the batch m filled.
LEMMA BatchIsFull ==
  ASSUME BatchesInv, Typed, Typed', WorkersInv, NEW m \in Messages, ledger' = ledger,
         NEW k \in {"raw", "unique"},
         NEW count \in Nat, count <= counter'[k][CampaignOf[m]],
         count # 0 => counter[k][CampaignOf[m]] < count,
         \A j \in {"raw", "unique"}, c \in Campaigns : counter[j][c] <= counter'[j][c],
         count % BatchSize = 0,
         worker["impressions"].todo # <<>>, Head(worker["impressions"].todo) = m,
         Goto("impressions", IF k = "raw" THEN "charge" ELSE "share",
              count \div BatchSize)
  PROVE  BatchesInv'
<1>. DEFINE n == count \div BatchSize
            d == CampaignOf[m]
<1>1. n \in Nat /\ n * BatchSize = count
  BY WholeBatches
<1>2. d \in Campaigns
  BY EventsAreTyped
<1>3. /\ worker'["impressions"].stage = IF k = "raw" THEN "charge" ELSE "share"
      /\ worker'["impressions"].n = n
      /\ worker'["impressions"].todo = worker["impressions"].todo
  BY GotoMoves DEF Channels
<1>. HIDE DEF n
<1>4. \A c \in Campaigns, i \in Nat, j \in {"raw", "unique"} :
        i * BatchSize <= counter[j][c] => i * BatchSize <= counter'[j][c]
  <2>. SUFFICES ASSUME NEW c \in Campaigns, NEW i \in Nat, NEW j \in {"raw", "unique"},
                       i * BatchSize <= counter[j][c]
                PROVE  i * BatchSize <= counter'[j][c]
    OBVIOUS
  <2>. DEFINE p == i * BatchSize
  <2>1. /\ p \in Nat /\ p <= counter[j][c] /\ counter[j][c] <= counter'[j][c]
        /\ counter[j][c] \in Nat /\ counter'[j][c] \in Nat
    BY ProductsAreNat DEF Typed
  <2>. HIDE DEF p
  <2>2. p <= counter'[j][c]
    BY <2>1
  <2>. QED
    BY <2>2 DEF p
<1>5. UniqueRows' /\ SharedOnce' /\ ChargesFollow' /\ SharesFollow'
  BY <1>4 DEF BatchesInv, UniqueRows, SharedOnce, ChargesFollow, SharesFollow
<1>6. k = "unique" /\ n # 0 => \A row \in ledger : row.ref # ShareRef(d, n)
  <2>. SUFFICES ASSUME k = "unique", n # 0, NEW row \in ledger, row.ref = ShareRef(d, n)
                PROVE  FALSE
    OBVIOUS
  <2>1. n * BatchSize <= counter["unique"][d]
    BY <1>1, <1>2 DEF BatchesInv, SharesFollow
  <2>2. count <= counter["unique"][d] /\ counter["unique"][d] \in Nat
    BY <1>1, <1>2, <2>1 DEF Typed
  <2>3. count # 0
    <3>1. BatchSize \in Nat \ {0}
      BY BillingAssumption
    <3>. QED
      BY <1>1, <3>1
  <2>. QED
    BY <2>2, <2>3
<1>7. BillsCounted'
  <2>. SUFFICES ASSUME NEW x \in Messages
                PROVE  /\ At("impressions", "charge", x)' =>
                            worker'["impressions"].n * BatchSize
                              <= counter'["raw"][CampaignOf[x]]
                       /\ At("impressions", "share", x)' =>
                            /\ worker'["impressions"].n * BatchSize
                                 <= counter'["unique"][CampaignOf[x]]
                            /\ worker'["impressions"].n # 0 =>
                                 \A row \in ledger' :
                                   row.ref # ShareRef(CampaignOf[x], worker'["impressions"].n)
    BY DEF BillsCounted
  <2>1. CASE x # m
    BY <1>3, <2>1 DEF At
  <2>2. CASE x = m
    BY <1>1, <1>3, <1>6, <2>2 DEF At
  <2>. QED
    BY <2>1, <2>2
<1>. QED
  BY <1>5, <1>7 DEF BatchesInv

LEMMA CountBatches ==
  ASSUME BatchesInv, WorkersInv, MoneyInv, NEW m \in Messages,
         CountRaw(m) \/ CountUnique(m)
  PROVE  BatchesInv'
<1>1. /\ worker["impressions"].todo # <<>> /\ Head(worker["impressions"].todo) = m
      /\ ledger' = ledger
  BY DEF CountRaw, CountUnique, At, walletVars
<1>2. Typed /\ Typed'
  BY CountMoney DEF MoneyInv
<1>3. CampaignOf[m] \in Campaigns
  BY EventsAreTyped
<1>4. CASE CountRaw(m)
  <2>1. PICK count \in {0, counter["raw"][CampaignOf[m]] + 1} :
          /\ Increment("raw", CampaignOf[m], count)
          /\ AfterCount(count, "charge", AfterRaw(m))
    BY <1>4 DEF CountRaw
  <2>2. /\ count \in Nat /\ count <= counter'["raw"][CampaignOf[m]]
        /\ count # 0 => counter["raw"][CampaignOf[m]] < count
        /\ \A j \in {"raw", "unique"}, c \in Campaigns : counter[j][c] <= counter'[j][c]
    BY <1>2, <1>3, <2>1, IncrementCounts
  <2>3. CASE count % BatchSize = 0
    <3>1. Goto("impressions", "charge", count \div BatchSize)
      BY <2>1, <2>3 DEF AfterCount
    <3>2. Goto("impressions", IF "raw" = "raw" THEN "charge" ELSE "share",
               count \div BatchSize)
      BY <3>1
    <3>. QED
      BY <1>1, <1>2, <2>2, <2>3, <3>2, BatchIsFull
  <2>4. CASE count % BatchSize # 0
    <3>1. worker'["impressions"].stage \in {"unique", "flush", "count"}
      BY <1>1, <2>1, <2>4, ImpressionsAfterRaw DEF AfterCount
    <3>. QED
      BY <1>1, <1>2, <2>2, <3>1, QuietBatches
  <2>. QED
    BY <2>3, <2>4
<1>5. CASE CountUnique(m)
  <2>1. PICK count \in {0, counter["unique"][CampaignOf[m]] + 1} :
          /\ Increment("unique", CampaignOf[m], count)
          /\ AfterCount(count, "share", Advance("impressions"))
    BY <1>5 DEF CountUnique
  <2>2. /\ count \in Nat /\ count <= counter'["unique"][CampaignOf[m]]
        /\ count # 0 => counter["unique"][CampaignOf[m]] < count
        /\ \A j \in {"raw", "unique"}, c \in Campaigns : counter[j][c] <= counter'[j][c]
    BY <1>2, <1>3, <2>1, IncrementCounts
  <2>3. CASE count % BatchSize = 0
    <3>1. Goto("impressions", "share", count \div BatchSize)
      BY <2>1, <2>3 DEF AfterCount
    <3>2. Goto("impressions", IF "unique" = "raw" THEN "charge" ELSE "share",
               count \div BatchSize)
      BY <3>1
    <3>. QED
      BY <1>1, <1>2, <2>2, <2>3, <3>2, BatchIsFull
  <2>4. CASE count % BatchSize # 0
    <3>1. worker'["impressions"].stage \in {"flush", "count"}
      BY <1>1, <2>1, <2>4, ImpressionsAdvance DEF AfterCount
    <3>. QED
      BY <1>1, <1>2, <2>2, <3>1, QuietBatches
  <2>. QED
    BY <2>3, <2>4
<1>. QED
  BY <1>4, <1>5

LEMMA ChargeBatchBatches ==
  ASSUME BatchRefs \subseteq Refs, BatchesInv, WorkersInv, MoneyInv,
         NEW m \in Messages, ChargeBatch(m)
  PROVE  BatchesInv'
<1>. DEFINE d == CampaignOf[m]
            n == worker["impressions"].n
            r == ChargeRef(d, n)
            row == SpendRow(m, r)
<1>1. /\ At("impressions", "charge", m) /\ worker["impressions"].todo # <<>>
      /\ AfterRaw(m) /\ UNCHANGED counter
      /\ (Charge(m, r) \/ ledger' = ledger)
  BY DEF ChargeBatch, At, Swallowed, walletVars
<1>2. d \in Campaigns /\ n \in Nat
  BY <1>1, EventsAreTyped, HeadOfImpressions
<1>3. worker'["impressions"].stage \in {"unique", "flush", "count"}
  BY <1>1, ImpressionsAfterRaw
<1>4. Typed /\ Typed'
  BY ChargeBatchMoney DEF MoneyInv
<1>5. CASE ledger' = ledger
  <2>1. \A k \in {"raw", "unique"}, c \in Campaigns : counter[k][c] <= counter'[k][c]
    BY <1>1, <1>4 DEF Typed
  <2>. QED
    BY <1>3, <1>4, <1>5, <2>1, QuietBatches
<1>6. CASE Charge(m, r)
  <2>1. n * BatchSize <= counter["raw"][d]
    BY <1>1 DEF BatchesInv, BillsCounted
  <2>2. r \in Refs
    BY <1>2, RefsAreTyped
  <2>3. /\ ledger' = ledger \cup {row} /\ ~Recorded(Owner[d], "AD_SPEND", r)
    BY <1>6, <2>2, ChargeWrites DEF MoneyInv
  <2>4. row.ref = r /\ row.type = "AD_SPEND" /\ row.user = Owner[d]
    BY DEF SpendRow
  <2>5. \A c \in Campaigns, i \in Nat :
          /\ r # ShareRef(c, i)
          /\ r = ChargeRef(c, i) => c = d /\ i = n
    BY RefsDiffer
  <2>. HIDE DEF row, r, n, d
  <2>6. UniqueRows'
    BY <2>3, <2>4 DEF BatchesInv, UniqueRows, Recorded
  <2>7. ChargesFollow'
    BY <1>1, <2>1, <2>3, <2>4, <2>5 DEF BatchesInv, ChargesFollow
  <2>8. SharesFollow' /\ SharedOnce'
    BY <1>1, <2>3, <2>4, <2>5 DEF BatchesInv, SharesFollow, SharedOnce
  <2>9. BillsCounted'
    BY <1>3 DEF BillsCounted, At
  <2>. QED
    BY <2>6, <2>7, <2>8, <2>9 DEF BatchesInv
<1>. QED
  BY <1>1, <1>5, <1>6

LEMMA ShareBatchBatches ==
  ASSUME BatchRefs \subseteq Refs, BatchesInv, WorkersInv, MoneyInv,
         NEW m \in Messages, ShareBatch(m)
  PROVE  BatchesInv'
<1>. DEFINE d == CampaignOf[m]
            n == worker["impressions"].n
            r == ShareRef(d, n)
<1>1. /\ At("impressions", "share", m) /\ worker["impressions"].todo # <<>>
      /\ Advance("impressions") /\ UNCHANGED counter
      /\ (Share(m, r) \/ ledger' = ledger)
  BY DEF ShareBatch, At, Swallowed, walletVars
<1>2. d \in Campaigns /\ n \in Nat /\ PublisherOf[m] \in Publishers
  BY <1>1, EventsAreTyped, HeadOfImpressions
<1>3. worker'["impressions"].stage \in {"flush", "count"}
  BY <1>1, ImpressionsAdvance
<1>4. Typed /\ Typed'
  BY ShareBatchMoney DEF MoneyInv
<1>5. CASE ledger' = ledger
  <2>1. \A k \in {"raw", "unique"}, c \in Campaigns : counter[k][c] <= counter'[k][c]
    BY <1>1, <1>4 DEF Typed
  <2>. QED
    BY <1>3, <1>4, <1>5, <2>1, QuietBatches
<1>6. CASE Share(m, r) /\ ledger' # ledger
  <2>1. /\ n * BatchSize <= counter["unique"][d]
        /\ n # 0 => \A q \in ledger : q.ref # r
    BY <1>1 DEF BatchesInv, BillsCounted
  <2>2. r \in Refs
    BY <1>2, RefsAreTyped
  <2>3. PICK a \in Amounts :
          /\ ledger' = ledger \cup {EarningRow(m, r, a)}
          /\ ~Recorded(PublisherOf[m], "PUBLISHER_EARNING", r)
    BY <1>6, <2>2, ShareWrites DEF MoneyInv
  <2>. DEFINE row == EarningRow(m, r, a)
  <2>4. row.ref = r /\ row.type = "PUBLISHER_EARNING" /\ row.user = PublisherOf[m]
    BY DEF EarningRow
  <2>5. \A c \in Campaigns, i \in Nat :
          /\ r # ChargeRef(c, i)
          /\ r = ShareRef(c, i) => c = d /\ i = n
    BY RefsDiffer
  <2>6. ledger' = ledger \cup {row}
    BY <2>3
  <2>. HIDE DEF row, r, n, d
  <2>7. UniqueRows'
    BY <2>3, <2>4, <2>6 DEF BatchesInv, UniqueRows, Recorded
  <2>8. ChargesFollow'
    BY <1>1, <2>4, <2>5, <2>6 DEF BatchesInv, ChargesFollow
  <2>9. SharesFollow'
    BY <1>1, <1>2, <2>1, <2>4, <2>5, <2>6 DEF BatchesInv, SharesFollow
  <2>10. SharedOnce'
    BY <2>1, <2>4, <2>5, <2>6 DEF BatchesInv, SharedOnce
  <2>11. BillsCounted'
    BY <1>3 DEF BillsCounted, At
  <2>. QED
    BY <2>7, <2>8, <2>9, <2>10, <2>11 DEF BatchesInv
<1>. QED
  BY <1>1, <1>5, <1>6

LEMMA InitBatches == BillingInit => BatchesInv
<1>. SUFFICES ASSUME BillingInit
              PROVE  BatchesInv
  OBVIOUS
<1>1. ASSUME NEW row \in ledger
      PROVE  \E c \in Campaigns, type \in {"DEPOSIT", "CAMPAIGN_RESERVATION"} :
               row = [user |-> Owner[c], type |-> type, ref |-> c, amount |-> Budget]
  BY DEF BillingInit
<1>2. \A c \in Campaigns : c \notin BatchRefs
  BY BillingAssumption
<1>3. \A c \in Campaigns, n \in Nat : ChargeRef(c, n) \in BatchRefs /\ ShareRef(c, n) \in BatchRefs
  BY DEF ChargeRef, ShareRef, BatchRefs
<1>4. ASSUME NEW row \in ledger
      PROVE  \A c \in Campaigns, n \in Nat :
               row.ref # ChargeRef(c, n) /\ row.ref # ShareRef(c, n)
  <2>1. row.ref \in Campaigns
    BY <1>1
  <2>. QED
    BY <1>2, <1>3, <2>1
<1>5. UniqueRows
  <2>. SUFFICES ASSUME NEW p \in ledger, NEW q \in ledger,
                       p.type = q.type, p.ref = q.ref
                PROVE  p = q
    BY DEF UniqueRows
  <2>1. PICK c \in Campaigns, type \in {"DEPOSIT", "CAMPAIGN_RESERVATION"} :
          p = [user |-> Owner[c], type |-> type, ref |-> c, amount |-> Budget]
    BY <1>1
  <2>2. PICK d \in Campaigns, kind \in {"DEPOSIT", "CAMPAIGN_RESERVATION"} :
          q = [user |-> Owner[d], type |-> kind, ref |-> d, amount |-> Budget]
    BY <1>1
  <2>3. p.type = type /\ p.ref = c /\ q.type = kind /\ q.ref = d
    BY <2>1, <2>2
  <2>. QED
    BY <2>1, <2>2, <2>3
<1>6. BillsCounted
  BY DEF BillsCounted, At, BillingInit, Waiting, Channels
<1>. QED
  BY <1>4, <1>5, <1>6 DEF BatchesInv, ChargesFollow, SharesFollow, SharedOnce

LEMMA NextBatches ==
  ASSUME BatchRefs \subseteq Refs, BatchesInv, BillingInv, [BillingNext]_billingVars
  PROVE  BatchesInv'
<1>1. MoneyInv /\ WorkersInv
  BY DEF BillingInv
<1>2. CASE UNCHANGED billingVars
  <2>1. ledger' = ledger /\ worker' = worker /\ counter' = counter
    BY <1>2 DEF billingVars
  <2>. QED
    BY <2>1 DEF BatchesInv, UniqueRows, ChargesFollow, SharesFollow, SharedOnce,
                BillsCounted, At
<1>3. ASSUME NEW ch \in Channels, WorkerStep(ch)
      PROVE  BatchesInv'
  <2>1. ASSUME NEW m \in Messages, Bill(m)
        PROVE  BatchesInv'
    BY <1>1, <2>1, ClickBatches, CountBatches, ChargeBatchBatches, ShareBatchBatches
    DEF Bill
  <2>. QED
    BY <1>1, <1>3, <2>1, MovesBatches DEF WorkerStep
<1>4. ASSUME NEW x \in Conversions, Postback(x)
      PROVE  BatchesInv'
  BY <1>1, <1>4, PostbackBatches
<1>. QED
  BY <1>1, <1>2, <1>3, <1>4, MovesBatches DEF BillingNext

LEMMA ChargesCounted ==
  ASSUME BatchesInv, Typed, NEW c \in Campaigns
  PROVE  Cardinality(CpmCharges(c)) <= counter["raw"][c] \div BatchSize + 1
<1>. DEFINE raw == counter["raw"][c]
            k == raw \div BatchSize
            S == CpmCharges(c)
            NumberOf(row) == CHOOSE n \in Nat : row.ref = ChargeRef(c, n)
            f == [row \in S |-> NumberOf(row)]
<1>1. raw \in Nat
  BY DEF Typed
<1>2. k \in Nat /\ \A n \in Nat : n * BatchSize <= raw => n <= k
  BY <1>1, WholeBatches
<1>3. ASSUME NEW row \in S
      PROVE  /\ row \in ledger /\ f[row] \in 0..k /\ row.ref = ChargeRef(c, f[row])
             /\ row.user = Owner[c] /\ row.type = "AD_SPEND"
  <2>1. row \in ledger /\ \E n \in Nat : row.ref = ChargeRef(c, n)
    BY <1>1 DEF CpmCharges
  <2>2. NumberOf(row) \in Nat /\ row.ref = ChargeRef(c, NumberOf(row))
    BY <2>1
  <2>3. f[row] = NumberOf(row)
    OBVIOUS
  <2>. HIDE DEF f, NumberOf
  <2>4. /\ f[row] * BatchSize <= raw /\ row.user = Owner[c] /\ row.type = "AD_SPEND"
    BY <2>1, <2>2, <2>3 DEF BatchesInv, ChargesFollow
  <2>. HIDE DEF raw, k
  <2>5. f[row] \in Nat /\ f[row] <= k
    BY <1>2, <2>2, <2>3, <2>4
  <2>. QED
    BY <1>2, <2>1, <2>2, <2>3, <2>4, <2>5
<1>4. f \in Injection(S, 0..k)
  <2>1. f \in [S -> 0..k]
    BY <1>3
  <2>2. ASSUME NEW p \in S, NEW q \in S, f[p] = f[q]
        PROVE  p = q
    BY <1>3, <2>2 DEF BatchesInv, UniqueRows
  <2>. QED
    BY <2>1, <2>2 DEF Injection, IsInjective
<1>5. IsFiniteSet(0..k) /\ Cardinality(0..k) = k + 1
  BY <1>2, FS_Interval
<1>. HIDE DEF f, S, k
<1>6. Cardinality(S) <= Cardinality(0..k)
  BY <1>4, <1>5, FS_Injection
<1>. QED
  BY <1>5, <1>6 DEF S, k

LEMMA SharesCounted ==
  ASSUME BatchesInv, Typed, NEW c \in Campaigns
  PROVE  Cardinality(CpmShares(c)) <=
           counter["unique"][c] \div BatchSize + Cardinality(Publishers)
<1>. DEFINE unique == counter["unique"][c]
            k == unique \div BatchSize
            S == CpmShares(c)
            Uncounted == {row \in S : row.ref = ShareRef(c, 0)}
            Counted == {row \in S : row.ref # ShareRef(c, 0)}
            NumberOf(row) == CHOOSE n \in Nat : row.ref = ShareRef(c, n)
            f == [row \in Counted |-> NumberOf(row)]
            g == [row \in Uncounted |-> row.user]
<1>1. unique \in Nat
  BY DEF Typed
<1>2. k \in Nat /\ \A n \in Nat : n * BatchSize <= unique => n <= k
  BY <1>1, WholeBatches
<1>3. ASSUME NEW row \in S
      PROVE  /\ row \in ledger /\ NumberOf(row) \in Nat
             /\ row.ref = ShareRef(c, NumberOf(row)) /\ NumberOf(row) <= k
             /\ row.user \in Publishers /\ row.type = "PUBLISHER_EARNING"
  <2>1. row \in ledger /\ \E n \in Nat : row.ref = ShareRef(c, n)
    BY <1>1 DEF CpmShares
  <2>2. NumberOf(row) \in Nat /\ row.ref = ShareRef(c, NumberOf(row))
    BY <2>1
  <2>. HIDE DEF NumberOf
  <2>3. /\ NumberOf(row) * BatchSize <= unique
        /\ row.user \in Publishers /\ row.type = "PUBLISHER_EARNING"
    BY <2>1, <2>2 DEF BatchesInv, SharesFollow
  <2>. HIDE DEF unique, k
  <2>4. NumberOf(row) <= k
    BY <1>2, <2>2, <2>3
  <2>. QED
    BY <2>1, <2>2, <2>3, <2>4
<1>4. f \in Injection(Counted, 1..k)
  <2>1. ASSUME NEW row \in Counted
        PROVE  /\ f[row] \in 1..k /\ f[row] \in Nat \ {0}
               /\ row.ref = ShareRef(c, f[row]) /\ row \in ledger
    <3>1. row \in S /\ row.ref # ShareRef(c, 0) /\ f[row] = NumberOf(row)
      OBVIOUS
    <3>. HIDE DEF f, S, NumberOf, Counted, k
    <3>2. /\ f[row] \in Nat /\ row.ref = ShareRef(c, f[row]) /\ f[row] <= k
          /\ row \in ledger
      BY <1>3, <3>1
    <3>3. f[row] # 0
      BY <3>1, <3>2
    <3>. QED
      BY <1>2, <3>2, <3>3
  <2>2. f \in [Counted -> 1..k]
    BY <2>1
  <2>3. ASSUME NEW p \in Counted, NEW q \in Counted, f[p] = f[q]
        PROVE  p = q
    <3>1. PICK n \in Nat \ {0} : n = f[p] /\ n = f[q]
      BY <2>1, <2>3
    <3>2. p.ref = ShareRef(c, n) /\ q.ref = ShareRef(c, n) /\ p \in ledger /\ q \in ledger
      BY <2>1, <2>3, <3>1
    <3>. HIDE DEF f, Counted
    <3>. QED
      BY <3>2 DEF BatchesInv, SharedOnce
  <2>. QED
    BY <2>2, <2>3 DEF Injection, IsInjective
<1>5. g \in Injection(Uncounted, Publishers)
  <2>1. ASSUME NEW row \in Uncounted
        PROVE  /\ g[row] \in Publishers /\ g[row] = row.user /\ row \in ledger
               /\ row.ref = ShareRef(c, 0) /\ row.type = "PUBLISHER_EARNING"
    <3>1. row \in S /\ row.ref = ShareRef(c, 0) /\ g[row] = row.user
      OBVIOUS
    <3>. HIDE DEF g, S, Uncounted, NumberOf
    <3>. QED
      BY <1>3, <3>1
  <2>2. g \in [Uncounted -> Publishers]
    BY <2>1
  <2>3. ASSUME NEW p \in Uncounted, NEW q \in Uncounted, g[p] = g[q]
        PROVE  p = q
    BY <2>1, <2>3 DEF BatchesInv, UniqueRows
  <2>. QED
    BY <2>2, <2>3 DEF Injection, IsInjective
<1>6. IsFiniteSet(1..k) /\ Cardinality(1..k) = k
  BY <1>2, FS_Interval
<1>7. IsFiniteSet(Publishers)
  BY BillingAssumption
<1>8. S = Counted \cup Uncounted
  OBVIOUS
<1>. HIDE DEF f, g, Counted, Uncounted, S, k
<1>9. IsFiniteSet(Counted) /\ Cardinality(Counted) <= k
  BY <1>4, <1>6, FS_Injection
<1>10. IsFiniteSet(Uncounted) /\ Cardinality(Uncounted) <= Cardinality(Publishers)
  BY <1>5, <1>7, FS_Injection
<1>11. IsFiniteSet(Counted \cap Uncounted)
  BY <1>9, FS_Subset
<1>12. /\ Cardinality(S) = Cardinality(Counted) + Cardinality(Uncounted)
                            - Cardinality(Counted \cap Uncounted)
       /\ Cardinality(Counted) \in Nat /\ Cardinality(Uncounted) \in Nat
       /\ Cardinality(Counted \cap Uncounted) \in Nat /\ Cardinality(Publishers) \in Nat
  BY <1>7, <1>8, <1>9, <1>10, <1>11, FS_Union, FS_CardinalityType
<1>13. Cardinality(S) <= k + Cardinality(Publishers)
  BY <1>2, <1>9, <1>10, <1>12
<1>. QED
  BY <1>13 DEF S, k

\* Through redelivery and outages of Redis, a campaign is charged for no more
\* batches than were counted and batch 0, and publishers share no more than were
\* counted and one batch 0 each.  Batch references are ledger references.
THEOREM BatchesAreCounted ==
  ASSUME BatchRefs \subseteq Refs
  PROVE  BillingSpec => []BatchesFollowCounter
<1>1. BillingInit => BillingInv /\ BatchesInv
  BY InitMoney, InitBatches DEF BillingInv
<1>2. BillingInv /\ BatchesInv /\ [BillingNext]_billingVars
        => (BillingInv /\ BatchesInv)'
  BY NextMoney, NextBatches DEF BillingInv
<1>3. BillingInv /\ BatchesInv => BatchesFollowCounter
  BY ChargesCounted, SharesCounted DEF BillingInv, MoneyInv, BatchesFollowCounter
<1>. QED
  BY <1>1, <1>2, <1>3, PTL DEF BillingSpec

-----------------------------------------------------------------------------
(* Top-ups.                                                                *)

USE DEF Users

-----------------------------------------------------------------------------
(* Invariant *)

On(h, o) == handler[h] # Idle /\ handler[h].order = o

\* The gateway's side of an order: nothing before it is linked, and nothing is
\* marked or credited for it, nor reported captured, before its payment was taken.
PaymentTaken(o) ==
  /\ order[o] = NoOrder \/ ~order[o].linked => gateway[o] = "none"
  /\ "captured" \in events[o] => gateway[o] \in Taken
  /\ \A h \in Handlers : Current(h, "mark", o) \/ Current(h, "credit", o) =>
       gateway[o] \in Taken /\ handler[h].payment \in {o, CaptureId[o]}

Winner(o) ==
  \A h \in Handlers :
    Current(h, "credit", o) =>
      /\ order[o].status = "PAID" /\ gateway[o] \in Taken /\ CreditRows(o) = {}
      /\ \A g \in Handlers : Current(g, "credit", o) => g = h

Credited(o) ==
  /\ \A new \in CreditRows(o) :
       /\ order[o].status = "PAID"
       /\ new.user = order[o].user /\ new.amount = order[o].credit
  /\ order[o].status = "PAID" =>
       CreditRows(o) # {} \/ died[o] \/ \E h \in Handlers : Current(h, "credit", o)
  /\ acked[o] => order[o].status \in {"PAID", "FAILED"}

OrderInv(o) == PaymentTaken(o) /\ Winner(o) /\ Credited(o)

TopUpInv == TopUpTypeOK /\ \A o \in Orders : OrderInv(o)

LEMMA TopUpInvMeans == TopUpInv => OrdersAreSound
  BY DEF TopUpInv, OrderInv, Winner, Credited, OrdersAreSound, OneWinner, PaidMeansCredited

\* A step of one order leaves the others alone.
LEMMA OtherOrders ==
  ASSUME NEW p \in Orders, OrderInv(p),
         order'[p] = order[p], gateway'[p] = gateway[p], events'[p] = events[p],
         acked'[p] = acked[p], died'[p] = died[p], CreditRows(p)' = CreditRows(p),
         \A g \in Handlers : \/ handler'[g] = handler[g]
                             \/ ~On(g, p) /\ ~On(g, p)'
  PROVE  OrderInv(p)'
<1>1. \A g \in Handlers : /\ On(g, p)' <=> On(g, p)
                          /\ On(g, p) => handler'[g] = handler[g]
  BY DEF On
<1>2. \A g \in Handlers : \A s : Current(g, s, p)' <=> Current(g, s, p)
  BY <1>1 DEF On, Current
<1>3. PaymentTaken(p)'
  BY <1>1, <1>2 DEF OrderInv, PaymentTaken, Current, On
<1>4. Winner(p)'
  BY <1>2 DEF OrderInv, Winner
<1>5. Credited(p)'
  BY <1>2 DEF OrderInv, Credited
<1>. QED
  BY <1>3, <1>4, <1>5 DEF OrderInv

-----------------------------------------------------------------------------
(* Types *)

LEMMA OrderType ==
  ASSUME TopUpTypeOK, NEW o \in Orders, order[o] # NoOrder
  PROVE  /\ order[o] \in OrderRows
         /\ order[o].user \in Advertisers /\ order[o].credit \in Amounts
         /\ order[o].status \in {"CREATED", "PAID", "FAILED"}
<1>1. order[o] \in OrderRows
  BY DEF TopUpTypeOK
<1>. QED
  BY <1>1 DEF OrderRows

LEMMA StatusMeansOrder ==
  ASSUME NEW o \in Orders, order[o].status \in {"CREATED", "PAID", "FAILED"}
  PROVE  order[o] # NoOrder
  BY DEF NoOrder

LEMMA OrderUpdateType ==
  ASSUME TopUpTypeOK, NEW o \in Orders, order[o] # NoOrder,
         \/ order' = [order EXCEPT ![o].linked = TRUE]
         \/ \E s \in {"CREATED", "PAID", "FAILED"} : order' = [order EXCEPT ![o].status = s]
  PROVE  /\ order' \in [Orders -> OrderRows \cup {NoOrder}]
         /\ order'[o] \in OrderRows /\ order'[o] # NoOrder
         /\ \A p \in Orders \ {o} : order'[p] = order[p]
<1>1. order[o] \in OrderRows /\ order \in [Orders -> OrderRows \cup {NoOrder}]
  BY OrderType DEF TopUpTypeOK
<1>2. ASSUME NEW new \in OrderRows, order' = [order EXCEPT ![o] = new]
      PROVE  /\ order' \in [Orders -> OrderRows \cup {NoOrder}]
             /\ order'[o] \in OrderRows
             /\ \A p \in Orders \ {o} : order'[p] = order[p]
  BY <1>1, <1>2
<1>3. \A new \in OrderRows : new # NoOrder
  BY DEF OrderRows, NoOrder
<1>4. CASE order' = [order EXCEPT ![o].linked = TRUE]
  <2>1. [order[o] EXCEPT !.linked = TRUE] \in OrderRows
    BY <1>1 DEF OrderRows
  <2>2. order' = [order EXCEPT ![o] = [order[o] EXCEPT !.linked = TRUE]]
    BY <1>1, <1>4
  <2>. QED
    BY <1>2, <1>3, <2>1, <2>2
<1>5. ASSUME NEW s \in {"CREATED", "PAID", "FAILED"},
             order' = [order EXCEPT ![o].status = s]
      PROVE  /\ order' \in [Orders -> OrderRows \cup {NoOrder}]
             /\ order'[o] \in OrderRows /\ order'[o] # NoOrder
             /\ \A p \in Orders \ {o} : order'[p] = order[p]
  <2>1. [order[o] EXCEPT !.status = s] \in OrderRows
    BY <1>1, <1>5 DEF OrderRows
  <2>2. order' = [order EXCEPT ![o] = [order[o] EXCEPT !.status = s]]
    BY <1>1, <1>5
  <2>. QED
    BY <1>2, <1>3, <2>1, <2>2
<1>. QED
  BY <1>4, <1>5

LEMMA HandlingType ==
  ASSUME TopUpTypeOK, NEW h \in Handlers, handler[h] # Idle
  PROVE  handler[h] \in Handling
  BY DEF TopUpTypeOK

LEMMA IdsOfPayments ==
  ASSUME NEW o \in Orders
  PROVE  /\ o \in Refs /\ CaptureId[o] \in Refs
         /\ \A p \in Orders : {o, CaptureId[o]} \cap {p, CaptureId[p]} # {} => o = p
  BY TopUpAssumption

LEMMA HandlerUpdateType ==
  ASSUME TopUpTypeOK, NEW h \in Handlers, NEW new \in Handling \cup {Idle},
         handler' = [handler EXCEPT ![h] = new]
  PROVE  /\ handler' \in [Handlers -> Handling \cup {Idle}]
         /\ handler'[h] = new
         /\ \A g \in Handlers \ {h} : handler'[g] = handler[g]
  BY DEF TopUpTypeOK

LEMMA SameWallet ==
  ASSUME TopUpTypeOK, UNCHANGED walletVars
  PROVE  TypeOK' /\ \A p \in Orders : CreditRows(p)' = CreditRows(p)
  BY DEF TopUpTypeOK, TypeOK, walletVars, CreditRows

LEMMA OneOrderMoves ==
  ASSUME TopUpInv, TopUpTypeOK', NEW o \in Orders, OrderInv(o)',
         \A p \in Orders \ {o} :
           /\ order'[p] = order[p] /\ gateway'[p] = gateway[p]
           /\ events'[p] = events[p] /\ acked'[p] = acked[p] /\ died'[p] = died[p]
           /\ CreditRows(p)' = CreditRows(p)
           /\ \A g \in Handlers : \/ handler'[g] = handler[g]
                                  \/ ~On(g, p) /\ ~On(g, p)'
  PROVE  TopUpInv'
<1>1. ASSUME NEW p \in Orders PROVE OrderInv(p)'
  <2>1. CASE p = o
    BY <2>1
  <2>2. CASE p # o
    <3>1. OrderInv(p)
      BY DEF TopUpInv
    <3>. QED
      BY <2>2, <3>1, OtherOrders
  <2>. QED
    BY <2>1, <2>2
<1>. QED
  BY <1>1 DEF TopUpInv

-----------------------------------------------------------------------------
(* The steps of an order *)

LEMMA OrderStepInv ==
  ASSUME TopUpInv, NEW o \in Orders, OrderStep(o)
  PROVE  TopUpInv'
<1>. TopUpTypeOK /\ OrderInv(o)
  BY DEF TopUpInv
<1>w. UNCHANGED walletVars /\ UNCHANGED <<handler, died>>
  BY DEF OrderStep, CreateOrder, LinkOrder, FailDanglingOrder, BuyerPays, AttemptFails,
         PendingSettles, WebhookFailed, GatewayMoves
<1>r. TypeOK' /\ \A p \in Orders : CreditRows(p)' = CreditRows(p)
  BY <1>w, SameWallet
<1>c. \A h \in Handlers : \A s, p : Current(h, s, p)' <=> Current(h, s, p)
  BY <1>w DEF Current
<1>1. CASE \E u \in Advertisers, a \in Amounts, provider \in {"paypal", "razorpay"} :
             CreateOrder(o, u, a, provider)
  <2>1. PICK u \in Advertisers, a \in Amounts, provider \in {"paypal", "razorpay"} :
          CreateOrder(o, u, a, provider)
    BY <1>1
  <2> DEFINE new == [status |-> "CREATED", user |-> u, credit |-> a,
                     provider |-> provider, linked |-> FALSE]
  <2>2. new \in OrderRows /\ ~new.linked /\ new.status = "CREATED"
    BY DEF OrderRows
  <2> HIDE DEF new
  <2>3. /\ order[o] = NoOrder /\ order' = [order EXCEPT ![o] = new]
        /\ UNCHANGED <<gateway, events, acked>>
    BY <2>1 DEF CreateOrder, new
  <2>4. /\ order' \in [Orders -> OrderRows \cup {NoOrder}] /\ order'[o] = new
        /\ \A p \in Orders \ {o} : order'[p] = order[p]
    BY <2>2, <2>3 DEF TopUpTypeOK
  <2>5. TopUpTypeOK'
    BY <1>w, <1>r, <2>3, <2>4 DEF TopUpTypeOK
  <2>6. gateway[o] = "none" /\ order[o].status = "none"
    BY <2>3 DEF OrderInv, PaymentTaken, NoOrder
  <2>7. /\ \A h \in Handlers : ~Current(h, "mark", o) /\ ~Current(h, "credit", o)
        /\ "captured" \notin events[o] /\ ~acked[o] /\ CreditRows(o) = {}
    BY <2>6 DEF OrderInv, PaymentTaken, Credited, Taken
  <2>8. OrderInv(o)'
    BY <1>w, <1>r, <1>c, <2>2, <2>3, <2>4, <2>6, <2>7
       DEF OrderInv, PaymentTaken, Winner, Credited
  <2>. QED
    BY <1>w, <1>r, <2>3, <2>4, <2>5, <2>8, OneOrderMoves
<1>2. CASE LinkOrder(o)
  <2>1. /\ order[o] # NoOrder /\ ~order[o].linked /\ order[o].status = "CREATED"
        /\ order' = [order EXCEPT ![o].linked = TRUE]
        /\ gateway' = [gateway EXCEPT ![o] = "open"]
        /\ UNCHANGED <<events, acked>>
    BY <1>2 DEF LinkOrder, Unlinked
  <2>2. /\ order' \in [Orders -> OrderRows \cup {NoOrder}] /\ order'[o] # NoOrder
        /\ \A p \in Orders \ {o} : order'[p] = order[p]
    BY <2>1, OrderUpdateType
  <2>3. order'[o].linked /\ order'[o].status = "CREATED"
    BY <2>1, OrderType DEF TopUpTypeOK, OrderRows
  <2>4. /\ gateway' \in [Orders -> {"none", "open", "approved"} \cup Taken]
        /\ gateway'[o] = "open"
        /\ \A p \in Orders \ {o} : gateway'[p] = gateway[p]
    BY <2>1 DEF TopUpTypeOK
  <2>5. TopUpTypeOK'
    BY <1>w, <1>r, <2>1, <2>2, <2>4 DEF TopUpTypeOK
  <2>6. /\ \A h \in Handlers : ~Current(h, "mark", o) /\ ~Current(h, "credit", o)
        /\ "captured" \notin events[o] /\ ~acked[o] /\ CreditRows(o) = {}
    BY <2>1 DEF OrderInv, PaymentTaken, Credited, Taken
  <2>7. OrderInv(o)'
    BY <1>w, <1>r, <1>c, <2>1, <2>2, <2>3, <2>6
       DEF OrderInv, PaymentTaken, Winner, Credited
  <2>. QED
    BY <1>w, <1>r, <2>1, <2>2, <2>4, <2>5, <2>7, OneOrderMoves
<1>3. ASSUME order[o] # NoOrder, order[o].status = "CREATED",
             order' = [order EXCEPT ![o].status = "FAILED"], UNCHANGED gateway,
             events' \in [Orders -> SUBSET Events], events'[o] \subseteq events[o],
             acked'[o] = acked[o], acked' \in [Orders -> BOOLEAN],
             \A p \in Orders \ {o} : events'[p] = events[p] /\ acked'[p] = acked[p]
      PROVE  TopUpInv'
  <2>1. /\ order' \in [Orders -> OrderRows \cup {NoOrder}] /\ order'[o] # NoOrder
        /\ \A p \in Orders \ {o} : order'[p] = order[p]
    BY <1>3, OrderUpdateType
  <2>2. order'[o].linked = order[o].linked /\ order'[o].status = "FAILED"
    BY <1>3, OrderType DEF TopUpTypeOK, OrderRows
  <2>3. TopUpTypeOK'
    BY <1>w, <1>r, <1>3, <2>1 DEF TopUpTypeOK
  <2>4. /\ \A h \in Handlers : ~Current(h, "credit", o)
        /\ CreditRows(o) = {}
    BY <1>3 DEF OrderInv, Winner, Credited
  <2>5. OrderInv(o)'
    BY <1>w, <1>r, <1>c, <1>3, <2>1, <2>2, <2>4
       DEF OrderInv, PaymentTaken, Winner, Credited
  <2>. QED
    BY <1>w, <1>r, <1>3, <2>1, <2>3, <2>5, OneOrderMoves
<1>4. CASE FailDanglingOrder(o)
  <2>1. /\ order[o] # NoOrder /\ order[o].status = "CREATED"
        /\ order' = [order EXCEPT ![o].status = "FAILED"]
        /\ UNCHANGED <<gateway, events, acked>>
    BY <1>4 DEF FailDanglingOrder, Unlinked
  <2>. QED
    BY <1>3, <2>1 DEF TopUpTypeOK
<1>5. ASSUME NEW to \in {"open", "approved"} \cup Taken, NEW event \in Events,
             gateway[o] \in {"open", "pending"}, GatewayMoves(o, to, event),
             gateway[o] = "pending" => to \in Taken,
             event = "captured" => to \in Taken
      PROVE  TopUpInv'
  <2>1. /\ gateway' = [gateway EXCEPT ![o] = to]
        /\ events' = [events EXCEPT ![o] = @ \cup {event}]
        /\ UNCHANGED <<order, acked>>
    BY <1>5 DEF GatewayMoves
  <2>2. /\ gateway' \in [Orders -> {"none", "open", "approved"} \cup Taken]
        /\ gateway'[o] = to /\ events'[o] = events[o] \cup {event}
        /\ \A p \in Orders \ {o} : gateway'[p] = gateway[p] /\ events'[p] = events[p]
    BY <2>1 DEF TopUpTypeOK
  <2>3. events' \in [Orders -> SUBSET Events]
    BY <2>1 DEF TopUpTypeOK
  <2>4. TopUpTypeOK'
    BY <1>w, <1>r, <2>1, <2>2, <2>3 DEF TopUpTypeOK
  <2>5. gateway[o] \in Taken => gateway'[o] \in Taken
    BY <1>5, <2>2 DEF Taken
  <2>6. gateway[o] # "none"
    BY <1>5
  <2>7. PaymentTaken(o)'
    BY <1>w, <1>c, <1>5, <2>1, <2>2, <2>5, <2>6 DEF OrderInv, PaymentTaken
  <2>8. Winner(o)' /\ Credited(o)'
    BY <1>w, <1>r, <1>c, <2>1, <2>5 DEF OrderInv, Winner, Credited
  <2>9. OrderInv(o)'
    BY <2>7, <2>8 DEF OrderInv
  <2>. QED
    BY <1>w, <1>r, <2>1, <2>2, <2>4, <2>9, OneOrderMoves
<1>6. CASE BuyerPays(o)
  BY <1>5, <1>6 DEF BuyerPays, Taken, Events
<1>7. CASE AttemptFails(o)
  BY <1>5, <1>7 DEF AttemptFails, Taken, Events
<1>8. CASE PendingSettles(o)
  BY <1>5, <1>8 DEF PendingSettles, Taken, Events
<1>9. CASE WebhookFailed(o)
  <2>1. /\ order' = IF order[o].status = "CREATED"
                      THEN [order EXCEPT ![o].status = "FAILED"] ELSE order
        /\ UNCHANGED gateway
        /\ acked' = [acked EXCEPT ![o] = @ \/ "failed" = "captured"]
        /\ \/ events' = [events EXCEPT ![o] = @ \ {"failed"}]
           \/ UNCHANGED events
    BY <1>9 DEF WebhookFailed, Ack
  <2>2. UNCHANGED acked
    BY <2>1 DEF TopUpTypeOK
  <2>3. /\ events' \in [Orders -> SUBSET Events] /\ events'[o] \subseteq events[o]
        /\ \A p \in Orders \ {o} : events'[p] = events[p]
    BY <2>1 DEF TopUpTypeOK
  <2>4. CASE order[o].status = "CREATED"
    BY <1>3, <2>1, <2>2, <2>3, <2>4, StatusMeansOrder DEF TopUpTypeOK
  <2>5. CASE order[o].status # "CREATED"
    <3>1. UNCHANGED order
      BY <2>1, <2>5
    <3>2. TopUpTypeOK'
      BY <1>w, <1>r, <2>1, <2>2, <2>3, <3>1 DEF TopUpTypeOK
    <3>3. OrderInv(o)'
      BY <1>w, <1>r, <1>c, <2>1, <2>2, <2>3, <3>1
         DEF OrderInv, PaymentTaken, Winner, Credited
    <3>. QED
      BY <1>w, <1>r, <2>1, <2>2, <2>3, <3>1, <3>2, <3>3, OneOrderMoves
  <2>. QED
    BY <2>4, <2>5
<1>. QED
  BY <1>1, <1>2, <1>4, <1>6, <1>7, <1>8, <1>9 DEF OrderStep

-----------------------------------------------------------------------------
(* The steps of a handler *)

\* A confirm call or a webhook starts: capturing whatever the gateway says,
\* marking only what the gateway has taken.
LEMMA BeginInv ==
  ASSUME TopUpInv, NEW o \in Orders, NEW h \in Handlers,
         NEW stage \in {"capture", "mark"}, NEW payment \in {o, CaptureId[o]},
         NEW event \in Events \cup {"none"},
         Begin(h, stage, o, payment, event),
         stage = "mark" => gateway[o] \in Taken
  PROVE  TopUpInv'
<1>. TopUpTypeOK /\ OrderInv(o)
  BY DEF TopUpInv
<1> DEFINE new == [stage |-> stage, order |-> o, payment |-> payment, event |-> event]
<1>1. new \in Handling /\ new.order = o /\ new.stage = stage /\ new.payment = payment
  BY IdsOfPayments DEF Handling
<1>2. new # Idle
  BY <1>1 DEF Handling, Idle
<1>3. /\ handler[h] = Idle /\ handler' = [handler EXCEPT ![h] = new]
      /\ UNCHANGED walletVars /\ UNCHANGED <<order, gateway, events, acked, died>>
  BY DEF Begin
<1> HIDE DEF new
<1>4. /\ handler' \in [Handlers -> Handling \cup {Idle}] /\ handler'[h] = new
      /\ \A g \in Handlers \ {h} : handler'[g] = handler[g]
  BY <1>1, <1>3, HandlerUpdateType
<1>5. TypeOK' /\ \A p \in Orders : CreditRows(p)' = CreditRows(p)
  BY <1>3, SameWallet
<1>6. TopUpTypeOK'
  BY <1>3, <1>4, <1>5 DEF TopUpTypeOK
<1>7. \A g \in Handlers : /\ Current(g, "credit", o)' <=> Current(g, "credit", o)
                          /\ Current(g, "mark", o)' =>
                               \/ Current(g, "mark", o) /\ g # h
                               \/ g = h /\ stage = "mark"
  BY <1>1, <1>3, <1>4 DEF Current
<1>8. PaymentTaken(o)'
  BY <1>1, <1>3, <1>4, <1>7 DEF OrderInv, PaymentTaken, Current
<1>9. Winner(o)' /\ Credited(o)'
  BY <1>3, <1>5, <1>7 DEF OrderInv, Winner, Credited
<1>10. OrderInv(o)'
  BY <1>8, <1>9 DEF OrderInv
<1>11. \A p \in Orders \ {o} : \A g \in Handlers :
         \/ handler'[g] = handler[g]
         \/ ~On(g, p) /\ ~On(g, p)'
  BY <1>1, <1>3, <1>4 DEF On
<1>. QED
  BY <1>3, <1>5, <1>6, <1>10, <1>11, OneOrderMoves

\* What an answer leaves behind.
LEMMA AckMeans ==
  ASSUME TopUpTypeOK, NEW o \in Orders, NEW event, Ack(o, event)
  PROVE  /\ acked' \in [Orders -> BOOLEAN] /\ events' \in [Orders -> SUBSET Events]
         /\ events'[o] \subseteq events[o]
         /\ acked'[o] <=> (acked[o] \/ event = "captured")
         /\ \A p \in Orders \ {o} : acked'[p] = acked[p] /\ events'[p] = events[p]
<1>1. /\ acked \in [Orders -> BOOLEAN] /\ acked' = [acked EXCEPT ![o] = @ \/ event = "captured"]
      /\ events \in [Orders -> SUBSET Events]
      /\ events' = [events EXCEPT ![o] = @ \ {event}] \/ UNCHANGED events
  BY DEF Ack, TopUpTypeOK
<1>2. /\ acked' \in [Orders -> BOOLEAN]
      /\ acked'[o] <=> (acked[o] \/ event = "captured")
      /\ \A p \in Orders \ {o} : acked'[p] = acked[p]
  BY <1>1
<1>3. /\ events' \in [Orders -> SUBSET Events] /\ events'[o] \subseteq events[o]
      /\ \A p \in Orders \ {o} : events'[p] = events[p]
  BY <1>1
<1>. QED
  BY <1>2, <1>3

LEMMA FinishMeans ==
  ASSUME TopUpTypeOK, NEW h \in Handlers, NEW o \in Orders, Finish(h),
         handler[h] # Idle, handler[h].order = o
  PROVE  /\ handler' \in [Handlers -> Handling \cup {Idle}] /\ handler'[h] = Idle
         /\ \A g \in Handlers \ {h} : handler'[g] = handler[g]
         /\ acked' \in [Orders -> BOOLEAN] /\ events' \in [Orders -> SUBSET Events]
         /\ events'[o] \subseteq events[o]
         /\ \A p \in Orders \ {o} : acked'[p] = acked[p] /\ events'[p] = events[p]
<1>1. handler' = [handler EXCEPT ![h] = Idle]
  BY DEF Finish
<1>2. CASE handler[h].event = "none"
  <2>1. UNCHANGED <<events, acked>>
    BY <1>2 DEF Finish
  <2>. QED
    BY <1>1, <2>1, HandlerUpdateType DEF TopUpTypeOK
<1>3. CASE handler[h].event # "none"
  <2>1. Ack(o, handler[h].event)
    BY <1>3 DEF Finish
  <2>. QED
    BY <1>1, <2>1, HandlerUpdateType, AckMeans
<1>. QED
  BY <1>2, <1>3

\* Handlers whose stage does not reach "credit" keep an order's winner, and
\* the payment stays taken.
LEMMA HandlerMovesAlone ==
  ASSUME TopUpInv, NEW o \in Orders, NEW h \in Handlers,
         handler[h] # Idle, handler[h].order = o, ~Current(h, "credit", o),
         handler' \in [Handlers -> Handling \cup {Idle}],
         \A g \in Handlers \ {h} : handler'[g] = handler[g],
         \/ handler'[h] = Idle
         \/ /\ handler'[h] # Idle /\ handler'[h].order = o /\ handler'[h].stage = "mark"
            /\ handler'[h].payment \in {o, CaptureId[o]} /\ gateway'[o] \in Taken,
         UNCHANGED walletVars, UNCHANGED <<order, died>>,
         gateway' \in [Orders -> {"none", "open", "approved"} \cup Taken],
         gateway[o] \in Taken => gateway'[o] \in Taken,
         gateway[o] = "none" => gateway'[o] = "none",
         events' \in [Orders -> SUBSET Events],
         "captured" \in events'[o] => "captured" \in events[o] \/ gateway'[o] \in Taken,
         acked' \in [Orders -> BOOLEAN],
         acked'[o] => acked[o] \/ order[o].status \in {"PAID", "FAILED"},
         \A p \in Orders \ {o} :
           gateway'[p] = gateway[p] /\ acked'[p] = acked[p] /\ events'[p] = events[p]
  PROVE  TopUpInv'
<1>. TopUpTypeOK /\ OrderInv(o)
  BY DEF TopUpInv
<1>1. TypeOK' /\ \A p \in Orders : CreditRows(p)' = CreditRows(p)
  BY SameWallet
<1>2. TopUpTypeOK'
  BY <1>1 DEF TopUpTypeOK
<1>3. \A g \in Handlers : /\ Current(g, "credit", o)' <=> Current(g, "credit", o)
                          /\ Current(g, "mark", o)' =>
                               \/ Current(g, "mark", o) /\ g # h
                               \/ /\ g = h /\ gateway'[o] \in Taken
                                  /\ handler'[h].payment \in {o, CaptureId[o]}
  BY DEF Current
<1>4. PaymentTaken(o)'
  BY <1>3 DEF OrderInv, PaymentTaken, Current
<1>5. Winner(o)' /\ Credited(o)'
  BY <1>1, <1>3 DEF OrderInv, Winner, Credited
<1>6. OrderInv(o)'
  BY <1>4, <1>5 DEF OrderInv
<1>7. \A p \in Orders \ {o} : \A g \in Handlers :
         \/ handler'[g] = handler[g]
         \/ ~On(g, p) /\ ~On(g, p)'
  BY DEF On
<1>. QED
  BY <1>1, <1>2, <1>6, <1>7, OneOrderMoves

LEMMA PayPalTakesMeans ==
  ASSUME TopUpTypeOK, NEW o \in Orders, PayPalTakes(o)
  PROVE  /\ gateway' \in [Orders -> {"none", "open", "approved"} \cup Taken]
         /\ gateway[o] = "approved" /\ gateway'[o] \in Taken
         /\ events' \in [Orders -> SUBSET Events]
         /\ \A p \in Orders \ {o} : gateway'[p] = gateway[p] /\ events'[p] = events[p]
<1>1. PICK to \in {"captured", "pending"} :
        /\ gateway[o] = "approved" /\ gateway' = [gateway EXCEPT ![o] = to]
        /\ events' = [events EXCEPT ![o] = @ \cup ({to} \cap Events)]
  BY DEF PayPalTakes
<1>2. /\ gateway \in [Orders -> {"none", "open", "approved"} \cup Taken]
      /\ events \in [Orders -> SUBSET Events] /\ to \in Taken
  BY DEF TopUpTypeOK, Taken
<1>3. /\ gateway' \in [Orders -> {"none", "open", "approved"} \cup Taken]
      /\ gateway'[o] \in Taken /\ \A p \in Orders \ {o} : gateway'[p] = gateway[p]
  BY <1>1, <1>2
<1>4. /\ events' \in [Orders -> SUBSET Events]
      /\ \A p \in Orders \ {o} : events'[p] = events[p]
  BY <1>1, <1>2
<1>. QED
  BY <1>1, <1>3, <1>4

LEMMA CaptureInv ==
  ASSUME TopUpInv, NEW o \in Orders, NEW h \in Handlers, Capture(h, o)
  PROVE  TopUpInv'
<1>. TopUpTypeOK /\ OrderInv(o)
  BY DEF TopUpInv
<1>1. /\ handler[h] # Idle /\ handler[h].stage = "capture" /\ handler[h].order = o
      /\ ~Current(h, "credit", o)
      /\ UNCHANGED walletVars /\ UNCHANGED <<order, died>> /\ UNCHANGED acked
  BY DEF Capture, Current
<1>2. PICK payment \in {o, CaptureId[o]} :
        handler' = [handler EXCEPT ![h].stage = "mark", ![h].payment = payment]
  BY DEF Capture
<1>3. /\ gateway' \in [Orders -> {"none", "open", "approved"} \cup Taken]
      /\ gateway'[o] \in Taken /\ gateway[o] # "none"
      /\ events' \in [Orders -> SUBSET Events]
      /\ \A p \in Orders \ {o} : gateway'[p] = gateway[p] /\ events'[p] = events[p]
  BY PayPalTakesMeans DEF Capture, TopUpTypeOK, Taken
<1> DEFINE new == [handler[h] EXCEPT !.stage = "mark", !.payment = payment]
<1>4. handler[h] \in Handling
  BY <1>1, HandlingType
<1>5. /\ new \in Handling /\ new.order = o /\ new.stage = "mark" /\ new.payment = payment
      /\ handler' = [handler EXCEPT ![h] = new]
  BY <1>1, <1>2, <1>4, IdsOfPayments DEF Handling, TopUpTypeOK
<1>6. new # Idle
  BY <1>5 DEF Handling, Idle
<1> HIDE DEF new
<1>7. /\ handler' \in [Handlers -> Handling \cup {Idle}] /\ handler'[h] = new
      /\ \A g \in Handlers \ {h} : handler'[g] = handler[g]
  BY <1>5, HandlerUpdateType
<1>8. acked' \in [Orders -> BOOLEAN] /\ \A p \in Orders : acked'[p] = acked[p]
  BY <1>1 DEF TopUpTypeOK
<1>. QED
  BY <1>1, <1>3, <1>5, <1>6, <1>7, <1>8, HandlerMovesAlone

LEMMA CaptureDeclinedInv ==
  ASSUME TopUpInv, NEW o \in Orders, NEW h \in Handlers, CaptureDeclined(h, o)
  PROVE  TopUpInv'
<1>. TopUpTypeOK
  BY DEF TopUpInv
<1>1. /\ handler[h] # Idle /\ handler[h].order = o /\ ~Current(h, "credit", o)
      /\ handler' = [handler EXCEPT ![h] = Idle]
      /\ UNCHANGED walletVars /\ UNCHANGED <<order, died>> /\ UNCHANGED <<gateway, acked>>
      /\ events' = [events EXCEPT ![o] = @ \cup {"failed"}]
  BY DEF CaptureDeclined, Current
<1>2. /\ handler' \in [Handlers -> Handling \cup {Idle}] /\ handler'[h] = Idle
      /\ \A g \in Handlers \ {h} : handler'[g] = handler[g]
  BY <1>1, HandlerUpdateType
<1>3. /\ events' \in [Orders -> SUBSET Events]
      /\ "captured" \in events'[o] => "captured" \in events[o]
      /\ \A p \in Orders \ {o} : events'[p] = events[p]
  BY <1>1 DEF TopUpTypeOK, Events
<1>4. /\ gateway' \in [Orders -> {"none", "open", "approved"} \cup Taken]
      /\ acked' \in [Orders -> BOOLEAN]
      /\ \A p \in Orders : gateway'[p] = gateway[p] /\ acked'[p] = acked[p]
  BY <1>1 DEF TopUpTypeOK
<1>. QED
  BY <1>1, <1>2, <1>3, <1>4, HandlerMovesAlone

LEMMA LosingInv ==
  ASSUME TopUpInv, NEW o \in Orders, NEW h \in Handlers,
         MarkPaid(h, o), order[o].status # "CREATED"
  PROVE  TopUpInv'
<1>. TopUpTypeOK /\ OrderInv(o)
  BY DEF TopUpInv
<1>1. /\ handler[h] # Idle /\ handler[h].order = o /\ ~Current(h, "credit", o)
      /\ Current(h, "mark", o) /\ Finish(h)
      /\ UNCHANGED walletVars /\ UNCHANGED <<order, died>> /\ UNCHANGED gateway
  BY DEF MarkPaid, Current
<1>2. /\ handler' \in [Handlers -> Handling \cup {Idle}] /\ handler'[h] = Idle
      /\ \A g \in Handlers \ {h} : handler'[g] = handler[g]
      /\ acked' \in [Orders -> BOOLEAN] /\ events' \in [Orders -> SUBSET Events]
      /\ events'[o] \subseteq events[o]
      /\ \A p \in Orders \ {o} : acked'[p] = acked[p] /\ events'[p] = events[p]
  BY <1>1, FinishMeans
<1>3. gateway[o] \in Taken
  BY <1>1 DEF OrderInv, PaymentTaken
<1>4. order[o].status \in {"PAID", "FAILED"}
  <2>1. order[o] # NoOrder
    BY <1>3 DEF OrderInv, PaymentTaken, Taken
  <2>. QED
    BY <2>1, OrderType
<1>5. /\ gateway' \in [Orders -> {"none", "open", "approved"} \cup Taken]
      /\ \A p \in Orders : gateway'[p] = gateway[p]
  BY <1>1 DEF TopUpTypeOK
<1>. QED
  BY <1>1, <1>2, <1>4, <1>5, HandlerMovesAlone

\* The winner of the compare-and-swap finds no winner before it.
LEMMA WinningInv ==
  ASSUME TopUpInv, NEW o \in Orders, NEW h \in Handlers,
         MarkPaid(h, o), order[o].status = "CREATED"
  PROVE  TopUpInv'
<1>. TopUpTypeOK /\ OrderInv(o)
  BY DEF TopUpInv
<1>1. /\ handler[h] # Idle /\ handler[h].order = o /\ Current(h, "mark", o)
      /\ order' = [order EXCEPT ![o].status = "PAID"]
      /\ handler' = [handler EXCEPT ![h].stage = "credit"]
      /\ UNCHANGED walletVars /\ UNCHANGED <<gateway, events, acked, died>>
  BY DEF MarkPaid, Current
<1>2. order[o] # NoOrder
  BY StatusMeansOrder
<1>3. /\ order' \in [Orders -> OrderRows \cup {NoOrder}]
      /\ order'[o] \in OrderRows /\ order'[o] # NoOrder
      /\ \A p \in Orders \ {o} : order'[p] = order[p]
  BY <1>1, <1>2, OrderUpdateType
<1>4. order'[o].status = "PAID" /\ order'[o].linked = order[o].linked
  BY <1>1, <1>2, OrderType DEF TopUpTypeOK, OrderRows
<1> DEFINE new == [handler[h] EXCEPT !.stage = "credit"]
<1>5. handler[h] \in Handling
  BY <1>1, HandlingType
<1>6. /\ new \in Handling /\ new.order = o /\ new.stage = "credit"
      /\ new.payment = handler[h].payment
      /\ handler' = [handler EXCEPT ![h] = new]
  BY <1>1, <1>5 DEF Handling, TopUpTypeOK
<1>7. new # Idle
  BY <1>6 DEF Handling, Idle
<1> HIDE DEF new
<1>8. /\ handler' \in [Handlers -> Handling \cup {Idle}] /\ handler'[h] = new
      /\ \A g \in Handlers \ {h} : handler'[g] = handler[g]
  BY <1>6, HandlerUpdateType
<1>9. TypeOK' /\ \A p \in Orders : CreditRows(p)' = CreditRows(p)
  BY <1>1, SameWallet
<1>10. TopUpTypeOK'
  BY <1>1, <1>3, <1>8, <1>9 DEF TopUpTypeOK
<1>11. (\A g \in Handlers : ~Current(g, "credit", o)) /\ CreditRows(o) = {}
  BY DEF OrderInv, Winner, Credited
<1>12. gateway[o] \in Taken /\ handler[h].payment \in {o, CaptureId[o]}
  BY <1>1 DEF OrderInv, PaymentTaken
<1>13. /\ Current(h, "credit", o)'
       /\ \A g \in Handlers : Current(g, "credit", o)' => g = h
       /\ \A g \in Handlers : Current(g, "mark", o)' => Current(g, "mark", o) /\ g # h
  BY <1>6, <1>7, <1>8, <1>11 DEF Current
<1>14. PaymentTaken(o)'
  BY <1>1, <1>2, <1>3, <1>4, <1>6, <1>8, <1>12, <1>13 DEF OrderInv, PaymentTaken
<1>15. Winner(o)' /\ Credited(o)'
  BY <1>1, <1>4, <1>9, <1>11, <1>12, <1>13 DEF OrderInv, Winner, Credited
<1>16. OrderInv(o)'
  BY <1>14, <1>15 DEF OrderInv
<1>17. \A p \in Orders \ {o} : \A g \in Handlers :
         \/ handler'[g] = handler[g]
         \/ ~On(g, p) /\ ~On(g, p)'
  BY <1>1, <1>6, <1>8 DEF On
<1>. QED
  BY <1>1, <1>3, <1>9, <1>10, <1>16, <1>17, OneOrderMoves

\* The winner's deposit is the first row of its order, and no other order's.
LEMMA CreditMeans ==
  ASSUME TopUpInv, NEW o \in Orders, NEW h \in Handlers, Credit(h, o)
  PROVE  /\ order[o].user \in Advertisers /\ order[o].credit \in Amounts
         /\ order[o].status = "PAID" /\ gateway[o] \in Taken
         /\ handler[h] # Idle /\ handler[h].order = o /\ Finish(h)
         /\ Deposit(order[o].user, order[o].credit, handler[h].payment)
         /\ handler[h].payment \in Refs
         /\ UNCHANGED <<order, gateway, died>>
         /\ CreditRows(o) = {}
         /\ CreditRows(o)' = {[user |-> order[o].user, type |-> "DEPOSIT",
                               ref |-> handler[h].payment, amount |-> order[o].credit]}
         /\ \A p \in Orders \ {o} : CreditRows(p)' = CreditRows(p)
<1>. TopUpTypeOK /\ OrderInv(o)
  BY DEF TopUpInv
<1>1. /\ handler[h] # Idle /\ handler[h].order = o /\ Current(h, "credit", o)
      /\ Finish(h) /\ UNCHANGED <<order, gateway, died>>
      /\ Deposit(order[o].user, order[o].credit, handler[h].payment)
  BY DEF Credit, Current
<1>2. /\ order[o].status = "PAID" /\ gateway[o] \in Taken /\ CreditRows(o) = {}
      /\ handler[h].payment \in {o, CaptureId[o]}
  BY <1>1 DEF OrderInv, Winner, PaymentTaken
<1>3. order[o].user \in Advertisers /\ order[o].credit \in Amounts
  BY <1>2, StatusMeansOrder, OrderType
<1> DEFINE new == [user |-> order[o].user, type |-> "DEPOSIT",
                   ref |-> handler[h].payment, amount |-> order[o].credit]
<1>4. ledger' = ledger \cup {new} /\ new.type = "DEPOSIT" /\ new.ref = handler[h].payment
  BY <1>1 DEF Deposit, RecordTransaction, AddRow
<1> HIDE DEF new
<1>5. CreditRows(o)' = {new}
  BY <1>2, <1>4 DEF CreditRows
<1>6. ASSUME NEW p \in Orders \ {o} PROVE CreditRows(p)' = CreditRows(p)
  <2>1. handler[h].payment \notin {p, CaptureId[p]}
    BY <1>2, IdsOfPayments
  <2>. QED
    BY <1>4, <2>1 DEF CreditRows
<1>. QED
  BY <1>1, <1>2, <1>3, <1>5, <1>6, IdsOfPayments DEF new

LEMMA CreditInv ==
  ASSUME TopUpInv, NEW o \in Orders, NEW h \in Handlers, Credit(h, o)
  PROVE  TopUpInv'
<1>. TopUpTypeOK /\ OrderInv(o)
  BY DEF TopUpInv
<1>1. /\ order[o].user \in Users /\ order[o].credit \in Amounts
      /\ order[o].status = "PAID" /\ gateway[o] \in Taken
      /\ handler[h] # Idle /\ handler[h].order = o /\ Finish(h)
      /\ Deposit(order[o].user, order[o].credit, handler[h].payment)
      /\ handler[h].payment \in Refs
      /\ UNCHANGED <<order, gateway, died>>
      /\ \A p \in Orders \ {o} : CreditRows(p)' = CreditRows(p)
  BY CreditMeans
<1> DEFINE new == [user |-> order[o].user, type |-> "DEPOSIT",
                   ref |-> handler[h].payment, amount |-> order[o].credit]
<1>2. CreditRows(o)' = {new} /\ new.user = order[o].user /\ new.amount = order[o].credit
  BY CreditMeans
<1> HIDE DEF new
<1>3. TypeOK'
  BY <1>1, DepositTypeOK DEF TopUpTypeOK
<1>4. /\ handler' \in [Handlers -> Handling \cup {Idle}] /\ handler'[h] = Idle
      /\ \A g \in Handlers \ {h} : handler'[g] = handler[g]
      /\ acked' \in [Orders -> BOOLEAN] /\ events' \in [Orders -> SUBSET Events]
      /\ events'[o] \subseteq events[o]
      /\ \A p \in Orders \ {o} : acked'[p] = acked[p] /\ events'[p] = events[p]
  BY <1>1, FinishMeans
<1>5. TopUpTypeOK'
  BY <1>1, <1>3, <1>4 DEF TopUpTypeOK
<1>6. /\ \A g \in Handlers : Current(g, "mark", o)' => Current(g, "mark", o) /\ g # h
      /\ \A g \in Handlers : ~Current(g, "credit", o)'
  <2>1. Current(h, "credit", o)
    BY DEF Credit
  <2>2. \A g \in Handlers : Current(g, "credit", o) => g = h
    BY <2>1 DEF OrderInv, Winner
  <2>. QED
    BY <1>4, <2>2 DEF Current
<1>7. PaymentTaken(o)'
  BY <1>1, <1>4, <1>6 DEF OrderInv, PaymentTaken
<1>8. Winner(o)' /\ Credited(o)'
  BY <1>1, <1>2, <1>6 DEF Winner, Credited
<1>9. OrderInv(o)'
  BY <1>7, <1>8 DEF OrderInv
<1>10. \A p \in Orders \ {o} : \A g \in Handlers :
         \/ handler'[g] = handler[g]
         \/ ~On(g, p) /\ ~On(g, p)'
  BY <1>1, <1>4 DEF On
<1>. QED
  BY <1>1, <1>4, <1>5, <1>9, <1>10, OneOrderMoves

\* A handler that stops gives up its credit, and that is on record.
LEMMA DieInv ==
  ASSUME TopUpInv, NEW o \in Orders, NEW h \in Handlers, Die(h, o)
  PROVE  TopUpInv'
<1>. TopUpTypeOK /\ OrderInv(o)
  BY DEF TopUpInv
<1>1. /\ handler[h] # Idle /\ handler[h].order = o
      /\ handler' = [handler EXCEPT ![h] = Idle]
      /\ died' = [died EXCEPT ![o] = @ \/ handler[h].stage = "credit"]
      /\ UNCHANGED walletVars /\ UNCHANGED <<order, acked>>
  BY DEF Die
<1>2. /\ handler' \in [Handlers -> Handling \cup {Idle}] /\ handler'[h] = Idle
      /\ \A g \in Handlers \ {h} : handler'[g] = handler[g]
  BY <1>1, HandlerUpdateType
<1>3. /\ died' \in [Orders -> BOOLEAN]
      /\ \A p \in Orders \ {o} : died'[p] = died[p]
      /\ died[o] \/ handler[h].stage = "credit" <=> died'[o]
  BY <1>1 DEF TopUpTypeOK
<1>4. /\ gateway' \in [Orders -> {"none", "open", "approved"} \cup Taken]
      /\ events' \in [Orders -> SUBSET Events]
      /\ \A p \in Orders \ {o} : gateway'[p] = gateway[p] /\ events'[p] = events[p]
      /\ \/ gateway'[o] = gateway[o] /\ events'[o] = events[o]
         \/ gateway[o] = "approved" /\ gateway'[o] \in Taken
  BY PayPalTakesMeans DEF Die, TopUpTypeOK
<1>5. TypeOK' /\ \A p \in Orders : CreditRows(p)' = CreditRows(p)
  BY <1>1, SameWallet
<1>6. TopUpTypeOK'
  BY <1>1, <1>2, <1>3, <1>4, <1>5 DEF TopUpTypeOK
<1>7. \A g \in Handlers, s \in {"mark", "credit"} :
        Current(g, s, o)' <=> Current(g, s, o) /\ g # h
  BY <1>2 DEF Current
<1>8. PaymentTaken(o)'
  <2>1. \A g \in Handlers : Current(g, "mark", o)' \/ Current(g, "credit", o)' =>
          handler'[g].payment \in {o, CaptureId[o]} /\ gateway[o] \in Taken
    BY <1>2, <1>7 DEF OrderInv, PaymentTaken
  <2>2. gateway[o] \in Taken => gateway'[o] \in Taken
    BY <1>4
  <2>3. order'[o] = NoOrder \/ ~order'[o].linked => gateway'[o] = "none"
    BY <1>1, <1>4 DEF OrderInv, PaymentTaken
  <2>4. "captured" \in events'[o] => gateway'[o] \in Taken
    BY <1>4 DEF OrderInv, PaymentTaken
  <2>. QED
    BY <2>1, <2>2, <2>3, <2>4 DEF PaymentTaken
<1>9. Winner(o)'
  BY <1>1, <1>4, <1>5, <1>7 DEF OrderInv, Winner
<1>10. Credited(o)'
  <2>1. Current(h, "credit", o) <=> handler[h].stage = "credit"
    BY <1>1 DEF Current
  <2>. QED
    BY <1>1, <1>3, <1>5, <1>7, <2>1 DEF OrderInv, Credited
<1>11. OrderInv(o)'
  BY <1>8, <1>9, <1>10 DEF OrderInv
<1>12. \A p \in Orders \ {o} : \A g \in Handlers :
         \/ handler'[g] = handler[g]
         \/ ~On(g, p) /\ ~On(g, p)'
  BY <1>1, <1>2 DEF On
<1>. QED
  BY <1>1, <1>3, <1>4, <1>5, <1>6, <1>11, <1>12, OneOrderMoves

LEMMA HandlerStepInv ==
  ASSUME TopUpInv, NEW o \in Orders, NEW h \in Handlers, HandlerStep(h, o)
  PROVE  TopUpInv'
<1>. TopUpTypeOK /\ OrderInv(o)
  BY DEF TopUpInv
<1>1. CASE ConfirmPayment(h, o)
  <2>1. gateway[o] = "captured" => gateway[o] \in Taken
    BY DEF Taken
  <2>. QED
    BY <1>1, <2>1, BeginInv DEF ConfirmPayment
<1>2. CASE WebhookApproved(h, o)
  <2>1. CASE order[o].status = "CREATED"
    BY <1>2, <2>1, BeginInv DEF WebhookApproved, Events
  <2>2. CASE order[o].status # "CREATED"
    <3>1. /\ Ack(o, "approved") /\ UNCHANGED <<walletVars, order, handler, gateway, died>>
      BY <1>2, <2>2 DEF WebhookApproved
    <3>2. /\ acked' \in [Orders -> BOOLEAN] /\ events' \in [Orders -> SUBSET Events]
          /\ events'[o] \subseteq events[o] /\ (acked'[o] <=> acked[o])
          /\ \A p \in Orders \ {o} : acked'[p] = acked[p] /\ events'[p] = events[p]
      BY <3>1, AckMeans
    <3>3. TypeOK' /\ \A p \in Orders : CreditRows(p)' = CreditRows(p)
      BY <3>1, SameWallet
    <3>4. TopUpTypeOK'
      BY <3>1, <3>2, <3>3 DEF TopUpTypeOK
    <3>5. \A g \in Handlers : \A s : Current(g, s, o)' <=> Current(g, s, o)
      BY <3>1 DEF Current
    <3>6. PaymentTaken(o)'
      BY <3>1, <3>2, <3>5 DEF OrderInv, PaymentTaken
    <3>7. Winner(o)' /\ Credited(o)'
      BY <3>1, <3>2, <3>3, <3>5 DEF OrderInv, Winner, Credited
    <3>8. OrderInv(o)'
      BY <3>6, <3>7 DEF OrderInv
    <3>. QED
      BY <3>1, <3>2, <3>3, <3>4, <3>8, OneOrderMoves
  <2>. QED
    BY <2>1, <2>2
<1>3. CASE WebhookCaptured(h, o)
  BY <1>3, BeginInv DEF WebhookCaptured, OrderInv, PaymentTaken, Events
<1>4. CASE Capture(h, o)
  BY <1>4, CaptureInv
<1>5. CASE CaptureDeclined(h, o)
  BY <1>5, CaptureDeclinedInv
<1>6. CASE MarkPaid(h, o)
  BY <1>6, LosingInv, WinningInv
<1>7. CASE Credit(h, o)
  BY <1>7, CreditInv
<1>8. CASE Die(h, o)
  BY <1>8, DieInv
<1>. QED
  BY <1>1, <1>2, <1>3, <1>4, <1>5, <1>6, <1>7, <1>8 DEF HandlerStep

-----------------------------------------------------------------------------
(* The theorem *)

LEMMA TopUpInitInv == TopUpInit => TopUpInv
<1>. SUFFICES ASSUME TopUpInit PROVE TopUpInv
  OBVIOUS
<1>1. TypeOK
  BY InitTypeOK DEF TopUpInit
<1>2. TopUpTypeOK
  BY <1>1 DEF TopUpInit, TopUpTypeOK
<1>3. ASSUME NEW o \in Orders PROVE OrderInv(o)
  <2>1. /\ order[o] = NoOrder /\ gateway[o] = "none" /\ events[o] = {} /\ ~acked[o]
        /\ \A h \in Handlers : handler[h] = Idle
        /\ ledger = {}
    BY DEF TopUpInit, Init
  <2>2. /\ CreditRows(o) = {} /\ order[o].status = "none"
        /\ \A h \in Handlers : \A s : ~Current(h, s, o)
    BY <2>1 DEF CreditRows, NoOrder, Current
  <2>. QED
    BY <2>1, <2>2 DEF OrderInv, PaymentTaken, Winner, Credited
<1>. QED
  BY <1>2, <1>3 DEF TopUpInv

LEMMA TopUpNextInv == TopUpInv /\ [TopUpNext]_topUpVars => TopUpInv'
<1>. SUFFICES ASSUME TopUpInv, [TopUpNext]_topUpVars PROVE TopUpInv'
  OBVIOUS
<1>1. CASE TopUpNext
  <2>1. PICK o \in Orders : OrderStep(o) \/ \E h \in Handlers : HandlerStep(h, o)
    BY <1>1 DEF TopUpNext
  <2>. QED
    BY <2>1, OrderStepInv, HandlerStepInv
<1>2. CASE UNCHANGED topUpVars
  BY <1>2 DEF topUpVars, TopUpInv, TopUpTypeOK, TypeOK, OrderInv, PaymentTaken, Winner,
              Credited, CreditRows, Current
<1>. QED
  BY <1>1, <1>2

\* Confirm calls and webhooks of any number of orders, with any number of
\* handlers, meeting in any order and stopping anywhere: one handler wins an
\* order, and PAID, the deposit row and the gateway's answers agree.
THEOREM OrdersStaySound == TopUpSpec => []OrdersAreSound
<1>1. TopUpSpec => []TopUpInv
  BY TopUpInitInv, TopUpNextInv, PTL DEF TopUpSpec
<1>. QED
  BY <1>1, TopUpInvMeans, PTL

-----------------------------------------------------------------------------
(* The refinement of the contract *)

\* What a step may do to the contract's state: nothing, take one order's
\* payment, or credit one order.
LEMMA StutterRefines ==
  ASSUME UNCHANGED walletVars,
         \A p \in Orders : gateway'[p] \in Taken <=> gateway[p] \in Taken
  PROVE  UNCHANGED Contract!contractVars
<1>1. [o \in Orders |-> gateway[o] \in Taken]' = [o \in Orders |-> gateway[o] \in Taken]
  OBVIOUS
<1>2. [o \in Orders |-> SumAmounts(CreditRows(o))]' = [o \in Orders |-> SumAmounts(CreditRows(o))]
  BY DEF CreditRows, walletVars
<1>3. [u \in Advertisers |-> balance[u]]' = [u \in Advertisers |-> balance[u]]
  BY DEF walletVars
<1>. QED
  BY <1>1, <1>2, <1>3 DEF Contract!contractVars

LEMMA ReceiveRefines ==
  ASSUME NEW o \in Orders, UNCHANGED walletVars, gateway[o] \notin Taken, gateway'[o] \in Taken,
         \A p \in Orders \ {o} : gateway'[p] = gateway[p]
  PROVE  Contract!ContractNext
<1>0. \A p \in Orders : (gateway[p] \in Taken)' =
        IF p = o THEN TRUE ELSE [q \in Orders |-> gateway[q] \in Taken][p]
  <2>1. (gateway[o] \in Taken)' = TRUE
    BY Zenon
  <2>2. \A p \in Orders \ {o} : (gateway[p] \in Taken)' = (gateway[p] \in Taken)
    BY Zenon
  <2>3. \A p \in Orders : [q \in Orders |-> gateway[q] \in Taken][p] = (gateway[p] \in Taken)
    BY Zenon
  <2>. QED
    BY <2>1, <2>2, <2>3, Zenon
<1>1. [p \in Orders |-> gateway[p] \in Taken]' =
        [[p \in Orders |-> gateway[p] \in Taken] EXCEPT ![o] = TRUE]
  BY <1>0, Zenon
<1>2. [p \in Orders |-> SumAmounts(CreditRows(p))]' = [p \in Orders |-> SumAmounts(CreditRows(p))]
  BY DEF CreditRows, walletVars
<1>3. [u \in Advertisers |-> balance[u]]' = [u \in Advertisers |-> balance[u]]
  BY DEF walletVars
<1>4. Contract!Receive(o)
  BY <1>1, <1>2, <1>3 DEF Contract!Receive
<1>. QED
  BY <1>4 DEF Contract!ContractNext

LEMMA SumOfOne ==
  ASSUME NEW row, row.amount \in Nat
  PROVE  SumAmounts({row}) = row.amount
<1>1. SumAmounts({}) = 0
  BY SumEmpty DEF SumAmounts
<1>2. SumAmounts({} \cup {row}) = SumAmounts({}) + row.amount
  BY FS_EmptySet, AmountsAdd
<1>3. {} \cup {row} = {row}
  OBVIOUS
<1>. QED
  BY <1>1, <1>2, <1>3

LEMMA CreditRefines ==
  ASSUME TopUpInv, NEW o \in Orders, NEW h \in Handlers, Credit(h, o)
  PROVE  Contract!ContractNext
<1>0. PICK u \in Advertisers, a \in Amounts : u = order[o].user /\ a = order[o].credit
  BY CreditMeans
<1> DEFINE new == [user |-> u, type |-> "DEPOSIT", ref |-> handler[h].payment, amount |-> a]
<1>1. /\ gateway[o] \in Taken
      /\ Deposit(u, a, handler[h].payment) /\ UNCHANGED gateway
      /\ CreditRows(o) = {} /\ CreditRows(o)' = {new}
      /\ \A p \in Orders \ {o} : CreditRows(p)' = CreditRows(p)
  BY <1>0, CreditMeans
<1>2. new.amount = a /\ a \in Nat
  BY <1>1, WalletAssumption
<1>3. balance' = [balance EXCEPT ![u] = @ + a] /\ balance \in [Users -> Nat]
  BY <1>1 DEF Deposit, TopUpInv, TopUpTypeOK, TypeOK
<1> HIDE DEF new
<1>4. SumAmounts(CreditRows(o)) = 0 /\ SumAmounts(CreditRows(o))' = a
  BY <1>1, <1>2, SumOfOne, SumEmpty DEF SumAmounts
<1>5. \A p \in Orders \ {o} : SumAmounts(CreditRows(p))' = SumAmounts(CreditRows(p))
  BY <1>1 DEF SumAmounts
<1>6. [p \in Orders |-> SumAmounts(CreditRows(p))]' =
        [[p \in Orders |-> SumAmounts(CreditRows(p))] EXCEPT ![o] = a]
  BY <1>4, <1>5
<1>7. [v \in Advertisers |-> balance[v]]' = [[v \in Advertisers |-> balance[v]] EXCEPT ![u] = @ + a]
  BY <1>1, <1>3
<1>8. [p \in Orders |-> gateway[p] \in Taken]' = [p \in Orders |-> gateway[p] \in Taken]
  BY <1>1
<1>9. Contract!CreditBuyer(o, u, a)
  BY <1>1, <1>4, <1>6, <1>7, <1>8 DEF Contract!CreditBuyer
<1>. QED
  BY <1>9, Zenon DEF Contract!ContractNext

LEMMA PayPalTakesRefines ==
  ASSUME TopUpInv, NEW o \in Orders, PayPalTakes(o), UNCHANGED walletVars
  PROVE  Contract!ContractNext
<1>1. /\ gateway[o] = "approved" /\ gateway'[o] \in Taken
      /\ \A p \in Orders \ {o} : gateway'[p] = gateway[p]
  BY PayPalTakesMeans DEF TopUpInv
<1>2. gateway[o] \notin Taken
  BY <1>1 DEF Taken
<1>. QED
  BY <1>1, <1>2, ReceiveRefines

LEMMA GatewayMovesRefines ==
  ASSUME TopUpInv, NEW o \in Orders, NEW to, NEW event, GatewayMoves(o, to, event),
         to \in {"open", "approved"} \cup Taken, gateway[o] \in Taken => to \in Taken
  PROVE  Contract!ContractNext \/ UNCHANGED Contract!contractVars
<1>1. /\ gateway'[o] = to /\ \A p \in Orders \ {o} : gateway'[p] = gateway[p]
      /\ UNCHANGED walletVars
  BY DEF GatewayMoves, TopUpInv, TopUpTypeOK
<1>2. CASE gateway[o] \notin Taken /\ to \in Taken
  BY <1>1, <1>2, ReceiveRefines
<1>3. CASE ~(gateway[o] \notin Taken /\ to \in Taken)
  <2>1. \A p \in Orders : gateway'[p] \in Taken <=> gateway[p] \in Taken
    BY <1>1, <1>3
  <2>. QED
    BY <1>1, <2>1, StutterRefines
<1>. QED
  BY <1>2, <1>3

LEMMA StepRefines ==
  TopUpInv /\ [TopUpNext]_topUpVars => [Contract!ContractNext]_(Contract!contractVars)
<1>. SUFFICES ASSUME TopUpInv, [TopUpNext]_topUpVars
              PROVE  Contract!ContractNext \/ UNCHANGED Contract!contractVars
  OBVIOUS
<1>1. CASE UNCHANGED topUpVars
  BY <1>1, StutterRefines DEF topUpVars, walletVars
<1>2. ASSUME NEW o \in Orders, OrderStep(o)
      PROVE  Contract!ContractNext \/ UNCHANGED Contract!contractVars
  <2>1. CASE BuyerPays(o)
    BY <2>1, GatewayMovesRefines DEF BuyerPays, Taken
  <2>2. CASE AttemptFails(o)
    BY <2>2, GatewayMovesRefines DEF AttemptFails, Taken
  <2>3. CASE PendingSettles(o)
    BY <2>3, GatewayMovesRefines DEF PendingSettles, Taken
  <2>4. CASE LinkOrder(o)
    <3>1. /\ UNCHANGED walletVars /\ gateway' = [gateway EXCEPT ![o] = "open"]
          /\ gateway[o] = "none"
      BY <2>4 DEF LinkOrder, Unlinked, TopUpInv, OrderInv, PaymentTaken
    <3>2. \A p \in Orders : gateway'[p] \in Taken <=> gateway[p] \in Taken
      BY <3>1 DEF TopUpInv, TopUpTypeOK, Taken
    <3>. QED
      BY <3>1, <3>2, StutterRefines
  <2>5. CASE \/ \E u \in Advertisers, a \in Amounts, provider \in {"paypal", "razorpay"} :
                  CreateOrder(o, u, a, provider)
             \/ FailDanglingOrder(o) \/ WebhookFailed(o)
    <3>1. UNCHANGED walletVars /\ UNCHANGED gateway
      BY <2>5 DEF CreateOrder, FailDanglingOrder, WebhookFailed
    <3>. QED
      BY <3>1, StutterRefines
  <2>. QED
    BY <1>2, <2>1, <2>2, <2>3, <2>4, <2>5 DEF OrderStep
<1>3. ASSUME NEW o \in Orders, NEW h \in Handlers, HandlerStep(h, o)
      PROVE  Contract!ContractNext \/ UNCHANGED Contract!contractVars
  <2>1. CASE Credit(h, o)
    BY <2>1, CreditRefines
  <2>2. CASE Capture(h, o)
    <3>1. UNCHANGED walletVars /\ (PayPalTakes(o) \/ UNCHANGED gateway)
      BY <2>2 DEF Capture
    <3>. QED
      BY <3>1, PayPalTakesRefines, StutterRefines
  <2>3. CASE Die(h, o)
    <3>1. UNCHANGED walletVars /\ (PayPalTakes(o) \/ UNCHANGED gateway)
      BY <2>3 DEF Die
    <3>. QED
      BY <3>1, PayPalTakesRefines, StutterRefines
  <2>4. CASE ConfirmPayment(h, o) \/ WebhookApproved(h, o) \/ WebhookCaptured(h, o)
             \/ CaptureDeclined(h, o) \/ MarkPaid(h, o)
    <3>1. UNCHANGED walletVars /\ UNCHANGED gateway
      BY <2>4 DEF ConfirmPayment, WebhookApproved, WebhookCaptured, CaptureDeclined,
                  MarkPaid, Begin
    <3>. QED
      BY <3>1, StutterRefines
  <2>. QED
    BY <1>3, <2>1, <2>2, <2>3, <2>4 DEF HandlerStep
<1>4. CASE TopUpNext
  BY <1>2, <1>3, <1>4 DEF TopUpNext
<1>. QED
  BY <1>1, <1>4

LEMMA InitRefines == TopUpInit => Contract!ContractInit
<1>. SUFFICES ASSUME TopUpInit PROVE Contract!ContractInit
  OBVIOUS
<1>1. /\ \A o \in Orders : gateway[o] = "none"
      /\ ledger = {} /\ balance = [u \in Users |-> 0]
  BY DEF TopUpInit, Init
<1>2. [o \in Orders |-> gateway[o] \in Taken] = [o \in Orders |-> FALSE]
  <2>1. \A o \in Orders : gateway[o] \notin Taken
    BY <1>1 DEF Taken
  <2> DEFINE Received == [o \in Orders |-> gateway[o] \in Taken]
  <2>2. Received \in [Orders -> BOOLEAN] /\ \A o \in Orders : ~Received[o]
    <3>1. \A o \in Orders : Received[o] <=> gateway[o] \in Taken
      BY Zenon
    <3>2. Received \in [Orders -> BOOLEAN]
      OBVIOUS
    <3>. QED
      BY <2>1, <3>1, <3>2, Zenon
  <2> HIDE DEF Received
  <2>3. Received = [o \in Orders |-> FALSE]
    BY <2>2
  <2>. QED
    BY <2>3 DEF Received
<1>3. ASSUME NEW o \in Orders PROVE SumAmounts(CreditRows(o)) = 0
  <2>1. CreditRows(o) = {}
    BY <1>1 DEF CreditRows
  <2>. QED
    BY <2>1, SumEmpty DEF SumAmounts
<1>4. [o \in Orders |-> SumAmounts(CreditRows(o))] = [o \in Orders |-> 0]
  BY <1>3
<1>5. [u \in Advertisers |-> balance[u]] = [u \in Advertisers |-> 0]
  BY <1>1
<1>. QED
  BY <1>2, <1>4, <1>5 DEF Contract!ContractInit

\* What the confirm calls, webhooks, retries and stopped handlers amount to:
\* an order's credit reaches a balance whole, after the gateway has taken the
\* payment, and at most once.
THEOREM TopUpsRefineTheirContract == TopUpSpec => CreditsExactlyOnce
<1>1. TopUpSpec => []TopUpInv
  BY TopUpInitInv, TopUpNextInv, PTL DEF TopUpSpec
<1>. QED
  BY <1>1, InitRefines, StepRefines, PTL DEF TopUpSpec, CreditsExactlyOnce, Contract!ContractSpec
=============================================================================
