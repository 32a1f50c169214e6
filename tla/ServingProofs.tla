---------------------------- MODULE ServingProofs ----------------------------
(***************************************************************************)
(* What serving promises of its counters, its unique impressions and its   *)
(* prices, for any campaigns, visitors, limits, requests and failures.     *)
(*                                                                         *)
(* A request decides on what it read an await ago, so no property is       *)
(* inductive as it stands:                                                 *)
(*  - PaysSecondPrice: HandlingOK says that a request with a winner still  *)
(*    carries the clearing price of its bidders, and of each later stage   *)
(*    what it knows; the rest is arithmetic of the rounding.               *)
(*  - WindowsAreBounded counts what went through a key.  KeyInv adds the   *)
(*    requests that have counted and not decided, or have been let through *)
(*    and not counted, that only one of them sets the time to live, and    *)
(*    that a count above the limit is one of them or a lost command.       *)
(*  - UniqueOncePerWindow: UniqueInv adds the claim that is held.          *)
(***************************************************************************)
EXTENDS Serving, FiniteSetTheorems, TLAPS

-----------------------------------------------------------------------------
(* What a request knows, and the price it carries.                         *)

HandlingOK(q) ==
  /\ q.at # "idle" => q.visitor \in Visitors
  /\ q.at # "idle" /\ q.clicked = NoLink => q.zone \in Zones
  /\ q.clicked # NoLink => q.at \in {"counting", "expiring"} /\ q.campaign = None
  /\ q.at \in {"rereading", "claiming"} => q.campaign # None
  /\ q.at \in {"idle", "targeting", "capping"} => q.campaign = None
  /\ q.campaign # None =>
       q.campaign \in q.bidders /\ q.price = applyClearingPrice(q.campaign, q.bidders)

RequestInv ==
  /\ request \in [Requests -> Handling]
  /\ \A r \in Requests : /\ request[r].campaign = None <=> request[r].price = 0
                         /\ HandlingOK(request[r])

RestTyped ==
  /\ terms \in Terms
  /\ cached \subseteq Zones
  /\ counter \in [Keys -> [n: Nat, ttl: BOOLEAN]]
  /\ claimed \subseteq Scopes
  /\ link \in Links \cup {NoLink}
  /\ adClicks \subseteq Campaigns
  /\ charges \subseteq [of: {"impression", "click"}, campaign: Campaigns, newsletter: BOOLEAN]
  /\ sent \in 0..MaxRequests /\ failures \in 0..MaxFailures
  /\ passed \in [Keys -> Nat] /\ unique \in [Scopes -> Nat] /\ vanished \in [Scopes -> Nat]
  /\ lost \subseteq Keys

TypeInv == RequestInv /\ RestTyped

-----------------------------------------------------------------------------
(* What a key lets through.                                                *)

Expiring(r, k) == request[r].at = "expiring" /\ KeyOf(request[r]) = k

\* An INCR that answered 1 and whose request has not decided yet.
Owed(k) == IF \E r \in Requests : Expiring(r, k) THEN 1 ELSE 0

\* The requests that the cap has let through and that have not counted.
Capping(k) ==
  {r \in Requests : request[r].at \in {"counting", "expiring"} /\ KeyOf(request[r]) = k}

LimitOf(k) == IF k[1] = "rate:imp" THEN ImpressionLimit ELSE ClickLimit

\* One request at a time sets the time to live, while the key has none.
OneExpires(k) ==
  \A r \in Requests : Expiring(r, k) =>
    /\ counter[k].n > 0 /\ ~counter[k].ttl
    /\ \A o \in Requests : Expiring(o, k) => o = r

TtlOfACount(k) == counter[k].n = 0 => ~counter[k].ttl

HasAnEnd(k) ==
  counter[k].n > 0 /\ ~counter[k].ttl => k \in lost \/ \E r \in Requests : Expiring(r, k)

\* What was let through was counted, or its command failed.
PassedCounted(k) == passed[k] + Owed(k) <= counter[k].n + failures

RateKept(k) == LimitOf(k) > 0 => passed[k] + Owed(k) <= LimitOf(k) + failures
RateOff(k) == LimitOf(k) = 0 => passed[k] <= failures

CapKept(k) ==
  passed[k] + Cardinality(Capping(k)) <= CapLimit + Cardinality(Requests) - 1 + failures

KeyInv(k) ==
  /\ OneExpires(k) /\ TtlOfACount(k) /\ HasAnEnd(k) /\ PassedCounted(k)
  /\ k[1] # "freqcap" => RateKept(k) /\ RateOff(k)
  /\ k[1] = "freqcap" => CapKept(k)

WindowInv == \A k \in Keys : KeyInv(k)

UniqueInv ==
  \A s \in Scopes : unique[s] <= (IF s \in claimed THEN 1 ELSE 0) + failures + vanished[s]

-----------------------------------------------------------------------------
(* The price.                                                              *)

LEMMA BidsArePositive ==
  ASSUME terms \in Terms, NEW c \in Campaigns PROVE effectiveUnitBid(c) \in Nat \ {0}
<1>1. terms[c] \in [cpc: Nat \ {0}, cpm: Nat, cpa: BOOLEAN]
  BY ServingAssumption
<1>. QED
  BY <1>1 DEF effectiveUnitBid, IsCpm

LEMMA BidsKeep ==
  ASSUME terms' = terms, NEW w, NEW bidders
  PROVE  applyClearingPrice(w, bidders)' = applyClearingPrice(w, bidders)
<1>. DEFINE others == {0} \cup {effectiveUnitBid(c) : c \in bidders \ {w}}
<1>1. others' = others
  BY DEF effectiveUnitBid, IsCpm
<1>2. RunnerUp(w, bidders) = Max(others) /\ RunnerUp(w, bidders)' = Max(others')
  BY DEF RunnerUp
<1>3. RunnerUp(w, bidders)' = RunnerUp(w, bidders)
  BY <1>1, <1>2
<1>. QED
  BY <1>3 DEF applyClearingPrice, clearingUnitBid, effectiveUnitBid, IsCpm

LEMMA MaxIsGreatest ==
  ASSUME NEW S, S \subseteq Int, NEW x \in S, \A y \in S : y <= x PROVE Max(S) = x
<1>1. \E m \in S : \A y \in S : m >= y
  OBVIOUS
<1>2. Max(S) \in S /\ \A y \in S : Max(S) >= y
  BY <1>1, Zenon DEF Max
<1>3. Max(S) \in Int /\ x \in Int /\ Max(S) >= x /\ Max(S) <= x
  BY <1>2
<1>. QED
  BY <1>3

LEMMA MinOfTwo ==
  ASSUME NEW x \in Int, NEW y \in Int PROVE Min({x, y}) = IF x <= y THEN x ELSE y
<1>1. CASE x <= y
  BY <1>1 DEF Min
<1>2. CASE ~(x <= y)
  BY <1>2 DEF Min
<1>. QED
  BY <1>1, <1>2

\* Some bidder bids most: a smallest set of bidders without one would have one.
LEMMA SomeoneBidsMost ==
  ASSUME terms \in Terms, NEW bidders \in SUBSET Campaigns, bidders # {}
  PROVE  \E c \in bidders : \A d \in bidders : effectiveUnitBid(d) <= effectiveUnitBid(c)
<1>. DEFINE Tops(T) == \E c \in T : \A d \in T : effectiveUnitBid(d) <= effectiveUnitBid(c)
            B == {T \in SUBSET bidders : T # {} /\ ~Tops(T)}
<1>. SUFFICES ASSUME B # {} PROVE FALSE
  OBVIOUS
<1>1. IsFiniteSet(bidders)
  BY ServingAssumption, FS_Subset
<1>2. PICK T \in B : \A U \in B : U \subseteq T => U = T
  <2>. HIDE DEF B
  <2>1. B \subseteq SUBSET bidders
    BY DEF B
  <2>2. IsWellFoundedOn(StrictSubsetOrdering(bidders), FiniteSubsetsOf(bidders))
    BY <1>1, FS_StrictSubsetOrderingWellFounded
  <2>3. FiniteSubsetsOf(bidders) = SUBSET bidders
    BY <1>1, FS_FiniteSubsetsOfFinite
  <2>4. \E T \in B : \A U \in B : <<U, T>> \notin StrictSubsetOrdering(bidders)
    BY <2>1, <2>2, <2>3, WFMin
  <2>. QED
    BY <2>1, <2>4 DEF StrictSubsetOrdering
<1>3. PICK c \in T : TRUE
  OBVIOUS
<1>4. \A d \in T : effectiveUnitBid(d) \in Int
  BY BidsArePositive
<1>5. CASE T \ {c} = {}
  <2>1. \A d \in T : effectiveUnitBid(d) <= effectiveUnitBid(c)
    BY <1>4, <1>5
  <2>. QED
    BY <2>1
<1>6. CASE T \ {c} # {}
  <2>1. Tops(T \ {c})
    <3>. HIDE DEF Tops
    <3>1. T \ {c} \in SUBSET bidders /\ T \ {c} \subseteq T /\ T \ {c} # T
      BY <1>3
    <3>. QED
      BY <1>2, <1>6, <3>1
  <2>2. PICK e \in T \ {c} : \A d \in T \ {c} : effectiveUnitBid(d) <= effectiveUnitBid(e)
    BY <2>1
  <2>3. CASE effectiveUnitBid(c) <= effectiveUnitBid(e)
    <3>1. \A d \in T : effectiveUnitBid(d) <= effectiveUnitBid(e)
      BY <2>2, <2>3
    <3>. QED
      BY <3>1
  <2>4. CASE ~(effectiveUnitBid(c) <= effectiveUnitBid(e))
    <3>1. \A d \in T : effectiveUnitBid(d) <= effectiveUnitBid(c)
      BY <1>4, <2>2, <2>4
    <3>. QED
      BY <3>1
  <2>. QED
    BY <2>3, <2>4
<1>. QED
  BY <1>5, <1>6

LEMMA RunnerUpIsABid ==
  ASSUME terms \in Terms, NEW bidders \in SUBSET Campaigns, NEW w \in bidders
  PROVE  /\ RunnerUp(w, bidders) \in Nat
         /\ \A u \in {effectiveUnitBid(c) : c \in bidders \ {w}} :
              (\A x \in {effectiveUnitBid(c) : c \in bidders \ {w}} : x <= u)
                => RunnerUp(w, bidders) = u
<1>. DEFINE bids == {effectiveUnitBid(c) : c \in bidders \ {w}}
<1>1. bids \subseteq Nat \ {0}
  BY BidsArePositive
<1>2. ASSUME NEW u \in bids, \A x \in bids : x <= u PROVE RunnerUp(w, bidders) = u
  <2>. HIDE DEF bids
  <2>1. {0} \cup bids \subseteq Int /\ u \in {0} \cup bids /\ \A x \in {0} \cup bids : x <= u
    BY <1>1, <1>2
  <2>2. Max({0} \cup bids) = u
    BY <2>1, MaxIsGreatest
  <2>. QED
    BY <2>2 DEF RunnerUp, bids
<1>3. RunnerUp(w, bidders) \in Nat
  <2>1. CASE bidders \ {w} = {}
    <3>1. {0} \cup bids = {0}
      BY <2>1
    <3>2. Max({0}) = 0
      BY MaxIsGreatest
    <3>. QED
      BY <3>1, <3>2 DEF RunnerUp
  <2>2. CASE bidders \ {w} # {}
    <3>1. PICK c \in bidders \ {w} :
            \A d \in bidders \ {w} : effectiveUnitBid(d) <= effectiveUnitBid(c)
      BY <2>2, SomeoneBidsMost
    <3>2. effectiveUnitBid(c) \in bids /\ \A x \in bids : x <= effectiveUnitBid(c)
      BY <3>1
    <3>3. RunnerUp(w, bidders) = effectiveUnitBid(c)
      BY <1>2, <3>2
    <3>. QED
      BY <3>3, BidsArePositive
  <2>. QED
    BY <2>1, <2>2
<1>. QED
  BY <1>2, <1>3

LEMMA RoundedToACent ==
  ASSUME NEW mils \in Nat
  PROVE  LET cents == roundToBillableCents(mils) IN
         /\ cents \in Nat \ {0}
         /\ cents = 1 \/ (1000 * cents <= mils + 500 /\ mils + 500 < 1000 * cents + 1000)
         /\ \A whole \in Nat \ {0} : mils = 1000 * whole => cents = whole
         /\ \A whole \in Nat \ {0} : mils <= 1000 * whole => cents <= whole
<1>. DEFINE near == (mils + 500) \div 1000
<1>1. near \in Nat /\ 1000 * near <= mils + 500 /\ mils + 500 < 1000 * near + 1000
  OBVIOUS
<1>. HIDE DEF near
<1>2. CASE near >= 1
  <2>1. {1, near} \subseteq Int /\ near \in {1, near} /\ \A y \in {1, near} : y <= near
    BY <1>1, <1>2
  <2>2. roundToBillableCents(mils) = near
    BY <2>1, MaxIsGreatest DEF roundToBillableCents, near
  <2>. QED
    BY <1>1, <1>2, <2>2
<1>3. CASE near = 0
  <2>1. {1, near} \subseteq Int /\ 1 \in {1, near} /\ \A y \in {1, near} : y <= 1
    BY <1>3
  <2>2. Max({1, near}) = 1
    BY <2>1, MaxIsGreatest
  <2>3. roundToBillableCents(mils) = 1
    BY <2>2 DEF roundToBillableCents, near
  <2>. QED
    BY <1>1, <1>3, <2>3
<1>. QED
  BY <1>1, <1>2, <1>3

Paid(w, price) == IF IsCpm(w) THEN price ELSE 1000 * price

LEMMA PriceIsFair ==
  ASSUME terms \in Terms, NEW bidders \in SUBSET Campaigns, NEW w \in bidders,
         NEW price, price = applyClearingPrice(w, bidders)
  PROVE  /\ price \in Nat \ {0}
         /\ 0 < Paid(w, price) /\ Paid(w, price) <= effectiveUnitBid(w)
         /\ RunnerUp(w, bidders) > 0 /\ RunnerUp(w, bidders) <= effectiveUnitBid(w) =>
              (Paid(w, price) - RunnerUp(w, bidders)) \in -500..500 \/ price = 1
<1>. DEFINE second == RunnerUp(w, bidders)
            own == effectiveUnitBid(w)
            unit == clearingUnitBid(w, bidders)
<1>1. second \in Nat /\ own \in Nat \ {0}
  BY RunnerUpIsABid, BidsArePositive
<1>2. unit = IF second > 0 /\ second < own THEN second ELSE own
  <2>1. Min({own, second}) = IF own <= second THEN own ELSE second
    BY <1>1, MinOfTwo
  <2>. HIDE DEF second, own
  <2>. QED
    BY <1>1, <2>1 DEF clearingUnitBid, second, own
<1>3. unit \in Nat \ {0} /\ unit <= own
  <2>. HIDE DEF second, own, unit
  <2>. QED
    BY <1>1, <1>2
<1>4. CASE IsCpm(w)
  <2>1. price = roundToBillableCents(1000 * unit)
    BY <1>4 DEF applyClearingPrice
  <2>. HIDE DEF second, own, unit
  <2>2. price = unit
    BY <1>3, <2>1, RoundedToACent
  <2>3. Paid(w, price) = unit
    BY <1>4, <2>2 DEF Paid
  <2>4. second > 0 /\ second <= own => unit = second
    BY <1>1, <1>2
  <2>. QED
    BY <1>1, <1>3, <2>2, <2>3, <2>4 DEF second, own
<1>5. CASE ~IsCpm(w)
  <2>1. price = roundToBillableCents(unit) /\ Paid(w, price) = 1000 * price
    BY <1>5 DEF applyClearingPrice, Paid
  <2>2. PICK cpc \in Nat \ {0} : own = 1000 * cpc
    <3>1. terms[w] \in [cpc: Nat \ {0}, cpm: Nat, cpa: BOOLEAN]
      BY ServingAssumption
    <3>2. terms[w].cpc \in Nat \ {0} /\ own = 1000 * terms[w].cpc
      BY <1>5, <3>1 DEF effectiveUnitBid
    <3>. QED
      BY <3>2
  <2>. HIDE DEF second, own, unit
  <2>3. /\ price \in Nat \ {0} /\ price <= cpc
        /\ price = 1 \/ (1000 * price <= unit + 500 /\ unit + 500 < 1000 * price + 1000)
    <3>1. unit \in Nat /\ unit <= 1000 * cpc
      BY <1>3, <2>2
    <3>. QED
      BY <2>1, <2>2, <3>1, RoundedToACent
  <2>4. second > 0 /\ second <= own => unit = second
    BY <1>1, <1>2
  <2>5. 0 < 1000 * price /\ 1000 * price <= own
    BY <2>2, <2>3
  <2>6. second > 0 /\ second <= own => (1000 * price - second) \in -500..500 \/ price = 1
    BY <1>1, <2>3, <2>4
  <2>. QED
    BY <2>1, <2>3, <2>5, <2>6 DEF second, own
<1>. QED
  BY <1>4, <1>5

LEMMA TypeInvPays ==
  ASSUME TypeInv PROVE PaysSecondPrice
<1>1. ServingTypeOK
  BY DEF TypeInv, RequestInv, RestTyped, ServingTypeOK
<1>2. ASSUME NEW r \in Requests, request[r].campaign # None
      PROVE  LET q == request[r]
                 w == q.campaign
                 others == {effectiveUnitBid(c) : c \in q.bidders \ {w}}
             IN
             /\ 0 < Paid(w, q.price) /\ Paid(w, q.price) <= effectiveUnitBid(w)
             /\ \A u \in others :
                  (\A x \in others : x <= u) /\ u <= effectiveUnitBid(w)
                    => (Paid(w, q.price) - u) \in -500..500 \/ q.price = 1
  <2>. DEFINE q == request[r]
              w == q.campaign
              others == {effectiveUnitBid(c) : c \in q.bidders \ {w}}
  <2>1. terms \in Terms /\ q \in Handling
    BY <1>1 DEF ServingTypeOK
  <2>2. q.bidders \in SUBSET Campaigns /\ w \in q.bidders
        /\ q.price = applyClearingPrice(w, q.bidders)
    BY <1>2, <2>1 DEF Handling, TypeInv, RequestInv, HandlingOK
  <2>3. ASSUME NEW u \in others, \A x \in others : x <= u, u <= effectiveUnitBid(w)
        PROVE  (Paid(w, q.price) - u) \in -500..500 \/ q.price = 1
    <3>1. RunnerUp(w, q.bidders) = u
      BY <2>1, <2>2, <2>3, RunnerUpIsABid
    <3>2. u > 0
      BY <2>1, <2>2, BidsArePositive
    <3>. QED
      BY <2>1, <2>2, <2>3, <3>1, <3>2, PriceIsFair
  <2>4. 0 < Paid(w, q.price) /\ Paid(w, q.price) <= effectiveUnitBid(w)
    BY <2>1, <2>2, PriceIsFair
  <2>. QED
    BY <2>3, <2>4
<1>. QED
  BY <1>1, <1>2 DEF PaysSecondPrice, Paid

-----------------------------------------------------------------------------
(* Types: what a step does to a request.                                   *)

LEMMA KeysDiffer ==
  ASSUME NEW q \in Handling, HandlingOK(q), q.at # "idle"
  PROVE  /\ KeyOf(q) \in Keys
         /\ KeyOf(q)[1] = "rate:click" <=> q.clicked # NoLink
         /\ KeyOf(q)[1] = "freqcap" <=> q.campaign # None
         /\ KeyOf(q)[1] = "rate:imp" <=> q.clicked = NoLink /\ q.campaign = None
         /\ KeyOf(q)[1] = "freqcap" => KeyOf(q) = CapKey(q.visitor, q.campaign)
<1>1. q.visitor \in Visitors /\ IpOf[q.visitor] \in Ips
  BY DEF HandlingOK, Ips
<1>2. CASE q.clicked # NoLink
  <2>1. KeyOf(q) = <<"rate:click", IpOf[q.visitor]>> /\ q.campaign = None
    BY <1>2 DEF KeyOf, ClickKey, HandlingOK
  <2>. QED
    BY <1>1, <1>2, <2>1 DEF Keys, ClickKey
<1>3. CASE q.clicked = NoLink /\ q.campaign # None
  <2>1. KeyOf(q) = <<"freqcap", q.campaign, q.visitor>> /\ q.campaign \in Campaigns
    BY <1>3 DEF KeyOf, CapKey, Handling
  <2>. QED
    BY <1>1, <1>3, <2>1 DEF Keys, CapKey
<1>4. CASE q.clicked = NoLink /\ q.campaign = None
  <2>1. KeyOf(q) = <<"rate:imp", IpOf[q.visitor]>>
    BY <1>4 DEF KeyOf, ImpressionKey
  <2>. QED
    BY <1>1, <1>4, <2>1 DEF Keys, ImpressionKey
<1>. QED
  BY <1>2, <1>3, <1>4

LEMMA IdleIsTyped ==
  Idle \in Handling /\ HandlingOK(Idle) /\ Idle.campaign = None /\ Idle.price = 0
    /\ Idle.at = "idle"
BY DEF Idle, Handling, HandlingOK, Stages

LEMMA RequestsKept ==
  ASSUME RequestInv, terms' = terms, request' = request PROVE RequestInv'
<1>1. ASSUME NEW r \in Requests PROVE HandlingOK(request[r])'
  <2>1. applyClearingPrice(request[r].campaign, request[r].bidders)'
          = applyClearingPrice(request[r].campaign, request[r].bidders)
    <3>1. \A w, b : applyClearingPrice(w, b)' = applyClearingPrice(w, b)
      BY BidsKeep
    <3>. QED
      BY <3>1
  <2>. QED
    BY <2>1 DEF RequestInv, HandlingOK
<1>. QED
  BY <1>1 DEF RequestInv

LEMMA RequestSet ==
  ASSUME RequestInv, terms' = terms, NEW r \in Requests, NEW q \in Handling, HandlingOK(q),
         q.campaign = None <=> q.price = 0, request' = [request EXCEPT ![r] = q]
  PROVE  RequestInv' /\ request'[r] = q /\ \A o \in Requests \ {r} : request'[o] = request[o]
<1>1. request'[r] = q /\ (\A o \in Requests \ {r} : request'[o] = request[o])
      /\ request' \in [Requests -> Handling]
  BY DEF RequestInv
<1>2. \A w, b : applyClearingPrice(w, b)' = applyClearingPrice(w, b)
  BY BidsKeep
<1>3. ASSUME NEW o \in Requests PROVE HandlingOK(request[o])'
  <2>1. CASE o = r
    <3>1. applyClearingPrice(request[r].campaign, request[r].bidders)'
            = applyClearingPrice(q.campaign, q.bidders)
      BY <1>1, <1>2
    <3>. QED
      BY <1>1, <2>1, <3>1 DEF HandlingOK
  <2>2. CASE o # r
    <3>1. applyClearingPrice(request[o].campaign, request[o].bidders)'
            = applyClearingPrice(request[o].campaign, request[o].bidders)
      BY <1>1, <1>2, <2>2
    <3>2. HandlingOK(request[o]) /\ request'[o] = request[o]
      BY <1>1, <2>2 DEF RequestInv
    <3>. QED
      BY <3>1, <3>2 DEF HandlingOK
  <2>. QED
    BY <2>1, <2>2
<1>4. \A o \in Requests : (request'[o].campaign = None <=> request'[o].price = 0)
  BY <1>1 DEF RequestInv
<1>. QED
  BY <1>1, <1>3, <1>4 DEF RequestInv

\* A request that goes on with no more than another stage.
LEMMA StageSet ==
  ASSUME RequestInv, terms' = terms, NEW r \in Requests, NEW at \in Stages,
         request[r].at # "idle",
         HandlingOK([request[r] EXCEPT !.at = at]), request' = [request EXCEPT ![r].at = at]
  PROVE  /\ RequestInv' /\ request'[r] = [request[r] EXCEPT !.at = at]
         /\ \A o \in Requests \ {r} : request'[o] = request[o]
<1>. DEFINE q == [request[r] EXCEPT !.at = at]
<1>1. q \in Handling /\ HandlingOK(q) /\ (q.campaign = None <=> q.price = 0)
      /\ request' = [request EXCEPT ![r] = q]
  BY DEF RequestInv, Handling
<1>2. PICK p : p = q
  OBVIOUS
<1>. HIDE DEF q
<1>3. RequestInv' /\ request'[r] = p /\ \A o \in Requests \ {r} : request'[o] = request[o]
  BY <1>1, <1>2, RequestSet
<1>. QED
  BY <1>2, <1>3 DEF q

\* A request that ends.
LEMMA RequestEnds ==
  ASSUME RequestInv, terms' = terms, NEW r \in Requests, End(r)
  PROVE  /\ RequestInv' /\ request'[r] = Idle
         /\ \A o \in Requests \ {r} : request'[o] = request[o]
BY IdleIsTyped, RequestSet DEF End

-----------------------------------------------------------------------------
(* Types: what a decision does.                                            *)

Decided(r) == 
  /\ RequestInv' /\ request'[r].at \in {"idle", "targeting", "rereading"}
  /\ \A o \in Requests \ {r} : request'[o] = request[o]
  /\ charges' \subseteq [of: {"impression", "click"}, campaign: Campaigns, newsletter: BOOLEAN]
  /\ adClicks' \subseteq Campaigns
  /\ passed' \in [Keys -> Nat]

LEMMA DecisionIsTyped ==
  ASSUME TypeInv, terms' = terms, NEW r \in Requests, NEW n \in Nat,
         request[r].at \in {"counting", "expiring"}, Counted(r, n)
  PROVE  Decided(r)
<1>. DEFINE q == request[r]
            k == KeyOf(q)
<1>1. q \in Handling /\ HandlingOK(q) /\ q.at # "idle"
  BY DEF TypeInv, RequestInv
<1>2. k \in Keys /\ (k[1] = "freqcap" <=> q.campaign # None)
      /\ (k[1] = "rate:imp" <=> q.clicked = NoLink /\ q.campaign = None)
      /\ (k[1] = "rate:click" <=> q.clicked # NoLink)
  BY <1>1, KeysDiffer
<1>3. /\ passed' = passed \/ passed' = [passed EXCEPT ![k] = @ + 1]
      /\ passed' \in [Keys -> Nat]
  <2>1. passed' = passed \/ passed' = [passed EXCEPT ![k] = @ + 1]
    BY Zenon DEF Counted
  <2>. QED
    BY <1>2, <2>1 DEF TypeInv, RestTyped
<1>4. /\ charges' \subseteq [of: {"impression", "click"}, campaign: Campaigns,
                            newsletter: BOOLEAN]
      /\ adClicks' \subseteq Campaigns
  <2>1. CASE charges' = {} /\ adClicks' = adClicks
    BY <2>1 DEF TypeInv, RestTyped
  <2>2. CASE k[1] = "rate:click" /\ Clicked(r)
    <3>1. q.clicked \in Links
      BY <1>1, <1>2, <2>2 DEF Handling
    <3>2. q.clicked.campaign \in Campaigns /\ q.clicked.newsletter \in BOOLEAN
      BY <3>1 DEF Links
    <3>. QED
      BY <2>2, <3>2 DEF Clicked, Charges, TypeInv, RestTyped
  <2>. QED
    BY <2>1, <2>2, Zenon DEF Counted
<1>5. \/ k[1] = "freqcap" /\ request' = [request EXCEPT ![r].at = "rereading"]
      \/ k[1] = "rate:imp" /\ request' = [request EXCEPT ![r].at = "targeting"]
      \/ End(r)
  BY Zenon DEF Counted
<1>6. CASE k[1] = "freqcap" /\ request' = [request EXCEPT ![r].at = "rereading"]
  <2>1. HandlingOK([q EXCEPT !.at = "rereading"]) /\ "rereading" \in Stages
    BY <1>1, <1>2, <1>6 DEF HandlingOK, Handling, Stages
  <2>2. RequestInv' /\ request'[r] = [q EXCEPT !.at = "rereading"]
        /\ \A o \in Requests \ {r} : request'[o] = request[o]
    BY <1>1, <1>6, <2>1, StageSet DEF TypeInv
  <2>. QED
    BY <1>1, <1>3, <1>4, <2>2 DEF Decided, Handling
<1>7. CASE k[1] = "rate:imp" /\ request' = [request EXCEPT ![r].at = "targeting"]
  <2>1. HandlingOK([q EXCEPT !.at = "targeting"]) /\ "targeting" \in Stages
    BY <1>1, <1>2, <1>7 DEF HandlingOK, Handling, Stages
  <2>2. RequestInv' /\ request'[r] = [q EXCEPT !.at = "targeting"]
        /\ \A o \in Requests \ {r} : request'[o] = request[o]
    BY <1>1, <1>7, <2>1, StageSet DEF TypeInv
  <2>. QED
    BY <1>1, <1>3, <1>4, <2>2 DEF Decided, Handling
<1>8. CASE End(r)
  BY <1>3, <1>4, <1>8, RequestEnds, IdleIsTyped DEF Decided, TypeInv
<1>. QED
  BY <1>5, <1>6, <1>7, <1>8

-----------------------------------------------------------------------------
(* Types: one lemma for each action.                                       *)

LEMMA ArriveTyped ==
  ASSUME TypeInv, NEW r \in Requests, NEW q \in Handling, HandlingOK(q), q.campaign = None,
         q.price = 0, Arrive(r, q)
  PROVE  TypeInv' /\ (request' = request \/ request' = [request EXCEPT ![r] = q])
<1>1. RequestInv'
  BY RequestsKept, RequestSet DEF Arrive, TypeInv
<1>2. sent' \in 0..MaxRequests
  BY ServingAssumption DEF Arrive, TypeInv, RestTyped
<1>. QED
  BY <1>1, <1>2 DEF Arrive, TypeInv, RestTyped

LEMMA ServeIsArrival ==
  ASSUME TypeInv, NEW v \in Visitors, NEW z \in Zones
  PROVE  LET q == [Idle EXCEPT !.at = "counting", !.visitor = v, !.zone = z] IN
         q \in Handling /\ HandlingOK(q) /\ q.campaign = None /\ q.price = 0
           /\ q.at = "counting"
BY DEF Idle, Handling, HandlingOK, Stages

LEMMA ClickIsArrival ==
  ASSUME TypeInv, NEW v \in Visitors, link # NoLink
  PROVE  LET q == [Idle EXCEPT !.at = "counting", !.visitor = v, !.clicked = link] IN
         q \in Handling /\ HandlingOK(q) /\ q.campaign = None /\ q.price = 0
           /\ q.at = "counting"
BY DEF Idle, Handling, HandlingOK, Stages, TypeInv, RestTyped

LEMMA ServeTyped ==
  ASSUME TypeInv, NEW r \in Requests, NEW v \in Visitors, NEW z \in Zones, Serve(r, v, z)
  PROVE  TypeInv'
BY ServeIsArrival, ArriveTyped DEF Serve

LEMMA ClickTyped ==
  ASSUME TypeInv, NEW r \in Requests, NEW v \in Visitors, Click(r, v)
  PROVE  TypeInv'
BY ClickIsArrival, ArriveTyped DEF Click

LEMMA ChargeTyped ==
  ASSUME NEW of \in {"impression", "click"}, NEW c \in Campaigns, NEW b \in BOOLEAN,
         NEW cost, Charges(of, c, cost, b)
  PROVE  charges' \subseteq [of: {"impression", "click"}, campaign: Campaigns,
                             newsletter: BOOLEAN]
<1>1. [of |-> of, campaign |-> c, newsletter |-> b]
        \in [of: {"impression", "click"}, campaign: Campaigns, newsletter: BOOLEAN]
  OBVIOUS
<1>. QED
  BY <1>1 DEF Charges

LEMMA CountersTyped ==
  ASSUME TypeInv, NEW k \in Keys
  PROVE  /\ counter[k].n + 1 \in Nat
         /\ [counter EXCEPT ![k].n = counter[k].n + 1] \in [Keys -> [n: Nat, ttl: BOOLEAN]]
         /\ [counter EXCEPT ![k].ttl = TRUE] \in [Keys -> [n: Nat, ttl: BOOLEAN]]
         /\ [counter EXCEPT ![k] = [n |-> 0, ttl |-> FALSE]]
              \in [Keys -> [n: Nat, ttl: BOOLEAN]]
<1>. DEFINE Counts == [n: Nat, ttl: BOOLEAN]
<1>1. counter \in [Keys -> Counts] /\ counter[k] \in Counts
  BY DEF TypeInv, RestTyped
<1>2. counter[k].n + 1 \in Nat
  BY <1>1
<1>3. [counter[k] EXCEPT !.n = counter[k].n + 1] \in Counts
  BY <1>1, <1>2
<1>4. [counter[k] EXCEPT !.ttl = TRUE] \in Counts /\ [n |-> 0, ttl |-> FALSE] \in Counts
  BY <1>1
<1>5. ASSUME NEW v \in Counts PROVE [counter EXCEPT ![k] = v] \in [Keys -> Counts]
  <2>. HIDE DEF Counts
  <2>. QED
    BY <1>1
<1>. QED
  BY <1>2, <1>3, <1>4, <1>5

LEMMA FailTyped ==
  ASSUME TypeInv, Fail PROVE failures' \in 0..MaxFailures /\ failures' = failures + 1
BY ServingAssumption DEF Fail, TypeInv, RestTyped

LEMMA IncrTyped ==
  ASSUME TypeInv, NEW r \in Requests, Incr(r) PROVE TypeInv'
<1>. DEFINE k == KeyOf(request[r])
            n == counter[k].n + 1
<1>1. request[r].at = "counting" /\ request[r] \in Handling /\ HandlingOK(request[r])
  BY DEF Incr, TypeInv, RequestInv
<1>2. k \in Keys
  BY <1>1, KeysDiffer
<1>3. n \in Nat /\ counter' \in [Keys -> [n: Nat, ttl: BOOLEAN]]
      /\ failures' \in 0..MaxFailures /\ lost' \subseteq Keys
  <2>1. counter' = counter \/ counter' = [counter EXCEPT ![k].n = n]
    BY DEF Incr
  <2>2. UNCHANGED failures \/ Fail
    BY DEF Incr
  <2>3. lost' = lost \/ lost' = lost \cup {k}
    BY DEF Incr
  <2>4. counter' \in [Keys -> [n: Nat, ttl: BOOLEAN]]
    BY <1>2, <2>1, CountersTyped DEF TypeInv, RestTyped
  <2>5. failures' \in 0..MaxFailures /\ lost' \subseteq Keys
    BY <1>2, <2>2, <2>3, FailTyped DEF TypeInv, RestTyped
  <2>. QED
    BY <1>2, <2>4, <2>5, CountersTyped
<1>4. UNCHANGED <<terms, cached, claimed, link, sent, unique, vanished>>
  BY DEF Incr
<1>5. RequestInv' /\ adClicks' \subseteq Campaigns /\ passed' \in [Keys -> Nat]
      /\ charges' \subseteq [of: {"impression", "click"}, campaign: Campaigns,
                            newsletter: BOOLEAN]
  <2>1. \/ request' = [request EXCEPT ![r].at = "expiring"] /\ charges' = {}
             /\ UNCHANGED <<adClicks, passed>>
        \/ Counted(r, n) \/ Counted(r, 0)
    BY DEF Incr
  <2>2. CASE request' = [request EXCEPT ![r].at = "expiring"] /\ charges' = {}
               /\ UNCHANGED <<adClicks, passed>>
    <3>1. HandlingOK([request[r] EXCEPT !.at = "expiring"]) /\ "expiring" \in Stages
      BY <1>1 DEF HandlingOK, Handling, Stages
    <3>2. RequestInv'
      BY <1>1, <1>4, <2>2, <3>1, StageSet DEF TypeInv
    <3>. QED
      BY <2>2, <3>2 DEF TypeInv, RestTyped
  <2>3. CASE Counted(r, n) \/ Counted(r, 0)
    BY <1>1, <1>3, <1>4, <2>3, DecisionIsTyped DEF Decided
  <2>. QED
    BY <2>1, <2>2, <2>3
<1>. QED
  BY <1>3, <1>4, <1>5 DEF TypeInv, RestTyped

LEMMA ExpireTyped ==
  ASSUME TypeInv, NEW r \in Requests, Expire(r) PROVE TypeInv'
<1>. DEFINE k == KeyOf(request[r])
<1>1. request[r].at = "expiring" /\ request[r] \in Handling /\ HandlingOK(request[r])
  BY DEF Expire, TypeInv, RequestInv
<1>2. k \in Keys
  BY <1>1, KeysDiffer
<1>3. counter' \in [Keys -> [n: Nat, ttl: BOOLEAN]]
      /\ failures' \in 0..MaxFailures /\ lost' \subseteq Keys
  <2>1. counter' = counter \/ counter' = [counter EXCEPT ![k].ttl = TRUE]
    BY DEF Expire
  <2>2. UNCHANGED failures \/ Fail
    BY DEF Expire
  <2>3. lost' = lost \/ lost' = lost \cup {k}
    BY DEF Expire
  <2>4. counter' \in [Keys -> [n: Nat, ttl: BOOLEAN]]
    <3>1. [counter EXCEPT ![k].ttl = TRUE] \in [Keys -> [n: Nat, ttl: BOOLEAN]]
      BY <1>2, CountersTyped
    <3>2. counter \in [Keys -> [n: Nat, ttl: BOOLEAN]]
      BY DEF TypeInv, RestTyped
    <3>. HIDE DEF k
    <3>. QED
      BY <2>1, <3>1, <3>2
  <2>5. failures' \in 0..MaxFailures /\ lost' \subseteq Keys
    BY <1>2, <2>2, <2>3, FailTyped DEF TypeInv, RestTyped
  <2>. QED
    BY <1>2, <2>4, <2>5, CountersTyped
<1>4. UNCHANGED <<terms, cached, claimed, link, sent, unique, vanished>>
  BY DEF Expire
<1>5. Counted(r, 1) \/ Counted(r, 0)
  BY DEF Expire
<1>6. Decided(r)
  BY <1>1, <1>4, <1>5, DecisionIsTyped
<1>. QED
  BY <1>3, <1>4, <1>6 DEF TypeInv, RestTyped, Decided

LEMMA SelectCampaignsTyped ==
  ASSUME TypeInv, NEW r \in Requests, SelectCampaigns(r)
  PROVE  /\ TypeInv' /\ request'[r].at \in {"idle", "capping"}
         /\ \A o \in Requests \ {r} : request'[o] = request[o]
<1>1. /\ request[r].at = "targeting" /\ request[r] \in Handling /\ HandlingOK(request[r])
      /\ (request[r].campaign = None <=> request[r].price = 0)
  BY DEF SelectCampaigns, TypeInv, RequestInv
<1>2. /\ charges' = {}
      /\ UNCHANGED <<terms, cached, counter, claimed, link, adClicks, sent, passed, unique,
                     vanished, lost>>
  BY DEF SelectCampaigns
<1>3. UNCHANGED failures \/ Fail
  BY DEF SelectCampaigns
<1>4. /\ RequestInv' /\ request'[r].at \in {"idle", "capping"}
      /\ \A o \in Requests \ {r} : request'[o] = request[o]
  <2>1. CASE End(r)
    BY <1>2, <2>1, RequestEnds, IdleIsTyped DEF TypeInv
  <2>2. CASE ~End(r)
    <3>1. PICK eligible \in SUBSET Campaigns :
            request' = [request EXCEPT ![r].at = "capping", ![r].bidders = eligible]
      BY <2>2 DEF SelectCampaigns, Eligible
    <3>2. PICK q : q = [request[r] EXCEPT !.at = "capping", !.bidders = eligible]
      OBVIOUS
    <3>3. q \in Handling /\ q.at = "capping" /\ q.campaign = None /\ q.price = 0
          /\ HandlingOK(q) /\ request' = [request EXCEPT ![r] = q]
      BY <1>1, <3>1, <3>2 DEF Handling, HandlingOK, Stages, TypeInv, RequestInv
    <3>. QED
      BY <1>2, <3>3, RequestSet DEF TypeInv
  <2>. QED
    BY <2>1, <2>2
<1>. QED
  BY <1>2, <1>3, <1>4, FailTyped DEF TypeInv, RestTyped

\* The draw: with the price the winner carries come its bidders.
LEMMA RunAuctionTyped ==
  ASSUME TypeInv, NEW r \in Requests, RunAuction(r)
  PROVE  /\ TypeInv'
         /\ \A o \in Requests \ {r} : request'[o] = request[o]
         /\ request[r].at = "capping" /\ request[r].visitor \in Visitors
         /\ \/ request'[r].at = "idle"
            \/ \E w \in Campaigns :
                 /\ request'[r].at = "counting"
                 /\ KeyOf(request'[r]) = CapKey(request[r].visitor, w)
                 /\ IsCapped(request[r].visitor, w) => Fail
<1>. DEFINE q == request[r]
<1>1. /\ q.at = "capping" /\ q \in Handling /\ HandlingOK(q)
      /\ (q.campaign = None <=> q.price = 0)
  BY DEF RunAuction, TypeInv, RequestInv
<1>2. /\ charges' = {}
      /\ UNCHANGED <<terms, cached, counter, claimed, link, adClicks, sent, passed, unique,
                     vanished, lost>>
  BY DEF RunAuction
<1>3. UNCHANGED failures \/ Fail
  BY DEF RunAuction
<1>4. PICK under \in {q.bidders, {c \in q.bidders : ~IsCapped(q.visitor, c)}} :
         /\ IF \E c \in under : IsCapped(q.visitor, c) THEN Fail ELSE UNCHANGED failures
         /\ IF under = {} THEN End(r)
            ELSE \E w \in under :
                   request' = [request EXCEPT ![r] =
                     [q EXCEPT !.at = "counting", !.bidders = under, !.campaign = w,
                               !.price = applyClearingPrice(w, under)]]
  BY DEF RunAuction
<1>5. under \in SUBSET Campaigns
  BY <1>1, <1>4 DEF Handling
<1>6. /\ RequestInv' /\ (\A o \in Requests \ {r} : request'[o] = request[o])
      /\ \/ request'[r].at = "idle"
         \/ \E w \in Campaigns :
              /\ request'[r].at = "counting"
              /\ KeyOf(request'[r]) = CapKey(q.visitor, w)
              /\ IsCapped(q.visitor, w) => Fail
  <2>1. CASE under = {}
    BY <1>2, <1>4, <2>1, RequestEnds, IdleIsTyped DEF TypeInv
  <2>2. CASE under # {}
    <3>1. PICK w \in under :
            request' = [request EXCEPT ![r] =
              [q EXCEPT !.at = "counting", !.bidders = under, !.campaign = w,
                        !.price = applyClearingPrice(w, under)]]
      BY <1>4, <2>2
    <3>2. PICK price : price = applyClearingPrice(w, under)
      OBVIOUS
    <3>3. PICK p : p = [q EXCEPT !.at = "counting", !.bidders = under, !.campaign = w,
                                 !.price = price]
      OBVIOUS
    <3>4. price \in Nat \ {0}
      BY <1>5, <3>2, PriceIsFair DEF TypeInv, RestTyped
    <3>5. w \in Campaigns /\ w # None
      BY <1>5, ServingAssumption
    <3>6. q.clicked = NoLink /\ q.visitor \in Visitors /\ q.zone \in Zones
      BY <1>1 DEF HandlingOK
    <3>7. /\ p \in Handling /\ p.at = "counting" /\ p.campaign = w /\ p.price = price
          /\ p.visitor = q.visitor /\ p.bidders = under /\ p.clicked = NoLink
          /\ p.zone = q.zone
      BY <1>1, <1>5, <3>3, <3>4, <3>5, <3>6 DEF Handling, Stages
    <3>8. HandlingOK(p)
      BY <3>2, <3>5, <3>6, <3>7 DEF HandlingOK
    <3>9. request' = [request EXCEPT ![r] = p]
      BY <3>1, <3>2, <3>3
    <3>10. RequestInv' /\ request'[r] = p /\ \A o \in Requests \ {r} : request'[o] = request[o]
      BY <1>2, <3>4, <3>5, <3>7, <3>8, <3>9, RequestSet DEF TypeInv
    <3>11. KeyOf(p) = CapKey(q.visitor, w)
      BY <3>5, <3>7 DEF KeyOf
    <3>12. IsCapped(q.visitor, w) => Fail
      BY <1>4
    <3>. QED
      BY <3>5, <3>7, <3>10, <3>11, <3>12
  <2>. QED
    BY <2>1, <2>2
<1>7. q.visitor \in Visitors
  BY <1>1 DEF HandlingOK
<1>. QED
  BY <1>1, <1>2, <1>3, <1>6, <1>7, FailTyped DEF TypeInv, RestTyped

\* Typed parts of an impression that is published.
LEMMA PublishedIsTyped ==
  ASSUME TypeInv, terms' = terms, NEW r \in Requests, NEW isUnique \in BOOLEAN,
         request[r].at \in {"rereading", "claiming"}, PublishImpression(r, isUnique)
  PROVE  /\ RequestInv' /\ request'[r] = Idle
         /\ \A o \in Requests \ {r} : request'[o] = request[o]
         /\ Scope(r) \in Scopes
         /\ unique' \in [Scopes -> Nat]
         /\ unique'[Scope(r)] = IF isUnique THEN unique[Scope(r)] + 1 ELSE unique[Scope(r)]
         /\ \A s \in Scopes \ {Scope(r)} : unique'[s] = unique[s]
         /\ link' \in Links \cup {NoLink}
         /\ charges' \subseteq [of: {"impression", "click"}, campaign: Campaigns,
                               newsletter: BOOLEAN]
<1>. DEFINE q == request[r]
<1>1. q \in Handling /\ HandlingOK(q)
  BY DEF TypeInv, RequestInv
<1>2. /\ q.campaign \in Campaigns /\ q.price \in Nat
      /\ q.visitor \in Visitors /\ q.zone \in Zones
  BY <1>1 DEF Handling, HandlingOK
<1>3. RequestInv' /\ request'[r] = Idle /\ \A o \in Requests \ {r} : request'[o] = request[o]
  BY RequestEnds DEF PublishImpression, TypeInv
<1>4. PICK s : s = Scope(r)
  OBVIOUS
<1>5. s \in Scopes
  BY <1>2, <1>4 DEF Scope, Scopes, Sites, Ips
<1>6. unique' = IF isUnique THEN [unique EXCEPT ![s] = @ + 1] ELSE unique
  BY <1>4 DEF PublishImpression
<1>7. /\ unique' \in [Scopes -> Nat]
      /\ unique'[s] = IF isUnique THEN unique[s] + 1 ELSE unique[s]
      /\ \A o \in Scopes \ {s} : unique'[o] = unique[o]
  BY <1>5, <1>6 DEF TypeInv, RestTyped
<1>8. buildClickUrl(r) \in Links
  <2>1. IsCpa(q.campaign) \in BOOLEAN
    BY <1>2, ServingAssumption DEF IsCpa, TypeInv, RestTyped
  <2>. QED
    BY <1>2, <2>1 DEF buildClickUrl, Links
<1>9. link' \in Links \cup {NoLink}
  BY <1>8 DEF PublishImpression, TypeInv, RestTyped
<1>10. charges' \subseteq [of: {"impression", "click"}, campaign: Campaigns, newsletter: BOOLEAN]
  <2>1. Charges("impression", q.campaign, IF IsCpm(q.campaign) THEN q.price ELSE 0, FALSE)
    BY DEF PublishImpression
  <2>. QED
    BY <1>2, <2>1, ChargeTyped
<1>. QED
  BY <1>3, <1>4, <1>5, <1>7, <1>9, <1>10

LEMMA RereadZoneTyped ==
  ASSUME TypeInv, NEW r \in Requests, RereadZone(r)
  PROVE  /\ TypeInv' /\ request'[r].at \in {"idle", "claiming"}
         /\ \A o \in Requests \ {r} : request'[o] = request[o]
<1>1. request[r].at = "rereading" /\ request[r] \in Handling /\ HandlingOK(request[r])
  BY DEF RereadZone, TypeInv, RequestInv
<1>2. UNCHANGED <<terms, cached, counter, claimed, adClicks, sent, passed, lost>>
  BY DEF RereadZone
<1>3. CASE /\ request' = [request EXCEPT ![r].at = "claiming"]
           /\ charges' = {}
           /\ UNCHANGED <<link, unique, vanished, failures>>
  <2>1. HandlingOK([request[r] EXCEPT !.at = "claiming"]) /\ "claiming" \in Stages
    BY <1>1 DEF HandlingOK, Handling, Stages
  <2>2. RequestInv' /\ request'[r] = [request[r] EXCEPT !.at = "claiming"]
        /\ \A o \in Requests \ {r} : request'[o] = request[o]
    BY <1>1, <1>2, <1>3, <2>1, StageSet DEF TypeInv
  <2>. QED
    BY <1>1, <1>2, <1>3, <2>2 DEF TypeInv, RestTyped, Handling
<1>4. CASE /\ IF request[r].zone \in cached THEN Fail /\ UNCHANGED vanished
              ELSE vanished' = [vanished EXCEPT ![Scope(r)] = @ + 1] /\ UNCHANGED failures
           /\ PublishImpression(r, TRUE)
  <2>1. /\ RequestInv' /\ request'[r] = Idle
        /\ \A o \in Requests \ {r} : request'[o] = request[o]
        /\ Scope(r) \in Scopes /\ unique' \in [Scopes -> Nat]
        /\ link' \in Links \cup {NoLink}
        /\ charges' \subseteq [of: {"impression", "click"}, campaign: Campaigns,
                              newsletter: BOOLEAN]
    BY <1>1, <1>2, <1>4, PublishedIsTyped
  <2>2. vanished' \in [Scopes -> Nat]
    BY <1>4, <2>1 DEF TypeInv, RestTyped
  <2>3. failures' \in 0..MaxFailures
    BY <1>4, FailTyped DEF TypeInv, RestTyped
  <2>. QED
    BY <1>2, <2>1, <2>2, <2>3, IdleIsTyped DEF TypeInv, RestTyped
<1>. QED
  BY <1>3, <1>4 DEF RereadZone

LEMMA ClaimOnceTyped ==
  ASSUME TypeInv, NEW r \in Requests, claimOnce(r)
  PROVE  /\ TypeInv' /\ request'[r].at = "idle"
         /\ \A o \in Requests \ {r} : request'[o] = request[o]
<1>1. request[r].at = "claiming"
  BY DEF claimOnce
<1>2. UNCHANGED <<terms, cached, counter, adClicks, sent, passed, vanished, lost>>
  BY DEF claimOnce
<1>3. PICK isUnique \in BOOLEAN : PublishImpression(r, isUnique)
  BY DEF claimOnce, Claims
<1>4. /\ RequestInv' /\ request'[r] = Idle
      /\ \A o \in Requests \ {r} : request'[o] = request[o]
      /\ Scope(r) \in Scopes /\ unique' \in [Scopes -> Nat]
      /\ link' \in Links \cup {NoLink}
      /\ charges' \subseteq [of: {"impression", "click"}, campaign: Campaigns,
                            newsletter: BOOLEAN]
  BY <1>1, <1>2, <1>3, PublishedIsTyped
<1>5. claimed' \subseteq Scopes
  BY <1>4 DEF claimOnce, TypeInv, RestTyped
<1>6. failures' \in 0..MaxFailures
  BY FailTyped DEF claimOnce, TypeInv, RestTyped
<1>. QED
  BY <1>2, <1>4, <1>5, <1>6, IdleIsTyped DEF TypeInv, RestTyped

LEMMA StopTyped ==
  ASSUME TypeInv, NEW r \in Requests, Stop(r)
  PROVE  /\ TypeInv' /\ request'[r].at = "idle"
         /\ \A o \in Requests \ {r} : request'[o] = request[o]
<1>1. /\ request[r] \in Handling /\ HandlingOK(request[r]) /\ request[r].at # "idle"
      /\ terms' = terms /\ End(r) /\ Fail
  BY DEF Stop, TypeInv, RequestInv
<1>2. KeyOf(request[r]) \in Keys
  BY <1>1, KeysDiffer
<1>3. lost' \subseteq Keys
  BY <1>2 DEF Stop, TypeInv, RestTyped
<1>4. RequestInv' /\ request'[r] = Idle /\ \A o \in Requests \ {r} : request'[o] = request[o]
  BY <1>1, RequestEnds DEF TypeInv
<1>. QED
  BY <1>1, <1>3, <1>4, FailTyped, IdleIsTyped DEF Stop, TypeInv, RestTyped

LEMMA SnippetTyped ==
  ASSUME TypeInv, getNewsletterSnippet PROVE TypeInv'
<1>1. RequestInv'
  BY RequestsKept DEF getNewsletterSnippet, quiet, TypeInv
<1>2. link' \in Links
  <2>1. PICK c \in Campaigns :
          link' = [campaign |-> c, cost |-> IF IsCpm(c) THEN 0 ELSE terms[c].cpc,
                   clickId |-> FALSE, pixel |-> terms[c].cpm, newsletter |-> TRUE]
    BY DEF getNewsletterSnippet
  <2>2. terms[c].cpc \in Nat /\ terms[c].cpm \in Nat
    BY ServingAssumption DEF TypeInv, RestTyped
  <2>. QED
    BY <2>1, <2>2 DEF Links
<1>. QED
  BY <1>1, <1>2 DEF getNewsletterSnippet, quiet, TypeInv, RestTyped

LEMMA PixelTyped ==
  ASSUME TypeInv, pixel PROVE TypeInv'
<1>1. RequestInv'
  BY RequestsKept DEF pixel, quiet, TypeInv
<1>2. link.campaign \in Campaigns
  BY DEF pixel, TypeInv, RestTyped, Links
<1>3. Charges("impression", link.campaign, link.pixel, TRUE)
  BY DEF pixel
<1>4. charges' \subseteq [of: {"impression", "click"}, campaign: Campaigns, newsletter: BOOLEAN]
  BY <1>2, <1>3, ChargeTyped
<1>. QED
  BY <1>1, <1>4 DEF pixel, quiet, TypeInv, RestTyped

LEMMA ZoneCacheTyped ==
  ASSUME TypeInv, NEW z \in Zones, ZoneCacheChanges(z) PROVE TypeInv'
<1>1. RequestInv'
  BY RequestsKept DEF ZoneCacheChanges, quiet, TypeInv
<1>. QED
  BY <1>1 DEF ZoneCacheChanges, quiet, TypeInv, RestTyped

LEMMA WindowEndsTyped ==
  ASSUME TypeInv, NEW k \in Keys, WindowEnds(k) PROVE TypeInv'
<1>1. RequestInv'
  BY RequestsKept DEF WindowEnds, quiet, TypeInv
<1>2. counter' \in [Keys -> [n: Nat, ttl: BOOLEAN]] /\ passed' \in [Keys -> Nat]
  BY CountersTyped DEF WindowEnds, TypeInv, RestTyped
<1>. QED
  BY <1>1, <1>2 DEF WindowEnds, quiet, TypeInv, RestTyped

LEMMA ClaimEndsTyped ==
  ASSUME TypeInv, NEW s \in Scopes, ClaimEnds(s) PROVE TypeInv'
<1>1. RequestInv'
  BY RequestsKept DEF ClaimEnds, quiet, TypeInv
<1>. QED
  BY <1>1 DEF ClaimEnds, quiet, TypeInv, RestTyped

LEMMA InitTyped ==
  ServingInit => TypeInv
<1>. SUFFICES ASSUME ServingInit PROVE TypeInv
  OBVIOUS
<1>1. RequestInv
  BY IdleIsTyped DEF ServingInit, RequestInv
<1>. QED
  BY <1>1, ServingAssumption DEF ServingInit, TypeInv, RestTyped

LEMMA StepTyped ==
  TypeInv /\ [ServingNext]_servingVars => TypeInv'
<1>. SUFFICES ASSUME TypeInv, [ServingNext]_servingVars PROVE TypeInv'
  OBVIOUS
<1>1. ASSUME NEW r \in Requests,
             \/ \E v \in Visitors : Click(r, v) \/ \E z \in Zones : Serve(r, v, z)
             \/ Incr(r) \/ Expire(r) \/ SelectCampaigns(r) \/ RunAuction(r)
             \/ RereadZone(r) \/ claimOnce(r) \/ Stop(r)
      PROVE  TypeInv'
  BY <1>1, ClickTyped, ServeTyped, IncrTyped, ExpireTyped, SelectCampaignsTyped,
     RunAuctionTyped, RereadZoneTyped, ClaimOnceTyped, StopTyped
<1>2. ASSUME UNCHANGED servingVars PROVE TypeInv'
  <2>1. RequestInv'
    BY <1>2, RequestsKept DEF servingVars, TypeInv
  <2>. QED
    BY <1>2, <2>1 DEF servingVars, TypeInv, RestTyped
<1>. QED
  BY <1>1, <1>2, ZoneCacheTyped, SnippetTyped, PixelTyped, WindowEndsTyped, ClaimEndsTyped
  DEF ServingNext

\* Every state is typed, and every request knows what its stage needs.
LEMMA AlwaysTyped ==
  ServingSpec => []TypeInv
BY InitTyped, StepTyped, PTL DEF ServingSpec

\* The winner pays the second price, to the nearest cent and a cent at least,
\* and never more than its bid, whatever the campaigns bid and in whatever order
\* the requests interleave (ad-targeting.service.ts).
THEOREM WinnersPaySecondPrice ==
  ServingSpec => []PaysSecondPrice
BY AlwaysTyped, TypeInvPays, PTL

-----------------------------------------------------------------------------
(* Unique impressions.                                                     *)

LEMMA UniqueKept ==
  ASSUME TypeInv, UniqueInv, UNCHANGED <<unique, claimed, vanished>>, UNCHANGED failures \/ Fail
  PROVE  UniqueInv'
<1>1. failures \in Nat /\ failures' \in Nat /\ failures' >= failures
  BY FailTyped, ServingAssumption DEF TypeInv, RestTyped
<1>. SUFFICES ASSUME NEW s \in Scopes
              PROVE  unique[s] <= (IF s \in claimed THEN 1 ELSE 0) + failures' + vanished[s]
  BY DEF UniqueInv
<1>2. unique[s] <= (IF s \in claimed THEN 1 ELSE 0) + failures + vanished[s]
  BY DEF UniqueInv
<1>3. unique[s] \in Nat /\ vanished[s] \in Nat
  BY DEF TypeInv, RestTyped
<1>. QED
  BY <1>1, <1>2, <1>3

\* An impression counted as unique was claimed, or a command failed, or its
\* zone had gone.
LEMMA RereadIsUnique ==
  ASSUME TypeInv, UniqueInv, NEW r \in Requests, RereadZone(r) PROVE UniqueInv'
<1>1. UNCHANGED claimed /\ terms' = terms /\ request[r].at = "rereading"
  BY DEF RereadZone
<1>2. CASE UNCHANGED <<unique, vanished, failures>>
  BY <1>1, <1>2 DEF UniqueInv
<1>3. CASE /\ IF request[r].zone \in cached THEN Fail /\ UNCHANGED vanished
              ELSE vanished' = [vanished EXCEPT ![Scope(r)] = @ + 1] /\ UNCHANGED failures
           /\ PublishImpression(r, TRUE)
  <2>1. PICK p : p = Scope(r)
    OBVIOUS
  <2>2. /\ p \in Scopes /\ unique'[p] = unique[p] + 1
        /\ \A s \in Scopes \ {p} : unique'[s] = unique[s]
    BY <1>1, <1>3, <2>1, PublishedIsTyped
  <2>3. \/ failures' = failures + 1 /\ vanished' = vanished
        \/ failures' = failures /\ vanished' = [vanished EXCEPT ![p] = @ + 1]
    BY <1>3, <2>1 DEF Fail
  <2>4. failures \in Nat /\ \A s \in Scopes : unique[s] \in Nat /\ vanished[s] \in Nat
    BY ServingAssumption DEF TypeInv, RestTyped
  <2>5. vanished \in [Scopes -> Nat]
    BY DEF TypeInv, RestTyped
  <2>6. ASSUME NEW s \in Scopes
        PROVE  unique'[s] <= (IF s \in claimed THEN 1 ELSE 0) + failures' + vanished'[s]
    <3>1. unique[s] <= (IF s \in claimed THEN 1 ELSE 0) + failures + vanished[s]
      BY DEF UniqueInv
    <3>2. CASE s = p
      BY <2>2, <2>3, <2>4, <2>5, <3>1, <3>2
    <3>3. CASE s # p
      BY <2>2, <2>3, <2>4, <2>5, <3>1, <3>3
    <3>. QED
      BY <3>2, <3>3
  <2>. QED
    BY <1>1, <2>6 DEF UniqueInv
<1>. QED
  BY <1>2, <1>3 DEF RereadZone

LEMMA ClaimIsUnique ==
  ASSUME TypeInv, UniqueInv, NEW r \in Requests, claimOnce(r) PROVE UniqueInv'
<1>1. UNCHANGED vanished /\ terms' = terms /\ request[r].at = "claiming"
  BY DEF claimOnce
<1>2. PICK p : p = Scope(r)
  OBVIOUS
<1>3. \/ /\ claimed' = claimed \cup {p} /\ UNCHANGED failures
         /\ PublishImpression(r, p \notin claimed)
      \/ /\ claimed' \in {claimed, claimed \cup {p}} /\ failures' = failures + 1
         /\ PublishImpression(r, TRUE)
  BY <1>2 DEF claimOnce, Claims, Fail
<1>4. \A b \in BOOLEAN : PublishImpression(r, b) =>
        /\ p \in Scopes /\ unique'[p] = IF b THEN unique[p] + 1 ELSE unique[p]
        /\ \A s \in Scopes \ {p} : unique'[s] = unique[s]
  BY <1>1, <1>2, PublishedIsTyped
<1>5. failures \in Nat /\ \A s \in Scopes : unique[s] \in Nat /\ vanished[s] \in Nat
  BY ServingAssumption DEF TypeInv, RestTyped
<1>6. ASSUME NEW s \in Scopes
      PROVE  unique'[s] <= (IF s \in claimed' THEN 1 ELSE 0) + failures' + vanished[s]
  <2>1. unique[s] <= (IF s \in claimed THEN 1 ELSE 0) + failures + vanished[s]
    BY DEF UniqueInv
  <2>2. CASE claimed' = claimed \cup {p} /\ UNCHANGED failures
               /\ PublishImpression(r, p \notin claimed)
    <3>1. PICK b \in BOOLEAN : b <=> p \notin claimed
      OBVIOUS
    <3>2. PublishImpression(r, b)
      BY <2>2, <3>1
    <3>. QED
      BY <1>4, <1>5, <2>1, <2>2, <3>1, <3>2
  <2>3. CASE claimed' \in {claimed, claimed \cup {p}} /\ failures' = failures + 1
               /\ PublishImpression(r, TRUE)
    <3>1. /\ p \in Scopes /\ unique'[p] = unique[p] + 1
          /\ \A o \in Scopes \ {p} : unique'[o] = unique[o]
      BY <1>4, <2>3
    <3>. QED
      BY <1>5, <2>1, <2>3, <3>1
  <2>. QED
    BY <1>3, <2>2, <2>3
<1>. QED
  BY <1>1, <1>6 DEF UniqueInv

LEMMA ClaimEndsUnique ==
  ASSUME TypeInv, UniqueInv, NEW p \in Scopes, ClaimEnds(p) PROVE UniqueInv'
<1>1. /\ claimed' = claimed \ {p} /\ unique' = [unique EXCEPT ![p] = 0]
      /\ vanished' = [vanished EXCEPT ![p] = 0] /\ failures' = failures
  BY DEF ClaimEnds
<1>2. failures \in Nat /\ unique \in [Scopes -> Nat] /\ vanished \in [Scopes -> Nat]
  BY ServingAssumption DEF TypeInv, RestTyped
<1>3. ASSUME NEW s \in Scopes
      PROVE  unique'[s] <= (IF s \in claimed' THEN 1 ELSE 0) + failures' + vanished'[s]
  <2>1. CASE s = p
    BY <1>1, <1>2, <2>1
  <2>2. CASE s # p
    BY <1>1, <1>2, <2>2 DEF UniqueInv
  <2>. QED
    BY <2>1, <2>2
<1>. QED
  BY <1>3 DEF UniqueInv

LEMMA StepUnique ==
  TypeInv /\ UniqueInv /\ [ServingNext]_servingVars => UniqueInv'
<1>. SUFFICES ASSUME TypeInv, UniqueInv, [ServingNext]_servingVars PROVE UniqueInv'
  OBVIOUS
<1>1. ASSUME NEW r \in Requests,
             \/ \E v \in Visitors : Click(r, v) \/ \E z \in Zones : Serve(r, v, z)
             \/ Incr(r) \/ Expire(r) \/ SelectCampaigns(r) \/ RunAuction(r)
             \/ Stop(r)
      PROVE  UniqueInv'
  <2>1. UNCHANGED <<unique, claimed, vanished>> /\ (UNCHANGED failures \/ Fail)
    <3>1. ASSUME NEW v \in Visitors, Click(r, v) \/ \E z \in Zones : Serve(r, v, z)
          PROVE  UNCHANGED <<unique, claimed, vanished, failures>>
      BY <3>1 DEF Click, Serve, Arrive
    <3>2. CASE Incr(r)
      BY <3>2 DEF Incr
    <3>3. CASE Expire(r)
      BY <3>3 DEF Expire
    <3>4. CASE SelectCampaigns(r)
      BY <3>4 DEF SelectCampaigns
    <3>5. CASE RunAuction(r)
      BY <3>5 DEF RunAuction
    <3>6. CASE Stop(r)
      BY <3>6 DEF Stop
    <3>. QED
      BY <1>1, <3>1, <3>2, <3>3, <3>4, <3>5, <3>6
  <2>. QED
    BY <2>1, UniqueKept
<1>2. ASSUME \/ getNewsletterSnippet \/ pixel \/ (\E z \in Zones : ZoneCacheChanges(z))
             \/ (\E k \in Keys : WindowEnds(k)) \/ UNCHANGED servingVars
      PROVE  UniqueInv'
  <2>1. UNCHANGED <<unique, claimed, vanished, failures>>
    BY <1>2 DEF getNewsletterSnippet, pixel, ZoneCacheChanges, WindowEnds, servingVars
  <2>. QED
    BY <2>1, UniqueKept
<1>. QED
  BY <1>1, <1>2, RereadIsUnique, ClaimIsUnique, ClaimEndsUnique DEF ServingNext

\* A site counts an address once per window, but for failed commands and zones
\* that left the cache, however many of its requests interleave
\* (publisher-impression-dedup.service.ts).
THEOREM AddressesCountOnce ==
  ServingSpec => []UniqueOncePerWindow
<1>1. ServingInit => UniqueInv
  BY DEF ServingInit, UniqueInv
<1>2. TypeInv /\ UniqueInv => UniqueOncePerWindow
  <2>. SUFFICES ASSUME TypeInv, UniqueInv, NEW s \in Scopes
                PROVE  unique[s] <= 1 + failures + vanished[s]
    BY DEF UniqueOncePerWindow
  <2>1. unique[s] \in Nat /\ vanished[s] \in Nat /\ failures \in Nat
    BY ServingAssumption DEF TypeInv, RestTyped
  <2>2. unique[s] <= (IF s \in claimed THEN 1 ELSE 0) + failures + vanished[s]
    BY DEF UniqueInv
  <2>. QED
    BY <2>1, <2>2
<1>. QED
  BY AlwaysTyped, <1>1, <1>2, StepUnique, PTL DEF ServingSpec

-----------------------------------------------------------------------------
(* What a key lets through: a step that leaves the key alone.              *)

LEMMA Numbers ==
  ASSUME TypeInv, NEW k \in Keys
  PROVE  /\ passed[k] \in Nat /\ counter[k].n \in Nat /\ counter[k].ttl \in BOOLEAN
         /\ failures \in Nat /\ Owed(k) \in {0, 1} /\ LimitOf(k) \in Nat
         /\ Cardinality(Requests) \in Nat /\ CapLimit \in Nat \ {0}
BY ServingAssumption, FS_CardinalityType DEF TypeInv, RestTyped, Owed, LimitOf

LEMMA SomeRequests ==
  ASSUME NEW S \in SUBSET Requests
  PROVE  IsFiniteSet(S) /\ Cardinality(S) \in Nat /\ Cardinality(S) <= Cardinality(Requests)
BY ServingAssumption, FS_Subset, FS_CardinalityType

LEMMA KeyKept ==
  ASSUME TypeInv, NEW k \in Keys, KeyInv(k), counter'[k] = counter[k], passed'[k] = passed[k],
         k \in lost => k \in lost', UNCHANGED failures \/ Fail,
         \A o \in Requests : Expiring(o, k)' => Expiring(o, k),
         \A o \in Requests : Expiring(o, k) => (Expiring(o, k)' \/ k \in lost'),
         k[1] = "freqcap" => Capping(k)' \subseteq Capping(k)
  PROVE  KeyInv(k)'
<1>. USE Numbers
<1>1. failures \in Nat /\ failures' \in Nat /\ failures' >= failures
  BY FailTyped, ServingAssumption DEF TypeInv, RestTyped
<1>2. Owed(k)' \in {0, 1} /\ Owed(k)' <= Owed(k)
  BY DEF Owed
<1>3. OneExpires(k)' /\ TtlOfACount(k)'
  BY DEF KeyInv, OneExpires, TtlOfACount
<1>4. HasAnEnd(k)'
  BY DEF KeyInv, HasAnEnd
<1>5. PassedCounted(k)'
  <2>1. passed[k] + Owed(k) <= counter[k].n + failures
    BY DEF KeyInv, PassedCounted
  <2>2. passed[k] + Owed(k)' <= counter[k].n + failures'
    BY <1>1, <1>2, <2>1
  <2>. QED
    BY <2>2 DEF PassedCounted
<1>6. ASSUME k[1] # "freqcap" PROVE RateKept(k)' /\ RateOff(k)'
  <2>1. /\ LimitOf(k) > 0 => passed[k] + Owed(k) <= LimitOf(k) + failures
        /\ LimitOf(k) = 0 => passed[k] <= failures
    BY <1>6 DEF KeyInv, RateKept, RateOff
  <2>2. /\ LimitOf(k) > 0 => passed[k] + Owed(k)' <= LimitOf(k) + failures'
        /\ LimitOf(k) = 0 => passed[k] <= failures'
    BY <1>1, <1>2, <2>1
  <2>. QED
    BY <2>2 DEF RateKept, RateOff, LimitOf
<1>7. ASSUME k[1] = "freqcap" PROVE CapKept(k)'
  <2>1. Capping(k) \in SUBSET Requests
    BY DEF Capping
  <2>2. IsFiniteSet(Capping(k)) /\ Cardinality(Capping(k)) \in Nat
    BY <2>1, SomeRequests
  <2>3. Cardinality(Capping(k)') \in Nat /\ Cardinality(Capping(k)') <= Cardinality(Capping(k))
    BY <1>7, <2>2, FS_Subset, FS_CardinalityType
  <2>4. passed[k] + Cardinality(Capping(k)) <= CapLimit + Cardinality(Requests) - 1 + failures
    BY <1>7 DEF KeyInv, CapKept
  <2>5. passed[k] + Cardinality(Capping(k)') <= CapLimit + Cardinality(Requests) - 1 + failures'
    BY <1>1, <2>2, <2>3, <2>4
  <2>. QED
    BY <2>5 DEF CapKept
<1>. QED
  BY <1>3, <1>4, <1>5, <1>6, <1>7 DEF KeyInv

\* A step of a request that neither counts nor is about to count for a cap.
LEMMA WindowsKept ==
  ASSUME TypeInv, WindowInv, UNCHANGED <<counter, passed, lost>>, UNCHANGED failures \/ Fail,
         \A o \in Requests :
           \/ request'[o] = request[o]
           \/ /\ request[o].at # "expiring" /\ request'[o].at # "expiring"
              /\ request'[o].at = "counting" => KeyOf(request'[o])[1] # "freqcap"
  PROVE  WindowInv'
<1>. SUFFICES ASSUME NEW k \in Keys PROVE KeyInv(k)'
  BY DEF WindowInv
<1>1. \A o \in Requests : Expiring(o, k)' <=> Expiring(o, k)
  BY DEF Expiring
<1>2. k[1] = "freqcap" => Capping(k)' \subseteq Capping(k)
  BY DEF Capping
<1>. QED
  BY <1>1, <1>2, KeyKept DEF WindowInv

LEMMA ArriveWindows ==
  ASSUME TypeInv, WindowInv, NEW r \in Requests, NEW q \in Handling, HandlingOK(q),
         q.campaign = None, q.price = 0, q.at = "counting", Arrive(r, q)
  PROVE  WindowInv'
<1>1. UNCHANGED <<counter, passed, lost, failures>> /\ request[r].at = "idle"
  BY DEF Arrive
<1>2. KeyOf(q)[1] # "freqcap"
  BY KeysDiffer
<1>3. request' = request \/ request' = [request EXCEPT ![r] = q]
  BY DEF Arrive
<1>4. request \in [Requests -> Handling]
  BY DEF TypeInv, RequestInv
<1>5. \A o \in Requests : request'[o] = request[o] \/ (o = r /\ request'[o] = q)
  BY <1>3, <1>4
<1>. QED
  BY <1>1, <1>2, <1>5, WindowsKept

LEMMA SelectWindows ==
  ASSUME TypeInv, WindowInv, NEW r \in Requests, SelectCampaigns(r) PROVE WindowInv'
<1>1. /\ UNCHANGED <<counter, passed, lost>> /\ request[r].at = "targeting"
      /\ UNCHANGED failures \/ Fail
  BY DEF SelectCampaigns
<1>. QED
  BY <1>1, SelectCampaignsTyped, WindowsKept

LEMMA RereadWindows ==
  ASSUME TypeInv, WindowInv, NEW r \in Requests, RereadZone(r) PROVE WindowInv'
<1>1. /\ UNCHANGED <<counter, passed, lost>> /\ request[r].at = "rereading"
      /\ UNCHANGED failures \/ Fail
  BY DEF RereadZone
<1>. QED
  BY <1>1, RereadZoneTyped, WindowsKept

LEMMA ClaimWindows ==
  ASSUME TypeInv, WindowInv, NEW r \in Requests, claimOnce(r) PROVE WindowInv'
<1>1. /\ UNCHANGED <<counter, passed, lost>> /\ request[r].at = "claiming"
      /\ UNCHANGED failures \/ Fail
  BY DEF claimOnce
<1>. QED
  BY <1>1, ClaimOnceTyped, WindowsKept

LEMMA StopWindows ==
  ASSUME TypeInv, WindowInv, NEW r \in Requests, Stop(r) PROVE WindowInv'
<1>. SUFFICES ASSUME NEW k \in Keys PROVE KeyInv(k)'
  BY DEF WindowInv
<1>1. /\ request'[r].at = "idle" /\ \A o \in Requests \ {r} : request'[o] = request[o]
  BY StopTyped
<1>2. /\ UNCHANGED <<counter, passed>> /\ Fail
      /\ lost' = IF request[r].at = "expiring" THEN lost \cup {KeyOf(request[r])} ELSE lost
  BY DEF Stop
<1>3. \A o \in Requests : Expiring(o, k)' => Expiring(o, k)
  BY <1>1 DEF Expiring
<1>4. \A o \in Requests : Expiring(o, k) => (Expiring(o, k)' \/ k \in lost')
  BY <1>1, <1>2 DEF Expiring
<1>5. Capping(k)' \subseteq Capping(k)
  BY <1>1 DEF Capping
<1>. QED
  BY <1>2, <1>3, <1>4, <1>5, KeyKept DEF WindowInv

\* The read of the cap: it let the request through below the limit, or failed.
LEMMA AuctionWindows ==
  ASSUME TypeInv, WindowInv, NEW r \in Requests, RunAuction(r) PROVE WindowInv'
<1>. SUFFICES ASSUME NEW k \in Keys PROVE KeyInv(k)'
  BY DEF WindowInv
<1>1. /\ UNCHANGED <<counter, passed, lost>> /\ (UNCHANGED failures \/ Fail)
  BY DEF RunAuction
<1>2. /\ \A o \in Requests \ {r} : request'[o] = request[o]
      /\ request[r].at = "capping" /\ request[r].visitor \in Visitors
      /\ \/ request'[r].at = "idle"
         \/ \E w \in Campaigns :
              /\ request'[r].at = "counting"
              /\ KeyOf(request'[r]) = CapKey(request[r].visitor, w)
              /\ IsCapped(request[r].visitor, w) => Fail
  BY RunAuctionTyped
<1>3. request'[r].at \in {"idle", "counting"}
  BY <1>2
<1>4. \A o \in Requests : Expiring(o, k)' <=> Expiring(o, k)
  BY <1>2, <1>3 DEF Expiring
<1>5. KeyInv(k)
  BY DEF WindowInv
<1>6. CASE Capping(k)' \subseteq Capping(k)
  BY <1>1, <1>4, <1>5, <1>6, KeyKept
<1>7. CASE ~(Capping(k)' \subseteq Capping(k))
  <2>1. r \in Capping(k)' /\ r \notin Capping(k) /\ Capping(k)' \subseteq Capping(k) \cup {r}
    BY <1>2, <1>7 DEF Capping
  <2>2. PICK w \in Campaigns :
          k = CapKey(request[r].visitor, w) /\ (IsCapped(request[r].visitor, w) => Fail)
    BY <1>2, <2>1 DEF Capping
  <2>3. k[1] = "freqcap"
    BY <2>2 DEF CapKey
  <2>4. counter[k].n < CapLimit \/ Fail
    BY <2>2, Numbers DEF IsCapped
  <2>5. /\ Capping(k) \in SUBSET Requests /\ Capping(k)' \in SUBSET Requests
        /\ Capping(k)' \subseteq Capping(k) \cup {r}
    BY <2>1 DEF Capping
  <2>6. PICK C \in SUBSET Requests : C = Capping(k)
    BY <2>5
  <2>7. PICK D \in SUBSET Requests : D = Capping(k)'
    BY <2>5
  <2>8. /\ Cardinality(C) \in Nat /\ Cardinality(D) \in Nat
        /\ Cardinality(D) <= Cardinality(Requests) /\ Cardinality(D) <= Cardinality(C) + 1
    <3>1. IsFiniteSet(C) /\ Cardinality(C) \in Nat /\ Cardinality(D) \in Nat
          /\ Cardinality(D) <= Cardinality(Requests)
      BY SomeRequests
    <3>2. IsFiniteSet(C \cup {r}) /\ Cardinality(C \cup {r}) <= Cardinality(C) + 1
      <4>1. /\ IsFiniteSet(C \cup {r})
            /\ Cardinality(C \cup {r}) = IF r \in C THEN Cardinality(C) ELSE Cardinality(C) + 1
        BY <3>1, FS_AddElement
      <4>. QED
        BY <3>1, <4>1
    <3>3. D \in SUBSET (C \cup {r})
      BY <2>5, <2>6, <2>7
    <3>4. Cardinality(D) <= Cardinality(C \cup {r}) /\ Cardinality(C \cup {r}) \in Nat
      BY <3>2, <3>3, FS_Subset, FS_CardinalityType
    <3>. QED
      BY <3>1, <3>2, <3>4
  <2>9. CapKept(k)'
    <3>1. passed[k] + Owed(k) <= counter[k].n + failures
      BY <1>5 DEF KeyInv, PassedCounted
    <3>2. passed[k] + Cardinality(C) <= CapLimit + Cardinality(Requests) - 1 + failures
      BY <1>5, <2>3, <2>6 DEF KeyInv, CapKept
    <3>3. failures' \in Nat /\ failures' >= failures /\ (Fail => failures' = failures + 1)
      BY <1>1, FailTyped, Numbers
    <3>4. passed[k] + Cardinality(D) <= CapLimit + Cardinality(Requests) - 1 + failures'
      <4>1. CASE counter[k].n < CapLimit
        BY <2>8, <3>1, <3>3, <4>1, Numbers
      <4>2. CASE Fail
        BY <2>8, <3>2, <3>3, <4>2, Numbers
      <4>. QED
        BY <2>4, <4>1, <4>2
    <3>. QED
      BY <1>1, <2>7, <3>4 DEF CapKept
  <2>10. OneExpires(k)' /\ TtlOfACount(k)' /\ HasAnEnd(k)'
    BY <1>1, <1>4, <1>5 DEF KeyInv, OneExpires, TtlOfACount, HasAnEnd
  <2>11. PassedCounted(k)'
    <3>1. passed[k] + Owed(k) <= counter[k].n + failures
      BY <1>5 DEF KeyInv, PassedCounted
    <3>2. Owed(k)' = Owed(k)
      BY <1>4 DEF Owed
    <3>3. failures' \in Nat /\ failures' >= failures
      BY <1>1, FailTyped, Numbers
    <3>4. passed[k] + Owed(k) <= counter[k].n + failures'
      BY <3>1, <3>3, Numbers
    <3>. QED
      BY <1>1, <3>2, <3>4 DEF PassedCounted
  <2>. QED
    BY <2>3, <2>9, <2>10, <2>11 DEF KeyInv
<1>. QED
  BY <1>6, <1>7

LEMMA WindowEndsWindows ==
  ASSUME TypeInv, WindowInv, NEW e \in Keys, WindowEnds(e) PROVE WindowInv'
<1>. SUFFICES ASSUME NEW k \in Keys PROVE KeyInv(k)'
  BY DEF WindowInv
<1>1. /\ counter[e].ttl /\ request' = request /\ failures' = failures
      /\ counter' = [counter EXCEPT ![e] = [n |-> 0, ttl |-> FALSE]]
      /\ passed' = [passed EXCEPT ![e] = 0] /\ lost' = lost \ {e}
  BY DEF WindowEnds, quiet
<1>2. counter \in [Keys -> [n: Nat, ttl: BOOLEAN]] /\ passed \in [Keys -> Nat]
  BY DEF TypeInv, RestTyped
<1>3. \A o \in Requests : Expiring(o, k)' <=> Expiring(o, k)
  BY <1>1 DEF Expiring
<1>4. Capping(k)' = Capping(k)
  BY <1>1 DEF Capping
<1>5. KeyInv(k)
  BY DEF WindowInv
<1>6. CASE k # e
  <2>1. counter'[k] = counter[k] /\ passed'[k] = passed[k] /\ (k \in lost => k \in lost')
    BY <1>1, <1>2, <1>6
  <2>. QED
    BY <1>1, <1>3, <1>4, <1>5, <2>1, KeyKept
<1>7. CASE k = e
  <2>1. counter'[k].n = 0 /\ ~counter'[k].ttl /\ passed'[k] = 0
    BY <1>1, <1>2, <1>7
  <2>2. \A o \in Requests : ~Expiring(o, k)
    BY <1>1, <1>5, <1>7 DEF KeyInv, OneExpires
  <2>3. Owed(k)' = 0
    BY <1>3, <2>2 DEF Owed
  <2>4. OneExpires(k)' /\ TtlOfACount(k)' /\ HasAnEnd(k)'
    BY <1>3, <2>1, <2>2 DEF OneExpires, TtlOfACount, HasAnEnd
  <2>5. PassedCounted(k)' /\ RateKept(k)' /\ RateOff(k)'
    <3>1. failures \in Nat /\ LimitOf(k) \in Nat
      BY Numbers
    <3>2. 0 + 0 <= 0 + failures /\ 0 <= LimitOf(k) + failures /\ 0 <= failures
      BY <3>1
    <3>. QED
      BY <1>1, <2>1, <2>3, <3>1, <3>2 DEF PassedCounted, RateKept, RateOff, LimitOf
  <2>6. CapKept(k)'
    <3>1. Capping(k) \in SUBSET Requests
      BY DEF Capping
    <3>2. Cardinality(Capping(k)) \in Nat /\ Cardinality(Capping(k)) <= Cardinality(Requests)
      BY <3>1, SomeRequests
    <3>3. 0 + Cardinality(Capping(k)) <= CapLimit + Cardinality(Requests) - 1 + failures
      BY <3>2, Numbers
    <3>. QED
      BY <1>1, <1>4, <2>1, <3>3 DEF CapKept
  <2>. QED
    BY <2>4, <2>5, <2>6 DEF KeyInv
<1>. QED
  BY <1>6, <1>7

-----------------------------------------------------------------------------
(* What a key lets through: counting and deciding.                         *)

LEMMA DecisionLets ==
  ASSUME TypeInv, terms' = terms, NEW r \in Requests, NEW n \in Nat,
         request[r].at \in {"counting", "expiring"}, Counted(r, n),
         NEW k \in Keys, k = KeyOf(request[r])
  PROVE  /\ ~Expiring(r, k)' /\ \A o \in Requests \ {r} : Expiring(o, k)' <=> Expiring(o, k)
         /\ r \in Capping(k) /\ Capping(k)' = Capping(k) \ {r}
         /\ \/ passed'[k] = passed[k] + 1 /\ (k[1] # "freqcap" => n <= LimitOf(k))
            \/ passed'[k] = passed[k] /\ k[1] # "freqcap" /\ n > LimitOf(k)
         /\ \A o \in Keys \ {k} : passed'[o] = passed[o]
         /\ \A o \in Keys \ {k}, p \in Requests : Expiring(p, o)' <=> Expiring(p, o)
         /\ \A o \in Keys \ {k} : Capping(o)' = Capping(o)
<1>1. /\ request'[r].at \in {"idle", "targeting", "rereading"}
      /\ \A o \in Requests \ {r} : request'[o] = request[o]
  BY DecisionIsTyped DEF Decided
<1>2. ~Expiring(r, k)' /\ \A o \in Requests \ {r} : Expiring(o, k)' <=> Expiring(o, k)
  BY <1>1 DEF Expiring
<1>3. r \in Capping(k) /\ Capping(k)' = Capping(k) \ {r}
  BY <1>1 DEF Capping
<1>4. \/ passed' = [passed EXCEPT ![k] = @ + 1] /\ (k[1] # "freqcap" => n <= LimitOf(k))
      \/ passed' = passed /\ k[1] # "freqcap" /\ n > LimitOf(k)
  <2>1. CASE k[1] = "freqcap"
    BY <2>1, Zenon DEF Counted
  <2>2. CASE k[1] = "rate:imp"
    BY <2>2 DEF Counted, LimitOf
  <2>3. CASE k[1] = "rate:click"
    BY <2>3 DEF Counted, LimitOf
  <2>4. k[1] \in {"freqcap", "rate:imp", "rate:click"}
    BY DEF Keys, ImpressionKey, ClickKey, CapKey
  <2>. QED
    BY <2>1, <2>2, <2>3, <2>4
<1>5. passed \in [Keys -> Nat]
  BY DEF TypeInv, RestTyped
<1>6. /\ \/ passed'[k] = passed[k] + 1 /\ (k[1] # "freqcap" => n <= LimitOf(k))
         \/ passed'[k] = passed[k] /\ k[1] # "freqcap" /\ n > LimitOf(k)
      /\ \A o \in Keys \ {k} : passed'[o] = passed[o]
  BY <1>4, <1>5
<1>7. \A o \in Keys \ {k}, p \in Requests : Expiring(p, o)' <=> Expiring(p, o)
  BY <1>1 DEF Expiring
<1>8. \A o \in Keys \ {k} : Capping(o)' = Capping(o)
  BY <1>1 DEF Capping
<1>. QED
  BY <1>2, <1>3, <1>6, <1>7, <1>8

\* The numbers of a key after a request has been let through, or refused.
LEMMA CapFalls ==
  ASSUME TypeInv, NEW k \in Keys, CapKept(k), NEW r \in Capping(k),
         Capping(k)' = Capping(k) \ {r}, passed'[k] = passed[k] + 1,
         UNCHANGED failures \/ Fail
  PROVE  CapKept(k)'
<1>1. PICK C \in SUBSET Requests : C = Capping(k)
  BY DEF Capping
<1>2. IsFiniteSet(C) /\ Cardinality(C) \in Nat
  BY SomeRequests
<1>3. Cardinality(C \ {r}) = Cardinality(C) - 1
  BY <1>1, <1>2, FS_RemoveElement
<1>4. failures' \in Nat /\ failures' >= failures
  BY FailTyped, Numbers
<1>5. passed[k] + Cardinality(C) <= CapLimit + Cardinality(Requests) - 1 + failures
  BY <1>1 DEF CapKept
<1>6. passed'[k] + Cardinality(C \ {r}) <= CapLimit + Cardinality(Requests) - 1 + failures'
  BY <1>2, <1>3, <1>4, <1>5, Numbers
<1>. QED
  BY <1>1, <1>6 DEF CapKept

LEMMA ExpireWindows ==
  ASSUME TypeInv, WindowInv, NEW r \in Requests, Expire(r) PROVE WindowInv'
<1>. SUFFICES ASSUME NEW o \in Keys PROVE KeyInv(o)'
  BY DEF WindowInv
<1>1. request[r].at = "expiring" /\ request[r] \in Handling /\ HandlingOK(request[r])
      /\ terms' = terms
  BY DEF Expire, TypeInv, RequestInv
<1>2. PICK k \in Keys : k = KeyOf(request[r])
  BY <1>1, KeysDiffer
<1>3. KeyInv(k) /\ KeyInv(o) /\ Expiring(r, k)
  BY <1>1, <1>2 DEF WindowInv, Expiring
<1>4. counter[k].n > 0 /\ ~counter[k].ttl /\ \A p \in Requests : Expiring(p, k) => p = r
  BY <1>3 DEF KeyInv, OneExpires
<1>5. \/ Counted(r, 1) /\ UNCHANGED <<failures, lost>>
           /\ counter' = [counter EXCEPT ![k].ttl = TRUE]
      \/ Counted(r, 0) /\ Fail /\ UNCHANGED lost
           /\ counter' = [counter EXCEPT ![k].ttl = TRUE]
      \/ Counted(r, 0) /\ Fail /\ UNCHANGED counter /\ lost' = lost \cup {k}
  BY <1>2, <1>4 DEF Expire
<1>6. counter \in [Keys -> [n: Nat, ttl: BOOLEAN]]
  BY DEF TypeInv, RestTyped
<1>7. /\ counter'[k].n = counter[k].n
      /\ \A p \in Keys \ {k} : counter'[p] = counter[p]
      /\ counter'[k].ttl \/ (k \in lost' /\ ~counter'[k].ttl)
      /\ \A p \in Keys : p \in lost => p \in lost'
  BY <1>4, <1>5, <1>6
<1>8. PICK n \in {0, 1} : Counted(r, n) /\ ((n = 1 /\ UNCHANGED failures) \/ Fail)
  BY <1>5
<1>9. /\ ~Expiring(r, k)' /\ \A p \in Requests \ {r} : Expiring(p, k)' <=> Expiring(p, k)
      /\ r \in Capping(k) /\ Capping(k)' = Capping(k) \ {r}
      /\ \/ passed'[k] = passed[k] + 1 /\ (k[1] # "freqcap" => n <= LimitOf(k))
         \/ passed'[k] = passed[k] /\ k[1] # "freqcap" /\ n > LimitOf(k)
      /\ \A p \in Keys \ {k} : passed'[p] = passed[p]
      /\ \A p \in Keys \ {k}, q \in Requests : Expiring(q, p)' <=> Expiring(q, p)
      /\ \A p \in Keys \ {k} : Capping(p)' = Capping(p)
  BY <1>1, <1>2, <1>8, DecisionLets
<1>10. CASE o # k
  <2>1. o \in Keys \ {k}
    BY <1>10
  <2>2. counter'[o] = counter[o] /\ passed'[o] = passed[o] /\ (o \in lost => o \in lost')
    BY <1>7, <1>9, <2>1
  <2>3. \A q \in Requests : Expiring(q, o)' <=> Expiring(q, o)
    BY <1>9, <2>1
  <2>4. Capping(o)' \subseteq Capping(o)
    BY <1>9, <2>1
  <2>5. UNCHANGED failures \/ Fail
    BY <1>8
  <2>. QED
    BY <1>3, <2>2, <2>3, <2>4, <2>5, KeyKept
<1>11. ASSUME o = k PROVE KeyInv(k)'
  <2>1. \A p \in Requests : ~Expiring(p, k)'
    BY <1>4, <1>9
  <2>2. Owed(k) = 1 /\ Owed(k)' = 0
    BY <1>3, <2>1 DEF Owed
  <2>3. OneExpires(k)' /\ TtlOfACount(k)' /\ HasAnEnd(k)'
    <3>1. OneExpires(k)'
      BY <2>1 DEF OneExpires
    <3>2. TtlOfACount(k)'
      BY <1>4, <1>7, Numbers DEF TtlOfACount
    <3>3. HasAnEnd(k)'
      BY <1>7 DEF HasAnEnd
    <3>. QED
      BY <3>1, <3>2, <3>3
  <2>4. failures' \in Nat /\ ((n = 1 /\ failures' = failures) \/ failures' = failures + 1)
    BY <1>8, FailTyped, Numbers
  <2>5. PassedCounted(k)'
    <3>1. passed[k] + 1 <= counter[k].n + failures
      BY <1>3, <2>2 DEF KeyInv, PassedCounted
    <3>2. passed'[k] + 0 <= counter[k].n + failures'
      BY <1>9, <2>4, <3>1, Numbers
    <3>. QED
      BY <1>7, <2>2, <3>2 DEF PassedCounted
  <2>6. ASSUME k[1] # "freqcap" PROVE RateKept(k)' /\ RateOff(k)'
    <3>1. /\ LimitOf(k) > 0 => passed[k] + 1 <= LimitOf(k) + failures
          /\ LimitOf(k) = 0 => passed[k] <= failures
      BY <1>3, <2>2, <2>6 DEF KeyInv, RateKept, RateOff
    <3>2. LimitOf(k) > 0 => passed'[k] + 0 <= LimitOf(k) + failures'
      BY <1>9, <2>4, <3>1, Numbers
    <3>3. LimitOf(k) = 0 => passed'[k] <= failures'
      BY <1>9, <2>4, <2>6, <3>1, Numbers
    <3>. QED
      BY <2>2, <3>2, <3>3 DEF RateKept, RateOff, LimitOf
  <2>7. ASSUME k[1] = "freqcap" PROVE CapKept(k)'
    BY <1>3, <1>8, <1>9, <2>7, CapFalls DEF KeyInv
  <2>. QED
    BY <2>3, <2>5, <2>6, <2>7 DEF KeyInv
<1>. QED
  BY <1>10, <1>11

LEMMA IncrWindows ==
  ASSUME TypeInv, WindowInv, NEW r \in Requests, Incr(r) PROVE WindowInv'
<1>. SUFFICES ASSUME NEW o \in Keys PROVE KeyInv(o)'
  BY DEF WindowInv
<1>1. request[r].at = "counting" /\ request[r] \in Handling /\ HandlingOK(request[r])
      /\ terms' = terms
  BY DEF Incr, TypeInv, RequestInv
<1>2. PICK k \in Keys : k = KeyOf(request[r])
  BY <1>1, KeysDiffer
<1>3. KeyInv(k) /\ KeyInv(o)
  BY DEF WindowInv
<1>4. PICK n \in Nat : n = counter[k].n + 1
  BY Numbers
<1>5. counter \in [Keys -> [n: Nat, ttl: BOOLEAN]]
  BY DEF TypeInv, RestTyped
<1>6. \/ /\ n = 1 /\ request' = [request EXCEPT ![r].at = "expiring"]
         /\ counter' = [counter EXCEPT ![k].n = n]
         /\ UNCHANGED <<passed, failures, lost>>
      \/ /\ n # 1 /\ Counted(r, n) /\ UNCHANGED <<failures, lost>>
         /\ counter' = [counter EXCEPT ![k].n = n]
      \/ /\ Fail /\ Counted(r, 0)
         /\ \/ UNCHANGED <<counter, lost>>
            \/ /\ counter' = [counter EXCEPT ![k].n = n]
               /\ lost' = IF counter[k].ttl THEN lost ELSE lost \cup {k}
  BY <1>2, <1>4 DEF Incr, IsFirst
<1>7. CASE /\ n = 1 /\ request' = [request EXCEPT ![r].at = "expiring"]
           /\ counter' = [counter EXCEPT ![k].n = n]
           /\ UNCHANGED <<passed, failures, lost>>
  <2>1. /\ request'[r] = [request[r] EXCEPT !.at = "expiring"]
        /\ \A p \in Requests \ {r} : request'[p] = request[p]
    BY <1>7 DEF TypeInv, RequestInv
  <2>2. request'[r].at = "expiring" /\ KeyOf(request'[r]) = k
    BY <1>1, <1>2, <2>1 DEF Handling, KeyOf
  <2>3. counter'[k].n = 1 /\ counter'[k].ttl = counter[k].ttl /\ counter[k].n = 0
        /\ \A p \in Keys \ {k} : counter'[p] = counter[p]
    <3>1. counter[k].n = 0 /\ counter' = [counter EXCEPT ![k].n = 1]
      BY <1>4, <1>7, Numbers
    <3>. QED
      BY <1>5, <3>1
  <2>4. CASE o # k
    <3>1. \A q \in Requests : Expiring(q, o)' <=> Expiring(q, o)
      BY <1>1, <2>1, <2>2, <2>4 DEF Expiring
    <3>2. Capping(o)' \subseteq Capping(o)
      BY <2>1, <2>2, <2>4 DEF Capping
    <3>3. counter'[o] = counter[o]
      BY <2>3, <2>4
    <3>. QED
      BY <1>3, <1>7, <3>1, <3>2, <3>3, KeyKept
  <2>5. ASSUME o = k PROVE KeyInv(k)'
    <3>1. ~counter[k].ttl /\ \A p \in Requests : ~Expiring(p, k)
      BY <1>3, <2>3, Numbers DEF KeyInv, OneExpires, TtlOfACount
    <3>2. Expiring(r, k)' /\ \A p \in Requests \ {r} : ~Expiring(p, k)'
      BY <2>1, <2>2, <3>1 DEF Expiring
    <3>3. Owed(k) = 0 /\ Owed(k)' = 1
      BY <3>1, <3>2 DEF Owed
    <3>4. Capping(k)' = Capping(k)
      BY <1>1, <1>2, <2>1, <2>2 DEF Capping
    <3>5. OneExpires(k)' /\ TtlOfACount(k)' /\ HasAnEnd(k)'
      BY <2>3, <3>1, <3>2 DEF OneExpires, TtlOfACount, HasAnEnd
    <3>6. passed[k] + 0 <= 0 + failures
      BY <1>3, <2>3, <3>3 DEF KeyInv, PassedCounted
    <3>7. PassedCounted(k)' /\ RateKept(k)' /\ RateOff(k)'
      <4>1. /\ passed[k] + 1 <= 1 + failures /\ passed[k] <= failures
            /\ LimitOf(k) > 0 => passed[k] + 1 <= LimitOf(k) + failures
        BY <3>6, Numbers
      <4>. QED
        BY <1>7, <2>3, <3>3, <4>1 DEF PassedCounted, RateKept, RateOff, LimitOf
    <3>8. k[1] = "freqcap" => CapKept(k)'
      BY <1>3, <1>7, <3>4 DEF KeyInv, CapKept
    <3>. QED
      BY <3>5, <3>7, <3>8 DEF KeyInv
  <2>. QED
    BY <2>4, <2>5
<1>8. CASE \/ /\ n # 1 /\ Counted(r, n) /\ UNCHANGED <<failures, lost>>
              /\ counter' = [counter EXCEPT ![k].n = n]
           \/ /\ Fail /\ Counted(r, 0)
              /\ \/ UNCHANGED <<counter, lost>>
                 \/ /\ counter' = [counter EXCEPT ![k].n = n]
                    /\ lost' = IF counter[k].ttl THEN lost ELSE lost \cup {k}
  <2>1. PICK m \in Nat :
          /\ Counted(r, m)
          /\ \/ m = n /\ n # 1 /\ UNCHANGED failures /\ counter' = [counter EXCEPT ![k].n = n]
             \/ m = 0 /\ Fail
    BY <1>8
  <2>2. /\ ~Expiring(r, k)' /\ \A p \in Requests \ {r} : Expiring(p, k)' <=> Expiring(p, k)
        /\ r \in Capping(k) /\ Capping(k)' = Capping(k) \ {r}
        /\ \/ passed'[k] = passed[k] + 1 /\ (k[1] # "freqcap" => m <= LimitOf(k))
           \/ passed'[k] = passed[k] /\ k[1] # "freqcap" /\ m > LimitOf(k)
        /\ \A p \in Keys \ {k} : passed'[p] = passed[p]
        /\ \A p \in Keys \ {k}, q \in Requests : Expiring(q, p)' <=> Expiring(q, p)
        /\ \A p \in Keys \ {k} : Capping(p)' = Capping(p)
    BY <1>1, <1>2, <2>1, DecisionLets
  <2>3. /\ counter'[k].n \in {counter[k].n, n} /\ counter'[k].ttl = counter[k].ttl
        /\ \A p \in Keys \ {k} : counter'[p] = counter[p]
        /\ \A p \in Keys : p \in lost => p \in lost'
    BY <1>5, <1>8
  <2>4. CASE o # k
    <3>1. o \in Keys \ {k}
      BY <2>4
    <3>2. counter'[o] = counter[o] /\ passed'[o] = passed[o] /\ (o \in lost => o \in lost')
      BY <2>2, <2>3, <3>1
    <3>3. \A q \in Requests : Expiring(q, o)' <=> Expiring(q, o)
      BY <2>2, <3>1
    <3>4. Capping(o)' \subseteq Capping(o)
      BY <2>2, <3>1
    <3>5. UNCHANGED failures \/ Fail
      BY <2>1
    <3>. QED
      BY <1>3, <3>2, <3>3, <3>4, <3>5, KeyKept
  <2>5. ASSUME o = k PROVE KeyInv(k)'
    <3>1. \A p \in Requests : Expiring(p, k)' <=> Expiring(p, k)
      BY <1>1, <2>2 DEF Expiring
    <3>2. Owed(k)' = Owed(k)
      BY <3>1 DEF Owed
    <3>3. counter'[k].n \in Nat /\ counter'[k].n >= counter[k].n
      BY <1>4, <2>3, Numbers
    <3>4. OneExpires(k)' /\ TtlOfACount(k)'
      <4>1. OneExpires(k)'
        BY <1>3, <2>3, <3>1, <3>3, Numbers DEF KeyInv, OneExpires
      <4>2. TtlOfACount(k)'
        BY <1>3, <2>3, <3>3, Numbers DEF KeyInv, TtlOfACount
      <4>. QED
        BY <4>1, <4>2
    <3>5. HasAnEnd(k)'
      <4>1. CASE counter[k].n > 0
        BY <1>3, <2>3, <3>1, <4>1 DEF KeyInv, HasAnEnd
      <4>2. CASE ~(counter[k].n > 0)
        <5>1. n = 1
          BY <1>4, <4>2, Numbers
        <5>2. k \in lost' \/ counter'[k].n = 0
          BY <1>3, <1>4, <1>8, <4>2, <5>1, Numbers DEF KeyInv, TtlOfACount
        <5>. QED
          BY <5>2 DEF HasAnEnd
      <4>. QED
        BY <4>1, <4>2
    <3>6. failures' \in Nat
          /\ ((m = n /\ n # 1 /\ failures' = failures) \/ (m = 0 /\ failures' = failures + 1))
      BY <2>1, FailTyped, Numbers
    <3>7. passed[k] + Owed(k) <= counter[k].n + failures
      BY <1>3 DEF KeyInv, PassedCounted
    <3>8. m = n => counter'[k].n = n
      <4>1. n # 0
        BY <1>4, Numbers
      <4>. QED
        BY <1>5, <2>1, <4>1
    <3>9. PassedCounted(k)'
      <4>1. passed'[k] + Owed(k) <= counter'[k].n + failures'
        BY <1>4, <2>2, <3>3, <3>6, <3>7, <3>8, Numbers
      <4>. QED
        BY <3>2, <4>1 DEF PassedCounted
    <3>10. ASSUME k[1] # "freqcap" PROVE RateKept(k)' /\ RateOff(k)'
      <4>1. /\ LimitOf(k) > 0 => passed[k] + Owed(k) <= LimitOf(k) + failures
            /\ LimitOf(k) = 0 => passed[k] <= failures
        BY <1>3, <3>10 DEF KeyInv, RateKept, RateOff
      <4>2. LimitOf(k) > 0 => passed'[k] + Owed(k) <= LimitOf(k) + failures'
        BY <1>4, <2>2, <3>6, <3>7, <3>10, <4>1, Numbers
      <4>3. LimitOf(k) = 0 => passed'[k] <= failures'
        BY <1>4, <2>2, <3>6, <3>10, <4>1, Numbers
      <4>. QED
        BY <3>2, <4>2, <4>3 DEF RateKept, RateOff, LimitOf
    <3>11. ASSUME k[1] = "freqcap" PROVE CapKept(k)'
      BY <1>3, <2>1, <2>2, <3>11, CapFalls DEF KeyInv
    <3>. QED
      BY <3>4, <3>5, <3>9, <3>10, <3>11 DEF KeyInv
  <2>. QED
    BY <2>4, <2>5
<1>. QED
  BY <1>6, <1>7, <1>8

LEMMA StepWindows ==
  TypeInv /\ WindowInv /\ [ServingNext]_servingVars => WindowInv'
<1>. SUFFICES ASSUME TypeInv, WindowInv, [ServingNext]_servingVars PROVE WindowInv'
  OBVIOUS
<1>1. ASSUME NEW r \in Requests, NEW v \in Visitors,
             Click(r, v) \/ \E z \in Zones : Serve(r, v, z)
      PROVE  WindowInv'
  BY <1>1, ClickIsArrival, ServeIsArrival, ArriveWindows DEF Click, Serve
<1>2. ASSUME NEW r \in Requests,
             \/ Incr(r) \/ Expire(r) \/ SelectCampaigns(r) \/ RunAuction(r)
             \/ RereadZone(r) \/ claimOnce(r) \/ Stop(r)
      PROVE  WindowInv'
  BY <1>2, IncrWindows, ExpireWindows, SelectWindows, AuctionWindows, RereadWindows,
     ClaimWindows, StopWindows
<1>3. ASSUME \/ getNewsletterSnippet \/ pixel \/ (\E z \in Zones : ZoneCacheChanges(z))
             \/ (\E s \in Scopes : ClaimEnds(s)) \/ UNCHANGED servingVars
      PROVE  WindowInv'
  <2>1. UNCHANGED <<counter, passed, lost, failures, request>>
    BY <1>3 DEF getNewsletterSnippet, pixel, ZoneCacheChanges, ClaimEnds, quiet, servingVars
  <2>. QED
    BY <2>1, WindowsKept
<1>. QED
  BY <1>1, <1>2, <1>3, WindowEndsWindows DEF ServingNext

\* In one window an address gets no more impressions or clicks through than its
\* limit, and a visitor sees a campaign no more often than its cap and the other
\* requests in flight allow, one more for each command that failed; and no
\* counter outlives its window unless its EXPIRE was lost
\* (frequency-capping.service.ts, visitor-frequency-cap.service.ts).
THEOREM WindowsStayBounded ==
  ServingSpec => []WindowsAreBounded
<1>1. ServingInit => WindowInv
  <2>. SUFFICES ASSUME ServingInit, NEW k \in Keys PROVE KeyInv(k)
    BY DEF WindowInv
  <2>1. TypeInv
    BY InitTyped
  <2>2. counter[k].n = 0 /\ ~counter[k].ttl /\ passed[k] = 0 /\ failures = 0
    BY DEF ServingInit
  <2>3. \A r \in Requests : request[r].at = "idle"
    BY IdleIsTyped DEF ServingInit
  <2>4. Owed(k) = 0 /\ Capping(k) = {}
    BY <2>3 DEF Owed, Expiring, Capping
  <2>5. Cardinality({}) = 0 /\ Cardinality(Requests) \in Nat
    BY <2>1, FS_EmptySet, Numbers
  <2>6. CapKept(k)
    <3>1. 0 + 0 <= CapLimit + Cardinality(Requests) - 1 + 0
      BY <2>5, ServingAssumption
    <3>. QED
      BY <2>2, <2>4, <2>5, <3>1 DEF CapKept
  <2>7. OneExpires(k) /\ TtlOfACount(k) /\ HasAnEnd(k)
    BY <2>2, <2>3 DEF OneExpires, TtlOfACount, HasAnEnd, Expiring
  <2>8. PassedCounted(k) /\ RateKept(k) /\ RateOff(k)
    BY <2>1, <2>2, <2>4, Numbers DEF PassedCounted, RateKept, RateOff
  <2>. QED
    BY <2>6, <2>7, <2>8 DEF KeyInv
<1>2. TypeInv /\ WindowInv => WindowsAreBounded
  <2>. SUFFICES ASSUME TypeInv, WindowInv PROVE WindowsAreBounded
    OBVIOUS
  <2>1. ASSUME NEW k \in Keys, k[1] # "freqcap" PROVE passed[k] <= LimitOf(k) + failures
    <3>1. /\ LimitOf(k) > 0 => passed[k] + Owed(k) <= LimitOf(k) + failures
          /\ LimitOf(k) = 0 => passed[k] <= failures
      BY <2>1 DEF WindowInv, KeyInv, RateKept, RateOff
    <3>. QED
      BY <3>1, Numbers
  <2>2. ASSUME NEW i \in Ips
        PROVE  /\ passed[ImpressionKey(i)] <= ImpressionLimit + failures
               /\ passed[ClickKey(i)] <= ClickLimit + failures
    <3>1. /\ ImpressionKey(i) \in Keys /\ ImpressionKey(i)[1] = "rate:imp"
          /\ ClickKey(i) \in Keys /\ ClickKey(i)[1] = "rate:click"
      BY DEF Keys, ImpressionKey, ClickKey
    <3>2. LimitOf(ImpressionKey(i)) = ImpressionLimit /\ LimitOf(ClickKey(i)) = ClickLimit
      BY <3>1 DEF LimitOf
    <3>. QED
      BY <2>1, <3>1, <3>2
  <2>3. ASSUME NEW v \in Visitors, NEW c \in Campaigns
        PROVE  passed[CapKey(v, c)] <= CapLimit + Cardinality(Requests) - 1 + failures
    <3>1. PICK k \in Keys : k = CapKey(v, c) /\ k[1] = "freqcap"
      <4>1. CapKey(v, c) \in Keys /\ CapKey(v, c)[1] = "freqcap"
        BY DEF Keys, CapKey
      <4>. QED
        BY <4>1
    <3>2. Cardinality(Capping(k)) \in Nat
      <4>1. Capping(k) \in SUBSET Requests
        BY DEF Capping
      <4>. QED
        BY <4>1, SomeRequests
    <3>3. passed[k] + Cardinality(Capping(k)) <= CapLimit + Cardinality(Requests) - 1 + failures
      BY <3>1 DEF WindowInv, KeyInv, CapKept
    <3>4. passed[k] <= CapLimit + Cardinality(Requests) - 1 + failures
      BY <3>2, <3>3, Numbers
    <3>. QED
      BY <3>1, <3>4
  <2>4. KeysExpire
    BY DEF WindowInv, KeyInv, HasAnEnd, Expiring, KeysExpire
  <2>. QED
    BY <2>2, <2>3, <2>4 DEF WindowsAreBounded, CountsAreBounded
<1>. QED
  BY AlwaysTyped, <1>1, <1>2, StepWindows, PTL DEF ServingSpec
=============================================================================
