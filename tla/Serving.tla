------------------------------ MODULE Serving ------------------------------
(***************************************************************************)
(* /serve, /click and the newsletter pixel: the handlers of                *)
(* AdEngineController with fraud detection, targeting, the auction, the    *)
(* visitor's cap and the publisher's deduplication.                        *)
(*                                                                         *)
(* Every await is a Redis command, and the requests of a worker interleave *)
(* between them.  A command that fails is answered as if nothing had been  *)
(* counted, whether Redis ran it or not, and a worker may stop anywhere.   *)
(***************************************************************************)
EXTENDS Integers, FiniteSetsExt

CONSTANTS
  Visitors,         \* an IP address with a user agent
  IpOf,             \* IpOf[v]: the address, shared by those behind one proxy
  Zones,
  SiteOf,           \* SiteOf[z]: the site, or the publisher, of the zone
  Campaigns,
  Terms,            \* what the campaigns may bid, in cents: [cpc, cpm, cpa] of each
  Requests,         \* requests served at the same time
  ImpressionLimit,  \* VELOCITY_IMPRESSION_LIMIT
  ClickLimit,       \* VELOCITY_CLICK_LIMIT
  CapLimit,         \* the campaign's frequencyCapImpressions
  MaxRequests,      \* bound on requests sent
  MaxFailures       \* bound on failed commands and stopped workers

Ips == {IpOf[v] : v \in Visitors}
Sites == {SiteOf[z] : z \in Zones}
Scopes == Sites \X Ips

ImpressionKey(ip) == <<"rate:imp", ip>>
ClickKey(ip) == <<"rate:click", ip>>
CapKey(v, c) == <<"freqcap", c, v>>

Keys == {ImpressionKey(i) : i \in Ips} \cup {ClickKey(i) : i \in Ips}
          \cup {CapKey(v, c) : v \in Visitors, c \in Campaigns}

None == "none"

\* resolveLimit: every campaign is capped, at one impression or more.
ASSUME ServingAssumption ==
  /\ {ImpressionLimit, ClickLimit, MaxRequests, MaxFailures} \subseteq Nat
  /\ CapLimit \in Nat \ {0}
  /\ Terms \subseteq [Campaigns -> [cpc: Nat \ {0}, cpm: Nat, cpa: BOOLEAN]]
  /\ IsFiniteSet(Campaigns) /\ IsFiniteSet(Requests)
  /\ None \notin Campaigns \cup Visitors \cup Zones

VARIABLES
  terms,     \* terms[c]: the campaign's bids, cpm = 0 for none
  cached,    \* zones in the cache of the ACTIVE ones
  counter,   \* counter[k]: the count of a key, and if it has a time to live
  claimed,   \* pubimp keys: a site's visitors already counted
  request,   \* request[r]: what is served, and where its handler is
  link,      \* the click URL of a creative or a newsletter, or NoLink
  adClicks,  \* campaigns with an AdClick row for the link
  charges,   \* what this step published and a billing worker will charge for
  sent, failures,
  passed,    \* history: passed[k]: requests k let through in its window
  unique,    \* history: unique[s]: unique impressions published in its window
  vanished,  \* history: vanished[s]: those whose zone was gone when read again
  lost       \* history: keys whose EXPIRE was not sent or failed

servingVars == <<terms, cached, counter, claimed, request, link, adClicks, charges, sent,
                 failures, passed, unique, vanished, lost>>

NoLink == [campaign |-> None]
Idle == [at |-> "idle", visitor |-> None, zone |-> None, clicked |-> NoLink,
         bidders |-> {}, campaign |-> None, price |-> 0]

IsCpm(c) == terms[c].cpm > 0
IsCpa(c) == terms[c].cpa

Links == [campaign: Campaigns, cost: Nat, clickId: BOOLEAN, pixel: Nat, newsletter: BOOLEAN]

Stages == {"idle", "counting", "expiring", "targeting", "capping", "rereading", "claiming"}
Handling ==
  [at: Stages, visitor: Visitors \cup {None}, zone: Zones \cup {None},
   clicked: Links \cup {NoLink}, bidders: SUBSET Campaigns,
   campaign: Campaigns \cup {None}, price: Nat]

ServingTypeOK ==
  /\ terms \in Terms
  /\ cached \subseteq Zones
  /\ counter \in [Keys -> [n: Nat, ttl: BOOLEAN]]
  /\ claimed \subseteq Scopes
  /\ request \in [Requests -> Handling]
  /\ \A r \in Requests : request[r].campaign = None <=> request[r].price = 0
  /\ link \in Links \cup {NoLink}
  /\ adClicks \subseteq Campaigns
  /\ charges \subseteq [of: {"impression", "click"}, campaign: Campaigns, newsletter: BOOLEAN]
  /\ sent \in 0..MaxRequests /\ failures \in 0..MaxFailures
  /\ passed \in [Keys -> Nat] /\ {unique, vanished} \subseteq [Scopes -> Nat]
  /\ lost \subseteq Keys

ServingInit ==
  /\ terms \in Terms
  /\ cached = Zones
  /\ counter = [k \in Keys |-> [n |-> 0, ttl |-> FALSE]]
  /\ claimed = {}
  /\ request = [r \in Requests |-> Idle]
  /\ link = NoLink /\ adClicks = {}
  /\ charges = {}
  /\ sent = 0 /\ failures = 0
  /\ passed = [k \in Keys |-> 0]
  /\ unique = [s \in Scopes |-> 0] /\ vanished = unique
  /\ lost = {}

-----------------------------------------------------------------------------
(* The auction, in thousandths of a cent.                                  *)

effectiveUnitBid(c) == IF IsCpm(c) THEN terms[c].cpm ELSE 1000 * terms[c].cpc

MutRunnerUp(w, bidders) == Max({0} \cup {effectiveUnitBid(c) : c \in bidders})

RunnerUp(w, bidders) == Max({0} \cup {effectiveUnitBid(c) : c \in bidders \ {w}})

clearingUnitBid(w, bidders) ==
  LET second == RunnerUp(w, bidders) IN
  IF second > 0 THEN Min({effectiveUnitBid(w), second}) ELSE effectiveUnitBid(w)

\* Math.round of thousandths to cents, and a cent at least.
roundToBillableCents(mils) == Max({1, (mils + 500) \div 1000})

\* maxCpm or maxCpc of the copy that selectCampaign returns.
applyClearingPrice(w, bidders) ==
  roundToBillableCents(IF IsCpm(w) THEN 1000 * clearingUnitBid(w, bidders)
                       ELSE clearingUnitBid(w, bidders))

-----------------------------------------------------------------------------
(* Requests, and the counters they pass.                                   *)

Fail == failures < MaxFailures /\ failures' = failures + 1

End(r) == request' = [request EXCEPT ![r] = Idle]

\* A click is charged its cost (billClick), an impression its part of maxCpm
\* (recordImpression, which looks at nothing else); what is blocked, flagged or
\* free is published too, and left out here.
Charges(of, c, cost, newsletter) ==
  charges' = IF cost > 0 THEN {[of |-> of, campaign |-> c, newsletter |-> newsletter]} ELSE {}

\* evaluateBotAndBlacklist is the first thing serve and click do: the blacklist
\* and the user agent may refuse anyone.
Arrive(r, q) ==
  /\ request[r].at = "idle" /\ sent < MaxRequests
  /\ sent' = sent + 1
  /\ UNCHANGED request \/ request' = [request EXCEPT ![r] = q]
  /\ charges' = {}
  /\ UNCHANGED <<terms, cached, counter, claimed, link, adClicks, failures, passed, unique,
                 vanished, lost>>

Serve(r, v, z) == Arrive(r, [Idle EXCEPT !.at = "counting", !.visitor = v, !.zone = z])

Click(r, v) ==
  /\ link # NoLink
  /\ Arrive(r, [Idle EXCEPT !.at = "counting", !.visitor = v, !.clicked = link])

\* The key that a request counts.
KeyOf(q) ==
  IF q.clicked # NoLink THEN ClickKey(IpOf[q.visitor])
  ELSE IF q.campaign # None THEN CapKey(q.visitor, q.campaign)
  ELSE ImpressionKey(IpOf[q.visitor])

\* A token younger than 250 ms or older than a day, and a data center's address,
\* block the click that costs and let the free one pass.
Clicked(r) ==
  LET l == request[r].clicked
  IN
  \/ l.cost > 0 /\ charges' = {} /\ UNCHANGED adClicks
  \/ /\ Charges("click", l.campaign, l.cost, l.newsletter)
     /\ adClicks' \in {adClicks, IF l.clickId THEN adClicks \cup {l.campaign} ELSE adClicks}

\* increment has returned n: the decision it was for.
Counted(r, n) ==
  LET k == KeyOf(request[r])
      q == request[r]
      pass == passed' = [passed EXCEPT ![k] = @ + 1]
  IN
  \/ /\ k[1] = "freqcap"
     /\ request' = [request EXCEPT ![r].at = "rereading"]
     /\ charges' = {} /\ pass /\ UNCHANGED adClicks
  \/ /\ k[1] = "rate:imp" /\ n <= ImpressionLimit
     /\ request' = [request EXCEPT ![r].at = "targeting"]
     /\ charges' = {} /\ pass /\ UNCHANGED adClicks
  \/ k[1] = "rate:click" /\ n <= ClickLimit /\ Clicked(r) /\ End(r) /\ pass
  \/ /\ k[1] # "freqcap" /\ n > (IF k[1] = "rate:imp" THEN ImpressionLimit ELSE ClickLimit)
     /\ End(r) /\ charges' = {}
     /\ UNCHANGED <<adClicks, passed>>

MutIsFirst(n) == n = 0

IsFirst(n) == n = 1

\* INCR; a failure is a count of 0, whether the key was counted or not.
Incr(r) ==
  LET k == KeyOf(request[r])
      n == counter[k].n + 1
      counts == counter' = [counter EXCEPT ![k].n = n]
  IN
  /\ request[r].at = "counting"
  /\ \/ counts /\ UNCHANGED <<failures, lost>>
        /\ IF IsFirst(n)
             THEN /\ request' = [request EXCEPT ![r].at = "expiring"]
                  /\ charges' = {}
                  /\ UNCHANGED <<adClicks, passed>>
             ELSE Counted(r, n)
     \/ Fail /\ Counted(r, 0)
        /\ \/ UNCHANGED <<counter, lost>>
           \/ counts /\ lost' = IF counter[k].ttl THEN lost ELSE lost \cup {k}
  /\ UNCHANGED <<terms, cached, claimed, link, sent, unique, vanished>>

\* EXPIRE, sent by the request whose INCR answered 1.
Expire(r) ==
  LET k == KeyOf(request[r])
      expires == counter' = IF counter[k].n > 0 THEN [counter EXCEPT ![k].ttl = TRUE]
                            ELSE counter
  IN
  /\ request[r].at = "expiring"
  /\ \/ expires /\ Counted(r, 1) /\ UNCHANGED <<failures, lost>>
     \/ Fail /\ Counted(r, 0)
        /\ \/ expires /\ UNCHANGED lost
           \/ lost' = lost \cup {k} /\ UNCHANGED counter
  /\ UNCHANGED <<terms, cached, claimed, link, sent, unique, vanished>>

-----------------------------------------------------------------------------
(* selectCampaign.                                                         *)

\* isEligible: the zone's format and categories, the visitor's country and
\* device and the balances let through any of the cached campaigns.
Eligible == SUBSET Campaigns

\* getActiveZone and getActiveCampaigns; a failed read is "not found", or none.
SelectCampaigns(r) ==
  /\ request[r].at = "targeting"
  /\ \/ End(r) /\ (request[r].zone \in cached => Fail)
        /\ (request[r].zone \notin cached => UNCHANGED failures)
     \/ /\ request[r].zone \in cached
        /\ \E eligible \in Eligible :
             IF eligible = {} THEN End(r)
             ELSE request' = [request EXCEPT ![r].at = "capping", ![r].bidders = eligible]
        /\ UNCHANGED failures
  /\ charges' = {}
  /\ UNCHANGED <<terms, cached, counter, claimed, link, adClicks, sent, passed, unique,
                 vanished, lost>>

IsCapped(v, c) == counter[CapKey(v, c)].n >= CapLimit

\* filterUnderFrequencyCap, one MGET; then the draw, which any bidder can win.
RunAuction(r) ==
  LET q == request[r] IN
  /\ request[r].at = "capping"
  /\ \E under \in {q.bidders, {c \in q.bidders : ~IsCapped(q.visitor, c)}} :
       /\ IF \E c \in under : IsCapped(q.visitor, c) THEN Fail ELSE UNCHANGED failures
       /\ IF under = {} THEN End(r)
          ELSE \E w \in under :
                 request' = [request EXCEPT ![r] =
                   [q EXCEPT !.at = "counting", !.bidders = under, !.campaign = w,
                             !.price = applyClearingPrice(w, under)]]
  /\ charges' = {}
  /\ UNCHANGED <<terms, cached, counter, claimed, link, adClicks, sent, passed, unique,
                 vanished, lost>>

-----------------------------------------------------------------------------
(* The impression, and its click URL.                                      *)

Scope(r) == <<SiteOf[request[r].zone], IpOf[request[r].visitor]>>

\* buildClickUrl: only a CPC campaign's click costs, only a CPA one's is tracked.
buildClickUrl(r) ==
  LET c == request[r].campaign IN
  [campaign |-> c,
   cost |-> IF IsCpm(c) \/ IsCpa(c) THEN 0 ELSE request[r].price,
   clickId |-> IsCpa(c), pixel |-> 0, newsletter |-> FALSE]

PublishImpression(r, isUnique) ==
  LET c == request[r].campaign IN
  /\ Charges("impression", c, IF IsCpm(c) THEN request[r].price ELSE 0, FALSE)
  /\ unique' = IF isUnique THEN [unique EXCEPT ![Scope(r)] = @ + 1] ELSE unique
  /\ link' = IF link = NoLink THEN buildClickUrl(r) ELSE link  \* bound: one is followed
  /\ End(r)

\* The zone is read again; gone, or not read, the impression counts as unique.
RereadZone(r) ==
  /\ request[r].at = "rereading"
  /\ \/ /\ request[r].zone \in cached
        /\ request' = [request EXCEPT ![r].at = "claiming"]
        /\ charges' = {}
        /\ UNCHANGED <<link, unique, vanished, failures>>
     \/ /\ IF request[r].zone \in cached THEN Fail /\ UNCHANGED vanished
           ELSE vanished' = [vanished EXCEPT ![Scope(r)] = @ + 1] /\ UNCHANGED failures
        /\ PublishImpression(r, TRUE)
  /\ UNCHANGED <<terms, cached, counter, claimed, adClicks, sent, passed, lost>>

MutClaims(s) == TRUE

\* SET NX answers OK.
Claims(s) == s \notin claimed

claimOnce(r) ==
  LET s == Scope(r)
      claim == claimed' = claimed \cup {s}
  IN
  /\ request[r].at = "claiming"
  /\ \/ claim /\ PublishImpression(r, Claims(s)) /\ UNCHANGED failures
     \/ Fail /\ (claim \/ UNCHANGED claimed) /\ PublishImpression(r, TRUE)
  /\ UNCHANGED <<terms, cached, counter, adClicks, sent, passed, vanished, lost>>

-----------------------------------------------------------------------------
(* Newsletters, time and faults.                                           *)

quiet == <<terms, request, adClicks, sent>>

\* getNewsletterSnippet: the highest bidder of those it finds live.
getNewsletterSnippet ==
  /\ link = NoLink
  /\ \E live \in SUBSET Campaigns \ {{}} : \E c \in live :
       /\ \A d \in live : \/ terms[d].cpm < terms[c].cpm
                          \/ terms[d].cpm = terms[c].cpm /\ terms[d].cpc <= terms[c].cpc
       /\ link' = [campaign |-> c, cost |-> IF IsCpm(c) THEN 0 ELSE terms[c].cpc,
                   clickId |-> FALSE, pixel |-> terms[c].cpm, newsletter |-> TRUE]
  /\ charges' = {}
  /\ UNCHANGED <<quiet, cached, counter, claimed, failures, passed, unique, vanished, lost>>

\* The open-tracking pixel: no fraud check, no deduplication.
pixel ==
  /\ link # NoLink /\ link.newsletter
  /\ Charges("impression", link.campaign, link.pixel, TRUE)
  /\ UNCHANGED <<quiet, cached, counter, claimed, link, failures, passed, unique, vanished,
                 lost>>

\* The zone cache is synchronised.
ZoneCacheChanges(z) ==
  /\ cached' = IF z \in cached THEN cached \ {z} ELSE cached \cup {z}
  /\ charges' = {}
  /\ UNCHANGED <<quiet, counter, claimed, link, failures, passed, unique, vanished, lost>>

\* Redis drops a key whose time to live is over.
WindowEnds(k) ==
  /\ counter[k].ttl
  /\ counter' = [counter EXCEPT ![k] = [n |-> 0, ttl |-> FALSE]]
  /\ passed' = [passed EXCEPT ![k] = 0]
  /\ lost' = lost \ {k}
  /\ charges' = {}
  /\ UNCHANGED <<quiet, cached, claimed, link, failures, unique, vanished>>

ClaimEnds(s) ==
  /\ s \in claimed
  /\ claimed' = claimed \ {s}
  /\ unique' = [unique EXCEPT ![s] = 0] /\ vanished' = [vanished EXCEPT ![s] = 0]
  /\ charges' = {}
  /\ UNCHANGED <<quiet, cached, counter, link, failures, passed, lost>>

\* A worker stops: its requests end where they are.
Stop(r) ==
  /\ request[r].at # "idle" /\ Fail
  /\ End(r)
  /\ lost' = IF request[r].at = "expiring" THEN lost \cup {KeyOf(request[r])} ELSE lost
  /\ charges' = {}
  /\ UNCHANGED <<terms, cached, counter, claimed, link, adClicks, sent, passed, unique,
                 vanished>>

ServingNext ==
  \/ \E r \in Requests :
       \/ \E v \in Visitors : Click(r, v) \/ \E z \in Zones : Serve(r, v, z)
       \/ Incr(r) \/ Expire(r) \/ SelectCampaigns(r) \/ RunAuction(r) \/ RereadZone(r)
       \/ claimOnce(r) \/ Stop(r)
  \/ \E z \in Zones : ZoneCacheChanges(z)
  \/ getNewsletterSnippet \/ pixel
  \/ \E k \in Keys : WindowEnds(k)
  \/ \E s \in Scopes : ClaimEnds(s)

ServingSpec == ServingInit /\ [][ServingNext]_servingVars

-----------------------------------------------------------------------------
\* The velocity limits count before they decide: in one window an address gets
\* no more requests through than its limit, however they interleave.  The
\* visitor's cap is read before it is counted ("a race here just means an
\* occasional over-serve"): a campaign is shown at most once more for every
\* other request in flight.  Each command that fails lets one more through.
CountsAreBounded ==
  /\ \A i \in Ips : /\ passed[ImpressionKey(i)] <= ImpressionLimit + failures
                    /\ passed[ClickKey(i)] <= ClickLimit + failures
  /\ \A v \in Visitors, c \in Campaigns :
       passed[CapKey(v, c)] <= CapLimit + Cardinality(Requests) - 1 + failures

\* No counter outlives its window: a key without a time to live has an EXPIRE
\* on its way, or it was lost with the command or the worker.  Such a key
\* blocks its address, or caps its campaign, for ever.
KeysExpire ==
  \A k \in Keys : counter[k].n > 0 /\ ~counter[k].ttl =>
    k \in lost \/ \E r \in Requests : request[r].at = "expiring" /\ KeyOf(request[r]) = k

\* A window lets a bounded number through, and ends.
WindowsAreBounded == CountsAreBounded /\ KeysExpire

\* "Only worth one impression per IP": a site counts a visitor's address once
\* per window, but for commands that failed and zones that left the cache
\* between the auction and the impression.
UniqueOncePerWindow == \A s \in Scopes : unique[s] <= 1 + failures + vanished[s]

\* The winner never pays more than it bid, and a winner that bid most pays the
\* second highest bid to the nearest cent, the billable minimum being a cent.
\* (With the types of the variables.)
PaysSecondPrice ==
  /\ ServingTypeOK
  /\ \A r \in Requests : request[r].campaign # None =>
       LET q == request[r]
           w == q.campaign
           paid == IF IsCpm(w) THEN q.price ELSE 1000 * q.price
           others == {effectiveUnitBid(c) : c \in q.bidders \ {w}}
       IN
       /\ 0 < paid /\ paid <= effectiveUnitBid(w)
       /\ \A u \in others :
            (\A x \in others : x <= u) /\ u <= effectiveUnitBid(w)
              => (paid - u) \in -500..500 \/ q.price = 1

\* "A CPM campaign is billed per impression, a CPA campaign on a conversion": an
\* impression is charged for under CPM only, a click under neither, wherever its
\* link came from.
ChargedOneWay ==
  \A e \in charges :
    IF e.of = "impression" THEN IsCpm(e.campaign)
    ELSE ~IsCpm(e.campaign) /\ ~IsCpa(e.campaign)
=============================================================================
