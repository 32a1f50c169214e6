----------------------------- MODULE WebProofs -----------------------------
(***************************************************************************)
(* What the settings' caches, the publisher tag, the zone manager, the     *)
(* campaign wizard and the data views promise, for any number of workers,  *)
(* tabs, zones, sections, forms, rows and requests.  The five modules      *)
(* share no variable; a theorem is about the specification of one of them. *)
(*                                                                         *)
(* None of the properties is inductive as it stands:                       *)
(*  - StaleForLessThanTtl: a copy's age says nothing of how long ago its   *)
(*    values were overwritten.  CopyInv and CallInv tie the two: a value   *)
(*    that is no longer stored ceased to be so no longer ago than the      *)
(*    copy, or the query whose answer will fill it, is old.                *)
(*  - OncePerSession: SeenInv adds that what was not marked was not shown, *)
(*    and that an exit intent is armed only while its key is unmarked.     *)
(*  - ArchivedChangesOnlyByOverlap: StaleIsOutrun says of each handler     *)
(*    that checked a zone archived meanwhile who overtook it, and          *)
(*    OneStatus why that was not its own tab, still waiting.               *)
(*  - MisfitWasNotChecked: CheckedInv follows every creative that passed   *)
(*    uploadCreative, or was pasted, through forms, timers, saves, the     *)
(*    draft and submissions.                                               *)
(*  - DraftFollowsWork speaks of quiet states only; WorkIsSomewhere says   *)
(*    where the last work is in the others, and OneAtATime that nothing    *)
(*    else is on its way to the row.                                       *)
(*  - ShownIsAsked and OwnWritesAreShown: what was asked for, or           *)
(*    acknowledged, is shown or an answer that will be used is on its way  *)
(*    (AskedIsComing, AckedIsComing), and no answer is older than what was *)
(*    acknowledged (ServerLeads).                                          *)
(***************************************************************************)
EXTENDS Settings, CampaignWizard, PublisherTag, Views, Zones, FiniteSetTheorems, TLAPS

-----------------------------------------------------------------------------
(* The platform settings.                                                  *)

CopyTypes == [Workers -> [{Card, FeeOnly} -> [age: 0..TTL, rates: [Names -> Values]]]]

CallTypes ==
  [at: {"unused", "sent", "read", "stored", "done"}, kind: {"get", "put"},
   of: {Card, FeeOnly}, worker: Workers \cup {"nobody"}, name: Names \cup {"none"},
   age: 0..TTL, got: [Names -> Values]]

\* A value differs from what is stored only if it ceased to be stored within age.
Fresh(s, v, age) == v = stored[s] \/ ceased[s][v] <= age

\* The same after a step.
FreshNext(s, v, age) == v = stored'[s] \/ ceased'[s][v] <= age

NameOK(r) ==
  /\ r.kind = "put" /\ r.at # "unused" =>
       (r.name \in Names /\ (r.of = Card <=> r.name # Fee))
  /\ r.kind = "put" /\ r.at = "read" => r.of = Card

GotFresh(r) ==
  r.kind = "get" /\ r.at = "read" => \A s \in Names : Fresh(s, r.got[s], r.age)

CallInv == \A c \in Calls : NameOK(call[c]) /\ GotFresh(call[c])

CopyInv ==
  \A w \in Workers, o \in {Card, FeeOnly} : Cached(w, o) =>
    \A s \in NamesOf(o) :
      Fresh(s, copy[w][o].rates[s], copy[w][o].age) \/ (late /\ o = FeeOnly)

SettingsInv == SettingsTypeOK /\ CallInv /\ CopyInv /\ RatesAreKept

-----------------------------------------------------------------------------
(* Types *)

LEMMA EmptyTypes ==
  /\ Empty \in [age: 0..TTL, rates: [Names -> Values]]
  /\ Empty.age = TTL
  /\ Unused \in CallTypes
  BY SettingsAssumption DEF Empty, Unused, CallTypes, Values, Names, FeeOnly

LEMMA AgeTypes ==
  ASSUME NEW age \in 0..TTL
  PROVE  /\ Older(age) \in 0..TTL
         /\ \A b \in 0..TTL : b <= age => Older(b) <= Older(age)
         /\ age < Older(age) \/ age = TTL
         /\ Older(age) < TTL => age < TTL /\ Older(age) = age + 1
  BY SettingsAssumption DEF Older

LEMMA CopyOfTypes ==
  ASSUME NEW age \in 0..TTL, NEW rates \in [Names -> Values]
  PROVE  /\ CopyOf(age, rates) \in [age: 0..TTL, rates: [Names -> Values]]
         /\ CopyOf(age, rates).age < TTL => /\ CopyOf(age, rates).age = age
                                            /\ CopyOf(age, rates).rates = rates
  BY EmptyTypes, SettingsAssumption DEF CopyOf

LEMMA StoreTypes ==
  ASSUME SettingsTypeOK, NEW next \in [Names -> Values], Store(next)
  PROVE  /\ stored' \in [Names -> Values]
         /\ ceased' \in [Names -> [Values -> 0..TTL]]
  BY SettingsAssumption DEF Store, SettingsTypeOK

LEMMA InitTypes == SettingsInit => SettingsTypeOK
<1>. SUFFICES ASSUME SettingsInit PROVE SettingsTypeOK
  OBVIOUS
<1>. USE SettingsAssumption
<1>1. stored \in [Names -> Values] /\ saved \in [Names -> Values]
  BY EmptyTypes DEF SettingsInit
<1>2. copy \in CopyTypes
  BY EmptyTypes DEF SettingsInit, CopyTypes
<1>3. call \in [Calls -> CallTypes]
  BY EmptyTypes DEF SettingsInit
<1>4. ceased \in [Names -> [Values -> 0..TTL]]
  BY DEF SettingsInit
<1>. QED
  BY <1>1, <1>2, <1>3, <1>4 DEF SettingsInit, SettingsTypeOK, CopyTypes, CallTypes

LEMMA NextTypes == SettingsTypeOK /\ CallInv /\ [SettingsNext]_settingsVars => SettingsTypeOK'
<1>. SUFFICES ASSUME SettingsTypeOK, CallInv, [SettingsNext]_settingsVars
              PROVE  SettingsTypeOK'
  OBVIOUS
<1>. USE SettingsAssumption
<1>a. call \in [Calls -> CallTypes] /\ copy \in CopyTypes
  BY DEF SettingsTypeOK, CallTypes, CopyTypes
<1>b. ASSUME call' \in [Calls -> CallTypes], copy' \in CopyTypes,
             stored' \in [Names -> Values], saved' \in [Names -> Values],
             ceased' \in [Names -> [Values -> 0..TTL]],
             clobbered' \in BOOLEAN, late' \in BOOLEAN
      PROVE  SettingsTypeOK'
  BY <1>b DEF SettingsTypeOK, CallTypes, CopyTypes
<1>c. Calls \subseteq Values
  BY DEF Values
<1>g. /\ stored \in [Names -> Values] /\ saved \in [Names -> Values]
      /\ ceased \in [Names -> [Values -> 0..TTL]]
      /\ clobbered \in BOOLEAN /\ late \in BOOLEAN
  BY DEF SettingsTypeOK
<1>1. CASE Tick
  <2>1. copy' \in CopyTypes
    <3>1. ASSUME NEW w \in Workers, NEW o \in {Card, FeeOnly}
          PROVE  CopyOf(Older(copy[w][o].age), copy[w][o].rates)
                   \in [age: 0..TTL, rates: [Names -> Values]]
      <4>1. copy[w][o].age \in 0..TTL /\ copy[w][o].rates \in [Names -> Values]
        BY <1>a DEF CopyTypes
      <4>2. Older(copy[w][o].age) \in 0..TTL
        BY <4>1, AgeTypes
      <4>. QED
        BY <4>1, <4>2, CopyOfTypes
    <3>. QED
      BY <1>1, <3>1 DEF Tick, CopyTypes
  <2>2. call' \in [Calls -> CallTypes]
    <3>1. \A c \in Calls : [call[c] EXCEPT !.age = Older(@)] \in CallTypes
      BY <1>a, AgeTypes DEF CallTypes
    <3>. QED
      BY <1>1, <1>a, <3>1 DEF Tick
  <2>3. ceased' \in [Names -> [Values -> 0..TTL]]
    BY <1>g, <1>1, AgeTypes DEF Tick
  <2>. QED
    BY <1>g, <1>1, <1>b, <2>1, <2>2, <2>3 DEF Tick
<1>2. ASSUME NEW c \in Calls, NEW w \in Workers, NEW o \in {Card, FeeOnly}, Get(c, w, o)
      PROVE  SettingsTypeOK'
  <2>1. [Unused EXCEPT !.at = "sent", !.of = o, !.worker = w] \in CallTypes
    BY EmptyTypes DEF CallTypes
  <2>. QED
    BY <1>g, <1>2, <1>a, <1>b, <2>1 DEF Get
<1>3. ASSUME NEW c \in Calls, NEW w \in Workers, NEW s \in Names, Put(c, w, s)
      PROVE  SettingsTypeOK'
  <2>1. [Unused EXCEPT !.at = "sent", !.kind = "put", !.worker = w,
                       !.of = IF s = Fee THEN FeeOnly ELSE Card, !.name = s] \in CallTypes
    BY EmptyTypes DEF CallTypes
  <2>. QED
    BY <1>g, <1>3, <1>a, <1>b, <2>1 DEF Put
<1>4. ASSUME NEW c \in Calls, FindUnique(c) PROVE SettingsTypeOK'
  <2>0. call[c] \in CallTypes /\ stored \in [Names -> Values]
    BY <1>g, <1>a
  <2>1. [call[c] EXCEPT !.at = "read", !.got = stored] \in CallTypes
    BY <2>0 DEF CallTypes
  <2>2. call' = [call EXCEPT ![c] = [call[c] EXCEPT !.at = "read", !.got = stored]]
    BY <1>4, <1>a DEF FindUnique, CallTypes
  <2>. QED
    BY <1>g, <1>4, <1>a, <1>b, <2>1, <2>2 DEF FindUnique
<1>d. [Unused EXCEPT !.at = "done"] \in CallTypes
  BY EmptyTypes DEF CallTypes
<1>e. ASSUME NEW w \in Workers, NEW o \in {Card, FeeOnly},
             NEW new \in [age: 0..TTL, rates: [Names -> Values]]
      PROVE  [copy EXCEPT ![w][o] = new] \in CopyTypes
  BY <1>a DEF CopyTypes
<1>5. ASSUME NEW c \in Calls, GetDone(c) PROVE SettingsTypeOK'
  <2>1. CopyOf(CachedAge(c), call[c].got) \in [age: 0..TTL, rates: [Names -> Values]]
    BY <1>a, CopyOfTypes DEF CallTypes, CachedAge
  <2>2. copy' \in CopyTypes
    BY <1>5, <1>a, <2>1 DEF GetDone, CopyTypes
  <2>. QED
    BY <1>g, <1>5, <1>a, <1>b, <1>d, <2>2 DEF GetDone
<1>6. ASSUME NEW c \in Calls, UpsertFee(c) PROVE SettingsTypeOK'
  <2>1. [call[c] EXCEPT !.at = "stored"] \in CallTypes
    BY <1>a DEF CallTypes
  <2>2. call' = [call EXCEPT ![c] = [call[c] EXCEPT !.at = "stored"]]
    BY <1>6, <1>a DEF UpsertFee, CallTypes
  <2>3. [stored EXCEPT ![Fee] = c] \in [Names -> Values]
    BY <1>g, <1>c DEF SettingsTypeOK
  <2>4. saved' \in [Names -> Values]
    BY <1>g, <1>6, <1>c DEF UpsertFee
  <2>5. stored' \in [Names -> Values] /\ ceased' \in [Names -> [Values -> 0..TTL]]
    BY <1>6, <2>3, StoreTypes DEF UpsertFee
  <2>. QED
    BY <1>g, <1>6, <1>a, <1>b, <2>1, <2>2, <2>4, <2>5 DEF UpsertFee
<1>7. ASSUME NEW c \in Calls, UpsertCard(c) PROVE SettingsTypeOK'
  <2>1. [call[c] EXCEPT !.at = "stored"] \in CallTypes
    BY <1>a DEF CallTypes
  <2>2. call' = [call EXCEPT ![c] = [call[c] EXCEPT !.at = "stored"]]
    BY <1>7, <1>a DEF UpsertCard, CallTypes
  <2>3. [s \in Names |-> IF s = Fee THEN stored[Fee] ELSE NextOverrides(c)[s]]
          \in [Names -> Values]
    BY <1>g, <1>a, <1>c DEF NextOverrides, CallTypes, Names
  <2>4. saved' \in [Names -> Values]
    BY <1>g, <1>7, <1>c DEF UpsertCard
  <2>5. stored' \in [Names -> Values] /\ ceased' \in [Names -> [Values -> 0..TTL]]
    BY <1>7, <2>3, StoreTypes DEF UpsertCard
  <2>6. clobbered' \in BOOLEAN
    BY <1>g, <1>7 DEF UpsertCard
  <2>. QED
    BY <1>g, <1>7, <1>a, <1>b, <2>1, <2>2, <2>4, <2>5, <2>6 DEF UpsertCard
<1>8. ASSUME NEW c \in Calls, PutFeeDone(c) PROVE SettingsTypeOK'
  <2>1. ASSUME NEW w \in Workers
        PROVE  CopyOf(0, [copy[w][FeeOnly].rates EXCEPT ![Fee] = c])
                 \in [age: 0..TTL, rates: [Names -> Values]]
    <3>1. copy[w][FeeOnly].rates \in [Names -> Values]
      BY <1>a DEF CopyTypes
    <3>2. [copy[w][FeeOnly].rates EXCEPT ![Fee] = c] \in [Names -> Values]
      BY <1>c, <3>1
    <3>. QED
      BY <3>2, CopyOfTypes
  <2>2. copy' \in CopyTypes
    BY <1>8, <1>a, <2>1 DEF PutFeeDone, CopyTypes
  <2>3. late' \in BOOLEAN
    BY <1>g, <1>8 DEF PutFeeDone
  <2>. QED
    BY <1>g, <1>8, <1>a, <1>b, <1>d, <2>2, <2>3 DEF PutFeeDone
<1>9. ASSUME NEW c \in Calls, PutCardDone(c) PROVE SettingsTypeOK'
  <2>1. [Unused EXCEPT !.at = "sent", !.of = Card, !.worker = call[c].worker] \in CallTypes
    BY <1>a, EmptyTypes DEF CallTypes
  <2>2. copy' \in CopyTypes
    BY <1>9, <1>a, EmptyTypes DEF PutCardDone, CopyTypes
  <2>. QED
    BY <1>g, <1>9, <1>a, <1>b, <2>1, <2>2 DEF PutCardDone
<1>10. ASSUME NEW w \in Workers, Restart(w) PROVE SettingsTypeOK'
  <2>1. copy' \in CopyTypes
    BY <1>10, <1>a, EmptyTypes DEF Restart, CopyTypes
  <2>. QED
    BY <1>g, <1>10, <1>a, <1>b, <1>d, <2>1 DEF Restart
<1>11. CASE UNCHANGED settingsVars
  BY <1>11 DEF settingsVars, SettingsTypeOK
<1>. QED
  BY <1>1, <1>2, <1>3, <1>4, <1>5, <1>6, <1>7, <1>8, <1>9, <1>10, <1>11
  DEF SettingsNext

-----------------------------------------------------------------------------
(* Ages: what is fresh stays fresh when a value is stored or time passes. *)

LEMMA StoreKeepsFresh ==
  ASSUME SettingsTypeOK, NEW next \in [Names -> Values], Store(next),
         NEW s \in Names, NEW v \in Values, NEW age \in 0..TTL, Fresh(s, v, age)
  PROVE  FreshNext(s, v, age)
<1>1. stored' = next /\ ceased'[s][v] = IF v = next[s] THEN TTL
                                        ELSE IF v = stored[s] THEN 0 ELSE ceased[s][v]
  BY DEF Store
<1>. QED
  BY <1>1, SettingsAssumption DEF Fresh, FreshNext

LEMMA TickKeepsFresh ==
  ASSUME SettingsTypeOK, Tick,
         NEW s \in Names, NEW v \in Values, NEW age \in 0..TTL, Fresh(s, v, age)
  PROVE  FreshNext(s, v, Older(age))
<1>1. stored' = stored /\ ceased'[s][v] = Older(ceased[s][v])
  BY DEF Tick
<1>2. ceased[s][v] \in 0..TTL
  BY DEF SettingsTypeOK
<1>. QED
  BY <1>1, <1>2, AgeTypes DEF Fresh, FreshNext

-----------------------------------------------------------------------------
(* Requests *)

LEMMA InitInv == SettingsInit => SettingsInv
<1>. SUFFICES ASSUME SettingsInit PROVE SettingsInv
  OBVIOUS
<1>1. CallInv
  BY DEF SettingsInit, CallInv, NameOK, GotFresh, Unused
<1>2. CopyInv
  BY EmptyTypes, SettingsAssumption DEF SettingsInit, CopyInv, Cached
<1>3. RatesAreKept
  BY DEF SettingsInit, RatesAreKept
<1>. QED
  BY <1>1, <1>2, <1>3, InitTypes DEF SettingsInv

\* The request of the step is judged afresh, the others as they were.
LEMMA OneCallMoves ==
  ASSUME SettingsTypeOK, CallInv, NEW c \in Calls, NEW r \in CallTypes,
         call' = [call EXCEPT ![c] = r], NameOK(r),
         r.kind = "get" /\ r.at = "read" =>
           \A s \in Names : FreshNext(s, r.got[s], r.age),
         \A s \in Names, v \in Values, age \in 0..TTL :
           Fresh(s, v, age) => FreshNext(s, v, age)
  PROVE  CallInv'
<1>1. SUFFICES ASSUME NEW d \in Calls PROVE NameOK(call'[d]) /\ GotFresh(call[d])'
  BY DEF CallInv, NameOK
<1>2. call \in [Calls -> CallTypes]
  BY DEF SettingsTypeOK, CallTypes
<1>3. CASE d = c
  <2>1. call'[d] = r
    BY <1>2, <1>3
  <2>. QED
    BY <2>1 DEF GotFresh, Fresh, FreshNext
<1>4. CASE d # c
  <2>1. call'[d] = call[d] /\ call[d] \in CallTypes
    BY <1>2, <1>4
  <2>2. NameOK(call[d]) /\ GotFresh(call[d])
    BY DEF CallInv
  <2>3. call[d].age \in 0..TTL /\ \A s \in Names : call[d].got[s] \in Values
    BY <2>1 DEF CallTypes
  <2>4. call[d].kind = "get" /\ call[d].at = "read" =>
          \A s \in Names : FreshNext(s, call[d].got[s], call[d].age)
    BY <2>2, <2>3 DEF GotFresh
  <2>. QED
    BY <2>1, <2>2, <2>4 DEF GotFresh, Fresh, FreshNext
<1>. QED
  BY <1>3, <1>4

\* What is fresh stays fresh in every step that lets no time pass.
LEMMA StillFresh ==
  ASSUME SettingsTypeOK,
         UNCHANGED <<stored, ceased>>
           \/ \E next \in [Names -> Values] : Store(next)
  PROVE  \A s \in Names, v \in Values, age \in 0..TTL :
           Fresh(s, v, age) => FreshNext(s, v, age)
<1>1. CASE UNCHANGED <<stored, ceased>>
  BY <1>1 DEF Fresh, FreshNext
<1>2. CASE \E next \in [Names -> Values] : Store(next)
  BY <1>2, StoreKeepsFresh
<1>. QED
  BY <1>1, <1>2

LEMMA UpsertsStore ==
  ASSUME SettingsTypeOK, NEW c \in Calls, UpsertFee(c) \/ UpsertCard(c)
  PROVE  \E next \in [Names -> Values] : Store(next)
<1>1. /\ stored \in [Names -> Values] /\ call[c].got \in [Names -> Values]
      /\ c \in Values
  BY DEF SettingsTypeOK, Values
<1>2. CASE UpsertFee(c)
  <2>1. [stored EXCEPT ![Fee] = c] \in [Names -> Values]
    BY <1>1
  <2>. QED
    BY <1>2, <2>1 DEF UpsertFee
<1>3. CASE UpsertCard(c)
  <2>1. [s \in Names |-> IF s = Fee THEN stored[Fee] ELSE NextOverrides(c)[s]]
          \in [Names -> Values]
    BY <1>1 DEF NextOverrides, Names
  <2>. QED
    BY <1>3, <2>1 DEF UpsertCard
<1>. QED
  BY <1>2, <1>3

LEMMA CallStep ==
  ASSUME SettingsTypeOK, CallInv, [SettingsNext]_settingsVars
  PROVE  CallInv'
<1>. USE SettingsAssumption
<1>a. call \in [Calls -> CallTypes] /\ stored \in [Names -> Values]
  BY DEF SettingsTypeOK, CallTypes
<1>b. \A c \in Calls : NameOK(call[c]) /\ GotFresh(call[c])
  BY DEF CallInv
<1>1. CASE Tick
  <2>1. SUFFICES ASSUME NEW c \in Calls PROVE NameOK(call'[c]) /\ GotFresh(call[c])'
    BY DEF CallInv, NameOK
  <2>2. call[c] \in CallTypes
    BY <1>a
  <2>3. CASE call[c].at = "read" /\ call[c].kind = "get"
    <3>1. call'[c] = [call[c] EXCEPT !.age = Older(@)]
      BY <1>1, <2>3 DEF Tick
    <3>2. /\ call'[c].age = Older(call[c].age) /\ call'[c].got = call[c].got
          /\ call'[c].kind = "get"
      BY <3>1, <2>2, <2>3 DEF CallTypes
    <3>3. \A s \in Names : Fresh(s, call[c].got[s], call[c].age)
      BY <1>b, <2>3 DEF GotFresh
    <3>4. call[c].age \in 0..TTL /\ \A s \in Names : call[c].got[s] \in Values
      BY <2>2 DEF CallTypes
    <3>5. \A s \in Names : FreshNext(s, call[c].got[s], Older(call[c].age))
      BY <1>1, <3>3, <3>4, TickKeepsFresh
    <3>. QED
      BY <3>2, <3>5 DEF NameOK, GotFresh, Fresh, FreshNext
  <2>4. CASE ~(call[c].at = "read" /\ call[c].kind = "get")
    <3>1. /\ call'[c].at = call[c].at /\ call'[c].kind = call[c].kind
          /\ call'[c].of = call[c].of /\ call'[c].name = call[c].name
      BY <1>1, <2>2 DEF Tick, CallTypes
    <3>. QED
      BY <3>1, <1>b, <2>4 DEF NameOK, GotFresh
  <2>. QED
    BY <2>3, <2>4
<1>2. ASSUME NEW c \in Calls, NEW w \in Workers, NEW o \in {Card, FeeOnly}, Get(c, w, o)
      PROVE  CallInv'
  <2>. DEFINE r == [Unused EXCEPT !.at = "sent", !.of = o, !.worker = w]
  <2>1. r \in CallTypes /\ NameOK(r) /\ r.at = "sent"
    BY EmptyTypes DEF CallTypes, NameOK, Unused
  <2>2. call' = [call EXCEPT ![c] = r] /\ UNCHANGED <<stored, ceased>>
    BY <1>2 DEF Get
  <2>. HIDE DEF r
  <2>. QED
    BY <2>1, <2>2, OneCallMoves, StillFresh
<1>3. ASSUME NEW c \in Calls, NEW w \in Workers, NEW s \in Names, Put(c, w, s)
      PROVE  CallInv'
  <2>. DEFINE r == [Unused EXCEPT !.at = "sent", !.kind = "put", !.worker = w,
                                  !.of = IF s = Fee THEN FeeOnly ELSE Card, !.name = s]
  <2>1. r \in CallTypes /\ r.at = "sent"
    BY EmptyTypes DEF CallTypes, Unused
  <2>2. NameOK(r)
    BY DEF NameOK, Unused, Card, FeeOnly
  <2>3. call' = [call EXCEPT ![c] = r] /\ UNCHANGED <<stored, ceased>>
    BY <1>3 DEF Put
  <2>. HIDE DEF r
  <2>. QED
    BY <2>1, <2>2, <2>3, OneCallMoves, StillFresh
<1>4. ASSUME NEW c \in Calls, FindUnique(c) PROVE CallInv'
  <2>. DEFINE r == [call[c] EXCEPT !.at = "read", !.got = stored]
  <2>1. call[c] \in CallTypes
    BY <1>a
  <2>2. r \in CallTypes
    BY <2>1, <1>a DEF CallTypes
  <2>3. /\ r.at = "read" /\ r.got = stored /\ r.kind = call[c].kind
        /\ r.of = call[c].of /\ r.name = call[c].name
    BY <2>1 DEF CallTypes
  <2>4. NameOK(r)
    BY <2>3, <1>4, <1>b DEF NameOK, FindUnique
  <2>5. call' = [call EXCEPT ![c] = r] /\ UNCHANGED <<stored, ceased>>
    BY <1>4, <1>a DEF FindUnique
  <2>6. \A s \in Names : FreshNext(s, r.got[s], r.age)
    BY <2>3, <2>5 DEF FreshNext
  <2>. HIDE DEF r
  <2>. QED
    BY <2>2, <2>4, <2>5, <2>6, OneCallMoves, StillFresh
<1>c. /\ [Unused EXCEPT !.at = "done"] \in CallTypes /\ NameOK([Unused EXCEPT !.at = "done"])
      /\ [Unused EXCEPT !.at = "done"].at = "done"
  BY EmptyTypes DEF CallTypes, NameOK, Unused
<1>5. ASSUME NEW c \in Calls, GetDone(c) \/ PutFeeDone(c) PROVE CallInv'
  <2>1. call' = [call EXCEPT ![c] = [Unused EXCEPT !.at = "done"]]
        /\ UNCHANGED <<stored, ceased>>
    BY <1>5 DEF GetDone, PutFeeDone
  <2>. QED
    BY <2>1, <1>c, OneCallMoves, StillFresh
<1>6. ASSUME NEW c \in Calls, UpsertFee(c) \/ UpsertCard(c) PROVE CallInv'
  <2>. DEFINE r == [call[c] EXCEPT !.at = "stored"]
  <2>1. call[c] \in CallTypes
    BY <1>a
  <2>2. r \in CallTypes /\ r.at = "stored"
    BY <2>1 DEF CallTypes
  <2>3. r.kind = call[c].kind /\ r.of = call[c].of /\ r.name = call[c].name
    BY <2>1 DEF CallTypes
  <2>4. NameOK(r)
    BY <2>2, <2>3, <1>6, <1>b DEF NameOK, UpsertFee, UpsertCard
  <2>5. call' = [call EXCEPT ![c] = r]
    BY <1>6, <1>a DEF UpsertFee, UpsertCard
  <2>. HIDE DEF r
  <2>. QED
    BY <1>6, <2>2, <2>4, <2>5, OneCallMoves, StillFresh, UpsertsStore
<1>7. ASSUME NEW c \in Calls, PutCardDone(c) PROVE CallInv'
  <2>. DEFINE r == [Unused EXCEPT !.at = "sent", !.of = Card, !.worker = call[c].worker]
  <2>1. call[c].worker \in Workers \cup {"nobody"}
    BY <1>a DEF CallTypes
  <2>2. r \in CallTypes /\ NameOK(r) /\ r.at = "sent"
    BY <2>1, EmptyTypes DEF CallTypes, NameOK, Unused
  <2>3. call' = [call EXCEPT ![c] = r] /\ UNCHANGED <<stored, ceased>>
    BY <1>7 DEF PutCardDone
  <2>. HIDE DEF r
  <2>. QED
    BY <2>2, <2>3, OneCallMoves, StillFresh
<1>8. ASSUME NEW w \in Workers, Restart(w) PROVE CallInv'
  <2>1. SUFFICES ASSUME NEW c \in Calls PROVE NameOK(call'[c]) /\ GotFresh(call[c])'
    BY DEF CallInv, NameOK
  <2>2. call'[c] = [Unused EXCEPT !.at = "done"] \/ call'[c] = call[c]
    BY <1>8 DEF Restart
  <2>3. UNCHANGED <<stored, ceased>>
    BY <1>8 DEF Restart
  <2>. QED
    BY <2>2, <2>3, <1>b, <1>c DEF GotFresh, Fresh
<1>9. CASE UNCHANGED settingsVars
  BY <1>9, <1>b DEF settingsVars, CallInv, NameOK, GotFresh, Fresh
<1>. QED
  BY <1>1, <1>2, <1>3, <1>4, <1>5, <1>6, <1>7, <1>8, <1>9 DEF SettingsNext

-----------------------------------------------------------------------------
(* Copies *)

LEMMA CopyFields ==
  ASSUME SettingsTypeOK, NEW w \in Workers, NEW o \in {Card, FeeOnly}
  PROVE  /\ copy[w][o].age \in 0..TTL /\ copy[w][o].rates \in [Names -> Values]
         /\ \A s \in NamesOf(o) : s \in Names
<1>1. copy[w][o] \in [age: 0..TTL, rates: [Names -> Values]]
  BY DEF SettingsTypeOK
<1>2. \A s \in NamesOf(o) : s \in Names
  BY DEF NamesOf, Names
<1>. QED
  BY <1>1, <1>2

\* The copy a step fills is judged afresh, the others as they were.
LEMMA OneCopyMoves ==
  ASSUME SettingsTypeOK, CopyInv, NEW w, NEW o \in {Card, FeeOnly},
         NEW new \in [age: 0..TTL, rates: [Names -> Values]],
         copy' = [copy EXCEPT ![w][o] = new],
         late => late',
         new.age < TTL =>
           \A s \in NamesOf(o) :
             FreshNext(s, new.rates[s], new.age) \/ (late' /\ o = FeeOnly),
         \A s \in Names, v \in Values, age \in 0..TTL :
           Fresh(s, v, age) => FreshNext(s, v, age)
  PROVE  CopyInv'
<1>1. SUFFICES ASSUME NEW x \in Workers, NEW p \in {Card, FeeOnly}, copy'[x][p].age < TTL,
                      NEW s \in NamesOf(p)
               PROVE  FreshNext(s, copy'[x][p].rates[s], copy'[x][p].age)
                        \/ (late' /\ p = FeeOnly)
  BY DEF CopyInv, Cached, Fresh, FreshNext, NamesOf
<1>2. copy \in CopyTypes
  BY DEF SettingsTypeOK, CopyTypes
<1>3. CASE x = w /\ p = o
  <2>1. copy'[x][p] = new
    BY <1>2, <1>3 DEF CopyTypes
  <2>. QED
    BY <1>1, <1>3, <2>1
<1>4. CASE ~(x = w /\ p = o)
  <2>1. copy'[x][p] = copy[x][p]
    BY <1>2, <1>4 DEF CopyTypes
  <2>2. /\ copy[x][p].age \in 0..TTL /\ copy[x][p].rates \in [Names -> Values]
        /\ s \in Names
    BY <1>2 DEF CopyTypes, NamesOf, Names
  <2>3. Fresh(s, copy[x][p].rates[s], copy[x][p].age) \/ (late /\ p = FeeOnly)
    BY <1>1, <2>1 DEF CopyInv, Cached
  <2>. QED
    BY <2>1, <2>2, <2>3
<1>. QED
  BY <1>3, <1>4

\* Copies a step leaves alone stay as fresh as they were.
LEMMA CopiesStay ==
  ASSUME SettingsTypeOK, CopyInv, UNCHANGED copy, UNCHANGED late,
         \A s \in Names, v \in Values, age \in 0..TTL :
           Fresh(s, v, age) => FreshNext(s, v, age)
  PROVE  CopyInv'
<1>1. SUFFICES ASSUME NEW x \in Workers, NEW p \in {Card, FeeOnly}, copy[x][p].age < TTL,
                      NEW s \in NamesOf(p)
               PROVE  FreshNext(s, copy[x][p].rates[s], copy[x][p].age)
                        \/ (late /\ p = FeeOnly)
  BY DEF CopyInv, Cached, Fresh, FreshNext, NamesOf
<1>2. /\ copy[x][p].age \in 0..TTL /\ copy[x][p].rates \in [Names -> Values]
      /\ s \in Names
  BY DEF SettingsTypeOK, NamesOf, Names
<1>3. Fresh(s, copy[x][p].rates[s], copy[x][p].age) \/ (late /\ p = FeeOnly)
  BY <1>1 DEF CopyInv, Cached
<1>. QED
  BY <1>2, <1>3

LEMMA CopyStep ==
  ASSUME SettingsTypeOK, CallInv, CopyInv, [SettingsNext]_settingsVars
  PROVE  CopyInv'
<1>. USE SettingsAssumption
<1>a. copy \in CopyTypes /\ call \in [Calls -> CallTypes] /\ late \in BOOLEAN
  BY DEF SettingsTypeOK, CopyTypes, CallTypes
<1>1. CASE Tick
  <2>1. SUFFICES ASSUME NEW w \in Workers, NEW o \in {Card, FeeOnly},
                        copy'[w][o].age < TTL, NEW s \in NamesOf(o)
                 PROVE  FreshNext(s, copy'[w][o].rates[s], copy'[w][o].age)
                          \/ (late' /\ o = FeeOnly)
    BY DEF CopyInv, Cached, Fresh, FreshNext, NamesOf
  <2>2. copy'[w][o] = CopyOf(Older(copy[w][o].age), copy[w][o].rates)
    BY <1>1 DEF Tick
  <2>3. copy[w][o].age \in 0..TTL /\ copy[w][o].rates \in [Names -> Values] /\ s \in Names
    BY CopyFields
  <2>4. /\ copy'[w][o].age = Older(copy[w][o].age) /\ copy'[w][o].rates = copy[w][o].rates
        /\ copy[w][o].age < TTL
    BY <2>1, <2>2, <2>3, AgeTypes, CopyOfTypes
  <2>5. Fresh(s, copy[w][o].rates[s], copy[w][o].age) \/ (late /\ o = FeeOnly)
    BY <2>4 DEF CopyInv, Cached
  <2>6. late' = late
    BY <1>1 DEF Tick
  <2>. QED
    BY <1>1, <2>3, <2>4, <2>5, <2>6, TickKeepsFresh
<1>2. ASSUME NEW c \in Calls, FindUnique(c) \/ UpsertFee(c) \/ UpsertCard(c)
      PROVE  CopyInv'
  <2>1. UNCHANGED copy /\ UNCHANGED late
    BY <1>2 DEF FindUnique, UpsertFee, UpsertCard
  <2>2. UNCHANGED <<stored, ceased>> \/ \E next \in [Names -> Values] : Store(next)
    BY <1>2, UpsertsStore DEF FindUnique
  <2>. QED
    BY <2>1, <2>2, StillFresh, CopiesStay
<1>3. ASSUME NEW c \in Calls, NEW w \in Workers,
             (\E o \in {Card, FeeOnly} : Get(c, w, o)) \/ (\E s \in Names : Put(c, w, s))
      PROVE  CopyInv'
  <2>1. UNCHANGED copy /\ UNCHANGED late /\ UNCHANGED <<stored, ceased>>
    BY <1>3 DEF Get, Put
  <2>. QED
    BY <2>1, StillFresh, CopiesStay
<1>4. ASSUME NEW c \in Calls, GetDone(c) PROVE CopyInv'
  <2>. DEFINE w == call[c].worker
              o == call[c].of
              new == CopyOf(call[c].age, call[c].got)
  <2>1. /\ o \in {Card, FeeOnly} /\ call[c].age \in 0..TTL
        /\ call[c].got \in [Names -> Values]
    BY <1>a DEF CallTypes
  <2>2. /\ new \in [age: 0..TTL, rates: [Names -> Values]]
        /\ new.age < TTL => new.age = call[c].age /\ new.rates = call[c].got
    BY <2>1, CopyOfTypes
  <2>3. copy' = [copy EXCEPT ![w][o] = new] /\ UNCHANGED <<stored, ceased, late>>
    BY <1>4 DEF GetDone, CachedAge
  <2>4. \A s \in Names : Fresh(s, call[c].got[s], call[c].age)
    BY <1>4 DEF GetDone, CallInv, GotFresh
  <2>5. \A s \in Names : FreshNext(s, call[c].got[s], call[c].age)
    BY <2>3, <2>4 DEF Fresh, FreshNext
  <2>6. \A s \in NamesOf(o) : s \in Names
    BY DEF NamesOf, Names
  <2>. HIDE DEF w, o, new
  <2>7. new.age < TTL => \A s \in NamesOf(o) : FreshNext(s, new.rates[s], new.age)
    BY <2>2, <2>5, <2>6
  <2>8. late => late'
    BY <2>3
  <2>9. \A s \in Names, v \in Values, age \in 0..TTL :
          Fresh(s, v, age) => FreshNext(s, v, age)
    BY <2>3, StillFresh
  <2>. QED
    BY <2>1, <2>2, <2>3, <2>7, <2>8, <2>9, OneCopyMoves
<1>5. ASSUME NEW c \in Calls, PutFeeDone(c) PROVE CopyInv'
  <2>. DEFINE w == call[c].worker
              new == CopyOf(0, [copy[w][FeeOnly].rates EXCEPT ![Fee] = c])
  <2>1. CASE w \in Workers
    <3>1. copy[w][FeeOnly].rates \in [Names -> Values] /\ c \in Values /\ Fee \in Names
      BY <2>1, CopyFields DEF Values, Names
    <3>2. [copy[w][FeeOnly].rates EXCEPT ![Fee] = c] \in [Names -> Values]
      BY <3>1
    <3>3. /\ new \in [age: 0..TTL, rates: [Names -> Values]]
          /\ new.age < TTL => new.rates = [copy[w][FeeOnly].rates EXCEPT ![Fee] = c]
      BY <3>2, CopyOfTypes
    <3>4. new.age < TTL => new.rates[Fee] = c
      BY <3>1, <3>3
    <3>5. /\ copy' = [copy EXCEPT ![w][FeeOnly] = new] /\ UNCHANGED <<stored, ceased>>
          /\ late' = (late \/ stored[Fee] # c)
      BY <1>5, <2>1, <1>a DEF PutFeeDone, CopyTypes
    <3>. HIDE DEF w, new
    <3>6. new.age < TTL =>
            \A s \in NamesOf(FeeOnly) :
              FreshNext(s, new.rates[s], new.age) \/ (late' /\ FeeOnly = FeeOnly)
      BY <3>4, <3>5 DEF NamesOf, FreshNext, Card, FeeOnly
    <3>7. late => late'
      BY <3>5
    <3>8. \A s \in Names, v \in Values, age \in 0..TTL :
            Fresh(s, v, age) => FreshNext(s, v, age)
      BY <3>5, StillFresh
    <3>. QED
      BY <3>3, <3>5, <3>6, <3>7, <3>8, OneCopyMoves
  <2>2. CASE w \notin Workers
    <3>1. copy' = copy /\ UNCHANGED <<stored, ceased>> /\ (late => late')
      BY <1>5, <2>2, <1>a DEF PutFeeDone, CopyTypes
    <3>. QED
      BY <3>1 DEF CopyInv, Cached, Fresh
  <2>. QED
    BY <2>1, <2>2
<1>6. ASSUME NEW c \in Calls, PutCardDone(c) PROVE CopyInv'
  <2>1. copy' = [copy EXCEPT ![call[c].worker][Card] = Empty]
        /\ UNCHANGED <<stored, ceased, late>>
    BY <1>6 DEF PutCardDone
  <2>2. late => late'
    BY <2>1
  <2>3. ~(Empty.age < TTL)
    BY EmptyTypes
  <2>4. \A s \in Names, v \in Values, age \in 0..TTL :
          Fresh(s, v, age) => FreshNext(s, v, age)
    BY <2>1, StillFresh
  <2>. QED
    BY <2>1, <2>2, <2>3, <2>4, EmptyTypes, OneCopyMoves
<1>7. ASSUME NEW w \in Workers, Restart(w) PROVE CopyInv'
  <2>1. SUFFICES ASSUME NEW x \in Workers, NEW o \in {Card, FeeOnly}, copy'[x][o].age < TTL
                 PROVE  copy'[x][o] = copy[x][o]
    BY <1>7 DEF Restart, CopyInv, Cached, Fresh
  <2>. QED
    BY <1>7, <1>a, <2>1, EmptyTypes DEF Restart, CopyTypes
<1>8. CASE UNCHANGED settingsVars
  BY <1>8 DEF settingsVars, CopyInv, Cached, Fresh
<1>. QED
  BY <1>1, <1>2, <1>3, <1>4, <1>5, <1>6, <1>7, <1>8 DEF SettingsNext

-----------------------------------------------------------------------------
(* The rate card *)

LEMMA RatesStep ==
  ASSUME SettingsTypeOK, CallInv, RatesAreKept, [SettingsNext]_settingsVars
  PROVE  RatesAreKept'
<1>. USE SettingsAssumption
<1>a. /\ stored \in [Names -> Values] /\ saved \in [Names -> Values]
      /\ clobbered \in BOOLEAN
  BY DEF SettingsTypeOK
<1>1. ASSUME NEW c \in Calls, UpsertFee(c) PROVE RatesAreKept'
  <2>1. /\ stored' = [stored EXCEPT ![Fee] = c] /\ saved' = [saved EXCEPT ![Fee] = c]
        /\ clobbered' = clobbered
    BY <1>1 DEF UpsertFee, Store
  <2>. QED
    BY <1>a, <2>1 DEF RatesAreKept
<1>2. ASSUME NEW c \in Calls, UpsertCard(c) PROVE RatesAreKept'
  <2>1. SUFFICES ASSUME NEW s \in Names
                 PROVE  stored'[s] = saved'[s] \/ (clobbered' /\ s \in Formats)
    BY DEF RatesAreKept
  <2>2. call[c].name \in Formats
    BY <1>2 DEF UpsertCard, CallInv, NameOK, Names
  <2>3. /\ stored' = [x \in Names |-> IF x = Fee THEN stored[Fee] ELSE NextOverrides(c)[x]]
        /\ saved' = [saved EXCEPT ![call[c].name] = c]
        /\ clobbered' = (clobbered \/ \E x \in Formats : call[c].got[x] # stored[x])
    BY <1>2 DEF UpsertCard, Store
  <2>4. CASE s = Fee
    BY <1>a, <2>2, <2>3, <2>4 DEF RatesAreKept
  <2>5. CASE s = call[c].name
    BY <1>a, <2>2, <2>3, <2>5 DEF NextOverrides
  <2>6. CASE s # Fee /\ s # call[c].name
    <3>1. s \in Formats /\ stored'[s] = call[c].got[s] /\ saved'[s] = saved[s]
      BY <1>a, <2>3, <2>6 DEF NextOverrides, Names
    <3>. QED
      BY <2>3, <3>1 DEF RatesAreKept
  <2>. QED
    BY <2>4, <2>5, <2>6
<1>3. CASE UNCHANGED <<stored, saved, clobbered>>
  BY <1>3 DEF RatesAreKept
<1>4. ASSUME SettingsNext, \A c \in Calls : ~UpsertFee(c) /\ ~UpsertCard(c)
      PROVE  UNCHANGED <<stored, saved, clobbered>>
  BY <1>4 DEF SettingsNext, Tick, Get, FindUnique, GetDone, Put, PutFeeDone, PutCardDone, Restart
<1>. QED
  BY <1>1, <1>2, <1>3, <1>4 DEF settingsVars

-----------------------------------------------------------------------------
(* Theorems *)

LEMMA SettingsInvariant == SettingsSpec => []SettingsInv
<1>1. SettingsInit => SettingsInv
  BY InitInv
<1>2. SettingsInv /\ [SettingsNext]_settingsVars => SettingsInv'
  BY NextTypes, CallStep, CopyStep, RatesStep DEF SettingsInv
<1>. QED
  BY <1>1, <1>2, PTL DEF SettingsSpec

LEMMA CopiesAreYoung == SettingsInv => StaleForLessThanTtl
<1>. SUFFICES ASSUME SettingsInv, NEW w \in Workers, NEW o \in {Card, FeeOnly}, Cached(w, o),
                     NEW s \in NamesOf(o)
              PROVE  LET v == copy[w][o].rates[s] IN
                     v = stored[s] \/ ceased[s][v] < TTL \/ (late /\ o = FeeOnly)
  BY DEF StaleForLessThanTtl
<1>1. /\ copy[w][o].age \in 0..TTL /\ copy[w][o].rates[s] \in Values /\ s \in Names
  BY DEF SettingsInv, SettingsTypeOK, NamesOf, Names
<1>2. ceased[s][copy[w][o].rates[s]] \in 0..TTL
  BY <1>1 DEF SettingsInv, SettingsTypeOK
<1>. QED
  BY <1>1, <1>2, SettingsAssumption DEF SettingsInv, CopyInv, Cached, Fresh

\* The settings row, the copies and the requests have their types.
THEOREM SettingsTypeCorrect == SettingsSpec => []SettingsTypeOK
<1>1. SettingsInv => SettingsTypeOK
  BY DEF SettingsInv
<1>. QED
  BY <1>1, SettingsInvariant, PTL

\* updateAdFormatPricing: however many saves of however many formats and
\* workers interleave, the last rate saved stays stored unless two saves of
\* the card overlapped, and a plain setting always keeps the last value put.
THEOREM RatesKept == SettingsSpec => []RatesAreKept
<1>1. SettingsInv => RatesAreKept
  BY DEF SettingsInv
<1>. QED
  BY <1>1, SettingsInvariant, PTL

\* The getters: no worker uses a value that stopped being stored CACHE_TTL_MS
\* ago or more, however slow its query was, but for an update whose own answer
\* came after a later update of the same setting.
THEOREM StaleBounded == SettingsSpec => []StaleForLessThanTtl
<1>1. SettingsInv => StaleForLessThanTtl
  BY CopiesAreYoung
<1>. QED
  BY <1>1, SettingsInvariant, PTL

-----------------------------------------------------------------------------
(* The publisher tag: each session's ads once.                             *)

\* An exit intent waits for its key only while nobody has seen its ad.
ExitArmed(s) == status[s] = "armed" /\ family[ZoneOf[s]] = "exit_intent"

ShowBound(z) ==
  IF family[z] = "exit_intent" THEN Cardinality({s \in Sections : ZoneOf[s] = z}) ELSE 1

SeenInv ==
  storage =>
    /\ \A k \in Keys : k \notin seen => shown[k] = 0
    /\ \A s \in Sections : ExitArmed(s) => Key(ZoneOf[s]) \notin seen
    /\ \A z \in Zones : shown[Key(z)] <= ShowBound(z)

TagInv == TagTypeOK /\ SeenInv

LEMMA ZonesOfSections == \A s \in Sections : ZoneOf[s] \in Zones /\ Key(ZoneOf[s]) \in Keys
BY DEF Zones, Keys

\* Zones that share a key are of one family, and an exit intent shares none.
LEMMA SharedKey ==
  ASSUME NEW y \in Zones, NEW z \in Zones, Key(y) = Key(z)
  PROVE  /\ family[y] \in Windows <=> family[z] \in Windows
         /\ family[y] \notin Windows => family[y] = family[z]
         /\ family[y] = "exit_intent" => y = z
<1>. DEFINE Head(x) == IF family[x] \in Windows THEN "popup" ELSE family[x]
<1>1. \A x \in Zones : Key(x)[1] = Head(x)
  BY DEF Key, Windows
<1>2. Head(y) = Head(z)
  BY <1>1
<1>3. \A x \in Zones : family[x] = "exit_intent" => Key(x)[2] = x
  BY DEF Key, Windows
<1>. QED
  BY <1>2, <1>3 DEF Windows

\* How often a step shows the ads of a key.
Times(sections, k) == Cardinality({s \in sections : Key(ZoneOf[s]) = k})

LEMMA TimesBounds ==
  ASSUME NEW sections \in SUBSET Sections, NEW k
  PROVE  /\ Times(sections, k) \in Nat
         /\ (\A s \in sections : Key(ZoneOf[s]) # k) => Times(sections, k) = 0
<1>. DEFINE S == {s \in sections : Key(ZoneOf[s]) = k}
<1>1. IsFiniteSet(S)
  BY FS_Subset, TagAssumption
<1>2. Cardinality(S) \in Nat
  BY <1>1, FS_CardinalityType
<1>3. (\A s \in sections : Key(ZoneOf[s]) # k) => S = {}
  OBVIOUS
<1>. QED
  BY <1>2, <1>3, FS_EmptySet DEF Times

\* Sections of different keys show each key once at most.
LEMMA TimesOfDistinct ==
  ASSUME NEW sections \in SUBSET Sections, NEW k,
         \A s, o \in sections : Key(ZoneOf[s]) = Key(ZoneOf[o]) => s = o
  PROVE  Times(sections, k) <= 1
<1>. DEFINE S == {s \in sections : Key(ZoneOf[s]) = k}
<1>1. CASE S = {}
  BY <1>1, FS_EmptySet DEF Times
<1>2. CASE S # {}
  <2>1. PICK s \in S : TRUE
    BY <1>2
  <2>2. S = {s}
    BY <2>1
  <2>3. Times(sections, k) = Cardinality({s})
    BY <2>2 DEF Times
  <2>4. Cardinality({s}) = 1
    BY FS_Singleton
  <2>. QED
    BY <2>3, <2>4
<1>. QED
  BY <1>1, <1>2

\* Each key of a set of sections that has as many keys as members is of one.
LEMMA OnePerKey ==
  ASSUME NEW first \in SUBSET Sections, Cardinality(first) = Cardinality(KeysOf(first))
  PROVE  \A s, o \in first : Key(ZoneOf[s]) = Key(ZoneOf[o]) => s = o
<1>. DEFINE h == [s \in first |-> Key(ZoneOf[s])]
<1>1. h \in Surjection(first, KeysOf(first))
  BY DEF Surjection, KeysOf
<1>2. IsFiniteSet(first)
  BY FS_Subset, TagAssumption
<1>3. h \in Injection(first, KeysOf(first))
  BY <1>1, <1>2, FS_Surjection
<1>. QED
  BY <1>3 DEF Injection, IsInjective

LEMMA ShowTypes ==
  ASSUME TagTypeOK, NEW sections \in SUBSET Sections, Show(sections), UNCHANGED family
  PROVE  /\ shown' \in [Keys -> Nat]
         /\ \A k \in Keys : shown'[k] = shown[k] + Times(sections, k)
<1>1. \A k \in Keys : shown[k] \in Nat /\ Times(sections, k) \in Nat
  BY TimesBounds DEF TagTypeOK
<1>2. shown' = [k \in Keys |-> shown[k] + Times(sections, k)]
  BY DEF Show, Times
<1>. QED
  BY <1>1, <1>2

-----------------------------------------------------------------------------
LEMMA TagInitInv == TagInit => TagInv
<1>. SUFFICES ASSUME TagInit PROVE TagInv
  OBVIOUS
<1>1. TagTypeOK
  <2>1. family \in [Zones -> Families]
    <3>1. {"inline", "floating", "popup", "exit_intent", "welcome_screen", "interstitial",
           "page_transition", "newsletter"} \subseteq Families
      BY DEF Families, Inline, Windows, AtOnce
    <3>. QED
      BY <3>1 DEF TagInit
  <2>2. shown \in [Keys -> Nat] /\ loads \in 0..MaxLoads
    BY TagAssumption DEF TagInit
  <2>. QED
    BY <2>1, <2>2 DEF TagInit, TagTypeOK
<1>2. \A k \in Keys : shown[k] = 0
  BY DEF TagInit
<1>3. \A s \in Sections : ~ExitArmed(s)
  BY DEF TagInit, ExitArmed
<1>4. \A z \in Zones : 0 <= ShowBound(z)
  <2>1. \A z \in Zones : IsFiniteSet({s \in Sections : ZoneOf[s] = z})
    BY FS_Subset, TagAssumption
  <2>. QED
    BY <2>1, FS_CardinalityType DEF ShowBound
<1>. QED
  BY <1>1, <1>2, <1>3, <1>4 DEF TagInv, SeenInv, Keys

\* A step that shows nothing, marks no key of an exit intent, and arms only
\* what was not seen.
LEMMA NothingShown ==
  ASSUME SeenInv, UNCHANGED <<family, storage, shown>>, seen \subseteq seen',
         storage => \A s \in Sections : ExitArmed(s)' => Key(ZoneOf[s]) \notin seen'
  PROVE  SeenInv'
<1>1. \A z : Key(z)' = Key(z) /\ ShowBound(z)' = ShowBound(z)
  BY DEF Key, ShowBound
<1>2. Keys' = Keys
  BY <1>1 DEF Keys
<1>. QED
  BY <1>1, <1>2 DEF SeenInv

\* A step that shows sections whose ads nobody has seen, and marks them.
LEMMA UnseenShown ==
  ASSUME TagTypeOK, SeenInv, UNCHANGED <<family, storage>>,
         NEW sections \in SUBSET Sections, Show(sections), seen \subseteq seen',
         storage => KeysOf(sections) \subseteq seen',
         storage => \A s \in sections : Key(ZoneOf[s]) \notin seen,
         storage => \A s \in sections : Times(sections, Key(ZoneOf[s])) <= ShowBound(ZoneOf[s]),
         storage => \A s \in Sections : ExitArmed(s)' => Key(ZoneOf[s]) \notin seen'
  PROVE  SeenInv'
<1>1. \A z : Key(z)' = Key(z) /\ ShowBound(z)' = ShowBound(z)
  BY DEF Key, ShowBound
<1>2. Keys' = Keys
  BY <1>1 DEF Keys
<1>. SUFFICES ASSUME storage
              PROVE  /\ \A k \in Keys : k \notin seen' => shown'[k] = 0
                     /\ \A z \in Zones : shown'[Key(z)] <= ShowBound(z)
  BY <1>1, <1>2 DEF SeenInv
<1>3. ASSUME NEW k \in Keys, k \notin seen' PROVE shown'[k] = 0
  <2>1. \A s \in sections : Key(ZoneOf[s]) # k
    BY <1>3 DEF KeysOf
  <2>. QED
    BY <1>3, <2>1, TimesBounds, ShowTypes DEF SeenInv
<1>4. ASSUME NEW z \in Zones PROVE shown'[Key(z)] <= ShowBound(z)
  <2>1. Key(z) \in Keys /\ shown[Key(z)] \in Nat /\ shown[Key(z)] <= ShowBound(z)
    BY DEF Keys, TagTypeOK, SeenInv
  <2>2. CASE \A s \in sections : Key(ZoneOf[s]) # Key(z)
    BY <2>1, <2>2, TimesBounds, ShowTypes
  <2>3. ASSUME NEW s \in sections, Key(ZoneOf[s]) = Key(z)
        PROVE  shown'[Key(z)] <= ShowBound(z)
    <3>1. ZoneOf[s] \in Zones
      BY DEF Zones
    <3>2. ShowBound(ZoneOf[s]) = ShowBound(z)
      BY <2>3, <3>1, SharedKey DEF ShowBound, Windows
    <3>3. shown[Key(z)] = 0
      BY <2>1, <2>3 DEF SeenInv
    <3>4. Times(sections, Key(z)) <= ShowBound(z) /\ Times(sections, Key(z)) \in Nat
      BY <2>3, <3>2, TimesBounds
    <3>. QED
      BY <2>1, <3>3, <3>4, ShowTypes
  <2>. QED
    BY <2>2, <2>3
<1>. QED
  BY <1>3, <1>4

-----------------------------------------------------------------------------
(* Its steps.                                                              *)

LEMMA SameKeys == UNCHANGED family => Keys' = Keys /\ \A z : Key(z)' = Key(z)
<1>1. UNCHANGED family => \A z : Key(z)' = Key(z)
  BY DEF Key
<1>. QED
  BY <1>1 DEF Keys

\* What markSeen leaves.
LEMMA Marked ==
  ASSUME TagTypeOK, NEW keys \in SUBSET Keys, markSeen(keys)
  PROVE  seen \subseteq seen' /\ seen' \subseteq seen \cup keys /\ seen' \subseteq Keys
         /\ (storage => keys \subseteq seen')
BY DEF markSeen, TagTypeOK

LEMMA LoadStep == ASSUME TagInv, Load PROVE TagInv'
<1>1. TagTypeOK'
  <2>1. loads' \in 0..MaxLoads
    BY TagAssumption DEF TagInv, TagTypeOK, Load
  <2>2. status' \in [Sections -> {"loading", "empty", "failed", "unsupported", "skipped",
                                  "dismissed", "armed", "rendered"}]
    BY DEF Load
  <2>. QED
    BY <2>1, <2>2, SameKeys DEF TagInv, TagTypeOK, Load
<1>2. \A s \in Sections : ~ExitArmed(s)'
  BY DEF Load, ExitArmed
<1>. QED
  BY <1>1, <1>2, NothingShown DEF TagInv, Load

LEMMA NoAdStep == ASSUME TagInv, NEW s \in Sections, NoAd(s) PROVE TagInv'
<1>1. PICK outcome \in {"empty", "failed"} : status' = [status EXCEPT ![s] = outcome]
  BY DEF NoAd
<1>2. TagTypeOK'
  BY <1>1, SameKeys DEF TagInv, TagTypeOK, NoAd
<1>3. \A o \in Sections : ExitArmed(o)' => ExitArmed(o)
  BY <1>1 DEF TagInv, TagTypeOK, NoAd, ExitArmed
<1>4. storage => \A o \in Sections : ExitArmed(o)' => Key(ZoneOf[o]) \notin seen'
  BY <1>3 DEF TagInv, SeenInv, NoAd
<1>. QED
  BY <1>2, <1>4, NothingShown DEF TagInv, NoAd

LEMMA DismissStep == ASSUME TagInv, NEW s \in Sections, Dismiss(s) PROVE TagInv'
<1>. DEFINE k == Key(ZoneOf[s])
<1>1. ZoneOf[s] \in Zones /\ {k} \subseteq Keys
  BY DEF Zones, Keys
<1>2. seen \subseteq seen' /\ seen' \subseteq seen \cup {k} /\ seen' \subseteq Keys
  BY <1>1, Marked DEF Dismiss, TagInv
<1>3. TagTypeOK'
  BY <1>2, SameKeys DEF TagInv, TagTypeOK, Dismiss
<1>4. ASSUME storage, NEW o \in Sections, ExitArmed(o)' PROVE Key(ZoneOf[o]) \notin seen'
  <2>1. ExitArmed(o) /\ ZoneOf[o] \in Zones
    BY <1>4 DEF Dismiss, ExitArmed, Zones
  <2>2. Key(ZoneOf[o]) # k
    BY <1>1, <2>1, SharedKey DEF Dismiss, ExitArmed
  <2>. QED
    BY <1>2, <1>4, <2>1, <2>2 DEF TagInv, SeenInv
<1>. QED
  BY <1>2, <1>3, <1>4, NothingShown DEF TagInv, Dismiss

\* One section of an unseen key, or of a key nobody counts, is shown once.
LEMMA ShownOnce ==
  ASSUME NEW s \in Sections, family[ZoneOf[s]] # "exit_intent"
  PROVE  Times({s}, Key(ZoneOf[s])) <= ShowBound(ZoneOf[s])
<1>1. Times({s}, Key(ZoneOf[s])) <= 1
  BY TimesOfDistinct
<1>. QED
  BY <1>1 DEF ShowBound

LEMMA RenderStep == ASSUME TagInv, NEW s \in Sections, Render(s) PROVE TagInv'
<1>. DEFINE z == ZoneOf[s]
            k == Key(z)
<1>1. z \in Zones /\ k \in Keys /\ {k} \subseteq Keys
  BY DEF Zones, Keys
<1>2. UNCHANGED <<family, storage, leaving, loads>>
  BY DEF Render
<1>3. PICK new \in {"rendered", "unsupported", "dismissed", "skipped", "armed"} :
        status' = [status EXCEPT ![s] = new] /\ (new = "armed" => ~hasSeen(k))
  BY Zenon DEF Render
<1>4. CASE UNCHANGED <<seen, shown>>
  <2>1. TagTypeOK'
    BY <1>2, <1>3, <1>4, SameKeys DEF TagInv, TagTypeOK
  <2>2. ASSUME storage, NEW o \in Sections, ExitArmed(o)' PROVE Key(ZoneOf[o]) \notin seen
    <3>1. CASE o = s
      BY <1>3, <2>2, <3>1 DEF hasSeen, ExitArmed, TagInv, TagTypeOK
    <3>2. CASE o # s
      BY <1>2, <1>3, <2>2, <3>2 DEF ExitArmed, TagInv, TagTypeOK, SeenInv
    <3>. QED
      BY <3>1, <3>2
  <2>. QED
    BY <1>2, <1>4, <2>1, <2>2, NothingShown DEF TagInv
<1>5. CASE family[z] \in AtOnce /\ ~hasSeen(k) /\ markSeen({k}) /\ Show({s})
           /\ status' = [status EXCEPT ![s] = "rendered"]
  <2>1. seen \subseteq seen' /\ seen' \subseteq seen \cup {k} /\ seen' \subseteq Keys
        /\ (storage => {k} \subseteq seen')
    BY <1>1, <1>5, Marked DEF TagInv
  <2>2. TagTypeOK'
    <3>1. shown' \in [Keys -> Nat]
      BY <1>2, <1>5, ShowTypes DEF TagInv
    <3>. QED
      BY <1>2, <1>5, <2>1, <3>1, SameKeys DEF TagInv, TagTypeOK
  <2>3. family[z] # "exit_intent" /\ family[z] \notin Windows
    BY <1>5 DEF AtOnce, Windows
  <2>4. ASSUME storage, NEW o \in Sections, ExitArmed(o)' PROVE Key(ZoneOf[o]) \notin seen'
    <3>1. o # s /\ ExitArmed(o) /\ ZoneOf[o] \in Zones
      BY <1>2, <1>5, <2>4 DEF ExitArmed, TagInv, TagTypeOK, Zones
    <3>2. Key(ZoneOf[o]) # k
      BY <1>1, <2>3, <3>1, SharedKey DEF ExitArmed
    <3>. QED
      BY <2>1, <2>4, <3>1, <3>2 DEF TagInv, SeenInv
  <2>5. KeysOf({s}) = {k}
    BY DEF KeysOf
  <2>6. Times({s}, k) <= ShowBound(z)
    BY <2>3, ShownOnce
  <2>7. \A o \in {s} : Key(ZoneOf[o]) \notin seen
    BY <1>5 DEF hasSeen
  <2>8. SeenInv'
    BY <1>2, <1>5, <2>1, <2>4, <2>5, <2>6, <2>7, UnseenShown DEF TagInv
  <2>. QED
    BY <2>2, <2>8 DEF TagInv
<1>. QED
  BY <1>4, <1>5, Zenon DEF Render

LEMMA LeaveWindowStep == ASSUME TagInv, LeaveWindow PROVE TagInv'
<1>. DEFINE exits == Armed({"exit_intent"})
<1>1. /\ exits \in SUBSET Sections /\ KeysOf(exits) \subseteq Keys
      /\ \A s \in exits : ExitArmed(s) /\ ZoneOf[s] \in Zones
      /\ \A s \in Sections : ExitArmed(s) => s \in exits
  BY DEF Armed, KeysOf, Keys, Zones, ExitArmed
<1>2. /\ markSeen(KeysOf(exits)) /\ Show(exits) /\ UNCHANGED <<family, storage, leaving, loads>>
      /\ status' = [s \in Sections |-> IF s \in exits THEN "rendered" ELSE status[s]]
  BY DEF LeaveWindow
<1>. HIDE DEF exits
<1>3. seen \subseteq seen' /\ seen' \subseteq Keys /\ (storage => KeysOf(exits) \subseteq seen')
  BY <1>1, <1>2, Marked DEF TagInv
<1>4. TagTypeOK'
  <2>1. shown' \in [Keys -> Nat]
    BY <1>1, <1>2, ShowTypes DEF TagInv
  <2>. QED
    BY <1>2, <1>3, <2>1, SameKeys DEF TagInv, TagTypeOK
<1>5. \A s \in Sections : ~ExitArmed(s)'
  BY <1>1, <1>2 DEF ExitArmed
<1>6. ASSUME NEW s \in exits PROVE Times(exits, Key(ZoneOf[s])) <= ShowBound(ZoneOf[s])
  <2>. DEFINE S == {o \in exits : Key(ZoneOf[o]) = Key(ZoneOf[s])}
              Z == {o \in Sections : ZoneOf[o] = ZoneOf[s]}
  <2>1. S \subseteq Z
    BY <1>1, SharedKey DEF ExitArmed
  <2>2. IsFiniteSet(Z)
    BY FS_Subset, TagAssumption
  <2>3. Cardinality(S) <= Cardinality(Z)
    BY <2>1, <2>2, FS_Subset
  <2>4. ShowBound(ZoneOf[s]) = Cardinality(Z)
    BY <1>1 DEF ShowBound, ExitArmed
  <2>. QED
    BY <2>3, <2>4 DEF Times
<1>7. storage => \A s \in exits : Key(ZoneOf[s]) \notin seen
  BY <1>1 DEF TagInv, SeenInv
<1>8. SeenInv'
  BY <1>1, <1>2, <1>3, <1>5, <1>6, <1>7, UnseenShown DEF TagInv
<1>. QED
  BY <1>4, <1>8 DEF TagInv

LEMMA ClickPageStep == ASSUME TagInv, NEW onLink \in BOOLEAN, ClickPage(onLink) PROVE TagInv'
<1>. DEFINE windows == Armed(Windows)
            transitions == IF onLink /\ ~leaving THEN Armed({"page_transition"}) ELSE {}
            unseen == {s \in windows \cup transitions : ~hasSeen(Key(ZoneOf[s]))}
<1>1. PICK first \in SUBSET unseen :
        /\ KeysOf(first) = KeysOf(unseen)
        /\ storage => Cardinality(first) = Cardinality(KeysOf(first))
        /\ Show(first)
        /\ status' = [s \in Sections |-> IF s \in first THEN "rendered" ELSE status[s]]
  BY DEF ClickPage
<1>2. /\ markSeen(KeysOf(unseen)) /\ UNCHANGED <<family, storage, loads>>
      /\ leaving' = (leaving \/ unseen \cap transitions # {})
  BY DEF ClickPage
<1>3. /\ first \in SUBSET Sections /\ unseen \subseteq Sections /\ KeysOf(unseen) \subseteq Keys
      /\ \A s \in unseen : /\ Key(ZoneOf[s]) \notin seen /\ ZoneOf[s] \in Zones
                           /\ family[ZoneOf[s]] # "exit_intent"
  BY DEF Armed, KeysOf, Keys, Zones, hasSeen, Windows
<1>4. leaving' \in BOOLEAN
  BY <1>2 DEF TagInv, TagTypeOK
<1>. HIDE DEF unseen
<1>5. seen \subseteq seen' /\ seen' \subseteq Keys /\ seen' \subseteq seen \cup KeysOf(unseen)
      /\ (storage => KeysOf(first) \subseteq seen')
  BY <1>1, <1>2, <1>3, Marked DEF TagInv
<1>6. TagTypeOK'
  <2>1. shown' \in [Keys -> Nat]
    BY <1>1, <1>2, <1>3, ShowTypes DEF TagInv
  <2>. QED
    BY <1>1, <1>2, <1>4, <1>5, <2>1, SameKeys DEF TagInv, TagTypeOK
<1>7. ASSUME storage, NEW o \in Sections, ExitArmed(o)' PROVE Key(ZoneOf[o]) \notin seen'
  <2>1. ExitArmed(o) /\ ZoneOf[o] \in Zones
    BY <1>1, <1>2, <1>7 DEF ExitArmed, Zones
  <2>2. \A s \in unseen : Key(ZoneOf[s]) # Key(ZoneOf[o])
    BY <1>3, <2>1, SharedKey DEF ExitArmed
  <2>3. Key(ZoneOf[o]) \notin KeysOf(unseen)
    BY <2>2 DEF KeysOf
  <2>. QED
    BY <1>5, <1>7, <2>1, <2>3 DEF TagInv, SeenInv
<1>8. ASSUME storage, NEW s \in first
      PROVE  Times(first, Key(ZoneOf[s])) <= ShowBound(ZoneOf[s])
  <2>1. Times(first, Key(ZoneOf[s])) <= 1
    BY <1>1, <1>3, <1>8, OnePerKey, TimesOfDistinct
  <2>. QED
    BY <1>1, <1>3, <2>1 DEF ShowBound
<1>9. storage => \A s \in first : Key(ZoneOf[s]) \notin seen
  BY <1>3
<1>10. SeenInv'
  BY <1>1, <1>2, <1>3, <1>5, <1>7, <1>8, <1>9, UnseenShown DEF TagInv
<1>. QED
  BY <1>6, <1>10 DEF TagInv

LEMMA TagInvariant == TagSpec => []TagInv
<1>1. TagInv /\ [TagNext]_tagVars => TagInv'
  <2>. SUFFICES ASSUME TagInv, [TagNext]_tagVars PROVE TagInv'
    OBVIOUS
  <2>1. CASE UNCHANGED tagVars
    BY <2>1, SameKeys, NothingShown
       DEF tagVars, TagInv, TagTypeOK, SeenInv, ExitArmed
  <2>. QED
    BY <2>1, LoadStep, NoAdStep, DismissStep, RenderStep, LeaveWindowStep, ClickPageStep
       DEF TagNext
<1>. QED
  BY <1>1, TagInitInv, PTL DEF TagSpec

\* publisher_tag.js: the sections, the session's keys and the counts have their types.
THEOREM TagTypeCorrect == TagSpec => []TagTypeOK
<1>1. TagInv => TagTypeOK
  BY DEF TagInv
<1>. QED
  BY <1>1, TagInvariant, PTL

\* Whatever zones share a page and whatever is clicked on however many pages, a
\* session whose storage works shows a popup, welcome screen, interstitial or
\* transition once, and an exit intent once per section of its zone.
THEOREM ShownOncePerSession == TagSpec => []OncePerSession
<1>1. TagInv => OncePerSession
  BY DEF TagInv, SeenInv, ShowBound, OncePerSession
<1>. QED
  BY <1>1, TagInvariant, PTL

-----------------------------------------------------------------------------
(* Zones: who changes an archived one.                                     *)

ZoneCallTypes ==
  [at: {"unused", "sent", "checked", "answered", "done"},
   kind: {"none", "status", "edit", "create"},
   tab: Tabs \cup {"nobody"}, zone: ZoneIds \cup {"none"},
   to: Statuses \cup {"none"}, waiting: BOOLEAN, reply: Rows]

\* What a request asks for.
AsksFor(q) ==
  /\ q.kind \in {"status", "edit"} => q.tab \in Tabs /\ q.zone \in ZoneIds
  /\ q.kind = "status" => q.to \in Statuses
  /\ q.at = "checked" => q.kind \in {"status", "edit"}

StatusOf(q, t, z) == q.kind = "status" /\ q.waiting /\ q.tab = t /\ q.zone = z

\* A tab waits for one change of a zone's status at a time, its buttons disabled.
OneStatus ==
  \A t \in Tabs, z \in ZoneIds, c \in ZoneCalls : StatusOf(zoneCall[c], t, z) =>
    /\ z \in busy[t]
    /\ \A d \in ZoneCalls : StatusOf(zoneCall[d], t, z) => d = c

\* d archived a zone while q, which was checked before, was on its way.
Outran(d, q) ==
  /\ d.to = "ARCHIVED" /\ d.at \in {"answered", "done"}
  /\ \/ d.tab # q.tab
     \/ ~q.waiting
     \/ d.at = "answered" /\ ~d.waiting

Stale(q, z) == q.at = "checked" /\ q.kind = "status" /\ q.zone = z

StaleIsOutrun ==
  \A z \in ZoneIds, c \in ZoneCalls :
    zone[z].status = "ARCHIVED" /\ Stale(zoneCall[c], z) =>
      \E d \in ZoneCalls : Outran(zoneCall[d], zoneCall[c])

ZoneInv ==
  /\ ZoneTypeOK
  /\ \A c \in ZoneCalls : AsksFor(zoneCall[c])
  /\ OneStatus
  /\ StaleIsOutrun

LEMMA ZoneCallsTyped == ZoneTypeOK => zoneCall \in [ZoneCalls -> ZoneCallTypes]
BY DEF ZoneTypeOK, ZoneCallTypes

LEMMA UnusedTyped ==
  /\ NoZone \in Rows /\ UnusedCall \in ZoneCallTypes
  /\ NotListing \in [at: {"none", "sent", "answered"}, rows: [ZoneIds -> Rows]]
BY DEF NoZone, Rows, UnusedCall, ZoneCallTypes, NotListing

LEMMA ZonesInitInv == ZonesInit => ZoneInv
<1>. SUFFICES ASSUME ZonesInit PROVE ZoneInv
  OBVIOUS
<1>1. zone \in [ZoneIds -> Rows] /\ \A z \in ZoneIds : zone[z].status # "ARCHIVED"
  BY UnusedTyped DEF ZonesInit, Rows, Statuses, NoZone
<1>2. listing \in [Tabs -> [at: {"none", "sent", "answered"}, rows: [ZoneIds -> Rows]]]
  BY UnusedTyped DEF ZonesInit, NotListing
<1>3. zoneCall \in [ZoneCalls -> ZoneCallTypes]
  BY UnusedTyped DEF ZonesInit
<1>4. ZoneTypeOK
  BY <1>1, <1>2, <1>3, UnusedTyped DEF ZonesInit, ZoneTypeOK, ZoneCallTypes
<1>5. \A c \in ZoneCalls : zoneCall[c].at = "unused" /\ zoneCall[c].kind = "none"
  BY DEF ZonesInit, UnusedCall
<1>. QED
  BY <1>1, <1>4, <1>5 DEF ZoneInv, AsksFor, OneStatus, StatusOf, StaleIsOutrun

\* A step that moves one request, leaving what it asks for, and archives nothing.
LEMMA RequestMoves ==
  ASSUME ZoneInv, NEW c \in ZoneCalls, NEW q \in ZoneCallTypes,
         zoneCall' = [zoneCall EXCEPT ![c] = q],
         UNCHANGED zone \/ \E z \in ZoneIds : zone[z].status = "none" /\ zone' =
            [zone EXCEPT ![z] = [status |-> "ACTIVE", writes |-> 1]],
         q.kind = zoneCall[c].kind, q.tab = zoneCall[c].tab, q.zone = zoneCall[c].zone,
         q.to = zoneCall[c].to,
         q.waiting => zoneCall[c].waiting,
         zoneCall[c].at \in {"answered", "done"} => q.at \in {"answered", "done"},
         ~zoneCall[c].waiting /\ zoneCall[c].at = "answered" => q.at = "answered",
         q.at = "checked" =>
           \/ zoneCall[c].at = "checked"
           \/ /\ q.kind \in {"status", "edit"}
              /\ zone[q.zone].status = "ARCHIVED" => q.kind # "status",
         busy' = busy \/ (q.waiting = FALSE /\ (q.kind = "status" /\ zoneCall[c].waiting) /\
                   busy' = [busy EXCEPT ![q.tab] = @ \ {q.zone}])
  PROVE  (\A d \in ZoneCalls : AsksFor(zoneCall[d]))' /\ OneStatus' /\ StaleIsOutrun'
<1>. DEFINE old == zoneCall[c]
<1>1. zoneCall \in [ZoneCalls -> ZoneCallTypes] /\ old \in ZoneCallTypes
  BY ZoneCallsTyped DEF ZoneInv
<1>2. zoneCall'[c] = q /\ \A d \in ZoneCalls : d # c => zoneCall'[d] = zoneCall[d]
  BY <1>1
<1>3. ASSUME NEW d \in ZoneCalls PROVE AsksFor(zoneCall[d])'
  <2>1. AsksFor(zoneCall[d]) /\ AsksFor(old)
    BY DEF ZoneInv
  <2>2. CASE d = c
    BY <1>2, <2>1, <2>2 DEF AsksFor
  <2>3. CASE d # c
    BY <1>2, <2>1, <2>3 DEF AsksFor
  <2>. QED
    BY <2>2, <2>3
<1>4. \A t \in Tabs, z \in ZoneIds, d \in ZoneCalls :
        StatusOf(zoneCall'[d], t, z) => StatusOf(zoneCall[d], t, z)
  BY <1>2 DEF StatusOf
<1>5. OneStatus'
  <2>. SUFFICES ASSUME NEW t \in Tabs, NEW z \in ZoneIds, NEW d \in ZoneCalls,
                       StatusOf(zoneCall'[d], t, z)
                PROVE  /\ z \in busy'[t]
                       /\ \A o \in ZoneCalls : StatusOf(zoneCall'[o], t, z) => o = d
    BY DEF OneStatus, StatusOf
  <2>1. z \in busy[t] /\ \A o \in ZoneCalls : StatusOf(zoneCall[o], t, z) => o = d
    BY <1>4 DEF ZoneInv, OneStatus
  <2>2. CASE busy' = busy
    BY <1>4, <2>1, <2>2
  <2>3. CASE /\ q.waiting = FALSE /\ q.kind = "status" /\ old.waiting
             /\ busy' = [busy EXCEPT ![q.tab] = @ \ {q.zone}]
    <3>1. d # c
      BY <1>2, <2>3 DEF StatusOf
    <3>2. ~(q.tab = t /\ q.zone = z)
      BY <2>1, <2>3, <3>1 DEF StatusOf
    <3>3. z \in busy'[t]
      BY <2>1, <2>3, <3>2 DEF ZoneInv, ZoneTypeOK
    <3>. QED
      BY <1>4, <2>1, <3>3
  <2>. QED
    BY <2>2, <2>3
<1>6. ASSUME NEW z \in ZoneIds, NEW d \in ZoneCalls,
             zone'[z].status = "ARCHIVED", Stale(zoneCall'[d], z)
      PROVE  \E o \in ZoneCalls : Outran(zoneCall'[o], zoneCall'[d])
  <2>1. zone[z].status = "ARCHIVED"
    BY <1>6 DEF ZoneInv, ZoneTypeOK
  <2>2. Stale(zoneCall[d], z)
    BY <1>2, <1>6, <2>1 DEF Stale
  <2>3. PICK o \in ZoneCalls : Outran(zoneCall[o], zoneCall[d])
    BY <2>1, <2>2 DEF ZoneInv, StaleIsOutrun
  <2>4. Outran(zoneCall'[o], zoneCall[d])
    BY <1>2, <2>3 DEF Outran
  <2>5. Outran(zoneCall'[o], zoneCall'[d])
    BY <1>2, <2>4 DEF Outran
  <2>. QED
    BY <2>5
<1>7. StaleIsOutrun'
  BY <1>6 DEF StaleIsOutrun, Outran, Stale
<1>. QED
  BY <1>3, <1>5, <1>7

\* Requests, zones and buttons untouched, a step keeps what holds of them.
LEMMA RequestsStay ==
  ASSUME ZoneInv, UNCHANGED <<zoneCall, busy, zone>>
  PROVE  (\A d \in ZoneCalls : AsksFor(zoneCall[d]))' /\ OneStatus' /\ StaleIsOutrun'
BY DEF ZoneInv, AsksFor, OneStatus, StatusOf, StaleIsOutrun, Stale, Outran

\* A new request.
LEMMA RequestSent ==
  ASSUME ZoneInv, NEW c \in ZoneCalls, NEW q \in ZoneCallTypes, zoneCall[c].at = "unused",
         zoneCall' = [zoneCall EXCEPT ![c] = q], UNCHANGED zone, AsksFor(q), q.at = "sent",
         \/ busy' = busy /\ q.kind # "status"
         \/ /\ q.zone \in ZoneIds /\ q.tab \in Tabs /\ q.zone \notin busy[q.tab]
            /\ busy' = [busy EXCEPT ![q.tab] = @ \cup {q.zone}]
  PROVE  (\A d \in ZoneCalls : AsksFor(zoneCall[d]))' /\ OneStatus' /\ StaleIsOutrun'
<1>1. zoneCall \in [ZoneCalls -> ZoneCallTypes] /\ busy \in [Tabs -> SUBSET ZoneIds]
  BY ZoneCallsTyped DEF ZoneInv, ZoneTypeOK
<1>2. zoneCall'[c] = q /\ \A d \in ZoneCalls : d # c => zoneCall'[d] = zoneCall[d]
  BY <1>1
<1>3. (\A d \in ZoneCalls : AsksFor(zoneCall[d]))'
  <2>. SUFFICES ASSUME NEW d \in ZoneCalls PROVE AsksFor(zoneCall'[d])
    BY DEF AsksFor
  <2>. QED
    BY <1>2 DEF ZoneInv
<1>4. ASSUME NEW t \in Tabs, NEW z \in ZoneIds, NEW d \in ZoneCalls, StatusOf(zoneCall'[d], t, z)
      PROVE  z \in busy'[t] /\ \A o \in ZoneCalls : StatusOf(zoneCall'[o], t, z) => o = d
  <2>1. \A o \in ZoneCalls : StatusOf(zoneCall[o], t, z) =>
          z \in busy[t] /\ \A p \in ZoneCalls : StatusOf(zoneCall[p], t, z) => p = o
    BY DEF ZoneInv, OneStatus
  <2>2. CASE StatusOf(q, t, z)
    <3>1. z \notin busy[t] /\ z \in busy'[t]
      BY <1>1, <2>2 DEF StatusOf
    <3>2. \A o \in ZoneCalls : StatusOf(zoneCall'[o], t, z) => o = c
      BY <1>2, <2>1, <3>1
    <3>. QED
      BY <1>4, <3>1, <3>2
  <2>3. CASE ~StatusOf(q, t, z)
    <3>1. \A o \in ZoneCalls : StatusOf(zoneCall'[o], t, z) => StatusOf(zoneCall[o], t, z)
      BY <1>2, <2>3
    <3>2. z \in busy'[t]
      BY <1>1, <1>4, <2>1, <3>1
    <3>. QED
      BY <1>4, <2>1, <3>1, <3>2
  <2>. QED
    BY <2>2, <2>3
<1>5. OneStatus'
  BY <1>4 DEF OneStatus, StatusOf
<1>6. ASSUME NEW z \in ZoneIds, NEW d \in ZoneCalls,
             zone[z].status = "ARCHIVED", Stale(zoneCall'[d], z)
      PROVE  \E o \in ZoneCalls : Outran(zoneCall'[o], zoneCall'[d])
  <2>1. d # c /\ Stale(zoneCall[d], z)
    BY <1>2, <1>6 DEF Stale
  <2>2. PICK o \in ZoneCalls : Outran(zoneCall[o], zoneCall[d])
    BY <1>6, <2>1 DEF ZoneInv, StaleIsOutrun
  <2>3. o # c
    BY <2>2 DEF Outran
  <2>. QED
    BY <1>2, <2>1, <2>2, <2>3
<1>7. StaleIsOutrun'
  BY <1>6 DEF StaleIsOutrun, Stale, Outran
<1>. QED
  BY <1>3, <1>5, <1>7

\* The handler's write: it archives the zone, or it leaves it as archived as it was.
LEMMA UpdateStep ==
  ASSUME ZoneInv, NEW c \in ZoneCalls, Update(c)
  PROVE  ZoneInv'
<1>. DEFINE old == zoneCall[c]
            z == old.zone
            row == [status |-> IF old.kind = "status" THEN old.to ELSE zone[z].status,
                    writes |-> zone[z].writes + 1]
            q == [old EXCEPT !.at = "answered", !.reply = IF old.waiting THEN row ELSE NoZone]
<1>1. zoneCall \in [ZoneCalls -> ZoneCallTypes] /\ old \in ZoneCallTypes /\ AsksFor(old)
  BY ZoneCallsTyped DEF ZoneInv
<1>2. old.at = "checked" /\ z \in ZoneIds /\ old.tab \in Tabs
      /\ (old.kind = "status" => old.to \in Statuses)
  BY <1>1 DEF Update, AsksFor
<1>3. zone[z] \in Rows /\ zone \in [ZoneIds -> Rows]
  BY <1>2 DEF ZoneInv, ZoneTypeOK
<1>4. row \in Rows
  BY <1>2, <1>3 DEF Rows
<1>5. zone' = [zone EXCEPT ![z] = row] /\ UNCHANGED <<list, busy, listing>>
  BY DEF Update
<1>. HIDE DEF row
<1>6. q \in ZoneCallTypes
  BY <1>1, <1>4, UnusedTyped DEF ZoneCallTypes
<1>7. /\ q.at = "answered" /\ q.kind = old.kind /\ q.tab = old.tab /\ q.zone = z
      /\ q.to = old.to /\ q.waiting = old.waiting
  BY <1>1 DEF ZoneCallTypes
<1>8. zoneCall' = [zoneCall EXCEPT ![c] = q]
  BY <1>1 DEF Update, row
<1>. HIDE DEF q
<1>9. zoneCall'[c] = q /\ \A d \in ZoneCalls : d # c => zoneCall'[d] = zoneCall[d]
  BY <1>1, <1>8
<1>10. ZoneTypeOK'
  <2>1. zone' \in [ZoneIds -> Rows] /\ zoneCall' \in [ZoneCalls -> ZoneCallTypes]
    BY <1>1, <1>3, <1>4, <1>5, <1>6, <1>8
  <2>. QED
    BY <1>5, <2>1 DEF ZoneInv, ZoneTypeOK, ZoneCallTypes
<1>11. (\A d \in ZoneCalls : AsksFor(zoneCall[d]))'
  <2>. SUFFICES ASSUME NEW d \in ZoneCalls PROVE AsksFor(zoneCall'[d])
    BY DEF AsksFor
  <2>1. AsksFor(q)
    BY <1>1, <1>7 DEF AsksFor
  <2>. QED
    BY <1>9, <2>1 DEF ZoneInv
<1>12. \A t \in Tabs, y \in ZoneIds, d \in ZoneCalls :
         StatusOf(zoneCall'[d], t, y) <=> StatusOf(zoneCall[d], t, y)
  BY <1>7, <1>9 DEF StatusOf
<1>13. OneStatus'
  <2>. SUFFICES ASSUME NEW t \in Tabs, NEW y \in ZoneIds, NEW d \in ZoneCalls,
                       StatusOf(zoneCall'[d], t, y)
                PROVE  /\ y \in busy[t]
                       /\ \A o \in ZoneCalls : StatusOf(zoneCall'[o], t, y) => o = d
    BY <1>5 DEF OneStatus, StatusOf
  <2>. QED
    BY <1>12 DEF ZoneInv, OneStatus
<1>14. ASSUME NEW y \in ZoneIds, NEW d \in ZoneCalls,
              zone'[y].status = "ARCHIVED", Stale(zoneCall'[d], y)
       PROVE  \E o \in ZoneCalls : Outran(zoneCall'[o], zoneCall'[d])
  <2>1. d # c /\ zoneCall'[d] = zoneCall[d]
    BY <1>7, <1>9, <1>14 DEF Stale
  <2>2. CASE zone[y].status = "ARCHIVED"
    <3>1. PICK o \in ZoneCalls : Outran(zoneCall[o], zoneCall[d])
      BY <1>14, <2>1, <2>2 DEF ZoneInv, StaleIsOutrun
    <3>2. o # c
      BY <1>2, <3>1 DEF Outran
    <3>. QED
      BY <1>9, <2>1, <3>1, <3>2
  <2>3. CASE zone[y].status # "ARCHIVED"
    <3>1. y = z /\ old.kind = "status" /\ old.to = "ARCHIVED"
      BY <1>3, <1>5, <1>14, <2>3 DEF row
    <3>2. zoneCall[d].kind = "status" /\ zoneCall[d].zone = z
      BY <1>14, <2>1, <3>1 DEF Stale
    <3>3. ~(old.tab = zoneCall[d].tab /\ old.waiting /\ zoneCall[d].waiting)
      BY <1>2, <2>1, <3>1, <3>2 DEF ZoneInv, OneStatus, StatusOf
    <3>4. Outran(q, zoneCall[d])
      BY <1>7, <3>1, <3>3 DEF Outran
    <3>. QED
      BY <1>9, <2>1, <3>4
  <2>. QED
    BY <2>2, <2>3
<1>15. StaleIsOutrun'
  BY <1>14 DEF StaleIsOutrun, Stale, Outran
<1>. QED
  BY <1>10, <1>11, <1>13, <1>15 DEF ZoneInv

\* An edit and a creation.
LEMMA FormSentStep ==
  ASSUME ZoneInv, NEW c \in ZoneCalls, NEW t \in Tabs,
         Create(c, t) \/ \E z \in ZoneIds : Edit(c, t, z)
  PROVE  ZoneInv'
<1>1. PICK kind \in {"edit", "create"}, z \in ZoneIds \cup {"none"} :
        Send(c, kind, t, z, "none") /\ (kind = "edit" => z \in ZoneIds)
        /\ UNCHANGED <<zone, list, busy, listing>>
  BY DEF Create, Edit
<1>. DEFINE q == [UnusedCall EXCEPT !.at = "sent", !.kind = kind, !.tab = t, !.zone = z,
                                    !.to = "none", !.waiting = TRUE]
<1>2. q \in ZoneCallTypes /\ AsksFor(q) /\ q.at = "sent" /\ q.kind # "status"
  BY <1>1, UnusedTyped DEF ZoneCallTypes, AsksFor, UnusedCall
<1>3. zoneCall[c].at = "unused" /\ zoneCall' = [zoneCall EXCEPT ![c] = q]
  BY <1>1 DEF Send
<1>. HIDE DEF q
<1>4. zoneCall' \in [ZoneCalls -> ZoneCallTypes]
  BY <1>2, <1>3, ZoneCallsTyped DEF ZoneInv
<1>5. ZoneTypeOK'
  BY <1>1, <1>4 DEF ZoneInv, ZoneTypeOK, ZoneCallTypes
<1>. QED
  BY <1>1, <1>2, <1>3, <1>5, RequestSent DEF ZoneInv

LEMMA SetStatusStep ==
  ASSUME ZoneInv, NEW c \in ZoneCalls, NEW t \in Tabs, NEW z \in ZoneIds, SetStatus(c, t, z)
  PROVE  ZoneInv'
<1>1. PICK to \in Statuses : Send(c, "status", t, z, to)
  BY DEF SetStatus, Statuses
<1>2. /\ z \notin busy[t] /\ busy' = [busy EXCEPT ![t] = @ \cup {z}]
      /\ UNCHANGED <<zone, list, listing>>
  BY DEF SetStatus, ZoneActions
<1>. DEFINE q == [UnusedCall EXCEPT !.at = "sent", !.kind = "status", !.tab = t, !.zone = z,
                                    !.to = to, !.waiting = TRUE]
<1>3. q \in ZoneCallTypes /\ AsksFor(q) /\ q.at = "sent" /\ q.tab = t /\ q.zone = z
  BY <1>1, UnusedTyped DEF ZoneCallTypes, AsksFor, UnusedCall
<1>4. zoneCall[c].at = "unused" /\ zoneCall' = [zoneCall EXCEPT ![c] = q]
  BY <1>1 DEF Send
<1>. HIDE DEF q
<1>5. zoneCall' \in [ZoneCalls -> ZoneCallTypes] /\ busy' \in [Tabs -> SUBSET ZoneIds]
  BY <1>2, <1>3, <1>4, ZoneCallsTyped DEF ZoneInv, ZoneTypeOK
<1>6. ZoneTypeOK'
  BY <1>2, <1>5 DEF ZoneInv, ZoneTypeOK, ZoneCallTypes
<1>. QED
  BY <1>2, <1>3, <1>4, <1>6, RequestSent DEF ZoneInv

\* The tab stops waiting, with or without an answer.
LEMMA SettleStep ==
  ASSUME ZoneInv, NEW c \in ZoneCalls, NEW at \in {zoneCall[c].at, "done"},
         zoneCall[c].waiting, at = "done" => zoneCall[c].at \in {"answered", "done"},
         Settle(c, at), UNCHANGED zone
  PROVE  /\ zoneCall' \in [ZoneCalls -> ZoneCallTypes] /\ busy' \in [Tabs -> SUBSET ZoneIds]
         /\ (\A d \in ZoneCalls : AsksFor(zoneCall[d]))' /\ OneStatus' /\ StaleIsOutrun'
<1>. DEFINE old == zoneCall[c]
            q == [old EXCEPT !.waiting = FALSE, !.at = at, !.reply = NoZone]
<1>1. zoneCall \in [ZoneCalls -> ZoneCallTypes] /\ old \in ZoneCallTypes
  BY ZoneCallsTyped DEF ZoneInv
<1>2. q \in ZoneCallTypes
  BY <1>1, UnusedTyped DEF ZoneCallTypes
<1>3. /\ q.at = at /\ q.kind = old.kind /\ q.tab = old.tab /\ q.zone = old.zone
      /\ q.to = old.to /\ q.waiting = FALSE
  BY <1>1 DEF ZoneCallTypes
<1>4. zoneCall' = [zoneCall EXCEPT ![c] = q]
  BY <1>1 DEF Settle
<1>5. busy' = IF old.kind = "status" THEN [busy EXCEPT ![old.tab] = @ \ {old.zone}] ELSE busy
  BY DEF Settle
<1>6. busy' \in [Tabs -> SUBSET ZoneIds]
  BY <1>5 DEF ZoneInv, ZoneTypeOK
<1>. HIDE DEF q
<1>7. q.at = "checked" => old.at = "checked"
  BY <1>3
<1>8. busy' = busy \/ (q.waiting = FALSE /\ (q.kind = "status" /\ old.waiting) /\
                         busy' = [busy EXCEPT ![q.tab] = @ \ {q.zone}])
  BY <1>3, <1>5
<1>9. /\ zoneCall[c].at \in {"answered", "done"} => q.at \in {"answered", "done"}
      /\ ~zoneCall[c].waiting /\ zoneCall[c].at = "answered" => q.at = "answered"
      /\ q.waiting => zoneCall[c].waiting
  BY <1>3
<1>10. zoneCall' \in [ZoneCalls -> ZoneCallTypes]
  BY <1>1, <1>2, <1>4
<1>11. (\A d \in ZoneCalls : AsksFor(zoneCall[d]))' /\ OneStatus' /\ StaleIsOutrun'
  BY <1>2, <1>3, <1>4, <1>7, <1>8, <1>9, RequestMoves
<1>. QED
  BY <1>6, <1>10, <1>11

LEMMA GiveUpStep ==
  ASSUME ZoneInv, NEW c \in ZoneCalls, GiveUp(c) PROVE ZoneInv'
<1>1. /\ zoneCall[c].waiting /\ Settle(c, zoneCall[c].at) /\ UNCHANGED zone
      /\ UNCHANGED <<list, listing>>
  BY DEF GiveUp
<1>2. zoneCall[c].at = "done" => zoneCall[c].at \in {"answered", "done"}
  OBVIOUS
<1>3. /\ zoneCall' \in [ZoneCalls -> ZoneCallTypes] /\ busy' \in [Tabs -> SUBSET ZoneIds]
      /\ (\A d \in ZoneCalls : AsksFor(zoneCall[d]))' /\ OneStatus' /\ StaleIsOutrun'
  BY <1>1, <1>2, SettleStep
<1>. QED
  BY <1>1, <1>3 DEF ZoneInv, ZoneTypeOK, ZoneCallTypes

LEMMA ReceiveStep ==
  ASSUME ZoneInv, NEW c \in ZoneCalls, Receive(c) PROVE ZoneInv'
<1>1. /\ zoneCall[c].waiting /\ zoneCall[c].at = "answered" /\ Settle(c, "done")
      /\ UNCHANGED zone
  BY DEF Receive
<1>2. /\ zoneCall' \in [ZoneCalls -> ZoneCallTypes] /\ busy' \in [Tabs -> SUBSET ZoneIds]
      /\ (\A d \in ZoneCalls : AsksFor(zoneCall[d]))' /\ OneStatus' /\ StaleIsOutrun'
  BY <1>1, SettleStep
<1>3. list' \in [Tabs -> [ZoneIds -> Rows]]
  <2>1. zoneCall[c].reply \in Rows
    BY ZoneCallsTyped DEF ZoneInv, ZoneCallTypes
  <2>2. CASE UNCHANGED list
    BY <2>2 DEF ZoneInv, ZoneTypeOK
  <2>3. CASE list' = [list EXCEPT ![zoneCall[c].tab][zoneCall[c].zone] = zoneCall[c].reply]
    <3>1. \A row \in Rows : \A t, z :
            [list EXCEPT ![t][z] = row] \in [Tabs -> [ZoneIds -> Rows]]
      BY DEF ZoneInv, ZoneTypeOK
    <3>. QED
      BY <2>1, <2>3, <3>1
  <2>. QED
    BY <2>2, <2>3, Zenon DEF Receive
<1>4. listing' \in [Tabs -> [at: {"none", "sent", "answered"}, rows: [ZoneIds -> Rows]]]
  <2>1. CASE UNCHANGED listing
    BY <2>1 DEF ZoneInv, ZoneTypeOK
  <2>2. CASE listing' = [listing EXCEPT ![zoneCall[c].tab].at = "sent"]
    <3>1. \A t : [listing EXCEPT ![t].at = "sent"]
                  \in [Tabs -> [at: {"none", "sent", "answered"}, rows: [ZoneIds -> Rows]]]
      BY DEF ZoneInv, ZoneTypeOK
    <3>. QED
      BY <2>2, <3>1
  <2>. QED
    BY <2>1, <2>2, Zenon DEF Receive, GetList
<1>. QED
  BY <1>1, <1>2, <1>3, <1>4 DEF ZoneInv, ZoneTypeOK, ZoneCallTypes

\* The steps of a list, which touch neither rows nor requests.
LEMMA ListStep ==
  ASSUME ZoneInv, NEW t \in Tabs, GiveUpList(t) \/ ReceiveList(t) \/ ReadList(t)
  PROVE  ZoneInv'
<1>1. UNCHANGED <<zoneCall, busy, zone>>
  BY DEF GiveUpList, ReceiveList, ReadList
<1>2. /\ list \in [Tabs -> [ZoneIds -> Rows]] /\ listing[t].rows \in [ZoneIds -> Rows]
      /\ zone \in [ZoneIds -> Rows]
      /\ listing \in [Tabs -> [at: {"none", "sent", "answered"}, rows: [ZoneIds -> Rows]]]
  BY DEF ZoneInv, ZoneTypeOK
<1>3. list' \in [Tabs -> [ZoneIds -> Rows]]
  BY <1>2 DEF GiveUpList, ReceiveList, ReadList
<1>4. PICK l \in {NotListing, [at |-> "answered", rows |-> zone]} :
        listing' = [listing EXCEPT ![t] = l]
  BY DEF GiveUpList, ReceiveList, ReadList
<1>5. l \in [at: {"none", "sent", "answered"}, rows: [ZoneIds -> Rows]]
  BY <1>2, UnusedTyped
<1>6. listing' \in [Tabs -> [at: {"none", "sent", "answered"}, rows: [ZoneIds -> Rows]]]
  BY <1>2, <1>4, <1>5
<1>. QED
  BY <1>1, <1>3, <1>6, RequestsStay DEF ZoneInv, ZoneTypeOK

LEMMA CheckStep ==
  ASSUME ZoneInv, NEW c \in ZoneCalls, Check(c) PROVE ZoneInv'
<1>. DEFINE old == zoneCall[c]
            at == IF MayChange(c) THEN "checked" ELSE "answered"
            q == [old EXCEPT !.at = at]
<1>1. zoneCall \in [ZoneCalls -> ZoneCallTypes] /\ old \in ZoneCallTypes
  BY ZoneCallsTyped DEF ZoneInv
<1>2. /\ old.at = "sent" /\ old.kind \in {"status", "edit"}
      /\ zoneCall' = [zoneCall EXCEPT ![c] = q] /\ UNCHANGED <<zone, list, busy, listing>>
  BY <1>1 DEF Check
<1>3. at \in {"checked", "answered"}
  OBVIOUS
<1>4. at = "checked" /\ zone[old.zone].status = "ARCHIVED" => old.kind # "status"
  BY DEF MayChange, AD_ZONE_TRANSITIONS
<1>. HIDE DEF at
<1>5. q \in ZoneCallTypes
  BY <1>1, <1>3 DEF ZoneCallTypes
<1>6. /\ q.at = at /\ q.kind = old.kind /\ q.tab = old.tab /\ q.zone = old.zone
      /\ q.to = old.to /\ q.waiting = old.waiting
  BY <1>1 DEF ZoneCallTypes
<1>. HIDE DEF q
<1>7. zoneCall' \in [ZoneCalls -> ZoneCallTypes]
  BY <1>1, <1>2, <1>5
<1>8. q.at = "checked" => /\ q.kind \in {"status", "edit"}
                          /\ zone[q.zone].status = "ARCHIVED" => q.kind # "status"
  BY <1>2, <1>4, <1>6
<1>9. (\A d \in ZoneCalls : AsksFor(zoneCall[d]))' /\ OneStatus' /\ StaleIsOutrun'
  BY <1>2, <1>5, <1>6, <1>8, RequestMoves
<1>. QED
  BY <1>2, <1>7, <1>9 DEF ZoneInv, ZoneTypeOK, ZoneCallTypes

LEMMA InsertStep ==
  ASSUME ZoneInv, NEW c \in ZoneCalls, Insert(c) PROVE ZoneInv'
<1>. DEFINE old == zoneCall[c]
            q == [old EXCEPT !.at = "answered"]
<1>1. zoneCall \in [ZoneCalls -> ZoneCallTypes] /\ old \in ZoneCallTypes
  BY ZoneCallsTyped DEF ZoneInv
<1>2. /\ old.at = "sent" /\ zoneCall' = [zoneCall EXCEPT ![c] = q]
      /\ UNCHANGED <<list, busy, listing>>
  BY <1>1 DEF Insert
<1>3. PICK z \in ZoneIds :
        zone[z].status = "none" /\ zone' = [zone EXCEPT ![z] = [status |-> "ACTIVE", writes |-> 1]]
  <2>1. PICK z \in ZoneIds :
          zone[z] = NoZone /\ zone' = [zone EXCEPT ![z] = [status |-> "ACTIVE", writes |-> 1]]
    BY Zenon DEF Insert
  <2>2. zone[z].status = "none"
    BY <2>1 DEF NoZone
  <2>. QED
    BY <2>1, <2>2
<1>4. q \in ZoneCallTypes
  BY <1>1 DEF ZoneCallTypes
<1>5. /\ q.at = "answered" /\ q.kind = old.kind /\ q.tab = old.tab /\ q.zone = old.zone
      /\ q.to = old.to /\ q.waiting = old.waiting
  BY <1>1 DEF ZoneCallTypes
<1>. HIDE DEF q
<1>6. zoneCall' \in [ZoneCalls -> ZoneCallTypes]
  BY <1>1, <1>2, <1>4
<1>7. zone' \in [ZoneIds -> Rows]
  <2>1. [status |-> "ACTIVE", writes |-> 1] \in Rows
    BY DEF Rows, Statuses
  <2>. QED
    BY <1>3, <2>1 DEF ZoneInv, ZoneTypeOK
<1>8. (\A d \in ZoneCalls : AsksFor(zoneCall[d]))' /\ OneStatus' /\ StaleIsOutrun'
  BY <1>2, <1>3, <1>4, <1>5, RequestMoves
<1>. QED
  BY <1>2, <1>6, <1>7, <1>8 DEF ZoneInv, ZoneTypeOK, ZoneCallTypes

LEMMA ZoneInvariant == ZonesSpec => []ZoneInv
<1>1. ZoneInv /\ [ZonesNext]_zoneVars => ZoneInv'
  <2>. SUFFICES ASSUME ZoneInv, [ZonesNext]_zoneVars PROVE ZoneInv'
    OBVIOUS
  <2>1. CASE UNCHANGED zoneVars
    BY <2>1, RequestsStay DEF zoneVars, ZoneInv, ZoneTypeOK
  <2>2. CASE Browser
    BY <2>2, FormSentStep, SetStatusStep, GiveUpStep, ReceiveStep, ListStep DEF Browser
  <2>3. CASE Server
    BY <2>3, CheckStep, UpdateStep, InsertStep, ListStep DEF Server
  <2>. QED
    BY <2>1, <2>2, <2>3 DEF ZonesNext
<1>. QED
  BY <1>1, ZonesInitInv, PTL DEF ZonesSpec

\* Zones, lists and requests have their types.
THEOREM ZoneTypeCorrect == ZonesSpec => []ZoneTypeOK
<1>1. ZoneInv => ZoneTypeOK
  BY DEF ZoneInv
<1>. QED
  BY <1>1, ZoneInvariant, PTL

LEMMA OnlyHandlersWrite ==
  ASSUME ZoneInv, ZonesNext, NEW z \in ZoneIds, zone[z].status = "ARCHIVED", zone'[z] # zone[z]
  PROVE  \E c \in ZoneCalls : Update(c) /\ zoneCall[c].zone = z
<1>1. ASSUME NEW c \in ZoneCalls, Insert(c) PROVE FALSE
  <2>1. PICK y \in ZoneIds :
          zone[y] = NoZone /\ zone' = [zone EXCEPT ![y] = [status |-> "ACTIVE", writes |-> 1]]
    BY <1>1 DEF Insert
  <2>2. y # z
    BY <2>1 DEF NoZone
  <2>. QED
    BY <2>1, <2>2 DEF ZoneInv, ZoneTypeOK
<1>2. zone' # zone
  OBVIOUS
<1>3. PICK c \in ZoneCalls : Update(c)
  BY <1>1, <1>2 DEF ZonesNext, Browser, Server, Create, SetStatus, Edit, GiveUpList, ReceiveList,
                    GiveUp, Receive, Check, ReadList
<1>4. zoneCall[c].zone = z
  BY <1>3 DEF Update, ZoneInv, ZoneTypeOK
<1>. QED
  BY <1>3, <1>4

\* updateAdZone and setStatus of a zone: whatever the tabs send and give up, an
\* archived zone is brought back only by a handler that another tab's archiving
\* overtook, or one of a tab that had stopped waiting for a request.
THEOREM ArchivedIsFinal == ZonesSpec => ArchivedChangesOnlyByOverlap
<1>1. ASSUME ZoneInv, [ZonesNext]_zoneVars
      PROVE  [\A z \in ZoneIds :
               zone[z].status = "ARCHIVED" /\ zone'[z] # zone[z] =>
                 \E c \in ZoneCalls :
                   /\ zoneCall[c].at = "checked" /\ zoneCall[c].zone = z
                   /\ zoneCall'[c].at = "answered"
                   /\ \/ zone'[z].status = "ARCHIVED"
                      \/ \E d \in ZoneCalls :
                           zoneCall[d].to = "ARCHIVED" /\ zoneCall[d].tab # zoneCall[c].tab
                      \/ GaveUp(zoneCall[c].tab)]_zoneVars
  <2>. SUFFICES ASSUME ZonesNext, NEW z \in ZoneIds, zone[z].status = "ARCHIVED",
                       zone'[z] # zone[z]
                PROVE  \E c \in ZoneCalls :
                   /\ zoneCall[c].at = "checked" /\ zoneCall[c].zone = z
                   /\ zoneCall'[c].at = "answered"
                   /\ \/ zone'[z].status = "ARCHIVED"
                      \/ \E d \in ZoneCalls :
                           zoneCall[d].to = "ARCHIVED" /\ zoneCall[d].tab # zoneCall[c].tab
                      \/ GaveUp(zoneCall[c].tab)
    BY <1>1
  <2>1. PICK c \in ZoneCalls : Update(c) /\ zoneCall[c].zone = z
    BY <1>1, OnlyHandlersWrite
  <2>2. zoneCall[c].at = "checked" /\ zoneCall'[c].at = "answered"
    BY <1>1, <2>1, ZoneCallsTyped DEF Update, ZoneInv, ZoneCallTypes
  <2>3. CASE zoneCall[c].kind # "status"
    <3>1. zone'[z].status = "ARCHIVED"
      BY <1>1, <2>1, <2>3 DEF Update, ZoneInv, ZoneTypeOK
    <3>. QED
      BY <2>1, <2>2, <3>1
  <2>4. CASE zoneCall[c].kind = "status"
    <3>1. PICK d \in ZoneCalls : Outran(zoneCall[d], zoneCall[c])
      BY <1>1, <2>1, <2>2, <2>4 DEF ZoneInv, StaleIsOutrun, Stale
    <3>2. zoneCall[d].tab # zoneCall[c].tab \/ GaveUp(zoneCall[c].tab)
      BY <2>2, <3>1 DEF Outran, GaveUp
    <3>. QED
      BY <2>1, <2>2, <3>1, <3>2 DEF Outran
  <2>. QED
    BY <2>3, <2>4
<1>. QED
  BY <1>1, ZoneInvariant, PTL DEF ZonesSpec, ArchivedChangesOnlyByOverlap

-----------------------------------------------------------------------------
(* The campaign wizard: forms whose creative was checked, and the draft.   *)

\* A form that keeps what uploadCreative checked, whatever its format is now, or
\* what was pasted.
PastedOrChecked(creative) == creative.for = Pasted \/ Accepts(creative)
CheckedForms == {f \in Forms : PastedOrChecked(f.creative)}
Saved == CheckedForms \cup {NoForm}

Uploads == [size: AdFormats, for: AdFormats \cup {Unset}] \cup {NoUpload}
Issues == [size: AdFormats, expected: AdFormats] \cup {NoIssue}

Wizards ==
  [at: {"closed", "open"}, get: {"none", "sent", "read"}, got: Saved, checked: BOOLEAN,
   pending: Saved, form: CheckedForms, timer: Saved, upload: Uploads, issue: Issues]

Submissions ==
  [n: 1..MaxSubmits, tab: WizardTabs, form: CheckedForms,
   at: {"sent", "inserted", "answered"}, waiting: BOOLEAN]

CheckedInv ==
  /\ wiz \in [WizardTabs -> Wizards]
  /\ draft \in Saved /\ should \in Saved
  /\ puts \subseteq [tab: WizardTabs, form: CheckedForms]
  /\ deletes \subseteq WizardTabs
  /\ creates \subseteq Submissions
  /\ campaigns \subseteq [n: 1..MaxSubmits, form: CheckedForms]
  /\ edits \in 0..MaxEdits /\ failures \in 0..MaxFailures /\ submits \in 0..MaxSubmits
  /\ blurred \in BOOLEAN

\* A closed wizard keeps nothing, and one that asks for the draft is not checked yet.
MountedOnly ==
  \A t \in WizardTabs :
    /\ ~Open(t) => wiz[t] = Unmounted
    /\ wiz[t].get # "none" => ~wiz[t].checked
    /\ wiz[t].pending # NoForm => wiz[t].checked

NoTimer == \A t \in WizardTabs : wiz[t].timer = NoForm

DraftDeleted == \E c \in creates : c.at = "answered"

\* One tab, one submission, and no save before the old draft was dealt with.
OneAtATime ==
  /\ \A t, o \in WizardTabs : Open(t) /\ Open(o) => t = o
  /\ \A c \in creates : c.waiting /\ Open(c.tab) /\ \A d \in creates : d = c
  /\ \A t \in WizardTabs : Open(t) /\ ~Autosaves(t) =>
       wiz[t].timer = NoForm /\ puts = {} /\ deletes = {}

\* The last work is in a timer, in a save on its way, or in the row.
WorkIsSomewhere ==
  /\ \A t \in WizardTabs : wiz[t].timer # NoForm => should = wiz[t].timer
  /\ NoTimer => \A p \in puts : should = p.form
  /\ NoTimer /\ deletes # {} => should = NoForm
  /\ DraftDeleted => draft = NoForm /\ puts = {}
  /\ NoTimer /\ puts = {} /\ deletes = {} /\ ~DraftDeleted => draft = should

WizardInv ==
  /\ CheckedInv
  /\ MountedOnly
  /\ ~blurred => OneAtATime /\ WorkIsSomewhere

LEMMA FormsTyped ==
  /\ Blank \in CheckedForms /\ NoForm \notin CheckedForms
  /\ \A f \in AdFormats : [Blank EXCEPT !.format = f] \in CheckedForms
  /\ Unmounted \in Wizards
  /\ CheckedForms \subseteq Forms
<1>1. Blank \in Forms /\ PastedOrChecked(Blank.creative)
  BY DEF Blank, Forms, NoCreative, PastedOrChecked, Accepts
<1>2. \A f \in AdFormats : [Blank EXCEPT !.format = f] \in Forms
                           /\ PastedOrChecked([Blank EXCEPT !.format = f].creative)
  BY DEF Blank, Forms, NoCreative, PastedOrChecked, Accepts
<1>3. Blank \in CheckedForms
  BY <1>1 DEF CheckedForms
<1>4. Unmounted \in Wizards
  BY <1>3 DEF Unmounted, Wizards, Saved, Uploads, Issues
<1>. QED
  BY <1>1, <1>2, <1>3, <1>4, WizardAssumption DEF CheckedForms

LEMMA WizardInitInv == WizardInit => WizardInv
<1>. SUFFICES ASSUME WizardInit PROVE WizardInv
  OBVIOUS
<1>1. draft \in Saved /\ should \in Saved
  BY FormsTyped DEF WizardInit, Saved
<1>2. edits \in 0..MaxEdits /\ failures \in 0..MaxFailures /\ submits \in 0..MaxSubmits
  BY WizardAssumption DEF WizardInit
<1>3. CheckedInv
  BY <1>1, <1>2, FormsTyped DEF WizardInit, CheckedInv
<1>4. \A t \in WizardTabs : wiz[t] = Unmounted /\ ~Open(t)
  BY DEF WizardInit, Open, Unmounted
<1>5. MountedOnly
  <2>1. Unmounted.get = "none" /\ Unmounted.pending = NoForm
    BY DEF Unmounted
  <2>. QED
    BY <1>4, <2>1 DEF MountedOnly
<1>6. OneAtATime /\ WorkIsSomewhere
  BY <1>4 DEF WizardInit, OneAtATime, WorkIsSomewhere, NoTimer, DraftDeleted, Unmounted
<1>. QED
  BY <1>3, <1>5, <1>6 DEF WizardInv

-----------------------------------------------------------------------------
(* Steps of one tab.                                                       *)

LEMMA TabMoves ==
  ASSUME CheckedInv, NEW t \in WizardTabs, NEW w \in Wizards, wiz' = [wiz EXCEPT ![t] = w]
  PROVE  /\ wiz' \in [WizardTabs -> Wizards]
         /\ wiz'[t] = w /\ \A o \in WizardTabs : o # t => wiz'[o] = wiz[o]
BY DEF CheckedInv

LEMMA TabTyped ==
  ASSUME CheckedInv, NEW t \in WizardTabs
  PROVE  /\ wiz[t] \in Wizards
         /\ wiz[t].got \in Saved /\ wiz[t].pending \in Saved /\ wiz[t].timer \in Saved
         /\ wiz[t].form \in CheckedForms /\ wiz[t].checked \in BOOLEAN
         /\ wiz[t].upload \in Uploads /\ wiz[t].issue \in Issues
BY DEF CheckedInv, Wizards

LEMMA SubmissionsTyped ==
  CheckedInv => \A c \in creates :
    c \in Submissions /\ c.tab \in WizardTabs /\ c.form \in CheckedForms /\ c.n \in 1..MaxSubmits
BY DEF CheckedInv, Submissions

\* The draft, who writes it, and what the readers of the comments expect.
DraftUnchanged == UNCHANGED <<draft, puts, deletes, creates, should, blurred>>

\* A step of one wizard that neither writes, schedules nor drops a draft.
LEMMA TabOnly ==
  ASSUME WizardInv, NEW t \in WizardTabs, Open(t), NEW w \in Wizards,
         wiz' = [wiz EXCEPT ![t] = w], DraftUnchanged,
         w.at = wiz[t].at, w.timer = wiz[t].timer,
         w.get # "none" => ~w.checked,
         w.pending # NoForm => w.checked,
         Autosaves(t) => w.checked /\ w.pending = NoForm
  PROVE  MountedOnly' /\ (~blurred' => OneAtATime' /\ WorkIsSomewhere')
<1>1. wiz'[t] = w /\ \A o \in WizardTabs : o # t => wiz'[o] = wiz[o]
  BY TabMoves DEF WizardInv
<1>2. \A o \in WizardTabs : wiz'[o].at = wiz[o].at /\ wiz'[o].timer = wiz[o].timer
  BY <1>1
<1>3. MountedOnly'
  BY <1>1, <1>2 DEF WizardInv, MountedOnly, Open
<1>4. ASSUME ~blurred' PROVE OneAtATime'
  <2>1. OneAtATime
    BY <1>4 DEF WizardInv, DraftUnchanged
  <2>2. \A c \in creates : c.tab \in WizardTabs
    BY SubmissionsTyped DEF WizardInv
  <2>3. \A o \in WizardTabs : (Open(o)' <=> Open(o)) /\ (Autosaves(o) => Autosaves(o)')
    BY <1>1, <1>2 DEF Open, Autosaves
  <2>4. UNCHANGED <<puts, deletes, creates>>
    BY DEF DraftUnchanged
  <2>5. \A c \in creates' : Open(c.tab)' /\ c.waiting /\ \A d \in creates' : d = c
    BY <2>1, <2>2, <2>3, <2>4 DEF OneAtATime
  <2>6. \A o, p \in WizardTabs : Open(o)' /\ Open(p)' => o = p
    BY <2>1, <2>3 DEF OneAtATime
  <2>7. \A o \in WizardTabs : Open(o)' /\ ~Autosaves(o)' =>
          wiz'[o].timer = NoForm /\ puts' = {} /\ deletes' = {}
    BY <1>2, <2>1, <2>3, <2>4 DEF OneAtATime
  <2>. QED
    BY <2>5, <2>6, <2>7 DEF OneAtATime
<1>5. ASSUME ~blurred' PROVE WorkIsSomewhere'
  <2>1. WorkIsSomewhere
    BY <1>5 DEF WizardInv, DraftUnchanged
  <2>2. NoTimer' <=> NoTimer
    BY <1>2 DEF NoTimer
  <2>3. UNCHANGED <<draft, puts, deletes, creates, should>>
    BY DEF DraftUnchanged
  <2>4. DraftDeleted' <=> DraftDeleted
    BY <2>3 DEF DraftDeleted
  <2>. QED
    BY <1>2, <2>1, <2>2, <2>3, <2>4 DEF WorkIsSomewhere
<1>. QED
  BY <1>3, <1>4, <1>5

\* A step that changes the form: it schedules a save once the draft was dealt with.
LEMMA ChangedStep ==
  ASSUME WizardInv, NEW t \in WizardTabs, Open(t), NEW w \in Wizards, NEW form \in CheckedForms,
         Changed(t, w, form), UNCHANGED <<draft, puts, deletes, creates, blurred>>,
         w.at = wiz[t].at, w.get = wiz[t].get, w.checked = wiz[t].checked,
         w.pending = wiz[t].pending, w.timer = wiz[t].timer
  PROVE  /\ wiz' \in [WizardTabs -> Wizards] /\ should' \in Saved
         /\ MountedOnly' /\ (~blurred' => OneAtATime' /\ WorkIsSomewhere')
<1>. DEFINE new == [w EXCEPT !.form = form, !.timer = IF Autosaves(t) THEN form ELSE @]
<1>1. /\ wiz' = [wiz EXCEPT ![t] = new]
      /\ should' = IF Autosaves(t) THEN form ELSE should
  BY DEF Changed, Autosaves
<1>2. /\ new \in Wizards /\ new.at = wiz[t].at /\ new.get = wiz[t].get
      /\ new.checked = wiz[t].checked /\ new.pending = wiz[t].pending
      /\ new.timer = IF Autosaves(t) THEN form ELSE wiz[t].timer
  <2>1. CASE Autosaves(t)
    BY <2>1 DEF Wizards, Saved
  <2>2. CASE ~Autosaves(t)
    BY <2>2 DEF Wizards, Saved
  <2>. QED
    BY <2>1, <2>2
<1>. HIDE DEF new
<1>3. /\ wiz' \in [WizardTabs -> Wizards]
      /\ wiz'[t] = new /\ \A o \in WizardTabs : o # t => wiz'[o] = wiz[o]
  BY <1>1, <1>2, TabMoves DEF WizardInv
<1>4. should' \in Saved
  BY <1>1 DEF Saved, WizardInv, CheckedInv
<1>5. CASE ~Autosaves(t)
  <2>1. DraftUnchanged /\ new.timer = wiz[t].timer
    BY <1>1, <1>2, <1>5 DEF DraftUnchanged
  <2>. QED
    BY <1>1, <1>2, <1>3, <1>4, <1>5, <2>1, TabOnly DEF WizardInv, MountedOnly
<1>6. CASE Autosaves(t)
  <2>1. new.timer = form /\ should' = form /\ form # NoForm
    BY <1>1, <1>2, <1>6, FormsTyped
  <2>2. MountedOnly'
    BY <1>2, <1>3 DEF WizardInv, MountedOnly, Open
  <2>3. ASSUME ~blurred' PROVE OneAtATime' /\ WorkIsSomewhere'
    <3>1. OneAtATime /\ MountedOnly
      BY <2>3 DEF WizardInv
    <3>2. \A o \in WizardTabs : o # t => ~Open(o) /\ wiz'[o] = Unmounted
      BY <1>3, <3>1 DEF OneAtATime, MountedOnly
    <3>3. \A o \in WizardTabs : /\ Open(o)' <=> Open(o)
                                /\ Open(o) => o = t
      BY <1>2, <1>3, <3>2 DEF Open
    <3>4. Autosaves(t)'
      BY <1>2, <1>3, <1>6 DEF Autosaves
    <3>5. OneAtATime'
      <4>1. \A c \in creates' : Open(c.tab)'
        BY <3>1, <3>3, SubmissionsTyped DEF WizardInv, OneAtATime
      <4>2. \A c \in creates' : c.waiting /\ \A d \in creates' : d = c
        BY <3>1 DEF OneAtATime
      <4>3. \A o, p \in WizardTabs : Open(o)' /\ Open(p)' => o = p
        BY <3>3
      <4>4. \A o \in WizardTabs : Open(o)' => Autosaves(o)'
        BY <3>3, <3>4
      <4>. QED
        BY <4>1, <4>2, <4>3, <4>4 DEF OneAtATime
    <3>6. ~NoTimer'
      BY <1>3, <2>1 DEF NoTimer
    <3>7. \A o \in WizardTabs : wiz'[o].timer # NoForm => should' = wiz'[o].timer
      BY <1>3, <2>1, <3>2 DEF Unmounted
    <3>8. DraftDeleted' => draft' = NoForm /\ puts' = {}
      BY <2>3 DEF WizardInv, WorkIsSomewhere, DraftDeleted
    <3>. QED
      BY <3>5, <3>6, <3>7, <3>8 DEF WorkIsSomewhere
  <2>. QED
    BY <1>3, <1>4, <2>2, <2>3
<1>. QED
  BY <1>5, <1>6

\* What only a mounted wizard has.
LEMMA OnlyMounted ==
  ASSUME WizardInv, NEW t \in WizardTabs,
         \/ wiz[t].get # "none" \/ wiz[t].pending # NoForm \/ wiz[t].timer # NoForm
         \/ wiz[t].upload # NoUpload \/ wiz[t].issue # NoIssue
  PROVE  Open(t)
<1>1. /\ Unmounted.get = "none" /\ Unmounted.pending = NoForm /\ Unmounted.timer = NoForm
      /\ Unmounted.upload = NoUpload /\ Unmounted.issue = NoIssue
  BY DEF Unmounted
<1>. QED
  BY <1>1 DEF WizardInv, MountedOnly

\* Unless a request was overtaken, the other tabs are closed.
LEMMA OnlyTab ==
  ASSUME CheckedInv, MountedOnly, OneAtATime, NEW t \in WizardTabs, Open(t), NEW w \in Wizards,
         wiz' = [wiz EXCEPT ![t] = w]
  PROVE  /\ \A o \in WizardTabs : o # t => ~Open(o) /\ ~Open(o)' /\ wiz'[o] = Unmounted
         /\ Open(t)' <=> w.at = "open"
         /\ Autosaves(t)' <=> w.checked /\ w.pending = NoForm
         /\ NoTimer' <=> w.timer = NoForm
         /\ NoTimer <=> wiz[t].timer = NoForm
         /\ \A c \in creates : c.tab = t
<1>1. wiz'[t] = w /\ \A o \in WizardTabs : o # t => wiz'[o] = wiz[o]
  BY TabMoves
<1>2. \A o \in WizardTabs : o # t => ~Open(o) /\ wiz[o] = Unmounted
  BY DEF OneAtATime, MountedOnly
<1>3. \A o \in WizardTabs : o # t => ~Open(o)' /\ wiz'[o] = Unmounted
  BY <1>1, <1>2 DEF Open
<1>4. Unmounted.timer = NoForm
  BY DEF Unmounted
<1>5. NoTimer' <=> w.timer = NoForm
  BY <1>1, <1>3, <1>4 DEF NoTimer
<1>6. NoTimer <=> wiz[t].timer = NoForm
  BY <1>2, <1>4 DEF NoTimer
<1>7. \A c \in creates : c.tab = t
  BY <1>2, SubmissionsTyped DEF OneAtATime
<1>. QED
  BY <1>1, <1>2, <1>3, <1>5, <1>6, <1>7 DEF Open, Autosaves

LEMMA StillChecked ==
  ASSUME WizardInv, wiz' \in [WizardTabs -> Wizards], should' \in Saved,
         UNCHANGED <<draft, puts, deletes, creates, campaigns, submits>>,
         edits' \in 0..MaxEdits, failures' \in 0..MaxFailures, blurred' \in BOOLEAN
  PROVE  CheckedInv'
BY DEF WizardInv, CheckedInv

LEMMA CountsTyped ==
  WizardInv => /\ edits \in 0..MaxEdits /\ failures \in 0..MaxFailures /\ submits \in 0..MaxSubmits
               /\ blurred \in BOOLEAN /\ should \in Saved /\ draft \in Saved
               /\ edits < MaxEdits => edits + 1 \in 0..MaxEdits
               /\ failures < MaxFailures => failures + 1 \in 0..MaxFailures
               /\ submits < MaxSubmits =>
                    submits + 1 \in 0..MaxSubmits /\ submits + 1 \in 1..MaxSubmits
BY WizardAssumption DEF WizardInv, CheckedInv

LEMMA FailTyped == WizardInv /\ Fail => failures' \in 0..MaxFailures
BY CountsTyped DEF Fail

LEMMA MountStep == ASSUME WizardInv, NEW t \in WizardTabs, Mount(t) PROVE WizardInv'
<1>. DEFINE w == [Unmounted EXCEPT !.at = "open", !.get = "sent"]
<1>1. /\ w \in Wizards /\ w.at = "open" /\ w.get = "sent" /\ w.checked = FALSE
      /\ w.pending = NoForm /\ w.timer = NoForm
  BY FormsTyped DEF Wizards, Unmounted
<1>2. /\ ~Open(t) /\ wiz' = [wiz EXCEPT ![t] = w]
      /\ blurred' = (blurred \/ puts # {} \/ deletes # {} \/ creates # {}
                       \/ \E o \in WizardTabs : Open(o))
      /\ UNCHANGED <<draft, puts, deletes, creates, campaigns, submits, edits, failures, should>>
  BY DEF Mount, serverVars
<1>. HIDE DEF w
<1>3. /\ wiz' \in [WizardTabs -> Wizards]
      /\ wiz'[t] = w /\ \A o \in WizardTabs : o # t => wiz'[o] = wiz[o]
  BY <1>1, <1>2, TabMoves DEF WizardInv
<1>4. CheckedInv'
  BY <1>2, <1>3, StillChecked, CountsTyped
<1>5. MountedOnly'
  BY <1>1, <1>3 DEF WizardInv, MountedOnly, Open
<1>6. ASSUME ~blurred' PROVE OneAtATime' /\ WorkIsSomewhere'
  <2>1. /\ ~blurred /\ puts' = {} /\ deletes' = {} /\ creates' = {}
        /\ \A o \in WizardTabs : ~Open(o)
    BY <1>2, <1>6
  <2>2. WorkIsSomewhere /\ MountedOnly
    BY <2>1 DEF WizardInv
  <2>3. \A o \in WizardTabs : wiz[o].timer = NoForm /\ wiz'[o].timer = NoForm
    BY <1>1, <1>3, <2>1, <2>2 DEF MountedOnly, Unmounted
  <2>4. \A o \in WizardTabs : Open(o)' => o = t
    BY <1>3, <2>1 DEF Open
  <2>5. OneAtATime'
    BY <2>1, <2>3, <2>4 DEF OneAtATime
  <2>6. draft' = should'
    BY <1>2, <2>1, <2>2, <2>3 DEF WorkIsSomewhere, NoTimer, DraftDeleted
  <2>7. WorkIsSomewhere'
    BY <2>1, <2>3, <2>6 DEF WorkIsSomewhere, NoTimer, DraftDeleted
  <2>. QED
    BY <2>5, <2>7
<1>. QED
  BY <1>4, <1>5, <1>6 DEF WizardInv

LEMMA UnmountStep ==
  ASSUME WizardInv, NEW t \in WizardTabs, Unmount(t), ~Submitting(t) PROVE WizardInv'
<1>1. /\ Unmounted.at = "closed" /\ Unmounted.get = "none" /\ Unmounted.pending = NoForm
      /\ Unmounted.timer = NoForm /\ Unmounted \in Wizards
  BY FormsTyped DEF Unmounted
<1>2. /\ Open(t) /\ wiz' = [wiz EXCEPT ![t] = Unmounted]
      /\ blurred' = (blurred \/ wiz[t].timer # NoForm)
      /\ UNCHANGED <<draft, puts, deletes, creates, campaigns, submits, edits, failures, should>>
  BY DEF Unmount, serverVars
<1>3. /\ wiz' \in [WizardTabs -> Wizards]
      /\ wiz'[t] = Unmounted /\ \A o \in WizardTabs : o # t => wiz'[o] = wiz[o]
  BY <1>1, <1>2, TabMoves DEF WizardInv
<1>4. CheckedInv'
  BY <1>2, <1>3, StillChecked, CountsTyped
<1>5. MountedOnly'
  BY <1>1, <1>3 DEF WizardInv, MountedOnly, Open
<1>6. ASSUME ~blurred' PROVE OneAtATime' /\ WorkIsSomewhere'
  <2>1. ~blurred /\ wiz[t].timer = NoForm /\ OneAtATime /\ WorkIsSomewhere /\ MountedOnly
    BY <1>2, <1>6 DEF WizardInv
  <2>2. /\ NoTimer' /\ NoTimer /\ \A c \in creates : c.tab = t
        /\ \A o \in WizardTabs : ~Open(o)'
    BY <1>1, <1>2, <2>1, OnlyTab DEF WizardInv
  <2>3. creates = {}
    BY <2>1, <2>2 DEF OneAtATime, Submitting
  <2>4. OneAtATime'
    BY <1>2, <2>2, <2>3 DEF OneAtATime
  <2>5. ~DraftDeleted /\ ~DraftDeleted'
    BY <1>2, <2>3 DEF DraftDeleted
  <2>6. \A o \in WizardTabs : wiz'[o].timer = NoForm
    BY <2>2 DEF NoTimer
  <2>. QED
    BY <1>2, <2>1, <2>2, <2>4, <2>5, <2>6 DEF WorkIsSomewhere
<1>. QED
  BY <1>4, <1>5, <1>6 DEF WizardInv

LEMMA TabStep ==
  ASSUME WizardInv, NEW t \in WizardTabs, Open(t), NEW w \in Wizards,
         wiz' = [wiz EXCEPT ![t] = w], DraftUnchanged, UNCHANGED <<campaigns, submits>>,
         edits' \in 0..MaxEdits, failures' \in 0..MaxFailures,
         w.at = wiz[t].at, w.timer = wiz[t].timer,
         w.get # "none" => ~w.checked,
         w.pending # NoForm => w.checked,
         Autosaves(t) => w.checked /\ w.pending = NoForm
  PROVE  WizardInv'
<1>1. MountedOnly' /\ (~blurred' => OneAtATime' /\ WorkIsSomewhere')
  BY TabOnly
<1>2. wiz' \in [WizardTabs -> Wizards] /\ should' \in Saved /\ blurred' \in BOOLEAN
  BY TabMoves, CountsTyped DEF WizardInv, DraftUnchanged
<1>3. CheckedInv'
  BY <1>2, StillChecked DEF DraftUnchanged
<1>. QED
  BY <1>1, <1>3 DEF WizardInv

\* What MountedOnly says of one wizard.
LEMMA Mounted ==
  ASSUME WizardInv, NEW t \in WizardTabs
  PROVE  /\ wiz[t].get # "none" => ~wiz[t].checked
         /\ wiz[t].pending # NoForm => wiz[t].checked
BY DEF WizardInv, MountedOnly

LEMMA ReadDraftStep == ASSUME WizardInv, NEW t \in WizardTabs, ReadDraft(t) PROVE WizardInv'
<1>. DEFINE w == [wiz[t] EXCEPT !.get = "read", !.got = draft]
<1>1. /\ wiz[t].get = "sent" /\ wiz' = [wiz EXCEPT ![t] = w] /\ DraftUnchanged
      /\ UNCHANGED <<campaigns, submits, edits, failures>>
  BY TabTyped DEF ReadDraft, serverVars, DraftUnchanged, WizardInv, CheckedInv
<1>2. Open(t)
  BY <1>1, OnlyMounted
<1>3. wiz[t] \in Wizards /\ draft \in Saved
  BY TabTyped, CountsTyped DEF WizardInv
<1>4. /\ w \in Wizards /\ w.at = wiz[t].at /\ w.timer = wiz[t].timer
      /\ w.checked = wiz[t].checked /\ w.pending = wiz[t].pending /\ w.get = "read"
  BY <1>3 DEF Wizards
<1>. HIDE DEF w
<1>. QED
  BY <1>1, <1>2, <1>4, Mounted, CountsTyped, TabStep DEF Autosaves

LEMMA DraftCheckedStep ==
  ASSUME WizardInv, NEW t \in WizardTabs, DraftChecked(t) PROVE WizardInv'
<1>. DEFINE w == [wiz[t] EXCEPT !.get = "none", !.got = NoForm, !.checked = TRUE,
                                !.pending = wiz[t].got]
<1>1. /\ wiz[t].get = "read" /\ wiz' = [wiz EXCEPT ![t] = w] /\ DraftUnchanged
      /\ UNCHANGED <<campaigns, submits, edits, failures>>
  BY TabTyped DEF DraftChecked, serverVars, DraftUnchanged, WizardInv, CheckedInv
<1>2. Open(t) /\ ~Autosaves(t)
  BY <1>1, OnlyMounted, Mounted DEF Autosaves
<1>3. wiz[t] \in Wizards /\ wiz[t].got \in Saved /\ NoForm \in Saved
  BY TabTyped DEF WizardInv, Saved
<1>4. /\ w \in Wizards /\ w.at = wiz[t].at /\ w.timer = wiz[t].timer
      /\ w.checked = TRUE /\ w.get = "none"
  BY <1>3 DEF Wizards
<1>. HIDE DEF w
<1>. QED
  BY <1>1, <1>2, <1>4, CountsTyped, TabStep

LEMMA DraftCheckFailsStep ==
  ASSUME WizardInv, NEW t \in WizardTabs, DraftCheckFails(t) PROVE WizardInv'
<1>. DEFINE w == [wiz[t] EXCEPT !.get = "none", !.got = NoForm, !.checked = TRUE]
<1>1. /\ wiz[t].get # "none" /\ Fail /\ wiz' = [wiz EXCEPT ![t] = w] /\ blurred' = TRUE
      /\ UNCHANGED <<draft, puts, deletes, creates, campaigns, submits, edits, should>>
  BY TabTyped DEF DraftCheckFails, serverVars, WizardInv, CheckedInv
<1>2. Open(t)
  BY <1>1, OnlyMounted
<1>3. wiz[t] \in Wizards /\ NoForm \in Saved
  BY TabTyped DEF WizardInv, Saved
<1>4. w \in Wizards /\ w.at = wiz[t].at /\ w.checked = TRUE /\ w.get = "none"
  BY <1>3 DEF Wizards
<1>. HIDE DEF w
<1>5. /\ wiz' \in [WizardTabs -> Wizards]
      /\ wiz'[t] = w /\ \A o \in WizardTabs : o # t => wiz'[o] = wiz[o]
  BY <1>1, <1>4, TabMoves DEF WizardInv
<1>6. CheckedInv'
  BY <1>1, <1>5, StillChecked, CountsTyped, FailTyped
<1>7. MountedOnly'
  BY <1>2, <1>4, <1>5 DEF WizardInv, MountedOnly, Open
<1>. QED
  BY <1>1, <1>6, <1>7 DEF WizardInv

LEMMA restoreDraftStep ==
  ASSUME WizardInv, NEW t \in WizardTabs, restoreDraft(t) PROVE WizardInv'
<1>. DEFINE w == [wiz[t] EXCEPT !.form = wiz[t].pending, !.pending = NoForm]
<1>1. /\ wiz[t].pending # NoForm /\ wiz' = [wiz EXCEPT ![t] = w] /\ DraftUnchanged
      /\ UNCHANGED <<campaigns, submits, edits, failures>>
  BY TabTyped DEF restoreDraft, serverVars, DraftUnchanged, WizardInv, CheckedInv
<1>2. Open(t)
  BY <1>1, OnlyMounted
<1>3. wiz[t] \in Wizards /\ wiz[t].pending \in CheckedForms /\ NoForm \in Saved
  BY <1>1, TabTyped DEF WizardInv, Saved
<1>4. /\ w \in Wizards /\ w.at = wiz[t].at /\ w.timer = wiz[t].timer
      /\ w.checked = wiz[t].checked /\ w.pending = NoForm /\ w.get = wiz[t].get
  BY <1>3 DEF Wizards
<1>. HIDE DEF w
<1>. QED
  BY <1>1, <1>2, <1>4, Mounted, CountsTyped, TabStep DEF Autosaves

\* What the steps of a creative do to their wizard.
LEMMA CreativeStep ==
  ASSUME WizardInv, NEW t \in WizardTabs, Open(t),
         NEW file \in Uploads, NEW issue \in Issues,
         wiz' = [wiz EXCEPT ![t] = [wiz[t] EXCEPT !.upload = file, !.issue = issue]],
         DraftUnchanged, UNCHANGED <<campaigns, submits>>,
         edits' \in 0..MaxEdits, failures' \in 0..MaxFailures
  PROVE  WizardInv'
<1>. DEFINE w == [wiz[t] EXCEPT !.upload = file, !.issue = issue]
<1>1. wiz[t] \in Wizards
  BY TabTyped DEF WizardInv
<1>2. /\ w \in Wizards /\ w.at = wiz[t].at /\ w.timer = wiz[t].timer
      /\ w.checked = wiz[t].checked /\ w.pending = wiz[t].pending /\ w.get = wiz[t].get
  BY <1>1 DEF Wizards
<1>. HIDE DEF w
<1>3. wiz' = [wiz EXCEPT ![t] = w]
  BY DEF w
<1>4. Autosaves(t) => w.checked /\ w.pending = NoForm
  BY <1>2 DEF Autosaves
<1>5. (w.get # "none" => ~w.checked) /\ (w.pending # NoForm => w.checked)
  BY <1>2, Mounted
<1>. QED
  BY <1>2, <1>3, <1>4, <1>5, TabStep

LEMMA handleFileSelectedStep ==
  ASSUME WizardInv, NEW t \in WizardTabs, NEW size \in AdFormats, handleFileSelected(t, size)
  PROVE  WizardInv'
<1>. DEFINE format == wiz[t].form.format
<1>1. /\ Open(t) /\ ~Uploading(t) /\ edits < MaxEdits /\ edits' = edits + 1
      /\ DraftUnchanged /\ UNCHANGED <<campaigns, submits, failures>>
  BY DEF handleFileSelected, serverVars, DraftUnchanged
<1>2. wiz[t] \in Wizards /\ format \in AdFormats \cup {Unset} /\ wiz[t].upload = NoUpload
  BY <1>1, TabTyped DEF WizardInv, CheckedForms, Forms, Uploading
<1>3. \/ /\ format \notin {Unset, size}
         /\ wiz' = [wiz EXCEPT ![t] = [[wiz[t] EXCEPT !.issue = NoIssue] EXCEPT
                      !.issue = [size |-> size, expected |-> format]]]
      \/ \E for \in {format, Unset} :
           wiz' = [wiz EXCEPT ![t] = [[wiz[t] EXCEPT !.issue = NoIssue] EXCEPT
                      !.upload = [size |-> size, for |-> for]]]
  BY Zenon DEF handleFileSelected, Upload
<1>4. CASE /\ format \notin {Unset, size}
           /\ wiz' = [wiz EXCEPT ![t] = [[wiz[t] EXCEPT !.issue = NoIssue] EXCEPT
                      !.issue = [size |-> size, expected |-> format]]]
  <2>. DEFINE issue == [size |-> size, expected |-> format]
  <2>1. issue \in Issues /\ NoUpload \in Uploads
    BY <1>2, <1>4 DEF Issues, Uploads
  <2>2. wiz' = [wiz EXCEPT ![t] = [wiz[t] EXCEPT !.upload = NoUpload, !.issue = issue]]
    BY <1>2, <1>4 DEF Wizards
  <2>. HIDE DEF issue
  <2>. QED
    BY <1>1, <2>1, <2>2, CountsTyped, CreativeStep
<1>5. ASSUME NEW for \in {format, Unset},
             wiz' = [wiz EXCEPT ![t] = [[wiz[t] EXCEPT !.issue = NoIssue] EXCEPT
                      !.upload = [size |-> size, for |-> for]]]
      PROVE  WizardInv'
  <2>. DEFINE file == [size |-> size, for |-> for]
  <2>1. file \in Uploads /\ NoIssue \in Issues
    BY <1>2 DEF Issues, Uploads
  <2>2. wiz' = [wiz EXCEPT ![t] = [wiz[t] EXCEPT !.upload = file, !.issue = NoIssue]]
    BY <1>2, <1>5 DEF Wizards
  <2>. HIDE DEF file
  <2>. QED
    BY <1>1, <2>1, <2>2, CountsTyped, CreativeStep
<1>. QED
  BY <1>3, <1>4, <1>5

LEMMA IssueStep ==
  ASSUME WizardInv, NEW t \in WizardTabs, resolveDimensionIssueWithAutoFit(t) \/ CancelIssue(t)
  PROVE  WizardInv'
<1>1. /\ wiz[t].issue # NoIssue /\ ~Uploading(t)
      /\ DraftUnchanged /\ UNCHANGED <<campaigns, submits, edits, failures>>
  BY DEF resolveDimensionIssueWithAutoFit, CancelIssue, uploadVars, serverVars, DraftUnchanged
<1>2. Open(t)
  BY <1>1, OnlyMounted
<1>3. /\ wiz[t] \in Wizards /\ wiz[t].form.format \in AdFormats \cup {Unset}
      /\ wiz[t].upload = NoUpload /\ wiz[t].issue.expected \in AdFormats
      /\ NoIssue \in Issues /\ NoUpload \in Uploads
  BY <1>1, TabTyped DEF WizardInv, CheckedForms, Forms, Uploading, Issues, Uploads
<1>4. CASE CancelIssue(t)
  <2>1. wiz' = [wiz EXCEPT ![t] = [wiz[t] EXCEPT !.upload = NoUpload, !.issue = NoIssue]]
    BY <1>3, <1>4 DEF CancelIssue, WizardInv, CheckedInv, Wizards
  <2>. QED
    BY <1>1, <1>2, <1>3, <2>1, CountsTyped, CreativeStep
<1>5. CASE resolveDimensionIssueWithAutoFit(t)
  <2>. DEFINE file == [size |-> wiz[t].issue.expected, for |-> wiz[t].form.format]
  <2>1. file \in Uploads
    BY <1>3 DEF Uploads
  <2>2. wiz' = [wiz EXCEPT ![t] = [wiz[t] EXCEPT !.upload = file, !.issue = NoIssue]]
    BY <1>3, <1>5 DEF resolveDimensionIssueWithAutoFit, Upload, Wizards
  <2>. HIDE DEF file
  <2>. QED
    BY <1>1, <1>2, <1>3, <2>1, <2>2, CountsTyped, CreativeStep
<1>. QED
  BY <1>4, <1>5

LEMMA UploadEndsStep ==
  ASSUME WizardInv, NEW t \in WizardTabs, UploadRefused(t) \/ UploadFails(t)
  PROVE  WizardInv'
<1>1. /\ Uploading(t) /\ DraftUnchanged /\ UNCHANGED <<campaigns, submits, edits>>
      /\ UNCHANGED failures \/ Fail
  BY DEF UploadRefused, UploadFails, uploadVars, serverVars, DraftUnchanged
<1>2. Open(t)
  BY <1>1, OnlyMounted DEF Uploading
<1>3. wiz[t] \in Wizards /\ wiz[t].issue \in Issues /\ NoUpload \in Uploads
  BY TabTyped DEF WizardInv, Uploads
<1>4. wiz' = [wiz EXCEPT ![t] = [wiz[t] EXCEPT !.upload = NoUpload, !.issue = wiz[t].issue]]
  BY <1>3 DEF UploadRefused, UploadFails, WizardInv, CheckedInv, Wizards
<1>. QED
  <2>1. edits' \in 0..MaxEdits /\ failures' \in 0..MaxFailures
    BY <1>1, CountsTyped, FailTyped
  <2>2. UNCHANGED <<campaigns, submits>>
    BY <1>1
  <2>. QED
    BY <1>1, <1>2, <1>3, <1>4, <2>1, <2>2, CreativeStep

-----------------------------------------------------------------------------
(* Steps that change the form.                                             *)

LEMMA FormStep ==
  ASSUME WizardInv, NEW t \in WizardTabs, Open(t), NEW w \in Wizards, NEW form \in CheckedForms,
         Changed(t, w, form), UNCHANGED <<draft, puts, deletes, creates, blurred>>,
         UNCHANGED <<campaigns, submits, failures>>, edits' \in 0..MaxEdits,
         w.at = wiz[t].at, w.get = wiz[t].get, w.checked = wiz[t].checked,
         w.pending = wiz[t].pending, w.timer = wiz[t].timer
  PROVE  WizardInv'
<1>1. /\ wiz' \in [WizardTabs -> Wizards] /\ should' \in Saved
      /\ MountedOnly' /\ (~blurred' => OneAtATime' /\ WorkIsSomewhere')
  BY ChangedStep
<1>2. failures' \in 0..MaxFailures /\ blurred' \in BOOLEAN
  BY CountsTyped
<1>3. CheckedInv'
  BY <1>1, <1>2, StillChecked
<1>. QED
  BY <1>1, <1>3 DEF WizardInv

LEMMA Reformatted ==
  ASSUME NEW form \in CheckedForms, NEW f \in AdFormats
  PROVE  [form EXCEPT !.format = f] \in CheckedForms
<1>1. form \in Forms /\ PastedOrChecked(form.creative)
  BY DEF CheckedForms
<1>2. [form EXCEPT !.format = f] \in Forms /\ [form EXCEPT !.format = f].creative = form.creative
  BY <1>1 DEF Forms
<1>. QED
  BY <1>1, <1>2 DEF CheckedForms

LEMMA SelectFormatStep ==
  ASSUME WizardInv, NEW t \in WizardTabs, NEW f \in AdFormats, SelectFormat(t, f)
  PROVE  WizardInv'
<1>. DEFINE form == [wiz[t].form EXCEPT !.format = f]
<1>1. /\ Open(t) /\ edits < MaxEdits /\ edits' = edits + 1 /\ Changed(t, wiz[t], form)
      /\ UNCHANGED <<draft, puts, deletes, creates, blurred>>
      /\ UNCHANGED <<campaigns, submits, failures>>
  BY DEF SelectFormat, serverVars
<1>2. form \in CheckedForms /\ wiz[t] \in Wizards
  BY Reformatted, TabTyped DEF WizardInv
<1>3. edits' \in 0..MaxEdits
  BY <1>1, CountsTyped
<1>. HIDE DEF form
<1>. QED
  BY <1>1, <1>2, <1>3, FormStep

LEMMA PasteCreativeStep ==
  ASSUME WizardInv, NEW t \in WizardTabs, NEW size \in AdFormats, PasteCreative(t, size)
  PROVE  WizardInv'
<1>1. PICK creative \in {[size |-> size, for |-> Pasted], NoCreative} :
        Changed(t, wiz[t], [wiz[t].form EXCEPT !.creative = creative])
  BY DEF PasteCreative
<1>. DEFINE form == [wiz[t].form EXCEPT !.creative = creative]
<1>2. /\ Open(t) /\ edits < MaxEdits /\ edits' = edits + 1 /\ Changed(t, wiz[t], form)
      /\ UNCHANGED <<draft, puts, deletes, creates, blurred>>
      /\ UNCHANGED <<campaigns, submits, failures>>
  BY <1>1 DEF PasteCreative, serverVars
<1>3. wiz[t] \in Wizards /\ wiz[t].form \in Forms
  BY TabTyped DEF WizardInv, CheckedForms
<1>4. creative \in Creatives \cup {NoCreative} /\ PastedOrChecked(creative)
  BY DEF Creatives, NoCreative, PastedOrChecked, Accepts
<1>5. form \in CheckedForms
  <2>1. form \in Forms /\ form.creative = creative
    BY <1>3, <1>4 DEF Forms
  <2>. QED
    BY <1>4, <2>1 DEF CheckedForms
<1>6. edits' \in 0..MaxEdits
  BY <1>2, CountsTyped
<1>. HIDE DEF form
<1>. QED
  BY <1>2, <1>3, <1>5, <1>6, FormStep

LEMMA SuggestedFormatStep ==
  ASSUME WizardInv, NEW t \in WizardTabs, resolveDimensionIssueWithSuggestedFormat(t)
  PROVE  WizardInv'
<1>. DEFINE size == wiz[t].issue.size
            file == [size |-> size, for |-> wiz[t].form.format]
            form == [wiz[t].form EXCEPT !.format = size]
            w == [wiz[t] EXCEPT !.issue = NoIssue, !.upload = file]
<1>1. /\ wiz[t].issue # NoIssue /\ edits < MaxEdits /\ edits' = edits + 1
      /\ Changed(t, w, form)
      /\ UNCHANGED <<draft, puts, deletes, creates, blurred>>
      /\ UNCHANGED <<campaigns, submits, failures>>
  BY DEF resolveDimensionIssueWithSuggestedFormat, serverVars
<1>2. Open(t)
  BY <1>1, OnlyMounted
<1>3. /\ wiz[t] \in Wizards /\ wiz[t].form \in CheckedForms /\ size \in AdFormats
      /\ wiz[t].form.format \in AdFormats \cup {Unset}
  BY <1>1, TabTyped DEF WizardInv, Issues, CheckedForms, Forms
<1>4. form \in CheckedForms
  BY <1>3, Reformatted
<1>5. file \in Uploads /\ NoIssue \in Issues
  BY <1>3 DEF Uploads, Issues
<1>. HIDE DEF file, form
<1>6. /\ w \in Wizards /\ w.at = wiz[t].at /\ w.get = wiz[t].get
      /\ w.checked = wiz[t].checked /\ w.pending = wiz[t].pending /\ w.timer = wiz[t].timer
  BY <1>3, <1>5 DEF Wizards
<1>7. edits' \in 0..MaxEdits
  BY <1>1, CountsTyped
<1>. HIDE DEF w
<1>. QED
  BY <1>1, <1>2, <1>4, <1>6, <1>7, FormStep

LEMMA UploadedStep ==
  ASSUME WizardInv, NEW t \in WizardTabs, Uploaded(t) PROVE WizardInv'
<1>. DEFINE file == wiz[t].upload
            creative == [size |-> file.size, for |-> file.for]
            form == [wiz[t].form EXCEPT !.creative = creative]
            w == [wiz[t] EXCEPT !.upload = NoUpload]
<1>1. /\ Uploading(t) /\ Accepts(file) /\ Changed(t, w, form)
      /\ UNCHANGED <<draft, puts, deletes, creates, blurred>>
      /\ UNCHANGED <<campaigns, submits, failures, edits>>
  BY DEF Uploaded, serverVars
<1>2. Open(t)
  BY <1>1, OnlyMounted DEF Uploading
<1>3. /\ wiz[t] \in Wizards /\ wiz[t].form \in Forms /\ NoUpload \in Uploads
      /\ file.size \in AdFormats /\ file.for \in AdFormats \cup {Unset}
  BY <1>1, TabTyped DEF WizardInv, Uploads, Uploading, CheckedForms
<1>4. form \in CheckedForms
  <2>1. creative \in Creatives /\ PastedOrChecked(creative)
    BY <1>1, <1>3 DEF Creatives, PastedOrChecked, Accepts
  <2>. HIDE DEF creative
  <2>2. form \in Forms /\ form.creative = creative
    BY <1>3, <2>1 DEF Forms
  <2>. QED
    BY <2>1, <2>2 DEF CheckedForms
<1>. HIDE DEF form
<1>5. /\ w \in Wizards /\ w.at = wiz[t].at /\ w.get = wiz[t].get
      /\ w.checked = wiz[t].checked /\ w.pending = wiz[t].pending /\ w.timer = wiz[t].timer
  BY <1>3 DEF Wizards
<1>6. edits' \in 0..MaxEdits
  BY <1>1, CountsTyped
<1>. HIDE DEF w
<1>. QED
  BY <1>1, <1>2, <1>4, <1>5, <1>6, FormStep

-----------------------------------------------------------------------------
(* Saves and deletions of the draft.                                       *)

LEMMA discardDraftStep ==
  ASSUME WizardInv, NEW t \in WizardTabs, discardDraft(t) PROVE WizardInv'
<1>. DEFINE w == [wiz[t] EXCEPT !.pending = NoForm]
<1>1. /\ wiz[t].pending # NoForm /\ wiz' = [wiz EXCEPT ![t] = w]
      /\ deletes' = deletes \cup {t} /\ should' = NoForm
      /\ UNCHANGED <<draft, puts, creates, campaigns, submits, edits, failures, blurred>>
  BY TabTyped DEF discardDraft, WizardInv, CheckedInv
<1>2. Open(t) /\ ~Autosaves(t) /\ wiz[t].checked
  BY <1>1, OnlyMounted, Mounted DEF Autosaves
<1>3. wiz[t] \in Wizards /\ NoForm \in Saved
  BY TabTyped DEF WizardInv, Saved
<1>4. /\ w \in Wizards /\ w.at = wiz[t].at /\ w.get = wiz[t].get
      /\ w.checked = wiz[t].checked /\ w.pending = NoForm /\ w.timer = wiz[t].timer
  BY <1>3 DEF Wizards
<1>. HIDE DEF w
<1>5. /\ wiz' \in [WizardTabs -> Wizards]
      /\ wiz'[t] = w /\ \A o \in WizardTabs : o # t => wiz'[o] = wiz[o]
  BY <1>1, <1>4, TabMoves DEF WizardInv
<1>6. CheckedInv'
  <2>1. deletes' \subseteq WizardTabs /\ should' \in Saved
    BY <1>1, <1>3 DEF WizardInv, CheckedInv
  <2>. QED
    BY <1>1, <1>5, <2>1 DEF WizardInv, CheckedInv
<1>7. MountedOnly'
  BY <1>2, <1>4, <1>5 DEF WizardInv, MountedOnly, Open
<1>8. ASSUME ~blurred' PROVE OneAtATime' /\ WorkIsSomewhere'
  <2>1. OneAtATime /\ WorkIsSomewhere /\ MountedOnly /\ CheckedInv
    BY <1>1, <1>8 DEF WizardInv
  <2>2. /\ \A o \in WizardTabs : o # t => ~Open(o) /\ ~Open(o)' /\ wiz'[o] = Unmounted
        /\ Open(t)' <=> w.at = "open"
        /\ Autosaves(t)' <=> w.checked /\ w.pending = NoForm
        /\ NoTimer' <=> w.timer = NoForm
        /\ \A c \in creates : c.tab = t
    BY <1>1, <1>2, <1>4, <2>1, OnlyTab
  <2>3. wiz[t].timer = NoForm /\ puts = {} /\ deletes = {}
    BY <1>2, <2>1 DEF OneAtATime
  <2>4. Open(t)' /\ Autosaves(t)'
    BY <1>2, <1>4, <2>2 DEF Open
  <2>5. \A c \in creates' : Open(c.tab)' /\ c.waiting /\ \A d \in creates' : d = c
    BY <1>1, <2>1, <2>2, <2>4 DEF OneAtATime
  <2>6. OneAtATime'
    BY <2>2, <2>4, <2>5 DEF OneAtATime
  <2>7. \A o \in WizardTabs : wiz'[o].timer = NoForm
    BY <1>4, <2>2, <2>3 DEF NoTimer
  <2>8. DraftDeleted' <=> DraftDeleted
    BY <1>1 DEF DraftDeleted
  <2>9. deletes' # {} /\ puts' = {}
    BY <1>1, <2>3
  <2>10. WorkIsSomewhere'
    BY <1>1, <2>1, <2>7, <2>8, <2>9 DEF WorkIsSomewhere
  <2>. QED
    BY <2>6, <2>10
<1>. QED
  BY <1>6, <1>7, <1>8 DEF WizardInv

LEMMA SaveStep ==
  ASSUME WizardInv, NEW t \in WizardTabs, Save(t) PROVE WizardInv'
<1>. DEFINE w == [wiz[t] EXCEPT !.timer = NoForm]
            p == [tab |-> t, form |-> wiz[t].timer]
<1>1. /\ wiz[t].timer # NoForm /\ wiz' = [wiz EXCEPT ![t] = w] /\ puts' = puts \cup {p}
      /\ blurred' = (blurred \/ puts # {} \/ deletes # {} \/ creates # {})
      /\ UNCHANGED <<draft, deletes, creates, campaigns, submits, edits, failures, should>>
  BY TabTyped DEF Save, WizardInv, CheckedInv
<1>2. Open(t)
  BY <1>1, OnlyMounted
<1>3. wiz[t] \in Wizards /\ NoForm \in Saved /\ wiz[t].timer \in CheckedForms
  BY <1>1, TabTyped DEF WizardInv, Saved
<1>4. /\ w \in Wizards /\ w.at = wiz[t].at /\ w.get = wiz[t].get
      /\ w.checked = wiz[t].checked /\ w.pending = wiz[t].pending /\ w.timer = NoForm
  BY <1>3 DEF Wizards
<1>5. p \in [tab: WizardTabs, form: CheckedForms] /\ p.form = wiz[t].timer
  BY <1>3
<1>. HIDE DEF w, p
<1>6. /\ wiz' \in [WizardTabs -> Wizards]
      /\ wiz'[t] = w /\ \A o \in WizardTabs : o # t => wiz'[o] = wiz[o]
  BY <1>1, <1>4, TabMoves DEF WizardInv
<1>7. CheckedInv'
  <2>1. puts' \subseteq [tab: WizardTabs, form: CheckedForms] /\ blurred' \in BOOLEAN
    BY <1>1, <1>5 DEF WizardInv, CheckedInv
  <2>. QED
    BY <1>1, <1>6, <2>1 DEF WizardInv, CheckedInv
<1>8. MountedOnly'
  BY <1>2, <1>4, <1>6 DEF WizardInv, MountedOnly, Open
<1>9. ASSUME ~blurred' PROVE OneAtATime' /\ WorkIsSomewhere'
  <2>1. /\ OneAtATime /\ WorkIsSomewhere /\ MountedOnly /\ CheckedInv
        /\ puts' = {p} /\ deletes' = {} /\ creates' = {}
    BY <1>1, <1>9 DEF WizardInv
  <2>2. /\ \A o \in WizardTabs : o # t => ~Open(o) /\ ~Open(o)' /\ wiz'[o] = Unmounted
        /\ Autosaves(t)' <=> w.checked /\ w.pending = NoForm
        /\ NoTimer' <=> w.timer = NoForm
    BY <1>1, <1>2, <1>4, <2>1, OnlyTab
  <2>3. Autosaves(t)'
    BY <1>1, <1>2, <1>4, <2>1, <2>2 DEF OneAtATime, Autosaves
  <2>4. OneAtATime'
    BY <2>1, <2>2, <2>3 DEF OneAtATime
  <2>5. \A o \in WizardTabs : wiz'[o].timer = NoForm
    BY <1>4, <2>2 DEF NoTimer
  <2>6. should' = p.form
    BY <1>1, <1>5, <2>1 DEF WorkIsSomewhere
  <2>7. ~DraftDeleted'
    BY <2>1 DEF DraftDeleted
  <2>8. puts' # {} /\ \A x \in puts' : should' = x.form
    BY <2>1, <2>6
  <2>9. WorkIsSomewhere'
    BY <2>1, <2>5, <2>7, <2>8 DEF WorkIsSomewhere
  <2>. QED
    BY <2>4, <2>9
<1>. QED
  BY <1>7, <1>8, <1>9 DEF WizardInv

\* A step of a handler, the wizards staying as they are.
LEMMA TabsStay ==
  UNCHANGED wiz => /\ \A o \in WizardTabs : /\ Open(o)' <=> Open(o)
                                            /\ Autosaves(o)' <=> Autosaves(o)
                   /\ NoTimer' <=> NoTimer
                   /\ MountedOnly' <=> MountedOnly
BY DEF Open, Autosaves, NoTimer, MountedOnly

LEMMA saveCampaignDraftStep ==
  ASSUME WizardInv, NEW p \in puts, saveCampaignDraft(p) PROVE WizardInv'
<1>1. /\ puts' = puts \ {p}
      /\ UNCHANGED <<wiz, deletes, creates, campaigns, submits, edits, should>>
      /\ \/ draft' = p.form /\ UNCHANGED <<failures, blurred>>
         \/ Fail /\ blurred' = TRUE /\ UNCHANGED draft
  BY DEF saveCampaignDraft
<1>2. p.form \in CheckedForms
  BY DEF WizardInv, CheckedInv
<1>3. CheckedInv'
  <2>1. draft' \in Saved /\ failures' \in 0..MaxFailures /\ blurred' \in BOOLEAN
    BY <1>1, <1>2, CountsTyped, FailTyped DEF Saved
  <2>. QED
    BY <1>1, <2>1 DEF WizardInv, CheckedInv
<1>4. MountedOnly'
  BY <1>1, TabsStay DEF WizardInv
<1>5. ASSUME ~blurred' PROVE OneAtATime' /\ WorkIsSomewhere'
  <2>1. OneAtATime /\ WorkIsSomewhere /\ draft' = p.form
    BY <1>1, <1>5 DEF WizardInv
  <2>2. OneAtATime'
    <3>1. \A c \in creates' : Open(c.tab)' /\ c.waiting /\ \A d \in creates' : d = c
      BY <1>1, <2>1, SubmissionsTyped, TabsStay DEF OneAtATime, WizardInv
    <3>2. \A o \in WizardTabs : ~(Open(o) /\ ~Autosaves(o))
      BY <2>1 DEF OneAtATime
    <3>. QED
      BY <1>1, <2>1, <3>1, <3>2, TabsStay DEF OneAtATime
  <2>3. ~DraftDeleted /\ ~DraftDeleted'
    BY <1>1, <2>1 DEF WorkIsSomewhere, DraftDeleted
  <2>4. WorkIsSomewhere'
    BY <1>1, <2>1, <2>3, TabsStay DEF WorkIsSomewhere
  <2>. QED
    BY <2>2, <2>4
<1>. QED
  BY <1>3, <1>4, <1>5 DEF WizardInv

LEMMA deleteCampaignDraftStep ==
  ASSUME WizardInv, NEW t \in WizardTabs, deleteCampaignDraft(t) PROVE WizardInv'
<1>1. /\ t \in deletes /\ deletes' = deletes \ {t}
      /\ UNCHANGED <<wiz, puts, creates, campaigns, submits, edits, should>>
      /\ \/ draft' = NoForm /\ UNCHANGED <<failures, blurred>>
         \/ Fail /\ blurred' = TRUE /\ UNCHANGED draft
  BY DEF deleteCampaignDraft
<1>2. CheckedInv'
  <2>1. draft' \in Saved /\ failures' \in 0..MaxFailures /\ blurred' \in BOOLEAN
    BY <1>1, CountsTyped, FailTyped DEF Saved
  <2>2. deletes' \subseteq WizardTabs
    BY <1>1 DEF WizardInv, CheckedInv
  <2>. QED
    BY <1>1, <2>1, <2>2 DEF WizardInv, CheckedInv
<1>3. MountedOnly'
  BY <1>1, TabsStay DEF WizardInv
<1>4. ASSUME ~blurred' PROVE OneAtATime' /\ WorkIsSomewhere'
  <2>1. OneAtATime /\ WorkIsSomewhere /\ draft' = NoForm
    BY <1>1, <1>4 DEF WizardInv
  <2>2. OneAtATime'
    <3>1. \A c \in creates' : Open(c.tab)' /\ c.waiting /\ \A d \in creates' : d = c
      BY <1>1, <2>1, SubmissionsTyped, TabsStay DEF OneAtATime, WizardInv
    <3>2. \A o \in WizardTabs : ~(Open(o) /\ ~Autosaves(o))
      BY <1>1, <2>1 DEF OneAtATime
    <3>. QED
      BY <1>1, <2>1, <3>1, <3>2, TabsStay DEF OneAtATime
  <2>3. DraftDeleted' <=> DraftDeleted
    BY <1>1 DEF DraftDeleted
  <2>4. WorkIsSomewhere'
    BY <1>1, <2>1, <2>3, TabsStay DEF WorkIsSomewhere
  <2>. QED
    BY <2>2, <2>4
<1>. QED
  BY <1>2, <1>3, <1>4 DEF WizardInv

-----------------------------------------------------------------------------
(* Submissions.                                                            *)

LEMMA SubmitStep ==
  ASSUME WizardInv, NEW t \in WizardTabs, Submit(t) PROVE WizardInv'
<1>. DEFINE s == [n |-> submits + 1, tab |-> t, form |-> wiz[t].form, at |-> "sent",
                  waiting |-> TRUE]
<1>1. /\ Open(t) /\ ~Submitting(t) /\ submits < MaxSubmits /\ submits' = submits + 1
      /\ creates' = creates \cup {s}
      /\ UNCHANGED <<wiz, draft, puts, deletes, campaigns, edits, failures, should, blurred>>
  BY DEF Submit
<1>2. s \in Submissions /\ s.tab = t /\ s.waiting /\ s.at = "sent"
  BY <1>1, TabTyped, CountsTyped DEF WizardInv, Submissions
<1>. HIDE DEF s
<1>3. CheckedInv'
  <2>1. creates' \subseteq Submissions /\ submits' \in 0..MaxSubmits
    BY <1>1, <1>2, CountsTyped DEF WizardInv, CheckedInv
  <2>. QED
    BY <1>1, <2>1 DEF WizardInv, CheckedInv
<1>4. MountedOnly'
  BY <1>1, TabsStay DEF WizardInv
<1>5. ASSUME ~blurred' PROVE OneAtATime' /\ WorkIsSomewhere'
  <2>1. OneAtATime /\ WorkIsSomewhere
    BY <1>1, <1>5 DEF WizardInv
  <2>2. creates = {}
    BY <1>1, <2>1, SubmissionsTyped DEF OneAtATime, Submitting, WizardInv
  <2>3. creates' = {s}
    BY <1>1, <2>2
  <2>4. \A c \in creates' : Open(c.tab)' /\ c.waiting /\ \A d \in creates' : d = c
    BY <1>1, <1>2, <2>3, TabsStay
  <2>5. OneAtATime'
    BY <1>1, <2>1, <2>4, TabsStay DEF OneAtATime
  <2>6. ~DraftDeleted /\ ~DraftDeleted'
    BY <1>2, <2>2, <2>3 DEF DraftDeleted
  <2>7. WorkIsSomewhere'
    BY <1>1, <2>1, <2>6, TabsStay DEF WorkIsSomewhere
  <2>. QED
    BY <2>5, <2>7
<1>. QED
  BY <1>3, <1>4, <1>5 DEF WizardInv

LEMMA SubmissionMoves ==
  ASSUME CheckedInv, NEW c \in creates, NEW at \in {"inserted", "answered"}
  PROVE  /\ [c EXCEPT !.at = at] \in Submissions /\ [c EXCEPT !.at = at].at = at
         /\ [c EXCEPT !.at = at].tab = c.tab /\ [c EXCEPT !.at = at].waiting = c.waiting
BY DEF CheckedInv, Submissions

LEMMA InsertCampaignStep ==
  ASSUME WizardInv, NEW c \in creates, InsertCampaign(c) PROVE WizardInv'
<1>. DEFINE s == [c EXCEPT !.at = "inserted"]
            row == [n |-> c.n, form |-> c.form]
<1>1. /\ creates' = (creates \ {c}) \cup {s} /\ campaigns' = campaigns \cup {row}
      /\ c.at = "sent"
      /\ UNCHANGED <<wiz, draft, puts, deletes, submits, edits, failures, should, blurred>>
  BY DEF InsertCampaign, At
<1>2. s \in Submissions /\ s.at = "inserted" /\ s.tab = c.tab /\ s.waiting = c.waiting
  BY SubmissionMoves DEF WizardInv
<1>3. row \in [n: 1..MaxSubmits, form: CheckedForms]
  BY SubmissionsTyped DEF WizardInv
<1>. HIDE DEF s, row
<1>4. CheckedInv'
  <2>1. creates' \subseteq Submissions /\ campaigns' \subseteq [n: 1..MaxSubmits, form: CheckedForms]
    BY <1>1, <1>2, <1>3 DEF WizardInv, CheckedInv
  <2>. QED
    BY <1>1, <2>1 DEF WizardInv, CheckedInv
<1>5. MountedOnly'
  BY <1>1, TabsStay DEF WizardInv
<1>6. ASSUME ~blurred' PROVE OneAtATime' /\ WorkIsSomewhere'
  <2>1. OneAtATime /\ WorkIsSomewhere
    BY <1>1, <1>6 DEF WizardInv
  <2>2. creates = {c} /\ creates' = {s}
    BY <1>1, <2>1 DEF OneAtATime
  <2>3. \A d \in creates' : Open(d.tab)' /\ d.waiting /\ \A e \in creates' : e = d
    BY <1>1, <1>2, <2>1, <2>2, SubmissionsTyped, TabsStay DEF OneAtATime, WizardInv
  <2>4. OneAtATime'
    BY <1>1, <2>1, <2>3, TabsStay DEF OneAtATime
  <2>5. ~DraftDeleted /\ ~DraftDeleted'
    BY <1>1, <1>2, <2>2 DEF DraftDeleted
  <2>6. WorkIsSomewhere'
    BY <1>1, <2>1, <2>5, TabsStay DEF WorkIsSomewhere
  <2>. QED
    BY <2>4, <2>6
<1>. QED
  BY <1>4, <1>5, <1>6 DEF WizardInv

LEMMA DeleteRedundantDraftStep ==
  ASSUME WizardInv, NEW c \in creates, DeleteRedundantDraft(c) PROVE WizardInv'
<1>. DEFINE s == [c EXCEPT !.at = "answered"]
<1>1. /\ creates' = (creates \ {c}) \cup {s}
      /\ \/ /\ draft' = NoForm /\ UNCHANGED failures
            /\ blurred' = (blurred \/ puts # {} \/ \E t \in WizardTabs : wiz[t].timer # NoForm)
         \/ Fail /\ blurred' = TRUE /\ UNCHANGED draft
      /\ UNCHANGED <<wiz, puts, deletes, campaigns, submits, edits, should>>
  BY DEF DeleteRedundantDraft, At
<1>2. s \in Submissions /\ s.at = "answered" /\ s.tab = c.tab /\ s.waiting = c.waiting
  BY SubmissionMoves DEF WizardInv
<1>. HIDE DEF s
<1>3. CheckedInv'
  <2>1. creates' \subseteq Submissions
    BY <1>1, <1>2 DEF WizardInv, CheckedInv
  <2>2. draft' \in Saved /\ failures' \in 0..MaxFailures /\ blurred' \in BOOLEAN
    BY <1>1, CountsTyped, FailTyped DEF Saved
  <2>. QED
    BY <1>1, <2>1, <2>2 DEF WizardInv, CheckedInv
<1>4. MountedOnly'
  BY <1>1, TabsStay DEF WizardInv
<1>5. ASSUME ~blurred' PROVE OneAtATime' /\ WorkIsSomewhere'
  <2>1. /\ OneAtATime /\ WorkIsSomewhere /\ draft' = NoForm /\ puts = {}
        /\ \A t \in WizardTabs : wiz[t].timer = NoForm
    BY <1>1, <1>5 DEF WizardInv
  <2>2. creates = {c} /\ creates' = {s}
    BY <1>1, <2>1 DEF OneAtATime
  <2>3. \A d \in creates' : Open(d.tab)' /\ d.waiting /\ \A e \in creates' : e = d
    BY <1>1, <1>2, <2>1, <2>2, SubmissionsTyped, TabsStay DEF OneAtATime, WizardInv
  <2>4. OneAtATime'
    BY <1>1, <2>1, <2>3, TabsStay DEF OneAtATime
  <2>5. DraftDeleted'
    BY <1>2, <2>2 DEF DraftDeleted
  <2>6. WorkIsSomewhere'
    BY <1>1, <2>1, <2>5, TabsStay DEF WorkIsSomewhere
  <2>. QED
    BY <2>4, <2>6
<1>. QED
  BY <1>3, <1>4, <1>5 DEF WizardInv

LEMMA SubmittedStep ==
  ASSUME WizardInv, NEW c \in creates, Submitted(c) PROVE WizardInv'
<1>. DEFINE t == c.tab
<1>0. /\ Unmounted.at = "closed" /\ Unmounted.get = "none" /\ Unmounted.pending = NoForm
      /\ Unmounted.timer = NoForm /\ Unmounted \in Wizards /\ t \in WizardTabs
      /\ NoForm \in Saved
  BY FormsTyped, SubmissionsTyped DEF Unmounted, Saved, WizardInv
<1>1. /\ c.at = "answered" /\ creates' = creates \ {c}
      /\ UNCHANGED <<draft, puts, deletes, campaigns, submits, edits, failures, blurred>>
      /\ c.waiting => wiz' = [wiz EXCEPT ![t] = Unmounted] /\ should' = NoForm
      /\ ~c.waiting => UNCHANGED <<wiz, should>>
  BY DEF Submitted
<1>2. CheckedInv'
  <2>1. wiz' \in [WizardTabs -> Wizards] /\ should' \in Saved
    BY <1>0, <1>1, TabMoves, CountsTyped DEF WizardInv, CheckedInv
  <2>2. creates' \subseteq Submissions
    BY <1>1 DEF WizardInv, CheckedInv
  <2>. QED
    BY <1>1, <2>1, <2>2 DEF WizardInv, CheckedInv
<1>3. MountedOnly'
  <2>1. CASE c.waiting
    <3>1. wiz'[t] = Unmounted /\ \A o \in WizardTabs : o # t => wiz'[o] = wiz[o]
      BY <1>0, <1>1, <2>1, TabMoves DEF WizardInv
    <3>. QED
      BY <1>0, <3>1 DEF WizardInv, MountedOnly, Open
  <2>2. CASE ~c.waiting
    BY <1>1, <2>2, TabsStay DEF WizardInv
  <2>. QED
    BY <2>1, <2>2
<1>4. ASSUME ~blurred' PROVE OneAtATime' /\ WorkIsSomewhere'
  <2>1. OneAtATime /\ WorkIsSomewhere /\ MountedOnly /\ CheckedInv
    BY <1>1, <1>4 DEF WizardInv
  <2>2. c.waiting /\ Open(t) /\ creates = {c}
    BY <2>1 DEF OneAtATime
  <2>3. wiz' = [wiz EXCEPT ![t] = Unmounted] /\ should' = NoForm /\ creates' = {}
    BY <1>1, <2>2
  <2>4. NoTimer' /\ \A o \in WizardTabs : ~Open(o)'
    BY <1>0, <2>1, <2>2, <2>3, OnlyTab
  <2>5. OneAtATime'
    BY <2>3, <2>4 DEF OneAtATime
  <2>6. draft' = NoForm /\ puts' = {}
    BY <1>1, <2>1 DEF WorkIsSomewhere, DraftDeleted
  <2>7. \A o \in WizardTabs : wiz'[o].timer = NoForm
    BY <2>4 DEF NoTimer
  <2>8. ~DraftDeleted'
    BY <2>3 DEF DraftDeleted
  <2>9. WorkIsSomewhere'
    BY <2>3, <2>6, <2>7, <2>8 DEF WorkIsSomewhere
  <2>. QED
    BY <2>5, <2>9
<1>. QED
  BY <1>2, <1>3, <1>4 DEF WizardInv

LEMMA GiveUpCreateStep ==
  ASSUME WizardInv, NEW c \in creates, GiveUpCreate(c) PROVE WizardInv'
<1>. DEFINE s == [c EXCEPT !.waiting = FALSE]
<1>1. /\ creates' = (creates \ {c}) \cup {s} /\ Fail /\ blurred' = TRUE
      /\ UNCHANGED <<wiz, draft, puts, deletes, campaigns, submits, edits, should>>
  BY DEF GiveUpCreate
<1>2. s \in Submissions
  BY SubmissionsTyped DEF WizardInv, Submissions
<1>. HIDE DEF s
<1>3. CheckedInv'
  <2>1. creates' \subseteq Submissions /\ failures' \in 0..MaxFailures
    BY <1>1, <1>2, FailTyped DEF WizardInv, CheckedInv
  <2>. QED
    BY <1>1, <2>1 DEF WizardInv, CheckedInv
<1>4. MountedOnly'
  BY <1>1, TabsStay DEF WizardInv
<1>. QED
  BY <1>1, <1>3, <1>4 DEF WizardInv

-----------------------------------------------------------------------------
LEMMA WizardInvariant == WizardSpec => []WizardInv
<1>1. WizardInv /\ [WizardNext]_wizardVars => WizardInv'
  <2>. SUFFICES ASSUME WizardInv, [WizardNext]_wizardVars PROVE WizardInv'
    OBVIOUS
  <2>1. CASE UNCHANGED wizardVars
    <3>1. UNCHANGED <<wiz, draft, puts, deletes, creates, campaigns, edits, failures,
                      submits, should, blurred>>
      BY <2>1 DEF wizardVars
    <3>2. CheckedInv'
      BY <3>1 DEF WizardInv, CheckedInv
    <3>3. OneAtATime' <=> OneAtATime
      BY <3>1 DEF OneAtATime, Open, Autosaves
    <3>4. WorkIsSomewhere' <=> WorkIsSomewhere
      BY <3>1 DEF WorkIsSomewhere, NoTimer, DraftDeleted
    <3>. QED
      BY <3>1, <3>2, <3>3, <3>4, TabsStay DEF WizardInv
  <2>2. ASSUME NEW t \in WizardTabs,
               \/ Mount(t) \/ (Unmount(t) /\ ~Submitting(t))
               \/ ReadDraft(t) \/ DraftChecked(t) \/ DraftCheckFails(t)
               \/ restoreDraft(t) \/ discardDraft(t) \/ Save(t) \/ deleteCampaignDraft(t)
        PROVE  WizardInv'
    BY <2>2, MountStep, UnmountStep, ReadDraftStep, DraftCheckedStep, DraftCheckFailsStep,
       restoreDraftStep, discardDraftStep, SaveStep, deleteCampaignDraftStep
  <2>3. ASSUME NEW t \in WizardTabs,
               \/ \E f \in AdFormats : SelectFormat(t, f) \/ handleFileSelected(t, f) \/ PasteCreative(t, f)
               \/ resolveDimensionIssueWithAutoFit(t)
               \/ resolveDimensionIssueWithSuggestedFormat(t)
               \/ CancelIssue(t) \/ Uploaded(t) \/ UploadRefused(t) \/ UploadFails(t)
               \/ Submit(t)
        PROVE  WizardInv'
    BY <2>3, SelectFormatStep, PasteCreativeStep, handleFileSelectedStep, IssueStep, SuggestedFormatStep,
       UploadedStep, UploadEndsStep, SubmitStep
  <2>4. ASSUME NEW c \in creates,
               InsertCampaign(c) \/ DeleteRedundantDraft(c) \/ Submitted(c) \/ GiveUpCreate(c)
        PROVE  WizardInv'
    BY <2>4, InsertCampaignStep, DeleteRedundantDraftStep, SubmittedStep, GiveUpCreateStep
  <2>. QED
    BY <2>1, <2>2, <2>3, <2>4, saveCampaignDraftStep, Zenon DEF WizardNext
<1>. QED
  BY <1>1, WizardInitInv, PTL DEF WizardSpec

\* The wizard, the draft, the requests and the campaigns have their types.
THEOREM WizardTypeCorrect == WizardSpec => []WizardTypeOK
<1>1. WizardInv => WizardTypeOK
  <2>. SUFFICES ASSUME WizardInv PROVE WizardTypeOK
    OBVIOUS
  <2>1. CheckedForms \subseteq Forms /\ Saved \subseteq Forms \cup {NoForm}
    BY FormsTyped DEF Saved
  <2>2. \A w \in Wizards : w \in
       [at: {"closed", "open"}, get: {"none", "sent", "read"}, got: Forms \cup {NoForm},
        checked: BOOLEAN, pending: Forms \cup {NoForm}, form: Forms,
        timer: Forms \cup {NoForm},
        upload: [size: AdFormats, for: AdFormats \cup {Unset}] \cup {NoUpload},
        issue: [size: AdFormats, expected: AdFormats] \cup {NoIssue}]
    BY <2>1 DEF Wizards, Uploads, Issues
  <2>3. /\ puts \subseteq [tab: WizardTabs, form: Forms]
        /\ campaigns \subseteq [n: 1..MaxSubmits, form: Forms]
    BY <2>1 DEF WizardInv, CheckedInv
  <2>4. creates \subseteq [n: 1..MaxSubmits, tab: WizardTabs, form: Forms,
                           at: {"sent", "inserted", "answered"}, waiting: BOOLEAN]
    BY <2>1 DEF WizardInv, CheckedInv, Submissions
  <2>. QED
    BY <2>1, <2>2, <2>3, <2>4 DEF WizardInv, CheckedInv, WizardTypeOK
<1>. QED
  BY <1>1, WizardInvariant, PTL

\* uploadCreative checks an uploaded creative once, and nothing a pasted one:
\* however formats are chosen, files are picked, drafts are restored and tabs
\* submit, a campaign whose creative has not the size of its format has one that
\* was not checked, or was checked for another format.
THEOREM MisfitsEscapedTheCheck == WizardSpec => []MisfitWasNotChecked
<1>1. WizardInv => MisfitWasNotChecked
  <2>. SUFFICES ASSUME WizardInv, NEW c \in campaigns,
                       c.form.creative.size # c.form.format
                PROVE  \/ c.form.creative.for \in {Unset, Pasted}
                       \/ c.form.creative.for # c.form.format
    BY DEF MisfitWasNotChecked
  <2>1. c.form \in CheckedForms
    BY DEF WizardInv, CheckedInv
  <2>. QED
    BY <2>1 DEF CheckedForms, PastedOrChecked, Accepts
<1>. QED
  BY <1>1, WizardInvariant, PTL

\* The autosave against saveCampaignDraft, deleteCampaignDraft and createCampaign:
\* for any number of tabs, edits and submissions, once every request is answered
\* and no save is due the row holds the last work, and nothing after a submission
\* or a discard, unless two requests overlapped or one failed.
THEOREM DraftKept == WizardSpec => []DraftFollowsWork
<1>1. WizardInv => DraftFollowsWork
  BY DEF WizardInv, WorkIsSomewhere, NoTimer, DraftDeleted, DraftFollowsWork
<1>. QED
  BY <1>1, WizardInvariant, PTL
-----------------------------------------------------------------------------
(* The data views.                                                         *)

\* The facts of the views that the steps need.
ViewKinds ==
  [keyed: BOOLEAN, again: BOOLEAN, typed: BOOLEAN, closable: BOOLEAN, clears: BOOLEAN,
   hides: BOOLEAN, cancels: BOOLEAN,
   after: {"none", "patch", "reload", "patch or reload", "optimistic"},
   final: BOOLEAN, dialog: BOOLEAN, uploads: BOOLEAN]

ViewSense(v) ==
  /\ v \in ViewKinds
  /\ v.after # "none" => ~v.closable /\ ~v.clears /\ ~v.cancels
  /\ v.after = "optimistic" => v.final /\ ~v.dialog
  /\ v.uploads => v.dialog
  /\ v.clears => v.closable

\* Only a dialog can be asked for nothing, and a view that cancels has no
\* answer on its way but what it was asked last.
AskedOnly ==
  /\ view.closable \/ asked # NoKey
  /\ view.cancels => ~overtaken /\ \A f \in fetches : f.live => f.key = asked

\* What was asked is shown or on its way.
AskedIsComing ==
  asked # NoKey /\ ~overtaken /\ ~failed =>
    shows.key = asked \/ (loading /\ \E f \in fetches : f.live /\ f.key = asked)

\* Only what is shown is written, and only a write is acknowledged.
WritesWhatIsShown ==
  /\ shows.key # NoKey \/ shows = Nothing
  /\ writes # {} => shows # Nothing /\ view.after # "none"
  /\ view.after = "none" => acked = NoChanges

\* The table is ahead of every answer, and every answer of the view's writes.
ServerLeads ==
  /\ \A r \in ViewRows : acked[r] <= server[r] /\ (view.final => server[r] <= 1)
  /\ \A w \in writes : w.at = "ok" => w.count <= server[w.row]
  /\ ~crossed => \A f \in fetches : f.at = "read" => \A r \in ViewRows : acked[r] <= f.rows[r]

\* What was acknowledged is shown or on its way; what is shown as read before
\* the server knows stays so.
AckedIsComing ==
  shows # Nothing /\ ~crossed /\ ~failed =>
    /\ (\A r \in ViewRows : acked[r] <= shows.rows[r]) \/ \E f \in fetches : f.live
    /\ view.after = "optimistic" => \A w \in writes : shows.rows[w.row] = 1

\* What is typed in a dialog is its row's.
TextIsItsRows ==
  /\ target # NoKey => view.dialog
  /\ upload # NoKey => view.uploads
  /\ target = NoKey => view.uploads \/ text = NoKey
  /\ target # NoKey => strayed \/ text \in {NoKey, target}
  /\ \A w \in writes : w.text \in {NoKey, w.row} \/ strayed

ViewInv ==
  /\ ViewTypeOK /\ AskedOnly /\ AskedIsComing /\ WritesWhatIsShown
  /\ ServerLeads /\ AckedIsComing /\ TextIsItsRows

-----------------------------------------------------------------------------
(* The views, and what a load does.                                        *)

LEMMA ReportsMakeSense ==
  /\ ViewSense(Report)
  /\ ViewSense(List) /\ List \in ViewKinds /\ ~List.closable /\ ~List.clears /\ ~List.cancels
  /\ List.after = "none" /\ ~List.uploads
  /\ ViewSense(Page) /\ Page \in ViewKinds /\ ~Page.closable /\ ~Page.clears /\ ~Page.cancels
  /\ Page.after = "none" /\ ~Page.uploads /\ ~Page.dialog
  /\ ViewSense(Sheet) /\ Sheet \in ViewKinds /\ Sheet.closable /\ Sheet.after = "none"
  /\ ~Sheet.uploads
BY DEF ViewSense, ViewKinds, Report, List, Page, Sheet

LEMMA ViewsMakeSense == \A v \in Views : ViewSense(v)
<1>1. /\ ViewSense(UsersPanel) /\ ViewSense(PublishersPanel) /\ ViewSense(AdvertisersPanel)
      /\ ViewSense(CampaignReviewPanel) /\ ViewSense(PayoutsPanel) /\ ViewSense(SitesPanel)
  BY ReportsMakeSense DEF ViewSense, ViewKinds, UsersPanel, PublishersPanel, AdvertisersPanel,
       CampaignReviewPanel, PayoutsPanel, SitesPanel
<1>2. /\ ViewSense(CampaignManager) /\ ViewSense(CampaignEditDialog) /\ ViewSense(WebsitesPage)
      /\ ViewSense(BlacklistPanel) /\ ViewSense(AdvertiserWalletPage)
      /\ ViewSense(PublisherEarningsPage) /\ ViewSense(NotificationsBell)
  BY ReportsMakeSense DEF ViewSense, ViewKinds, CampaignManager, CampaignEditDialog,
       WebsitesPage, BlacklistPanel, AdvertiserWalletPage, PublisherEarningsPage,
       NotificationsBell
<1>3. /\ ViewSense(MoneyFlowPanel) /\ ViewSense(PublisherCountryReport)
      /\ ViewSense(AdvertiserCountryReport) /\ ViewSense(AdminOverview)
      /\ ViewSense(AdvertiserOverview) /\ ViewSense(PublisherOverview)
  BY ReportsMakeSense DEF ViewSense, ViewKinds, MoneyFlowPanel, PublisherCountryReport,
       AdvertiserCountryReport, AdminOverview, AdvertiserOverview, PublisherOverview
<1>4. /\ ViewSense(PublisherDetailSheet) /\ ViewSense(AdvertiserDetailSheet)
      /\ ViewSense(CampaignPerformanceDialog) /\ ViewSense(ZonePerformanceDialog)
      /\ ViewSense(CampaignFinancialsDialog) /\ ViewSense(ZoneSnippetDialog)
  BY ReportsMakeSense DEF ViewSense, ViewKinds, PublisherDetailSheet, AdvertiserDetailSheet,
       CampaignPerformanceDialog, ZonePerformanceDialog, CampaignFinancialsDialog,
       ZoneSnippetDialog
<1>5. /\ ViewSense(AnalyticsDashboard) /\ ViewSense(RevenuePanel)
      /\ ViewSense(TrafficQualityPanel) /\ ViewSense(StatisticsPage)
      /\ ViewSense(PublisherStatisticsPage)
  BY ReportsMakeSense DEF AnalyticsDashboard, RevenuePanel, TrafficQualityPanel,
       StatisticsPage, PublisherStatisticsPage
<1>. QED BY <1>1, <1>2, <1>3, <1>4, <1>5, Zenon DEF Views

FetchTypes == [key: ViewKeys, at: {"sent", "read"}, rows: Counts, live: BOOLEAN]
WriteTypes ==
  [row: ViewRows, text: Choice, at: {"sent", "ok", "refused"}, count: 0..MaxWrites,
   waiting: BOOLEAN]

LEMMA NothingTyped ==
  /\ NoChanges \in Counts /\ \A r \in ViewRows : NoChanges[r] = 0
  /\ Nothing = [key |-> NoKey, rows |-> NoChanges]
  /\ \A k \in ViewKeys :
       [key |-> k, at |-> "sent", rows |-> NoChanges, live |-> TRUE] \in FetchTypes
BY ViewAssumption DEF NoChanges, Counts, Nothing, FetchTypes

LEMMA TypesSplit ==
  ASSUME ViewTypeOK
  PROVE  /\ view \in Views /\ ViewSense(view) /\ view \in ViewKinds
         /\ server \in Counts /\ acked \in Counts
         /\ asked \in ViewKeys \cup {NoKey} /\ timer \in ViewKeys \cup {NoKey}
         /\ fetches \subseteq FetchTypes
         /\ \A f, g \in fetches : f.key = g.key => f = g
         /\ shows \in [key: ViewKeys \cup {NoKey}, rows: Counts]
         /\ target \in Choice /\ text \in Choice /\ upload \in Choice
         /\ writes \subseteq WriteTypes
         /\ asks \in 0..MaxAsks /\ lapses \in 0..MaxLapses
         /\ loading \in BOOLEAN /\ overtaken \in BOOLEAN /\ crossed \in BOOLEAN
         /\ strayed \in BOOLEAN /\ failed \in BOOLEAN
<1>1. view \in Views /\ ViewSense(view) /\ view \in ViewKinds
  BY ViewsMakeSense DEF ViewTypeOK, ViewSense
<1>. QED BY <1>1 DEF ViewTypeOK, FetchTypes, WriteTypes

\* What a load puts in flight: the key asked for, and what was there.
LEMMA FetchFacts ==
  ASSUME ViewTypeOK, NEW k \in ViewKeys
  PROVE  /\ Fetch(k) \subseteq FetchTypes
         /\ \A f, g \in Fetch(k) : f.key = g.key => f = g
         /\ \E f \in Fetch(k) : f.live /\ f.key = k
         /\ view.cancels => \A f \in Fetch(k) : f.live => f.key = k
         /\ \A f \in Fetch(k) : f.at = "read" =>
              \E g \in fetches : g.at = "read" /\ g.rows = f.rows
<1>. DEFINE new == [key |-> k, at |-> "sent", rows |-> NoChanges, live |-> TRUE]
            Kept(f) == [f EXCEPT !.live = f.live /\ ~view.cancels]
            Live(f) == [f EXCEPT !.live = TRUE]
<1>1. /\ fetches \subseteq FetchTypes /\ \A f, g \in fetches : f.key = g.key => f = g
      /\ view.cancels \in BOOLEAN
  BY TypesSplit DEF ViewKinds
<1>2. \A f \in fetches :
        /\ Kept(f) \in FetchTypes /\ Live(f) \in FetchTypes
        /\ Kept(f).key = f.key /\ Kept(f).at = f.at /\ Kept(f).rows = f.rows
        /\ Live(f).key = f.key /\ Live(f).at = f.at /\ Live(f).rows = f.rows
        /\ Live(f).live /\ (view.cancels => ~Kept(f).live)
  BY <1>1 DEF FetchTypes
<1>3. new \in FetchTypes /\ new.key = k /\ new.at = "sent" /\ new.live
  BY NothingTyped
<1>4. ASSUME NEW f \in Fetch(k)
      PROVE  \/ f = new /\ InFlight(k) = {}
             \/ \E g \in fetches : g.key # k /\ f = Kept(g)
             \/ \E g \in fetches : g.key = k /\ f = Live(g)
  BY <1>4 DEF Fetch, InFlight
<1>5. \/ InFlight(k) = {} /\ new \in Fetch(k)
      \/ \E g \in fetches : g.key = k /\ Live(g) \in Fetch(k)
  BY DEF Fetch, InFlight
<1>. HIDE DEF new, Kept, Live
<1>6. Fetch(k) \subseteq FetchTypes
  BY <1>2, <1>3, <1>4
<1>7. ASSUME NEW f \in Fetch(k), NEW g \in Fetch(k), f.key = g.key PROVE f = g
  <2>1. InFlight(k) = {} => \A h \in fetches : h.key # k
    BY DEF InFlight
  <2>2. CASE f.key = k
    <3>1. ASSUME NEW h \in Fetch(k), h.key = k
          PROVE  \/ h = new /\ InFlight(k) = {}
                 \/ \E i \in fetches : i.key = k /\ h = Live(i)
      BY <1>2, <1>4, <3>1
    <3>2. CASE InFlight(k) = {}
      BY <1>7, <2>1, <2>2, <3>1, <3>2
    <3>3. CASE InFlight(k) # {}
      BY <1>1, <1>7, <2>2, <3>1, <3>3
    <3>. QED BY <3>2, <3>3
  <2>3. CASE f.key # k
    BY <1>1, <1>2, <1>3, <1>4, <1>7, <2>3
  <2>. QED BY <2>2, <2>3
<1>8. \E f \in Fetch(k) : f.live /\ f.key = k
  BY <1>2, <1>3, <1>5
<1>9. view.cancels => \A f \in Fetch(k) : f.live => f.key = k
  BY <1>2, <1>3, <1>4
<1>10. \A f \in Fetch(k) : f.at = "read" => \E g \in fetches : g.at = "read" /\ g.rows = f.rows
  BY <1>2, <1>3, <1>4
<1>. QED BY <1>6, <1>7, <1>8, <1>9, <1>10

-----------------------------------------------------------------------------
(* Loading.                                                                *)

LEMMA InitKeepsSense == ViewInit => ViewInv
<1>. SUFFICES ASSUME ViewInit PROVE ViewInv
  OBVIOUS
<1>. DEFINE first == CHOOSE k \in ViewKeys : TRUE
            new == [key |-> first, at |-> "sent", rows |-> NoChanges, live |-> TRUE]
<1>1. first \in ViewKeys /\ first # NoKey
  BY ViewAssumption
<1>2. view \in Views /\ ViewSense(view) /\ view \in ViewKinds
  BY ViewsMakeSense DEF ViewInit, ViewSense
<1>3. /\ asked = IF view.closable THEN NoKey ELSE first
      /\ fetches = IF view.closable THEN {} ELSE {new}
      /\ loading = ~view.closable
  BY Zenon DEF ViewInit
<1>4. /\ server = NoChanges /\ acked = NoChanges /\ timer = NoKey /\ shows = Nothing
      /\ target = NoKey /\ text = NoKey /\ upload = NoKey /\ writes = {}
      /\ asks = 0 /\ lapses = 0
      /\ overtaken = FALSE /\ crossed = FALSE /\ strayed = FALSE /\ failed = FALSE
  BY DEF ViewInit
<1>5. new \in FetchTypes /\ new.key = first /\ new.at = "sent" /\ new.live
  BY <1>1, NothingTyped
<1>. HIDE DEF first, new
<1>6. ViewTypeOK
  <2>1. /\ {asked, timer} \subseteq ViewKeys \cup {NoKey} /\ fetches \subseteq FetchTypes
        /\ \A f, g \in fetches : f.key = g.key => f = g
    BY <1>1, <1>3, <1>4, <1>5
  <2>2. /\ server \in Counts /\ acked \in Counts
        /\ shows \in [key: ViewKeys \cup {NoKey}, rows: Counts]
    BY <1>4, NothingTyped
  <2>3. /\ {target, text, upload} \subseteq Choice /\ writes = {}
        /\ asks \in 0..MaxAsks /\ lapses \in 0..MaxLapses
    BY <1>4, ViewAssumption DEF Choice
  <2>4. loading \in BOOLEAN
    BY <1>3
  <2>5. {loading, overtaken, crossed, strayed, failed} \subseteq BOOLEAN
    BY <1>4, <2>4
  <2>. QED BY <1>2, <2>1, <2>2, <2>3, <2>5 DEF ViewTypeOK, FetchTypes
<1>7. AskedOnly /\ AskedIsComing
  BY <1>1, <1>2, <1>3, <1>4, <1>5 DEF AskedOnly, AskedIsComing, ViewKinds
<1>8. WritesWhatIsShown /\ TextIsItsRows /\ AckedIsComing
  BY <1>4, NothingTyped DEF WritesWhatIsShown, TextIsItsRows, AckedIsComing
<1>9. ServerLeads
  BY <1>3, <1>4, <1>5, NothingTyped DEF ServerLeads
<1>. QED BY <1>6, <1>7, <1>8, <1>9 DEF ViewInv

\* A load, of a key or again.
LEMMA FetchStep ==
  ASSUME ViewInv, NEW k \in ViewKeys, load(k),
         UNCHANGED <<view, server, shows, dialogVars, writes, acked, lapses, overtaken,
                     crossed, failed>>,
         timer' \in ViewKeys \cup {NoKey}, asks' \in 0..MaxAsks
  PROVE  ViewInv'
<1>1. asked' = k /\ fetches' = Fetch(k) /\ loading' = TRUE
  BY DEF load
<1>2. /\ view' = view /\ server' = server /\ shows' = shows /\ writes' = writes
      /\ acked' = acked /\ lapses' = lapses /\ overtaken' = overtaken /\ crossed' = crossed
      /\ failed' = failed /\ target' = target /\ text' = text /\ upload' = upload
      /\ strayed' = strayed
  BY DEF dialogVars
<1>3. ViewTypeOK /\ k # NoKey
  BY ViewAssumption DEF ViewInv
<1>4. /\ fetches' \subseteq FetchTypes
      /\ \A f, g \in fetches' : f.key = g.key => f = g
      /\ \E f \in fetches' : f.live /\ f.key = asked'
      /\ view.cancels => \A f \in fetches' : f.live => f.key = asked'
      /\ \A f \in fetches' : f.at = "read" =>
           \E g \in fetches : g.at = "read" /\ g.rows = f.rows
  BY <1>1, <1>3, FetchFacts
<1>5. ViewTypeOK'
  BY <1>1, <1>2, <1>3, <1>4 DEF ViewTypeOK, FetchTypes
<1>6. (AskedOnly /\ AskedIsComing)'
  BY <1>1, <1>2, <1>3, <1>4 DEF ViewInv, AskedOnly, AskedIsComing
<1>7. (WritesWhatIsShown /\ TextIsItsRows)'
  BY <1>2 DEF ViewInv, WritesWhatIsShown, TextIsItsRows
<1>8. ServerLeads'
  BY <1>2, <1>4 DEF ViewInv, ServerLeads
<1>9. AckedIsComing'
  BY <1>2, <1>4 DEF ViewInv, AckedIsComing
<1>. QED BY <1>5, <1>6, <1>7, <1>8, <1>9 DEF ViewInv

LEMMA AskSteps ==
  ASSUME ViewInv, (\E k \in ViewKeys : Ask(k)) \/ TypingStops
  PROVE  ViewInv'
<1>1. /\ asks \in 0..MaxAsks /\ MaxAsks \in Nat /\ timer \in ViewKeys \cup {NoKey}
      /\ asks < MaxAsks => asks + 1 \in 0..MaxAsks
  BY TypesSplit, ViewAssumption DEF ViewInv
<1>2. CASE \E k \in ViewKeys : Ask(k)
  <2>1. PICK k \in ViewKeys : Ask(k)
    BY <1>2
  <2>2. /\ load(k) /\ asks' = asks + 1 /\ asks < MaxAsks /\ timer' = timer
        /\ UNCHANGED <<view, server, shows, dialogVars, writes, acked, lapses, overtaken,
                       crossed, failed>>
    BY <2>1, Zenon DEF Ask, Asks
  <2>. QED BY <1>1, <2>2, FetchStep
<1>3. CASE TypingStops
  <2>1. /\ timer # NoKey /\ load(timer) /\ timer' = NoKey /\ asks' = asks
        /\ UNCHANGED <<view, server, shows, dialogVars, writes, acked, lapses, overtaken,
                       crossed, failed>>
    BY <1>3, Zenon DEF TypingStops
  <2>. QED BY <1>1, <2>1, FetchStep
<1>. QED BY <1>2, <1>3

LEMMA TypeStep == ASSUME ViewInv, NEW k \in ViewKeys, Type(k) PROVE ViewInv'
<1>1. /\ asks < MaxAsks /\ asks' = asks + 1 /\ timer' = k /\ view' = view
      /\ server' = server /\ asked' = asked /\ fetches' = fetches /\ loading' = loading
      /\ shows' = shows /\ writes' = writes /\ acked' = acked /\ lapses' = lapses
      /\ overtaken' = overtaken /\ crossed' = crossed /\ failed' = failed
      /\ target' = target /\ text' = text /\ upload' = upload /\ strayed' = strayed
  BY DEF Type, loadVars, dialogVars
<1>2. asks' \in 0..MaxAsks
  BY <1>1, TypesSplit, ViewAssumption DEF ViewInv
<1>3. ViewTypeOK'
  BY <1>1, <1>2 DEF ViewInv, ViewTypeOK
<1>4. (AskedOnly /\ AskedIsComing /\ WritesWhatIsShown)'
  BY <1>1 DEF ViewInv, AskedOnly, AskedIsComing, WritesWhatIsShown
<1>5. (ServerLeads /\ AckedIsComing /\ TextIsItsRows)'
  BY <1>1 DEF ViewInv, ServerLeads, AckedIsComing, TextIsItsRows
<1>. QED BY <1>3, <1>4, <1>5 DEF ViewInv

LEMMA CloseStep == ASSUME ViewInv, Close PROVE ViewInv'
<1>. DEFINE Kept(f) == [f EXCEPT !.live = f.live /\ ~view.cancels]
<1>1. /\ view.closable /\ asked' = NoKey /\ fetches' = {Kept(f) : f \in fetches}
      /\ shows' = (IF view.clears THEN Nothing ELSE shows)
  BY DEF Close
<1>2. /\ view' = view /\ server' = server /\ timer' = timer /\ loading' = loading
      /\ writes' = writes /\ acked' = acked /\ asks' = asks /\ lapses' = lapses
      /\ overtaken' = overtaken /\ crossed' = crossed /\ failed' = failed
      /\ target' = target /\ text' = text /\ upload' = upload /\ strayed' = strayed
  BY DEF Close, dialogVars
<1>3. /\ ViewTypeOK /\ ViewSense(view) /\ view \in ViewKinds /\ fetches \subseteq FetchTypes
      /\ \A f, g \in fetches : f.key = g.key => f = g
      /\ shows \in [key: ViewKeys \cup {NoKey}, rows: Counts]
  BY TypesSplit DEF ViewInv
<1>4. view.after = "none"
  BY <1>1, <1>3 DEF ViewSense, ViewKinds
<1>5. \A f \in fetches :
        /\ Kept(f) \in FetchTypes /\ Kept(f).key = f.key /\ Kept(f).at = f.at
        /\ Kept(f).rows = f.rows /\ (view.cancels => ~Kept(f).live)
  <2>1. view.cancels \in BOOLEAN
    BY <1>3 DEF ViewKinds
  <2>. QED BY <1>3, <2>1 DEF FetchTypes
<1>. HIDE DEF Kept
<1>6. /\ fetches' \subseteq FetchTypes
      /\ \A f, g \in fetches' : f.key = g.key => f = g
  BY <1>1, <1>3, <1>5
<1>7. shows' \in [key: ViewKeys \cup {NoKey}, rows: Counts]
  BY <1>1, <1>3, NothingTyped
<1>8. ViewTypeOK'
  BY <1>1, <1>2, <1>3, <1>6, <1>7 DEF ViewTypeOK, FetchTypes
<1>9. (AskedOnly /\ AskedIsComing)'
  BY <1>1, <1>2, <1>5 DEF ViewInv, AskedOnly, AskedIsComing
<1>10. writes = {} /\ acked = NoChanges
  BY <1>4 DEF ViewInv, WritesWhatIsShown
<1>11. WritesWhatIsShown'
  BY <1>1, <1>2, <1>10, NothingTyped DEF ViewInv, WritesWhatIsShown
<1>12. ServerLeads'
  BY <1>1, <1>2, <1>5 DEF ViewInv, ServerLeads
<1>13. AckedIsComing'
  <2>1. \A r \in ViewRows : acked'[r] = 0 /\ shows'.rows[r] \in Nat
    BY <1>2, <1>7, <1>10, NothingTyped, ViewAssumption DEF Counts
  <2>. QED BY <1>2, <1>10, <2>1 DEF AckedIsComing
<1>14. TextIsItsRows'
  BY <1>2 DEF ViewInv, TextIsItsRows
<1>. QED BY <1>8, <1>9, <1>11, <1>12, <1>13, <1>14 DEF ViewInv

\* An answer taken from the pool, or a GET that the server has read.
LEMMA ServerReadsStep == ASSUME ViewInv, NEW f \in fetches, ServerReads(f) PROVE ViewInv'
<1>. DEFINE g == [f EXCEPT !.at = "read", !.rows = server]
<1>1. f.at = "sent" /\ fetches' = (fetches \ {f}) \cup {g}
  BY DEF ServerReads
<1>2. /\ view' = view /\ server' = server /\ asked' = asked /\ timer' = timer
      /\ loading' = loading /\ shows' = shows
      /\ writes' = writes /\ acked' = acked /\ asks' = asks /\ lapses' = lapses
      /\ overtaken' = overtaken /\ crossed' = crossed /\ failed' = failed
      /\ target' = target /\ text' = text /\ upload' = upload /\ strayed' = strayed
  BY DEF ServerReads, dialogVars
<1>3. /\ ViewTypeOK /\ fetches \subseteq FetchTypes /\ server \in Counts
      /\ \A i, j \in fetches : i.key = j.key => i = j
  BY TypesSplit DEF ViewInv
<1>4. /\ g \in FetchTypes /\ g.key = f.key /\ g.at = "read" /\ g.rows = server
      /\ g.live = f.live
  BY <1>3 DEF FetchTypes
<1>. HIDE DEF g
<1>5. fetches' \subseteq FetchTypes /\ \A i, j \in fetches' : i.key = j.key => i = j
  BY <1>1, <1>3, <1>4
<1>6. ViewTypeOK'
  BY <1>2, <1>3, <1>5 DEF ViewTypeOK, FetchTypes
<1>7. (AskedOnly /\ AskedIsComing)'
  BY <1>1, <1>2, <1>4 DEF ViewInv, AskedOnly, AskedIsComing
<1>8. (WritesWhatIsShown /\ TextIsItsRows)'
  BY <1>2 DEF ViewInv, WritesWhatIsShown, TextIsItsRows
<1>9. (ServerLeads /\ AckedIsComing)'
  BY <1>1, <1>2, <1>4 DEF ViewInv, ServerLeads, AckedIsComing
<1>. QED BY <1>6, <1>7, <1>8, <1>9 DEF ViewInv

LEMMA AnswerStep == ASSUME ViewInv, NEW f \in fetches, Answer(f) PROVE ViewInv'
<1>. DEFINE answer == [key |-> f.key, rows |-> f.rows]
<1>1. f.at = "read" /\ fetches' = fetches \ {f}
  BY DEF Answer
<1>2. /\ view' = view /\ server' = server /\ asked' = asked /\ timer' = timer
      /\ writes' = writes /\ acked' = acked /\ asks' = asks /\ lapses' = lapses
      /\ failed' = failed
      /\ target' = target /\ text' = text /\ upload' = upload /\ strayed' = strayed
  BY DEF Answer, dialogVars
<1>3. IF f.live
        THEN /\ shows' = answer /\ loading' = FALSE
             /\ overtaken' = (overtaken \/ f.key # asked)
             /\ crossed' = (crossed \/ (view.after = "optimistic" /\ writes # {}))
        ELSE shows' = shows /\ loading' = loading /\ overtaken' = overtaken
               /\ crossed' = crossed
  BY DEF Answer, Used
<1>4. /\ ViewTypeOK /\ fetches \subseteq FetchTypes /\ view \in ViewKinds /\ ViewSense(view)
      /\ \A i, j \in fetches : i.key = j.key => i = j
      /\ overtaken \in BOOLEAN /\ crossed \in BOOLEAN /\ loading \in BOOLEAN
      /\ shows \in [key: ViewKeys \cup {NoKey}, rows: Counts]
  BY TypesSplit DEF ViewInv
<1>5. /\ f.key \in ViewKeys /\ f.rows \in Counts /\ f.key # NoKey
      /\ answer \in [key: ViewKeys \cup {NoKey}, rows: Counts]
      /\ answer.key = f.key /\ answer.rows = f.rows
  BY <1>4, ViewAssumption DEF FetchTypes
<1>6. answer # Nothing
  BY <1>5, NothingTyped
<1>. HIDE DEF answer
<1>7. /\ overtaken' \in BOOLEAN /\ crossed' \in BOOLEAN /\ loading' \in BOOLEAN
      /\ shows' \in [key: ViewKeys \cup {NoKey}, rows: Counts]
  BY <1>3, <1>4, <1>5
<1>8. ViewTypeOK'
  BY <1>1, <1>2, <1>4, <1>7 DEF ViewTypeOK, FetchTypes
<1>9. AskedOnly'
  BY <1>1, <1>2, <1>3 DEF ViewInv, AskedOnly
<1>10. AskedIsComing'
  <2>1. CASE f.live
    BY <1>2, <1>3, <1>5, <2>1 DEF AskedIsComing
  <2>2. CASE ~f.live
    BY <1>1, <1>2, <1>3, <2>2 DEF ViewInv, AskedIsComing
  <2>. QED BY <2>1, <2>2
<1>11. WritesWhatIsShown'
  BY <1>2, <1>3, <1>5, <1>6 DEF ViewInv, WritesWhatIsShown
<1>12. ServerLeads'
  BY <1>1, <1>2, <1>3 DEF ViewInv, ServerLeads
<1>13. AckedIsComing'
  <2>1. CASE f.live
    BY <1>1, <1>2, <1>3, <1>5, <2>1 DEF ViewInv, ServerLeads, AckedIsComing
  <2>2. CASE ~f.live
    BY <1>1, <1>2, <1>3, <2>2 DEF ViewInv, AckedIsComing
  <2>. QED BY <2>1, <2>2
<1>14. TextIsItsRows'
  BY <1>2 DEF ViewInv, TextIsItsRows
<1>. QED BY <1>8, <1>9, <1>10, <1>11, <1>12, <1>13, <1>14 DEF ViewInv

LEMMA FetchFailsStep == ASSUME ViewInv, NEW f \in fetches, FetchFails(f) PROVE ViewInv'
<1>1. /\ lapses < MaxLapses /\ lapses' = lapses + 1 /\ fetches' = fetches \ {f}
      /\ loading' = (IF f.live THEN FALSE ELSE loading)
      /\ overtaken' = (overtaken \/ (f.live /\ f.key # asked)) /\ failed' = TRUE
  BY DEF FetchFails, Used
<1>2. /\ view' = view /\ server' = server /\ asked' = asked /\ timer' = timer
      /\ shows' = shows /\ writes' = writes /\ acked' = acked /\ asks' = asks
      /\ crossed' = crossed
      /\ target' = target /\ text' = text /\ upload' = upload /\ strayed' = strayed
  BY DEF FetchFails, dialogVars
<1>3. /\ ViewTypeOK /\ fetches \subseteq FetchTypes
      /\ \A i, j \in fetches : i.key = j.key => i = j
      /\ overtaken \in BOOLEAN /\ loading \in BOOLEAN /\ lapses \in 0..MaxLapses
  BY TypesSplit DEF ViewInv
<1>4. /\ overtaken' \in BOOLEAN /\ loading' \in BOOLEAN /\ lapses' \in 0..MaxLapses
  <2>1. overtaken' \in BOOLEAN
    BY <1>1
  <2>2. loading' \in BOOLEAN
    BY <1>1, <1>3
  <2>3. lapses' \in 0..MaxLapses
    BY <1>1, <1>3, ViewAssumption
  <2>. QED BY <2>1, <2>2, <2>3
<1>5. ViewTypeOK'
  BY <1>1, <1>2, <1>3, <1>4 DEF ViewTypeOK, FetchTypes
<1>6. (AskedOnly /\ AskedIsComing)'
  BY <1>1, <1>2 DEF ViewInv, AskedOnly, AskedIsComing
<1>7. (WritesWhatIsShown /\ TextIsItsRows)'
  BY <1>2 DEF ViewInv, WritesWhatIsShown, TextIsItsRows
<1>8. (ServerLeads /\ AckedIsComing)'
  BY <1>1, <1>2 DEF ViewInv, ServerLeads, AckedIsComing
<1>. QED BY <1>5, <1>6, <1>7, <1>8 DEF ViewInv

-----------------------------------------------------------------------------
(* The dialog.                                                             *)

DialogSteps ==
  (\E r \in ViewRows : OpenDialog(r)) \/ TypeText \/ CloseDialog \/ UploadStarts
    \/ UploadAnswered

LEMMA DialogStep == ASSUME ViewInv, DialogSteps PROVE ViewInv'
<1>1. /\ view' = view /\ server' = server /\ asked' = asked /\ fetches' = fetches
      /\ loading' = loading /\ timer' = timer /\ shows' = shows /\ writes' = writes
      /\ acked' = acked /\ asks' = asks /\ lapses' = lapses /\ overtaken' = overtaken
      /\ crossed' = crossed /\ failed' = failed
  BY Zenon DEF DialogSteps, OpenDialog, TypeText, CloseDialog, UploadStarts, UploadAnswered,
       loadVars
<1>2. /\ ViewTypeOK /\ view \in ViewKinds /\ ViewSense(view)
      /\ target \in Choice /\ text \in Choice /\ upload \in Choice /\ strayed \in BOOLEAN
      /\ writes \subseteq WriteTypes
  BY TypesSplit DEF ViewInv
<1>3. \A r \in ViewRows : r # NoKey
  BY ViewAssumption
<1>4. /\ target' \in Choice /\ text' \in Choice /\ upload' \in Choice /\ strayed' \in BOOLEAN
      /\ TextIsItsRows'
  <2>1. CASE \E r \in ViewRows : OpenDialog(r)
    <3>1. PICK r \in ViewRows : OpenDialog(r)
      BY <2>1
    <3>2. /\ view.dialog /\ target = NoKey /\ target' = r
          /\ text' = (IF view.uploads THEN NoKey ELSE text) /\ upload' = upload
          /\ strayed' = strayed
      BY <3>1 DEF OpenDialog
    <3>. QED BY <1>1, <1>2, <1>3, <3>2 DEF ViewInv, TextIsItsRows, Choice
  <2>2. CASE TypeText
    <3>1. /\ target # NoKey /\ text' = target /\ target' = target /\ upload' = upload
          /\ strayed' = strayed
      BY <2>2 DEF TypeText
    <3>. QED BY <1>1, <1>2, <3>1 DEF ViewInv, TextIsItsRows
  <2>3. CASE CloseDialog
    <3>1. /\ target' = NoKey /\ text' = (IF view.uploads THEN text ELSE NoKey)
          /\ upload' = upload /\ strayed' = strayed
      BY <2>3 DEF CloseDialog, Closed
    <3>. QED BY <1>1, <1>2, <3>1 DEF ViewInv, TextIsItsRows, Choice
  <2>4. CASE UploadStarts
    <3>1. /\ view.uploads /\ upload' = target /\ target' = target /\ text' = text
          /\ strayed' = strayed
      BY <2>4 DEF UploadStarts
    <3>. QED BY <1>1, <1>2, <3>1 DEF ViewInv, TextIsItsRows
  <2>5. CASE UploadAnswered
    <3>1. /\ upload # NoKey /\ text' = upload /\ upload' = NoKey /\ target' = target
          /\ strayed' = (strayed \/ target # upload)
      BY <2>5 DEF UploadAnswered
    <3>. QED BY <1>1, <1>2, <3>1 DEF ViewInv, TextIsItsRows, Choice
  <2>. QED BY <2>1, <2>2, <2>3, <2>4, <2>5 DEF DialogSteps
<1>5. ViewTypeOK'
  BY <1>1, <1>2, <1>4 DEF ViewTypeOK
<1>6. (AskedOnly /\ AskedIsComing /\ WritesWhatIsShown)'
  BY <1>1 DEF ViewInv, AskedOnly, AskedIsComing, WritesWhatIsShown
<1>7. (ServerLeads /\ AckedIsComing)'
  BY <1>1 DEF ViewInv, ServerLeads, AckedIsComing
<1>. QED BY <1>4, <1>5, <1>6, <1>7 DEF ViewInv

-----------------------------------------------------------------------------
(* Writing.                                                                *)

\* A write is sent of a row that is shown.
LEMMA SendWriteFacts ==
  ASSUME ViewInv, NEW r \in ViewRows, NEW t \in Choice, Offered(r), SendWrite(r, t)
  PROVE  /\ writes' \subseteq WriteTypes
         /\ view.after # "none" /\ shows # Nothing
         /\ \A w \in writes' : w \in writes \/ (w.at = "sent" /\ w.row = r /\ w.text = t)
<1>. DEFINE new == [row |-> r, text |-> t, at |-> "sent", count |-> 0, waiting |-> TRUE]
<1>1. writes' = writes \cup {new} /\ view.after # "none" /\ shows # Nothing
  BY DEF SendWrite, Offered
<1>2. new \in WriteTypes /\ new.at = "sent" /\ new.row = r /\ new.text = t
  BY ViewAssumption DEF WriteTypes
<1>3. writes \subseteq WriteTypes
  BY TypesSplit DEF ViewInv
<1>. HIDE DEF new
<1>. QED BY <1>1, <1>2, <1>3

LEMMA ConfirmStep == ASSUME ViewInv, Confirm PROVE ViewInv'
<1>1. target # NoKey /\ Offered(target) /\ SendWrite(target, text)
  BY DEF Confirm
<1>2. /\ view' = view /\ server' = server /\ asked' = asked /\ fetches' = fetches
      /\ loading' = loading /\ timer' = timer /\ shows' = shows
      /\ acked' = acked /\ asks' = asks /\ lapses' = lapses /\ overtaken' = overtaken
      /\ crossed' = crossed /\ failed' = failed
      /\ target' = target /\ text' = text /\ upload' = upload /\ strayed' = strayed
  BY DEF Confirm, loadVars, dialogVars
<1>3. /\ ViewTypeOK /\ view \in ViewKinds /\ ViewSense(view) /\ target \in ViewRows
      /\ text \in Choice
  BY <1>1, TypesSplit DEF ViewInv, Choice
<1>4. /\ writes' \subseteq WriteTypes /\ view.after # "none" /\ shows # Nothing
      /\ \A w \in writes' :
           w \in writes \/ (w.at = "sent" /\ w.row = target /\ w.text = text)
  BY <1>1, <1>3, SendWriteFacts
<1>5. ViewTypeOK'
  BY <1>2, <1>3, <1>4 DEF ViewTypeOK, WriteTypes
<1>6. (AskedOnly /\ AskedIsComing /\ WritesWhatIsShown)'
  BY <1>2, <1>4 DEF ViewInv, AskedOnly, AskedIsComing, WritesWhatIsShown
<1>7. ServerLeads'
  BY <1>2, <1>4 DEF ViewInv, ServerLeads
<1>8. AckedIsComing'
  <2>1. view.after # "optimistic"
    BY <1>1, <1>2, <1>3 DEF ViewInv, TextIsItsRows, ViewSense
  <2>. QED BY <1>2, <2>1 DEF ViewInv, AckedIsComing
<1>9. TextIsItsRows'
  BY <1>1, <1>2, <1>4 DEF ViewInv, TextIsItsRows
<1>. QED BY <1>5, <1>6, <1>7, <1>8, <1>9 DEF ViewInv

LEMMA PressStep == ASSUME ViewInv, NEW r \in ViewRows, Press(r) PROVE ViewInv'
<1>. DEFINE marked == [shows EXCEPT !.rows[r] = 1]
<1>1. /\ Offered(r) /\ SendWrite(r, NoKey)
      /\ shows' = (IF view.after = "optimistic" THEN marked ELSE shows)
      /\ crossed' = (crossed \/ (view.after = "optimistic" /\ fetches # {}))
  BY DEF Press
<1>2. /\ view' = view /\ server' = server /\ asked' = asked /\ fetches' = fetches
      /\ loading' = loading /\ timer' = timer
      /\ acked' = acked /\ asks' = asks /\ lapses' = lapses /\ overtaken' = overtaken
      /\ failed' = failed
      /\ target' = target /\ text' = text /\ upload' = upload /\ strayed' = strayed
  BY DEF Press, loadVars, dialogVars
<1>3. /\ ViewTypeOK /\ view \in ViewKinds /\ ViewSense(view) /\ crossed \in BOOLEAN
      /\ shows \in [key: ViewKeys \cup {NoKey}, rows: Counts]
      /\ acked \in Counts /\ server \in Counts
  BY TypesSplit DEF ViewInv
<1>4. /\ writes' \subseteq WriteTypes /\ view.after # "none" /\ shows # Nothing
      /\ \A w \in writes' : w \in writes \/ (w.at = "sent" /\ w.row = r /\ w.text = NoKey)
  BY <1>1, SendWriteFacts DEF Choice
<1>5. /\ marked \in [key: ViewKeys \cup {NoKey}, rows: Counts] /\ marked.key = shows.key
      /\ marked.rows = [shows.rows EXCEPT ![r] = 1]
  <2>1. [shows.rows EXCEPT ![r] = 1] \in Counts
    BY <1>3, ViewAssumption DEF Counts
  <2>. QED BY <1>3, <2>1
<1>6. /\ shows.rows \in Counts /\ marked.rows[r] = 1
      /\ \A s \in ViewRows \ {r} : marked.rows[s] = shows.rows[s]
  BY <1>3, <1>5 DEF Counts
<1>7. shows.key # NoKey /\ Nothing.key = NoKey
  BY <1>4, NothingTyped DEF ViewInv, WritesWhatIsShown
<1>. HIDE DEF marked
<1>8. /\ shows' \in [key: ViewKeys \cup {NoKey}, rows: Counts] /\ shows'.key = shows.key
      /\ crossed' \in BOOLEAN
  BY <1>1, <1>3, <1>5
<1>9. ViewTypeOK'
  BY <1>2, <1>3, <1>4, <1>8 DEF ViewTypeOK, WriteTypes
<1>10. (AskedOnly /\ AskedIsComing)'
  BY <1>2, <1>8 DEF ViewInv, AskedOnly, AskedIsComing
<1>11. WritesWhatIsShown'
  BY <1>2, <1>4, <1>7, <1>8 DEF ViewInv, WritesWhatIsShown
<1>12. ServerLeads'
  BY <1>1, <1>2, <1>4 DEF ViewInv, ServerLeads
<1>13. AckedIsComing'
  <2>1. CASE view.after # "optimistic"
    BY <1>1, <1>2, <2>1 DEF ViewInv, AckedIsComing
  <2>2. CASE view.after = "optimistic"
    <3>1. SUFFICES ASSUME ~crossed', ~failed'
                   PROVE  /\ \A s \in ViewRows : acked[s] <= shows'.rows[s]
                          /\ \A w \in writes' : shows'.rows[w.row] = 1
      BY <1>2 DEF AckedIsComing
    <3>2. /\ shows' = marked
          /\ \A s \in ViewRows : acked[s] <= shows.rows[s]
          /\ \A w \in writes : shows.rows[w.row] = 1
      BY <1>1, <1>2, <1>4, <2>2, <3>1 DEF ViewInv, AckedIsComing
    <3>3. acked[r] \in Nat /\ server[r] \in Nat /\ acked[r] <= server[r] /\ server[r] <= 1
      BY <1>3, <2>2, ViewAssumption DEF ViewInv, ServerLeads, ViewSense, Counts
    <3>4. ASSUME NEW s \in ViewRows PROVE acked[s] <= marked.rows[s]
      <4>1. CASE s = r
        BY <1>6, <3>3, <4>1
      <4>2. CASE s # r
        BY <1>6, <3>2, <4>2
      <4>. QED BY <4>1, <4>2
    <3>5. ASSUME NEW w \in writes' PROVE marked.rows[w.row] = 1
      <4>1. w.row \in ViewRows
        BY <1>4 DEF WriteTypes
      <4>. QED BY <1>4, <1>6, <3>2, <4>1
    <3>. QED BY <3>2, <3>4, <3>5
  <2>. QED BY <2>1, <2>2
<1>14. TextIsItsRows'
  BY <1>2, <1>4 DEF ViewInv, TextIsItsRows
<1>. QED BY <1>9, <1>10, <1>11, <1>12, <1>13, <1>14 DEF ViewInv

LEMMA OtherWritesStep == ASSUME ViewInv, NEW r \in ViewRows, OtherWrites(r) PROVE ViewInv'
<1>1. /\ server[r] < MaxWrites /\ (view.final => server[r] = 0)
      /\ server' = [server EXCEPT ![r] = server[r] + 1]
  BY DEF OtherWrites
<1>2. /\ view' = view /\ asked' = asked /\ fetches' = fetches /\ loading' = loading
      /\ timer' = timer /\ shows' = shows /\ writes' = writes
      /\ acked' = acked /\ asks' = asks /\ lapses' = lapses /\ overtaken' = overtaken
      /\ crossed' = crossed /\ failed' = failed
      /\ target' = target /\ text' = text /\ upload' = upload /\ strayed' = strayed
  BY DEF OtherWrites, loadVars, dialogVars
<1>3. /\ ViewTypeOK /\ server \in Counts /\ acked \in Counts /\ writes \subseteq WriteTypes
      /\ MaxWrites \in Nat
  BY TypesSplit, ViewAssumption DEF ViewInv
<1>4. /\ server' \in Counts
      /\ \A s \in ViewRows : server[s] <= server'[s] /\ (view.final => server'[s] <= 1)
  <2>1. \A s \in ViewRows : server[s] \in 0..MaxWrites /\ (view.final => server[s] <= 1)
    BY <1>3 DEF ViewInv, ServerLeads, Counts
  <2>2. \A s \in ViewRows :
          /\ server'[s] = IF s = r THEN server[r] + 1 ELSE server[s]
          /\ server'[s] \in 0..MaxWrites
    BY <1>1, <1>3, <2>1 DEF Counts
  <2>3. server' \in Counts
    BY <1>1, <1>3, <2>1 DEF Counts
  <2>. QED BY <1>1, <1>3, <2>1, <2>2, <2>3
<1>5. ViewTypeOK'
  BY <1>2, <1>3, <1>4 DEF ViewTypeOK
<1>6. (AskedOnly /\ AskedIsComing /\ WritesWhatIsShown)'
  BY <1>2 DEF ViewInv, AskedOnly, AskedIsComing, WritesWhatIsShown
<1>7. ServerLeads'
  <2>1. \A s \in ViewRows : acked'[s] <= server'[s]
    BY <1>2, <1>3, <1>4 DEF ViewInv, ServerLeads, Counts
  <2>2. \A w \in writes : w.at = "ok" => w.count <= server'[w.row]
    BY <1>3, <1>4 DEF ViewInv, ServerLeads, Counts, WriteTypes
  <2>. QED BY <1>2, <1>4, <2>1, <2>2 DEF ViewInv, ServerLeads
<1>8. (AckedIsComing /\ TextIsItsRows)'
  BY <1>2 DEF ViewInv, AckedIsComing, TextIsItsRows
<1>. QED BY <1>5, <1>6, <1>7, <1>8 DEF ViewInv

\* What a handler may do with a write that was sent.
LEMMA ServerWritesFacts ==
  ASSUME ViewInv, NEW w \in writes, ServerWrites(w)
  PROVE  /\ server' \in Counts
         /\ \A s \in ViewRows : server[s] <= server'[s] /\ (view.final => server'[s] <= 1)
         /\ \E a \in {"ok", "refused"}, n \in 0..MaxWrites :
              /\ writes' = (writes \ {w}) \cup {[w EXCEPT !.at = a, !.count = n]}
              /\ n <= server'[w.row]
<1>. DEFINE r == w.row
            Becomes(a, n) == writes' = (writes \ {w}) \cup {[w EXCEPT !.at = a, !.count = n]}
<1>1. /\ server \in Counts /\ r \in ViewRows /\ MaxWrites \in Nat
      /\ \A s \in ViewRows : server[s] \in 0..MaxWrites /\ (view.final => server[s] <= 1)
  BY TypesSplit, ViewAssumption DEF ViewInv, ServerLeads, Counts, WriteTypes
<1>2. \/ (Becomes("refused", 0) \/ Becomes("ok", server[r])) /\ server' = server
      \/ /\ server[r] < MaxWrites /\ (view.final => ~(server[r] > 0))
         /\ server' = [server EXCEPT ![r] = server[r] + 1] /\ Becomes("ok", server[r] + 1)
  BY DEF ServerWrites
<1>. HIDE DEF Becomes, r
<1>3. CASE (Becomes("refused", 0) \/ Becomes("ok", server[r])) /\ server' = server
  <2>1. /\ server' \in Counts
        /\ \A s \in ViewRows : server[s] <= server'[s] /\ (view.final => server'[s] <= 1)
    BY <1>1, <1>3
  <2>2. \E a \in {"ok", "refused"}, n \in 0..MaxWrites : Becomes(a, n) /\ n <= server'[r]
    BY <1>1, <1>3
  <2>. QED BY <2>1, <2>2 DEF Becomes, r
<1>4. CASE /\ server[r] < MaxWrites /\ (view.final => ~(server[r] > 0))
           /\ server' = [server EXCEPT ![r] = server[r] + 1] /\ Becomes("ok", server[r] + 1)
  <2>1. \A s \in ViewRows :
          /\ server'[s] = IF s = r THEN server[r] + 1 ELSE server[s]
          /\ server'[s] \in 0..MaxWrites
    BY <1>1, <1>4 DEF Counts
  <2>2. server' \in Counts
    BY <1>1, <1>4 DEF Counts
  <2>3. \A s \in ViewRows : server[s] <= server'[s] /\ (view.final => server'[s] <= 1)
    BY <1>1, <1>4, <2>1
  <2>4. \E a \in {"ok", "refused"}, n \in 0..MaxWrites : Becomes(a, n) /\ n <= server'[r]
    <3>1. server[r] + 1 \in 0..MaxWrites /\ server[r] + 1 <= server'[r]
      BY <1>1, <1>4, <2>1
    <3>. QED BY <1>4, <3>1
  <2>. QED BY <2>2, <2>3, <2>4 DEF Becomes, r
<1>. QED BY <1>2, <1>3, <1>4

LEMMA ServerWritesStep == ASSUME ViewInv, NEW w \in writes, ServerWrites(w) PROVE ViewInv'
<1>1. PICK a \in {"ok", "refused"}, n \in 0..MaxWrites :
        /\ writes' = (writes \ {w}) \cup {[w EXCEPT !.at = a, !.count = n]}
        /\ n <= server'[w.row]
  BY ServerWritesFacts
<1>. DEFINE now == [w EXCEPT !.at = a, !.count = n]
<1>2. /\ view' = view /\ asked' = asked /\ fetches' = fetches /\ loading' = loading
      /\ timer' = timer /\ shows' = shows
      /\ acked' = acked /\ asks' = asks /\ lapses' = lapses /\ overtaken' = overtaken
      /\ crossed' = crossed /\ failed' = failed
      /\ target' = target /\ text' = text /\ upload' = upload /\ strayed' = strayed
  BY DEF ServerWrites, loadVars, dialogVars
<1>3. /\ ViewTypeOK /\ server \in Counts /\ acked \in Counts /\ writes \subseteq WriteTypes
      /\ MaxWrites \in Nat
  BY TypesSplit, ViewAssumption DEF ViewInv
<1>4. /\ server' \in Counts
      /\ \A s \in ViewRows : server[s] <= server'[s] /\ (view.final => server'[s] <= 1)
  BY ServerWritesFacts
<1>5. /\ now \in WriteTypes /\ now.row = w.row /\ now.text = w.text /\ now.count = n
      /\ writes' = (writes \ {w}) \cup {now}
  BY <1>1, <1>3 DEF WriteTypes
<1>. HIDE DEF now
<1>6. ViewTypeOK'
  BY <1>2, <1>3, <1>4, <1>5 DEF ViewTypeOK, WriteTypes
<1>7. (AskedOnly /\ AskedIsComing /\ WritesWhatIsShown)'
  BY <1>2 DEF ViewInv, AskedOnly, AskedIsComing, WritesWhatIsShown
<1>8. ServerLeads'
  <2>1. \A s \in ViewRows : acked'[s] <= server'[s]
    BY <1>2, <1>3, <1>4 DEF ViewInv, ServerLeads, Counts
  <2>2. \A v \in writes : v.at = "ok" => v.count <= server'[v.row]
    BY <1>3, <1>4 DEF ViewInv, ServerLeads, Counts, WriteTypes
  <2>3. \A v \in writes' : v.at = "ok" => v.count <= server'[v.row]
    BY <1>1, <1>5, <2>2
  <2>. QED BY <1>2, <1>4, <2>1, <2>3 DEF ViewInv, ServerLeads
<1>9. (AckedIsComing /\ TextIsItsRows)'
  BY <1>2, <1>5 DEF ViewInv, AckedIsComing, TextIsItsRows
<1>. QED BY <1>6, <1>7, <1>8, <1>9 DEF ViewInv

LEMMA WriteEndsStep == ASSUME ViewInv, NEW w \in writes, WriteEnds(w) PROVE ViewInv'
<1>1. /\ view' = view /\ server' = server /\ asked' = asked /\ fetches' = fetches
      /\ loading' = loading /\ timer' = timer /\ shows' = shows
      /\ acked' = acked /\ asks' = asks /\ lapses' = lapses /\ overtaken' = overtaken
      /\ crossed' = crossed /\ failed' = failed
      /\ target' = target /\ text' = text /\ upload' = upload /\ strayed' = strayed
  BY DEF WriteEnds, loadVars, dialogVars
<1>2. writes' = writes \ {w}
  BY DEF WriteEnds
<1>3. ViewTypeOK'
  BY <1>1, <1>2 DEF ViewInv, ViewTypeOK
<1>4. (AskedOnly /\ AskedIsComing /\ WritesWhatIsShown)'
  BY <1>1, <1>2 DEF ViewInv, AskedOnly, AskedIsComing, WritesWhatIsShown
<1>5. (ServerLeads /\ AckedIsComing /\ TextIsItsRows)'
  BY <1>1, <1>2 DEF ViewInv, ServerLeads, AckedIsComing, TextIsItsRows
<1>. QED BY <1>3, <1>4, <1>5 DEF ViewInv

LEMMA GiveUpWriteStep == ASSUME ViewInv, NEW w \in writes, GiveUpWrite(w) PROVE ViewInv'
<1>. DEFINE now == [w EXCEPT !.waiting = FALSE]
<1>1. /\ view' = view /\ server' = server /\ asked' = asked /\ fetches' = fetches
      /\ loading' = loading /\ timer' = timer /\ shows' = shows
      /\ acked' = acked /\ asks' = asks /\ overtaken' = overtaken
      /\ crossed' = crossed /\ failed' = failed
      /\ target' = target /\ text' = text /\ upload' = upload /\ strayed' = strayed
  BY DEF GiveUpWrite, loadVars, dialogVars
<1>2. writes' = (writes \ {w}) \cup {now} /\ lapses < MaxLapses /\ lapses' = lapses + 1
  BY DEF GiveUpWrite
<1>3. ViewTypeOK /\ writes \subseteq WriteTypes /\ lapses \in 0..MaxLapses
  BY TypesSplit DEF ViewInv
<1>4. /\ now \in WriteTypes /\ now.row = w.row /\ now.text = w.text /\ now.at = w.at
      /\ now.count = w.count
  BY <1>3 DEF WriteTypes
<1>. HIDE DEF now
<1>5. lapses' \in 0..MaxLapses
  BY <1>2, <1>3, ViewAssumption
<1>6. ViewTypeOK'
  BY <1>1, <1>2, <1>3, <1>4, <1>5 DEF ViewTypeOK, WriteTypes
<1>7. (AskedOnly /\ AskedIsComing /\ WritesWhatIsShown)'
  BY <1>1, <1>2 DEF ViewInv, AskedOnly, AskedIsComing, WritesWhatIsShown
<1>8. (ServerLeads /\ AckedIsComing /\ TextIsItsRows)'
  BY <1>1, <1>2, <1>4 DEF ViewInv, ServerLeads, AckedIsComing, TextIsItsRows
<1>. QED BY <1>6, <1>7, <1>8 DEF ViewInv

\* What the answer of a write does to what was acknowledged.
LEMMA AckedFacts ==
  ASSUME ViewInv, NEW w \in writes, WriteAnswered(w)
  PROVE  /\ w.row \in ViewRows /\ w.count \in 0..MaxWrites /\ acked' \in Counts
         /\ w.count <= server[w.row]
         /\ \A r \in ViewRows \ {w.row} : acked'[r] = acked[r]
         /\ acked'[w.row] = IF w.count > acked[w.row] THEN w.count ELSE acked[w.row]
         /\ acked'[w.row] <= server[w.row]
         /\ ~crossed' => ~crossed /\ fetches = {} /\ acked'[w.row] = w.count
<1>1. /\ w.row \in ViewRows /\ w.count \in 0..MaxWrites /\ acked \in Counts
      /\ server \in Counts /\ MaxWrites \in Nat
  BY TypesSplit, ViewAssumption DEF ViewInv, WriteTypes
<1>. DEFINE most == IF w.count > acked[w.row] THEN w.count ELSE acked[w.row]
<1>2. /\ acked' = [acked EXCEPT ![w.row] = most]
      /\ crossed' = (crossed \/ fetches # {} \/ w.count < acked[w.row]) /\ w.at = "ok"
  BY DEF WriteAnswered
<1>3. acked[w.row] \in 0..MaxWrites /\ server[w.row] \in 0..MaxWrites
  BY <1>1 DEF Counts
<1>4. /\ most \in 0..MaxWrites /\ w.count <= server[w.row] /\ most <= server[w.row]
      /\ ~(w.count < acked[w.row]) => most = w.count
  BY <1>1, <1>2, <1>3 DEF ViewInv, ServerLeads
<1>5. acked' \in Counts /\ acked'[w.row] = most
  <2>. HIDE DEF most
  <2>. QED BY <1>1, <1>2, <1>4 DEF Counts
<1>6. \A r \in ViewRows \ {w.row} : acked'[r] = acked[r]
  BY <1>1, <1>2 DEF Counts
<1>. QED BY <1>1, <1>2, <1>4, <1>5, <1>6

\* What it does to what is shown and asked.
LEMMA WrittenFacts ==
  ASSUME ViewInv, NEW w \in writes, WriteAnswered(w)
  PROVE  /\ shows # Nothing /\ shows' # Nothing /\ shows'.key = shows.key
         /\ shows' \in [key: ViewKeys \cup {NoKey}, rows: Counts]
         /\ asked' = asked /\ loading' \in BOOLEAN
         /\ \/ fetches' = fetches /\ loading' = loading
            \/ asked \in ViewKeys /\ fetches' = Fetch(asked) /\ loading' = TRUE
         /\ \/ /\ view.after \in {"patch", "patch or reload"}
               /\ shows'.rows[w.row] = w.count
               /\ \A r \in ViewRows \ {w.row} : shows'.rows[r] = shows.rows[r]
            \/ /\ view.after \in {"reload", "patch or reload"} /\ shows' = shows
               /\ asked \in ViewKeys /\ fetches' = Fetch(asked)
            \/ view.after = "optimistic" /\ shows' = shows
<1>. DEFINE patched == [shows EXCEPT !.rows[w.row] = w.count]
<1>1. Written(w)
  BY DEF WriteAnswered
<1>2. /\ ViewTypeOK /\ view \in ViewKinds /\ ViewSense(view) /\ loading \in BOOLEAN
      /\ asked \in ViewKeys \cup {NoKey}
      /\ shows \in [key: ViewKeys \cup {NoKey}, rows: Counts]
  BY TypesSplit DEF ViewInv
<1>3. shows # Nothing /\ shows.key # NoKey /\ Nothing.key = NoKey
  BY NothingTyped DEF ViewInv, WritesWhatIsShown
<1>4. CASE /\ view.after \in {"patch", "patch or reload"} /\ UNCHANGED loadVars
           /\ shows' = patched
  <2>1. asked' = asked /\ fetches' = fetches /\ loading' = loading
    BY <1>4 DEF loadVars
  <2>2. w.row \in ViewRows /\ w.count \in 0..MaxWrites
    BY AckedFacts
  <2>3. [shows.rows EXCEPT ![w.row] = w.count] \in Counts
    BY <1>2, <2>2 DEF Counts
  <2>4. /\ patched \in [key: ViewKeys \cup {NoKey}, rows: Counts]
        /\ patched.key = shows.key /\ patched.rows = [shows.rows EXCEPT ![w.row] = w.count]
    BY <1>2, <2>3
  <2>5. /\ patched.rows[w.row] = w.count
        /\ \A r \in ViewRows \ {w.row} : patched.rows[r] = shows.rows[r]
    BY <1>2, <2>2, <2>4 DEF Counts
  <2>. HIDE DEF patched
  <2>. QED BY <1>2, <1>3, <1>4, <2>1, <2>4, <2>5
<1>5. CASE view.after \in {"reload", "patch or reload"} /\ load(asked) /\ UNCHANGED shows
  <2>1. asked' = asked /\ fetches' = Fetch(asked) /\ loading' = TRUE /\ shows' = shows
    BY <1>5 DEF load
  <2>2. asked \in ViewKeys
    BY <1>2, <1>5 DEF ViewInv, AskedOnly, ViewSense
  <2>. QED BY <1>2, <1>3, <1>5, <2>1, <2>2
<1>6. CASE view.after = "optimistic" /\ UNCHANGED <<shows, loadVars>>
  <2>1. asked' = asked /\ fetches' = fetches /\ loading' = loading /\ shows' = shows
    BY <1>6 DEF loadVars
  <2>. QED BY <1>2, <1>3, <1>6, <2>1
<1>. QED BY <1>1, <1>4, <1>5, <1>6, Zenon DEF Written

LEMMA WriteAnsweredStep == ASSUME ViewInv, NEW w \in writes, WriteAnswered(w) PROVE ViewInv'
<1>1. /\ view' = view /\ server' = server /\ timer' = timer /\ asks' = asks
      /\ lapses' = lapses /\ overtaken' = overtaken /\ failed' = failed
      /\ upload' = upload /\ strayed' = strayed /\ writes' = writes \ {w} /\ target' = NoKey
      /\ text' = (IF view.dialog THEN (IF view.uploads THEN text ELSE NoKey) ELSE text)
      /\ crossed' = (crossed \/ fetches # {} \/ w.count < acked[w.row])
  BY DEF WriteAnswered, Closed
<1>2. /\ ViewTypeOK /\ view \in ViewKinds /\ ViewSense(view) /\ fetches \subseteq FetchTypes
      /\ \A f, g \in fetches : f.key = g.key => f = g
      /\ text \in Choice /\ crossed \in BOOLEAN /\ server \in Counts
  BY TypesSplit DEF ViewInv
<1>3. /\ fetches' \subseteq FetchTypes
      /\ \A f, g \in fetches' : f.key = g.key => f = g
      /\ view.cancels => fetches' = fetches \/ \A f \in fetches' : f.live => f.key = asked
      /\ \A f \in fetches' : f.at = "read" =>
           \E g \in fetches : g.at = "read" /\ g.rows = f.rows
  <2>1. CASE fetches' = fetches
    BY <1>2, <2>1
  <2>2. CASE asked \in ViewKeys /\ fetches' = Fetch(asked)
    BY <1>2, <2>2, FetchFacts
  <2>. QED BY <2>1, <2>2, WrittenFacts
<1>4. ViewTypeOK'
  <2>1. crossed' \in BOOLEAN
    BY <1>1
  <2>2. text' \in Choice /\ target' \in Choice
    BY <1>1, <1>2 DEF Choice
  <2>3. /\ asked' = asked /\ loading' \in BOOLEAN /\ acked' \in Counts
        /\ shows' \in [key: ViewKeys \cup {NoKey}, rows: Counts]
    BY WrittenFacts, AckedFacts
  <2>. QED BY <1>1, <1>2, <1>3, <2>1, <2>2, <2>3 DEF ViewTypeOK, FetchTypes
<1>5. AskedOnly'
  <2>1. /\ view.closable \/ asked # NoKey
        /\ view.cancels => ~overtaken /\ \A f \in fetches : f.live => f.key = asked
    BY DEF ViewInv, AskedOnly
  <2>2. asked' = asked
    BY WrittenFacts
  <2>3. view.cancels => \A f \in fetches' : f.live => f.key = asked
    BY <1>3, <2>1
  <2>. QED BY <1>1, <2>1, <2>2, <2>3 DEF AskedOnly
<1>6. AskedIsComing'
  <2>1. CASE fetches' = fetches /\ loading' = loading
    BY <1>1, <2>1, WrittenFacts DEF ViewInv, AskedIsComing
  <2>2. CASE asked \in ViewKeys /\ fetches' = Fetch(asked) /\ loading' = TRUE
    <3>1. \E f \in fetches' : f.live /\ f.key = asked
      BY <1>2, <2>2, FetchFacts
    <3>. QED BY <2>2, <3>1, WrittenFacts DEF AskedIsComing
  <2>. QED BY <2>1, <2>2, WrittenFacts
<1>7. WritesWhatIsShown'
  <2>1. shows' # Nothing /\ shows'.key = shows.key /\ shows.key # NoKey
    BY WrittenFacts DEF ViewInv, WritesWhatIsShown
  <2>. QED BY <1>1, <2>1 DEF ViewInv, WritesWhatIsShown
<1>8. ServerLeads'
  <2>1. \A r \in ViewRows : acked'[r] <= server[r]
    BY AckedFacts DEF ViewInv, ServerLeads
  <2>2. ~crossed' => fetches = {}
    BY AckedFacts
  <2>. QED BY <1>1, <1>3, <2>1, <2>2 DEF ViewInv, ServerLeads
<1>9. AckedIsComing'
  <2>1. SUFFICES ASSUME ~crossed', ~failed'
        PROVE  /\ \/ \A r \in ViewRows : acked'[r] <= shows'.rows[r]
                  \/ \E f \in fetches' : f.live
               /\ view.after = "optimistic" => \A v \in writes' : shows'.rows[v.row] = 1
    BY <1>1 DEF AckedIsComing
  <2>2. /\ ~crossed /\ fetches = {} /\ acked'[w.row] = w.count /\ w.count \in 0..MaxWrites
        /\ \A r \in ViewRows \ {w.row} : acked'[r] = acked[r]
        /\ w.row \in ViewRows /\ w.count <= server[w.row] /\ MaxWrites \in Nat
    BY <2>1, AckedFacts, ViewAssumption
  <2>3. /\ \A r \in ViewRows : acked[r] <= shows.rows[r]
        /\ view.after = "optimistic" => \A v \in writes : shows.rows[v.row] = 1
    BY <1>1, <2>1, <2>2, WrittenFacts DEF ViewInv, AckedIsComing
  <2>4. CASE /\ view.after \in {"patch", "patch or reload"}
             /\ shows'.rows[w.row] = w.count
             /\ \A r \in ViewRows \ {w.row} : shows'.rows[r] = shows.rows[r]
    <3>1. /\ shows'.rows[w.row] = w.count
          /\ \A r \in ViewRows \ {w.row} : shows'.rows[r] = shows.rows[r]
      BY <2>4
    <3>2. ASSUME NEW r \in ViewRows PROVE acked'[r] <= shows'.rows[r]
      <4>1. CASE r = w.row
        BY <2>2, <3>1, <4>1
      <4>2. CASE r # w.row
        BY <2>2, <2>3, <3>1, <4>2
      <4>. QED BY <4>1, <4>2
    <3>. QED BY <2>4, <3>2
  <2>5. CASE /\ view.after \in {"reload", "patch or reload"}
             /\ asked \in ViewKeys /\ fetches' = Fetch(asked)
    <3>1. asked \in ViewKeys /\ fetches' = Fetch(asked)
      BY <2>5
    <3>2. \E f \in fetches' : f.live
      BY <1>2, <3>1, FetchFacts
    <3>. QED BY <2>5, <3>2
  <2>6. CASE view.after = "optimistic"
    <3>1. shows' = shows
      BY <2>6, WrittenFacts
    <3>2. server[w.row] \in Nat /\ server[w.row] <= 1
      BY <1>2, <2>2, <2>6 DEF ViewInv, ServerLeads, ViewSense, Counts
    <3>3. ASSUME NEW r \in ViewRows PROVE acked'[r] <= shows'.rows[r]
      <4>1. CASE r = w.row
        BY <2>2, <2>3, <2>6, <3>1, <3>2, <4>1
      <4>2. CASE r # w.row
        BY <2>2, <2>3, <3>1, <4>2
      <4>. QED BY <4>1, <4>2
    <3>. QED BY <1>1, <2>3, <2>6, <3>1, <3>3
  <2>. QED BY <2>4, <2>5, <2>6, WrittenFacts
<1>10. TextIsItsRows'
  <2>1. view.uploads \/ text' = NoKey
    BY <1>1, <1>2 DEF ViewInv, TextIsItsRows
  <2>. QED BY <1>1, <2>1 DEF ViewInv, TextIsItsRows
<1>. QED BY <1>4, <1>5, <1>6, <1>7, <1>8, <1>9, <1>10 DEF ViewInv

-----------------------------------------------------------------------------
LEMMA ViewInvIsInvariant == ViewSpec => []ViewInv
<1>1. ASSUME ViewInv, [ViewNext]_viewVars PROVE ViewInv'
  <2>1. CASE UNCHANGED viewVars
    BY <1>1, <2>1 DEF viewVars, ViewInv, ViewTypeOK, AskedOnly, AskedIsComing,
         WritesWhatIsShown, ServerLeads, AckedIsComing, TextIsItsRows
  <2>2. CASE \/ (\E k \in ViewKeys : Ask(k)) \/ TypingStops
             \/ (\E k \in ViewKeys : Type(k)) \/ Close
    BY <1>1, <2>2, AskSteps, TypeStep, CloseStep
  <2>3. CASE \E f \in fetches : ServerReads(f) \/ Answer(f) \/ FetchFails(f)
    BY <1>1, <2>3, ServerReadsStep, AnswerStep, FetchFailsStep
  <2>4. CASE DialogSteps
    BY <1>1, <2>4, DialogStep
  <2>5. CASE (\E r \in ViewRows : Press(r) \/ OtherWrites(r)) \/ Confirm
    BY <1>1, <2>5, PressStep, OtherWritesStep, ConfirmStep
  <2>6. CASE \E w \in writes :
               ServerWrites(w) \/ WriteAnswered(w) \/ WriteEnds(w) \/ GiveUpWrite(w)
    BY <1>1, <2>6, ServerWritesStep, WriteAnsweredStep, WriteEndsStep, GiveUpWriteStep
  <2>. QED BY <1>1, <2>1, <2>2, <2>3, <2>4, <2>5, <2>6, Zenon DEF ViewNext, DialogSteps
<1>. QED BY <1>1, InitKeepsSense, PTL DEF ViewSpec

\* Whatever is clicked, searched or closed, and in whatever order the answers
\* come (apiFetch), what a view shows is what it was asked last, but after an
\* answer that overtook it, in a view that does not cancel, or a failure.
THEOREM ShowsWhatIsAsked == ViewSpec => []ShownIsAsked
<1>1. ViewInv => ShownIsAsked
  <2>1. SUFFICES ASSUME ViewInv, Visible, shows.key # asked, ~failed
                 PROVE  overtaken /\ ~view.cancels
    BY DEF ShownIsAsked
  <2>2. overtaken => ~view.cancels
    BY <2>1 DEF ViewInv, AskedOnly
  <2>3. /\ asked # NoKey /\ (view.hides => ~loading) /\ (~view.hides => fetches = {})
    BY <2>1 DEF Visible
  <2>4. overtaken
    BY <2>1, <2>3 DEF ViewInv, AskedIsComing
  <2>. QED BY <2>2, <2>4
<1>. QED BY <1>1, ViewInvIsInvariant, PTL

\* A change the user was told of (apiFetch, runAction, markRead) is shown, but
\* when an answer crossed it or a request failed.
THEOREM OwnWritesShown == ViewSpec => []OwnWritesAreShown
<1>1. ViewInv => OwnWritesAreShown
  <2>1. SUFFICES ASSUME ViewInv, fetches = {}, shows # Nothing, ~crossed, ~failed,
                        NEW r \in ViewRows, shows.rows[r] < acked[r]
                 PROVE  FALSE
    BY DEF OwnWritesAreShown
  <2>2. acked[r] <= shows.rows[r]
    BY <2>1 DEF ViewInv, AckedIsComing
  <2>3. acked[r] \in Nat /\ shows.rows[r] \in Nat
    <3>1. /\ acked \in [ViewRows -> 0..MaxWrites] /\ MaxWrites \in Nat
          /\ shows.rows \in [ViewRows -> 0..MaxWrites]
      BY <2>1, TypesSplit, ViewAssumption DEF ViewInv, Counts
    <3>. QED BY <2>1, <3>1
  <2>. QED BY <2>1, <2>2, <2>3
<1>. QED BY <1>1, ViewInvIsInvariant, PTL

\* What is typed or uploaded in a dialog (ReviewDialog, PayoutActions,
\* CampaignEditDialog) is sent for the row the dialog was opened for, but after
\* an upload that ended in another's dialog.
THEOREM TextReachesItsRow == ViewSpec => []TextGoesToItsRow
<1>1. ViewInv => TextGoesToItsRow
  BY DEF ViewInv, TextIsItsRows, TextGoesToItsRow
<1>. QED BY <1>1, ViewInvIsInvariant, PTL
=============================================================================
