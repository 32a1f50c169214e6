------------------------------ MODULE Settings ------------------------------
(***************************************************************************)
(* PlatformSettingsService: the settings row, the copy of it each worker   *)
(* keeps for CACHE_TTL_MS, and the pricing panel's saves.                  *)
(*                                                                         *)
(* The platform fee stands for the three plain settings (the fee, the USD  *)
(* to INR rate and the minimum balance, which are written alike); the rate *)
(* card is one JSON column holding every ad format's override.             *)
(***************************************************************************)
EXTENDS Integers

CONSTANTS
  Workers,   \* processes of the cluster, each with its own copies
  Formats,   \* ad formats of the rate card
  Fee,       \* the plain setting
  Calls,     \* requests: the bound on what is asked; a put's value is its name
  Default,   \* the value of a setting nobody has put
  TTL        \* CACHE_TTL_MS, in ticks

ASSUME SettingsAssumption == Fee \notin Formats /\ Default \notin Calls /\ TTL \in Nat \ {0}

Names == Formats \cup {Fee}
Values == Calls \cup {Default}

VARIABLES
  stored,    \* the PlatformSetting row
  copy,      \* copy[w]: what is cached of the fee and of the card, and its age
  call,      \* call[c]: a request and where its handler is
  ceased,    \* history: ceased[s][v]: how long ago v was last overwritten
  saved,     \* history: saved[s]: the last put of s that was stored
  clobbered, \* history: a card was stored over one it had not read
  late       \* history: a worker kept a value that was overwritten meanwhile

settingsVars == <<stored, copy, call, ceased, saved, clobbered, late>>

\* Ages count up to TTL: what is older is as old.
Older(age) == IF age < TTL THEN age + 1 ELSE TTL
Empty == [age |-> TTL, rates |-> [f \in Names |-> Default]]
Card == "card"
FeeOnly == "fee"
Unused == [at |-> "unused", kind |-> "get", of |-> FeeOnly, worker |-> "nobody",
           name |-> "none", age |-> 0, got |-> Empty.rates]

SettingsTypeOK ==
  /\ stored \in [Names -> Values] /\ saved \in [Names -> Values]
  /\ copy \in [Workers -> [{Card, FeeOnly} ->
                 [age: 0..TTL, rates: [Names -> Values]]]]
  /\ call \in [Calls -> [at: {"unused", "sent", "read", "stored", "done"},
                         kind: {"get", "put"}, of: {Card, FeeOnly},
                         worker: Workers \cup {"nobody"}, name: Names \cup {"none"},
                         age: 0..TTL, got: [Names -> Values]]]
  /\ ceased \in [Names -> [Values -> 0..TTL]]
  /\ clobbered \in BOOLEAN /\ late \in BOOLEAN

SettingsInit ==
  /\ stored = Empty.rates /\ saved = stored
  /\ copy = [w \in Workers |-> [o \in {Card, FeeOnly} |-> Empty]]
  /\ call = [c \in Calls |-> Unused]
  /\ ceased = [s \in Names |-> [v \in Values |-> TTL]]
  /\ clobbered = FALSE /\ late = FALSE

NamesOf(o) == IF o = Card THEN Formats ELSE {Fee}

\* cachedX !== null && now - cachedAt < CACHE_TTL_MS.
Cached(w, o) == copy[w][o].age < TTL

CopyOf(age, rates) == IF age < TTL THEN [age |-> age, rates |-> rates] ELSE Empty

Tick ==
  /\ copy' = [w \in Workers |-> [o \in {Card, FeeOnly} |->
                CopyOf(Older(copy[w][o].age), copy[w][o].rates)]]
  /\ call' = [c \in Calls |->
                IF call[c].at \in {"sent", "read"} /\ call[c].kind = "get"
                THEN [call[c] EXCEPT !.age = Older(@)] ELSE call[c]]
  /\ ceased' = [s \in Names |-> [v \in Values |-> Older(ceased[s][v])]]
  /\ UNCHANGED <<stored, saved, clobbered, late>>

-----------------------------------------------------------------------------
(* getPlatformFeeBps, getUsdToInrRate, getMinAdvertiserBalanceUsd and       *)
(* getAdFormatPricing.                                                     *)

\* A miss; nothing stops a second one from reading at the same time.
Get(c, w, o) ==
  /\ call[c].at = "unused" /\ ~Cached(w, o)
  /\ call' = [call EXCEPT ![c] = [Unused EXCEPT !.at = "sent", !.of = o, !.worker = w]]
  /\ UNCHANGED <<stored, copy, ceased, saved, clobbered, late>>

\* prisma.platformSetting.findUnique, of a get or of a card's put.
FindUnique(c) ==
  /\ call[c].at = "sent" /\ (call[c].kind = "put" => call[c].of = Card)
  /\ call' = [call EXCEPT ![c].at = "read", ![c].got = stored]
  /\ UNCHANGED <<stored, copy, ceased, saved, clobbered, late>>

MutCachedAge(c) == 0

\* cachedAt: `now` is taken before the query is awaited.
CachedAge(c) == call[c].age

GetDone(c) ==
  /\ call[c].at = "read" /\ call[c].kind = "get"
  /\ copy' = [copy EXCEPT ![call[c].worker][call[c].of] =
                CopyOf(CachedAge(c), call[c].got)]
  /\ call' = [call EXCEPT ![c] = [Unused EXCEPT !.at = "done"]]
  /\ UNCHANGED <<stored, ceased, saved, clobbered, late>>

-----------------------------------------------------------------------------
(* updatePlatformFeeBps and its like, and updateAdFormatPricing.           *)

Put(c, w, s) ==
  /\ call[c].at = "unused"
  /\ call' = [call EXCEPT ![c] = [Unused EXCEPT !.at = "sent", !.kind = "put", !.worker = w,
                                    !.of = IF s = Fee THEN FeeOnly ELSE Card, !.name = s]]
  /\ UNCHANGED <<stored, copy, ceased, saved, clobbered, late>>

Store(next) ==
  /\ stored' = next
  /\ ceased' = [s \in Names |-> [v \in Values |->
       IF v = next[s] THEN TTL
       ELSE IF v = stored[s] THEN 0 ELSE ceased[s][v]]]

\* prisma.platformSetting.upsert of one plain column.
UpsertFee(c) ==
  /\ call[c].at = "sent" /\ call[c].kind = "put" /\ call[c].of = FeeOnly
  /\ Store([stored EXCEPT ![Fee] = c])
  /\ saved' = [saved EXCEPT ![Fee] = c]
  /\ call' = [call EXCEPT ![c].at = "stored"]
  /\ UNCHANGED <<copy, clobbered, late>>

MutNextOverrides(c) == [s \in Formats |-> IF s = call[c].name THEN c ELSE Default]

\* { ...existingOverrides, [adFormat]: rate }.
NextOverrides(c) == [s \in Formats |-> IF s = call[c].name THEN c ELSE call[c].got[s]]

\* The upsert of the whole column, from the overrides read before.
UpsertCard(c) ==
  /\ call[c].at = "read" /\ call[c].kind = "put"
  /\ Store([s \in Names |-> IF s = Fee THEN stored[Fee] ELSE NextOverrides(c)[s]])
  /\ saved' = [saved EXCEPT ![call[c].name] = c]
  /\ clobbered' = (clobbered \/ \E s \in Formats : call[c].got[s] # stored[s])
  /\ call' = [call EXCEPT ![c].at = "stored"]
  /\ UNCHANGED <<copy, late>>

\* The plain setting is cached as it was stored.
PutFeeDone(c) ==
  LET w == call[c].worker IN
  /\ call[c].at = "stored" /\ call[c].of = FeeOnly
  /\ copy' = [copy EXCEPT ![w][FeeOnly] = CopyOf(0, [@.rates EXCEPT ![Fee] = c])]
  /\ late' = (late \/ stored[Fee] # c)
  /\ call' = [call EXCEPT ![c] = [Unused EXCEPT !.at = "done"]]
  /\ UNCHANGED <<stored, ceased, saved, clobbered>>

\* The card is forgotten, and read again by getAdFormatPricing.
PutCardDone(c) ==
  LET w == call[c].worker IN
  /\ call[c].at = "stored" /\ call[c].of = Card
  /\ copy' = [copy EXCEPT ![w][Card] = Empty]
  /\ call' = [call EXCEPT ![c] = [Unused EXCEPT !.at = "sent", !.of = Card, !.worker = w]]
  /\ UNCHANGED <<stored, ceased, saved, clobbered, late>>

\* A restarted worker has no copies, and its requests end where they are.
Restart(w) ==
  /\ copy' = [copy EXCEPT ![w] = [o \in {Card, FeeOnly} |-> Empty]]
  /\ call' = [c \in Calls |-> IF call[c].worker = w THEN [Unused EXCEPT !.at = "done"]
                              ELSE call[c]]
  /\ UNCHANGED <<stored, ceased, saved, clobbered, late>>

SettingsNext ==
  \/ Tick
  \/ \E c \in Calls, w \in Workers :
       (\E o \in {Card, FeeOnly} : Get(c, w, o)) \/ \E s \in Names : Put(c, w, s)
  \/ \E c \in Calls :
       FindUnique(c) \/ GetDone(c) \/ UpsertFee(c) \/ UpsertCard(c) \/ PutFeeDone(c)
         \/ PutCardDone(c)
  \/ \E w \in Workers : Restart(w)

SettingsSpec == SettingsInit /\ [][SettingsNext]_settingsVars

-----------------------------------------------------------------------------
\* "Editing one row can never clobber another admin's concurrent edit to a
\* different row": the last rate saved for a format stays, unless two saves of
\* the card overlapped: both read the column before either wrote it.
RatesAreKept == \A s \in Names : stored[s] = saved[s] \/ (clobbered /\ s \in Formats)

\* "Up to CACHE_TTL_MS to actually apply": a value a worker still uses was the
\* stored one less than CACHE_TTL_MS ago, however long its query took, unless
\* the answer of an update came after the setting was updated again.
StaleForLessThanTtl ==
  \A w \in Workers, o \in {Card, FeeOnly} : Cached(w, o) =>
    \A s \in NamesOf(o) :
      LET v == copy[w][o].rates[s] IN
      \/ v = stored[s]
      \/ ceased[s][v] < TTL
      \/ late /\ o = FeeOnly
=============================================================================
