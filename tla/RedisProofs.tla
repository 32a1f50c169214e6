---------------------------- MODULE RedisProofs ----------------------------
(***************************************************************************)
(* The client of RedisClient never mixes up replies, for every number of   *)
(* calls and of connections; and what CacheSync writes with it.            *)
(*                                                                         *)
(* The argument has three layers.  SocketInv: a socket that is attached is *)
(* this.socket, and one that is opening means that a connection is awaited *)
(* and that there is no other; OneConnection alone is not inductive, since *)
(* Connect looks at this.socket and this.connecting only.  InStep is then  *)
(* inductive: only the attached socket is written to and read from.  And   *)
(* with the two queues in step, a value goes to the call that asked.       *)
(***************************************************************************)
EXTENDS RedisClient, CacheSync, TLAPS

-----------------------------------------------------------------------------
(* Types *)

LEMMA EntriesFacts ==
  /\ None \notin Entries
  /\ \A s \in Seq(Calls) : s \in Seq(Entries)
  /\ <<Auth>> \in Seq(Entries)
  /\ Unsettled("idle") \in Outcomes
  /\ Unsettled("open") \in Outcomes
  /\ Failed \in Outcomes
  /\ \A x \in Entries : [as |-> "value", of |-> x] \in Outcomes
  /\ \A x \in Entries : [as |-> "error", of |-> x] \in Outcomes
  BY RedisAssumption DEF Entries, Outcomes, Unsettled, Failed

LEMMA InitTypes == RedisInit => RedisTypeOK
<1>. SUFFICES ASSUME RedisInit PROVE RedisTypeOK
  OBVIOUS
<1>1. outcome \in [Calls -> Outcomes]
  BY EntriesFacts DEF RedisInit
<1>2. /\ waiting \in Seq(Calls) /\ pending \in Seq(Entries)
      /\ wire \in [Conns -> Seq(Entries)]
  BY DEF RedisInit
<1>3. /\ conn \in [Conns -> {"unused", "opening", "attached", "closed"}]
      /\ socket \in Conns \cup {None} /\ connecting \in BOOLEAN
      /\ stuckOn \in Entries \cup {None}
  BY DEF RedisInit
<1>. QED
  BY <1>1, <1>2, <1>3 DEF RedisTypeOK

\* Settling commands keeps the outcomes typed.
LEMMA SettledType ==
  ASSUME RedisTypeOK, NEW entries, NEW result \in Outcomes
  PROVE  Settled(entries, result) \in [Calls -> Outcomes]
  BY DEF Settled, RedisTypeOK

LEMMA RejectTypes ==
  ASSUME RedisTypeOK, NEW result \in Outcomes, RejectPending(result)
  PROVE  /\ outcome' \in [Calls -> Outcomes]
         /\ pending' \in Seq(Entries)
         /\ waiting' \in Seq(Calls)
         /\ connecting' \in BOOLEAN
         /\ pending' = <<>>
<1>1. outcome' \in [Calls -> Outcomes]
  BY SettledType DEF RejectPending
<1>2. pending' = <<>> /\ pending' \in Seq(Entries)
  BY DEF RejectPending
<1>3. waiting' \in Seq(Calls)
  BY DEF RejectPending, RedisTypeOK
<1>4. connecting' \in BOOLEAN
  BY DEF RejectPending, RedisTypeOK
<1>. QED
  BY <1>1, <1>2, <1>3, <1>4

LEMMA ResolveTypes ==
  ASSUME RedisTypeOK, NEW n \in Conns, NEW result \in Outcomes,
         wire[n] # <<>>, pending # <<>>, ResolveOldest(n, result)
  PROVE  /\ outcome' \in [Calls -> Outcomes]
         /\ pending' \in Seq(Entries)
         /\ wire' \in [Conns -> Seq(Entries)]
         /\ waiting' \in Seq(Calls)
         /\ connecting' \in BOOLEAN
<1>1. outcome' \in [Calls -> Outcomes]
  BY SettledType DEF ResolveOldest
<1>2. /\ Tail(pending) \in Seq(Entries) /\ Tail(wire[n]) \in Seq(Entries)
      /\ waiting \in Seq(Entries)
  BY EntriesFacts DEF RedisTypeOK
<1>3. Tail(pending) \o waiting \in Seq(Entries) /\ Tail(wire[n]) \o waiting \in Seq(Entries)
  BY <1>2
<1>4. CASE Head(pending) = Auth
  <2>1. /\ pending' = Tail(pending) \o waiting
        /\ wire' = [wire EXCEPT ![n] = Tail(wire[n]) \o waiting]
        /\ waiting' = <<>> /\ connecting' = FALSE
    BY <1>4 DEF ResolveOldest
  <2>2. wire' \in [Conns -> Seq(Entries)]
    BY <1>3, <2>1 DEF RedisTypeOK
  <2>3. waiting' \in Seq(Calls)
    BY <2>1
  <2>4. connecting' \in BOOLEAN
    BY <2>1
  <2>. QED
    BY <1>1, <1>3, <2>1, <2>2, <2>3, <2>4
<1>5. CASE Head(pending) # Auth
  BY <1>1, <1>2, <1>5 DEF ResolveOldest, RedisTypeOK
<1>. QED
  BY <1>4, <1>5

-----------------------------------------------------------------------------
(* The invariant *)

SocketInv ==
  /\ OneConnection
  /\ \A n \in Conns : conn[n] = "attached" <=> socket = n
  /\ \A n \in Conns : conn[n] = "opening" => connecting /\ socket = None

RedisInv == RedisTypeOK /\ SocketInv /\ InStep /\ ValuesGoToTheirCallers

LEMMA InitInv == RedisInit => RedisInv
  BY InitTypes, RedisAssumption
  DEF RedisInit, RedisInv, SocketInv, OneConnection, InStep,
      ValuesGoToTheirCallers, Unsettled

\* A call that is made keeps what was settled before.
LEMMA IssuedKeepsValues ==
  ASSUME RedisInv, NEW c \in Calls, Issued(c)
  PROVE  outcome' \in [Calls -> Outcomes] /\ ValuesGoToTheirCallers'
  BY EntriesFacts
  DEF RedisInv, RedisTypeOK, Issued, Unsettled, ValuesGoToTheirCallers

\* Nor does rejecting commands give anyone a value.
LEMMA RejectingKeepsValues ==
  ASSUME ValuesGoToTheirCallers, NEW entries, NEW result,
         result.as # "value", outcome' = Settled(entries, result)
  PROVE  ValuesGoToTheirCallers'
  BY DEF ValuesGoToTheirCallers, Settled

-----------------------------------------------------------------------------
(* Each step keeps it *)

LEMMA SendKeeps ==
  ASSUME RedisInv, NEW c \in Calls, Send(c)
  PROVE  RedisInv'
<1>1. /\ socket \in Conns /\ wire[socket] \in Seq(Entries)
      /\ c \in Entries /\ pending \in Seq(Entries)
  BY DEF RedisInv, RedisTypeOK, Send, Entries
<1>2. RedisTypeOK'
  BY <1>1, IssuedKeepsValues DEF Send, RedisInv, RedisTypeOK
<1>3. SocketInv'
  BY DEF Send, RedisInv, SocketInv, OneConnection
<1>4. InStep'
  BY <1>1 DEF Send, RedisInv, RedisTypeOK, InStep
<1>. QED
  BY <1>2, <1>3, <1>4, IssuedKeepsValues DEF RedisInv, Send

LEMMA AwaitKeeps ==
  ASSUME RedisInv, NEW c \in Calls, AwaitConnection(c)
  PROVE  RedisInv'
<1>1. RedisTypeOK'
  BY IssuedKeepsValues DEF AwaitConnection, RedisInv, RedisTypeOK
<1>2. SocketInv'
  BY DEF AwaitConnection, RedisInv, SocketInv, OneConnection
<1>3. InStep'
  BY DEF AwaitConnection, RedisInv, InStep
<1>. QED
  BY <1>1, <1>2, <1>3, IssuedKeepsValues DEF RedisInv, AwaitConnection

LEMMA ConnectKeeps ==
  ASSUME RedisInv, NEW c \in Calls, Connect(c)
  PROVE  RedisInv'
<1>1. PICK n \in Conns : conn[n] = "unused" /\ conn' = [conn EXCEPT ![n] = "opening"]
  BY DEF Connect
<1>2. RedisTypeOK'
  BY <1>1, IssuedKeepsValues DEF Connect, RedisInv, RedisTypeOK
<1>3. \A m \in Conns : conn[m] \notin {"opening", "attached"}
  BY RedisAssumption DEF Connect, RedisInv, SocketInv
<1>4. SocketInv'
  BY <1>1, <1>3, RedisAssumption
  DEF Connect, RedisInv, RedisTypeOK, SocketInv, OneConnection
<1>5. InStep'
  BY DEF Connect, RedisInv, InStep
<1>. QED
  BY <1>2, <1>4, <1>5, IssuedKeepsValues DEF RedisInv, Connect

LEMMA ReadyKeeps ==
  ASSUME RedisInv, NEW n \in Conns, OnReady(n)
  PROVE  RedisInv'
<1>. DEFINE written == IF Password THEN <<Auth>> ELSE waiting
<1>1. socket = None /\ pending = <<>> /\ n # None
  BY RedisAssumption DEF OnReady, RedisInv, SocketInv, InStep
<1>2. written \in Seq(Entries) /\ pending' = written
  BY <1>1, EntriesFacts DEF OnReady, RedisInv, RedisTypeOK
<1>3. wire' = [wire EXCEPT ![n] = written]
  BY DEF OnReady
<1>4. RedisTypeOK'
  BY <1>2, <1>3, RedisAssumption DEF OnReady, RedisInv, RedisTypeOK
<1>5. \A m \in Conns : m # n => conn[m] \notin {"opening", "attached"}
  BY DEF OnReady, RedisInv, SocketInv, OneConnection
<1>6. SocketInv'
  BY <1>5, RedisAssumption DEF OnReady, RedisInv, RedisTypeOK, SocketInv, OneConnection
<1>7. InStep'
  BY <1>1, <1>2, <1>3 DEF OnReady, RedisInv, RedisTypeOK, InStep
<1>. QED
  BY <1>4, <1>6, <1>7 DEF RedisInv, OnReady, ValuesGoToTheirCallers

LEMMA ConnectErrorKeeps ==
  ASSUME RedisInv, NEW n \in Conns, OnConnectError(n)
  PROVE  RedisInv'
<1>1. RedisTypeOK'
  <2>1. outcome' \in [Calls -> Outcomes]
    BY SettledType, EntriesFacts DEF OnConnectError, RedisInv
  <2>2. waiting' \in Seq(Calls)
    BY DEF OnConnectError
  <2>3. connecting' \in BOOLEAN
    BY DEF OnConnectError
  <2>. QED
    BY <2>1, <2>2, <2>3 DEF OnConnectError, RedisInv, RedisTypeOK
<1>2. SocketInv'
  BY RedisAssumption
  DEF OnConnectError, RedisInv, RedisTypeOK, SocketInv, OneConnection
<1>3. InStep'
  BY DEF OnConnectError, RedisInv, InStep
<1>4. ValuesGoToTheirCallers'
  BY RejectingKeepsValues DEF OnConnectError, RedisInv, Failed
<1>. QED
  BY <1>1, <1>2, <1>3, <1>4 DEF RedisInv

LEMMA CloseKeeps ==
  ASSUME RedisInv, NEW n \in Conns, OnClose(n)
  PROVE  RedisInv'
<1>1. socket = n /\ socket' = None /\ pending' = <<>>
  BY DEF OnClose, RejectPending, RedisInv, SocketInv
<1>2. RedisTypeOK'
  BY <1>1, RejectTypes, EntriesFacts DEF OnClose, RedisInv, RedisTypeOK
<1>3. SocketInv'
  BY <1>1, RedisAssumption
  DEF OnClose, RedisInv, RedisTypeOK, SocketInv, OneConnection
<1>4. InStep'
  BY <1>1 DEF InStep
<1>5. ValuesGoToTheirCallers'
  BY RejectingKeepsValues DEF OnClose, RejectPending, RedisInv, Failed
<1>. QED
  BY <1>2, <1>3, <1>4, <1>5 DEF RedisInv

LEMMA ReplyKeeps ==
  ASSUME RedisInv, NEW n \in Conns, NEW error \in BOOLEAN, Reply(n, error)
  PROVE  RedisInv'
<1>1. socket = n /\ socket' = n /\ conn' = conn /\ n # None
  BY RedisAssumption DEF Reply, RedisInv, SocketInv
<1>2. wire[n] \in Seq(Entries) /\ wire[n] # <<>> /\ Head(wire[n]) \in Entries
  BY DEF Reply, RedisInv, RedisTypeOK
<1>3. SocketInv'
  BY <1>1 DEF RedisInv, SocketInv, OneConnection
<1>4. CASE stuckOn = None /\ ~error
  <2>. DEFINE value == [as |-> "value", of |-> Head(wire[n])]
  <2>1. pending = wire[n]
    BY <1>1, <1>4 DEF RedisInv, InStep
  <2>2. value \in Outcomes /\ ResolveOldest(n, value) /\ stuckOn' = stuckOn
    BY <1>2, <1>4, EntriesFacts DEF Reply
  <2>3. RedisTypeOK'
    BY <1>1, <1>2, <2>1, <2>2, ResolveTypes DEF RedisInv, RedisTypeOK
  <2>4. InStep'
    BY <1>1, <1>2, <2>1, <2>2 DEF ResolveOldest, RedisInv, RedisTypeOK, InStep
  <2>5. ValuesGoToTheirCallers'
    BY <2>1, <2>2
    DEF ResolveOldest, Settled, RedisInv, ValuesGoToTheirCallers
  <2>. QED
    BY <1>3, <2>3, <2>4, <2>5 DEF RedisInv
<1>5. CASE ~(stuckOn = None /\ ~error)
  <2>. DEFINE failure == [as |-> "error", of |-> stuckOn']
  <2>1. stuckOn' \in Entries /\ stuckOn' # None
    BY <1>2, <1>5, EntriesFacts DEF Reply, RedisInv, RedisTypeOK
  <2>2. /\ failure \in Outcomes /\ RejectPending(failure)
        /\ wire' = [wire EXCEPT ![n] = Tail(@)]
    BY <1>5, <2>1, EntriesFacts DEF Reply
  <2>3. RedisTypeOK'
    BY <1>1, <1>2, <2>1, <2>2, RejectTypes DEF RedisInv, RedisTypeOK
  <2>4. InStep'
    BY <1>1, <2>1 DEF InStep
  <2>5. ValuesGoToTheirCallers'
    BY <2>2, RejectingKeepsValues DEF RejectPending, RedisInv
  <2>. QED
    BY <1>3, <2>3, <2>4, <2>5 DEF RedisInv
<1>. QED
  BY <1>4, <1>5

LEMMA NextInv == RedisInv /\ [RedisNext]_redisVars => RedisInv'
<1>. SUFFICES ASSUME RedisInv, [RedisNext]_redisVars
              PROVE  RedisInv'
  OBVIOUS
<1>1. CASE \E c \in Calls : Send(c) \/ AwaitConnection(c) \/ Connect(c)
  BY <1>1, SendKeeps, AwaitKeeps, ConnectKeeps
<1>2. CASE \E n \in Conns : OnReady(n) \/ OnConnectError(n) \/ OnClose(n) \/ TimesOut(n)
  BY <1>2, ReadyKeeps, ConnectErrorKeeps, CloseKeeps DEF TimesOut
<1>3. CASE \E n \in Conns, error \in BOOLEAN : Reply(n, error)
  BY <1>3, ReplyKeeps
<1>4. CASE UNCHANGED redisVars
  BY <1>4
  DEF redisVars, RedisInv, RedisTypeOK, SocketInv, OneConnection, InStep,
      ValuesGoToTheirCallers
<1>. QED
  BY <1>1, <1>2, <1>3, <1>4 DEF RedisNext

LEMMA InvHolds == RedisSpec => []RedisInv
  BY InitInv, NextInv, PTL DEF RedisSpec

-----------------------------------------------------------------------------
(* The theorems *)

\* The client's fields keep their types over every interleaving of calls,
\* replies, timeouts and reconnections.
THEOREM RedisTypesCorrect == RedisSpec => []RedisTypeOK
<1>1. RedisInv => RedisTypeOK
  BY DEF RedisInv
<1>. QED
  BY <1>1, InvHolds, PTL

\* Concurrent calls share one connection, however often it fails.
THEOREM ConnectionIsShared == RedisSpec => []OneConnection
<1>1. RedisInv => OneConnection
  BY DEF RedisInv, SocketInv
<1>. QED
  BY <1>1, InvHolds, PTL

\* The pending queue and the server's unanswered commands agree while replies
\* are read: drain may pair them by order.
THEOREM QueuesStayInStep == RedisSpec => []InStep
<1>1. RedisInv => InStep
  BY DEF RedisInv
<1>. QED
  BY <1>1, InvHolds, PTL

\* No caller is ever given the value another one asked for.
THEOREM RepliesReachTheirCallers == RedisSpec => []ValuesGoToTheirCallers
<1>1. RedisInv => ValuesGoToTheirCallers
  BY DEF RedisInv
<1>. QED
  BY <1>1, InvHolds, PTL

\* One connection, with fields of their types and queues that agree: what the
\* pairing of replies by order rests on.
THEOREM ConnectionStaysSound == RedisSpec => []ConnectionIsSound
<1>1. RedisInv => ConnectionIsSound
  BY DEF RedisInv, SocketInv, ConnectionIsSound
<1>. QED
  BY <1>1, InvHolds, PTL

-----------------------------------------------------------------------------
(* Cache synchronisation: whose rows the staging key holds.                *)

\* What a sync has put under the staging key, when no other was writing.
StagingIsOwn(s) ==
  /\ sync[s].at = "fill" => staging = Missing
  /\ sync[s].at = "rename" => staging \in {Missing, sync[s].rows}

CacheInv ==
  /\ CacheTypeOK
  /\ \A s \in Syncs : sync[s].at # "idle" => sync[s].rows \in shown
  /\ ~overlapped => live \in shown /\ \A s \in Syncs : StagingIsOwn(s)

CacheStages == {"idle", "queried"} \cup Sending

LEMMA SyncUpdate ==
  ASSUME CacheTypeOK, NEW s \in Syncs, NEW at \in CacheStages, NEW rows \in SUBSET CachedRows,
         sync' = [sync EXCEPT ![s] = [at |-> at, rows |-> rows]]
  PROVE  /\ sync' \in [Syncs -> [at: CacheStages, rows: SUBSET CachedRows]]
         /\ sync'[s].at = at /\ sync'[s].rows = rows
         /\ \A o \in Syncs \ {s} : sync'[o] = sync[o]
<1> DEFINE new == [at |-> at, rows |-> rows]
<1>1. new \in [at: CacheStages, rows: SUBSET CachedRows] /\ new.at = at /\ new.rows = rows
  OBVIOUS
<1>2. sync' = [sync EXCEPT ![s] = new] /\ sync \in [Syncs -> [at: CacheStages, rows: SUBSET CachedRows]]
  BY DEF CacheTypeOK, CacheStages
<1> HIDE DEF new
<1>. QED
  BY <1>1, <1>2

LEMMA SyncType ==
  ASSUME CacheTypeOK, NEW s \in Syncs
  PROVE  /\ sync[s].at \in CacheStages /\ sync[s].rows \in SUBSET CachedRows
         /\ sync[s] = [at |-> sync[s].at, rows |-> sync[s].rows]
  BY DEF CacheTypeOK, CacheStages

LEMMA ChangeKeeps ==
  ASSUME CacheInv, NEW e \in CachedRows, Change(e) PROVE CacheInv'
<1>1. table' \in SUBSET CachedRows /\ changes' \in 0..MaxChanges
  BY CacheSyncAssumption DEF Change, CacheInv, CacheTypeOK
<1>. QED
  BY <1>1 DEF Change, CacheInv, CacheTypeOK, StagingIsOwn

LEMMA QueryKeeps ==
  ASSUME CacheInv, NEW s \in Syncs, Query(s) PROVE CacheInv'
<1>. CacheTypeOK
  BY DEF CacheInv
<1>1. /\ shown' = shown \cup {table} /\ failures' \in 0..MaxFailures
      /\ UNCHANGED <<store, table, live, staging, lastSynced, changes, overlapped>>
  BY CacheSyncAssumption DEF Query, CacheTypeOK
<1>2. /\ sync' \in [Syncs -> [at: CacheStages, rows: SUBSET CachedRows]]
      /\ sync'[s].at = "queried" /\ sync'[s].rows = table
      /\ \A o \in Syncs \ {s} : sync'[o] = sync[o]
  <2>1. "queried" \in CacheStages /\ table \in SUBSET CachedRows
    BY DEF CacheStages, CacheTypeOK
  <2>. QED
    BY <2>1, SyncUpdate DEF Query
<1>3. CacheTypeOK'
  BY <1>1, <1>2 DEF CacheTypeOK, CacheStages
<1>. QED
  BY <1>1, <1>2, <1>3 DEF CacheInv, StagingIsOwn

LEMMA CompareKeeps ==
  ASSUME CacheInv, NEW s \in Syncs, Compare(s) PROVE CacheInv'
<1>. CacheTypeOK
  BY DEF CacheInv
<1>1. /\ sync[s].at = "queried"
      /\ UNCHANGED <<store, table, live, staging, lastSynced, changes, failures, shown, overlapped>>
  BY DEF Compare
<1>2. PICK at \in {"idle", "set", "clear"}, rows \in SUBSET CachedRows :
        /\ sync' = [sync EXCEPT ![s] = [at |-> at, rows |-> rows]]
        /\ at # "idle" => rows = sync[s].rows
  <2>1. CASE sync[s].rows = lastSynced
    <3>1. sync' = [sync EXCEPT ![s] = [at |-> "idle", rows |-> {}]]
      BY <2>1 DEF Compare, CacheTypeOK, Idle
    <3>2. {} \in SUBSET CachedRows /\ "idle" \in {"idle", "set", "clear"}
      OBVIOUS
    <3>. QED
      BY <3>1, <3>2, Zenon
  <2>2. CASE sync[s].rows # lastSynced
    <3>1. PICK at \in {"set", "clear"} : at = IF store = "json" THEN "set" ELSE "clear"
      OBVIOUS
    <3>2. sync' = [sync EXCEPT ![s] = [sync[s] EXCEPT !.at = at]]
      BY <2>2, <3>1 DEF Compare, CacheTypeOK
    <3>3. PICK rows \in SUBSET CachedRows : rows = sync[s].rows
      BY SyncType
    <3>4. [sync[s] EXCEPT !.at = at] = [at |-> at, rows |-> rows]
      BY <3>3 DEF CacheTypeOK
    <3>5. sync' = [sync EXCEPT ![s] = [at |-> at, rows |-> rows]] /\ at \in {"idle", "set", "clear"}
      BY <3>2, <3>4
    <3>. QED
      BY <3>3, <3>5, Zenon
  <2>. QED
    BY <2>1, <2>2
<1>3. /\ sync' \in [Syncs -> [at: CacheStages, rows: SUBSET CachedRows]]
      /\ sync'[s].at = at /\ sync'[s].rows = rows
      /\ \A o \in Syncs \ {s} : sync'[o] = sync[o]
  <2>1. at \in CacheStages
    BY DEF CacheStages, Sending
  <2>. QED
    BY <1>2, <2>1, SyncUpdate
<1>4. CacheTypeOK'
  BY <1>1, <1>3 DEF CacheTypeOK, CacheStages
<1>. QED
  BY <1>1, <1>2, <1>3, <1>4 DEF CacheInv, StagingIsOwn

\* What a command leaves, when no other sync is sending its own.
LEMMA EffectMeans ==
  ASSUME CacheInv, NEW s \in Syncs, sync[s].at \in Sending, CanSucceed(s), Effect(s)
  PROVE  /\ live' \in SUBSET CachedRows /\ staging' \in {Missing} \cup SUBSET CachedRows
         /\ ~overlapped => /\ live' \in shown
                           /\ sync[s].at = "clear" => staging' = Missing
                           /\ sync[s].at = "fill" => staging' = sync[s].rows
<1>1. /\ sync[s].rows \in shown /\ sync[s].rows \in SUBSET CachedRows
      /\ live \in SUBSET CachedRows /\ staging \in {Missing} \cup SUBSET CachedRows
      /\ ~overlapped => live \in shown
      /\ ~overlapped /\ sync[s].at = "fill" => staging = Missing
      /\ ~overlapped /\ sync[s].at = "rename" => staging \in {Missing, sync[s].rows}
  BY DEF CacheInv, CacheTypeOK, StagingIsOwn, Sending
<1>2. CASE sync[s].at \in {"set", "empty"}
  BY <1>1, <1>2 DEF Effect
<1>3. CASE sync[s].at = "clear"
  BY <1>1, <1>3 DEF Effect
<1>4. CASE sync[s].at = "fill"
  BY <1>1, <1>4 DEF Effect
<1>5. CASE sync[s].at = "rename"
  BY <1>1, <1>5 DEF Effect, CanSucceed
<1>. QED
  BY <1>2, <1>3, <1>4, <1>5 DEF Sending

\* Without an overlap no other sync has sent anything.
LEMMA OverlapMeans ==
  ASSUME CacheInv, NEW s \in Syncs, Overlaps(s), UNCHANGED shown,
         \A o \in Syncs \ {s} : sync'[o] = sync[o],
         ~overlapped => live' \in shown, ~overlapped' => StagingIsOwn(s)'
  PROVE  ~overlapped' => live' \in shown' /\ \A o \in Syncs : StagingIsOwn(o)'
<1> SUFFICES ASSUME ~overlapped', NEW o \in Syncs
             PROVE  live' \in shown' /\ StagingIsOwn(o)'
  BY DEF Overlaps
<1>1. ~overlapped /\ \A p \in Syncs \ {s} : sync[p].at \notin Sending
  BY DEF Overlaps, CacheInv, CacheTypeOK
<1>2. CASE o = s
  BY <1>1, <1>2
<1>3. CASE o # s
  BY <1>1, <1>3 DEF StagingIsOwn, Sending
<1>. QED
  BY <1>1, <1>2, <1>3

LEMMA CommandKeeps ==
  ASSUME CacheInv, NEW s \in Syncs, Command(s) PROVE CacheInv'
<1>. CacheTypeOK
  BY DEF CacheInv
<1>1. /\ sync[s].at \in Sending /\ CanSucceed(s) /\ Effect(s) /\ Overlaps(s)
      /\ UNCHANGED <<store, table, changes, failures, shown>>
  BY DEF Command
<1>2. /\ live' \in SUBSET CachedRows /\ staging' \in {Missing} \cup SUBSET CachedRows
      /\ ~overlapped => /\ live' \in shown
                        /\ sync[s].at = "clear" => staging' = Missing
                        /\ sync[s].at = "fill" => staging' = sync[s].rows
  BY <1>1, EffectMeans
<1>3. PICK at \in CacheStages, rows \in SUBSET CachedRows :
        /\ sync' = [sync EXCEPT ![s] = [at |-> at, rows |-> rows]]
        /\ at # "idle" => rows = sync[s].rows
        /\ at = "fill" => sync[s].at = "clear"
        /\ at = "rename" => sync[s].at = "fill"
        /\ lastSynced' \in {Missing} \cup SUBSET CachedRows
  <2>1. CASE NextCommand(s) = "idle"
    <3>1. sync' = [sync EXCEPT ![s] = [at |-> "idle", rows |-> {}]] /\ lastSynced' = sync[s].rows
      BY <2>1 DEF Command, Idle
    <3>2. /\ "idle" \in CacheStages /\ {} \in SUBSET CachedRows
          /\ "idle" # "fill" /\ "idle" # "rename" /\ lastSynced' \in {Missing} \cup SUBSET CachedRows
      BY <3>1, SyncType DEF CacheStages
    <3>. QED
      BY <3>1, <3>2, Zenon
  <2>2. CASE NextCommand(s) # "idle"
    <3>1. PICK at \in {"fill", "empty", "rename"} :
            /\ at = NextCommand(s)
            /\ at = "fill" => sync[s].at = "clear"
            /\ at = "rename" => sync[s].at = "fill"
      BY <2>2 DEF NextCommand
    <3>2. sync' = [sync EXCEPT ![s].at = at] /\ UNCHANGED lastSynced
      BY <2>2, <3>1 DEF Command
    <3>3. sync' = [sync EXCEPT ![s] = [sync[s] EXCEPT !.at = at]]
      BY <3>2 DEF CacheTypeOK
    <3>4. PICK rows \in SUBSET CachedRows : rows = sync[s].rows
      BY SyncType
    <3>5. [sync[s] EXCEPT !.at = at] = [at |-> at, rows |-> rows]
      BY <3>4 DEF CacheTypeOK
    <3>6. /\ sync' = [sync EXCEPT ![s] = [at |-> at, rows |-> rows]]
          /\ at \in CacheStages /\ lastSynced' \in {Missing} \cup SUBSET CachedRows
      BY <3>2, <3>3, <3>5 DEF CacheStages, Sending, CacheTypeOK
    <3>. QED
      BY <3>1, <3>4, <3>6, Zenon
  <2>. QED
    BY <2>1, <2>2
<1>4. /\ sync' \in [Syncs -> [at: CacheStages, rows: SUBSET CachedRows]]
      /\ sync'[s].at = at /\ sync'[s].rows = rows
      /\ \A o \in Syncs \ {s} : sync'[o] = sync[o]
  BY <1>3, SyncUpdate
<1>5. overlapped' \in BOOLEAN /\ (~overlapped' => ~overlapped)
  BY <1>1 DEF Overlaps, CacheTypeOK
<1>6. CacheTypeOK'
  BY <1>1, <1>2, <1>3, <1>4, <1>5 DEF CacheTypeOK, CacheStages
<1>7. \A o \in Syncs : sync'[o].at # "idle" => sync'[o].rows \in shown'
  BY <1>1, <1>3, <1>4 DEF CacheInv, Sending
<1>8. ~overlapped' => StagingIsOwn(s)'
  BY <1>2, <1>3, <1>4, <1>5 DEF StagingIsOwn
<1>9. ~overlapped' => live' \in shown' /\ \A o \in Syncs : StagingIsOwn(o)'
  BY <1>1, <1>2, <1>4, <1>8, OverlapMeans
<1>. QED
  BY <1>6, <1>7, <1>9 DEF CacheInv

LEMMA CommandFailsKeeps ==
  ASSUME CacheInv, NEW s \in Syncs, CommandFails(s) PROVE CacheInv'
<1>. CacheTypeOK
  BY DEF CacheInv
<1>1. /\ sync[s].at \in Sending /\ Overlaps(s) /\ failures' \in 0..MaxFailures
      /\ UNCHANGED <<store, table, lastSynced, changes, shown>>
  BY CacheSyncAssumption DEF CommandFails, CacheTypeOK
<1>2. /\ live' \in SUBSET CachedRows /\ staging' \in {Missing} \cup SUBSET CachedRows
      /\ ~overlapped => live' \in shown
  <2>1. CASE CanSucceed(s) /\ Effect(s)
    BY <1>1, <2>1, EffectMeans
  <2>2. CASE UNCHANGED <<live, staging>>
    BY <2>2 DEF CacheInv, CacheTypeOK
  <2>. QED
    BY <2>1, <2>2 DEF CommandFails
<1>3. /\ sync' \in [Syncs -> [at: CacheStages, rows: SUBSET CachedRows]]
      /\ sync'[s].at = "idle" /\ \A o \in Syncs \ {s} : sync'[o] = sync[o]
  <2>1. "idle" \in CacheStages /\ {} \in SUBSET CachedRows
    BY DEF CacheStages
  <2>2. sync' = [sync EXCEPT ![s] = [at |-> "idle", rows |-> {}]]
    BY DEF CommandFails, Idle
  <2>. QED
    BY <2>1, <2>2, SyncUpdate
<1>4. overlapped' \in BOOLEAN
  BY <1>1 DEF Overlaps, CacheTypeOK
<1>5. CacheTypeOK'
  BY <1>1, <1>2, <1>3, <1>4 DEF CacheTypeOK, CacheStages
<1>6. \A o \in Syncs : sync'[o].at # "idle" => sync'[o].rows \in shown'
  BY <1>1, <1>3 DEF CacheInv
<1>7. ~overlapped' => live' \in shown' /\ \A o \in Syncs : StagingIsOwn(o)'
  BY <1>1, <1>2, <1>3, OverlapMeans DEF StagingIsOwn
<1>. QED
  BY <1>5, <1>6, <1>7 DEF CacheInv

LEMMA CacheRestartKeeps ==
  ASSUME CacheInv, Restart PROVE CacheInv'
<1>1. /\ sync' \in [Syncs -> [at: CacheStages, rows: SUBSET CachedRows]]
      /\ \A s \in Syncs : sync'[s].at = "idle"
  BY DEF Restart, Idle, CacheStages
<1>2. changes' \in 0..MaxChanges /\ lastSynced' \in {Missing} \cup SUBSET CachedRows
  BY CacheSyncAssumption DEF Restart, CacheInv, CacheTypeOK
<1>. QED
  BY <1>1, <1>2 DEF Restart, CacheInv, CacheTypeOK, CacheStages, StagingIsOwn

LEMMA RedisLosesDataKeeps ==
  ASSUME CacheInv, RedisLosesData PROVE CacheInv'
<1>1. failures' \in 0..MaxFailures
  BY CacheSyncAssumption DEF RedisLosesData, CacheInv, CacheTypeOK
<1>. QED
  BY <1>1 DEF RedisLosesData, CacheInv, CacheTypeOK, StagingIsOwn

LEMMA CacheInitInv == CacheInit => CacheInv
<1> SUFFICES ASSUME CacheInit PROVE CacheInv
  OBVIOUS
<1>1. sync \in [Syncs -> [at: CacheStages, rows: SUBSET CachedRows]]
      /\ \A s \in Syncs : sync[s].at = "idle"
  BY DEF CacheInit, Idle, CacheStages
<1>2. 0 \in 0..MaxChanges /\ 0 \in 0..MaxFailures
  BY CacheSyncAssumption
<1>. QED
  BY <1>1, <1>2 DEF CacheInit, CacheInv, CacheTypeOK, CacheStages, StagingIsOwn

LEMMA CacheStep == CacheInv /\ [CacheNext]_vars => CacheInv'
<1> SUFFICES ASSUME CacheInv, [CacheNext]_vars PROVE CacheInv'
  OBVIOUS
<1>1. CASE \E e \in CachedRows : Change(e)
  BY <1>1, ChangeKeeps
<1>2. CASE \E s \in Syncs : Query(s) \/ Compare(s) \/ Command(s) \/ CommandFails(s)
  BY <1>2, QueryKeeps, CompareKeeps, CommandKeeps, CommandFailsKeeps
<1>3. CASE Restart
  BY <1>3, CacheRestartKeeps
<1>4. CASE RedisLosesData
  BY <1>4, RedisLosesDataKeeps
<1>5. CASE UNCHANGED vars
  BY <1>5 DEF vars, CacheInv, CacheTypeOK, StagingIsOwn
<1>. QED
  BY <1>1, <1>2, <1>3, <1>4, <1>5 DEF CacheNext

\* Whatever fails, and however the table changes meanwhile, readers of a cache
\* see rows that the table had, but after syncs that overlapped.
THEOREM ReadersSeeSnapshots == CacheSpec => []SnapshotUnlessOverlap
<1>1. CacheInv => SnapshotUnlessOverlap
  BY DEF CacheInv, SnapshotUnlessOverlap
<1>. QED
  BY <1>1, CacheInitInv, CacheStep, PTL DEF CacheSpec
=============================================================================
