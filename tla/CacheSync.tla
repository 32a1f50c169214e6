----------------------------- MODULE CacheSync -----------------------------
(***************************************************************************)
(* The three services that copy a Postgres table into Redis every 30 s:    *)
(* zones and campaigns as one JSON value (SET), blacklisted addresses      *)
(* through a staging set (DEL, SADD, RENAME).  Every request of the ad     *)
(* engine reads the copy and never the table.                              *)
(*                                                                         *)
(* setInterval does not wait for the sync before it, so two syncs can      *)
(* overlap.  Each await is a step: the query, the comparison with          *)
(* lastSyncedSnapshot, each Redis command.  A command that fails may have  *)
(* taken effect.                                                           *)
(***************************************************************************)
EXTENDS Naturals, FiniteSets

CONSTANTS
  CachedRows,   \* rows the query can return: zones, campaigns or addresses
  Stores,       \* {"json", "staged"}: the stores a behaviour may be about
  Syncs,        \* sync calls that can be in flight at once
  MaxChanges,   \* bound on changes of the table and restarts of the worker
  MaxFailures,  \* bound on failed commands, losses of Redis's data, and ticks
                \* that find the sync before them still running
  Missing       \* a Redis key, or a snapshot, that does not exist

ASSUME CacheSyncAssumption ==
  /\ Stores \subseteq {"json", "staged"}
  /\ MaxChanges \in Nat
  /\ MaxFailures \in Nat
  /\ \A rows \in SUBSET CachedRows : rows # Missing

VARIABLES
  store,       \* which cache the behaviour is about
  table,       \* the rows the query selects: ACTIVE zones, blacklisted addresses
  live,        \* what readers of the cache see
  staging,     \* adengine:blacklisted_ips:staging
  lastSynced,  \* lastSyncedSnapshot of the process
  sync,        \* sync[s]: where the call is and the rows it read
  changes, failures,
  shown,       \* history: the snapshots some sync read
  overlapped   \* history: a command was sent while another sync was sending its own

vars == <<store, table, live, staging, lastSynced, sync, changes, failures, shown,
          overlapped>>

Idle == [at |-> "idle", rows |-> {}]

Sending == {"clear", "fill", "rename", "empty", "set"}

CacheTypeOK ==
  /\ store \in Stores
  /\ table \in SUBSET CachedRows
  /\ live \in SUBSET CachedRows
  /\ staging \in {Missing} \cup SUBSET CachedRows
  /\ lastSynced \in {Missing} \cup SUBSET CachedRows
  /\ sync \in [Syncs -> [at: {"idle", "queried"} \cup Sending, rows: SUBSET CachedRows]]
  /\ changes \in 0..MaxChanges
  /\ failures \in 0..MaxFailures
  /\ shown \in SUBSET SUBSET CachedRows
  /\ overlapped \in BOOLEAN

CacheInit ==
  /\ store \in Stores
  /\ table \in SUBSET CachedRows
  /\ live \in SUBSET CachedRows      \* what an earlier process left there
  /\ shown = {live}
  /\ staging = Missing
  /\ lastSynced = Missing
  /\ sync = [s \in Syncs |-> Idle]
  /\ changes = 0 /\ failures = 0
  /\ overlapped = FALSE

-----------------------------------------------------------------------------
(* The table: a zone activated, paused or archived; an address added by an *)
(* admin or the honeypot, or removed by an admin.                          *)

Change(e) ==
  /\ changes < MaxChanges
  /\ table' = IF e \in table THEN table \ {e} ELSE table \cup {e}
  /\ changes' = changes + 1
  /\ UNCHANGED <<store, live, staging, lastSynced, sync, failures, shown, overlapped>>

-----------------------------------------------------------------------------
(* syncActiveZones, syncActiveCampaigns, syncBlacklistedIps.               *)

\* A tick of the interval: findMany.  It does not look at a sync still running.
Query(s) ==
  /\ sync[s].at = "idle"
  /\ IF \A o \in Syncs : sync[o].at = "idle" THEN UNCHANGED failures
     ELSE failures < MaxFailures /\ failures' = failures + 1
  /\ sync' = [sync EXCEPT ![s] = [at |-> "queried", rows |-> table]]
  /\ shown' = shown \cup {table}
  /\ UNCHANGED <<store, table, live, staging, lastSynced, changes, overlapped>>

\* if (snapshot !== this.lastSyncedSnapshot): the first command to send, if any.
Compare(s) ==
  /\ sync[s].at = "queried"
  /\ sync' = [sync EXCEPT ![s] =
       IF @.rows = lastSynced THEN Idle
       ELSE [@ EXCEPT !.at = IF store = "json" THEN "set" ELSE "clear"]]
  /\ UNCHANGED <<store, table, live, staging, lastSynced, changes, failures, shown,
                 overlapped>>

MutEffectNoClear(s) ==
  CASE sync[s].at \in {"set", "empty"} -> live' = sync[s].rows /\ UNCHANGED staging
    [] sync[s].at = "clear" -> UNCHANGED <<live, staging>>
    [] sync[s].at = "fill" ->
         /\ staging' = sync[s].rows \cup (IF staging = Missing THEN {} ELSE staging)
         /\ UNCHANGED live
    [] sync[s].at = "rename" -> live' = staging /\ staging' = Missing

\* What Redis does with the command the sync sends next.
Effect(s) ==
  CASE sync[s].at \in {"set", "empty"} -> live' = sync[s].rows /\ UNCHANGED staging
    [] sync[s].at = "clear" -> staging' = Missing /\ UNCHANGED live
    [] sync[s].at = "fill" ->
         /\ staging' = sync[s].rows \cup (IF staging = Missing THEN {} ELSE staging)
         /\ UNCHANGED live
    [] sync[s].at = "rename" -> live' = staging /\ staging' = Missing

NextCommand(s) ==
  CASE sync[s].at = "clear" -> IF sync[s].rows = {} THEN "empty" ELSE "fill"
    [] sync[s].at = "fill" -> "rename"
    [] OTHER -> "idle"

Overlaps(s) ==
  overlapped' = (overlapped \/ \E o \in Syncs \ {s} : sync[o].at \in Sending)

\* RENAME of a key another sync has renamed away is an error.
CanSucceed(s) == sync[s].at = "rename" => staging # Missing

MutCommandRemembersFirst(s) ==
  /\ sync[s].at \in Sending
  /\ CanSucceed(s)
  /\ Effect(s)
  /\ Overlaps(s)
  /\ lastSynced' = sync[s].rows
  /\ sync' = [sync EXCEPT ![s] = IF NextCommand(s) = "idle" THEN Idle
                                 ELSE [@ EXCEPT !.at = NextCommand(s)]]
  /\ UNCHANGED <<store, table, changes, failures, shown>>

\* A command and the continuation of its await; the last one of the replace
\* sets lastSyncedSnapshot.
Command(s) ==
  /\ sync[s].at \in Sending
  /\ CanSucceed(s)
  /\ Effect(s)
  /\ Overlaps(s)
  /\ IF NextCommand(s) = "idle"
       THEN lastSynced' = sync[s].rows /\ sync' = [sync EXCEPT ![s] = Idle]
       ELSE sync' = [sync EXCEPT ![s].at = NextCommand(s)] /\ UNCHANGED lastSynced
  /\ UNCHANGED <<store, table, changes, failures, shown>>

\* The command throws out of the replace, before or after it took effect:
\* runSyncSafely logs, lastSyncedSnapshot keeps its value.
CommandFails(s) ==
  /\ sync[s].at \in Sending
  /\ \/ failures < MaxFailures /\ failures' = failures + 1
     \/ ~CanSucceed(s) /\ UNCHANGED failures
  /\ \/ CanSucceed(s) /\ Effect(s)
     \/ UNCHANGED <<live, staging>>
  /\ Overlaps(s)
  /\ sync' = [sync EXCEPT ![s] = Idle]
  /\ UNCHANGED <<store, table, lastSynced, changes, shown>>

\* The singleton worker dies and is started again: it syncs on boot.
Restart ==
  /\ changes < MaxChanges
  /\ changes' = changes + 1
  /\ sync' = [s \in Syncs |-> Idle]
  /\ lastSynced' = Missing
  /\ UNCHANGED <<store, table, live, staging, failures, shown, overlapped>>

\* Redis starts empty after an outage (it is a cache, run without persistence).
RedisLosesData ==
  /\ failures < MaxFailures
  /\ failures' = failures + 1
  /\ live' = {} /\ staging' = Missing
  /\ shown' = shown \cup {{}}
  /\ UNCHANGED <<store, table, lastSynced, sync, changes, overlapped>>

-----------------------------------------------------------------------------
CacheNext ==
  \/ \E e \in CachedRows : Change(e)
  \/ \E s \in Syncs : Query(s) \/ Compare(s) \/ Command(s) \/ CommandFails(s)
  \/ Restart
  \/ RedisLosesData

\* The interval keeps firing and every query and command settles
\* (RedisClient.tla's EveryCallSettles).
CacheFairness ==
  /\ WF_vars(\E s \in Syncs : Query(s))
  /\ \A s \in Syncs : WF_vars(Compare(s)) /\ WF_vars(Command(s) \/ CommandFails(s))

CacheSpec == CacheInit /\ [][CacheNext]_vars /\ CacheFairness

-----------------------------------------------------------------------------
\* Readers see a list the table really was, never one half written or two
\* mixed, whatever fails in between; only syncs that overlap can break it.
\* The staging key is the reason the blacklist is not written in place.
SnapshotUnlessOverlap ==
  /\ CacheTypeOK
  /\ live \in shown \/ overlapped

\* Once the table rests the copy ends up equal to it, except where the
\* unchanged-snapshot shortcut hides a write that was lost: the table is back
\* at the snapshot last synced after a failed command or overlapping syncs,
\* or Redis lost the copy.
CatchesUp ==
  <>[](live = table
         \/ (failures > 0 /\ lastSynced = table /\ (changes > 0 \/ live = {})))
=============================================================================
