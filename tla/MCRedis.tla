------------------------------ MODULE MCRedis ------------------------------
(* The Redis client: four calls over three connections, which wait, are in *)
(* flight or follow an error, across reconnections.  And a cache over such *)
(* clients: two rows, two overlapping syncs, two changes (there and back)  *)
(* and two failures, for either kind of store.  The two modules share no   *)
(* variable, so one of them runs at a time; the client alone may stop.     *)
EXTENDS RedisClient, CacheSync, TLC

CONSTANTS c1, c2, c3, c4, n1, n2, n3, e1, e2, s1, s2

VARIABLE active

Init ==
  /\ active \in {"client", "cache"}
  /\ RedisInit /\ CacheInit
  /\ active = "client" => store = "json" /\ table = {} /\ live = {}

Next ==
  /\ UNCHANGED active
  /\ \/ active = "client" /\ RedisNext /\ UNCHANGED vars
     \/ active = "cache" /\ CacheNext /\ UNCHANGED redisVars
     \/ active = "client" /\ UNCHANGED <<redisVars, vars>>

Spec ==
  /\ Init /\ [][Next]_<<active, redisVars, vars>>
  /\ RedisFairness      \* no condition on a client that has opened no socket
  /\ active = "cache" => CacheFairness
=============================================================================
