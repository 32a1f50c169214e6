------------------------------ MODULE Sessions ------------------------------
(***************************************************************************)
(* A user's sessions: JwtAuthGuard asks Supabase whether a token is live   *)
(* and remembers a yes for TOKEN_CACHE_TTL_MS in the Map of its instance.  *)
(* Nest makes one instance for the guarded controllers of each module, and *)
(* one more for whoever has it injected, which is AuthController: logout   *)
(* forgets the token there, and then has Supabase end the user's sessions. *)
(* Supabase and Nest are external; Supabase answers within the client's    *)
(* timeout, or not at all.                                                 *)
(***************************************************************************)
EXTENDS Naturals

CONSTANTS
  Workers,   \* processes of the cluster
  Modules,   \* modules whose controllers say @UseGuards(JwtAuthGuard)
  AuthModule, \* the one of AuthController
  Tokens,    \* the user's sessions
  Checks,    \* requests the guard or logout handle at the same time
  TTL,       \* TOKEN_CACHE_TTL_MS, in ticks
  Timeout    \* SUPABASE_FETCH_TIMEOUT_MS, in ticks

VARIABLES
  session,     \* session[t]: none, live, or ended at Supabase
  endedFor,    \* endedFor[t]: for how long, up to TTL + Timeout
  tokenCache,  \* tokenCache[g][t]: the age of the yes, TTL if there is none
  check,       \* check[c]: a request that waits for Supabase
  out          \* history: <<w, t>> whose logout was carried through

sessionVars == <<session, endedFor, tokenCache, check, out>>

Absent == "none"
Provider == "provider"

\* The instances that canActivate runs on, and with them the injected one.
Guards == Workers \X Modules
Instances == Workers \X (Modules \cup {Provider})
NoGuard == <<Absent, Absent>>

\* A worker has an id and a session a token; an entry lives for a while.
ASSUME SessionsAssumption ==
  /\ Absent \notin Workers \cup Tokens
  /\ AuthModule \in Modules /\ Provider \notin Modules
  /\ TTL \in Nat \ {0} /\ Timeout \in Nat

IdleCheck == [at |-> "idle", guard |-> NoGuard, token |-> Absent, age |-> 0]
CheckStates == {"asking", "yes", "no", "signing out", "signed out"}
LoggingOut == {"signing out", "signed out"}

SessionsTypeOK ==
  /\ session \in [Tokens -> {Absent, "live", "ended"}]
  /\ endedFor \in [Tokens -> 0..(TTL + Timeout)]
  /\ tokenCache \in [Instances -> [Tokens -> 0..TTL]]
  /\ check \in [Checks -> [at: CheckStates \cup {"idle"}, guard: Guards \cup {NoGuard},
                           token: Tokens \cup {Absent}, age: 0..Timeout]]
  /\ out \subseteq Workers \X Tokens

SessionsInit ==
  /\ session = [t \in Tokens |-> Absent]
  /\ endedFor = [t \in Tokens |-> 0]
  /\ tokenCache = [g \in Instances |-> [t \in Tokens |-> TTL]]
  /\ check = [c \in Checks |-> IdleCheck]
  /\ out = {}

Cached(g, t) == tokenCache[g][t] < TTL

BeginCheck(c, g, t, at) ==
  check' = [check EXCEPT ![c] = [at |-> at, guard |-> g, token |-> t, age |-> 0]]

Reply(c, at) == check' = [check EXCEPT ![c].at = at]

EndCheck(c) == check' = [check EXCEPT ![c] = IdleCheck]

\* signInWithPassword and its like: a new session, whose token is the cookie.
Login(t) ==
  /\ session[t] = Absent
  /\ session' = [session EXCEPT ![t] = "live"]
  /\ UNCHANGED <<endedFor, tokenCache, check, out>>

\* A session is over after an hour, or a password reset.
Expire(t) ==
  /\ session[t] = "live"
  /\ session' = [session EXCEPT ![t] = "ended"]
  /\ UNCHANGED <<endedFor, tokenCache, check, out>>

MutInTime(c) == TRUE

\* fetchWithTimeout: a call to Supabase does not outlive its timeout.
InTime(c) == check[c].age < Timeout

\* A second passes.
Tick ==
  /\ \A c \in Checks : check[c].at # "idle" => InTime(c)
  /\ check' = [c \in Checks |->
       IF check[c].at = "idle" THEN IdleCheck ELSE [check[c] EXCEPT !.age = @ + 1]]
  /\ tokenCache' = [g \in Instances |-> [t \in Tokens |->
       IF Cached(g, t) THEN tokenCache[g][t] + 1 ELSE TTL]]
  /\ endedFor' = [t \in Tokens |->
       IF session[t] = "ended" /\ endedFor[t] < TTL + Timeout THEN endedFor[t] + 1
       ELSE endedFor[t]]
  /\ UNCHANGED <<session, out>>

-----------------------------------------------------------------------------
(* JwtAuthGuard.                                                           *)

\* resolveUserId of a token that is not cached, or whose entry is too old.
ResolveUserId(c, g, t) ==
  /\ check[c].at = "idle" /\ session[t] # Absent /\ ~Cached(g, t)
  /\ BeginCheck(c, g, t, "asking")
  /\ UNCHANGED <<session, endedFor, tokenCache, out>>

\* auth.getUser: what Supabase knows now.
GetUser(c) ==
  /\ check[c].at = "asking"
  /\ Reply(c, IF session[check[c].token] = "live" THEN "yes" ELSE "no")
  /\ UNCHANGED <<session, endedFor, tokenCache, out>>

\* An error, a timeout included, is a no.
GetUserFails(c) ==
  /\ check[c].at \in {"asking", "yes"}
  /\ Reply(c, "no")
  /\ UNCHANGED <<session, endedFor, tokenCache, out>>

\* tokenCache.set, counted from the answer, or tokenCache.delete.
Resolved(c) ==
  /\ check[c].at \in {"yes", "no"}
  /\ tokenCache' = [tokenCache EXCEPT ![check[c].guard][check[c].token] =
                      IF check[c].at = "yes" THEN 0 ELSE TTL]
  /\ EndCheck(c)
  /\ UNCHANGED <<session, endedFor, out>>

-----------------------------------------------------------------------------
(* Logout.                                                                 *)

\* On the instance injected into AuthController, which no request is let in by.
invalidateToken(w, t) == tokenCache' = [tokenCache EXCEPT ![<<w, Provider>>][t] = TTL]

\* The guard of AuthController let the request through: its token is cached there.
LogoutRequest(c, w, t) ==
  /\ check[c].at = "idle" /\ Cached(<<w, AuthModule>>, t)
  /\ invalidateToken(w, t)
  /\ BeginCheck(c, <<w, AuthModule>>, t, "signing out")
  /\ UNCHANGED <<session, endedFor, out>>

\* signOut(token, 'global').
SignOut(c) ==
  /\ check[c].at = "signing out"
  /\ session' = [t \in Tokens |-> IF session[t] = "live" THEN "ended" ELSE session[t]]
  /\ Reply(c, "signed out")
  /\ UNCHANGED <<endedFor, tokenCache, out>>

\* The failure is logged, and the browser loses its cookie all the same.
SignOutFails(c) ==
  /\ check[c].at \in LoggingOut
  /\ EndCheck(c)
  /\ UNCHANGED <<session, endedFor, tokenCache, out>>

LoggedOut(c) ==
  /\ check[c].at = "signed out"
  /\ out' = out \cup {<<check[c].guard[1], check[c].token>>}
  /\ EndCheck(c)
  /\ UNCHANGED <<session, endedFor, tokenCache>>

\* A worker stops and starts again without its caches.
Restart(w) ==
  /\ tokenCache' = [g \in Instances |->
       IF g[1] = w THEN [t \in Tokens |-> TTL] ELSE tokenCache[g]]
  /\ check' = [c \in Checks |-> IF check[c].guard[1] = w THEN IdleCheck ELSE check[c]]
  /\ UNCHANGED <<session, endedFor, out>>

SessionsNext ==
  \/ Tick
  \/ \E t \in Tokens : Login(t) \/ Expire(t)
  \/ \E c \in Checks :
       \/ \E g \in Guards, t \in Tokens : ResolveUserId(c, g, t)
       \/ \E w \in Workers, t \in Tokens : LogoutRequest(c, w, t)
       \/ GetUser(c) \/ GetUserFails(c) \/ Resolved(c)
       \/ SignOut(c) \/ SignOutFails(c) \/ LoggedOut(c)
  \/ \E w \in Workers : Restart(w)

SessionsSpec == SessionsInit /\ [][SessionsNext]_sessionVars

-----------------------------------------------------------------------------
\* A session that is over, by a logout, its age or a new password, is refused by
\* every guard of every worker once the time to live and the client's timeout
\* have passed, however its end falls among the answers still on their way.
EndedIsRefused ==
  \A g \in Instances, t \in Tokens :
    session[t] = "ended" /\ Cached(g, t) => endedFor[t] < TTL + Timeout

\* What invalidateToken says of itself: once a logout was carried through, "a
\* revoked token stops working immediately" in the worker that served it.
LogoutTakesEffect ==
  \A w \in Workers, t \in Tokens :
    <<w, t>> \in out => \A m \in Modules : ~Cached(<<w, m>>, t)
=============================================================================
