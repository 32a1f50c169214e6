----------------------------- MODULE RedisClient -----------------------------
(***************************************************************************)
(* RedisRespClient (redis-resp.client.ts): one connection, opened when it  *)
(* is first needed, over which every command is pipelined; each reply      *)
(* settles the oldest command still pending.                               *)
(*                                                                         *)
(* Every step is one callback of the event loop with the promise           *)
(* continuations it runs.  A socket that dies emits 'error' and 'close',   *)
(* both handled by onClose, in one pass of the loop, too soon for another  *)
(* connection to have been attached: they are one step.  So are the        *)
(* replies of one chunk, each a step here.  destroy(), which runs when the *)
(* process stops, is left out.                                             *)
(***************************************************************************)
EXTENDS Naturals, Sequences, Functions

CONSTANTS
  Calls,      \* calls of command(), each made once
  Conns,      \* sockets the client may open: bounds reconnection
  Password,   \* whether connections start with AUTH
  Auth,       \* AUTH's entry among the pending commands
  None        \* no socket, no reply

ASSUME RedisAssumption ==
  /\ None \notin Calls \cup Conns
  /\ Auth \notin Calls \cup {None}
  /\ Password \in BOOLEAN

VARIABLES
  outcome,     \* outcome[c]: how call c stands, and whose reply settled it
  conn,        \* conn[n]: the state of socket n
  socket,      \* this.socket
  connecting,  \* this.connecting is not null
  waiting,     \* calls that await this.connecting, oldest first
  pending,     \* this.pending: commands written and not settled yet
  stuckOn,     \* the command whose error reply heads this.buffer, unconsumed
  wire         \* wire[n]: commands the server has not answered on socket n

redisVars ==
  <<outcome, conn, socket, connecting, waiting, pending, stuckOn, wire>>

Entries == Calls \cup {Auth}
Outcomes == [as: {"idle", "open", "failed", "value", "error"},
             of: Entries \cup {None}]

Unsettled(as) == [as |-> as, of |-> None]
Failed == [as |-> "failed", of |-> None]

RedisTypeOK ==
  /\ outcome \in [Calls -> Outcomes]
  /\ conn \in [Conns -> {"unused", "opening", "attached", "closed"}]
  /\ socket \in Conns \cup {None}
  /\ connecting \in BOOLEAN
  /\ waiting \in Seq(Calls)
  /\ pending \in Seq(Entries)
  /\ stuckOn \in Entries \cup {None}
  /\ wire \in [Conns -> Seq(Entries)]

RedisInit ==
  /\ outcome = [c \in Calls |-> Unsettled("idle")]
  /\ conn = [n \in Conns |-> "unused"]
  /\ socket = None
  /\ connecting = FALSE
  /\ waiting = <<>>
  /\ pending = <<>>
  /\ stuckOn = None
  /\ wire = [n \in Conns |-> <<>>]

-----------------------------------------------------------------------------
(* command() and getConnection() *)

Issued(c) ==
  /\ outcome[c].as = "idle"
  /\ outcome' = [outcome EXCEPT ![c] = Unsettled("open")]

Send(c) ==
  /\ Issued(c)
  /\ socket # None
  /\ pending' = Append(pending, c)
  /\ wire' = [wire EXCEPT ![socket] = Append(@, c)]
  /\ UNCHANGED <<conn, socket, connecting, waiting, stuckOn>>

AwaitConnection(c) ==
  /\ Issued(c)
  /\ socket = None /\ connecting
  /\ waiting' = Append(waiting, c)
  /\ UNCHANGED <<conn, socket, connecting, pending, stuckOn, wire>>

Connect(c) ==
  /\ Issued(c)
  /\ socket = None /\ ~connecting
  /\ \E n \in Conns :
       conn[n] = "unused" /\ conn' = [conn EXCEPT ![n] = "opening"]
  /\ connecting' = TRUE
  /\ waiting' = Append(waiting, c)
  /\ UNCHANGED <<socket, pending, stuckOn, wire>>

-----------------------------------------------------------------------------
(* Settling commands.  Whoever waits for the connection follows AUTH: sent *)
(* once it is resolved, failed once it is rejected.                        *)

Settled(entries, result) ==
  [c \in Calls |-> IF c \in entries THEN result ELSE outcome[c]]

\* For a mutant: AUTH's own reject handler is not called.
MutRejectCallsOnly(result) ==
  /\ outcome' = Settled(Range(pending), result)
  /\ pending' = <<>>
  /\ UNCHANGED <<waiting, connecting>>

RejectPending(result) ==
  LET authFails == Auth \in Range(pending)
      failed == Range(pending) \cup IF authFails THEN Range(waiting) ELSE {}
  IN
  /\ outcome' = Settled(failed, result)
  /\ pending' = <<>>
  /\ waiting' = IF authFails THEN <<>> ELSE waiting
  /\ connecting' = (connecting /\ ~authFails)

\* For a mutant: the reply is given to the command written last.
MutResolveNewest(n, result) ==
  /\ outcome' = Settled({pending[Len(pending)]}, result)
  /\ pending' = SubSeq(pending, 1, Len(pending) - 1)
  /\ wire' = [wire EXCEPT ![n] = Tail(@)]
  /\ UNCHANGED <<waiting, connecting>>

ResolveOldest(n, result) ==
  /\ outcome' = Settled({Head(pending)}, result)
  /\ IF Head(pending) = Auth
     THEN /\ pending' = Tail(pending) \o waiting
          /\ wire' = [wire EXCEPT ![n] = Tail(@) \o waiting]
          /\ waiting' = <<>>
          /\ connecting' = FALSE
     ELSE /\ pending' = Tail(pending)
          /\ wire' = [wire EXCEPT ![n] = Tail(@)]
          /\ UNCHANGED <<waiting, connecting>>

-----------------------------------------------------------------------------
(* connect() and attach() *)

OnReady(n) ==
  /\ conn[n] = "opening"
  /\ conn' = [conn EXCEPT ![n] = "attached"]
  /\ socket' = n
  /\ stuckOn' = None
  /\ LET written == IF Password THEN <<Auth>> ELSE waiting IN
       /\ pending' = pending \o written
       /\ wire' = [wire EXCEPT ![n] = written]
  /\ waiting' = IF Password THEN waiting ELSE <<>>
  /\ connecting' = Password
  /\ UNCHANGED outcome

\* onConnectError: the connection is refused, breaks or times out.
OnConnectError(n) ==
  /\ conn[n] = "opening"
  /\ conn' = [conn EXCEPT ![n] = "closed"]
  /\ outcome' = Settled(Range(waiting), Failed)
  /\ waiting' = <<>>
  /\ connecting' = FALSE
  /\ UNCHANGED <<socket, pending, stuckOn, wire>>

OnClose(n) ==
  /\ conn[n] = "attached"
  /\ conn' = [conn EXCEPT ![n] = "closed"]
  /\ socket' = IF socket = n THEN None ELSE socket
  /\ RejectPending(Failed)
  /\ stuckOn' = None
  /\ UNCHANGED wire

\* For a mutant: the command that got no reply fails, its connection lives on.
MutTimesOutAlone(n) ==
  /\ socket = n /\ pending # <<>>
  /\ outcome' = Settled({Head(pending)}, Failed)
  /\ pending' = Tail(pending)
  /\ UNCHANGED <<conn, socket, connecting, waiting, stuckOn, wire>>

\* The timer of a command, AUTH or not, destroys the socket.
TimesOut(n) ==
  /\ socket = n /\ pending # <<>>
  /\ OnClose(n)

-----------------------------------------------------------------------------
(* drain(), for the server's next reply on the wire.  parse throws on an   *)
(* error reply before parseOffset moves past it: the loop goes on to       *)
(* reject whatever is pending with the same reply, and no later reply of   *)
(* this connection is ever read.                                           *)

Reply(n, error) ==
  /\ conn[n] = "attached" /\ wire[n] # <<>>
  /\ IF stuckOn = None /\ ~error
     THEN /\ ResolveOldest(n, [as |-> "value", of |-> Head(wire[n])])
          /\ UNCHANGED stuckOn
     ELSE /\ stuckOn' = IF stuckOn = None THEN Head(wire[n]) ELSE stuckOn
          /\ RejectPending([as |-> "error", of |-> stuckOn'])
          /\ wire' = [wire EXCEPT ![n] = Tail(@)]
  /\ UNCHANGED <<conn, socket>>

RedisNext ==
  \/ \E c \in Calls : Send(c) \/ AwaitConnection(c) \/ Connect(c)
  \/ \E n \in Conns :
       \/ OnReady(n) \/ OnConnectError(n) \/ OnClose(n) \/ TimesOut(n)
       \/ \E error \in BOOLEAN : Reply(n, error)

\* connect() and every command arm a timer, so neither an opening socket nor
\* a pending command is left alone for ever.  No reply is owed by the server.
RedisFairness ==
  \A n \in Conns :
    WF_redisVars(OnReady(n) \/ OnConnectError(n)) /\ WF_redisVars(TimesOut(n))

RedisSpec == RedisInit /\ [][RedisNext]_redisVars /\ RedisFairness

-----------------------------------------------------------------------------
(* Properties *)

\* However callers, connections and replies interleave, the client never
\* holds two connections: not while it is authenticating, nor when one fails
\* under calls that still wait for it.
OneConnection ==
  \A m, n \in Conns :
    {conn[m], conn[n]} \subseteq {"opening", "attached"} => m = n

\* drain pairs the next reply with the oldest pending command, so the two
\* queues must agree whenever replies are read at all: a command dropped from
\* one alone would shift every later reply to the wrong caller.
InStep ==
  /\ socket = None => pending = <<>>
  /\ socket # None /\ stuckOn = None => pending = wire[socket]

\* A value is only ever returned to the call that asked for it, across
\* timeouts, reconnections and error replies.
ValuesGoToTheirCallers ==
  \A c \in Calls :
    outcome[c].as = "value" => outcome[c].of = c

\* No call hangs: whatever the server or the network does, each one is
\* answered or fails, those queued behind a connection that fails included.
EveryCallSettles ==
  \A c \in Calls : outcome[c].as = "open" ~> outcome[c].as # "open"

\* One typed connection, whose two queues agree.
ConnectionIsSound == RedisTypeOK /\ OneConnection /\ InStep
=============================================================================
