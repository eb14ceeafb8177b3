--------------------------- MODULE RealtimeClient ---------------------------
(***************************************************************************)
(* The page's one connection to the socket service (hooks/use-socket.ts):  *)
(* the hooks that hold it, the connect() calls that await a token, the     *)
(* socket they create, the timer that calls connect() again, and the reset *)
(* at logout.  socket.io itself is external: it retries after a transport  *)
(* error and stays silent after a refused handshake or a DISCONNECT packet *)
(* of the server.                                                          *)
(***************************************************************************)
EXTENDS Naturals, FiniteSets

CONSTANTS Hooks,               \* components that call useSocket
          Sockets,             \* bound: socket objects alive at once
          Connects,            \* bound: connect() calls awaiting a token at once
          NoSocket

ASSUME SocketAssumption == Sockets \cap {NoSocket, "none", "fresh"} = {}

VARIABLES held,                \* the mounted hooks; acquireCount is their number
          connectWanted,
          connecting,
          call,                \* connect(): its epoch is current or stale
          reconnectTimer,      \* "none", "fresh" (target null) or its target
          socket,              \* the module's socket, or NoSocket
          link,                \* what each socket object is doing
          crossed,             \* history: a reset met a connect() in flight
          shadowed             \* history: a refusal found another timer pending

vars == <<held, connectWanted, connecting, call, reconnectTimer, socket, link,
          crossed, shadowed>>

\* active is socket.io's own retry; a dead socket waits for somebody's connect().
Active == {"opening", "up", "lost"}
LinkStates == Active \cup {"unused", "refused", "expelled"}

TypeOK ==
  /\ held \subseteq Hooks
  /\ {connectWanted, connecting, crossed, shadowed} \subseteq BOOLEAN
  /\ call \in [Connects -> {"idle", "current", "stale"}]
  /\ reconnectTimer \in {"none", "fresh"} \cup Sockets
  /\ socket \in Sockets \cup {NoSocket}
  /\ link \in [Sockets -> LinkStates]

Init ==
  /\ held = {} /\ connectWanted = FALSE /\ connecting = FALSE
  /\ call = [c \in Connects |-> "idle"]
  /\ reconnectTimer = "none" /\ socket = NoSocket
  /\ link = [s \in Sockets |-> "unused"]
  /\ crossed = FALSE /\ shadowed = FALSE

-----------------------------------------------------------------------------
(* connect()                                                               *)

InFlight == {c \in Connects : call[c] # "idle"}

\* A connect() up to its await, from the calls calls, with the module's socket
\* and connecting flag as the caller leaves them.
Connect(calls, sock, busy) ==
  IF busy \/ sock # NoSocket
    THEN connecting' = busy /\ call' = calls
    ELSE /\ connecting' = TRUE
         /\ LET idle == {c \in Connects : calls[c] = "idle"}
            IN  idle # {} /\ call' = [calls EXCEPT ![CHOOSE c \in idle : TRUE] = "current"]

ScheduleReconnect(target) ==
  reconnectTimer' = IF reconnectTimer = "none" THEN target ELSE reconnectTimer

\* Mutant: the end of a superseded connect() does not start another.
NotAgain(c, sock) ==
  connecting' = FALSE /\ call' = [call EXCEPT ![c] = "idle"]

\* The finally block.
Finally(c, sock) ==
  IF connectWanted /\ sock = NoSocket /\ call[c] = "stale"
    THEN Connect([call EXCEPT ![c] = "idle"], sock, FALSE)
    ELSE connecting' = FALSE /\ call' = [call EXCEPT ![c] = "idle"]

\* Mutant: the epoch is not looked at after the await.
AnyEpoch(c) == TRUE

SameEpoch(c) == call[c] = "current"

\* The token came: io() makes the socket and starts its handshake.
TokenFound(c) ==
  /\ c \in InFlight
  /\ IF SameEpoch(c)
       THEN \E s \in Sockets :
              /\ link[s] = "unused"
              /\ socket' = s /\ link' = [link EXCEPT ![s] = "opening"]
       ELSE UNCHANGED <<socket, link>>
  /\ Finally(c, socket')
  /\ UNCHANGED <<held, connectWanted, reconnectTimer, crossed, shadowed>>

\* No session resolved.
TokenNull(c) ==
  /\ c \in InFlight
  /\ IF SameEpoch(c) /\ connectWanted
       THEN ScheduleReconnect("fresh")
       ELSE UNCHANGED reconnectTimer
  /\ Finally(c, socket)
  /\ UNCHANGED <<held, connectWanted, socket, link, crossed, shadowed>>

\* resolveAccessToken or io() threw.
ConnectThrows(c) ==
  /\ c \in InFlight
  /\ IF connectWanted /\ socket = NoSocket
       THEN ScheduleReconnect("fresh")
       ELSE UNCHANGED reconnectTimer
  /\ Finally(c, socket)
  /\ UNCHANGED <<held, connectWanted, socket, link, crossed, shadowed>>

-----------------------------------------------------------------------------
(* The hooks and the logout                                                *)

\* acquire(): only the first hook starts anything.
Mount(h) ==
  /\ h \notin held
  /\ held' = held \cup {h}
  /\ IF held = {}
       THEN connectWanted' = TRUE /\ Connect(call, socket, connecting)
       ELSE UNCHANGED <<connectWanted, connecting, call>>
  /\ UNCHANGED <<reconnectTimer, socket, link, crossed, shadowed>>

\* The epoch moves on, the timer is cleared and the socket is disconnected.
TearDown ==
  /\ connectWanted' = FALSE
  /\ call' = [c \in Connects |-> IF call[c] = "idle" THEN "idle" ELSE "stale"]
  /\ reconnectTimer' = "none"
  /\ socket' = NoSocket
  /\ link' = [s \in Sockets |-> IF s = socket THEN "unused" ELSE link[s]]

\* release(): the last hook tears down; connecting is left to the finally block.
Unmount(h) ==
  /\ h \in held
  /\ held' = held \ {h}
  /\ IF held' = {}
       THEN TearDown
       ELSE UNCHANGED <<connectWanted, call, reconnectTimer, socket, link>>
  /\ UNCHANGED <<connecting, crossed, shadowed>>

\* resetRealtimeClient(), from logout and deleteAccount.
Reset ==
  /\ TearDown
  /\ connecting' = FALSE
  /\ crossed' = (crossed \/ InFlight # {})
  /\ UNCHANGED <<held, shadowed>>

-----------------------------------------------------------------------------
(* The socket and its timer                                                *)

OnlyLink ==
  UNCHANGED <<held, connectWanted, connecting, call, reconnectTimer, socket,
              crossed, shadowed>>

\* socket.io: the handshake is accepted, or fails and is tried again.
Accepted(s) ==
  /\ link[s] = "opening"
  /\ link' = [link EXCEPT ![s] = "up"]
  /\ OnlyLink

TransportFails(s) ==
  /\ link[s] \in {"opening", "up"}
  /\ link' = [link EXCEPT ![s] = "lost"]
  /\ OnlyLink

ManagerRetries(s) ==
  /\ link[s] = "lost"
  /\ link' = [link EXCEPT ![s] = "opening"]
  /\ OnlyLink

\* Mutant: a refused handshake is left to socket.io.
RefusedSilently(s) ==
  /\ link[s] = "opening"
  /\ link' = [link EXCEPT ![s] = "refused"]
  /\ OnlyLink

\* connect_error of the namespace: Unauthorized or rate_limited.
Refused(s) ==
  /\ link[s] = "opening"
  /\ link' = [link EXCEPT ![s] = "refused"]
  /\ IF connectWanted /\ socket = s
       THEN ScheduleReconnect(s) /\ shadowed' = (shadowed \/ reconnectTimer # "none")
       ELSE UNCHANGED <<reconnectTimer, shadowed>>
  /\ UNCHANGED <<held, connectWanted, connecting, call, socket, crossed>>

\* The server disconnects the socket: a kick, an outdated or an expired token.
Expelled(s) ==
  /\ link[s] = "up"
  /\ link' = [link EXCEPT ![s] = "expelled"]
  /\ OnlyLink

TimerFires ==
  /\ reconnectTimer # "none"
  /\ reconnectTimer' = "none"
  /\ LET target == reconnectTimer IN
       IF target = "fresh"
         THEN /\ IF connectWanted
                   THEN Connect(call, socket, connecting)
                   ELSE UNCHANGED <<connecting, call>>
              /\ UNCHANGED link
         ELSE /\ link' = IF connectWanted /\ socket = target /\ link[target] \notin Active
                           THEN [link EXCEPT ![target] = "opening"]
                           ELSE link
              /\ UNCHANGED <<connecting, call>>
  /\ UNCHANGED <<held, connectWanted, socket, crossed, shadowed>>

Next ==
  \/ \E h \in Hooks : Mount(h) \/ Unmount(h)
  \/ Reset
  \/ \E c \in Connects : TokenFound(c) \/ TokenNull(c) \/ ConnectThrows(c)
  \/ \E s \in Sockets : \/ Accepted(s) \/ TransportFails(s) \/ ManagerRetries(s)
                        \/ Refused(s) \/ Expelled(s)
  \/ TimerFires

\* Timers fire and calls return; a token and a free server are found again and again.
Fairness ==
  /\ WF_vars(TimerFires)
  /\ SF_vars(\E c \in Connects : TokenFound(c))
  /\ \A s \in Sockets : WF_vars(ManagerRetries(s)) /\ SF_vars(Accepted(s))

Spec == Init /\ [][Next]_vars /\ Fairness

-----------------------------------------------------------------------------
(* Properties                                                              *)

\* No socket outlives its holders: whatever the order of mounts, releases and
\* late tokens, a socket that is open or retrying is the one the module knows,
\* and somebody wants it.  A reset during a connect() is excluded: see README.
NoZombie ==
  ~crossed => \A s \in Sockets : link[s] \in Active => socket = s /\ connectWanted

\* While the connection is wanted, something is on its way to it: a call, a
\* timer or a socket that retries by itself.
NotAbandoned ==
  connectWanted => \/ InFlight # {} \/ reconnectTimer # "none"
                   \/ socket # NoSocket /\ link[socket] \in Active

\* The same but for an expulsion by the server, which nobody listens to, and a
\* refusal whose timer was dropped because an older failure's was still pending.
NotAbandonedByUs ==
  \/ socket # NoSocket /\ link[socket] = "expelled"
  \/ shadowed
  \/ NotAbandoned

\* The socket lives exactly as long as somebody holds it: none outlives its
\* holders, and while it is wanted something is on its way to it.
SocketWanted == TypeOK /\ NoZombie /\ NotAbandonedByUs

\* A connection that stays wanted comes up (or is expelled), however often the
\* hooks were mounted and released while its token was resolved.
ComesUp ==
  connectWanted ~> \/ ~connectWanted \/ shadowed
                   \/ socket # NoSocket /\ link[socket] \in {"up", "expelled"}

=============================================================================
