----------------------------- MODULE RealtimeProofs -----------------------------
(***************************************************************************)
(* The way of an event to the page, beyond the small instance of the run:  *)
(* the client's socket lives exactly as long as it is held, for any hooks, *)
(* sockets and overlapping connect() calls; the polling skips no row, for  *)
(* any rows, polls, page size and clocks; no socket of the service has     *)
(* more rooms than its limit, for any sockets, rooms and joins.            *)
(***************************************************************************)
EXTENDS RealtimeMC, FiniteSetTheorems, WellFoundedInduction, TLAPS

-----------------------------------------------------------------------------
(* The inductive invariant                                                 *)

\* connecting stands for a call, always.
CallInv == connecting => InFlight # {}

\* Until a reset has met a call, there is one call at a time, the flag says so,
\* and a current one finds no socket.
OneCallInv ==
  ~crossed => /\ \A c, d \in InFlight : c = d
              /\ InFlight # {} => connecting
              /\ \A c \in Connects : call[c] = "current" => socket = NoSocket

\* A current call and the module's socket are there because somebody wants them.
WantedInv ==
  /\ \A c \in Connects : call[c] = "current" => connectWanted
  /\ socket # NoSocket => connectWanted

\* The module's socket was made and not yet disconnected.
SocketInv == socket # NoSocket => link[socket] # "unused"

\* Without a socket the timer can only ask for a new one, and something asks.
AskInv ==
  socket = NoSocket =>
    /\ reconnectTimer \in {"none", "fresh"}
    /\ connectWanted => InFlight # {} \/ reconnectTimer # "none"

\* A refused socket has the timer that reconnects it, if none stood in its way.
RetryInv ==
  socket # NoSocket /\ connectWanted /\ ~shadowed =>
    link[socket] \in Active \cup {"expelled"} \/ reconnectTimer = socket

IInv == /\ TypeOK /\ CallInv /\ OneCallInv /\ WantedInv /\ SocketInv
        /\ AskInv /\ RetryInv /\ NoZombie

THEOREM Initial == Init => IInv
  BY SocketAssumption
  DEF Init, IInv, TypeOK, CallInv, OneCallInv, WantedInv, SocketInv, AskInv, RetryInv, NoZombie,
      InFlight, Active, LinkStates

-----------------------------------------------------------------------------
(* What the helpers of the handlers do                                     *)

Calls == [Connects -> {"idle", "current", "stale"}]

\* connect() up to its await: nothing, or one more current call.
LEMMA ConnectEffect ==
  ASSUME NEW calls \in Calls, NEW sock, NEW busy \in BOOLEAN,
         Connect(calls, sock, busy)
  PROVE  \/ (busy \/ sock # NoSocket) /\ connecting' = busy /\ call' = calls
         \/ /\ ~busy /\ sock = NoSocket /\ connecting' = TRUE
            /\ \E c \in Connects : calls[c] = "idle" /\ call' = [calls EXCEPT ![c] = "current"]
<1>1. CASE busy \/ sock # NoSocket
  BY <1>1 DEF Connect
<1>2. CASE ~busy /\ sock = NoSocket
  <2> DEFINE idle == {c \in Connects : calls[c] = "idle"}
  <2>1. /\ connecting' = TRUE /\ idle # {}
        /\ call' = [calls EXCEPT ![CHOOSE c \in idle : TRUE] = "current"]
    BY <1>2 DEF Connect
  <2>2. (CHOOSE c \in idle : TRUE) \in idle
    BY <2>1
  <2> QED
    BY <1>2, <2>1, <2>2
<1> QED
  BY <1>1, <1>2

\* The finally block ends its call, and may start one in its place.
LEMMA FinallyEffect ==
  ASSUME call \in Calls, NEW c \in InFlight, NEW sock, Finally(c, sock)
  PROVE  LET ended == [call EXCEPT ![c] = "idle"] IN
         \/ /\ ~(connectWanted /\ sock = NoSocket /\ call[c] = "stale")
            /\ connecting' = FALSE /\ call' = ended
         \/ /\ connectWanted /\ sock = NoSocket /\ connecting' = TRUE
            /\ \E d \in Connects : ended[d] = "idle" /\ call' = [ended EXCEPT ![d] = "current"]
<1> DEFINE ended == [call EXCEPT ![c] = "idle"]
<1>1. ended \in Calls
  BY DEF Calls, InFlight
<1>2. CASE connectWanted /\ sock = NoSocket /\ call[c] = "stale"
  <2>1. Connect(ended, sock, FALSE)
    BY <1>2 DEF Finally
  <2> QED
    BY <1>1, <1>2, <2>1, ConnectEffect
<1>3. CASE ~(connectWanted /\ sock = NoSocket /\ call[c] = "stale")
  BY <1>3 DEF Finally
<1> QED
  BY <1>2, <1>3

\* The flag and the calls after a call has ended, whatever it found.
LEMMA EndOfCall ==
  ASSUME TypeOK, OneCallInv, WantedInv, NEW c \in InFlight, NEW sock, Finally(c, sock)
  PROVE  /\ call' \in Calls /\ connecting' \in BOOLEAN
         /\ connecting' => InFlight' # {}
         /\ ~crossed => /\ \A d, e \in InFlight' : d = e
                        /\ InFlight' # {} => connecting'
                        /\ \A d \in Connects :
                             call'[d] = "current" => sock = NoSocket
         /\ \A d \in Connects : call'[d] = "current" => connectWanted
         /\ connectWanted /\ sock = NoSocket /\ call[c] = "stale" => InFlight' # {}
<1> DEFINE ended == [call EXCEPT ![c] = "idle"]
<1>0. call \in Calls /\ ended \in Calls /\ c \in Connects /\ ended[c] = "idle"
      /\ \A d \in Connects : ended[d] = "current" => connectWanted
  BY DEF TypeOK, Calls, InFlight, WantedInv
<1>1. ~crossed => \A d \in Connects : ended[d] = "idle"
  BY <1>0 DEF OneCallInv, InFlight, Calls
<1>2. CASE /\ ~(connectWanted /\ sock = NoSocket /\ call[c] = "stale")
           /\ connecting' = FALSE /\ call' = ended
  BY <1>0, <1>1, <1>2 DEF InFlight, Calls
<1>3. CASE /\ connectWanted /\ sock = NoSocket /\ connecting' = TRUE
           /\ \E d \in Connects : ended[d] = "idle" /\ call' = [ended EXCEPT ![d] = "current"]
  <2>1. PICK d \in Connects : ended[d] = "idle" /\ call' = [ended EXCEPT ![d] = "current"]
    BY <1>3
  <2>2. call'[d] = "current" /\ call' \in Calls
    BY <1>0, <2>1 DEF Calls
  <2> QED
    BY <1>0, <1>1, <1>3, <2>1, <2>2 DEF InFlight, Calls
<1>4. \/ /\ ~(connectWanted /\ sock = NoSocket /\ call[c] = "stale")
         /\ connecting' = FALSE /\ call' = ended
      \/ /\ connectWanted /\ sock = NoSocket /\ connecting' = TRUE
         /\ \E d \in Connects : ended[d] = "idle" /\ call' = [ended EXCEPT ![d] = "current"]
  <2>1. call \in Calls
    BY <1>0
  <2> QED
    BY <2>1, FinallyEffect
<1> QED
  BY <1>2, <1>3, <1>4

-----------------------------------------------------------------------------
(* One lemma for each handler                                              *)

LEMMA TokenFoundKeeps ==
  ASSUME IInv, NEW c \in Connects, TokenFound(c)
  PROVE  IInv'
<1>0. /\ c \in InFlight /\ Finally(c, socket')
      /\ UNCHANGED <<held, connectWanted, reconnectTimer, crossed, shadowed>>
  BY DEF TokenFound
<1>1. /\ call' \in Calls /\ connecting' \in BOOLEAN
      /\ connecting' => InFlight' # {}
      /\ ~crossed => /\ \A d, e \in InFlight' : d = e
                     /\ InFlight' # {} => connecting'
                     /\ \A d \in Connects : call'[d] = "current" => socket' = NoSocket
      /\ \A d \in Connects : call'[d] = "current" => connectWanted
      /\ connectWanted /\ socket' = NoSocket /\ call[c] = "stale" => InFlight' # {}
  BY <1>0, EndOfCall DEF IInv
<1>2. CASE call[c] = "current"
  <2>1. PICK s \in Sockets :
          /\ link[s] = "unused"
          /\ socket' = s /\ link' = [link EXCEPT ![s] = "opening"]
    BY <1>2 DEF TokenFound, SameEpoch
  <2>2. socket' # NoSocket /\ link'[s] = "opening" /\ connectWanted
    BY <1>0, <1>2, <2>1, SocketAssumption DEF IInv, TypeOK, WantedInv, InFlight
  <2>3. TypeOK' /\ CallInv' /\ OneCallInv' /\ WantedInv'
    BY <1>0, <1>1, <2>1, <2>2 DEF IInv, TypeOK, CallInv, OneCallInv, WantedInv, Calls, LinkStates, Active
  <2>4. SocketInv' /\ AskInv' /\ RetryInv'
    BY <1>0, <2>1, <2>2 DEF SocketInv, AskInv, RetryInv, Active
  <2>5. NoZombie'
    BY <1>0, <1>2, <2>1, <2>2, SocketAssumption
    DEF IInv, TypeOK, NoZombie, OneCallInv, InFlight, Active
  <2> QED
    BY <2>3, <2>4, <2>5 DEF IInv
<1>3. CASE call[c] = "stale"
  <2>1. UNCHANGED <<socket, link>>
    BY <1>3 DEF TokenFound, SameEpoch
  <2>2. TypeOK' /\ CallInv' /\ OneCallInv' /\ WantedInv'
    BY <1>0, <1>1, <2>1 DEF IInv, TypeOK, CallInv, OneCallInv, WantedInv, Calls
  <2>3. SocketInv' /\ AskInv' /\ RetryInv' /\ NoZombie'
    BY <1>0, <1>1, <1>3, <2>1 DEF IInv, SocketInv, AskInv, RetryInv, NoZombie
  <2> QED
    BY <2>2, <2>3 DEF IInv
<1> QED
  BY <1>0, <1>2, <1>3 DEF IInv, TypeOK, InFlight

\* A call that brought no socket: the timer is set when the call was current,
\* and the finally block starts another one when it was not.
LEMMA NoTokenKeeps ==
  ASSUME IInv, NEW c \in Connects, TokenNull(c) \/ ConnectThrows(c)
  PROVE  IInv'
<1>0. /\ c \in InFlight /\ Finally(c, socket)
      /\ UNCHANGED <<held, connectWanted, socket, link, crossed, shadowed>>
  BY DEF TokenNull, ConnectThrows
<1>1. /\ call' \in Calls /\ connecting' \in BOOLEAN
      /\ connecting' => InFlight' # {}
      /\ ~crossed => /\ \A d, e \in InFlight' : d = e
                     /\ InFlight' # {} => connecting'
                     /\ \A d \in Connects : call'[d] = "current" => socket = NoSocket
      /\ \A d \in Connects : call'[d] = "current" => connectWanted
      /\ connectWanted /\ socket = NoSocket /\ call[c] = "stale" => InFlight' # {}
  BY <1>0, EndOfCall DEF IInv
<1>2. /\ reconnectTimer' \in {reconnectTimer, "fresh"}
      /\ reconnectTimer # "none" => reconnectTimer' = reconnectTimer
      /\ call[c] = "current" /\ connectWanted /\ socket = NoSocket => reconnectTimer' # "none"
  BY DEF TokenNull, ConnectThrows, ScheduleReconnect, SameEpoch
<1>3. TypeOK' /\ CallInv' /\ OneCallInv' /\ WantedInv'
  BY <1>0, <1>1, <1>2 DEF IInv, TypeOK, CallInv, OneCallInv, WantedInv, Calls
<1>4. SocketInv' /\ NoZombie'
  BY <1>0 DEF IInv, SocketInv, NoZombie
<1>5. AskInv'
  BY <1>0, <1>1, <1>2 DEF IInv, TypeOK, AskInv, InFlight
<1>6. RetryInv'
  BY <1>0, <1>2, SocketAssumption DEF IInv, TypeOK, RetryInv
<1> QED
  BY <1>3, <1>4, <1>5, <1>6 DEF IInv

\* A start of connect() by a hook or by the timer, when the socket is wanted.
LEMMA StartKeeps ==
  ASSUME IInv, Connect(call, socket, connecting), connectWanted' = TRUE,
         UNCHANGED <<socket, link, crossed, shadowed>>,
         held' \subseteq Hooks,
         reconnectTimer' = reconnectTimer \/ (reconnectTimer = "fresh" /\ reconnectTimer' = "none"),
         socket # NoSocket => connectWanted
  PROVE  IInv'
<1>0. call \in Calls /\ connecting \in BOOLEAN
  BY DEF IInv, TypeOK, Calls
<1>1. \/ (connecting \/ socket # NoSocket) /\ connecting' = connecting /\ call' = call
      \/ /\ ~connecting /\ socket = NoSocket /\ connecting' = TRUE
         /\ \E c \in Connects : call[c] = "idle" /\ call' = [call EXCEPT ![c] = "current"]
  BY <1>0, ConnectEffect
<1>2. NoZombie' /\ SocketInv' /\ RetryInv'
  BY SocketAssumption DEF IInv, TypeOK, NoZombie, SocketInv, RetryInv
<1>3. CASE (connecting \/ socket # NoSocket) /\ connecting' = connecting /\ call' = call
  <2>1. TypeOK' /\ CallInv' /\ OneCallInv' /\ WantedInv'
    BY <1>3 DEF IInv, TypeOK, CallInv, OneCallInv, WantedInv, InFlight
  <2>2. AskInv'
    BY <1>3 DEF IInv, TypeOK, AskInv, CallInv, InFlight
  <2> QED
    BY <1>2, <2>1, <2>2 DEF IInv
<1>4. CASE /\ ~connecting /\ socket = NoSocket /\ connecting' = TRUE
           /\ \E c \in Connects : call[c] = "idle" /\ call' = [call EXCEPT ![c] = "current"]
  <2>1. PICK c \in Connects : call[c] = "idle" /\ call' = [call EXCEPT ![c] = "current"]
    BY <1>4
  <2>2. call'[c] = "current" /\ call' \in Calls /\ InFlight' # {}
    BY <1>0, <2>1 DEF Calls, InFlight
  <2>3. ~crossed => InFlight' = {c}
    BY <1>0, <1>4, <2>1 DEF IInv, OneCallInv, InFlight, Calls
  <2>4. TypeOK' /\ CallInv' /\ OneCallInv' /\ WantedInv'
    BY <1>4, <2>2, <2>3 DEF IInv, TypeOK, CallInv, OneCallInv, WantedInv, Calls
  <2>5. AskInv'
    BY <1>4, <2>2 DEF IInv, AskInv
  <2> QED
    BY <1>2, <2>4, <2>5 DEF IInv
<1> QED
  BY <1>1, <1>3, <1>4

LEMMA MountKeeps ==
  ASSUME IInv, NEW h \in Hooks, Mount(h)
  PROVE  IInv'
<1>1. CASE held = {}
  <2>1. /\ Connect(call, socket, connecting) /\ connectWanted' = TRUE
        /\ UNCHANGED <<socket, link, crossed, shadowed>>
        /\ held' \subseteq Hooks /\ reconnectTimer' = reconnectTimer
    BY <1>1 DEF Mount, IInv, TypeOK
  <2>2. socket # NoSocket => connectWanted
    BY DEF IInv, WantedInv
  <2> QED
    BY <2>1, <2>2, StartKeeps
<1>2. CASE held # {}
  <2>1. UNCHANGED <<connectWanted, connecting, call, reconnectTimer, socket, link,
                    crossed, shadowed>>
    BY <1>2 DEF Mount
  <2> QED
    BY <2>1 DEF Mount, IInv, TypeOK, CallInv, OneCallInv, WantedInv, SocketInv, AskInv,
                RetryInv, NoZombie, InFlight
<1> QED
  BY <1>1, <1>2

\* After the last release and after a logout nothing is wanted and nothing lives.
LEMMA TearDownKeeps ==
  ASSUME IInv, TearDown, held' \subseteq Hooks, connecting' \in {connecting, FALSE},
         crossed' \in BOOLEAN, crossed => crossed',
         connecting' = connecting \/ (InFlight # {} => crossed'),
         UNCHANGED shadowed
  PROVE  IInv'
<1>0. /\ call \in Calls
      /\ call' = [c \in Connects |-> IF call[c] = "idle" THEN "idle" ELSE "stale"]
  BY DEF IInv, TypeOK, TearDown, Calls
<1>1. /\ InFlight' = InFlight
      /\ \A c \in Connects : call'[c] # "current"
      /\ call' \in Calls
  BY <1>0 DEF InFlight, Calls
<1>2. TypeOK'
  BY <1>1 DEF IInv, TypeOK, TearDown, Calls, LinkStates
<1>3. WantedInv'
  BY <1>1 DEF WantedInv, TearDown
<1>4. connecting \in BOOLEAN /\ (connecting => InFlight # {})
  BY DEF IInv, TypeOK, CallInv
<1>5. CallInv'
  <2>1. connecting' => InFlight' # {}
    BY <1>1, <1>4
  <2> QED
    BY <2>1 DEF CallInv
<1>6. OneCallInv'
  <2>1. CASE crossed'
    BY <2>1 DEF OneCallInv
  <2>2. CASE ~crossed'
    <3>1. ~crossed /\ (InFlight # {} => connecting) /\ (InFlight # {} => connecting')
      BY <2>2 DEF IInv, TypeOK, OneCallInv
    <3> QED
      BY <1>1, <3>1 DEF IInv, OneCallInv
  <2> QED
    BY <2>1, <2>2
<1>7. SocketInv' /\ AskInv' /\ RetryInv'
  BY DEF TearDown, SocketInv, AskInv, RetryInv
<1>8. NoZombie'
  BY DEF IInv, TypeOK, TearDown, NoZombie, Active
<1> QED
  BY <1>2, <1>3, <1>5, <1>6, <1>7, <1>8 DEF IInv

LEMMA UnmountKeeps ==
  ASSUME IInv, NEW h \in Hooks, Unmount(h)
  PROVE  IInv'
<1>1. CASE held' = {}
  BY <1>1, TearDownKeeps DEF Unmount, IInv, TypeOK
<1>2. CASE held' # {}
  <2>1. UNCHANGED <<connectWanted, connecting, call, reconnectTimer, socket, link,
                    crossed, shadowed>>
    BY <1>2 DEF Unmount
  <2> QED
    BY <2>1 DEF Unmount, IInv, TypeOK, CallInv, OneCallInv, WantedInv, SocketInv, AskInv,
                RetryInv, NoZombie, InFlight
<1> QED
  BY <1>1, <1>2

LEMMA ResetKeeps ==
  ASSUME IInv, Reset
  PROVE  IInv'
<1>1. crossed' \in BOOLEAN /\ (crossed => crossed') /\ (InFlight # {} => crossed')
  BY DEF Reset
<1> QED
  BY <1>1, TearDownKeeps DEF Reset, IInv, TypeOK

\* A socket goes from state to state by itself: one that was made stays made,
\* and only one that was active becomes active.
LEMMA LinkKeeps ==
  ASSUME IInv, NEW s \in Sockets,
         Accepted(s) \/ TransportFails(s) \/ ManagerRetries(s) \/ Expelled(s)
  PROVE  IInv'
<1>1. /\ link[s] \in Active /\ link'[s] \in Active \cup {"expelled"}
      /\ link' \in [Sockets -> LinkStates]
      /\ \A t \in Sockets : t # s => link'[t] = link[t]
      /\ OnlyLink
  BY DEF Accepted, TransportFails, ManagerRetries, Expelled, IInv, TypeOK, Active, LinkStates
<1>2. TypeOK' /\ CallInv' /\ OneCallInv' /\ WantedInv' /\ AskInv'
  BY <1>1 DEF OnlyLink, IInv, TypeOK, CallInv, OneCallInv, WantedInv, AskInv, InFlight
<1>3. SocketInv' /\ RetryInv' /\ NoZombie'
  BY <1>1 DEF OnlyLink, IInv, TypeOK, SocketInv, RetryInv, NoZombie, Active
<1> QED
  BY <1>2, <1>3 DEF IInv

\* The refused socket of the module arms its timer, or is seen to be shadowed.
LEMMA RefusedKeeps ==
  ASSUME IInv, NEW s \in Sockets, Refused(s)
  PROVE  IInv'
<1>1. /\ link[s] \in Active /\ link'[s] = "refused"
      /\ link' \in [Sockets -> LinkStates]
      /\ \A t \in Sockets : t # s => link'[t] = link[t]
      /\ UNCHANGED <<held, connectWanted, connecting, call, socket, crossed>>
  BY DEF Refused, IInv, TypeOK, Active, LinkStates
<1>2. CASE connectWanted /\ socket = s
  <2>1. /\ reconnectTimer' = IF reconnectTimer = "none" THEN s ELSE reconnectTimer
        /\ shadowed' = (shadowed \/ reconnectTimer # "none")
    BY <1>2 DEF Refused, ScheduleReconnect
  <2>2. TypeOK' /\ CallInv' /\ OneCallInv' /\ WantedInv'
    BY <1>1, <2>1 DEF IInv, TypeOK, CallInv, OneCallInv, WantedInv, InFlight
  <2>3. SocketInv' /\ AskInv' /\ RetryInv' /\ NoZombie'
    BY <1>1, <1>2, <2>1, SocketAssumption
    DEF IInv, TypeOK, SocketInv, AskInv, RetryInv, NoZombie, Active
  <2> QED
    BY <2>2, <2>3 DEF IInv
<1>3. CASE ~(connectWanted /\ socket = s)
  <2>1. UNCHANGED <<reconnectTimer, shadowed>>
    BY <1>3 DEF Refused
  <2>2. TypeOK' /\ CallInv' /\ OneCallInv' /\ WantedInv' /\ AskInv'
    BY <1>1, <2>1 DEF IInv, TypeOK, CallInv, OneCallInv, WantedInv, AskInv, InFlight
  <2>3. SocketInv' /\ RetryInv' /\ NoZombie'
    BY <1>1, <1>3, <2>1, SocketAssumption
    DEF IInv, TypeOK, SocketInv, RetryInv, NoZombie, Active
  <2> QED
    BY <2>2, <2>3 DEF IInv
<1> QED
  BY <1>2, <1>3

\* The timer of the module's socket opens it again; a fresh one calls connect().
LEMMA TimerKeeps ==
  ASSUME IInv, TimerFires
  PROVE  IInv'
<1>0. reconnectTimer \in {"fresh"} \cup Sockets /\ reconnectTimer' = "none"
  BY DEF IInv, TypeOK, TimerFires
<1>1. CASE reconnectTimer = "fresh" /\ connectWanted
  BY <1>0, <1>1, StartKeeps DEF TimerFires, IInv, TypeOK
<1>2. CASE reconnectTimer = "fresh" /\ ~connectWanted
  <2>1. UNCHANGED <<held, connectWanted, connecting, call, socket, link, crossed, shadowed>>
    BY <1>2 DEF TimerFires
  <2> QED
    BY <1>0, <1>2, <2>1
    DEF IInv, TypeOK, CallInv, OneCallInv, WantedInv, SocketInv, AskInv, RetryInv,
        NoZombie, InFlight
<1>3. CASE reconnectTimer \in Sockets
  <2>1. /\ UNCHANGED <<held, connectWanted, connecting, call, socket, crossed, shadowed>>
        /\ socket # NoSocket
        /\ link' = IF /\ connectWanted /\ socket = reconnectTimer
                      /\ link[reconnectTimer] \notin Active
                     THEN [link EXCEPT ![reconnectTimer] = "opening"]
                     ELSE link
    BY <1>3, SocketAssumption DEF TimerFires, IInv, AskInv
  <2>2. TypeOK' /\ CallInv' /\ OneCallInv' /\ WantedInv' /\ AskInv'
    BY <1>0, <1>3, <2>1
    DEF IInv, TypeOK, CallInv, OneCallInv, WantedInv, AskInv, InFlight, LinkStates, Active
  <2>3. SocketInv' /\ RetryInv'
    BY <1>0, <1>3, <2>1 DEF IInv, TypeOK, SocketInv, RetryInv, Active
  <2>4. NoZombie'
    BY <1>3, <2>1 DEF IInv, TypeOK, NoZombie, Active
  <2> QED
    BY <2>2, <2>3, <2>4 DEF IInv
<1> QED
  BY <1>0, <1>1, <1>2, <1>3

-----------------------------------------------------------------------------
(* The theorems                                                            *)

\* Every step of the page and of its socket keeps the invariant.
THEOREM Inductive == IInv /\ [Next]_vars => IInv'
<1> SUFFICES ASSUME IInv, [Next]_vars
             PROVE  IInv'
  OBVIOUS
<1>1. CASE \E h \in Hooks : Mount(h) \/ Unmount(h)
  BY <1>1, MountKeeps, UnmountKeeps
<1>2. CASE Reset
  BY <1>2, ResetKeeps
<1>3. CASE \E c \in Connects : TokenFound(c) \/ TokenNull(c) \/ ConnectThrows(c)
  BY <1>3, TokenFoundKeeps, NoTokenKeeps
<1>4. CASE \E s \in Sockets : \/ Accepted(s) \/ TransportFails(s) \/ ManagerRetries(s)
                             \/ Refused(s) \/ Expelled(s)
  BY <1>4, LinkKeeps, RefusedKeeps
<1>5. CASE TimerFires
  BY <1>5, TimerKeeps
<1>6. CASE UNCHANGED vars
  BY <1>6 DEF vars, IInv, TypeOK, CallInv, OneCallInv, WantedInv, SocketInv, AskInv,
              RetryInv, NoZombie, InFlight
<1> QED
  BY <1>1, <1>2, <1>3, <1>4, <1>5, <1>6 DEF Next

\* The invariant holds in every state the page can reach.
THEOREM Invariance == Spec => []IInv
  BY Initial, Inductive, PTL DEF Spec

\* However mounts, releases, late tokens and refusals fall, no socket of the
\* page outlives its holders.
THEOREM NoneOutlives == Spec => []NoZombie
<1>1. IInv => NoZombie
  BY DEF IInv
<1> QED
  BY <1>1, Invariance, PTL

\* A page that wants the connection is never left without a call, a timer or a
\* socket on the way to it, unless the server expelled it or a refusal found
\* another timer pending; nor does a socket outlive its holders.
THEOREM AlwaysWanted == Spec => []SocketWanted
<1>1. IInv => SocketWanted
  BY SocketAssumption
  DEF IInv, TypeOK, AskInv, RetryInv, SocketWanted, NotAbandonedByUs, NotAbandoned
<1> QED
  BY <1>1, Invariance, PTL

-----------------------------------------------------------------------------
(* The polling.  A row that was begun is delivered, accounted for or ahead  *)
(* of the cursor, stored or not: what an answer knows of each row when it   *)
(* is read carries that over the step in which the cursor moves.            *)

LEMMA FeedSets ==
  /\ \A S : Feed!IsFiniteSet(S) <=> IsFiniteSet(S)
  /\ \A S : Feed!Cardinality(S) = Cardinality(S)
<1>1. \A S : Feed!IsFiniteSet(S) <=> IsFiniteSet(S)
  BY DEF Feed!IsFiniteSet, IsFiniteSet
<1>2. \A S : Feed!Cardinality(S) = Cardinality(S)
  BY DEF Feed!Cardinality, Cardinality
<1> QED
  BY <1>1, <1>2


RowBegun(x) == createdAt[x] # 0

\* The cursor is behind both clocks, and a backlog being drained has its
\* ceiling and where it began.
CursorInv ==
  /\ cursor.since <= clock
  /\ cursor.pending <= clock /\ cursor.pending <= Feed!clientNow
  /\ cursor.until # 0 => cursor.pending # 0

\* So is what a poll has asked for, when it was sent and when it was answered.
SentInv ==
  \A p \in Polls :
    /\ poll[p].pc # "idle" =>
         /\ poll[p].sentAt # 0 /\ poll[p].sentAt <= Feed!clientNow
         /\ poll[p].asked.pending <= poll[p].sentAt /\ poll[p].asked.pending <= clock
         /\ poll[p].asked.until # 0 => poll[p].asked.pending # 0
    /\ poll[p].pc = "answered" =>
         /\ poll[p].serverTime # 0 /\ poll[p].serverTime <= clock
         /\ poll[p].asked.pending <= poll[p].serverTime

\* What an answer knows of a row, begun by then or later.
Knows(r, x) ==
  \/ x \in r.page \cup r.open \cup r.behind
  \/ createdAt[x] >= r.serverTime
  \/ ~Feed!InWindow(x, r.asked.since, r.asked.until)
  \/ /\ Cardinality(r.page) >= Take
     /\ x \in r.tied \/ \A y \in r.page : createdAt[x] < createdAt[y]

AnswerInv ==
  \A p \in Polls : poll[p].pc = "answered" =>
    /\ \A x \in Posts : RowBegun(x) => Knows(poll[p], x)
    /\ \A x \in poll[p].page : RowBegun(x)

\* No row that was begun is behind the cursor unseen, stored or not.
BegunInv ==
  overtaken \/ \A x \in Posts : RowBegun(x) => Feed!Passed(x) \/ Feed!Covered(x)

StoredInv == \A x \in stored : RowBegun(x)

FeedInv == Feed!TypeOK /\ CursorInv /\ SentInv /\ AnswerInv /\ StoredInv /\ BegunInv

LEMMA MinOfTwo ==
  ASSUME NEW a \in Nat, NEW b \in Nat
  PROVE  Feed!Min({a, b}) \in Nat /\ Feed!Min({a, b}) <= a /\ Feed!Min({a, b}) <= b /\ Feed!Min({a, b}) \in {a, b}
<1>1. \E x \in {a, b} : \A y \in {a, b} : x <= y
  <2>1. CASE a <= b
    BY <2>1
  <2>2. CASE b <= a
    BY <2>2
  <2> QED
    BY <2>1, <2>2
<1> QED
  BY <1>1 DEF Feed!Min

LEMMA MinOfMany ==
  ASSUME NEW S \in SUBSET Nat, S # {}
  PROVE  Feed!Min(S) \in S /\ \A y \in S : Feed!Min(S) <= y
<1>1. \E x \in S : \A y \in S : x <= y
  <2> DEFINE R == OpToRel(<, Nat)
  <2>1. IsWellFoundedOn(R, Nat)
    BY NatLessThanWellFounded
  <2>2. \A x, y \in Nat : y < x => <<y, x>> \in R
    BY DEF OpToRel
  <2> HIDE DEF R
  <2>3. PICK x \in S : \A y \in S : ~ (<<y, x>> \in R)
    BY <2>1, WFMin
  <2>4. ASSUME NEW y \in S
        PROVE  x <= y
    <3>1. x \in Nat /\ y \in Nat /\ ~(y < x)
      BY <2>2, <2>3
    <3> QED
      BY <3>1
  <2> QED
    BY <2>4
<1> QED
  BY <1>1 DEF Feed!Min

LEMMA PollClocks ==
  ASSUME Feed!PollingAssumption, Feed!TypeOK
  PROVE  /\ clock \in Nat \ {0} /\ Feed!clientNow \in Nat \ {0} /\ Take \in Nat \ {0} /\ MaxSince \in Nat
         /\ cursor.since \in Nat /\ cursor.until \in Nat /\ cursor.pending \in Nat
         /\ \A x \in Posts : createdAt[x] \in Nat
         /\ IsFiniteSet(Posts)
  BY FeedSets DEF Feed!PollingAssumption, Feed!TypeOK, Feed!clientNow, Feed!Window

LEMMA PollSent ==
  ASSUME Feed!TypeOK, NEW p \in Polls
  PROVE  /\ poll[p] \in Feed!Poll
         /\ poll[p].pc \in {"idle", "sent", "answered"}
         /\ poll[p].pc # "idle" => /\ poll[p].sentAt \in Nat /\ poll[p].asked \in Feed!Window
                                   /\ poll[p].asked.since \in Nat /\ poll[p].asked.until \in Nat
                                   /\ poll[p].asked.pending \in Nat
         /\ poll[p].pc = "answered" =>
              /\ poll[p].serverTime \in Nat /\ poll[p].page \subseteq Posts
              /\ poll[p].open \subseteq Posts /\ poll[p].tied \subseteq Posts
              /\ poll[p].behind \subseteq Posts
<1>1. poll[p] \in Feed!Poll
  BY DEF Feed!TypeOK
<1> QED
  BY <1>1 DEF Feed!Poll, Feed!Window

\* Where the cursor goes with an answer.
LEMMA CursorAdvances ==
  ASSUME Feed!PollingAssumption, Feed!TypeOK, CursorInv, SentInv, AnswerInv,
         NEW p \in Polls, poll[p].pc = "answered"
  PROVE  LET r == poll[p]
             c == Feed!advanceCursor(r)
             from == IF cursor.pending # 0 THEN cursor.pending ELSE Feed!pollingCursor(r)
         IN  /\ Feed!pollingCursor(r) \in Nat \ {0} /\ Feed!pollingCursor(r) <= clock /\ Feed!pollingCursor(r) <= Feed!clientNow
             /\ Feed!pollingCursor(r) <= r.serverTime /\ r.asked.pending <= Feed!pollingCursor(r)
             /\ c \in Feed!Window
             /\ Cardinality(r.page) \in Nat
             /\ Cardinality(r.page) < Take => c.since = from /\ c.until = 0 /\ c.pending = 0
             /\ Cardinality(r.page) >= Take =>
                  /\ c.since = cursor.since /\ c.pending = from /\ c.until # 0
                  /\ \A x \in Posts :
                       /\ \A y \in r.page : createdAt[x] < createdAt[y]
                       /\ cursor.until = 0 \/ createdAt[x] < cursor.until
                       => createdAt[x] < c.until
<1> DEFINE r == poll[p]
           c == Feed!advanceCursor(r)
           from == IF cursor.pending # 0 THEN cursor.pending ELSE Feed!pollingCursor(r)
           S == {createdAt[x] : x \in r.page}
           oldest == Feed!Min(S)
<1>1. /\ r.sentAt \in Nat \ {0} /\ r.sentAt <= Feed!clientNow /\ r.asked.pending <= r.sentAt
      /\ r.serverTime \in Nat \ {0} /\ r.serverTime <= clock /\ r.asked.pending <= r.serverTime
      /\ r.page \subseteq Posts /\ r.asked.pending \in Nat
  BY PollSent DEF SentInv
<1>2. /\ clock \in Nat /\ Feed!clientNow \in Nat /\ Take \in Nat \ {0} /\ IsFiniteSet(Posts)
      /\ cursor.since \in Nat /\ cursor.until \in Nat /\ cursor.pending \in Nat
      /\ \A x \in Posts : createdAt[x] \in Nat
  BY PollClocks
<1>3. /\ Feed!pollingCursor(r) \in {r.sentAt, r.serverTime}
      /\ Feed!pollingCursor(r) <= r.sentAt /\ Feed!pollingCursor(r) <= r.serverTime
  BY <1>1, MinOfTwo DEF Feed!pollingCursor
<1>4. /\ Feed!pollingCursor(r) \in Nat \ {0} /\ Feed!pollingCursor(r) <= clock /\ Feed!pollingCursor(r) <= Feed!clientNow
      /\ Feed!pollingCursor(r) <= r.serverTime /\ r.asked.pending <= Feed!pollingCursor(r)
  BY <1>1, <1>2, <1>3
<1>5. from \in Nat \ {0}
  BY <1>2, <1>4
<1>6. IsFiniteSet(r.page) /\ Cardinality(r.page) \in Nat
  BY <1>1, <1>2, FS_Subset, FS_CardinalityType
<1> HIDE DEF r
<1>7. c = IF Cardinality(r.page) < Take
            THEN [since |-> from, until |-> 0, pending |-> 0]
            ELSE [since |-> cursor.since, pending |-> from,
                  until |-> IF cursor.until = 0 THEN oldest ELSE Feed!Min({oldest, cursor.until})]
  BY FeedSets DEF Feed!advanceCursor
<1> HIDE DEF c, from
<1>8. CASE Cardinality(r.page) < Take
  <2>1. c.since = from /\ c.until = 0 /\ c.pending = 0 /\ c \in Feed!Window
    BY <1>5, <1>7, <1>8 DEF Feed!Window
  <2> QED
    BY <1>2, <1>4, <1>6, <1>8, <2>1 DEF r, c, from
<1>9. CASE Cardinality(r.page) >= Take
  <2>1. r.page # {}
    BY <1>2, <1>6, <1>9, FS_EmptySet
  <2>2. S \in SUBSET Nat /\ S # {}
    BY <1>1, <1>2, <2>1
  <2>3. oldest \in S
    BY <2>2, MinOfMany
  <2>4. PICK y \in r.page : oldest = createdAt[y]
    BY <2>3
  <2>5. oldest \in Nat \ {0}
    <3>1. createdAt[y] # 0
      BY DEF AnswerInv, RowBegun, r
    <3> QED
      BY <1>1, <1>2, <2>4, <3>1
  <2> HIDE DEF oldest, S
  <2> DEFINE until == IF cursor.until = 0 THEN oldest ELSE Feed!Min({oldest, cursor.until})
  <2>6. until \in Nat \ {0} /\ until \in {oldest, cursor.until} /\ (until = cursor.until => cursor.until # 0)
    <3>1. CASE cursor.until = 0
      BY <2>5, <3>1
    <3>2. CASE cursor.until # 0
      <4>1. Feed!Min({oldest, cursor.until}) \in {oldest, cursor.until}
        BY <1>2, <2>5, MinOfTwo
      <4> QED
        BY <1>2, <2>5, <3>2, <4>1
    <3> QED
      BY <3>1, <3>2
  <2> HIDE DEF until
  <2>7. ~(Cardinality(r.page) < Take)
    BY <1>2, <1>6, <1>9
  <2>8. c = [since |-> cursor.since, pending |-> from, until |-> until]
    BY <1>7, <2>7 DEF until
  <2>9. c.since = cursor.since /\ c.pending = from /\ c.until = until /\ c \in Feed!Window
    BY <1>2, <1>5, <2>6, <2>8 DEF Feed!Window
  <2>10. ASSUME NEW x \in Posts, \A z \in r.page : createdAt[x] < createdAt[z],
                cursor.until = 0 \/ createdAt[x] < cursor.until
         PROVE  createdAt[x] < c.until
    <3>1. createdAt[x] < oldest
      BY <2>4, <2>10
    <3> QED
      BY <2>6, <2>9, <2>10, <3>1
  <2> QED
    BY <1>4, <1>6, <2>6, <2>7, <2>9, <2>10, <1>9 DEF r, c, from
<1> QED
  BY <1>2, <1>6, <1>8, <1>9

LEMMA FeedInitial ==
  ASSUME Feed!PollingAssumption, Feed!Init
  PROVE  FeedInv
<1>1. Feed!TypeOK
  <2>1. cursor \in Feed!Window /\ Feed!NoPoll \in Feed!Poll
    BY DEF Feed!Init, Feed!Window, Feed!NoPoll, Feed!Poll
  <2> QED
    <3>1. /\ clock \in Start .. MaxTime /\ skew \in Skews
          /\ createdAt \in [Posts -> Nat] /\ poll \in [Polls -> Feed!Poll]
      BY <2>1 DEF Feed!PollingAssumption, Feed!Init
    <3> QED
      BY <2>1, <3>1 DEF Feed!Init, Feed!TypeOK
<1>2. CursorInv
  BY <1>1, PollClocks DEF Feed!Init, CursorInv
<1>3. \A p \in Polls : poll[p].pc = "idle"
  BY DEF Feed!Init, Feed!NoPoll
<1>4. SentInv /\ AnswerInv
  BY <1>3 DEF SentInv, AnswerInv
<1>5. StoredInv /\ BegunInv
  BY DEF Feed!Init, StoredInv, BegunInv, RowBegun
<1> QED
  BY <1>1, <1>2, <1>4, <1>5 DEF FeedInv

\* The clock goes on, a row is committed, the socket comes or goes.
LEMMA AroundKeeps ==
  ASSUME Feed!PollingAssumption, FeedInv, Feed!Tick \/ Feed!SocketChanges \/ (\E x \in Posts : Feed!CommitPost(x)) \/ UNCHANGED Feed!vars
  PROVE  FeedInv'
<1> USE DEF FeedInv
<1>0. /\ clock \in Nat /\ clock' \in Nat /\ clock <= clock' /\ clock' \in Start .. MaxTime
      /\ UNCHANGED <<skew, createdAt, cursor, poll, late, cut, aged, dropped, overtaken>>
      /\ delivered \subseteq delivered' /\ delivered' \subseteq Posts /\ stored' \subseteq Posts
      /\ connected' \in BOOLEAN
      /\ \A x \in stored' : x \in stored \/ RowBegun(x)
  <2>1. clock \in Start .. MaxTime /\ Start \in Nat /\ MaxTime \in Nat
    BY DEF Feed!TypeOK, Feed!PollingAssumption
  <2>2. CASE Feed!Tick
    BY <2>1, <2>2 DEF Feed!Tick, Feed!Rows, Feed!History, Feed!TypeOK
  <2>3. CASE Feed!SocketChanges
    BY <2>1, <2>3 DEF Feed!SocketChanges, Feed!Rows, Feed!History, Feed!TypeOK
  <2>4. CASE \E x \in Posts : Feed!CommitPost(x)
    <3>1. PICK x \in Posts : Feed!CommitPost(x)
      BY <2>4
    <3>2. PICK heard \in {{}, {x}} : delivered' = IF connected THEN delivered \cup heard ELSE delivered
      BY <3>1 DEF Feed!CommitPost
    <3>3. delivered \subseteq delivered' /\ delivered' \subseteq Posts
      BY <3>2 DEF Feed!TypeOK
    <3> QED
      BY <2>1, <3>1, <3>3 DEF Feed!CommitPost, Feed!History, Feed!TypeOK, RowBegun
  <2>5. CASE UNCHANGED Feed!vars
    BY <2>1, <2>5 DEF Feed!vars, Feed!TypeOK
  <2> QED
    BY <2>2, <2>3, <2>4, <2>5
<1>1. Feed!TypeOK'
  BY <1>0 DEF Feed!TypeOK
<1>2. /\ Feed!clientNow \in Nat /\ Feed!clientNow' \in Nat /\ Feed!clientNow <= Feed!clientNow'
      /\ cursor.since \in Nat /\ cursor.pending \in Nat
  <2>1. skew \in Nat /\ clock # 0
    BY PollClocks DEF Feed!TypeOK, Feed!PollingAssumption
  <2> QED
    <3>1. skew' = skew /\ clock' # 0
      BY <1>0, <2>1
    <3>2. Feed!clientNow = clock + skew - 1 /\ Feed!clientNow' = clock' + skew' - 1
      BY DEF Feed!clientNow
    <3>3. cursor.since \in Nat /\ cursor.pending \in Nat
      BY PollClocks
    <3>4. clock \in Nat /\ clock' \in Nat /\ clock <= clock'
      BY <1>0
    <3>5. \A a, b, k \in Nat : a # 0 /\ b # 0 /\ a <= b =>
            a + k - 1 \in Nat /\ b + k - 1 \in Nat /\ a + k - 1 <= b + k - 1
      OBVIOUS
    <3> QED
      BY <2>1, <3>1, <3>2, <3>3, <3>4, <3>5
<1>3. CursorInv'
  BY <1>0, <1>2 DEF CursorInv
<1>4. SentInv'
  <2> SUFFICES ASSUME NEW p \in Polls
               PROVE  /\ poll[p].pc # "idle" =>
                           /\ poll[p].sentAt # 0 /\ poll[p].sentAt <= Feed!clientNow'
                           /\ poll[p].asked.pending <= poll[p].sentAt /\ poll[p].asked.pending <= clock'
                           /\ poll[p].asked.until # 0 => poll[p].asked.pending # 0
                      /\ poll[p].pc = "answered" =>
                           /\ poll[p].serverTime # 0 /\ poll[p].serverTime <= clock'
                           /\ poll[p].asked.pending <= poll[p].serverTime
    BY <1>0 DEF SentInv
  <2> QED
    BY <1>0, <1>2, PollSent DEF SentInv
<1>5. AnswerInv'
  BY <1>0 DEF AnswerInv, Knows, RowBegun, Feed!InWindow
<1>6. StoredInv'
  BY <1>0 DEF StoredInv, RowBegun
<1>7. BegunInv'
  BY <1>0 DEF BegunInv, RowBegun, Feed!Passed, Feed!Covered, Feed!InWindow
<1> QED
  BY <1>1, <1>3, <1>4, <1>5, <1>6, <1>7

\* A row begins now, after all that was asked or answered.
LEMMA RowBeginKeeps ==
  ASSUME Feed!PollingAssumption, FeedInv, Feed!BeginPost
  PROVE  FeedInv'
<1> USE DEF FeedInv
<1>1. PICK n \in Posts : createdAt[n] = 0 /\ createdAt' = [createdAt EXCEPT ![n] = clock]
  <2> DEFINE fresh == {x \in Posts : createdAt[x] = 0}
  <2>1. fresh # {} /\ createdAt' = [createdAt EXCEPT ![CHOOSE x \in fresh : TRUE] = clock]
    BY DEF Feed!BeginPost
  <2>2. (CHOOSE x \in fresh : TRUE) \in fresh
    BY <2>1
  <2> QED
    BY <2>1, <2>2
<1>2. UNCHANGED <<clock, skew, stored, connected, cursor, poll, delivered, late, cut, aged, dropped, overtaken>>
  BY DEF Feed!BeginPost, Feed!History
<1>3. /\ createdAt \in [Posts -> Nat] /\ clock \in Nat \ {0}
      /\ createdAt'[n] = clock /\ \A x \in Posts \ {n} : createdAt'[x] = createdAt[x]
  BY <1>1, PollClocks DEF Feed!TypeOK
<1>4. Feed!TypeOK'
  BY <1>1, <1>2, <1>3 DEF Feed!TypeOK
<1>5. CursorInv' /\ SentInv'
  BY <1>2 DEF CursorInv, SentInv, Feed!clientNow
<1>6. StoredInv'
  BY <1>2, <1>3 DEF StoredInv, RowBegun, Feed!TypeOK
<1>7. AnswerInv'
  <2> SUFFICES ASSUME NEW p \in Polls, poll[p].pc = "answered"
               PROVE  /\ \A x \in Posts : RowBegun(x)' => Knows(poll[p], x)'
                      /\ \A x \in poll[p].page : RowBegun(x)'
    BY <1>2 DEF AnswerInv, Knows, Feed!InWindow
  <2>1. poll[p].page \subseteq Posts /\ poll[p].serverTime <= clock
        /\ \A x \in poll[p].page : RowBegun(x) /\ x # n
    BY <1>1, PollSent DEF AnswerInv, SentInv, RowBegun
  <2>2. \A x \in poll[p].page : RowBegun(x)'
    BY <1>3, <2>1 DEF RowBegun
  <2>3. Knows(poll[p], n)'
    BY <1>2, <1>3, <2>1 DEF Knows
  <2>4. ASSUME NEW x \in Posts, x # n, RowBegun(x)'
        PROVE  Knows(poll[p], x)'
    <3>1. createdAt'[x] = createdAt[x] /\ RowBegun(x)
      BY <1>3, <2>4 DEF RowBegun
    <3>2. Knows(poll[p], x)
      BY <3>1 DEF AnswerInv
    <3>3. \A y \in poll[p].page : createdAt'[y] = createdAt[y]
      BY <1>3, <2>1
    <3> QED
      BY <1>2, <3>1, <3>2, <3>3 DEF Knows, Feed!InWindow
  <2> QED
    BY <2>2, <2>3, <2>4
<1>8. BegunInv'
  <2> SUFFICES ASSUME ~overtaken, NEW x \in Posts, RowBegun(x)'
               PROVE  Feed!Passed(x)' \/ Feed!Covered(x)'
    BY <1>2 DEF BegunInv
  <2>1. CASE x = n
    BY <1>2, <1>3, <2>1, PollClocks DEF Feed!Covered, Feed!InWindow, CursorInv
  <2>2. CASE x # n
    <3>1. createdAt'[x] = createdAt[x] /\ RowBegun(x)
      BY <1>3, <2>2 DEF RowBegun
    <3> QED
      BY <1>2, <3>1 DEF BegunInv, Feed!Passed, Feed!Covered, Feed!InWindow
  <2> QED
    BY <2>1, <2>2
<1> QED
  BY <1>4, <1>5, <1>6, <1>7, <1>8

LEMMA PollSendKeeps ==
  ASSUME Feed!PollingAssumption, FeedInv, NEW p \in Polls, Feed!Send(p)
  PROVE  FeedInv'
<1> USE DEF FeedInv
<1> DEFINE sent == [pc |-> "sent", sentAt |-> Feed!clientNow, asked |-> cursor]
<1>1. /\ poll' = [poll EXCEPT ![p] = sent]
      /\ UNCHANGED <<clock, skew, createdAt, stored, connected, cursor, delivered,
                     late, cut, aged, dropped, overtaken>>
  BY DEF Feed!Send, Feed!Rows, Feed!History
<1>2. sent \in Feed!Poll /\ Feed!clientNow \in Nat \ {0}
  BY PollClocks DEF Feed!Poll, Feed!TypeOK
<1>3. /\ poll'[p] = sent /\ \A q \in Polls \ {p} : poll'[q] = poll[q]
      /\ poll' \in [Polls -> Feed!Poll]
  BY <1>1, <1>2 DEF Feed!TypeOK
<1>4. Feed!TypeOK'
  BY <1>1, <1>3 DEF Feed!TypeOK
<1>5. CursorInv' /\ StoredInv' /\ BegunInv'
  BY <1>1 DEF CursorInv, Feed!clientNow, StoredInv, RowBegun, BegunInv, Feed!Passed, Feed!Covered, Feed!InWindow
<1>6. Feed!clientNow' = Feed!clientNow
  BY <1>1 DEF Feed!clientNow
<1>7. /\ poll'[p].pc = "sent" /\ poll'[p].sentAt = Feed!clientNow /\ poll'[p].asked = cursor
  BY <1>3
<1>8. SentInv'
  <2>1. \A q \in Polls \ {p} : poll'[q] = poll[q]
    BY <1>3
  <2> QED
    BY <1>1, <1>2, <1>6, <1>7, <2>1 DEF SentInv, CursorInv
<1>9. AnswerInv'
  BY <1>1, <1>3, <1>7 DEF AnswerInv, Knows, RowBegun, Feed!InWindow
<1> QED
  BY <1>4, <1>5, <1>8, <1>9

LEMMA PollFailKeeps ==
  ASSUME Feed!PollingAssumption, FeedInv, NEW p \in Polls, Feed!Fail(p)
  PROVE  FeedInv'
<1> USE DEF FeedInv
<1>1. /\ poll' = [poll EXCEPT ![p] = Feed!NoPoll]
      /\ UNCHANGED <<clock, skew, createdAt, stored, connected, cursor, delivered,
                     late, cut, aged, dropped, overtaken>>
  BY DEF Feed!Fail, Feed!Rows, Feed!History
<1>2. Feed!NoPoll \in Feed!Poll /\ Feed!NoPoll.pc = "idle"
  BY DEF Feed!Poll, Feed!NoPoll
<1>3. /\ poll'[p].pc = "idle" /\ \A q \in Polls \ {p} : poll'[q] = poll[q]
      /\ poll' \in [Polls -> Feed!Poll]
  BY <1>1, <1>2 DEF Feed!TypeOK
<1>4. Feed!TypeOK'
  BY <1>1, <1>3 DEF Feed!TypeOK
<1>5. CursorInv' /\ StoredInv' /\ BegunInv'
  BY <1>1 DEF CursorInv, Feed!clientNow, StoredInv, RowBegun, BegunInv, Feed!Passed, Feed!Covered, Feed!InWindow
<1>6. SentInv'
  BY <1>1, <1>3 DEF SentInv, Feed!clientNow
<1>7. AnswerInv'
  BY <1>1, <1>3 DEF AnswerInv, Knows, RowBegun, Feed!InWindow
<1> QED
  BY <1>4, <1>5, <1>6, <1>7

\* A page holds everything of its window, or is full and holds the newest.
LEMMA PageOf ==
  ASSUME Feed!PollingAssumption, Feed!TypeOK, NEW window \in SUBSET stored, NEW page, Feed!IsPage(page, window)
  PROVE  /\ page \subseteq window /\ Cardinality(page) \in Nat
         /\ page = window \/ Cardinality(page) >= Take
         /\ \A x \in window \ page, y \in page : createdAt[x] <= createdAt[y]
<1>1. page \subseteq window /\ \A x \in page, y \in window \ page : createdAt[x] >= createdAt[y]
  BY DEF Feed!IsPage
<1>2. IsFiniteSet(window) /\ IsFiniteSet(page)
  <2>1. window \in SUBSET Posts /\ page \in SUBSET Posts /\ IsFiniteSet(Posts)
    BY <1>1, PollClocks DEF Feed!TypeOK
  <2> QED
    BY <2>1, FS_Subset
<1>3. Cardinality(window) \in Nat /\ Cardinality(page) \in Nat /\ Take \in Nat
  BY <1>2, PollClocks, FS_CardinalityType
<1>4. page = window \/ Cardinality(page) >= Take
  <2>1. CASE Cardinality(window) < Take
    <3>1. Cardinality(page) = Cardinality(window)
      BY FeedSets, <2>1 DEF Feed!IsPage
    <3> QED
      BY <1>1, <1>2, <3>1, FS_Subset
  <2>2. CASE ~(Cardinality(window) < Take)
    BY FeedSets, <1>3, <2>2 DEF Feed!IsPage
  <2> QED
    BY <2>1, <2>2
<1>5. \A x \in window \ page, y \in page : createdAt[x] <= createdAt[y]
  <2>1. \A x \in window : createdAt[x] \in Nat
    BY PollClocks DEF Feed!TypeOK
  <2> QED
    BY <1>1, <2>1
<1> QED
  BY <1>1, <1>3, <1>4, <1>5

LEMMA PollQueryKeeps ==
  ASSUME Feed!PollingAssumption, FeedInv, NEW p \in Polls, Feed!Query(p)
  PROVE  FeedInv'
<1> USE DEF FeedInv
<1> DEFINE since == Feed!SinceOf(poll[p].asked)
           window == {x \in stored : Feed!InWindow(x, since, poll[p].asked.until)}
<1>1. PICK page \in SUBSET window :
        /\ Feed!IsPage(page, window)
        /\ poll' = [poll EXCEPT ![p] =
             [pc |-> "answered", sentAt |-> @.sentAt, asked |-> @.asked,
              serverTime |-> clock, page |-> page,
              open |-> {x \in Posts : createdAt[x] # 0 /\ x \notin stored},
              tied |-> {x \in window \ page : \E y \in page : createdAt[x] = createdAt[y]},
              behind |-> {x \in stored : createdAt[x] < since}]]
  BY DEF Feed!Query
<1> DEFINE open == {x \in Posts : createdAt[x] # 0 /\ x \notin stored}
           tied == {x \in window \ page : \E y \in page : createdAt[x] = createdAt[y]}
           behind == {x \in stored : createdAt[x] < since}
           r == [pc |-> "answered", sentAt |-> poll[p].sentAt, asked |-> poll[p].asked,
                 serverTime |-> clock, page |-> page, open |-> open, tied |-> tied,
                 behind |-> behind]
<1>2. UNCHANGED <<clock, skew, createdAt, stored, connected, cursor, delivered,
                  late, cut, aged, dropped, overtaken>> /\ poll[p].pc = "sent"
  BY DEF Feed!Query, Feed!Rows, Feed!History
<1>3. poll' = [poll EXCEPT ![p] = r]
  BY <1>1 DEF Feed!TypeOK
<1>4. r \in Feed!Poll
  <2>1. stored \subseteq Posts /\ clock \in Nat
    BY PollClocks DEF Feed!TypeOK
  <2>2. /\ page \in SUBSET Posts /\ open \in SUBSET Posts /\ tied \in SUBSET Posts
        /\ behind \in SUBSET Posts
    BY <2>1
  <2> HIDE DEF open, tied, behind, window, since
  <2> QED
    BY <1>2, <2>1, <2>2, PollSent DEF Feed!Poll
<1>5. /\ r.pc = "answered" /\ r.sentAt = poll[p].sentAt /\ r.asked = poll[p].asked
      /\ r.serverTime = clock /\ r.page = page /\ r.open = open /\ r.tied = tied
      /\ r.behind = behind
  OBVIOUS
<1> HIDE DEF r
<1>6. /\ poll'[p] = r /\ \A q \in Polls \ {p} : poll'[q] = poll[q]
      /\ poll' \in [Polls -> Feed!Poll]
  BY <1>3, <1>4 DEF Feed!TypeOK
<1>7. Feed!TypeOK'
  BY <1>2, <1>6 DEF Feed!TypeOK
<1>8. CursorInv' /\ StoredInv' /\ BegunInv'
  BY <1>2 DEF CursorInv, Feed!clientNow, StoredInv, RowBegun, BegunInv, Feed!Passed, Feed!Covered, Feed!InWindow
<1>9. SentInv'
  <2>1. clock \in Nat \ {0} /\ clock' = clock /\ Feed!clientNow' = Feed!clientNow
    BY <1>2, PollClocks DEF Feed!clientNow
  <2>2. poll[p].pc # "idle"
    BY <1>2
  <2>3. /\ r.sentAt # 0 /\ r.sentAt <= Feed!clientNow
        /\ r.asked.pending <= r.sentAt /\ r.asked.pending <= clock
        /\ r.asked.until # 0 => r.asked.pending # 0
        /\ r.serverTime # 0 /\ r.serverTime <= clock /\ r.asked.pending <= r.serverTime
    BY <1>5, <2>1, <2>2 DEF SentInv
  <2> QED
    BY <1>6, <2>1, <2>3 DEF SentInv
<1>10. AnswerInv'
  <2>1. /\ page \subseteq window /\ (page = window \/ Cardinality(page) >= Take)
        /\ \A x \in window \ page, y \in page : createdAt[x] <= createdAt[y]
    <3>1. window \in SUBSET stored
      OBVIOUS
    <3> HIDE DEF window
    <3> QED
      BY <1>1, <3>1, PageOf
  <2>2. ASSUME NEW x \in Posts, RowBegun(x)
        PROVE  Knows(r, x)
    <3>1. CASE x \notin stored
      <4>1. x \in open
        BY <2>2, <3>1 DEF RowBegun
      <4> QED
        BY <1>5, <4>1 DEF Knows
    <3>2. CASE x \in behind
      BY <1>5, <3>2 DEF Knows
    <3>3. CASE x \in stored /\ x \notin behind /\ x \notin window
      <4>1. createdAt[x] \in Nat /\ since \in Nat /\ ~(createdAt[x] < since)
        <5>1. since \in Nat
          BY <1>2, PollSent, PollClocks DEF Feed!SinceOf
        <5> QED
          BY <3>3, <5>1, PollClocks
      <4>2. createdAt[x] >= since
        BY <4>1
      <4>3. ~(r.asked.until = 0 \/ createdAt[x] < r.asked.until)
        BY <1>5, <3>3, <4>2 DEF Feed!InWindow
      <4> QED
        BY <4>3 DEF Knows, Feed!InWindow
    <3>4. CASE x \in window \ page
      <4>1. Cardinality(page) >= Take
        BY <2>1, <3>4
      <4>2. CASE x \in tied
        BY <1>5, <4>1, <4>2 DEF Knows
      <4>3. CASE x \notin tied
        <5>1. \A y \in page : createdAt[x] <= createdAt[y] /\ createdAt[x] # createdAt[y]
          BY <2>1, <3>4, <4>3
        <5>2. \A y \in page : createdAt[x] \in Nat /\ createdAt[y] \in Nat
          BY <2>1, PollClocks DEF Feed!TypeOK
        <5>3. \A y \in page : createdAt[x] < createdAt[y]
          BY <5>1, <5>2
        <5> QED
          BY <1>5, <4>1, <5>3 DEF Knows
      <4> QED
        BY <4>2, <4>3
    <3>5. CASE x \in page
      BY <1>5, <3>5 DEF Knows
    <3> QED
      BY <3>1, <3>2, <3>3, <3>4, <3>5
  <2>3. \A x \in r.page : RowBegun(x)
    BY <1>5, <2>1 DEF StoredInv
  <2> HIDE DEF since, window, open, tied, behind
  <2>4. ASSUME NEW q \in Polls, poll'[q].pc = "answered"
        PROVE  /\ \A x \in Posts : RowBegun(x)' => Knows(poll[q], x)'
               /\ \A x \in poll'[q].page : RowBegun(x)'
    <3>1. CASE q = p
      BY <1>2, <1>6, <2>2, <2>3, <3>1 DEF Knows, RowBegun, Feed!InWindow
    <3>2. CASE q # p
      <4>1. poll'[q] = poll[q]
        BY <1>6, <3>2
      <4> QED
        BY <1>2, <2>4, <4>1 DEF AnswerInv, Knows, RowBegun, Feed!InWindow
    <3> QED
      BY <3>1, <3>2
  <2> QED
    BY <2>4 DEF AnswerInv, Knows
<1> QED
  BY <1>7, <1>8, <1>9, <1>10

\* The rows that the answer leaves behind it have been seen.
LEMMA PollAnswerKeeps ==
  ASSUME Feed!PollingAssumption, FeedInv, NEW p \in Polls, Feed!Answer(p)
  PROVE  FeedInv'
<1> USE DEF FeedInv
<1> DEFINE r == poll[p]
           c == Feed!advanceCursor(r)
           from == IF cursor.pending # 0 THEN cursor.pending ELSE Feed!pollingCursor(r)
<1>1. /\ poll[p].pc = "answered" /\ cursor' = c /\ poll' = [poll EXCEPT ![p] = Feed!NoPoll]
      /\ UNCHANGED <<clock, skew, createdAt, stored, connected>>
      /\ delivered' = IF connected THEN delivered ELSE delivered \cup r.page
      /\ dropped' = IF connected THEN dropped \cup r.page ELSE dropped
      /\ late' = late \cup {x \in r.open : createdAt[x] < Feed!pollingCursor(r)}
      /\ cut' = IF Cardinality(r.page) < Take THEN cut ELSE cut \cup r.tied
      /\ aged' = aged \cup r.behind
      /\ overtaken' = (overtaken \/ r.asked # cursor)
  BY FeedSets DEF Feed!Answer, Feed!Rows
<1>2. /\ Feed!pollingCursor(r) \in Nat \ {0} /\ Feed!pollingCursor(r) <= clock /\ Feed!pollingCursor(r) <= Feed!clientNow
      /\ Feed!pollingCursor(r) <= r.serverTime /\ r.asked.pending <= Feed!pollingCursor(r)
      /\ c \in Feed!Window
      /\ Cardinality(r.page) \in Nat
      /\ Cardinality(r.page) < Take => c.since = from /\ c.until = 0 /\ c.pending = 0
      /\ Cardinality(r.page) >= Take =>
           /\ c.since = cursor.since /\ c.pending = from /\ c.until # 0
           /\ \A x \in Posts :
                /\ \A y \in r.page : createdAt[x] < createdAt[y]
                /\ cursor.until = 0 \/ createdAt[x] < cursor.until
                => createdAt[x] < c.until
  BY <1>1, CursorAdvances
<1>3. /\ clock \in Nat \ {0} /\ Feed!clientNow \in Nat \ {0} /\ Take \in Nat
      /\ cursor.since \in Nat /\ cursor.until \in Nat /\ cursor.pending \in Nat
      /\ \A x \in Posts : createdAt[x] \in Nat
  BY PollClocks
<1>4. /\ r \in Feed!Poll /\ r.page \subseteq Posts /\ r.open \subseteq Posts /\ r.tied \subseteq Posts
      /\ r.behind \subseteq Posts /\ r.serverTime \in Nat
  BY <1>1, PollSent
<1> HIDE DEF c
<1>5. /\ poll'[p].pc = "idle" /\ \A q \in Polls \ {p} : poll'[q] = poll[q]
      /\ poll' \in [Polls -> Feed!Poll]
  <2>1. Feed!NoPoll \in Feed!Poll /\ Feed!NoPoll.pc = "idle"
    BY DEF Feed!Poll, Feed!NoPoll
  <2> QED
    BY <1>1, <2>1 DEF Feed!TypeOK
<1>6. Feed!TypeOK'
  <2>1. /\ clock' \in Start .. MaxTime /\ skew' \in Skews /\ createdAt' \in [Posts -> Nat]
        /\ stored' \subseteq Posts /\ connected' \in BOOLEAN /\ cursor' \in Feed!Window
    BY <1>1, <1>2 DEF Feed!TypeOK
  <2>2. delivered' \subseteq Posts /\ dropped' \subseteq Posts
    BY <1>1, <1>4 DEF Feed!TypeOK
  <2>3. late' \subseteq Posts /\ cut' \subseteq Posts /\ aged' \subseteq Posts
    BY <1>1, <1>4 DEF Feed!TypeOK
  <2>4. overtaken' \in BOOLEAN
    BY <1>1
  <2> QED
    BY <1>5, <2>1, <2>2, <2>3, <2>4 DEF Feed!TypeOK
<1>7. CursorInv'
  <2>1. from \in Nat \ {0} /\ from <= clock /\ from <= Feed!clientNow
    BY <1>2, <1>3 DEF CursorInv
  <2>2. clock' = clock /\ Feed!clientNow' = Feed!clientNow /\ cursor' = c
    BY <1>1 DEF Feed!clientNow
  <2> HIDE DEF from
  <2>3. CASE Cardinality(r.page) < Take
    BY <1>2, <1>3, <2>1, <2>2, <2>3 DEF CursorInv
  <2>4. CASE Cardinality(r.page) >= Take
    BY <1>2, <1>3, <2>1, <2>2, <2>4 DEF CursorInv
  <2> QED
    BY <1>2, <1>3, <2>3, <2>4
<1>8. SentInv'
  BY <1>1, <1>5 DEF SentInv, Feed!clientNow
<1>9. AnswerInv'
  BY <1>1, <1>5 DEF AnswerInv, Knows, RowBegun, Feed!InWindow
<1>10. StoredInv'
  BY <1>1 DEF StoredInv, RowBegun
<1>11. BegunInv'
  <2> SUFFICES ASSUME ~overtaken, r.asked = cursor, NEW x \in Posts, RowBegun(x)
               PROVE  Feed!Passed(x)' \/ Feed!Covered(x)'
    BY <1>1 DEF BegunInv, RowBegun
  <2>1. Feed!Passed(x) => Feed!Passed(x)'
    BY <1>1 DEF Feed!Passed
  <2>2. CASE Feed!Covered(x)
    <3>1. createdAt' = createdAt /\ createdAt[x] \in Nat /\ cursor' = c
      BY <1>1, <1>3
    <3>2. from \in Nat \ {0} /\ from <= Feed!pollingCursor(r)
      BY <1>2, <1>3
    \* Everything since the next cursor is covered.
    <3>3. createdAt[x] >= from => Feed!Covered(x)'
      <4> HIDE DEF from
      <4>1. CASE Cardinality(r.page) < Take
        BY <1>2, <3>1, <3>2, <4>1 DEF Feed!Covered, Feed!InWindow
      <4>2. CASE Cardinality(r.page) >= Take
        BY <1>2, <3>1, <3>2, <4>2 DEF Feed!Covered, Feed!InWindow
      <4> QED
        BY <1>2, <1>3, <4>1, <4>2
    <3>4. CASE cursor.pending # 0 /\ createdAt[x] >= cursor.pending
      BY <3>3, <3>4
    <3>5. CASE Feed!InWindow(x, cursor.since, cursor.until)
      <4>1. Knows(r, x)
        BY <1>1 DEF AnswerInv
      <4>2. CASE x \in r.page
        BY <1>1, <4>2 DEF Feed!Passed
      <4>3. CASE x \in r.open
        <5>1. CASE createdAt[x] < Feed!pollingCursor(r)
          BY <1>1, <4>3, <5>1 DEF Feed!Passed
        <5>2. CASE createdAt[x] >= Feed!pollingCursor(r)
          BY <1>2, <3>1, <3>2, <3>3, <5>2
        <5> QED
          BY <1>2, <3>1, <5>1, <5>2
      <4>4. CASE x \in r.behind
        BY <1>1, <4>4 DEF Feed!Passed
      <4>5. CASE createdAt[x] >= r.serverTime
        BY <1>2, <1>4, <3>1, <3>2, <3>3, <4>5
      <4>6. CASE Cardinality(r.page) >= Take /\ \A y \in r.page : createdAt[x] < createdAt[y]
        <5>1. createdAt[x] >= c.since /\ createdAt[x] < c.until
          BY <1>2, <3>5, <4>6 DEF Feed!InWindow
        <5> QED
          BY <3>1, <5>1 DEF Feed!Covered, Feed!InWindow
      <4>7. CASE Cardinality(r.page) >= Take /\ x \in r.tied
        <5>1. ~(Cardinality(r.page) < Take)
          BY <1>2, <1>3, <4>7
        <5> QED
          BY <1>1, <4>7, <5>1 DEF Feed!Passed
      <4> QED
        BY <3>5, <4>1, <4>2, <4>3, <4>4, <4>5, <4>6, <4>7 DEF Knows
    <3> QED
      BY <2>2, <3>4, <3>5 DEF Feed!Covered
  <2> QED
    BY <2>1, <2>2 DEF BegunInv
<1> QED
  BY <1>6, <1>7, <1>8, <1>9, <1>10, <1>11

LEMMA FeedInductive ==
  ASSUME Feed!PollingAssumption
  PROVE  FeedInv /\ [Feed!Next]_Feed!vars => FeedInv'
<1> SUFFICES ASSUME FeedInv, [Feed!Next]_Feed!vars
             PROVE  FeedInv'
  OBVIOUS
<1>1. CASE Feed!Tick \/ Feed!SocketChanges \/ (\E x \in Posts : Feed!CommitPost(x)) \/ UNCHANGED Feed!vars
  BY <1>1, AroundKeeps
<1>2. CASE Feed!BeginPost
  BY <1>2, RowBeginKeeps
<1>3. CASE \E p \in Polls : Feed!Send(p)
  BY <1>3, PollSendKeeps
<1>4. CASE \E p \in Polls : Feed!Query(p)
  BY <1>4, PollQueryKeeps
<1>5. CASE \E p \in Polls : Feed!Answer(p)
  BY <1>5, PollAnswerKeeps
<1>6. CASE \E p \in Polls : Feed!Fail(p)
  BY <1>6, PollFailKeeps
<1> QED
  BY <1>1, <1>2, <1>3, <1>4, <1>5, <1>6 DEF Feed!Next

LEMMA FeedSafe ==
  ASSUME Feed!PollingAssumption, FeedInv
  PROVE  Feed!TypeOK /\ Feed!NoGap
<1>1. Feed!TypeOK /\ \A x \in stored : x \in Posts /\ RowBegun(x)
  BY DEF FeedInv, StoredInv, Feed!TypeOK
<1> QED
  BY <1>1 DEF FeedInv, BegunInv, Feed!NoGap

-----------------------------------------------------------------------------
(* The rooms of a socket of the service: both checks are made again after   *)
(* the await, in the step that takes the place.                             *)

LEMMA ServerSets ==
  /\ \A S : Server!IsFiniteSet(S) <=> IsFiniteSet(S)
  /\ \A S : Server!Cardinality(S) = Cardinality(S)
<1>1. \A S : Server!IsFiniteSet(S) <=> IsFiniteSet(S)
  BY DEF Server!IsFiniteSet, IsFiniteSet
<1>2. \A S : Server!Cardinality(S) = Cardinality(S)
  BY DEF Server!Cardinality, Cardinality
<1> QED
  BY <1>1, <1>2


\* The rooms of each socket: finitely many, within the limit.
CapInv ==
  \A s \in ServerSockets : /\ IsFiniteSet(clientRooms[s])
                     /\ Cardinality(clientRooms[s]) <= MaxClientRooms

ServerInv == Server!TypeOK /\ CapInv

LEMMA ServerInitial ==
  ASSUME Server!ServerAssumption, Server!Init
  PROVE  ServerInv
<1>0. 0 \in Server!Versions /\ Server!NoJoin \in [Joins -> Rooms \cup {NoRoom}]
  BY DEF Server!ServerAssumption, Server!Versions, Server!NoJoin
<1>1. Server!TypeOK
  BY <1>0 DEF Server!Init, Server!TypeOK
<1>2. CapInv
  BY FS_EmptySet DEF Server!Init, CapInv, Server!ServerAssumption
<1> QED
  BY <1>1, <1>2 DEF ServerInv

\* The end of some sockets takes their rooms.
LEMMA GoneKeeps ==
  ASSUME Server!ServerAssumption, ServerInv, NEW S, Server!Gone(S)
  PROVE  /\ state' \in [ServerSockets -> {"none", "checking", "accepted", "connected"}]
         /\ tokenVersion' \in [ServerSockets -> Server!Versions] /\ expired' \subseteq ServerSockets
         /\ clientRooms' \in [ServerSockets -> SUBSET Rooms]
         /\ join' \in [ServerSockets -> [Joins -> Rooms \cup {NoRoom}]]
         /\ CapInv'
<1>3. 0 \in Server!Versions
  BY DEF Server!ServerAssumption, Server!Versions
<1>4. Server!NoJoin \in [Joins -> Rooms \cup {NoRoom}]
  BY DEF Server!NoJoin
<1>5. /\ state' \in [ServerSockets -> {"none", "checking", "accepted", "connected"}]
      /\ tokenVersion' \in [ServerSockets -> Server!Versions] /\ expired' \subseteq ServerSockets
      /\ clientRooms' \in [ServerSockets -> SUBSET Rooms]
      /\ join' \in [ServerSockets -> [Joins -> Rooms \cup {NoRoom}]]
  BY <1>3, <1>4 DEF ServerInv, Server!TypeOK, Server!Gone
<1>6. \A s \in ServerSockets : clientRooms'[s] = {} \/ clientRooms'[s] = clientRooms[s]
  BY DEF Server!Gone
<1>7. CapInv'
  <2>1. IsFiniteSet({}) /\ Cardinality({}) = 0 /\ 0 <= MaxClientRooms
    BY FS_EmptySet DEF Server!ServerAssumption
  <2> QED
    BY <1>6, <2>1 DEF ServerInv, CapInv
<1> QED
  BY <1>5, <1>7

\* The rooms are kept: nobody joined.
LEMMA RoomsKept ==
  ASSUME ServerInv, UNCHANGED clientRooms
  PROVE  CapInv'
  BY DEF ServerInv, CapInv

LEMMA ServerInductive ==
  ASSUME Server!ServerAssumption
  PROVE  ServerInv /\ [Server!Next]_Server!vars => ServerInv'
<1> SUFFICES ASSUME ServerInv, [Server!Next]_Server!vars
             PROVE  ServerInv'
  OBVIOUS
<1>0. /\ Server!TypeOK /\ version \in Nat /\ 0 .. version \subseteq Server!Versions /\ Joiners \subseteq ServerSockets
  BY DEF ServerInv, Server!TypeOK, Server!Versions, Server!ServerAssumption
<1>1. CASE Server!Revoke \/ Server!MirrorChanges
  <2>1. CapInv'
    BY <1>1, RoomsKept DEF Server!Revoke, Server!MirrorChanges, Server!RoomState
  <2>2. version' \in Server!Versions /\ mirror' \in Server!Versions \cup {Server!Miss} /\ kicks' \in BOOLEAN
    <3>1. CASE Server!Revoke
      <4>1. version + 1 \in Server!Versions
        BY <1>0, <3>1 DEF Server!Revoke, Server!Versions, Server!ServerAssumption
      <4> QED
        BY <1>0, <3>1, <4>1 DEF Server!Revoke, Server!TypeOK
    <3>2. CASE Server!MirrorChanges
      BY <1>0, <3>2 DEF Server!MirrorChanges, Server!TypeOK
    <3> QED
      BY <1>1, <3>1, <3>2
  <2>3. UNCHANGED <<state, tokenVersion, expired, Server!RoomState, Server!Revalidation>>
    BY <1>1 DEF Server!Revoke, Server!MirrorChanges
  <2> QED
    BY <1>0, <2>1, <2>2, <2>3 DEF ServerInv, Server!TypeOK, Server!RoomState, Server!Revalidation
<1>2. CASE Server!Kick
  <2>1. CASE UNCHANGED <<state, tokenVersion, expired, Server!RoomState, Server!Revalidation>>
    BY <1>0, <1>2, <2>1, RoomsKept DEF ServerInv, Server!TypeOK, Server!Kick, Server!RoomState, Server!Revalidation
  <2>2. CASE /\ Server!Gone({s \in ServerSockets : state[s] = "connected"})
             /\ looking' = looking \ {s \in ServerSockets : state[s] = "connected"}
             /\ pending' = pending \ {s \in ServerSockets : state[s] = "connected"}
    BY <1>0, <1>2, <2>2, GoneKeeps DEF ServerInv, Server!TypeOK, Server!Kick
  <2> QED
    BY <1>2, <2>1, <2>2 DEF Server!Kick
<1>3. CASE Server!Revalidate
  BY <1>0, <1>3, RoomsKept DEF ServerInv, Server!TypeOK, Server!Revalidate, Server!TokenState, Server!RoomState
<1>4. ASSUME NEW s \in ServerSockets, Server!TokenExpires(s) \/ Server!Handshake(s) \/ Server!Connection(s)
      PROVE  ServerInv'
  BY <1>0, <1>4, RoomsKept DEF ServerInv, Server!TypeOK, Server!TokenExpires, Server!Handshake, Server!Connection, Server!TokenState, Server!RoomState, Server!Revalidation
<1>5. ASSUME NEW s \in ServerSockets, Server!CheckVersion(s)
      PROVE  ServerInv'
  <2>1. UNCHANGED <<Server!TokenState, Server!Revalidation>>
    BY <1>5 DEF Server!CheckVersion
  <2>2. CASE Server!Gone({s})
    BY <1>0, <2>1, <2>2, GoneKeeps DEF ServerInv, Server!TypeOK, Server!TokenState, Server!Revalidation
  <2>3. CASE state' = [state EXCEPT ![s] = "accepted"] /\ UNCHANGED <<tokenVersion, expired, Server!RoomState>>
    BY <1>0, <2>1, <2>3, RoomsKept DEF ServerInv, Server!TypeOK, Server!TokenState, Server!RoomState, Server!Revalidation
  <2> QED
    BY <1>5, <2>2, <2>3 DEF Server!CheckVersion
<1>6. ASSUME NEW s \in ServerSockets, Server!Disconnect(s)
      PROVE  ServerInv'
  BY <1>0, <1>6, GoneKeeps DEF ServerInv, Server!TypeOK, Server!Disconnect, Server!TokenState
<1>7. ASSUME NEW s \in ServerSockets, Server!LookAt(s) \/ Server!Looked(s) \/ Server!LookFails(s)
      PROVE  ServerInv'
  <2>1. /\ UNCHANGED Server!TokenState /\ pending' \subseteq ServerSockets /\ looking' \subseteq ServerSockets
    BY <1>0, <1>7 DEF Server!LookAt, Server!Looked, Server!LookFails, Server!TypeOK
  <2>2. CASE Server!Gone({s})
    BY <1>0, <2>1, <2>2, GoneKeeps DEF ServerInv, Server!TypeOK, Server!TokenState
  <2>3. CASE UNCHANGED <<state, tokenVersion, expired, Server!RoomState>>
    BY <1>0, <2>1, <2>3, RoomsKept DEF ServerInv, Server!TypeOK, Server!TokenState, Server!RoomState
  <2> QED
    BY <1>7, <2>2, <2>3 DEF Server!LookAt, Server!Looked, Server!LookFails
\* Every step of a join or a leave.
<1>8. ASSUME Server!RoomStep, clientRooms' \in [ServerSockets -> SUBSET Rooms],
             join' \in [ServerSockets -> [Joins -> Rooms \cup {NoRoom}]], CapInv'
      PROVE  ServerInv'
  BY <1>0, <1>8 DEF ServerInv, Server!TypeOK, Server!RoomStep, Server!TokenState, Server!Revalidation
<1>9. ASSUME NEW s \in ServerSockets, NEW j \in Joins, NEW r \in Rooms \cup {NoRoom}, Server!SetJoin(s, j, r)
      PROVE  join' \in [ServerSockets -> [Joins -> Rooms \cup {NoRoom}]]
  BY <1>0, <1>9 DEF Server!SetJoin, Server!TypeOK
<1>10. ASSUME NEW s \in Joiners, NEW r \in Rooms, Server!RoomLeave(s, r)
       PROVE  ServerInv'
  <2>1. /\ clientRooms' = [clientRooms EXCEPT ![s] = @ \ {r}] /\ UNCHANGED join /\ Server!RoomStep
        /\ s \in ServerSockets
    BY <1>0, <1>10 DEF Server!RoomLeave
  <2>2. /\ clientRooms'[s] = clientRooms[s] \ {r}
        /\ \A t \in ServerSockets \ {s} : clientRooms'[t] = clientRooms[t]
        /\ clientRooms' \in [ServerSockets -> SUBSET Rooms]
    BY <1>0, <2>1 DEF Server!TypeOK
  <2>3. /\ IsFiniteSet(clientRooms'[s]) /\ Cardinality(clientRooms'[s]) <= Cardinality(clientRooms[s])
        /\ Cardinality(clientRooms'[s]) \in Nat /\ Cardinality(clientRooms[s]) \in Nat
    <3>1. IsFiniteSet(clientRooms[s])
      BY <2>1 DEF ServerInv, CapInv
    <3> QED
      BY <2>2, <3>1, FS_Subset, FS_CardinalityType
  <2>4. CapInv'
    BY <2>2, <2>3 DEF ServerInv, CapInv, Server!ServerAssumption
  <2> QED
    BY <1>0, <1>8, <2>1, <2>2, <2>4 DEF Server!TypeOK
<1>11. ASSUME NEW s \in Joiners, NEW r \in Rooms, NEW j \in Joins, Server!RoomJoin(s, j, r)
       PROVE  ServerInv'
  <2>1. Server!SetJoin(s, j, r) /\ UNCHANGED clientRooms /\ Server!RoomStep /\ s \in ServerSockets
    BY <1>0, <1>11 DEF Server!RoomJoin
  <2> QED
    BY <1>0, <1>8, <1>9, <2>1, RoomsKept DEF Server!TypeOK
<1>12. ASSUME NEW s \in Joiners, NEW j \in Joins, Server!NotVerified(s, j)
       PROVE  ServerInv'
  <2>1. Server!SetJoin(s, j, NoRoom) /\ UNCHANGED clientRooms /\ Server!RoomStep /\ s \in ServerSockets
    BY <1>0, <1>12 DEF Server!NotVerified
  <2> QED
    BY <1>0, <1>8, <1>9, <2>1, RoomsKept DEF Server!TypeOK
<1>13. ASSUME NEW s \in Joiners, NEW j \in Joins, Server!Verified(s, j)
       PROVE  ServerInv'
  <2> DEFINE r == join[s][j]
  <2>1. Server!SetJoin(s, j, NoRoom) /\ Server!RoomStep /\ s \in ServerSockets /\ r \in Rooms
    BY <1>0, <1>13 DEF Server!Verified, Server!TypeOK
  <2>2. CASE UNCHANGED clientRooms
    BY <1>0, <1>8, <1>9, <2>1, <2>2, RoomsKept DEF Server!TypeOK
  <2>3. CASE ~Server!Refused(s, r) /\ clientRooms' = [clientRooms EXCEPT ![s] = @ \cup {r}]
    <3>1. /\ clientRooms'[s] = clientRooms[s] \cup {r}
          /\ \A t \in ServerSockets \ {s} : clientRooms'[t] = clientRooms[t]
          /\ clientRooms' \in [ServerSockets -> SUBSET Rooms]
      BY <1>0, <2>1, <2>3 DEF Server!TypeOK
    <3>2. IsFiniteSet(clientRooms[s]) /\ MaxClientRooms \in Nat
      BY <2>1 DEF ServerInv, CapInv, Server!ServerAssumption
    <3>0. r \notin clientRooms[s] /\ ~(Cardinality(clientRooms[s]) >= MaxClientRooms)
      BY ServerSets, <2>3 DEF Server!Refused
    <3> HIDE DEF r
    <3>3. /\ IsFiniteSet(clientRooms'[s]) /\ Cardinality(clientRooms'[s]) = Cardinality(clientRooms[s]) + 1
          /\ Cardinality(clientRooms[s]) \in Nat
      BY <3>0, <3>1, <3>2, FS_AddElement, FS_CardinalityType
    <3>4. Cardinality(clientRooms'[s]) <= MaxClientRooms
      BY <3>0, <3>2, <3>3
    <3>5. CapInv'
      BY <3>1, <3>3, <3>4 DEF ServerInv, CapInv
    <3> QED
      BY <1>8, <1>9, <2>1, <3>1, <3>5
  <2> QED
    BY <1>13, <2>2, <2>3 DEF Server!Verified
<1>14. CASE UNCHANGED Server!vars
  BY <1>0, <1>14, RoomsKept DEF ServerInv, Server!TypeOK, Server!vars
<1> QED
  BY <1>1, <1>2, <1>3, <1>4, <1>5, <1>6, <1>7, <1>10, <1>11, <1>12, <1>13, <1>14 DEF Server!Next

-----------------------------------------------------------------------------
(* The three in one run                                                    *)

LEMMA FeedStep ==
  [NextMC]_<<vars, feedVars, serverVars, part>> => [Feed!Next]_Feed!vars
  BY DEF NextMC, feedVars, Feed!vars

LEMMA ServerStep ==
  [NextMC]_<<vars, feedVars, serverVars, part>> => [Server!Next]_Server!vars
  BY DEF NextMC, serverVars, Server!vars

LEMMA ClientStep ==
  [NextMC]_<<vars, feedVars, serverVars, part>> => [Next]_vars
  BY DEF NextMC, vars

\* Wherever its answers are cut, lost or late, the polling leaves no stored row
\* behind the cursor unseen, until a poll overtakes another.
THEOREM PollsSkipNothing == SpecMC => []NoGap
<1>1. InitMC => FeedInv
  BY RealtimeAssumption, FeedInitial DEF InitMC
<1>2. FeedInv /\ [Feed!Next]_Feed!vars => FeedInv'
  BY RealtimeAssumption, FeedInductive
<1>3. FeedInv => NoGap
  BY RealtimeAssumption, FeedSafe DEF NoGap
<1> QED
  BY <1>1, <1>2, <1>3, FeedStep, PTL DEF SpecMC

\* However many joins wait for the API at once, no socket has more rooms than
\* its limit.
THEOREM RoomsAlwaysCapped == SpecMC => []RoomCap
<1>1. InitMC => ServerInv
  BY RealtimeAssumption, ServerInitial DEF InitMC
<1>2. ServerInv /\ [Server!Next]_Server!vars => ServerInv'
  BY RealtimeAssumption, ServerInductive
<1>3. ServerInv => RoomCap
  BY ServerSets DEF ServerInv, CapInv, RoomCap, Server!RoomCap
<1> QED
  BY <1>1, <1>2, <1>3, ServerStep, PTL DEF SpecMC

\* The run's page keeps its socket exactly as long as it is wanted.
THEOREM WantedInRun == SpecMC => []SocketWanted
<1>1. InitMC => IInv
  BY Initial DEF InitMC
<1>2. IInv => SocketWanted
  BY SocketAssumption
  DEF IInv, TypeOK, AskInv, RetryInv, SocketWanted, NotAbandonedByUs, NotAbandoned
<1> QED
  BY <1>1, <1>2, Inductive, ClientStep, PTL DEF SpecMC
=============================================================================
