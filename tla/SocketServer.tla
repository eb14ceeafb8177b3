----------------------------- MODULE SocketServer -----------------------------
(***************************************************************************)
(* The sockets of one user on the socket service (socket-service/src/      *)
(* server.ts, auth.ts, redis-auth.ts, room-access.ts): the handshake and   *)
(* its check of the mirrored token version, the kick that follows a        *)
(* revocation, the revalidation of every minute, and the rooms a socket    *)
(* joins on demand.  The token service (external here, see TokenService)   *)
(* raises the version and fills the mirror.                                *)
(***************************************************************************)
EXTENDS Naturals, FiniteSets

CONSTANTS Sockets,             \* bound: sockets of the user at once
          Rooms,               \* post rooms a client asks for
          Joiners,             \* bound: the sockets that ask for rooms
          Joins,               \* bound: room:join handlers in flight per socket
          NoRoom,
          MaxClientRooms,
          MaxVersion           \* bound: revocations

ServerAssumption ==
  Joiners \subseteq Sockets /\ MaxClientRooms \in Nat /\ MaxVersion \in Nat

Miss == MaxVersion + 1
Versions == 0 .. MaxVersion

VARIABLES version,             \* users.token_version
          mirror,              \* auth:tokenVersion in Redis, or Miss
          kicks,               \* auth:kicks messages on their way
          state,               \* none, checking, accepted, connected
          tokenVersion,        \* socket.data.tokenVersion
          expired,             \* sockets whose access token has run out
          clientRooms,         \* socket.data.clientRooms
          join,                \* room:join handlers: the room each verifies, or NoRoom
          pending,             \* revalidation: sockets not yet looked at
          looking              \* the socket it waits on the mirror for

vars == <<version, mirror, kicks, state, tokenVersion, expired, clientRooms, join,
          pending, looking>>

TokenState == <<version, mirror, kicks>>
RoomState == <<clientRooms, join>>
Revalidation == <<pending, looking>>

TypeOK ==
  /\ version \in Versions /\ mirror \in Versions \cup {Miss} /\ kicks \in BOOLEAN
  /\ state \in [Sockets -> {"none", "checking", "accepted", "connected"}]
  /\ tokenVersion \in [Sockets -> Versions] /\ expired \subseteq Sockets
  /\ clientRooms \in [Sockets -> SUBSET Rooms]
  /\ join \in [Sockets -> [Joins -> Rooms \cup {NoRoom}]]
  /\ pending \subseteq Sockets /\ looking \subseteq Sockets

NoJoin == [j \in Joins |-> NoRoom]

Init ==
  /\ version = 0 /\ mirror = Miss /\ kicks = FALSE
  /\ state = [s \in Sockets |-> "none"]
  /\ tokenVersion = [s \in Sockets |-> 0]
  /\ expired = {}
  /\ clientRooms = [s \in Sockets |-> {}]
  /\ join = [s \in Sockets |-> NoJoin]
  /\ pending = {} /\ looking = {}

-----------------------------------------------------------------------------
(* The token service and Redis                                             *)

\* A revocation: the mirror and the kick are best effort.
Revoke ==
  /\ version < MaxVersion
  /\ version' = version + 1
  /\ mirror' \in {mirror, version + 1}
  /\ kicks' \in {kicks, TRUE}
  /\ UNCHANGED <<state, tokenVersion, expired, RoomState, Revalidation>>

\* A token being issued writes the version it was read with; the entry expires.
MirrorChanges ==
  /\ mirror' \in 0 .. version \cup {Miss}
  /\ UNCHANGED <<version, kicks, state, tokenVersion, expired, RoomState, Revalidation>>

TokenExpires(s) ==
  /\ state[s] # "none" /\ s \notin expired
  /\ expired' = expired \cup {s}
  /\ UNCHANGED <<TokenState, state, tokenVersion, RoomState, Revalidation>>

-----------------------------------------------------------------------------
(* Connecting and leaving                                                  *)

\* A handshake within the limit, with a token that is signed and fresh.
Handshake(s) ==
  /\ state[s] = "none"
  /\ state' = [state EXCEPT ![s] = "checking"]
  /\ tokenVersion' \in {[tokenVersion EXCEPT ![s] = v] : v \in 0 .. version}
  /\ UNCHANGED <<TokenState, expired, RoomState, Revalidation>>

\* getCachedTokenVersion: the mirror's value, or null when Redis fails.
CachedVersions == {mirror, Miss}
Outdated(s, cached) == cached # Miss /\ cached # tokenVersion[s]

\* The end of a socket, with everything it was doing.
Gone(S) ==
  /\ state' = [s \in Sockets |-> IF s \in S THEN "none" ELSE state[s]]
  /\ tokenVersion' = [s \in Sockets |-> IF s \in S THEN 0 ELSE tokenVersion[s]]
  /\ expired' = expired \ S
  /\ clientRooms' = [s \in Sockets |-> IF s \in S THEN {} ELSE clientRooms[s]]
  /\ join' = [s \in Sockets |-> IF s \in S THEN NoJoin ELSE join[s]]

CheckVersion(s) ==
  /\ state[s] = "checking"
  /\ \E cached \in CachedVersions :
       IF Outdated(s, cached)
         THEN Gone({s})
         ELSE /\ state' = [state EXCEPT ![s] = "accepted"]
              /\ UNCHANGED <<tokenVersion, expired, RoomState>>
  /\ UNCHANGED <<TokenState, Revalidation>>

\* on("connection"): the socket enters its user room.
Connection(s) ==
  /\ state[s] = "accepted"
  /\ state' = [state EXCEPT ![s] = "connected"]
  /\ UNCHANGED <<TokenState, tokenVersion, expired, RoomState, Revalidation>>

\* The client leaves, or its connection is lost.
Disconnect(s) ==
  /\ state[s] # "none"
  /\ Gone({s})
  /\ looking' = looking \ {s} /\ pending' = pending \ {s}
  /\ UNCHANGED TokenState

\* The kick reaches the sockets that are in the user room by now, or is lost.
Kick ==
  /\ kicks /\ kicks' = FALSE
  /\ \/ LET inRoom == {s \in Sockets : state[s] = "connected"} IN
          /\ Gone(inRoom)
          /\ looking' = looking \ inRoom /\ pending' = pending \ inRoom
     \/ UNCHANGED <<state, tokenVersion, expired, RoomState, Revalidation>>
  /\ UNCHANGED <<version, mirror>>

-----------------------------------------------------------------------------
(* The revalidation                                                        *)

\* setInterval: a run starts unless the last one is still going.
Revalidate ==
  /\ pending = {} /\ looking = {}
  /\ pending' = {s \in Sockets : state[s] = "connected"}
  /\ pending' # {}
  /\ UNCHANGED <<TokenState, state, tokenVersion, expired, RoomState, looking>>

\* The next socket: an expired token ends it, any other waits for the mirror.
LookAt(s) ==
  /\ looking = {} /\ s \in pending
  /\ pending' = pending \ {s}
  /\ IF s \in expired
       THEN Gone({s}) /\ UNCHANGED looking
       ELSE looking' = {s} /\ UNCHANGED <<state, tokenVersion, expired, RoomState>>
  /\ UNCHANGED TokenState

\* Redis fails: null, and the socket stays.
LookFails(s) ==
  /\ s \in looking /\ looking' = {}
  /\ UNCHANGED <<TokenState, pending, state, tokenVersion, expired, RoomState>>

Looked(s) ==
  /\ s \in looking /\ looking' = {}
  /\ IF Outdated(s, mirror)
       THEN Gone({s})
       ELSE UNCHANGED <<state, tokenVersion, expired, RoomState>>
  /\ UNCHANGED <<TokenState, pending>>

-----------------------------------------------------------------------------
(* room:join and room:leave                                                *)

RoomStep == UNCHANGED <<TokenState, state, tokenVersion, expired, Revalidation>>
SetJoin(s, j, r) == join' = [join EXCEPT ![s] = [@ EXCEPT ![j] = r]]

Refused(s, r) == r \in clientRooms[s] \/ Cardinality(clientRooms[s]) >= MaxClientRooms

RoomJoin(s, j, r) ==
  /\ state[s] = "connected" /\ join[s][j] = NoRoom /\ ~Refused(s, r)
  /\ SetJoin(s, j, r)
  /\ UNCHANGED clientRooms /\ RoomStep

\* Mutant: the cap is not looked at again after the await.
VerifiedAtOnce(s, j) ==
  /\ join[s][j] # NoRoom
  /\ clientRooms' = [clientRooms EXCEPT ![s] = @ \cup {join[s][j]}]
  /\ SetJoin(s, j, NoRoom)
  /\ RoomStep

\* The post is visible: both checks again, then the place is taken and the socket
\* enters the room (or socket.join throws and gives the place back).
Verified(s, j) ==
  /\ join[s][j] # NoRoom
  /\ IF Refused(s, join[s][j])
       THEN UNCHANGED clientRooms
       ELSE clientRooms' \in {clientRooms, [clientRooms EXCEPT ![s] = @ \cup {join[s][j]}]}
  /\ SetJoin(s, j, NoRoom)
  /\ RoomStep

\* 401, 403, 404, 5xx, a timeout: the join is refused.
NotVerified(s, j) ==
  /\ join[s][j] # NoRoom
  /\ SetJoin(s, j, NoRoom)
  /\ UNCHANGED clientRooms /\ RoomStep

RoomLeave(s, r) ==
  /\ r \in clientRooms[s]
  /\ clientRooms' = [clientRooms EXCEPT ![s] = @ \ {r}]
  /\ UNCHANGED join /\ RoomStep

Next ==
  \/ Revoke \/ MirrorChanges \/ Kick \/ Revalidate
  \/ \E s \in Sockets : \/ TokenExpires(s) \/ Handshake(s) \/ CheckVersion(s)
                        \/ Connection(s) \/ Disconnect(s)
                        \/ LookAt(s) \/ Looked(s) \/ LookFails(s)
  \/ \E s \in Joiners, r \in Rooms : RoomLeave(s, r) \/ \E j \in Joins : RoomJoin(s, j, r)
  \/ \E s \in Joiners, j \in Joins : Verified(s, j) \/ NotVerified(s, j)

\* The timer fires, a run goes on, and Redis answers it again and again.
Fairness ==
  /\ WF_vars(Revalidate)
  /\ \A s \in Sockets : WF_vars(LookAt(s)) /\ WF_vars(LookFails(s)) /\ SF_vars(Looked(s))

Spec == Init /\ [][Next]_vars /\ Fairness

-----------------------------------------------------------------------------
(* Properties                                                              *)

\* However many joins wait for the API at once, no socket has more than its rooms.
RoomCap == \A s \in Sockets : Cardinality(clientRooms[s]) <= MaxClientRooms

\* A connected socket whose token has run out, or is older than the mirror says.
Lapsed(s) ==
  state[s] = "connected" /\ (s \in expired \/ Outdated(s, mirror))

\* It is not left connected, even if its kick was lost or came while it was still
\* in its handshake.
LapsedGoes == \A s \in Sockets : Lapsed(s) ~> ~Lapsed(s)

=============================================================================
