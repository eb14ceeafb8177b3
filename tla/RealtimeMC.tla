----------------------------- MODULE RealtimeMC -----------------------------
(***************************************************************************)
(* The way of an event to the page in one run: the life of the client's    *)
(* socket ("client"), the polling that stands in for it ("feed") and the   *)
(* socket service that lets it in and expels it ("server").  They meet only*)
(* over the network and keep no state together: part says which one a      *)
(* behaviour runs, the others stay as they began.                          *)
(***************************************************************************)
EXTENDS RealtimeClient

CONSTANTS Posts, Polls, Take, MaxSince, Start, MaxTime, Skews,
          ServerSockets, Rooms, Joiners, Joins, NoRoom, MaxClientRooms, MaxVersion

VARIABLES part,
          clock, skew, createdAt, stored, connected, cursor, poll,
          delivered, late, cut, aged, dropped, overtaken,
          version, mirror, kicks, state, tokenVersion, expired, clientRooms, join,
          pending, looking

Feed == INSTANCE PollingFeed
Server == INSTANCE SocketServer WITH Sockets <- ServerSockets

ASSUME RealtimeAssumption == Feed!PollingAssumption /\ Server!ServerAssumption

feedVars == <<clock, skew, createdAt, stored, connected, cursor, poll,
              delivered, late, cut, aged, dropped, overtaken>>
serverVars == <<version, mirror, kicks, state, tokenVersion, expired, clientRooms, join,
                pending, looking>>

InitMC == /\ part \in {"client", "feed", "server"}
          /\ Init /\ Feed!Init /\ Server!Init
          /\ part # "feed" => skew = 0

NextMC == /\ \/ part = "client" /\ Next /\ UNCHANGED <<feedVars, serverVars>>
             \/ part = "feed" /\ Feed!Next /\ UNCHANGED <<vars, serverVars>>
             \/ part = "server" /\ Server!Next /\ UNCHANGED <<vars, feedVars>>
          /\ UNCHANGED part

(* The fairness of the three specifications.  As a behaviour runs one part, *)
(* an action of each can share one strong condition.                        *)
allVars == <<vars, feedVars, serverVars>>

Found(t) ==
  \/ part = "client" /\ (\E c \in Connects : TokenFound(c)) /\ UNCHANGED <<feedVars, serverVars>>
  \/ part = "feed" /\ (\E p \in Polls : Feed!Query(p)) /\ UNCHANGED <<vars, serverVars>>
  \/ part = "server" /\ Server!Looked(t) /\ UNCHANGED <<vars, feedVars>>

Answered(s) ==
  \/ part = "client" /\ Accepted(s) /\ UNCHANGED <<feedVars, serverVars>>
  \/ part = "feed" /\ (\E p \in Polls : Feed!Answer(p)) /\ UNCHANGED <<vars, serverVars>>

FairnessMC ==
  /\ WF_vars(part = "client" /\ TimerFires)
  /\ \A s \in Sockets : WF_vars(part = "client" /\ ManagerRetries(s))
  /\ \A p \in Polls : WF_feedVars(part = "feed" /\ Feed!Send(p))
  /\ WF_serverVars(part = "server" /\ Server!Revalidate)
  /\ \A t \in ServerSockets : /\ WF_serverVars(part = "server" /\ Server!LookAt(t))
                              /\ WF_serverVars(part = "server" /\ Server!LookFails(t))
                              /\ SF_allVars(Found(t))
  /\ \A s \in Sockets : SF_allVars(Answered(s))

SpecMC == InitMC /\ [][NextMC]_<<vars, feedVars, serverVars, part>> /\ FairnessMC

-----------------------------------------------------------------------------
(* Polling skips no row, whatever the skew of the clocks, the ties and the  *)
(* answers lost, until a poll overtakes another.                            *)
NoGap == Feed!TypeOK /\ Feed!NoGap

(* A stored row is shown in the end, or the socket has taken over.          *)
Caught == Feed!Caught

(* However many joins wait for the API, no socket has more than its rooms.  *)
RoomCap == Server!TypeOK /\ Server!RoomCap

(* A socket whose token has lapsed is not left connected, kick or no kick.  *)
LapsedGoes == Server!LapsedGoes
=============================================================================
