------------------------------ MODULE NetSession ------------------------------
(***************************************************************************)
(* A server and one client joined by UDP: NetServer and NetClient step as  *)
(* they are, a datagram that one of them sends is on its way to the other  *)
(* until it is delivered or lost, and one clock ages both.                 *)
(*                                                                         *)
(* What is on the way is a set of kinds of datagram: datagrams overtake    *)
(* each other, and a delivered one may stay and be delivered again.  The   *)
(* client uses one socket, hence one endpoint, for its whole life.         *)
(***************************************************************************)
EXTENDS Integers

CONSTANTS
  HeartbeatInterval,   \* both parties' heartbeat interval
  HeartbeatTimeout,    \* both parties' heartbeat_timeout_
  DropTimeout,         \* disconnect_timeout_ and server_timeout_
  Timely,              \* do link and schedulers keep up with the clock?
  Lossy,               \* may datagrams be lost?
  Doubling             \* may datagrams be delivered twice?

ASSUME DurationsAssumption ==
  /\ HeartbeatInterval \in Nat
  /\ HeartbeatTimeout \in Nat
  /\ DropTimeout \in Nat

ASSUME LinkAssumption ==
  /\ Timely \in BOOLEAN
  /\ Lossy \in BOOLEAN
  /\ Doubling \in BOOLEAN

VARIABLES
  hosted, server_pc, clients, sinceHeartbeat, packet, sweep, expired,
  server_sent, view, server_event, departed,
  throws, conn, serverState, handshake, socket, sinceHeard, sinceSent, overdue, pc,
  heardAge, sentAge, sinceNow, after, client_sent, event, asked, heard, parted,
  toServer,    \* kinds of datagram on the way to the server
  toClient,    \* kinds of datagram on the way to the client
  turns        \* who has finished a pass since the last tick, where that is timely

serverVars == <<hosted, server_pc, clients, sinceHeartbeat, packet, sweep, expired,
                server_sent, view, server_event, departed>>
clientVars == <<throws, conn, serverState, handshake, socket, sinceHeard, sinceSent, overdue,
                pc, heardAge, sentAge, sinceNow, after, client_sent, event, asked,
                heard, parted>>
linkVars   == <<toServer, toClient, turns>>
vars       == <<serverVars, clientVars, linkVars>>

Client == "client"

S == INSTANCE NetServer
       WITH Endpoints <- {Client}, DisconnectTimeout <- DropTimeout, Throws <- FALSE,
            pc <- server_pc, sent <- server_sent, event <- server_event
C == INSTANCE NetClient
       WITH ServerTimeout <- DropTimeout, InitialConn <- {"Disconnected"},
            Throws <- {FALSE}, InputThread <- FALSE, sent <- client_sent

Parties == {"server", "client"}

-------------------------------------------------------------------------------
Init ==
  /\ S!Init
  /\ C!Init
  /\ toServer = {}
  /\ toClient = {}
  /\ turns = {}

\* A party that comes back from process() has had its turn.
TakeTurn(party, returns) == turns' = IF Timely /\ returns THEN turns \cup {party} ELSE turns

\* A step of the server that reads nothing; what it sends is on its way.
ServerRuns ==
  /\ \/ S!Process \/ S!Handle \/ S!EraseVoluntary \/ S!WouldBlock \/ S!SweepEnd
     \/ S!Sweep(Client)
     \/ S!Host /\ ~hosted
  /\ toClient' = toClient \cup {d.kind : d \in server_sent'}
  /\ TakeTurn("server", server_pc # "Idle" /\ server_pc' = "Idle")
  /\ UNCHANGED <<toServer, clientVars>>

\* The server reads a datagram, which is gone or will come again.
ServerReads(kind) ==
  /\ kind \in toServer
  /\ S!ReceiveKnown(Client, kind) \/ S!ReceiveNew(Client, kind)
  /\ toServer' = toServer \ {kind} \/ (Doubling /\ toServer' = toServer)
  /\ UNCHANGED <<toClient, turns, clientVars>>

\* A step A of the client that reads nothing; what it sends is on its way.
ClientDoes(A) ==
  /\ A
  /\ toServer' = toServer \cup client_sent'
  /\ TakeTurn("client", /\ pc["main"] # "Idle" /\ pc'["main"] = "Idle"
                        /\ pc["main"] \in {"Leaving", "Parting"} => after # "Idle")
  /\ UNCHANGED <<toClient, serverVars>>

ClientProcess == ClientDoes(C!Process)
ClientRuns    == ClientDoes(C!WouldBlock \/ C!Work \/ C!Goodbye("main"))
ClientCalls   == ClientDoes((C!Connect /\ hosted) \/ C!Disconnect("main"))

ClientReads(kind) ==
  /\ kind \in toClient
  /\ C!Receive(kind)
  /\ toClient' = toClient \ {kind} \/ (Doubling /\ toClient' = toClient)
  /\ UNCHANGED <<toServer, turns, serverVars>>

\* A datagram is lost: for good, all its copies.
LoseToServer ==
  /\ Lossy
  /\ \E kind \in toServer : toServer' = toServer \ {kind}
  /\ UNCHANGED <<toClient, turns, serverVars, clientVars>>

\* A datagram is lost, or arrives at a closed socket.
LoseToClient ==
  /\ Lossy \/ socket = "Closed"
  /\ \E kind \in toClient : toClient' = toClient \ {kind}
  /\ UNCHANGED <<toServer, turns, serverVars, clientVars>>

\* The clock ticks for both.  When everything is timely, each party has finished a
\* pass since the last tick and no datagram stays on its way from tick to tick.  The
\* deadline of connect() is left out: NetClient shows that it is moot.
Tick ==
  /\ Timely /\ hosted /\ asked =>
       turns = Parties /\ toServer = {} /\ toClient = {}
  /\ S!Tick /\ C!Tick /\ UNCHANGED overdue
  /\ turns' = {}
  /\ UNCHANGED <<toServer, toClient>>

Next ==
  \/ ServerRuns
  \/ \E kind \in S!Kinds : ServerReads(kind)
  \/ ClientProcess \/ ClientRuns \/ ClientCalls
  \/ \E kind \in C!Kinds : ClientReads(kind)
  \/ LoseToServer \/ LoseToClient
  \/ Tick

Spec == Init /\ [][Next]_vars

\* The server's owner keeps calling process(), the clock ticks, and no datagram is on
\* its way for ever: it is delivered for the last time, or lost.
Fairness ==
  /\ WF_vars(ServerRuns)
  /\ WF_vars(LoseToServer)
  /\ WF_vars(Tick)

FairSpec == Spec /\ Fairness

-------------------------------------------------------------------------------
(* What makes a session correct *)

Open == socket # "Closed" /\ pc["main"] \notin {"Leaving", "Closing", "Parting"}

\* The server tells its application of a voluntary on_disconnect only when the
\* client has called disconnect().
VoluntaryMeansLeft == server_event.what = "Voluntary" => ~Open

\* On a timely link without losses nobody who is alive is ever called Dormant or
\* timed out, provided the heartbeat timeout is two ticks above the interval, a
\* tick being the time a pass and a delivery take at most (the defaults of
\* server.hpp:37-39 and client.hpp:32-34 leave 4000 and 1500 ms for two).
HealthyLinkIsQuiet ==
  Open => /\ view[Client] \in {"Absent", "Aroused"}
          /\ server_event.what \notin {"StateChange", "Timeout"}
          /\ event # "Timeout"
          /\ pc["main"] = "Expiring" => serverState = "Aroused"

\* When the client has closed its socket the server forgets it in the end, for good,
\* though goodbyes get lost and a datagram that is late by more than the timeout makes
\* it a client again, after its entry has gone (server.cpp:143-172, 204-243).
ClosedIsForgotten == []<>(socket = "Closed") => <>[](Client \notin DOMAIN clients)

===============================================================================
