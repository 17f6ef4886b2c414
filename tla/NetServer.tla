------------------------------ MODULE NetServer -------------------------------
(***************************************************************************)
(* RF::net::server (src/src/net/server.cpp): one thread owns the server,   *)
(* calls host() once or more and process() over and over, and may send     *)
(* between those calls or from inside a callback.  process() is a long     *)
(* handler, so it is cut at the points where another datagram, the clock   *)
(* or an exception can come in: pc says how far the current call is.       *)
(*                                                                         *)
(* Time is kept as ages.  clients[e].silence is now - last_heartbeat of an *)
(* entry, sinceHeartbeat is now - last_heartbeat_sent_; both saturate just *)
(* above every threshold they are compared with, so the model stays finite *)
(* without ever changing the result of a comparison.                       *)
(*                                                                         *)
(* A datagram of length zero is skipped (line 149) and is a stuttering     *)
(* step here.  Callbacks are assumed not to call process() or host().      *)
(***************************************************************************)
EXTENDS Integers, FiniteSets, Functions

CONSTANTS
  Endpoints,           \* the UDP endpoints datagrams come from
  HeartbeatTimeout,    \* silence after which a client is Dormant
  DisconnectTimeout,   \* silence after which a client is dropped
  HeartbeatInterval,   \* the period of the server's own heartbeats
  Throws               \* may callbacks, sends and the parser throw?

ASSUME EndpointsAssumption == IsFiniteSet(Endpoints)

ASSUME DurationAssumption ==
  /\ HeartbeatTimeout \in Nat
  /\ DisconnectTimeout \in Nat
  /\ HeartbeatInterval \in Nat

ASSUME ThrowsAssumption == Throws \in BOOLEAN

VARIABLES
  hosted,           \* has host() put the socket in non-blocking mode?
  pc,               \* where the current process() call is
  clients,          \* clients_: endpoint -> client_info
  sinceHeartbeat,   \* now - last_heartbeat_sent_
  packet,           \* the datagram receive_all is handling
  sweep,            \* clients the timeout loop has yet to visit -> time_since
  expired,          \* to_remove
  sent,             \* the datagrams the last step gave to the socket
  view, event,      \* history: what the callbacks have told (see Membership)
  departed          \* history: has an entry ever been erased?

tableVars   == <<clients, departed>>
historyVars == <<view, event>>
vars == <<hosted, pc, clients, sinceHeartbeat, packet, sweep, expired, sent,
          view, event, departed>>

-------------------------------------------------------------------------------
(* Types *)

PCs == {"Idle", "Receiving", "Handling", "Erasing", "Sweeping"}

SocketStates == {"Aroused", "Dormant"}

\* Kinds of internal message; a Malformed one makes deserialize_internal throw.
Kinds == {"Application", "Disconnect", "SetAgent", "Heartbeat"}
         \cup (IF Throws THEN {"Malformed"} ELSE {})

Packets  == [from : Endpoints, kind : Kinds]
NoPacket == [kind |-> "None"]

Datagrams == [to : Endpoints, kind : {"Application", "Heartbeat"}]

MaxSilence == (IF HeartbeatTimeout > DisconnectTimeout
               THEN HeartbeatTimeout ELSE DisconnectTimeout) + 1

Older(age, cap) == IF age < cap THEN age + 1 ELSE age

Ids == 1 .. Cardinality(Endpoints)

\* agent only distinguishes the initial "" from a name set by SetAgent.
ClientInfo == [id : Ids, agent : {"", "Named"}, state : SocketStates,
               silence : 0 .. MaxSilence]

\* A callback: which one, and the client it is about.
Events == [what : {"Connect", "Receive", "StateChange", "Voluntary", "Timeout"},
           who : Endpoints]
NoEvent == [what |-> "Nothing"]

Members == DOMAIN clients

NoEntries == [e \in {} |-> 0]

Flags ==
  /\ hosted \in BOOLEAN
  /\ departed \in BOOLEAN

TableTypes ==
  /\ Members \subseteq Endpoints
  /\ clients \in [Members -> ClientInfo]
  /\ sinceHeartbeat \in 0 .. HeartbeatInterval + 1

LocalTypes ==
  /\ pc \in PCs
  /\ packet \in Packets \cup {NoPacket}
  /\ DOMAIN sweep \subseteq Endpoints
  /\ sweep \in [DOMAIN sweep -> 0 .. MaxSilence]
  /\ expired \subseteq Endpoints

OutputTypes ==
  /\ sent \subseteq Datagrams
  /\ view \in [Endpoints -> {"Absent", "Aroused", "Dormant"}]
  /\ event \in Events \cup {NoEvent}

TypeOK == Flags /\ TableTypes /\ LocalTypes /\ OutputTypes

-------------------------------------------------------------------------------
(* Parts of the handlers *)

\* A callback: the application learns that e is now in view v.
Deliver(what, e, v) ==
  /\ event' = [what |-> what, who |-> e]
  /\ view' = [view EXCEPT ![e] = v]

Silence == event' = NoEvent /\ UNCHANGED view

NothingSent == sent' = {}

\* send_to to each endpoint of a set; a throwing socket stops part way, in the
\* unspecified iteration order of the unordered_map.
SendTo(S, kind) == sent' = [to : S, kind : {kind}]

\* The locals of process() die with the call, returning or unwinding.
Leave == /\ pc' = "Idle"
         /\ packet' = NoPacket
         /\ sweep' = NoEntries
         /\ expired' = {}

Unwind == Throws /\ Leave

\* receive_all is done with a datagram and reads the next one.
NextDatagram == /\ pc' = "Receiving"
                /\ packet' = NoPacket
                /\ UNCHANGED <<sweep, expired>>

\* Mutant: the id counts only the clients that are awake.
Mut_NewClient == [id |-> Cardinality({e \in Members : clients[e].state = "Aroused"}) + 1,
                  agent |-> "", state |-> "Aroused", silence |-> 0]

\* Mutant: the id is taken after the entry was counted in.
Mut_NewClientLate == [id |-> Cardinality(Members) + 2, agent |-> "",
                      state |-> "Aroused", silence |-> 0]

NewClient == [id |-> Cardinality(Members) + 1, agent |-> "",
              state |-> "Aroused", silence |-> 0]

Emplace(e) ==
  clients' = [x \in Members \cup {e} |-> IF x = e THEN NewClient ELSE clients[x]]

Erase(S) == /\ clients' = Restrict(clients, Members \ S)
            /\ departed' = (departed \/ S # {})

\* Mutant: >= instead of >.
Mut_TimedOut(age) == age >= DisconnectTimeout

TimedOut(age)  == age > DisconnectTimeout
IsDormant(age) == age > HeartbeatTimeout

-------------------------------------------------------------------------------
(* host() and the receive loop *)

Init ==
  /\ hosted = FALSE
  /\ pc = "Idle"
  /\ clients = NoEntries
  /\ sinceHeartbeat = 0
  /\ packet = NoPacket
  /\ sweep = NoEntries
  /\ expired = {}
  /\ sent = {}
  /\ view = [e \in Endpoints |-> "Absent"]
  /\ event = NoEvent
  /\ departed = FALSE

\* host(): a new non-blocking socket; the table survives a second call.
Host ==
  /\ pc = "Idle"
  /\ hosted' = TRUE
  /\ sinceHeartbeat' = 0
  /\ Silence /\ NothingSent
  /\ UNCHANGED <<pc, packet, sweep, expired, tableVars>>

\* process() is called.
Process ==
  /\ pc = "Idle"
  /\ pc' = "Receiving"
  /\ Silence /\ NothingSent
  /\ UNCHANGED <<hosted, sinceHeartbeat, packet, sweep, expired, tableVars>>

\* A datagram of a client in the table.  Before host() nobody knows the port.
ReceiveKnown(e, kind) ==
  /\ pc = "Receiving" /\ hosted
  /\ e \in Members
  /\ packet' = [from |-> e, kind |-> kind]
  /\ pc' = "Handling"
  /\ Silence /\ NothingSent
  /\ UNCHANGED <<hosted, sinceHeartbeat, sweep, expired, tableVars>>

\* Mutant: on_connect is called before the entry is put in the table.
Mut_ReceiveNew(e, kind) ==
  /\ pc = "Receiving" /\ hosted
  /\ e \notin Members
  /\ Deliver("Connect", e, "Aroused")
  /\ \/ /\ Emplace(e)
        /\ packet' = [from |-> e, kind |-> kind]
        /\ pc' = "Handling"
        /\ UNCHANGED <<sweep, expired>>
     \/ Unwind /\ UNCHANGED clients
  /\ NothingSent
  /\ UNCHANGED <<hosted, sinceHeartbeat, departed>>

\* A datagram of an unknown endpoint: a client joins and on_connect is called.
ReceiveNew(e, kind) ==
  /\ pc = "Receiving" /\ hosted
  /\ e \notin Members
  /\ Emplace(e)
  /\ Deliver("Connect", e, "Aroused")
  /\ \/ /\ packet' = [from |-> e, kind |-> kind]
        /\ pc' = "Handling"
        /\ UNCHANGED <<sweep, expired>>
     \/ Unwind
  /\ NothingSent
  /\ UNCHANGED <<hosted, sinceHeartbeat, departed>>

\* Mutant: a datagram does not count as a sign of life.
Mut_Refresh(e, agent) == clients' = [clients EXCEPT ![e].agent = agent]

\* ci.last_heartbeat = now, and for SetAgent the agent.
Refresh(e, agent) ==
  clients' = [clients EXCEPT ![e].silence = 0, ![e].agent = agent]

\* What every kind of datagram does first (line 166).
Handling(kind) ==
  /\ pc = "Handling"
  /\ packet.kind = kind
  /\ Refresh(packet.from,
             IF kind = "SetAgent" THEN "Named" ELSE clients[packet.from].agent)
  /\ NothingSent
  /\ UNCHANGED <<hosted, sinceHeartbeat, departed>>

\* The payload is the application's: on_receive.
HandleApplication ==
  /\ Handling("Application")
  /\ Deliver("Receive", packet.from, view[packet.from])
  /\ NextDatagram \/ Unwind

\* on_disconnect is called while the entry is still in the table.
HandleDisconnect ==
  /\ Handling("Disconnect")
  /\ Deliver("Voluntary", packet.from, "Absent")
  /\ \/ pc' = "Erasing" /\ UNCHANGED <<packet, sweep, expired>>
     \/ Unwind

\* Mutant: the entry of a client that said goodbye stays.
Mut_EraseVoluntary ==
  /\ pc = "Erasing"
  /\ NextDatagram
  /\ Silence /\ NothingSent
  /\ UNCHANGED <<hosted, sinceHeartbeat, tableVars>>

EraseVoluntary ==
  /\ pc = "Erasing"
  /\ Erase({packet.from})
  /\ NextDatagram
  /\ Silence /\ NothingSent
  /\ UNCHANGED <<hosted, sinceHeartbeat>>

\* SetAgent and Heartbeat tell the application nothing.
HandleQuiet ==
  /\ Handling("SetAgent") \/ Handling("Heartbeat")
  /\ Silence
  /\ NextDatagram

\* The parser rejects it.  A SetAgent without a body counts as such too: line 182 reads
\* past the end of its payload, which may throw; where it does not it is a quiet one.
HandleMalformed ==
  /\ Handling("Malformed")
  /\ Silence
  /\ Unwind

\* receive_from fails with another error than would_block, which is rethrown.
SocketError ==
  /\ pc = "Receiving" /\ hosted
  /\ Silence /\ NothingSent
  /\ Unwind
  /\ UNCHANGED <<hosted, sinceHeartbeat, tableVars>>

-------------------------------------------------------------------------------
(* Heartbeats and the timeout loop *)

\* would_block ends the receive loop; now is read, heartbeats are sent when due,
\* and the loop over clients_ will compare each entry with that same now.
WouldBlock ==
  /\ pc = "Receiving" /\ hosted
  /\ IF sinceHeartbeat > HeartbeatInterval
     THEN SendTo(Members, "Heartbeat") /\ sinceHeartbeat' = 0
     ELSE NothingSent /\ UNCHANGED sinceHeartbeat
  /\ pc' = "Sweeping"
  /\ sweep' = [e \in Members |-> clients[e].silence]
  /\ Silence
  /\ UNCHANGED <<hosted, packet, expired, tableVars>>

\* A heartbeat send throws: some clients got theirs, and all are still due.
HeartbeatsFail ==
  /\ pc = "Receiving" /\ hosted
  /\ sinceHeartbeat > HeartbeatInterval
  /\ \E S \in SUBSET Members : S # Members /\ SendTo(S, "Heartbeat")
  /\ Silence
  /\ Unwind
  /\ UNCHANGED <<hosted, sinceHeartbeat, tableVars>>

\* Mutant: the iterator does not advance.
Mut_Visited(e) ==
  /\ pc' = pc
  /\ UNCHANGED <<sweep, packet>>

\* The loop goes on after a visit, unless the callback of the visit threw.
Visited(e) ==
  /\ pc' = pc
  /\ sweep' = Restrict(sweep, DOMAIN sweep \ {e})
  /\ UNCHANGED packet

Visiting(e) ==
  /\ pc = "Sweeping" /\ e \in DOMAIN sweep
  /\ NothingSent
  /\ UNCHANGED <<hosted, sinceHeartbeat, departed>>

SweepTimeout(e) ==
  /\ Visiting(e)
  /\ TimedOut(sweep[e])
  /\ Deliver("Timeout", e, "Absent")
  /\ \/ Visited(e) /\ expired' = expired \cup {e}
     \/ Unwind
  /\ UNCHANGED clients

\* Mutant: the guards ci.state != Dormant and ci.state != Aroused are dropped.
Mut_SweepChange(e, s) ==
  /\ Visiting(e)
  /\ ~TimedOut(sweep[e])
  /\ s = IF IsDormant(sweep[e]) THEN "Dormant" ELSE "Aroused"
  /\ clients' = [clients EXCEPT ![e].state = s]
  /\ Deliver("StateChange", e, s)
  /\ \/ Visited(e) /\ UNCHANGED expired
     \/ Unwind

\* The entry changes state, and on_state_change follows.
SweepChange(e, s) ==
  /\ Visiting(e)
  /\ ~TimedOut(sweep[e])
  /\ s = IF IsDormant(sweep[e]) THEN "Dormant" ELSE "Aroused"
  /\ clients[e].state # s
  /\ clients' = [clients EXCEPT ![e].state = s]
  /\ Deliver("StateChange", e, s)
  /\ \/ Visited(e) /\ UNCHANGED expired
     \/ Unwind

SweepKeep(e) ==
  /\ Visiting(e)
  /\ ~TimedOut(sweep[e])
  /\ clients[e].state = IF IsDormant(sweep[e]) THEN "Dormant" ELSE "Aroused"
  /\ Silence
  /\ Visited(e)
  /\ UNCHANGED <<clients, expired>>

\* Mutant: to_remove is forgotten.
Mut_SweepEnd ==
  /\ pc = "Sweeping" /\ DOMAIN sweep = {}
  /\ Leave
  /\ Silence /\ NothingSent
  /\ UNCHANGED <<hosted, sinceHeartbeat, tableVars>>

\* The loop is done: to_remove is erased and process() returns.
SweepEnd ==
  /\ pc = "Sweeping" /\ DOMAIN sweep = {}
  /\ Erase(expired)
  /\ Leave
  /\ Silence /\ NothingSent
  /\ UNCHANGED <<hosted, sinceHeartbeat>>

-------------------------------------------------------------------------------
(* Sending, and the passing of time *)

\* The owner thread sends between two calls of process() or inside a callback.
CanSend == pc = "Idle" \/ event # NoEvent

Reached(id) == {e \in Members : clients[e].id = id}

\* send(id): every entry with that id is sent the message.
AppSend(id) ==
  /\ CanSend
  /\ \E S \in IF Throws THEN SUBSET Reached(id) ELSE {Reached(id)} :
       SendTo(S, "Application")
  /\ UNCHANGED <<hosted, pc, sinceHeartbeat, packet, sweep, expired, tableVars,
                 historyVars>>

AppBroadcast ==
  /\ CanSend
  /\ \E S \in IF Throws THEN SUBSET Members ELSE {Members} :
       SendTo(S, "Application")
  /\ UNCHANGED <<hosted, pc, sinceHeartbeat, packet, sweep, expired, tableVars,
                 historyVars>>

\* Time passes at any point, also in the middle of process().
Tick ==
  /\ clients' = [e \in Members |->
                   [clients[e] EXCEPT !.silence = Older(@, MaxSilence)]]
  /\ sinceHeartbeat' = Older(sinceHeartbeat, HeartbeatInterval + 1)
  /\ NothingSent
  /\ UNCHANGED <<hosted, pc, packet, sweep, expired, departed, historyVars>>

-------------------------------------------------------------------------------
Handle == HandleApplication \/ HandleDisconnect \/ HandleQuiet \/ HandleMalformed

Sweep(e) ==
  \/ SweepTimeout(e)
  \/ \E s \in SocketStates : SweepChange(e, s)
  \/ SweepKeep(e)

Next ==
  \/ Host
  \/ Process
  \/ \E e \in Endpoints, kind \in Kinds :
       ReceiveKnown(e, kind) \/ ReceiveNew(e, kind)
  \/ Handle
  \/ EraseVoluntary
  \/ SocketError
  \/ WouldBlock
  \/ HeartbeatsFail
  \/ \E e \in Endpoints : Sweep(e)
  \/ SweepEnd
  \/ \E id \in Ids : AppSend(id)
  \/ AppBroadcast
  \/ Tick

Spec == Init /\ [][Next]_vars

\* The owner keeps calling process(), its code keeps running, and the clock
\* ticks.  WouldBlock is strongly fair: however many datagrams arrive, the
\* socket's queue is empty again and again, that is, datagrams are handled
\* faster than they come.
Fairness ==
  /\ WF_vars(Process)
  /\ WF_vars(Handle \/ EraseVoluntary)
  /\ SF_vars(WouldBlock)
  /\ \A e \in Endpoints : WF_vars(Sweep(e))
  /\ WF_vars(SweepEnd)
  /\ WF_vars(Tick)

FairSpec == Spec /\ Fairness

-------------------------------------------------------------------------------
(* What makes the server correct *)

\* Entries whose on_disconnect has been called and which await their erase.
Leaving == expired \cup (IF pc = "Erasing" THEN {packet.from} ELSE {})

\* As long as nothing throws, what the callbacks have told the application is
\* exactly the table: the clients that are in it, each in its state (the table
\* is changed and the callbacks are called in six different places).
ViewMatchesTable ==
  ~Throws =>
    \A e \in Endpoints :
      view[e] = IF e \in Members \ Leaving THEN clients[e].state ELSE "Absent"

\* Even when callbacks throw and process() unwinds half way, a client the
\* application believes in is in the table, in the state it was told last: no
\* session is left open without the server knowing (lines 160-162, 86-92).
NoPhantom ==
  \A e \in Endpoints :
    view[e] # "Absent" => e \in Members /\ view[e] = clients[e].state

\* The timeout loop judges each client by a time read once before the loop;
\* nobody it has dropped or put to sleep was in truth heard from recently.
VerdictsAreSound ==
  pc = "Sweeping" =>
    \A e \in Members \ DOMAIN sweep :
      IF e \in expired
      THEN clients[e].silence > DisconnectTimeout
      ELSE clients[e].state = "Dormant" => clients[e].silence > HeartbeatTimeout

\* ids are clients_.size() + 1 (line 156), so they tell clients apart as long as
\* nobody has ever left the table.
IdsDistinctUntilDeparture ==
  ~departed =>
    \A d, e \in Members : clients[d].id = clients[e].id => d = e

\* server.hpp:44 says of send(id): "send application message to a client".
SendReachesOneClient ==
  [][\A id \in Ids : AppSend(id) => Cardinality(sent') <= 1]_vars

\* The server keeps the callback contract of module Membership.
Contract == INSTANCE Membership
KeepsContract == Contract!MemberSpec

Hearing(e) == pc = "Handling" /\ packet.from = e

\* A client that is never heard from again leaves the table in the end, though
\* other clients keep the receive loop busy.
SilentLeaves ==
  \A e \in Endpoints : <>[]~Hearing(e) => <>[](e \notin Members)

\* Once the server is hosted, every process() call returns.
HostedProcessReturns == (hosted /\ pc # "Idle") ~> (pc = "Idle")

===============================================================================
