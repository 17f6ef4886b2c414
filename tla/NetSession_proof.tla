--------------------------- MODULE NetSession_proof ---------------------------
(***************************************************************************)
(* What a server may believe of a client it is joined to by any UDP: the   *)
(* goodbye is the last the client says.  And what both may conclude from   *)
(* silence when the link and their owners keep up with the clock.          *)
(***************************************************************************)
EXTENDS NetSession, TLAPS

\* The client's main thread, and how far a disconnect() of it has come.
Mains ==
  /\ pc \in [C!Threads -> C!PCs]
  /\ after \in {"Idle", "Deciding", "Beating"}
  /\ pc["main"] = "Parting" => socket = "Closed"

\* A goodbye is on its way, in the server's hands, or told to its application.
Said ==
  \/ "Disconnect" \in toServer
  \/ packet.kind = "Disconnect"
  \/ server_event.what = "Voluntary"

IInv == Mains /\ (Said => ~Open)

-------------------------------------------------------------------------------
LEMMA InitIInv == Init => IInv
<1> SUFFICES ASSUME Init PROVE IInv
  OBVIOUS
<1>1. Mains
  BY DEF Init, C!Init, Mains, C!Threads, C!PCs
<1>2. ~Said
  BY DEF Init, S!Init, S!NoPacket, S!NoEvent, Said
<1> QED BY <1>1, <1>2 DEF IInv

\* What the client's actions have in common: the main thread keeps its place or goes
\* to another, and a client that has left does not come back.
LEMMA ClientStep ==
  ASSUME Mains,
         \/ C!Process \/ C!WouldBlock \/ C!Work \/ C!Goodbye("main")
         \/ C!Connect \/ C!Disconnect("main")
         \/ \E kind \in C!Kinds : C!Receive(kind)
  PROVE  /\ Mains'
         /\ ~Open => ~Open'
         /\ "Disconnect" \in client_sent' => ~Open'
<1> USE DEF C!At, C!Goto, C!Throw, C!Tell, C!Quiet, C!Resume, C!IsOpen, C!Hears,
            C!stateVars, C!clockVars, C!passVars
<1>t. "main" \in C!Threads
  BY DEF C!Threads
<1>1. CASE C!Process \/ C!WouldBlock \/ C!Connect \/ C!Disconnect("main")
  BY <1>1, <1>t DEF Mains, Open, C!PCs, C!Process, C!WouldBlock, C!Connect, C!Disconnect
<1>2. CASE C!Work
  <2>1. CASE C!ReceiveOnClosed \/ C!Judge \/ C!KeepOn \/ C!NoBeat \/ C!Expire
    BY <1>t, <2>1 DEF Mains, Open, C!PCs, C!ReceiveOnClosed, C!Judge, C!KeepOn, C!NoBeat,
       C!Expire
  <2>2. CASE C!Decide
    BY <1>t, <2>2 DEF Mains, Open, C!PCs, C!Decide
  <2>3. CASE C!Beat
    BY <1>t, <2>3 DEF Mains, Open, C!PCs, C!Beat
  <2> QED BY <1>2, <2>1, <2>2, <2>3 DEF C!Work
<1>3. CASE C!Goodbye("main")
  <2>1. CASE C!SendGoodbye("main")
    BY <1>t, <2>1 DEF Mains, Open, C!PCs, C!SendGoodbye
  <2>2. CASE C!CloseSocket("main")
    BY <1>t, <2>2 DEF Mains, Open, C!PCs, C!CloseSocket
  <2>3. CASE C!Part("main")
    BY <1>t, <2>3 DEF Mains, Open, C!PCs, C!Part
  <2> QED BY <1>3, <2>1, <2>2, <2>3 DEF C!Goodbye
<1>4. CASE \E kind \in C!Kinds : C!Receive(kind)
  BY <1>4, <1>t DEF Mains, Open, C!PCs, C!Receive
<1> QED BY <1>1, <1>2, <1>3, <1>4

\* The server tells of a voluntary departure when it has read a goodbye only.
LEMMA ServerStep ==
  ASSUME \/ S!Process \/ S!Handle \/ S!EraseVoluntary \/ S!WouldBlock \/ S!SweepEnd
         \/ S!Sweep(Client) \/ S!Host
  PROVE  /\ packet'.kind = "Disconnect" => packet.kind = "Disconnect"
         /\ server_event'.what = "Voluntary" => packet.kind = "Disconnect"
<1> USE DEF S!Silence, S!NoEvent, S!NoPacket, S!Deliver, S!NextDatagram, S!Leave, S!Unwind
<1>1. CASE S!Process \/ S!EraseVoluntary \/ S!WouldBlock \/ S!SweepEnd \/ S!Host
  BY <1>1 DEF S!Process, S!EraseVoluntary, S!WouldBlock, S!SweepEnd, S!Host
<1>2. CASE S!Handle
  BY <1>2 DEF S!Handle, S!Handling, S!HandleApplication, S!HandleDisconnect, S!HandleQuiet,
     S!HandleMalformed
<1>3. CASE S!Sweep(Client)
  BY <1>3 DEF S!Sweep, S!SweepTimeout, S!SweepChange, S!SweepKeep, S!Visited
<1> QED BY <1>1, <1>2, <1>3

LEMMA IInvStep == IInv /\ [Next]_vars => IInv'
<1> SUFFICES ASSUME IInv, [Next]_vars PROVE IInv'
  OBVIOUS
<1> USE DEF IInv, Said
<1>1. CASE ServerRuns
  <2>1. UNCHANGED <<pc, after, socket, toServer>>
    BY <1>1 DEF ServerRuns, clientVars
  <2>2. Mains' /\ Open' = Open
    BY <2>1 DEF Mains, Open
  <2> QED BY <1>1, <2>1, <2>2, ServerStep DEF ServerRuns
<1>2. ASSUME NEW kind \in S!Kinds, ServerReads(kind)
      PROVE  IInv'
  <2>1. UNCHANGED <<pc, after, socket>> /\ toServer' \subseteq toServer /\ kind \in toServer
    BY <1>2 DEF ServerReads, clientVars
  <2>2. Mains' /\ Open' = Open
    BY <2>1 DEF Mains, Open
  <2>3. /\ packet'.kind = "Disconnect" => kind = "Disconnect"
        /\ server_event'.what # "Voluntary"
    BY <1>2 DEF ServerReads, S!ReceiveKnown, S!ReceiveNew, S!Silence, S!NoEvent, S!Deliver,
       S!Unwind
  <2> QED BY <2>1, <2>2, <2>3
<1>3. CASE ClientProcess \/ ClientRuns \/ ClientCalls
  <2>1. /\ toServer' = toServer \cup client_sent' /\ UNCHANGED <<packet, server_event>>
        /\ \/ C!Process \/ C!WouldBlock \/ C!Work \/ C!Goodbye("main")
           \/ C!Connect \/ C!Disconnect("main")
    BY <1>3 DEF ClientProcess, ClientRuns, ClientCalls, ClientDoes, serverVars
  <2> QED BY <2>1, ClientStep
<1>4. ASSUME NEW kind \in C!Kinds, ClientReads(kind)
      PROVE  IInv'
  BY <1>4, ClientStep DEF ClientReads, serverVars
<1>5. CASE LoseToServer \/ LoseToClient
  BY <1>5 DEF LoseToServer, LoseToClient, serverVars, clientVars, Mains, Open
<1>6. CASE Tick
  BY <1>6 DEF Tick, S!Tick, S!historyVars, C!Tick, C!stateVars, Mains, Open
<1>7. CASE UNCHANGED vars
  BY <1>7 DEF vars, serverVars, clientVars, linkVars, Mains, Open
<1> QED BY <1>1, <1>2, <1>3, <1>4, <1>5, <1>6, <1>7 DEF Next

-------------------------------------------------------------------------------
\* However datagrams are lost, doubled and reordered, and whatever the intervals and
\* timeouts are, a voluntary on_disconnect is told of a client that has called
\* disconnect() only (server.cpp:174-179, client.cpp:160-172).
THEOREM VoluntaryCorrect == Spec => []VoluntaryMeansLeft
<1>1. Spec => []IInv
  BY InitIInv, IInvStep, PTL DEF Spec
<1>2. IInv => VoluntaryMeansLeft
  BY DEF IInv, Said, VoluntaryMeansLeft
<1> QED BY <1>1, <1>2, PTL

-------------------------------------------------------------------------------
(* The timely link                                                         *)

\* The link and the durations for which HealthyLinkIsQuiet is claimed.
Punctual ==
  /\ Timely /\ ~Lossy
  /\ HeartbeatInterval + 2 <= HeartbeatTimeout
  /\ HeartbeatInterval + 2 <= DropTimeout

Member == Client \in DOMAIN clients
Quiet  == clients[Client].silence
Past   == pc["main"] \in {"Judging", "Expiring", "Beating"}

Clocks ==
  /\ sinceHeartbeat \in 0 .. HeartbeatInterval + 1
  /\ sinceSent \in 0 .. HeartbeatInterval + 1
  /\ sentAge \in 0 .. HeartbeatInterval + 1
  /\ sinceNow \in 0 .. HeartbeatInterval + 1
  /\ sinceHeard \in Nat
  /\ Member => Quiet \in Nat

Places ==
  /\ throws = FALSE
  /\ turns \subseteq Parties
  /\ pc \in [C!Threads -> C!PCs]
  /\ server_pc \in S!PCs
  /\ DOMAIN clients \subseteq {Client} /\ DOMAIN sweep \subseteq {Client}
  /\ Member => {"silence", "agent", "state"} \subseteq DOMAIN clients[Client]
  /\ DOMAIN view = {Client}
  /\ server_pc = "Handling" => packet.from = Client

\* Before connect() nothing is said, and the server knows nobody.
Before ==
  /\ asked => hosted
  /\ ~asked =>
       /\ toServer = {}
       /\ ~Member
       /\ pc["main"] \in {"Idle", "Receiving"}
       /\ socket = "Blocking"
       /\ server_pc \notin {"Handling", "Erasing"}
       /\ view[Client] = "Absent"

\* While the client is open it gets connected, and its server knows it or is about to.
Going ==
  /\ Open /\ pc["main"] # "Idle" => handshake
  /\ asked /\ Open =>
       /\ conn \in {"Connecting", "Connected"}
       /\ Past => conn = "Connected"
       /\ server_pc # "Erasing"
       /\ ~Member => "SetAgent" \in toServer /\ sinceHeard = 0 /\ server_pc # "Handling"

\* What process() of the client has read of the clock is of this tick or the last.
ReadsClock ==
  Open /\ Past =>
    /\ sinceNow \in {0, 1}
    /\ "client" \in turns => sinceNow = 0
    /\ sinceSent = IF sinceNow = 0 THEN sentAge ELSE C!Older(sentAge, HeartbeatInterval + 1)

\* Nothing of the client is on its way or in the server's hands.
Answered == toServer = {} /\ server_pc # "Handling"

ServerHears ==
  asked /\ Open /\ Member =>
    /\ server_pc # "Handling" => Quiet <= HeartbeatInterval + 2
    /\ Answered =>
         \/ Quiet <= sinceSent
         \/ /\ sinceSent = HeartbeatInterval + 1
            /\ Quiet = HeartbeatInterval + 2 =>
                 /\ "client" \notin turns
                 /\ Past => sentAge = HeartbeatInterval + 1

ClientHears ==
  /\ "server" \in turns /\ server_pc = "Sweeping" => sinceHeartbeat <= HeartbeatInterval
  /\ asked /\ Open =>
       /\ sinceHeard <= HeartbeatInterval + 2
       /\ toClient = {} =>
            \/ sinceHeard <= sinceHeartbeat
            \/ /\ sinceHeartbeat = HeartbeatInterval + 1
               /\ sinceHeard = HeartbeatInterval + 2 =>
                    "server" \notin turns /\ server_pc # "Sweeping"

\* What the two conclude from it.
Verdicts ==
  Open =>
    /\ Client \in DOMAIN sweep => Member /\ sweep[Client] <= HeartbeatInterval + 2
    /\ Client \in DOMAIN sweep => sweep[Client] \in Nat
    /\ expired = {}
    /\ Member => clients[Client].state = "Aroused"
    /\ Past => heardAge <= HeartbeatInterval + 2 /\ heardAge \in Nat
    /\ HealthyLinkIsQuiet

Healthy ==
  Clocks /\ Places /\ Before /\ Going /\ ReadsClock /\ ServerHears /\ ClientHears /\ Verdicts

TInv == IInv /\ Healthy

\* What a step of the server, and one of the client, does to the link.
ServerFrame ==
  /\ toClient' = toClient \cup {d.kind : d \in server_sent'}
  /\ TakeTurn("server", server_pc # "Idle" /\ server_pc' = "Idle")
  /\ UNCHANGED <<toServer, clientVars>>

ClientFrame ==
  /\ toServer' = toServer \cup client_sent'
  /\ TakeTurn("client", /\ pc["main"] # "Idle" /\ pc'["main"] = "Idle"
                        /\ pc["main"] \in {"Leaving", "Parting"} => after # "Idle")
  /\ UNCHANGED <<toClient, serverVars>>

LEMMA InitTInv == Init => TInv
<1> SUFFICES ASSUME Init PROVE TInv
  OBVIOUS
<1> USE DEF Init, S!Init, C!Init, Member, S!NoEntries
<1>1. IInv
  BY InitIInv
<1>2. Clocks /\ Places
  BY DurationsAssumption DEF Clocks, Places, Parties, C!Threads, C!PCs, S!PCs, S!NoPacket
<1>3. Before /\ Going
  BY DEF Before, Going, Past, C!Threads
<1>4. ReadsClock /\ ServerHears /\ ClientHears
  BY DEF ReadsClock, ServerHears, ClientHears, Past, C!Threads
<1>5. Verdicts
  BY DEF Verdicts, Past, C!Threads, HealthyLinkIsQuiet, S!NoEvent
<1> QED
  BY <1>1, <1>2, <1>3, <1>4, <1>5 DEF TInv, Healthy

-------------------------------------------------------------------------------
(* The steps of the server *)

LEMMA ServerBegins ==
  ASSUME TInv, Punctual, ServerFrame, S!Process \/ (S!Host /\ ~hosted)
  PROVE  Healthy'
<1> USE DurationsAssumption DEF TInv, Healthy, Punctual, TakeTurn, Member, Quiet, Past,
    Open, ServerFrame, clientVars, S!Silence, S!NothingSent, S!tableVars, S!Members,
    S!NoEvent, S!NoPacket, S!Process, S!Host
<1>1. Clocks' /\ Places'
  BY DEF Clocks, Places, Parties, S!PCs, C!PCs, IInv, Mains
<1>2. Before' /\ Going'
  BY DEF Before, Going, Places, Clocks, IInv, Mains, Said
<1>3. ReadsClock' /\ ServerHears'
  BY DEF ReadsClock, ServerHears, Answered, Places, Clocks, Going, Verdicts, Before,
     S!Older, C!Older
<1>4. ClientHears'
  BY DEF ClientHears, Places, Clocks, Going, Before
<1>5. Verdicts'
  BY DEF Verdicts, Places, Clocks, Going, ServerHears, ClientHears, HealthyLinkIsQuiet,
     Before, IInv, Said
<1> QED BY <1>1, <1>2, <1>3, <1>4, <1>5 DEF Healthy

LEMMA ServerHandles ==
  ASSUME TInv, Punctual, ServerFrame,
         S!HandleApplication \/ S!HandleQuiet \/ S!HandleDisconnect
  PROVE  Healthy'
<1> USE DurationsAssumption DEF TInv, Healthy, Punctual, TakeTurn, Member, Quiet, Past,
    Open, ServerFrame, clientVars, S!Silence, S!NothingSent, S!tableVars, S!Members,
    S!NoEvent, S!NoPacket, S!HandleApplication, S!HandleDisconnect, S!HandleQuiet,
    S!Handling, S!Refresh, S!NextDatagram, S!Unwind, S!Deliver
<1>1. Clocks' /\ Places'
  BY DEF Clocks, Places, Parties, S!PCs, C!PCs, IInv, Mains
<1>2. Before' /\ Going'
  BY DEF Before, Going, Places, Clocks, IInv, Mains, Said
<1>3. ReadsClock' /\ ServerHears'
  BY DEF ReadsClock, ServerHears, Answered, Places, Clocks, Going, Verdicts, Before,
     S!Older, C!Older
<1>4. ClientHears'
  BY DEF ClientHears, Places, Clocks, Going, Before
<1>5. Verdicts'
  BY DEF Verdicts, Places, Clocks, Going, ServerHears, ClientHears, HealthyLinkIsQuiet,
     Before, IInv, Said
<1> QED BY <1>1, <1>2, <1>3, <1>4, <1>5 DEF Healthy

LEMMA ServerErases ==
  ASSUME TInv, Punctual, ServerFrame, S!EraseVoluntary
  PROVE  Healthy'
<1> USE DurationsAssumption DEF TInv, Healthy, Punctual, TakeTurn, Member, Quiet, Past,
    Open, ServerFrame, clientVars, S!Silence, S!NothingSent, S!tableVars, S!Members,
    S!NoEvent, S!NoPacket
<1>a. /\ server_pc = "Erasing" /\ server_pc' = "Receiving"
      /\ server_event' = [what |-> "Nothing"] /\ packet'.kind = "None"
      /\ UNCHANGED <<view, hosted, sinceHeartbeat, toClient, sweep, expired>>
  BY DEF S!EraseVoluntary, S!NextDatagram
<1>b. /\ DOMAIN clients' \subseteq DOMAIN clients
      /\ Member' => clients'[Client] = clients[Client]
  BY DEF S!EraseVoluntary, S!Erase, S!Restrict
<1>c. asked /\ ~Open
  BY <1>a DEF Before, Going
<1>1. Clocks' /\ Places'
  BY <1>a, <1>b, <1>c DEF Clocks, Places, Parties, S!PCs, C!PCs, IInv, Mains
<1>2. Before' /\ Going'
  BY <1>a, <1>b, <1>c DEF Before, Going, Places, Clocks, IInv, Mains, Said
<1>3. ReadsClock' /\ ServerHears'
  BY <1>a, <1>b, <1>c DEF ReadsClock, ServerHears, Answered, Places, Clocks, Going,
     Verdicts, Before, S!Older, C!Older
<1>4. ClientHears'
  BY <1>a, <1>b, <1>c DEF ClientHears, Places, Clocks, Going, Before
<1>5. Verdicts'
  BY <1>a, <1>b, <1>c DEF Verdicts, Places, Clocks, Going, ServerHears, ClientHears,
     HealthyLinkIsQuiet, Before, IInv, Said
<1> QED BY <1>1, <1>2, <1>3, <1>4, <1>5 DEF Healthy

\* If a heartbeat is due, the client has one on its way now.
LEMMA ServerBlocks ==
  ASSUME TInv, Punctual, ServerFrame, S!WouldBlock
  PROVE  Healthy'
<1> USE DurationsAssumption DEF TInv, Healthy, Punctual, TakeTurn, Member, Quiet, Past,
    Open, ServerFrame, clientVars, S!Silence, S!NothingSent, S!tableVars, S!Members,
    S!NoEvent, S!NoPacket
<1>a. /\ server_pc = "Receiving" /\ hosted /\ server_pc' = "Sweeping"
      /\ turns' = turns /\ server_event' = [what |-> "Nothing"]
      /\ UNCHANGED <<view, hosted, packet, expired, clients, departed>>
      /\ DOMAIN sweep' = DOMAIN clients /\ (Member => sweep'[Client] = Quiet)
      /\ sinceHeartbeat' = IF sinceHeartbeat > HeartbeatInterval THEN 0 ELSE sinceHeartbeat
  BY DEF S!WouldBlock, S!SendTo
<1>b. Member /\ sinceHeartbeat > HeartbeatInterval => toClient' # {}
  <2> SUFFICES ASSUME Member, sinceHeartbeat > HeartbeatInterval PROVE toClient' # {}
    OBVIOUS
  <2>1. [to |-> Client, kind |-> "Heartbeat"] \in server_sent'
    BY DEF S!WouldBlock, S!SendTo
  <2>2. "Heartbeat" \in toClient'
    BY <2>1
  <2> QED BY <2>2
<1>c. toClient = {} \/ toClient' # {}
  OBVIOUS
<1>1. Clocks' /\ Places'
  BY <1>a, <1>b, <1>c DEF Clocks, Places, Parties, S!PCs, C!PCs, IInv, Mains
<1>2. Before' /\ Going'
  BY <1>a, <1>b, <1>c DEF Before, Going, Places, Clocks, IInv, Mains, Said
<1>3. ReadsClock' /\ ServerHears'
  BY <1>a, <1>b, <1>c DEF ReadsClock, ServerHears, Answered, Places, Clocks, Going,
     Verdicts, Before, S!Older, C!Older
<1>4. ClientHears'
  BY <1>a, <1>b, <1>c DEF ClientHears, Places, Clocks, Going, Before
<1>5. Verdicts'
  BY <1>a, <1>b, <1>c DEF Verdicts, Places, Clocks, Going, ServerHears, ClientHears,
     HealthyLinkIsQuiet, Before, IInv, Said
<1> QED BY <1>1, <1>2, <1>3, <1>4, <1>5 DEF Healthy

LEMMA ServerKeeps ==
  ASSUME TInv, Punctual, ServerFrame, S!SweepKeep(Client)
  PROVE  Healthy'
<1> USE DurationsAssumption DEF TInv, Healthy, Punctual, TakeTurn, Member, Quiet, Past,
    Open, ServerFrame, clientVars, S!Silence, S!NothingSent, S!tableVars, S!Members,
    S!NoEvent, S!NoPacket, S!SweepKeep, S!Visiting, S!Visited, S!IsDormant, S!TimedOut,
    S!Restrict
<1>1. Clocks' /\ Places'
  BY DEF Clocks, Places, Parties, S!PCs, C!PCs, IInv, Mains
<1>2. Before' /\ Going'
  BY DEF Before, Going, Places, Clocks, IInv, Mains, Said
<1>3. ReadsClock' /\ ServerHears'
  BY DEF ReadsClock, ServerHears, Answered, Places, Clocks, Going, Verdicts, Before,
     S!Older, C!Older
<1>4. ClientHears'
  BY DEF ClientHears, Places, Clocks, Going, Before
<1>5. Verdicts'
  BY DEF Verdicts, Places, Clocks, Going, ServerHears, ClientHears, HealthyLinkIsQuiet,
     Before, IInv, Said
<1> QED BY <1>1, <1>2, <1>3, <1>4, <1>5 DEF Healthy

\* There is nothing to tell of a client that is open.
LEMMA ServerJudges ==
  ASSUME TInv, Punctual, ServerFrame,
         S!SweepTimeout(Client) \/ \E s \in S!SocketStates : S!SweepChange(Client, s)
  PROVE  Healthy'
<1> USE DurationsAssumption DEF TInv, Healthy, Punctual, TakeTurn, Member, Quiet, Past,
    Open, ServerFrame, clientVars, S!Silence, S!NothingSent, S!tableVars, S!Members,
    S!NoEvent, S!NoPacket, S!SweepTimeout, S!SweepChange, S!Visiting, S!Visited,
    S!IsDormant, S!TimedOut, S!Unwind, S!Deliver, S!Restrict, S!SocketStates
<1>a. asked /\ ~Open
  BY DEF Verdicts, Clocks, Before
<1>1. Clocks' /\ Places'
  BY <1>a DEF Clocks, Places, Parties, S!PCs, C!PCs, IInv, Mains
<1>2. Before' /\ Going'
  BY <1>a DEF Before, Going, Places, Clocks, IInv, Mains, Said
<1>3. ReadsClock' /\ ServerHears'
  BY <1>a DEF ReadsClock, ServerHears, Answered, Places, Clocks, Going, Verdicts, Before,
     S!Older, C!Older
<1>4. ClientHears'
  BY <1>a DEF ClientHears, Places, Clocks, Going, Before
<1>5. Verdicts'
  BY <1>a DEF Verdicts, Places, Clocks, Going, ServerHears, ClientHears, HealthyLinkIsQuiet,
     Before, IInv, Said
<1> QED BY <1>1, <1>2, <1>3, <1>4, <1>5 DEF Healthy

LEMMA ServerEnds ==
  ASSUME TInv, Punctual, ServerFrame, S!SweepEnd
  PROVE  Healthy'
<1> USE DurationsAssumption DEF TInv, Healthy, Punctual, TakeTurn, Member, Quiet, Past,
    Open, ServerFrame, clientVars, S!Silence, S!NothingSent, S!tableVars, S!Members,
    S!NoEvent, S!NoPacket
<1>a. /\ server_pc = "Sweeping" /\ server_pc' = "Idle"
      /\ server_event' = [what |-> "Nothing"] /\ DOMAIN sweep' = {} /\ expired' = {}
      /\ packet'.kind = "None"
      /\ UNCHANGED <<view, hosted, sinceHeartbeat, toClient>>
  BY DEF S!SweepEnd, S!Leave, S!NoEntries
<1>b. /\ DOMAIN clients' \subseteq DOMAIN clients
      /\ Member' => clients'[Client] = clients[Client]
      /\ Open => (Member' = Member)
  BY DEF S!SweepEnd, S!Erase, S!Restrict, Verdicts
<1>1. Clocks' /\ Places'
  BY <1>a, <1>b DEF Clocks, Places, Parties, S!PCs, C!PCs, IInv, Mains
<1>2. Before' /\ Going'
  BY <1>a, <1>b DEF Before, Going, Places, Clocks, IInv, Mains, Said
<1>3. ReadsClock' /\ ServerHears'
  BY <1>a, <1>b DEF ReadsClock, ServerHears, Answered, Places, Clocks, Going, Verdicts,
     Before, S!Older, C!Older
<1>4. ClientHears'
  BY <1>a, <1>b DEF ClientHears, Places, Clocks, Going, Before
<1>5. Verdicts'
  BY <1>a, <1>b DEF Verdicts, Places, Clocks, Going, ServerHears, ClientHears,
     HealthyLinkIsQuiet, Before, IInv, Said
<1> QED BY <1>1, <1>2, <1>3, <1>4, <1>5 DEF Healthy

LEMMA ServerReadsKnown ==
  ASSUME TInv, Punctual, NEW kind \in S!Kinds, kind \in toServer,
         toServer' = toServer \ {kind} \/ toServer' = toServer, S!ReceiveKnown(Client, kind),
         UNCHANGED <<toClient, turns, clientVars>>
  PROVE  Healthy'
<1> USE DurationsAssumption DEF TInv, Healthy, Punctual, TakeTurn, Member, Quiet, Past,
    Open, clientVars, S!Silence, S!NothingSent, S!tableVars, S!Members, S!NoEvent,
    S!NoPacket, S!ReceiveKnown
<1>1. Clocks' /\ Places'
  BY DEF Clocks, Places, Parties, S!PCs, C!PCs, IInv, Mains
<1>2. Before' /\ Going'
  BY DEF Before, Going, Places, Clocks, IInv, Mains, Said
<1>3. ReadsClock' /\ ServerHears'
  BY DEF ReadsClock, ServerHears, Answered, Places, Clocks, Going, Verdicts, Before,
     S!Older, C!Older
<1>4. ClientHears'
  BY DEF ClientHears, Places, Clocks, Going, Before
<1>5. Verdicts'
  BY DEF Verdicts, Places, Clocks, Going, ServerHears, ClientHears, HealthyLinkIsQuiet,
     Before, IInv, Said
<1> QED BY <1>1, <1>2, <1>3, <1>4, <1>5 DEF Healthy

LEMMA ServerReadsNew ==
  ASSUME TInv, Punctual, NEW kind \in S!Kinds, kind \in toServer,
         toServer' = toServer \ {kind} \/ toServer' = toServer, S!ReceiveNew(Client, kind),
         UNCHANGED <<toClient, turns, clientVars>>
  PROVE  Healthy'
<1> USE DurationsAssumption DEF TInv, Healthy, Punctual, TakeTurn, Member, Quiet, Past,
    Open, clientVars, S!Silence, S!NothingSent, S!tableVars, S!Members, S!NoEvent,
    S!NoPacket, S!ReceiveNew, S!Emplace, S!NewClient, S!Deliver, S!Unwind
<1>a. /\ Member' /\ DOMAIN clients' = {Client} /\ Quiet' = 0
      /\ DOMAIN clients'[Client] = {"id", "agent", "state", "silence"}
  BY DEF Places
<1>b. /\ DOMAIN view' = DOMAIN view /\ packet' = [from |-> Client, kind |-> kind]
      /\ server_pc' = "Handling"
      /\ UNCHANGED <<sinceHeartbeat, sweep>>
  OBVIOUS
<1>1. Clocks' /\ Places'
  BY <1>a, <1>b DEF Clocks, Places, Parties, S!PCs, C!PCs, IInv, Mains
<1>2. Before' /\ Going'
  BY <1>a, <1>b DEF Before, Going, Places, Clocks, IInv, Mains, Said
<1>3. ReadsClock' /\ ServerHears'
  BY <1>a, <1>b DEF ReadsClock, ServerHears, Answered, Places, Clocks, Going, Verdicts,
     Before, S!Older, C!Older
<1>4. ClientHears'
  BY <1>a, <1>b DEF ClientHears, Places, Clocks, Going, Before
<1>5. Verdicts'
  BY <1>a, <1>b DEF Verdicts, Places, Clocks, Going, ServerHears, ClientHears,
     HealthyLinkIsQuiet, Before, IInv, Said
<1> QED BY <1>1, <1>2, <1>3, <1>4, <1>5 DEF Healthy

-------------------------------------------------------------------------------
(* The steps of the client *)

LEMMA ClientGoesOn ==
  ASSUME TInv, Punctual, ClientFrame,
         C!Process \/ C!WouldBlock \/ C!ReceiveOnClosed \/ C!Judge \/ C!KeepOn
  PROVE  Healthy'
<1> USE DurationsAssumption DEF TInv, Healthy, Punctual, TakeTurn, Member, Quiet, Past,
    Open, ClientFrame, serverVars, C!At, C!Goto, C!Throw, C!Tell, C!Quiet, C!Resume,
    C!IsOpen, C!stateVars, C!clockVars, C!passVars, C!Process, C!WouldBlock,
    C!ReceiveOnClosed, C!Judge, C!KeepOn
<1>t. "main" \in C!Threads
  BY DEF C!Threads
<1>1. Clocks' /\ Places'
  BY <1>t DEF Clocks, Places, Parties, S!PCs, C!PCs, IInv, Mains
<1>2. Before' /\ Going'
  BY <1>t DEF Before, Going, Places, Clocks, IInv, Mains, Said
<1>3. ReadsClock' /\ ServerHears'
  BY <1>t DEF ReadsClock, ServerHears, Answered, Places, Clocks, Going, Verdicts, Before,
     S!Older, C!Older
<1>4. ClientHears'
  BY <1>t DEF ClientHears, Places, Clocks, Going, Before
<1>5. Verdicts'
  BY <1>t DEF Verdicts, Places, Clocks, Going, ServerHears, ClientHears, HealthyLinkIsQuiet,
     Before, IInv, Said
<1> QED BY <1>1, <1>2, <1>3, <1>4, <1>5 DEF Healthy

LEMMA ClientDecides ==
  ASSUME TInv, Punctual, ClientFrame, C!Decide
  PROVE  Healthy'
<1> USE DurationsAssumption DEF TInv, Healthy, Punctual, TakeTurn, Member, Quiet, Past,
    Open, ClientFrame, serverVars, C!At, C!Goto, C!Throw, C!Tell, C!Quiet, C!Resume,
    C!IsOpen, C!stateVars, C!clockVars, C!passVars, C!Decide
<1>t. "main" \in C!Threads
  BY DEF C!Threads
<1>1. Clocks' /\ Places'
  BY <1>t DEF Clocks, Places, Parties, S!PCs, C!PCs, IInv, Mains
<1>2. Before' /\ Going'
  BY <1>t DEF Before, Going, Places, Clocks, IInv, Mains, Said
<1>3. ReadsClock' /\ ServerHears'
  BY <1>t DEF ReadsClock, ServerHears, Answered, Places, Clocks, Going, Verdicts, Before,
     S!Older, C!Older
<1>4. ClientHears'
  BY <1>t DEF ClientHears, Places, Clocks, Going, Before
<1>5. Verdicts'
  BY <1>t DEF Verdicts, Places, Clocks, Going, ServerHears, ClientHears, HealthyLinkIsQuiet,
     Before, IInv, Said
<1> QED BY <1>1, <1>2, <1>3, <1>4, <1>5 DEF Healthy

LEMMA ClientExpires ==
  ASSUME TInv, Punctual, ClientFrame, C!Expire
  PROVE  Healthy'
<1> USE DurationsAssumption DEF TInv, Healthy, Punctual, TakeTurn, Member, Quiet, Past,
    Open, ClientFrame, serverVars, C!At, C!Goto, C!Throw, C!Tell, C!Quiet, C!Resume,
    C!IsOpen, C!stateVars, C!clockVars, C!passVars, C!Expire
<1>t. "main" \in C!Threads
  BY DEF C!Threads
<1>1. Clocks' /\ Places'
  BY <1>t DEF Clocks, Places, Parties, S!PCs, C!PCs, IInv, Mains
<1>2. Before' /\ Going'
  BY <1>t DEF Before, Going, Places, Clocks, IInv, Mains, Said
<1>3. ReadsClock' /\ ServerHears'
  BY <1>t DEF ReadsClock, ServerHears, Answered, Places, Clocks, Going, Verdicts, Before,
     S!Older, C!Older
<1>4. ClientHears'
  BY <1>t DEF ClientHears, Places, Clocks, Going, Before
<1>5. Verdicts'
  BY <1>t DEF Verdicts, Places, Clocks, Going, ServerHears, ClientHears, HealthyLinkIsQuiet,
     Before, IInv, Said
<1> QED BY <1>1, <1>2, <1>3, <1>4, <1>5 DEF Healthy

LEMMA ClientMayBeat ==
  ASSUME TInv, Punctual, ClientFrame, C!Beat \/ C!NoBeat
  PROVE  Healthy'
<1> USE DurationsAssumption DEF TInv, Healthy, Punctual, TakeTurn, Member, Quiet, Past,
    Open, ClientFrame, serverVars, C!At, C!Goto, C!Throw, C!Tell, C!Quiet, C!Resume,
    C!IsOpen, C!stateVars, C!clockVars, C!passVars, C!Beat, C!NoBeat
<1>t. "main" \in C!Threads
  BY DEF C!Threads
<1>1. Clocks' /\ Places'
  BY <1>t DEF Clocks, Places, Parties, S!PCs, C!PCs, IInv, Mains
<1>2. Before' /\ Going'
  BY <1>t DEF Before, Going, Places, Clocks, IInv, Mains, Said
<1>3. ReadsClock' /\ ServerHears'
  BY <1>t DEF ReadsClock, ServerHears, Answered, Places, Clocks, Going, Verdicts, Before,
     S!Older, C!Older
<1>4. ClientHears'
  BY <1>t DEF ClientHears, Places, Clocks, Going, Before
<1>5. Verdicts'
  BY <1>t DEF Verdicts, Places, Clocks, Going, ServerHears, ClientHears, HealthyLinkIsQuiet,
     Before, IInv, Said
<1> QED BY <1>1, <1>2, <1>3, <1>4, <1>5 DEF Healthy

LEMMA ClientLeaves ==
  ASSUME TInv, Punctual, ClientFrame,
         C!Disconnect("main") \/ C!SendGoodbye("main") \/ C!CloseSocket("main")
  PROVE  Healthy'
<1> USE DurationsAssumption DEF TInv, Healthy, Punctual, TakeTurn, Member, Quiet, Past,
    Open, ClientFrame, serverVars, C!At, C!Goto, C!Throw, C!Tell, C!Quiet, C!Resume,
    C!IsOpen, C!stateVars, C!clockVars, C!passVars, C!Disconnect, C!SendGoodbye,
    C!CloseSocket
<1>t. "main" \in C!Threads
  BY DEF C!Threads
<1>1. Clocks' /\ Places'
  BY <1>t DEF Clocks, Places, Parties, S!PCs, C!PCs, IInv, Mains
<1>2. Before' /\ Going'
  BY <1>t DEF Before, Going, Places, Clocks, IInv, Mains, Said
<1>3. ReadsClock' /\ ServerHears'
  BY <1>t DEF ReadsClock, ServerHears, Answered, Places, Clocks, Going, Verdicts, Before,
     S!Older, C!Older
<1>4. ClientHears'
  BY <1>t DEF ClientHears, Places, Clocks, Going, Before
<1>5. Verdicts'
  BY <1>t DEF Verdicts, Places, Clocks, Going, ServerHears, ClientHears, HealthyLinkIsQuiet,
     Before, IInv, Said
<1> QED BY <1>1, <1>2, <1>3, <1>4, <1>5 DEF Healthy

LEMMA ClientParts ==
  ASSUME TInv, Punctual, ClientFrame, C!Part("main")
  PROVE  Healthy'
<1> USE DurationsAssumption DEF TInv, Healthy, Punctual, TakeTurn, Member, Quiet, Past,
    Open, ClientFrame, serverVars, C!At, C!Goto, C!Throw, C!Tell, C!Quiet, C!Resume,
    C!IsOpen, C!stateVars, C!clockVars, C!passVars, C!Part
<1>t. "main" \in C!Threads
  BY DEF C!Threads
<1>a. ~Open /\ ~Open' /\ asked
  BY <1>t DEF IInv, Mains, Before
<1>b. UNCHANGED <<throws, asked, sinceSent, sentAge, sinceNow, sinceHeard>>
  OBVIOUS
<1>1. Clocks' /\ Places'
  BY <1>t, <1>a, <1>b DEF Clocks, Places, Parties, S!PCs, C!PCs, IInv, Mains
<1>2. Before' /\ Going'
  BY <1>t, <1>a, <1>b DEF Before, Going, Places, Clocks, IInv, Mains, Said
<1>3. ReadsClock' /\ ServerHears'
  BY <1>t, <1>a, <1>b DEF ReadsClock, ServerHears, Answered, Places, Clocks, Going,
     Verdicts, Before, S!Older, C!Older
<1>4. ClientHears'
  BY <1>t, <1>a, <1>b DEF ClientHears, Places, Clocks, Going, Before
<1>5. Verdicts'
  BY <1>t, <1>a, <1>b DEF Verdicts, Places, Clocks, Going, ServerHears, ClientHears,
     HealthyLinkIsQuiet, Before, IInv, Said
<1> QED BY <1>1, <1>2, <1>3, <1>4, <1>5 DEF Healthy

LEMMA ClientConnects ==
  ASSUME TInv, Punctual, ClientFrame, C!Connect /\ hosted
  PROVE  Healthy'
<1> USE DurationsAssumption DEF TInv, Healthy, Punctual, TakeTurn, Member, Quiet, Past,
    Open, ClientFrame, serverVars, C!At, C!Goto, C!Throw, C!Tell, C!Quiet, C!Resume,
    C!IsOpen, C!stateVars, C!clockVars, C!passVars, C!Connect
<1>t. "main" \in C!Threads
  BY DEF C!Threads
<1>1. Clocks' /\ Places'
  BY <1>t DEF Clocks, Places, Parties, S!PCs, C!PCs, IInv, Mains
<1>2. Before' /\ Going'
  BY <1>t DEF Before, Going, Places, Clocks, IInv, Mains, Said
<1>3. ReadsClock' /\ ServerHears'
  BY <1>t DEF ReadsClock, ServerHears, Answered, Places, Clocks, Going, Verdicts, Before,
     S!Older, C!Older
<1>4. ClientHears'
  BY <1>t DEF ClientHears, Places, Clocks, Going, Before
<1>5. Verdicts'
  BY <1>t DEF Verdicts, Places, Clocks, Going, ServerHears, ClientHears, HealthyLinkIsQuiet,
     Before, IInv, Said
<1> QED BY <1>1, <1>2, <1>3, <1>4, <1>5 DEF Healthy

LEMMA ClientHearsIt ==
  ASSUME TInv, Punctual, NEW kind \in C!Kinds, kind \in toClient, C!Receive(kind),
         toClient' = toClient \ {kind} \/ toClient' = toClient,
         UNCHANGED <<toServer, turns, serverVars>>
  PROVE  Healthy'
<1> USE DurationsAssumption DEF TInv, Healthy, Punctual, TakeTurn, Member, Quiet, Past,
    Open, serverVars, C!At, C!Goto, C!Throw, C!Tell, C!Quiet, C!Resume, C!IsOpen,
    C!stateVars, C!clockVars, C!passVars, C!Hears, C!Receive
<1>t. "main" \in C!Threads
  BY DEF C!Threads
<1>1. Clocks' /\ Places'
  BY <1>t DEF Clocks, Places, Parties, S!PCs, C!PCs, IInv, Mains
<1>2. Before' /\ Going'
  BY <1>t DEF Before, Going, Places, Clocks, IInv, Mains, Said
<1>3. ReadsClock' /\ ServerHears'
  BY <1>t DEF ReadsClock, ServerHears, Answered, Places, Clocks, Going, Verdicts, Before,
     S!Older, C!Older
<1>4. ClientHears'
  BY <1>t DEF ClientHears, Places, Clocks, Going, Before
<1>5. Verdicts'
  BY <1>t DEF Verdicts, Places, Clocks, Going, ServerHears, ClientHears, HealthyLinkIsQuiet,
     Before, IInv, Said
<1> QED BY <1>1, <1>2, <1>3, <1>4, <1>5 DEF Healthy

-------------------------------------------------------------------------------
(* The steps of the link and the clock *)

LEMMA NothingIsLost ==
  ASSUME TInv, Punctual, LoseToServer \/ LoseToClient \/ UNCHANGED vars
  PROVE  Healthy'
<1> USE DurationsAssumption DEF TInv, Healthy, Punctual, TakeTurn, Member, Quiet, Past,
    Open, vars, linkVars, clientVars, serverVars, LoseToServer, LoseToClient
<1>1. Clocks' /\ Places'
  BY DEF Clocks, Places, Parties, S!PCs, C!PCs, IInv, Mains
<1>2. Before' /\ Going'
  BY DEF Before, Going, Places, Clocks, IInv, Mains, Said
<1>3. ReadsClock' /\ ServerHears'
  BY DEF ReadsClock, ServerHears, Answered, Places, Clocks, Going, Verdicts, Before,
     S!Older, C!Older
<1>4. ClientHears'
  BY DEF ClientHears, Places, Clocks, Going, Before
<1>5. Verdicts'
  BY DEF Verdicts, Places, Clocks, Going, ServerHears, ClientHears, HealthyLinkIsQuiet,
     Before, IInv, Said
<1> QED BY <1>1, <1>2, <1>3, <1>4, <1>5 DEF Healthy

\* A tick finds the link empty and both parties with a pass done.
LEMMA TimePasses ==
  ASSUME TInv, Punctual, Tick
  PROVE  Healthy'
<1> USE DurationsAssumption DEF TInv, Healthy, Punctual, TakeTurn, Member, Quiet, Past,
    Open, Tick, S!Tick, S!historyVars, S!NothingSent, S!Members, C!Tick, C!stateVars,
    C!Quiet
<1>a. /\ S!MaxSilence \in Nat /\ HeartbeatInterval + 3 <= S!MaxSilence
      /\ C!MaxSilence \in Nat /\ HeartbeatInterval + 3 <= C!MaxSilence
      /\ C!MaxQuiet = HeartbeatInterval + 1
  BY DEF S!MaxSilence, C!MaxSilence, C!MaxQuiet
<1>b. /\ Member' = Member /\ DOMAIN clients' = DOMAIN clients
      /\ Member => /\ Quiet' = S!Older(Quiet, S!MaxSilence)
                   /\ DOMAIN clients'[Client] = DOMAIN clients[Client]
                   /\ clients'[Client].state = clients[Client].state
  BY DEF Places
<1>c. /\ sinceHeartbeat' = S!Older(sinceHeartbeat, HeartbeatInterval + 1)
      /\ sinceHeard' = C!Older(sinceHeard, C!MaxSilence)
      /\ sinceSent' = C!Older(sinceSent, C!MaxQuiet)
      /\ sinceNow' = C!Older(sinceNow, C!MaxQuiet)
      /\ turns' = {} /\ event' = "Nothing"
      /\ UNCHANGED <<throws, hosted, asked, pc, server_pc, sweep, packet, view,
                     server_event, socket, handshake, conn, serverState, sentAge, heardAge,
                     toServer, toClient, expired>>
  OBVIOUS
<1>d. asked => turns = Parties /\ toServer = {} /\ toClient = {}
  BY DEF Before
<1>e. asked => "client" \in turns /\ "server" \in turns
  BY <1>d DEF Parties
<1> HIDE DEF Tick
<1>1. Clocks' /\ Places'
  BY <1>a, <1>b, <1>c, <1>d, <1>e DEF S!Older, C!Older, Clocks, Places, Parties, S!PCs,
     C!PCs, IInv, Mains
<1>2. Before' /\ Going'
  BY <1>a, <1>b, <1>c, <1>d, <1>e DEF Before, Going, Places, Clocks, IInv, Mains, Said
<1>3. ReadsClock' /\ ServerHears'
  BY <1>a, <1>b, <1>c, <1>d, <1>e DEF ReadsClock, ServerHears, Answered, Places, Clocks,
     Going, Verdicts, Before, S!Older, C!Older
<1>4. ClientHears'
  BY <1>a, <1>b, <1>c, <1>d, <1>e DEF ClientHears, Places, Clocks, Going, Before, S!Older,
     C!Older
<1>5. Verdicts'
  BY <1>a, <1>b, <1>c, <1>d, <1>e DEF Verdicts, Places, Clocks, Going, ServerHears,
     ClientHears, HealthyLinkIsQuiet, Before, IInv, Said
<1> QED BY <1>1, <1>2, <1>3, <1>4, <1>5 DEF Healthy

-------------------------------------------------------------------------------
LEMMA StepTInv == Punctual /\ TInv /\ [Next]_vars => TInv'
<1> SUFFICES ASSUME Punctual, TInv, [Next]_vars PROVE TInv'
  OBVIOUS
<1> USE DEF TInv
<1>0. IInv'
  BY IInvStep
<1>1. CASE ServerRuns
  <2>1. ServerFrame
    BY <1>1 DEF ServerRuns, ServerFrame
  <2>2. CASE S!Handle
    <3>1. ~S!HandleMalformed
      BY <2>1 DEF S!HandleMalformed, S!Unwind
    <3> QED BY <2>1, <2>2, <3>1, <1>0, ServerHandles DEF S!Handle
  <2>3. CASE S!Sweep(Client)
    BY <2>1, <2>3, <1>0, ServerKeeps, ServerJudges DEF S!Sweep
  <2>4. CASE S!Process \/ S!EraseVoluntary \/ S!WouldBlock \/ S!SweepEnd \/ (S!Host /\ ~hosted)
    BY <2>1, <2>4, <1>0, ServerBegins, ServerErases, ServerBlocks, ServerEnds
  <2> QED BY <1>1, <2>2, <2>3, <2>4 DEF ServerRuns
<1>2. ASSUME NEW kind \in S!Kinds, ServerReads(kind)
      PROVE  TInv'
  BY <1>0, <1>2, ServerReadsKnown, ServerReadsNew DEF ServerReads
<1>3. CASE ClientProcess \/ ClientRuns \/ ClientCalls
  <2>1. /\ ClientFrame
        /\ \/ C!Process \/ C!WouldBlock \/ C!Work \/ C!Goodbye("main")
           \/ (C!Connect /\ hosted) \/ C!Disconnect("main")
    BY <1>3 DEF ClientProcess, ClientRuns, ClientCalls, ClientDoes, ClientFrame
  <2>2. CASE C!Work
    BY <2>1, <2>2, <1>0, ClientGoesOn, ClientDecides, ClientExpires, ClientMayBeat DEF
       C!Work
  <2>3. CASE C!Goodbye("main")
    BY <2>1, <2>3, <1>0, ClientLeaves, ClientParts DEF C!Goodbye
  <2> QED BY <2>1, <2>2, <2>3, <1>0, ClientGoesOn, ClientConnects, ClientLeaves
<1>4. ASSUME NEW kind \in C!Kinds, ClientReads(kind)
      PROVE  TInv'
  BY <1>0, <1>4, ClientHearsIt DEF ClientReads
<1>5. CASE LoseToServer \/ LoseToClient \/ UNCHANGED vars
  BY <1>0, <1>5, NothingIsLost
<1>6. CASE Tick
  BY <1>0, <1>6, TimePasses
<1> QED BY <1>1, <1>2, <1>3, <1>4, <1>5, <1>6 DEF Next

\* On a link that loses nothing and keeps up with the clock, as the parties do, nobody
\* who is alive is called Dormant or timed out, whatever the durations are, as long as
\* both timeouts are two ticks above the interval (server.cpp:204-243,
\* client.cpp:84-140).
THEOREM HealthyLinkCorrect ==
  ASSUME Punctual
  PROVE  Spec => []HealthyLinkIsQuiet
<1>1. Init => TInv
  BY InitTInv
<1>2. TInv /\ [Next]_vars => TInv'
  BY StepTInv
<1>3. TInv => HealthyLinkIsQuiet
  BY DEF TInv, Healthy, Verdicts, HealthyLinkIsQuiet
<1> QED BY <1>1, <1>2, <1>3, PTL DEF Spec

===============================================================================
