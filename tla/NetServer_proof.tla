--------------------------- MODULE NetServer_proof ----------------------------
(***************************************************************************)
(* What MCNetServer checks on two or three endpoints, proved for every     *)
(* finite set of endpoints and all durations.                              *)
(*                                                                         *)
(* Each property is part of, or follows from, the inductive invariant IInv *)
(* below, whose additional conjuncts say what the locals of process() mean *)
(* while a call is under way.                                              *)
(***************************************************************************)
EXTENDS NetServer, FiniteSetTheorems, TLAPS

\* packet is the datagram of a client in the table while it is handled, and the
\* locals of the timeout loop exist only during the loop.
Locals ==
  /\ pc \in {"Handling", "Erasing"} => packet \in Packets /\ packet.from \in Members
  /\ pc # "Sweeping" => DOMAIN sweep = {} /\ expired = {}
  /\ DOMAIN sweep \subseteq Members
  /\ expired \subseteq Members \ DOMAIN sweep

\* Entries about to be erased belong to sessions the application saw end.
Told ==
  /\ NoPhantom
  /\ \A e \in Leaving : view[e] = "Absent"
  /\ ~Throws => \A e \in Members \ Leaving : view[e] = clients[e].state

\* A time read before the loop is at most the client's age at any later moment.
Judged ==
  /\ \A e \in DOMAIN sweep : sweep[e] <= clients[e].silence
  /\ VerdictsAreSound

\* As long as nobody left, the ids are distinct and at most the table's size.
Numbered ==
  /\ IdsDistinctUntilDeparture
  /\ ~departed => \A e \in Members : clients[e].id <= Cardinality(Members)

Shape == TypeOK /\ Locals
IInv == Shape /\ Told /\ Judged /\ Numbered

-------------------------------------------------------------------------------
(* Cardinalities *)

\* The table is finite, and a table with room for e is smaller than Endpoints.
LEMMA TableSize ==
  ASSUME TypeOK
  PROVE  /\ IsFiniteSet(Members)
         /\ Cardinality(Members) \in Nat
         /\ \A e \in Endpoints \ Members :
              /\ Cardinality(Members \cup {e}) = Cardinality(Members) + 1
              /\ Cardinality(Members) + 1 \in Ids
<1>1. IsFiniteSet(Members) /\ Cardinality(Members) \in Nat
  BY EndpointsAssumption, FS_Subset, FS_CardinalityType DEF TypeOK, TableTypes
<1>2. ASSUME NEW e \in Endpoints \ Members
      PROVE  /\ Cardinality(Members \cup {e}) = Cardinality(Members) + 1
             /\ Cardinality(Members) + 1 \in Ids
  <2>1. Cardinality(Members \cup {e}) = Cardinality(Members) + 1
    BY <1>1, FS_AddElement
  <2>2. Members \cup {e} \subseteq Endpoints
    BY DEF TypeOK, TableTypes
  <2>3. /\ Cardinality(Endpoints) \in Nat
        /\ Cardinality(Members \cup {e}) <= Cardinality(Endpoints)
    BY <2>2, EndpointsAssumption, FS_Subset, FS_CardinalityType
  <2> QED BY <1>1, <2>1, <2>3 DEF Ids
<1> QED BY <1>1, <1>2

\* Ages stay within their saturation bound, and never decrease.
LEMMA OlderAge ==
  ASSUME NEW cap \in Nat, NEW age \in 0 .. cap
  PROVE  Older(age, cap) \in 0 .. cap /\ age <= Older(age, cap)
BY DEF Older

LEMMA Caps == MaxSilence \in Nat /\ HeartbeatInterval + 1 \in Nat
BY DurationAssumption DEF MaxSilence

-------------------------------------------------------------------------------
(* Type correctness *)

LEMMA InitIInv == Init => IInv
<1> SUFFICES ASSUME Init PROVE IInv
  OBVIOUS
<1> USE DEF Init
<1>1. /\ Members = {} /\ clients \in [Members -> ClientInfo]
      /\ DOMAIN sweep = {} /\ sweep \in [DOMAIN sweep -> 0 .. MaxSilence]
  BY DEF NoEntries, Members
<1>2. TypeOK
  <2>1. Flags
    BY DEF Flags
  <2>2. TableTypes
    BY <1>1, Caps DEF TableTypes
  <2>3. LocalTypes
    BY <1>1 DEF LocalTypes, PCs
  <2>4. OutputTypes
    BY DEF OutputTypes
  <2> QED BY <2>1, <2>2, <2>3, <2>4 DEF TypeOK
<1>3. Locals
  BY <1>1 DEF Locals
<1>4. Told
  BY <1>1 DEF Told, NoPhantom, Leaving
<1>5. Judged /\ Numbered
  BY <1>1 DEF Judged, Numbered, VerdictsAreSound, IdsDistinctUntilDeparture
<1> QED BY <1>2, <1>3, <1>4, <1>5 DEF IInv, Shape

-------------------------------------------------------------------------------
(* Every action keeps Shape *)

LEMMA ShapeStep ==
  ASSUME Shape, [Next]_vars
  PROVE  Shape'
<1> USE DEF Shape, TypeOK, TableTypes, Locals, Members
<1>1. CASE Host
  BY <1>1, Caps DEF Host, Flags, LocalTypes, OutputTypes, Silence, NothingSent, tableVars, PCs
<1>2. CASE Process
  BY <1>2 DEF Process, Flags, LocalTypes, OutputTypes, Silence, NothingSent, tableVars, PCs
<1>3. ASSUME NEW e \in Endpoints, NEW kind \in Kinds, ReceiveKnown(e, kind)
      PROVE  Shape'
  BY <1>3 DEF ReceiveKnown, Flags, LocalTypes, OutputTypes, Silence, NothingSent, tableVars, PCs, Packets
<1>4. ASSUME NEW e \in Endpoints, NEW kind \in Kinds, ReceiveNew(e, kind)
      PROVE  Shape'
  <2>1. NewClient \in ClientInfo
    <3>1. 0 \in 0 .. MaxSilence
      BY Caps
    <3>2. Cardinality(Members) + 1 \in Ids
      BY <1>4, TableSize DEF ReceiveNew
    <3> QED BY <3>1, <3>2 DEF NewClient, ClientInfo, SocketStates
  <2>2. clients' \in [Members' -> ClientInfo] /\ Members' = Members \cup {e}
    BY <1>4, <2>1 DEF ReceiveNew, Emplace
  <2>3. Flags' /\ TableTypes'
    BY <1>4, <2>2 DEF ReceiveNew, Flags
  <2>4. LocalTypes'
    <3>1. CASE Unwind
      BY <3>1 DEF Unwind, Leave, LocalTypes, PCs, NoEntries
    <3>2. CASE packet' = [from |-> e, kind |-> kind] /\ pc' = "Handling"
               /\ UNCHANGED <<sweep, expired>>
      BY <3>2 DEF LocalTypes, PCs, Packets
    <3> QED BY <1>4, <3>1, <3>2 DEF ReceiveNew
  <2>5. OutputTypes'
    BY <1>4 DEF ReceiveNew, Deliver, NothingSent, OutputTypes, Events
  <2>6. Locals'
    BY <1>4, <2>2 DEF ReceiveNew, Unwind, Leave, Packets, NoEntries
  <2> QED BY <2>3, <2>4, <2>5, <2>6
<1>5. ASSUME NEW kind \in Kinds, Handling(kind)
      PROVE  /\ clients' \in [Members' -> ClientInfo] /\ Members' = Members
             /\ packet.from \in Members /\ TableTypes' /\ Flags'
  <2>1. 0 \in 0 .. MaxSilence
    BY Caps
  <2>2. packet.from \in Members /\ clients[packet.from] \in ClientInfo
    BY <1>5 DEF Handling
  <2>3. \A a \in {"", "Named"} :
          [clients EXCEPT ![packet.from].silence = 0, ![packet.from].agent = a]
            \in [Members -> ClientInfo]
    BY <2>1, <2>2 DEF ClientInfo
  <2>4. clients[packet.from].agent \in {"", "Named"}
    BY <2>2 DEF ClientInfo
  <2> QED BY <1>5, <2>2, <2>3, <2>4 DEF Handling, Refresh, Flags
<1>6. CASE Handle
  <2>1. PICK kind \in Kinds : Handling(kind)
    BY <1>6 DEF Handle, HandleApplication, HandleDisconnect, HandleQuiet, HandleMalformed,
                Handling, Kinds, Locals, Packets
  <2>2. /\ TableTypes' /\ Flags' /\ Members' = Members
        /\ packet.from \in Members /\ packet.from \in Endpoints
    BY <1>5, <2>1
  <2>3. \/ NextDatagram
        \/ Unwind
        \/ pc' = "Erasing" /\ UNCHANGED <<packet, sweep, expired>>
    BY <1>6 DEF Handle, HandleApplication, HandleDisconnect, HandleQuiet, HandleMalformed
  <2>4. pc = "Handling" /\ NothingSent
    BY <2>1 DEF Handling
  <2>5. LocalTypes' /\ Locals'
    BY <2>2, <2>3, <2>4 DEF NextDatagram, Unwind, Leave, LocalTypes, PCs, NoEntries
  <2>6. view[packet.from] \in {"Absent", "Aroused", "Dormant"}
    BY <2>2 DEF OutputTypes
  <2>7. OutputTypes'
    BY <1>6, <2>2, <2>4, <2>6
       DEF Handle, HandleApplication, HandleDisconnect, HandleQuiet, HandleMalformed,
           Deliver, Silence, NothingSent, OutputTypes, Events
  <2> QED BY <2>2, <2>5, <2>7
<1>7. CASE EraseVoluntary
  BY <1>7 DEF EraseVoluntary, Erase, Restrict, NextDatagram, Silence, NothingSent, Flags, LocalTypes, OutputTypes, PCs, Packets
<1>8. CASE SocketError
  BY <1>8 DEF SocketError, Unwind, Leave, Silence, NothingSent, tableVars, Flags, LocalTypes, OutputTypes, PCs, NoEntries
<1>9. CASE WouldBlock
  <2>1. Flags' /\ TableTypes'
    BY <1>9, Caps DEF WouldBlock, tableVars, Flags
  <2>2. LocalTypes' /\ Locals'
    BY <1>9 DEF WouldBlock, tableVars, LocalTypes, ClientInfo, PCs
  <2>3. OutputTypes'
    <3>1. sent' \subseteq Datagrams
      <4>1. [to : Members, kind : {"Heartbeat"}] \subseteq Datagrams
        BY DEF Datagrams
      <4>2. sent' = {} \/ sent' = [to : Members, kind : {"Heartbeat"}]
        BY <1>9 DEF WouldBlock, SendTo, NothingSent
      <4> QED BY <4>1, <4>2
    <3> QED BY <1>9, <3>1 DEF WouldBlock, Silence, OutputTypes
  <2> QED BY <2>1, <2>2, <2>3
<1>10. CASE HeartbeatsFail
  BY <1>10 DEF HeartbeatsFail, SendTo, Datagrams, Unwind, Leave, Silence, tableVars, Flags, LocalTypes, OutputTypes, PCs, NoEntries
<1>11. ASSUME NEW e \in Endpoints, Sweep(e)
       PROVE  Shape'
  <2>1. /\ Visiting(e)
        /\ pc = "Sweeping" /\ e \in DOMAIN sweep
        /\ Visited(e) \/ Unwind
    BY <1>11 DEF Sweep, SweepTimeout, SweepChange, SweepKeep, Visiting
  <2>2. clients' \in [Members' -> ClientInfo] /\ Members' = Members
    <3>1. \A s \in SocketStates :
            [clients EXCEPT ![e].state = s] \in [Members -> ClientInfo]
      BY <2>1 DEF ClientInfo
    <3> QED BY <1>11, <3>1 DEF Sweep, SweepTimeout, SweepChange, SweepKeep
  <2>3. /\ view' \in [Endpoints -> {"Absent", "Aroused", "Dormant"}]
        /\ event' \in Events \cup {NoEvent}
    BY <1>11 DEF Sweep, SweepTimeout, SweepChange, SweepKeep, Deliver, Silence, SocketStates, Events, OutputTypes
  <2>4. expired' \in SUBSET (expired \cup {e}) 
    BY <1>11 DEF Sweep, SweepTimeout, SweepChange, SweepKeep, Unwind, Leave
  <2>5. Flags' /\ TableTypes'
    BY <2>1, <2>2 DEF Visiting, Flags
  <2>8. OutputTypes'
    BY <2>1, <2>3 DEF Visiting, NothingSent, OutputTypes
  <2>6. LocalTypes'
    BY <2>1, <2>4 DEF Visited, Restrict, Unwind, Leave, LocalTypes, PCs, NoEntries
  <2>7. Locals'
    BY <2>1, <2>2, <2>4, <1>11
       DEF Sweep, SweepTimeout, SweepChange, SweepKeep, Visited, Restrict, Unwind, Leave, NoEntries
  <2> QED BY <2>5, <2>6, <2>7, <2>8
<1>12. CASE SweepEnd
  BY <1>12 DEF SweepEnd, Erase, Restrict, Leave, Silence, NothingSent, Flags, LocalTypes, OutputTypes, PCs, NoEntries
<1>13. ASSUME NEW id \in Ids, AppSend(id)
       PROVE  Shape'
  BY <1>13 DEF AppSend, Reached, SendTo, Datagrams, tableVars, historyVars, Flags, LocalTypes, OutputTypes
<1>14. CASE AppBroadcast
  BY <1>14 DEF AppBroadcast, SendTo, Datagrams, tableVars, historyVars, Flags, LocalTypes, OutputTypes
<1>15. CASE Tick
  <2>1. clients' \in [Members' -> ClientInfo] /\ Members' = Members
    BY <1>15, Caps, OlderAge, ZenonT(30) DEF Tick, ClientInfo
  <2>2. sinceHeartbeat' \in 0 .. HeartbeatInterval + 1
    BY <1>15, Caps, OlderAge DEF Tick
  <2> QED BY <1>15, <2>1, <2>2 DEF Tick, NothingSent, historyVars, Flags, LocalTypes, OutputTypes
<1>16. CASE UNCHANGED vars
  BY <1>16 DEF vars, Flags, LocalTypes, OutputTypes
<1> QED BY <1>1, <1>2, <1>3, <1>4, <1>6, <1>7, <1>8, <1>9, <1>10, <1>11, <1>12,
           <1>13, <1>14, <1>15, <1>16 DEF Next

-------------------------------------------------------------------------------
(* Every action keeps Told: the application's view and the table agree *)

LEMMA ToldStep ==
  ASSUME Shape, Shape', Told, [Next]_vars
  PROVE  Told'
<1> USE DEF Shape, Locals, Told, NoPhantom, Leaving, Members
<1>v. view \in [Endpoints -> {"Absent", "Aroused", "Dormant"}]
  BY DEF TypeOK, OutputTypes
<1>t. Members \subseteq Endpoints /\ clients \in [Members -> ClientInfo]
  BY DEF TypeOK, TableTypes
<1>1. CASE Host
  BY <1>1 DEF Host, Silence, tableVars
<1>2. CASE Process
  BY <1>2 DEF Process, Silence, tableVars
<1>3. ASSUME NEW e \in Endpoints, NEW kind \in Kinds, ReceiveKnown(e, kind)
      PROVE  Told'
  BY <1>3 DEF ReceiveKnown, Silence, tableVars
<1>4. ASSUME NEW e \in Endpoints, NEW kind \in Kinds, ReceiveNew(e, kind)
      PROVE  Told'
  <2>1. /\ e \notin Members /\ Members' = Members \cup {e}
        /\ clients' = [x \in Members \cup {e} |->
                         IF x = e THEN NewClient ELSE clients[x]]
        /\ view' = [view EXCEPT ![e] = "Aroused"]
    BY <1>4 DEF ReceiveNew, Emplace, Deliver
  <2>2. NewClient.state = "Aroused"
    BY DEF NewClient
  <2>3. Leaving = {} /\ Leaving' = {}
    BY <1>4 DEF ReceiveNew, Unwind, Leave
  <2> QED BY <1>v, <2>1, <2>2, <2>3
<1>5. ASSUME NEW kind, Handling(kind)
      PROVE  /\ pc = "Handling" /\ packet.from \in Members /\ Members' = Members
             /\ \A e \in Members : clients'[e].state = clients[e].state
  <2>1. \A a : \A e \in Members :
          [clients EXCEPT ![packet.from].silence = 0, ![packet.from].agent = a][e].state
            = clients[e].state
    BY <1>t, ZenonT(30) DEF ClientInfo
  <2> QED BY <1>5, <1>t, <2>1 DEF Handling, Refresh
<1>6. CASE HandleApplication
  BY <1>5, <1>6, <1>v DEF HandleApplication, Deliver, NextDatagram, Unwind, Leave
<1>7. CASE HandleDisconnect
  <2>1. /\ pc = "Handling" /\ packet.from \in Members /\ Members' = Members
        /\ \A e \in Members : clients'[e].state = clients[e].state
    BY <1>5, <1>7 DEF HandleDisconnect
  <2>2. /\ view'[packet.from] = "Absent"
        /\ \A e \in Endpoints \ {packet.from} : view'[e] = view[e]
    BY <1>7, <1>v, <1>t, <2>1 DEF HandleDisconnect, Deliver
  <2>3. CASE pc' = "Erasing" /\ UNCHANGED <<packet, sweep, expired>>
    BY <1>t, <2>1, <2>2, <2>3
  <2>4. CASE Unwind
    BY <1>t, <2>1, <2>2, <2>4 DEF Unwind, Leave
  <2> QED BY <1>7, <2>3, <2>4 DEF HandleDisconnect
<1>8. CASE HandleQuiet
  BY <1>5, <1>8 DEF HandleQuiet, Silence, NextDatagram
<1>9. CASE HandleMalformed
  BY <1>5, <1>9 DEF HandleMalformed, Silence, Unwind, Leave
<1>10. CASE EraseVoluntary
  BY <1>10 DEF EraseVoluntary, Erase, Restrict, NextDatagram, Silence
<1>11. CASE SocketError
  BY <1>11 DEF SocketError, Silence, Unwind, Leave, tableVars
<1>12. CASE WouldBlock
  BY <1>12 DEF WouldBlock, Silence, tableVars
<1>13. CASE HeartbeatsFail
  BY <1>13 DEF HeartbeatsFail, Silence, Unwind, Leave, tableVars
<1>14. ASSUME NEW e \in Endpoints, SweepTimeout(e)
       PROVE  Told'
  BY <1>14, <1>v DEF SweepTimeout, Visiting, Visited, Deliver, Unwind, Leave
<1>15. ASSUME NEW e \in Endpoints, NEW s \in SocketStates, SweepChange(e, s)
       PROVE  Told'
  <2>1. /\ e \in Members /\ e \notin Leaving /\ Members' = Members
        /\ clients'[e].state = s
        /\ \A d \in Members \ {e} : clients'[d] = clients[d]
    <3>1. e \in Members /\ pc = "Sweeping" /\ e \notin expired
      BY <1>15 DEF SweepChange, Visiting
    <3>2. /\ [clients EXCEPT ![e].state = s][e].state = s
          /\ \A d \in Members \ {e} : [clients EXCEPT ![e].state = s][d] = clients[d]
      BY <1>t, <3>1 DEF ClientInfo
    <3> QED BY <1>15, <1>t, <3>1, <3>2 DEF SweepChange
  <2>2. /\ view'[e] = s
        /\ \A d \in Endpoints \ {e} : view'[d] = view[d]
    BY <1>15, <1>v DEF SweepChange, Deliver
  <2>3. Leaving' \subseteq Leaving /\ (~Throws => Leaving' = Leaving)
    BY <1>15 DEF SweepChange, Visiting, Visited, Unwind, Leave
  <2> QED BY <1>t, <2>1, <2>2, <2>3
<1>16. ASSUME NEW e \in Endpoints, SweepKeep(e)
       PROVE  Told'
  BY <1>16 DEF SweepKeep, Visiting, Visited, Silence
<1>17. CASE SweepEnd
  BY <1>17 DEF SweepEnd, Erase, Restrict, Leave, Silence
<1>18. ASSUME NEW id \in Ids, AppSend(id)
       PROVE  Told'
  BY <1>18 DEF AppSend, tableVars, historyVars
<1>19. CASE AppBroadcast
  BY <1>19 DEF AppBroadcast, tableVars, historyVars
<1>20. CASE Tick
  <2>1. Members' = Members /\ \A e \in Members : clients'[e].state = clients[e].state
    BY <1>20, <1>t DEF Tick, ClientInfo
  <2> QED BY <1>20, <2>1 DEF Tick, historyVars
<1>21. CASE UNCHANGED vars
  BY <1>21 DEF vars
<1> QED BY <1>1, <1>2, <1>3, <1>4, <1>6, <1>7, <1>8, <1>9, <1>10, <1>11, <1>12, <1>13,
           <1>14, <1>15, <1>16, <1>17, <1>18, <1>19, <1>20, <1>21 DEF Next, Handle, Sweep

-------------------------------------------------------------------------------
(* Every action keeps Judged: old times only ever understate a silence *)

LEMMA JudgedStep ==
  ASSUME Shape, Shape', Judged, [Next]_vars
  PROVE  Judged'
<1> USE DEF Judged, VerdictsAreSound, Members
<1>1. CASE pc' # "Sweeping"
  BY <1>1 DEF Shape, Locals
<1> SUFFICES ASSUME pc' = "Sweeping" PROVE Judged'
  BY <1>1
<1>t. /\ clients \in [Members -> ClientInfo]
      /\ DOMAIN sweep \subseteq Members
      /\ expired \subseteq Members \ DOMAIN sweep
      /\ \A e \in DOMAIN sweep : sweep[e] \in Int
      /\ \A e \in Members : clients[e].silence \in Int
  <2>1. clients \in [Members -> ClientInfo]
    BY DEF Shape, TypeOK, TableTypes
  <2>2. \A e \in Members : clients[e].silence \in Int
    <3>1. \A e \in Members : clients[e].silence \in 0 .. MaxSilence
      BY <2>1 DEF ClientInfo
    <3> QED BY <3>1, Caps
  <2>3. DOMAIN sweep \subseteq Members /\ expired \subseteq Members \ DOMAIN sweep
    BY DEF Shape, Locals
  <2>4. \A e \in DOMAIN sweep : sweep[e] \in Int
    BY Caps DEF Shape, TypeOK, LocalTypes
  <2> QED BY <2>1, <2>2, <2>3, <2>4
<1>d. HeartbeatTimeout \in Int /\ DisconnectTimeout \in Int
  BY DurationAssumption
<1>2. CASE WouldBlock
  BY <1>2, <1>t DEF WouldBlock, tableVars
<1>3. ASSUME NEW e \in Endpoints, SweepTimeout(e)
      PROVE  Judged'
  BY <1>3, <1>t, <1>d DEF SweepTimeout, Visiting, Visited, Restrict, TimedOut, Unwind, Leave
<1>4. ASSUME NEW e \in Endpoints, NEW s \in SocketStates, SweepChange(e, s)
      PROVE  Judged'
  <2>1. /\ e \in DOMAIN sweep /\ e \in Members /\ pc = "Sweeping" /\ Members' = Members
        /\ clients'[e].state = s /\ clients'[e].silence = clients[e].silence
        /\ \A d \in Members \ {e} : clients'[d] = clients[d]
    <3>1. e \in DOMAIN sweep /\ e \in Members /\ pc = "Sweeping"
      BY <1>4, <1>t DEF SweepChange, Visiting
    <3>2. /\ [clients EXCEPT ![e].state = s][e].state = s
          /\ [clients EXCEPT ![e].state = s][e].silence = clients[e].silence
          /\ \A d \in Members \ {e} : [clients EXCEPT ![e].state = s][d] = clients[d]
      BY <1>t, <3>1 DEF ClientInfo
    <3> QED BY <1>4, <1>t, <3>1, <3>2 DEF SweepChange
  <2>2. sweep' = Restrict(sweep, DOMAIN sweep \ {e}) /\ expired' = expired
    BY <1>4 DEF SweepChange, Visited, Unwind, Leave
  <2>3. s = "Dormant" => sweep[e] > HeartbeatTimeout
    BY <1>4 DEF SweepChange, IsDormant
  <2> QED BY <1>t, <1>d, <2>1, <2>2, <2>3 DEF Restrict
<1>5. ASSUME NEW e \in Endpoints, SweepKeep(e)
      PROVE  Judged'
  BY <1>5, <1>t, <1>d DEF SweepKeep, Visiting, Visited, Restrict, IsDormant
<1>6. ASSUME NEW id \in Ids, AppSend(id)
      PROVE  Judged'
  BY <1>6 DEF AppSend, tableVars
<1>7. CASE AppBroadcast
  BY <1>7 DEF AppBroadcast, tableVars
<1>8. CASE Tick
  <2>1. \A e \in Members : /\ clients'[e].silence \in Int
                           /\ clients[e].silence <= clients'[e].silence
                           /\ clients'[e].state = clients[e].state
    <3> SUFFICES ASSUME NEW e \in Members
                 PROVE  /\ clients'[e].silence \in Int
                        /\ clients[e].silence <= clients'[e].silence
                        /\ clients'[e].state = clients[e].state
      OBVIOUS
    <3>1. /\ clients'[e].silence = Older(clients[e].silence, MaxSilence)
          /\ clients'[e].state = clients[e].state
          /\ clients[e].silence \in 0 .. MaxSilence
      BY <1>8, <1>t DEF Tick, ClientInfo
    <3> QED BY <3>1, Caps, OlderAge
  <2>2. Members' = Members /\ UNCHANGED <<pc, sweep, expired>>
    BY <1>8 DEF Tick
  <2> QED BY <1>t, <1>d, <2>1, <2>2
<1>9. CASE UNCHANGED vars
  BY <1>9 DEF vars
<1>10. CASE \/ Host \/ Process \/ Handle \/ EraseVoluntary \/ SocketError
            \/ HeartbeatsFail \/ SweepEnd
            \/ \E e \in Endpoints, kind \in Kinds :
                 ReceiveKnown(e, kind) \/ ReceiveNew(e, kind)
  BY <1>10 DEF Host, Process, Handle, HandleApplication, HandleDisconnect, HandleQuiet,
               HandleMalformed, EraseVoluntary, NextDatagram, SocketError, HeartbeatsFail,
               SweepEnd, ReceiveKnown, ReceiveNew, Unwind, Leave
<1> QED BY <1>2, <1>3, <1>4, <1>5, <1>6, <1>7, <1>8, <1>9, <1>10 DEF Next, Sweep

-------------------------------------------------------------------------------
(* Every action keeps Numbered: while nobody left, ids count the arrivals *)

LEMMA NumberedStep ==
  ASSUME Shape, Numbered, [Next]_vars
  PROVE  Numbered'
<1> USE DEF Numbered, IdsDistinctUntilDeparture, Members
<1>t. /\ Members \subseteq Endpoints /\ clients \in [Members -> ClientInfo]
      /\ \A e \in Members : clients[e].id \in Int
      /\ IsFiniteSet(Members) /\ Cardinality(Members) \in Nat
  <2>1. /\ Members \subseteq Endpoints
        /\ clients \in [Members -> ClientInfo]
    BY DEF Shape, TypeOK, TableTypes
  <2>2. \A e \in Members : clients[e].id \in Int
    <3>1. \A e \in Members : clients[e].id \in Ids
      BY <2>1 DEF ClientInfo
    <3>2. Cardinality(Endpoints) \in Nat
      BY EndpointsAssumption, FS_CardinalityType
    <3> QED BY <3>1, <3>2 DEF Ids
  <2>3. IsFiniteSet(Members) /\ Cardinality(Members) \in Nat
    BY TableSize DEF Shape
  <2> QED BY <2>1, <2>2, <2>3
<1>s. ASSUME /\ Members' = Members /\ departed' = departed
             /\ \A e \in Members : clients'[e].id = clients[e].id
      PROVE  Numbered'
  BY <1>s, <1>t
<1>e. ASSUME NEW S, Erase(S) PROVE Numbered'
  <2>1. CASE S = {}
    BY <2>1, <1>e, <1>s, <1>t DEF Erase, Restrict
  <2>2. CASE S # {}
    BY <2>2, <1>e DEF Erase
  <2> QED BY <2>1, <2>2
<1>1. CASE \/ Host \/ Process \/ SocketError \/ WouldBlock \/ HeartbeatsFail
           \/ AppBroadcast \/ UNCHANGED vars
           \/ \E id \in Ids : AppSend(id)
           \/ \E e \in Endpoints : SweepTimeout(e) \/ SweepKeep(e)
           \/ \E e \in Endpoints, kind \in Kinds : ReceiveKnown(e, kind)
  BY <1>1, <1>s DEF Host, Process, SocketError, WouldBlock, HeartbeatsFail, AppBroadcast, vars,
                    AppSend, SweepTimeout, SweepKeep, Visiting, ReceiveKnown, tableVars
<1>2. ASSUME NEW e \in Endpoints, NEW kind \in Kinds, ReceiveNew(e, kind)
      PROVE  Numbered'
  <2>1. /\ e \in Endpoints \ Members /\ departed' = departed
        /\ clients' = [x \in Members \cup {e} |-> IF x = e THEN NewClient ELSE clients[x]]
        /\ Members' = Members \cup {e}
    BY <1>2 DEF ReceiveNew, Emplace
  <2>2. NewClient.id = Cardinality(Members) + 1
    BY DEF NewClient
  <2>3. Cardinality(Members') = Cardinality(Members) + 1
    BY <2>1, TableSize DEF Shape
  <2> QED BY <1>t, <2>1, <2>2, <2>3
<1>3. CASE Handle
  <2>1. PICK kind, a :
          /\ Handling(kind) /\ packet.from \in Members
          /\ clients' = [clients EXCEPT ![packet.from].silence = 0, ![packet.from].agent = a]
    BY <1>3 DEF Handle, HandleApplication, HandleDisconnect, HandleQuiet, HandleMalformed,
                Handling, Refresh, Shape, Locals
  <2>2. \A e \in Members : clients'[e].id = clients[e].id
    BY <2>1, <1>t, ZenonT(30) DEF ClientInfo
  <2> QED BY <1>s, <1>t, <2>1, <2>2 DEF Handling
<1>4. CASE EraseVoluntary \/ SweepEnd
  BY <1>4, <1>e DEF EraseVoluntary, SweepEnd
<1>5. ASSUME NEW e \in Endpoints, NEW s \in SocketStates, SweepChange(e, s)
      PROVE  Numbered'
  <2>1. e \in Members /\ clients' = [clients EXCEPT ![e].state = s] /\ departed' = departed
    BY <1>5 DEF SweepChange, Visiting, Shape, Locals
  <2>2. \A d \in Members : clients'[d].id = clients[d].id
    BY <2>1, <1>t DEF ClientInfo
  <2> QED BY <1>s, <1>t, <2>1, <2>2
<1>6. CASE Tick
  <2>1. Members' = Members /\ \A e \in Members : clients'[e].id = clients[e].id
    BY <1>6, <1>t DEF Tick, ClientInfo
  <2> QED BY <1>6, <1>s, <2>1 DEF Tick
<1> QED BY <1>1, <1>2, <1>3, <1>4, <1>5, <1>6 DEF Next, Sweep

-------------------------------------------------------------------------------
(* The theorems *)

LEMMA IInvStep == IInv /\ [Next]_vars => IInv'
BY ShapeStep, ToldStep, JudgedStep, NumberedStep DEF IInv

LEMMA Invariance == Spec => []IInv
BY InitIInv, IInvStep, PTL DEF Spec

\* The variables have their types: in particular every id handed out by
\* clients_.size() + 1 is between 1 and the number of endpoints.
THEOREM TypeCorrect == Spec => []TypeOK
<1>1. IInv => TypeOK
  BY DEF IInv, Shape
<1> QED BY <1>1, Invariance, PTL

\* While nothing throws, the callbacks tell the application the exact table.
THEOREM ViewCorrect == Spec => []ViewMatchesTable
<1>1. IInv => ViewMatchesTable
  <2> SUFFICES ASSUME IInv, ~Throws, NEW e \in Endpoints
               PROVE  view[e] = IF e \in Members \ Leaving THEN clients[e].state
                                ELSE "Absent"
    BY DEF ViewMatchesTable
  <2>1. CASE e \in Members \ Leaving
    BY <2>1 DEF IInv, Told
  <2>2. CASE e \in Leaving
    BY <2>2 DEF IInv, Told
  <2>3. CASE e \notin Members
    BY <2>3 DEF IInv, Told, NoPhantom, Leaving, Shape, Locals
  <2> QED BY <2>1, <2>2, <2>3
<1> QED BY <1>1, Invariance, PTL

\* With or without exceptions, the application believes only in clients that
\* are in the table.
THEOREM NoPhantomCorrect == Spec => []NoPhantom
<1>1. IInv => NoPhantom
  BY DEF IInv, Told
<1> QED BY <1>1, Invariance, PTL

\* The timeout loop drops and puts to sleep only clients that are silent.
THEOREM VerdictsCorrect == Spec => []VerdictsAreSound
<1>1. IInv => VerdictsAreSound
  BY DEF IInv, Judged
<1> QED BY <1>1, Invariance, PTL

\* Until the first departure, ids identify clients.
THEOREM IdsCorrect == Spec => []IdsDistinctUntilDeparture
<1>1. IInv => IdsDistinctUntilDeparture
  BY DEF IInv, Numbered
<1> QED BY <1>1, Invariance, PTL

\* Without exceptions, a client in the table and not on its way out is in a
\* session in the eyes of the application.
LEMMA InSession ==
  ASSUME IInv, ~Throws, NEW e \in Members \ Leaving
  PROVE  /\ e \in Endpoints
         /\ view[e] = clients[e].state
         /\ view[e] \in {"Aroused", "Dormant"}
<1>1. e \in Endpoints /\ clients[e] \in ClientInfo
  BY DEF IInv, Shape, TypeOK, TableTypes
<1>2. clients[e].state \in {"Aroused", "Dormant"}
  BY <1>1 DEF ClientInfo, SocketStates
<1> QED BY <1>1, <1>2 DEF IInv, Told

\* Without exceptions the server keeps the callback contract: on_connect opens a
\* session, exactly one on_disconnect closes it, the rest comes in between.
THEOREM ContractCorrect ==
  ASSUME ~Throws
  PROVE  Spec => KeepsContract
<1>1. Init => Contract!MemberInit
  BY DEF Init, Contract!MemberInit, NoEvent, Contract!NoEvent
<1>2. IInv /\ [Next]_vars => [Contract!MemberNext]_(Contract!memberVars)
  <2> SUFFICES ASSUME IInv, [Next]_vars
               PROVE  [Contract!MemberNext]_(Contract!memberVars)
    OBVIOUS
  <2> USE DEF Contract!MemberNext, Contract!memberVars, Members
  <2>s. ASSUME Silence PROVE Contract!MemberNext
    BY <2>s DEF Silence, Contract!Silence, NoEvent, Contract!NoEvent
  <2>h. pc \in {"Handling", "Receiving"} => Leaving = {}
    BY DEF IInv, Shape, Locals, Leaving
  <2>v. pc = "Sweeping" => \A e \in DOMAIN sweep : e \in Members \ Leaving
    BY DEF IInv, Shape, Locals, Leaving
  <2>1. ASSUME NEW e \in Endpoints, NEW kind \in Kinds, ReceiveNew(e, kind)
        PROVE  Contract!MemberNext
    <3>1. e \notin Members /\ Deliver("Connect", e, "Aroused")
      BY <2>1 DEF ReceiveNew
    <3>2. view[e] = "Absent"
      BY <3>1 DEF IInv, Told, NoPhantom
    <3> QED BY <3>1, <3>2 DEF Deliver, Contract!OnConnect, Contract!Deliver
  <2>2. CASE HandleApplication
    <3>1. /\ packet.from \in Members \ Leaving
          /\ Deliver("Receive", packet.from, view[packet.from])
      BY <2>2, <2>h DEF HandleApplication, Handling, IInv, Shape, Locals
    <3>2. packet.from \in Endpoints /\ view[packet.from] # "Absent"
      BY <3>1, InSession
    <3> QED BY <3>1, <3>2 DEF Deliver, Contract!OnReceive, Contract!Deliver
  <2>3. CASE HandleDisconnect
    <3>1. /\ packet.from \in Members \ Leaving
          /\ Deliver("Voluntary", packet.from, "Absent")
      BY <2>3, <2>h DEF HandleDisconnect, Handling, IInv, Shape, Locals
    <3>2. packet.from \in Endpoints /\ view[packet.from] # "Absent"
      BY <3>1, InSession
    <3> QED BY <3>1, <3>2 DEF Deliver, Contract!OnDisconnect, Contract!Deliver
  <2>4. ASSUME NEW e \in Endpoints, SweepTimeout(e)
        PROVE  Contract!MemberNext
    <3>1. e \in Members \ Leaving /\ Deliver("Timeout", e, "Absent")
      BY <2>4, <2>v DEF SweepTimeout, Visiting
    <3>2. view[e] # "Absent"
      BY <3>1, InSession
    <3> QED BY <3>1, <3>2 DEF Deliver, Contract!OnDisconnect, Contract!Deliver
  <2>5. ASSUME NEW e \in Endpoints, NEW s \in SocketStates, SweepChange(e, s)
        PROVE  Contract!MemberNext
    <3>1. /\ e \in Members \ Leaving
          /\ clients[e].state # s
          /\ Deliver("StateChange", e, s)
      BY <2>5, <2>v DEF SweepChange, Visiting
    <3>2. view[e] \notin {"Absent", s}
      BY <3>1, InSession
    <3>3. s \in {"Aroused", "Dormant"}
      BY DEF SocketStates
    <3> QED BY <3>1, <3>2, <3>3 DEF Deliver, Contract!OnStateChange, Contract!Deliver
  <2>6. CASE \/ Host \/ Process \/ HandleQuiet \/ HandleMalformed \/ EraseVoluntary
             \/ SocketError \/ WouldBlock \/ HeartbeatsFail \/ SweepEnd
             \/ \E e \in Endpoints : SweepKeep(e)
             \/ \E e \in Endpoints, kind \in Kinds : ReceiveKnown(e, kind)
    BY <2>6, <2>s DEF Host, Process, HandleQuiet, HandleMalformed, EraseVoluntary,
         SocketError, WouldBlock, HeartbeatsFail, SweepEnd, SweepKeep, ReceiveKnown
  <2>7. CASE \/ Tick \/ AppBroadcast \/ UNCHANGED vars
             \/ \E id \in Ids : AppSend(id)
    BY <2>7 DEF Tick, AppBroadcast, AppSend, vars, historyVars
  <2> QED BY <2>1, <2>2, <2>3, <2>4, <2>5, <2>6, <2>7 DEF Next, Handle, Sweep
<1> QED BY <1>1, <1>2, Invariance, PTL DEF Spec, KeepsContract, Contract!MemberSpec

===============================================================================
