--------------------------- MODULE NetClient_proof ----------------------------
(***************************************************************************)
(* The safety of NetClient for all durations, with one thread or two, and  *)
(* whatever the uninitialised members hold.                                *)
(***************************************************************************)
EXTENDS NetClient, TLAPS

\* Who is past the send of disconnect() has not called on_disconnect before, and
\* from the first on_disconnect on the socket is closed.
Farewell ==
  \A t \in Threads :
    /\ pc[t] \in {"Closing", "Parting"} => parted[t] = 0
    /\ pc[t] = "Parting" => socket = "Closed"
    /\ parted[t] > 0 => socket = "Closed"

\* A pass judges the server by an age that is not above the true one.
Judged ==
  /\ pc["main"] \in {"Judging", "Expiring"} => heardAge <= sinceHeard
  /\ VerdictsAreSound

\* Once the server was given up, the main thread is in that disconnect() or has
\* closed the socket, and no later pass gets beyond receive_all.
GivenUp ==
  after = "Beating" =>
    /\ pc["main"] \in {"Leaving", "Closing", "Parting", "Beating", "Idle", "Receiving"}
    /\ pc["main"] \in {"Parting", "Beating"} => socket = "Closed"
    /\ pc["main"] \in {"Idle", "Receiving"} => socket = "Closed"

\* receive_all, and with it line 194, comes before the decision.
Shaken == pc["main"] \in {"Receiving", "Deciding"} => handshake

\* The main thread enters disconnect() from receive_all only with the handshake.
Returning == after = "Deciding" => handshake

\* Only disconnect() closes the socket, for the deadline of connect() never counts.
ClosedByDisconnect ==
  socket = "Closed" => \E t \in Threads : parted[t] > 0 \/ At(t, "Parting")

IInv == /\ TypeOK /\ PartsOnce /\ Farewell /\ Judged /\ GivenUp /\ Shaken /\ Returning
        /\ ClosedByDisconnect

-------------------------------------------------------------------------------
LEMMA Caps == MaxSilence \in Nat /\ MaxQuiet \in Nat
BY DurationAssumption DEF MaxSilence, MaxQuiet

LEMMA OlderAge ==
  ASSUME NEW cap \in Nat, NEW age \in 0 .. cap
  PROVE  Older(age, cap) \in 0 .. cap /\ age <= Older(age, cap)
BY DEF Older

-------------------------------------------------------------------------------
(* The initial states *)

LEMMA InitIInv == Init => IInv
<1> SUFFICES ASSUME Init PROVE IInv
  OBVIOUS
<1> USE DEF Init
<1>1. TypeOK
  <2>1. ConnTypes /\ ThreadTypes
    BY InitialAssumption DEF ConnTypes, ThreadTypes, PCs
  <2>2. FlagTypes
    BY ThrowsAssumption DEF FlagTypes
  <2>3. ClockTypes
    BY Caps DEF ClockTypes
  <2>4. OutputTypes
    BY DEF OutputTypes, Events
  <2> QED BY <2>1, <2>2, <2>3, <2>4 DEF TypeOK
<1>2. PartsOnce /\ Farewell
  BY DEF PartsOnce, Farewell
<1>3. Judged /\ GivenUp /\ Shaken /\ Returning /\ ClosedByDisconnect
  BY DEF Judged, VerdictsAreSound, At, GivenUp, Shaken, Returning, Threads,
     ClosedByDisconnect
<1> QED BY <1>1, <1>2, <1>3 DEF IInv

-------------------------------------------------------------------------------
(* Type correctness *)

LEMMA TypeStep ==
  ASSUME TypeOK, [Next]_vars
  PROVE  TypeOK'
<1> USE DEF TypeOK
<1> USE DEF stateVars, clockVars, passVars, Goto, Quiet, Tell, Throw, Resume, At
<1>t. "main" \in Threads /\ \A t \in Threads : pc[t] \in PCs
  BY DEF ThreadTypes, Threads
<1>1. ConnTypes'
  BY DEF ConnTypes, ConnStates, SocketStates, Next, Work, Goodbye, Connect, ConnectRejected,
     Process, Receive, ReceiveMalformed, ReceiveOnClosed, WouldBlock, Decide, Judge, Expire,
     KeepOn, Beat, NoBeat, Disconnect, SendGoodbye, CloseSocket, Part, Send, Tick, vars
<1>2. FlagTypes'
  BY ZenonT(30) DEF FlagTypes, Next, Work, Goodbye, Connect, ConnectRejected,
     Process, Receive, ReceiveMalformed, ReceiveOnClosed, WouldBlock, Decide, Judge, Expire,
     KeepOn, Beat, NoBeat, Disconnect, SendGoodbye, CloseSocket, Part, Send, Tick, vars
<1>3. ClockTypes'
  <2> USE DEF ClockTypes
  <2>1. CASE Tick
    BY <2>1, Caps, OlderAge DEF Tick
  <2>2. CASE Connect \/ Decide \/ Beat \/ \E kind \in Kinds : Receive(kind)
    BY <2>2, Caps DEF Connect, Decide, Beat, Receive
  <2>3. CASE UNCHANGED <<clockVars, heardAge, sentAge, sinceNow>>
    BY <2>3
  <2> QED BY <2>1, <2>2, <2>3 DEF Next, Work, Goodbye, ConnectRejected, Process,
       ReceiveMalformed, ReceiveOnClosed, WouldBlock, Judge, Expire, KeepOn, NoBeat,
       Disconnect, SendGoodbye, CloseSocket, Part, Send, vars
<1>4. ThreadTypes'
  <2>1. pc' \in [Threads -> PCs]
    <3>1. CASE pc' = pc
      BY <3>1 DEF ThreadTypes
    <3>2. ASSUME NEW t \in Threads, NEW there \in PCs, Goto(t, there)
          PROVE  pc' \in [Threads -> PCs]
      BY <3>2 DEF ThreadTypes
    <3>3. after \in PCs /\ {"Idle", "Receiving", "Deciding", "Judging", "Expiring",
                            "Beating", "Leaving", "Closing", "Parting"} \subseteq PCs
      BY DEF ThreadTypes, PCs
    <3>4. pc' = pc \/ \E t \in Threads, there \in PCs : Goto(t, there)
      BY <1>t, <3>3 DEF Next, Work, Goodbye, Connect, ConnectRejected,
         Process, Receive, ReceiveMalformed, ReceiveOnClosed, WouldBlock, Decide, Judge,
         Expire, KeepOn, Beat, NoBeat, Disconnect, SendGoodbye, CloseSocket, Part, Send,
         Tick, vars
    <3> QED BY <3>1, <3>2, <3>4
  <2>2. after' \in {"Idle", "Deciding", "Beating"}
    BY DEF ThreadTypes, Next, Work, Goodbye, Connect, ConnectRejected,
       Process, Receive, ReceiveMalformed, ReceiveOnClosed, WouldBlock, Decide, Judge,
       Expire, KeepOn, Beat, NoBeat, Disconnect, SendGoodbye, CloseSocket, Part, Send,
       Tick, vars
  <2>3. parted' \in [Threads -> Nat]
    <3>1. \A t \in Threads : [parted EXCEPT ![t] = @ + 1] \in [Threads -> Nat]
      BY DEF ThreadTypes
    <3>2. parted' = parted \/ \E t \in Threads : parted' = [parted EXCEPT ![t] = @ + 1]
      BY DEF Next, Work, Goodbye, Connect, ConnectRejected,
         Process, Receive, ReceiveMalformed, ReceiveOnClosed, WouldBlock, Decide, Judge,
         Expire, KeepOn, Beat, NoBeat, Disconnect, SendGoodbye, CloseSocket, Part, Send,
         Tick, vars
    <3> QED BY <3>1, <3>2 DEF ThreadTypes
  <2> QED BY <2>1, <2>2, <2>3 DEF ThreadTypes
<1>5. OutputTypes'
  BY DEF OutputTypes, Kinds, Events, Next, Work, Goodbye, Connect, ConnectRejected,
     Process, Receive, ReceiveMalformed, ReceiveOnClosed, WouldBlock, Decide, Judge, Expire,
     KeepOn, Beat, NoBeat, Disconnect, SendGoodbye, CloseSocket, Part, Send, Tick, vars
<1> QED BY <1>1, <1>2, <1>3, <1>4, <1>5

-------------------------------------------------------------------------------
(* Parting *)

LEMMA FarewellStep ==
  ASSUME TypeOK, PartsOnce, Farewell, [Next]_vars
  PROVE  PartsOnce' /\ Farewell'
<1> USE DEF PartsOnce, Farewell, At, Goto, Throw, Tell, Resume, IsOpen
<1>t. "main" \in Threads /\ pc \in [Threads -> PCs] /\ parted \in [Threads -> Nat]
  BY DEF TypeOK, ThreadTypes, Threads
\* No action opens a closed socket.
<1>c. socket = "Closed" => socket' = "Closed"
  BY DEF Next, Work, Goodbye, Connect, ConnectRejected,
     Process, Receive, ReceiveMalformed, ReceiveOnClosed, WouldBlock, Decide, Judge, Expire,
     KeepOn, Beat, NoBeat, Disconnect, SendGoodbye, CloseSocket, Part, Send, Tick, vars
<1>1. ASSUME NEW t \in Threads, SendGoodbye(t)
      PROVE  PartsOnce' /\ Farewell'
  <2>1. CASE IsOpen
    BY <1>1, <1>t, <2>1 DEF SendGoodbye
  <2>2. CASE ~IsOpen
    BY <1>1, <1>t, <2>2 DEF SendGoodbye
  <2> QED BY <2>1, <2>2
<1>2. ASSUME NEW t \in Threads, CloseSocket(t)
      PROVE  PartsOnce' /\ Farewell'
  BY <1>2, <1>t DEF CloseSocket
<1>3. ASSUME NEW t \in Threads, Part(t)
      PROVE  PartsOnce' /\ Farewell'
  <2>1. after \in {"Idle", "Deciding", "Beating"}
    BY DEF TypeOK, ThreadTypes
  <2>2. /\ pc'[t] \notin {"Closing", "Parting"} /\ parted'[t] = 1 /\ socket' = "Closed"
        /\ \A u \in Threads \ {t} : pc'[u] = pc[u] /\ parted'[u] = parted[u]
    BY <1>3, <1>t, <1>c, <2>1 DEF Part
  <2> QED BY <1>c, <2>2
\* The rest moves nobody into the middle of disconnect().
<1>4. CASE /\ parted' = parted
           /\ \A t \in Threads : pc'[t] \in {"Closing", "Parting"} => pc'[t] = pc[t]
  BY <1>4, <1>c
<1>5. CASE pc' = pc /\ parted' = parted
  BY <1>4, <1>5
<1>6. CASE \/ Process \/ ReceiveMalformed \/ ReceiveOnClosed \/ WouldBlock \/ Decide
           \/ Judge \/ Expire \/ KeepOn \/ Beat \/ NoBeat
           \/ \E kind \in Kinds : Receive(kind)
           \/ \E t \in Threads : Disconnect(t)
  <2>1. /\ parted' = parted
        /\ \E t \in Threads, there \in PCs \ {"Closing", "Parting"} :
             pc' = pc \/ pc' = [pc EXCEPT ![t] = there]
    BY <1>6, <1>t DEF PCs, Process, Receive, ReceiveMalformed, ReceiveOnClosed, WouldBlock,
       Decide, Judge, Expire, KeepOn, Beat, NoBeat, Disconnect
  <2> QED BY <1>t, <1>4, <2>1
<1> QED BY <1>1, <1>2, <1>3, <1>5, <1>6
        DEF Next, Work, Goodbye, Connect, ConnectRejected, Send, Tick, vars

-------------------------------------------------------------------------------
(* The verdicts of a pass *)

LEMMA JudgedStep ==
  ASSUME TypeOK, Judged, [Next]_vars
  PROVE  Judged'
<1> USE DEF Judged, VerdictsAreSound, At, Goto, Throw, Tell, Quiet, Resume
<1>t. "main" \in Threads /\ "input" \in Threads /\ pc \in [Threads -> PCs]
  BY DEF TypeOK, ThreadTypes, Threads
<1>n. /\ sinceHeard \in Int /\ heardAge \in Int
      /\ HeartbeatTimeout \in Int /\ ServerTimeout \in Int
  BY Caps, DurationAssumption DEF TypeOK, ClockTypes
<1>1. CASE Decide
  BY <1>1, <1>t, <1>n DEF Decide
<1>2. CASE Judge
  BY <1>2, <1>t, <1>n DEF Judge, stateVars, clockVars, passVars
<1>3. CASE Expire
  BY <1>3, <1>t, <1>n DEF Expire, stateVars, clockVars
<1>4. CASE Tick
  <2>1. sinceHeard <= sinceHeard' /\ sinceHeard' \in Int
    BY <1>4, Caps, OlderAge DEF Tick, TypeOK, ClockTypes
  <2> QED BY <1>4, <1>t, <1>n, <2>1 DEF Tick, stateVars
<1>5. CASE \/ Connect \/ ConnectRejected \/ Process \/ ReceiveMalformed
           \/ ReceiveOnClosed \/ WouldBlock \/ KeepOn \/ Beat \/ NoBeat
           \/ \E kind \in Kinds : Receive(kind)
  BY <1>5, <1>t DEF Connect, ConnectRejected, Process, ReceiveMalformed, ReceiveOnClosed,
       WouldBlock, KeepOn, Beat, NoBeat, Receive
\* What disconnect() and send() do, in either thread, leaves a pass alone.
<1>6. ASSUME NEW t \in Threads, Disconnect(t) \/ Goodbye(t) \/ Send(t)
      PROVE  Judged'
  <2>1. /\ pc'["main"] \in {"Judging", "Expiring"} => pc'["main"] = pc["main"]
        /\ event' # "Timeout"
    BY <1>6, <1>t DEF Disconnect, Goodbye, SendGoodbye, CloseSocket, Part, Send, TypeOK,
         ThreadTypes
  <2>2. UNCHANGED <<heardAge, sinceHeard, serverState>>
    BY <1>6 DEF Disconnect, Goodbye, SendGoodbye, CloseSocket, Part, Send, stateVars,
         clockVars, passVars
  <2> QED BY <2>1, <2>2
<1>7. CASE UNCHANGED vars
  BY <1>7 DEF vars
<1> QED BY <1>1, <1>2, <1>3, <1>4, <1>5, <1>6, <1>7 DEF Next, Work

-------------------------------------------------------------------------------
(* Giving the server up, and the handshake *)

LEMMA GivenUpStep ==
  ASSUME TypeOK, GivenUp, [Next]_vars
  PROVE  GivenUp'
<1> USE DEF GivenUp, At, Goto, Throw, Tell, Quiet, Resume, IsOpen, passVars
<1>t. /\ "main" \in Threads /\ "input" \in Threads /\ "main" # "input"
      /\ \A t \in Threads : t \in {"main", "input"}
      /\ pc \in [Threads -> PCs]
  BY DEF TypeOK, ThreadTypes, Threads
<1>1. CASE \/ Connect \/ ConnectRejected \/ Process \/ ReceiveMalformed
           \/ ReceiveOnClosed \/ WouldBlock \/ KeepOn \/ NoBeat \/ Judge \/ Expire
           \/ \E kind \in Kinds : Receive(kind)
  BY <1>1, <1>t DEF Connect, ConnectRejected, Process, ReceiveMalformed, ReceiveOnClosed,
       WouldBlock, KeepOn, NoBeat, Judge, Expire, Receive
<1>2. CASE Decide \/ Beat \/ Tick \/ UNCHANGED vars
  BY <1>2, <1>t DEF Decide, Beat, Tick, vars
<1>3. ASSUME NEW t \in Threads, Disconnect(t) \/ Goodbye(t) \/ Send(t)
      PROVE  GivenUp'
  <2>1. CASE t = "main"
    BY <1>3, <1>t, <2>1 DEF Disconnect, Goodbye, SendGoodbye, CloseSocket, Part, Send
  <2>2. CASE t = "input"
    BY <1>3, <1>t, <2>2 DEF Disconnect, Goodbye, SendGoodbye, CloseSocket, Part, Send
  <2> QED BY <1>t, <2>1, <2>2
<1> QED BY <1>1, <1>2, <1>3 DEF Next, Work

LEMMA ShakenStep ==
  ASSUME TypeOK, Shaken, Returning, [Next]_vars
  PROVE  Shaken' /\ Returning'
<1> USE DEF Shaken, Returning, At, Goto, Throw, Tell, Quiet, Resume, passVars, stateVars
<1>t. /\ "main" \in Threads /\ "main" # "input"
      /\ \A t \in Threads : t \in {"main", "input"}
      /\ pc \in [Threads -> PCs] /\ after \in {"Idle", "Deciding", "Beating"}
  BY DEF TypeOK, ThreadTypes, Threads
<1>1. CASE Process
  BY <1>1, <1>t DEF Process
<1>2. handshake => handshake'
  BY DEF Next, Work, Goodbye, Connect, ConnectRejected,
     Process, Receive, ReceiveMalformed, ReceiveOnClosed, WouldBlock, Decide, Judge, Expire,
     KeepOn, Beat, NoBeat, Disconnect, SendGoodbye, CloseSocket, Part, Send, Tick, vars
<1>3. ASSUME NEW t \in Threads, Disconnect(t) \/ Goodbye(t) \/ Send(t)
      PROVE  Shaken' /\ Returning'
  BY <1>2, <1>3, <1>t DEF Disconnect, Goodbye, SendGoodbye, CloseSocket, Part, Send
<1>4. CASE \E kind \in Kinds : Receive(kind)
  BY <1>4, <1>t DEF Receive
<1>5. CASE \/ Connect \/ ConnectRejected \/ ReceiveMalformed \/ WouldBlock
           \/ ReceiveOnClosed \/ Judge \/ Expire \/ KeepOn \/ NoBeat
  BY <1>5, <1>t DEF Connect, ConnectRejected, ReceiveMalformed, WouldBlock, ReceiveOnClosed,
     Judge, Expire, KeepOn, NoBeat
<1>6. CASE Decide \/ Beat \/ Tick \/ UNCHANGED vars
  BY <1>6, <1>t DEF Decide, Beat, Tick, vars
<1> QED BY <1>1, <1>3, <1>4, <1>5, <1>6 DEF Next, Work

-------------------------------------------------------------------------------
(* Who closes the socket *)

LEMMA ClosedStep ==
  ASSUME TypeOK, Shaken, ClosedByDisconnect, [Next]_vars
  PROVE  ClosedByDisconnect'
<1> USE DEF ClosedByDisconnect, At, Goto, Throw, Tell, Resume, IsOpen
<1>t. /\ "main" \in Threads /\ pc \in [Threads -> PCs] /\ parted \in [Threads -> Nat]
      /\ after \in {"Idle", "Deciding", "Beating"}
  BY DEF TypeOK, ThreadTypes, Threads
<1>1. ASSUME NEW t \in Threads, CloseSocket(t)
      PROVE  ClosedByDisconnect'
  <2>1. pc'[t] = "Parting"
    BY <1>1, <1>t DEF CloseSocket
  <2> QED BY <2>1
<1>2. ASSUME NEW t \in Threads, Part(t)
      PROVE  ClosedByDisconnect'
  <2>1. parted'[t] > 0
    BY <1>2, <1>t DEF Part
  <2> QED BY <2>1
\* Nobody else closes it or leaves Parting.
<1>3. CASE /\ socket' = "Closed" => socket = "Closed"
           /\ parted' = parted
           /\ \A t \in Threads : pc[t] = "Parting" => pc'[t] = "Parting"
  BY <1>3
<1>4. ASSUME NEW t \in Threads, SendGoodbye(t) \/ Disconnect(t) \/ Send(t)
      PROVE  ClosedByDisconnect'
  BY <1>3, <1>4, <1>t DEF SendGoodbye, Disconnect, Send
<1>5. CASE Decide
  <2>1. socket' = socket /\ parted' = parted
    BY <1>5 DEF Decide, Shaken
  <2>2. \A t \in Threads : pc[t] = "Parting" => pc'[t] = "Parting"
    BY <1>5, <1>t DEF Decide
  <2> QED BY <1>3, <2>1, <2>2
<1>6. CASE \E kind \in Kinds : Receive(kind)
  BY <1>3, <1>6, <1>t DEF Receive
<1>7. CASE \/ Process \/ ReceiveMalformed \/ ReceiveOnClosed \/ WouldBlock
           \/ Judge \/ Expire \/ KeepOn \/ Beat \/ NoBeat
  BY <1>3, <1>7, <1>t DEF Process, ReceiveMalformed, ReceiveOnClosed, WouldBlock,
     Judge, Expire, KeepOn, Beat, NoBeat
<1>8. CASE Connect \/ ConnectRejected \/ Tick \/ UNCHANGED vars
  BY <1>3, <1>8 DEF Connect, ConnectRejected, Tick, vars
<1> QED BY <1>1, <1>2, <1>4, <1>5, <1>6, <1>7, <1>8 DEF Next, Work, Goodbye

-------------------------------------------------------------------------------
(* The theorems *)

LEMMA IInvStep == IInv /\ [Next]_vars => IInv'
BY TypeStep, FarewellStep, JudgedStep, GivenUpStep, ShakenStep, ClosedStep DEF IInv

LEMMA Invariance == Spec => []IInv
BY InitIInv, IInvStep, PTL DEF Spec

\* The variables have their types.
THEOREM TypeCorrect == Spec => []TypeOK
<1>1. IInv => TypeOK
  BY DEF IInv
<1> QED BY <1>1, Invariance, PTL

\* No thread calls on_disconnect twice.
THEOREM PartsOnceCorrect == Spec => []PartsOnce
<1>1. IInv => PartsOnce
  BY DEF IInv
<1> QED BY <1>1, Invariance, PTL

\* Timeouts and Dormant states are reported of silent servers only.
THEOREM VerdictsCorrect == Spec => []VerdictsAreSound
<1>1. IInv => VerdictsAreSound
  BY DEF IInv, Judged
<1> QED BY <1>1, Invariance, PTL

\* Lines 106-113 of client.cpp are never reached with handshake_complete_ false.
LEMMA DeadlineCorrect == Spec => []DeadlineIsMoot
<1>1. IInv => DeadlineIsMoot
  BY DEF IInv, Shaken, DeadlineIsMoot, At
<1> QED BY <1>1, Invariance, PTL

\* on_timeout is not called again once a call of it has returned, whatever throws.
THEOREM TimesOutOnceCorrect == Spec => TimesOutOnce
<1>1. IInv /\ [Next]_vars => [event' = "Timeout" => after # "Beating"]_vars
  <2> SUFFICES ASSUME IInv, Next, event' = "Timeout", after = "Beating"
               PROVE  FALSE
    OBVIOUS
  <2>1. Decide \/ Expire
    BY DEF Next, Work, Goodbye, Connect, ConnectRejected, Process, Receive,
       ReceiveMalformed, ReceiveOnClosed, WouldBlock, Judge, KeepOn, Beat, NoBeat,
       Disconnect, SendGoodbye, CloseSocket, Part, Send, Tick, Throw, Tell, Quiet
  <2>2. pc["main"] \in {"Deciding", "Expiring"}
    BY <2>1 DEF Decide, Expire, At
  <2> QED BY <2>2 DEF IInv, GivenUp
<1> QED BY <1>1, Invariance, PTL DEF Spec, TimesOutOnce

\* process() throws for a closed socket only when a disconnect() has come to its
\* last line, whatever callbacks throw (client.cpp:148, 162-171, 202).
THEOREM ThrowsAfterPartingCorrect == Spec => ThrowsAfterParting
<1>1. IInv /\ [Next]_vars =>
        [event' = "ProcessThrew" /\ ~IsOpen =>
           \E t \in Threads : parted[t] > 0 \/ At(t, "Parting")]_vars
  BY DEF IInv, ClosedByDisconnect, IsOpen
<1> QED BY <1>1, Invariance, PTL DEF Spec, ThrowsAfterParting

===============================================================================
