------------------------------ MODULE NetClient -------------------------------
(***************************************************************************)
(* RF::net::client (src/src/net/client.cpp) as its owner uses it: the main *)
(* thread calls connect() and then process() over and over; an input       *)
(* thread may send and disconnect meanwhile (test/net/client.cpp:57-97).   *)
(* Nothing in the class is locked, so pc has one entry per thread and the  *)
(* two interleave between any two socket calls and callbacks.  A callback  *)
(* that calls disconnect() itself is one such interleaving.                *)
(*                                                                         *)
(* Time is kept as saturating ages, as in NetServer.  The members conn_state_ *)
(* and server_socket_state_ have no initialiser: what they hold before     *)
(* connect() is any member of InitialConn and any socket state.            *)
(*                                                                         *)
(* A callback table throws after all its callables have run (CallbackTable): *)
(* with throws the call a callback is made from may end there.  event is   *)
(* that callback all the same.                                             *)
(***************************************************************************)
EXTENDS Integers

CONSTANTS
  HeartbeatInterval,   \* heartbeat_interval_
  HeartbeatTimeout,    \* heartbeat_timeout_: then the server is Dormant
  ServerTimeout,       \* server_timeout_: then the server is given up
  InitialConn,         \* what conn_state_ may hold before connect()
  Throws,              \* may throws be FALSE, TRUE, either?
  InputThread          \* is there a second thread?

ASSUME DurationAssumption ==
  /\ HeartbeatInterval \in Nat
  /\ HeartbeatTimeout \in Nat
  /\ ServerTimeout \in Nat

ConnStates == {"Disconnected", "Connecting", "Connected"}

ASSUME InitialAssumption == InitialConn \subseteq ConnStates

ASSUME ThreadAssumption == InputThread \in BOOLEAN

ASSUME ThrowsAssumption == Throws \subseteq BOOLEAN

VARIABLES
  throws,        \* the application's callbacks may throw
  conn,          \* conn_state_
  serverState,   \* server_socket_state_
  handshake,     \* handshake_complete_
  socket,        \* the UDP socket: Blocking, NonBlocking or Closed
  sinceHeard,    \* now - last_heartbeat_received_
  sinceSent,     \* now - last_heartbeat_sent_
  overdue,       \* now >= connect_deadline_
  pc,            \* where each thread is
  heardAge,      \* process(): now - last_heartbeat_received_ when now was read
  sentAge,       \* process(): now - last_heartbeat_sent_ when now was read
  sinceNow,      \* the time passed since now was read
  after,         \* where the main thread goes on after disconnect()
  sent,          \* the kinds of datagram the last step gave to the socket
  event,         \* the callback or exception the last step delivered
  asked,         \* history: was a connect() accepted?
  heard,         \* history: has a datagram come in since?
  parted         \* history: how often each thread has called on_disconnect

stateVars == <<throws, conn, serverState, handshake, asked>>
clockVars == <<sinceHeard, sinceSent, overdue>>
passVars  == <<heardAge, sentAge, sinceNow, after>>
vars == <<throws, conn, serverState, handshake, asked, socket, sinceHeard, sinceSent,
          overdue, pc, heardAge, sentAge, sinceNow, after, sent, event, heard,
          parted>>

-------------------------------------------------------------------------------
(* Types *)

Threads == {"main", "input"}

SocketStates == {"Aroused", "Dormant"}

Kinds == {"Application", "Disconnect", "SetAgent", "Heartbeat"}

\* Leaving, Closing and Parting are the three parts of disconnect().
PCs == {"Idle", "Receiving", "Deciding", "Judging", "Expiring", "Beating",
        "Leaving", "Closing", "Parting"}

Events == {"Nothing", "ConnState", "ServerState", "Receive", "Timeout",
           "Disconnect", "Rejected", "ProcessThrew", "CallThrew"}

MaxSilence == (IF HeartbeatTimeout > ServerTimeout
               THEN HeartbeatTimeout ELSE ServerTimeout) + 1
MaxQuiet == HeartbeatInterval + 1

Older(age, cap) == IF age < cap THEN age + 1 ELSE age

ConnTypes ==
  /\ conn \in ConnStates
  /\ serverState \in SocketStates
  /\ socket \in {"Blocking", "NonBlocking", "Closed"}

FlagTypes ==
  /\ throws \in BOOLEAN
  /\ handshake \in BOOLEAN
  /\ overdue \in BOOLEAN
  /\ asked \in BOOLEAN
  /\ heard \in BOOLEAN

ClockTypes ==
  /\ sinceHeard \in 0 .. MaxSilence
  /\ heardAge \in 0 .. MaxSilence
  /\ sinceSent \in 0 .. MaxQuiet
  /\ sentAge \in 0 .. MaxQuiet
  /\ sinceNow \in 0 .. MaxQuiet

ThreadTypes ==
  /\ pc \in [Threads -> PCs]
  /\ after \in {"Idle", "Deciding", "Beating"}
  /\ parted \in [Threads -> Nat]

OutputTypes ==
  /\ sent \subseteq Kinds
  /\ event \in Events

TypeOK == ConnTypes /\ FlagTypes /\ ClockTypes /\ ThreadTypes /\ OutputTypes

-------------------------------------------------------------------------------
(* Parts of the calls *)

At(t, here) == pc[t] = here

Goto(t, there) == pc' = [pc EXCEPT ![t] = there]

Quiet == sent' = {} /\ event' = "Nothing"

Tell(what) == sent' = {} /\ event' = what

\* An exception leaves process() or disconnect(): for a call on the closed socket
\* it is asio::system_error (bad descriptor).
Throw(t, what) == Goto(t, "Idle") /\ Tell(what)

\* A callback has been called: the code goes on at there, or is left by what it threw.
Resume(t, there) == Goto(t, there) \/ (throws /\ Goto(t, "Idle"))

IsOpen == socket # "Closed"

\* From connect() on a datagram may come, on a socket that is blocking or not; before,
\* nobody knows the port.
Hears == IsOpen /\ asked

-------------------------------------------------------------------------------
Init ==
  /\ throws \in Throws
  /\ conn \in InitialConn
  /\ serverState \in SocketStates
  /\ handshake = FALSE
  /\ socket = "Blocking"
  /\ sinceHeard = 0 /\ sinceSent = 0 /\ overdue = FALSE
  /\ pc = [t \in Threads |-> "Idle"]
  /\ heardAge = 0 /\ sentAge = 0 /\ sinceNow = 0 /\ after = "Idle"
  /\ sent = {} /\ event = "Nothing"
  /\ asked = FALSE
  /\ heard = FALSE
  /\ parted = [t \in Threads |-> 0]

\* connect(): the socket becomes non-blocking and SetAgent goes out at once.  On a
\* socket that is closed already, non_blocking throws after the state change; when a
\* callback throws, the socket stays blocking and process() will wait for a datagram.
\* One step: the input thread's calls do not come between lines 35 and 38.
Connect ==
  /\ At("main", "Idle")
  /\ conn = "Disconnected"
  /\ conn' = "Connecting"
  /\ sinceHeard' = 0 /\ sinceSent' = 0 /\ overdue' = FALSE
  /\ asked' = TRUE
  /\ \/ /\ socket' = IF IsOpen THEN "NonBlocking" ELSE "Closed"
        /\ sent' = IF IsOpen THEN {"SetAgent"} ELSE {}
        /\ event' = IF IsOpen THEN "ConnState" ELSE "CallThrew"
     \/ throws /\ Tell("ConnState") /\ UNCHANGED socket
  /\ heard' = FALSE
  /\ UNCHANGED <<throws, serverState, handshake, pc, passVars, parted>>

\* connect() throws "Client already connecting or connected."
ConnectRejected ==
  /\ At("main", "Idle")
  /\ conn # "Disconnected"
  /\ Tell("Rejected")
  /\ UNCHANGED <<stateVars, clockVars, socket, pc, passVars, heard, parted>>

\* process() is called; receive_all begins by declaring the handshake complete.
Process ==
  /\ At("main", "Idle")
  /\ Goto("main", "Receiving")
  /\ handshake' = TRUE
  /\ Quiet
  /\ UNCHANGED <<throws, conn, serverState, asked, clockVars, socket, passVars, heard,
                 parted>>

\* A datagram, from whatever sender.
Receive(kind) ==
  /\ At("main", "Receiving")
  /\ Hears
  /\ sinceHeard' = 0
  /\ heard' = TRUE
  /\ IF kind = "Application" THEN Tell("Receive") /\ Resume("main", "Receiving")
     ELSE Quiet /\ Goto("main", IF kind = "Disconnect" THEN "Leaving" ELSE "Receiving")
  /\ after' = IF kind = "Disconnect" THEN "Deciding" ELSE after
  /\ UNCHANGED <<stateVars, sinceSent, overdue, socket, heardAge, sentAge,
                 sinceNow, parted>>

\* deserialize_internal throws before the datagram counts as a sign of life.
ReceiveMalformed ==
  /\ At("main", "Receiving")
  /\ Hears
  /\ Throw("main", "ProcessThrew")
  /\ UNCHANGED <<stateVars, clockVars, socket, passVars, heard, parted>>

\* receive_from on the closed socket: the error is rethrown.
ReceiveOnClosed ==
  /\ At("main", "Receiving")
  /\ ~IsOpen
  /\ Throw("main", "ProcessThrew")
  /\ UNCHANGED <<stateVars, clockVars, socket, passVars, heard, parted>>

\* No more data: receive_all returns.
WouldBlock ==
  /\ At("main", "Receiving")
  /\ socket = "NonBlocking"
  /\ Goto("main", "Deciding")
  /\ Quiet
  /\ UNCHANGED <<stateVars, clockVars, socket, passVars, heard, parted>>

-------------------------------------------------------------------------------
(* process() after receive_all *)

\* now is read and a Connecting client decides: connected, or given up.
Decide ==
  /\ At("main", "Deciding")
  /\ sentAge' = sinceSent
  /\ sinceNow' = 0
  /\ IF conn = "Connecting" /\ handshake
     THEN /\ conn' = "Connected"
          /\ Resume("main", "Judging")
          /\ sinceHeard' = IF At("main", "Judging")' THEN 0 ELSE sinceHeard
          /\ heardAge' = sinceHeard'
          /\ Tell("ConnState")
          /\ UNCHANGED socket
     ELSE /\ heardAge' = sinceHeard
          /\ UNCHANGED sinceHeard
          /\ IF conn = "Connecting" /\ overdue
             THEN \E told \in {"Timeout"} \cup (IF throws THEN {"ConnState"} ELSE {}) :
                    /\ conn' = "Disconnected"
                    /\ socket' = IF told = "Timeout" THEN "Closed" ELSE socket
                    /\ Throw("main", told)
             ELSE /\ Goto("main", IF conn = "Connected" THEN "Judging" ELSE "Idle")
                  /\ Quiet
                  /\ UNCHANGED <<conn, socket>>
  /\ UNCHANGED <<throws, serverState, handshake, asked, sinceSent, overdue, after, heard,
                 parted>>

\* The server is Dormant or Aroused by the age read at now.
Judge ==
  /\ At("main", "Judging")
  /\ serverState' = IF heardAge > HeartbeatTimeout THEN "Dormant" ELSE "Aroused"
  /\ IF serverState' # serverState
     THEN Tell("ServerState") /\ Resume("main", "Expiring")
     ELSE Quiet /\ Goto("main", "Expiring")
  /\ UNCHANGED <<throws, conn, handshake, asked, clockVars, socket, passVars, heard, parted>>

\* Mutant: >= instead of >.
Mut_Expire ==
  /\ At("main", "Expiring")
  /\ heardAge >= ServerTimeout
  /\ Tell("Timeout")
  /\ Goto("main", "Leaving")
  /\ after' = "Beating"
  /\ UNCHANGED <<stateVars, clockVars, socket, heardAge, sentAge, sinceNow, heard,
                 parted>>

\* Mutant: on_timeout without disconnect().
Mut_ExpireOnly ==
  /\ At("main", "Expiring")
  /\ heardAge > ServerTimeout
  /\ Tell("Timeout")
  /\ Goto("main", "Beating")
  /\ after' = "Beating"
  /\ UNCHANGED <<stateVars, clockVars, socket, heardAge, sentAge, sinceNow, heard,
                 parted>>

\* Mutant: the socket is closed before disconnect() sends its message.
Mut_ExpireClosing ==
  /\ At("main", "Expiring")
  /\ heardAge > ServerTimeout
  /\ Tell("Timeout")
  /\ Goto("main", "Leaving")
  /\ after' = "Beating"
  /\ socket' = "Closed"
  /\ UNCHANGED <<stateVars, clockVars, heardAge, sentAge, sinceNow, heard, parted>>

\* The server is given up: on_timeout, then disconnect(), then the rest of process().
\* When on_timeout throws there is no disconnect(), and the next pass calls it again.
Expire ==
  /\ At("main", "Expiring")
  /\ heardAge > ServerTimeout
  /\ Tell("Timeout")
  /\ Resume("main", "Leaving")
  /\ after' = IF At("main", "Leaving")' THEN "Beating" ELSE after
  /\ UNCHANGED <<stateVars, clockVars, socket, heardAge, sentAge, sinceNow, heard,
                 parted>>

KeepOn ==
  /\ At("main", "Expiring")
  /\ ~(heardAge > ServerTimeout)
  /\ Goto("main", "Beating")
  /\ Quiet
  /\ UNCHANGED <<stateVars, clockVars, socket, passVars, heard, parted>>

\* Mutant: the heartbeat carries the id of another internal message.
Mut_BeatKind ==
  /\ At("main", "Beating")
  /\ sentAge > HeartbeatInterval
  /\ IF IsOpen
     THEN /\ sent' = {"Disconnect"} /\ event' = "Nothing"
          /\ sinceSent' = sinceNow
          /\ Goto("main", "Idle")
     ELSE Throw("main", "ProcessThrew") /\ UNCHANGED sinceSent
  /\ UNCHANGED <<stateVars, sinceHeard, overdue, socket, passVars, heard, parted>>

\* The heartbeat is due: it is sent, or throws because the socket is closed.
Beat ==
  /\ At("main", "Beating")
  /\ sentAge > HeartbeatInterval
  /\ IF IsOpen
     THEN /\ sent' = {"Heartbeat"} /\ event' = "Nothing"
          /\ sinceSent' = sinceNow
          /\ Goto("main", "Idle")
     ELSE Throw("main", "ProcessThrew") /\ UNCHANGED sinceSent
  /\ UNCHANGED <<stateVars, sinceHeard, overdue, socket, passVars, heard, parted>>

\* Mutant: last_heartbeat_sent_ = now on every pass.
Mut_NoBeat ==
  /\ At("main", "Beating")
  /\ ~(sentAge > HeartbeatInterval)
  /\ sinceSent' = sinceNow
  /\ Goto("main", "Idle")
  /\ Quiet
  /\ UNCHANGED <<stateVars, sinceHeard, overdue, socket, passVars, heard, parted>>

NoBeat ==
  /\ At("main", "Beating")
  /\ ~(sentAge > HeartbeatInterval)
  /\ Goto("main", "Idle")
  /\ Quiet
  /\ UNCHANGED <<stateVars, clockVars, socket, passVars, heard, parted>>

-------------------------------------------------------------------------------
(* disconnect(), in either thread, and send() *)

\* The user calls disconnect() from the main thread or the input thread.
Disconnect(t) ==
  /\ At(t, "Idle") /\ asked
  /\ t = "input" => InputThread
  /\ Goto(t, "Leaving")
  /\ after' = IF t = "main" THEN "Idle" ELSE after
  /\ Quiet
  /\ UNCHANGED <<stateVars, clockVars, socket, heardAge, sentAge, sinceNow, heard,
                 parted>>

\* Mutant: an error of the send is ignored.
Mut_SendGoodbye(t) ==
  /\ At(t, "Leaving")
  /\ Quiet
  /\ Goto(t, "Closing")
  /\ UNCHANGED <<stateVars, clockVars, socket, passVars, heard, parted>>

\* The Disconnect message is sent, unless the socket is closed.
SendGoodbye(t) ==
  /\ At(t, "Leaving")
  /\ IF IsOpen
     THEN /\ sent' = {"Disconnect"} /\ event' = "Nothing"
          /\ Goto(t, "Closing")
     ELSE Throw(t, IF t = "main" /\ after # "Idle" THEN "ProcessThrew" ELSE "CallThrew")
  /\ UNCHANGED <<stateVars, clockVars, socket, passVars, heard, parted>>

CloseSocket(t) ==
  /\ At(t, "Closing")
  /\ socket' = "Closed"
  /\ Goto(t, "Parting")
  /\ Quiet
  /\ UNCHANGED <<stateVars, clockVars, passVars, heard, parted>>

\* on_disconnect is called; conn_state_ stays as it is.
Part(t) ==
  /\ At(t, "Parting")
  /\ Resume(t, IF t = "main" THEN after ELSE "Idle")
  /\ Tell("Disconnect")
  /\ parted' = [parted EXCEPT ![t] = @ + 1]
  /\ UNCHANGED <<stateVars, clockVars, socket, passVars, heard>>

\* send(), by the main thread between two calls or by the input thread.
Send(t) ==
  /\ At(t, "Idle") /\ asked
  /\ t = "input" => InputThread
  /\ IF IsOpen THEN sent' = {"Application"} /\ event' = "Nothing"
               ELSE Tell("CallThrew")
  /\ UNCHANGED <<stateVars, clockVars, socket, pc, passVars, heard, parted>>

\* Time passes at any point of any call; the deadline of connect() comes.
Tick ==
  /\ sinceHeard' = Older(sinceHeard, MaxSilence)
  /\ sinceSent' = Older(sinceSent, MaxQuiet)
  /\ sinceNow' = Older(sinceNow, MaxQuiet)
  /\ overdue' \in {overdue, TRUE}
  /\ Quiet
  /\ UNCHANGED <<stateVars, socket, pc, heardAge, sentAge, after, heard, parted>>

-------------------------------------------------------------------------------
Goodbye(t) == SendGoodbye(t) \/ CloseSocket(t) \/ Part(t)

\* What the code does by itself once process() or disconnect() is called.
Work == ReceiveOnClosed \/ Decide \/ Judge \/ Expire \/ KeepOn \/ Beat \/ NoBeat

Next ==
  \/ Connect
  \/ ConnectRejected
  \/ Process
  \/ \E kind \in Kinds : Receive(kind)
  \/ ReceiveMalformed
  \/ WouldBlock
  \/ Work
  \/ \E t \in Threads : Disconnect(t) \/ Goodbye(t) \/ Send(t)
  \/ Tick

Spec == Init /\ [][Next]_vars

\* The owner connects once and goes on calling process(); both threads run; the
\* clock ticks; datagrams are handled faster than they come (see NetServer).
Fairness ==
  /\ WF_vars(Connect)
  /\ WF_vars(Process)
  /\ SF_vars(WouldBlock)
  /\ WF_vars(Work)
  /\ \A t \in Threads : WF_vars(Goodbye(t))
  /\ WF_vars(Tick)

FairSpec == Spec /\ Fairness

-------------------------------------------------------------------------------
(* What makes the client correct *)

\* on_timeout and the Dormant state rest on a time read earlier in the pass; when
\* they are reported the server has in truth been silent that long.
VerdictsAreSound ==
  /\ event = "Timeout" /\ conn = "Connected" => sinceHeard > ServerTimeout
  /\ At("main", "Expiring") /\ serverState = "Dormant" => sinceHeard > HeartbeatTimeout

\* However disconnect(), a Disconnect message and the timeout follow each other,
\* each thread reports the end of the connection once at most: the send that
\* comes first in disconnect() throws on a socket that was closed before.
PartsOnce == \A t \in Threads : parted[t] <= 1

\* process() throws because the socket is closed only when some disconnect() has
\* run to its last line: on_disconnect has been called, or the other thread is
\* about to call it.
ThrowsAfterParting ==
  [][event' = "ProcessThrew" /\ ~IsOpen =>
       \E t \in Threads : parted[t] > 0 \/ At(t, "Parting")]_vars

\* on_timeout is called no more once a call of it has returned: after = "Beating"
\* from then on, unless the main thread calls disconnect() again.
TimesOutOnce == [][event' = "Timeout" => after # "Beating"]_vars

\* The connection deadline never matters (lines 106-113): whoever reads it has run
\* receive_all, which completed the handshake by itself (line 194).
DeadlineIsMoot == At("main", "Deciding") => handshake

Hearing == sinceHeard = 0 /\ heard

\* A server that is silent for ever is noticed: the connection is closed.  When
\* callbacks throw, on_timeout is called at least, again and again.
SilenceIsNoticed ==
  <>[]~Hearing =>
    [](asked /\ conn = "Connected" =>
         <>(socket = "Closed" \/ (throws /\ event = "Timeout")))

\* A connected client whose callbacks do not throw never stops sending heartbeats
\* while it is open.
KeepsBeating ==
  [](asked /\ conn = "Connected" /\ ~throws =>
       <>("Heartbeat" \in sent \/ socket = "Closed"))

\* client.cpp:187: "after sending agent, we expect server responses": a client
\* that calls itself connected has had one.
ConnectedMeansHeard == asked /\ conn = "Connected" => heard

\* test/net/client.cpp:51-55 ends its process() loop in the timeout callback, so
\* the process() that gave the server up and closed the socket returns.
TimeoutPassReturns ==
  [][event' = "ProcessThrew" /\ after = "Beating" => ~At("main", "Beating")]_vars

===============================================================================
