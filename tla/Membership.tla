------------------------------ MODULE Membership ------------------------------
(***************************************************************************)
(* What RF::net::server promises the application that registers callbacks  *)
(* with it: per endpoint, on_connect opens a session, on_disconnect closes *)
(* it, and the receive and state-change callbacks only come in between.    *)
(* view[e] is what the callbacks have told the application about endpoint  *)
(* e so far; event is the callback delivered by the last step.             *)
(***************************************************************************)
CONSTANT Endpoints    \* the UDP endpoints clients may send from

VARIABLES view, event

memberVars == <<view, event>>

Views == {"Absent", "Aroused", "Dormant"}

\* The callbacks an application can register; on_disconnect has two reasons.
Callbacks == {"Connect", "Receive", "StateChange", "Voluntary", "Timeout"}

Events == [what : Callbacks, who : Endpoints]

NoEvent == [what |-> "Nothing"]

MemberTypeOK ==
  /\ view \in [Endpoints -> Views]
  /\ event \in Events \cup {NoEvent}

Deliver(what, e, v) ==
  /\ event' = [what |-> what, who |-> e]
  /\ view' = [view EXCEPT ![e] = v]

-------------------------------------------------------------------------------

MemberInit ==
  /\ view = [e \in Endpoints |-> "Absent"]
  /\ event = NoEvent

\* on_connect: only for an endpoint without a session, which starts Aroused.
OnConnect(e) ==
  /\ view[e] = "Absent"
  /\ Deliver("Connect", e, "Aroused")

\* on_receive: only inside a session.
OnReceive(e) ==
  /\ view[e] # "Absent"
  /\ Deliver("Receive", e, view[e])

\* on_state_change: only inside a session, and only when the state changes.
OnStateChange(e) ==
  \E s \in {"Aroused", "Dormant"} :
    /\ view[e] \notin {"Absent", s}
    /\ Deliver("StateChange", e, s)

\* on_disconnect: exactly one per session, whatever the reason.
OnDisconnect(e) ==
  \E reason \in {"Voluntary", "Timeout"} :
    /\ view[e] # "Absent"
    /\ Deliver(reason, e, "Absent")

\* The server works without telling the application anything.
Silence == event' = NoEvent /\ UNCHANGED view

MemberNext ==
  \/ Silence
  \/ \E e \in Endpoints :
       OnConnect(e) \/ OnReceive(e) \/ OnStateChange(e) \/ OnDisconnect(e)

MemberSpec == MemberInit /\ [][MemberNext]_memberVars
===============================================================================
