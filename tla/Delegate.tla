------------------------------- MODULE Delegate --------------------------------
(***************************************************************************)
(* RF::delegate and RF::x11_delegate (src/render/interface/delegate.cpp,   *)
(* delegate/x11_delegate.cpp, dyfuncs/x11_dyfuncs.cpp): a delegate is made *)
(* in steps that may each fail, only one may exist, it owns a connection   *)
(* to the X server, and leads events to windows that the application may   *)
(* close or delete in any callback.                                        *)
(***************************************************************************)
EXTENDS Naturals, Sequences, SequencesExt

CONSTANTS
  Delegates,  \* objects that RF::delegate::create may make
  Windows,    \* windows that create_window may make
  MaxPolls    \* bound on the handlers under way, each polled for in a callback of the last

VARIABLES
  created,    \* delegate::created_
  object,     \* the delegates
  display,    \* display_ of each
  window,     \* the windows
  window_map, \* window_map_: the windows registered
  pc,         \* how far delegate::create has come; "idle" outside of it
  making,     \* the delegate it makes
  infos,      \* what current_video_mode has got from XRandR and not given back
  handling,   \* the windows whose handle_x11_event is under way, the innermost first
  alive,      \* the process runs
  left,       \* history: a probe's connection has been left open
  told,       \* history: the application has called terminate() of
  twice,      \* history: a connection has been closed twice
  touched,    \* history: a handler has gone on with a window that was deleted
  undercut    \* history: a window has been deleted with a handler of it under way

building == <<created, pc, making, infos, left>>
dispatch == <<handling, touched, undercut>>
vars == <<building, object, display, window, window_map, dispatch, alive, told, twice>>

NoDelegate == "no delegate"
Steps == {"dyfuncs", "connect", "resources", "output", "output_info", "crtc_info", "give_back",
          "base", "members", "display"}

NamesAssumption == NoDelegate \notin Delegates /\ MaxPolls \in Nat

TypeOK ==
  /\ {created, alive, left, twice, touched, undercut} \subseteq BOOLEAN
  /\ object \in [Delegates -> {"none", "made", "deleted"}]
  /\ display \in [Delegates -> {"null", "open", "closed"}]
  /\ window \in [Windows -> {"none", "open", "closed", "deleted"}]
  /\ window_map \subseteq Windows
  /\ pc \in Steps \cup {"idle"} /\ making \in Delegates \cup {NoDelegate}
  /\ infos \subseteq {"resources", "output_info", "crtc_info"}
  /\ handling \in Seq(Windows) /\ Len(handling) <= MaxPolls
  /\ told \subseteq Delegates

-------------------------------------------------------------------------------
(* delegate::create: the constructor of x11_delegate, lines 132-135        *)

\* delegate.cpp:28-39.  current_video_mode is called before anything is made.
Create(d) ==
  /\ alive /\ pc = "idle" /\ object[d] = "none"
  /\ pc' = "dyfuncs"
  /\ making' = d
  /\ UNCHANGED <<created, infos, left, object, display, window, window_map, dispatch, alive,
                 told, twice>>

Mut_Fail(given_back) ==
  /\ pc' = "idle"
  /\ making' = NoDelegate
  /\ infos' = infos \ given_back
  /\ UNCHANGED <<created, left>>

\* An exception leaves the constructor.  Once the base has been made its destructor
\* runs, delegate.cpp:25-26; the destructor of x11_delegate does not.
Fail(given_back) ==
  /\ pc' = "idle"
  /\ making' = NoDelegate
  /\ infos' = infos \ given_back
  /\ created' = (created /\ pc # "members")
  /\ UNCHANGED left

Goes(next) ==
  /\ pc' = next
  /\ UNCHANGED <<created, making, left>>

Others == UNCHANGED <<object, display, window, window_map, dispatch, told, twice>>

\* get_x11_dyfuncs (x11_dyfuncs.cpp:9-67), for the probe and for the member: a
\* library or one of its functions may be missing.
GetDyfuncs ==
  /\ \/ pc = "dyfuncs" /\ Goes("connect") /\ UNCHANGED infos
     \/ pc = "members" /\ Goes("display") /\ UNCHANGED infos
     \/ pc \in {"dyfuncs", "members"} /\ Fail({})
  /\ UNCHANGED alive /\ Others

\* Lines 23-25: a connection that is not closed, or none, of which DefaultRootWindow
\* reads all the same.
Connect ==
  /\ pc = "connect"
  /\ \/ pc' = "resources" /\ left' = TRUE /\ UNCHANGED <<created, making, infos, alive>>
     \/ alive' = FALSE /\ UNCHANGED building
  /\ Others

\* Lines 27-80: four questions to XRandR, each with what is given back when there is
\* no answer.  An output without a CRTC is given back at once, line 44.
Probe ==
  /\ \/ pc = "resources" /\ Goes("output") /\ infos' = infos \cup {"resources"}
     \/ pc = "resources" /\ Fail({})
     \/ pc = "output" /\ Goes("output_info") /\ UNCHANGED infos
     \/ pc = "output" /\ Fail({"resources"})
     \/ pc = "output_info" /\ Goes("crtc_info") /\ infos' = infos \cup {"output_info"}
     \/ pc = "output_info" /\ Fail({"resources"})
     \/ pc = "crtc_info" /\ Goes("give_back") /\ infos' = infos \cup {"crtc_info"}
     \/ pc = "crtc_info" /\ Fail({"output_info", "resources"})
     \/ pc = "give_back" /\ Goes("base") /\ infos' = {}
  /\ UNCHANGED alive /\ Others

\* delegate.cpp:17-23.
MakeBase ==
  /\ pc = "base"
  /\ \/ created /\ Fail({})
     \/ /\ ~created /\ created' = TRUE
        /\ pc' = "members"
        /\ UNCHANGED <<making, infos, left>>
  /\ UNCHANGED alive /\ Others

\* Line 134.  There may be no connection: only get_x11_display looks.
OpenDisplay ==
  /\ pc = "display"
  /\ \E is \in {"open", "null"} : display' = [display EXCEPT ![making] = is]
  /\ object' = [object EXCEPT ![making] = "made"]
  /\ pc' = "idle"
  /\ making' = NoDelegate
  /\ UNCHANGED <<created, infos, left, window, window_map, dispatch, alive, told, twice>>

-------------------------------------------------------------------------------
(* The application                                                         *)

AppRuns == alive /\ pc = "idle"
Made(d) == object[d] = "made"

\* Lines 11-14.  display_ keeps its value; Xlib reads what it is given.
CloseDisplay(d) ==
  /\ alive' = (display[d] # "null")
  /\ twice' = (twice \/ display[d] = "closed")
  /\ display' = [display EXCEPT ![d] = IF @ = "open" THEN "closed" ELSE @]

Terminate(d) ==
  /\ AppRuns /\ Made(d)
  /\ CloseDisplay(d)
  /\ told' = told \cup {d}
  /\ UNCHANGED <<building, object, window, window_map, dispatch>>

\* Lines 6-9 and delegate.cpp:25-26.  Its windows are deleted before, and its
\* poll_events() has returned.
Delete(d) ==
  /\ AppRuns /\ Made(d) /\ handling = <<>>
  /\ \A w \in Windows : window[w] \in {"none", "deleted"}
  /\ CloseDisplay(d)
  /\ object' = [object EXCEPT ![d] = "deleted"]
  /\ created' = FALSE
  /\ UNCHANGED <<pc, making, infos, left, window, window_map, dispatch, told>>

\* Lines 180-183 and 137-140, x11_window.cpp:7-72.  get_x11_display throws when
\* display_ is null, and after terminate() it gives what has been closed.
CreateWindow(w) ==
  /\ AppRuns /\ window[w] = "none"
  /\ \E d \in Delegates : Made(d) /\ display[d] = "open"
  /\ window' = [window EXCEPT ![w] = "open"]
  /\ window_map' = window_map \cup {w}
  /\ UNCHANGED <<building, object, display, dispatch, alive, told, twice>>

\* Lines 142-145 and x11_window.cpp:253-273: close(), and the destructor, which calls
\* it.  An open window needs the connection; a closed one only the delegate, which
\* close() asks for the display before it finds that there is nothing to do.
EndWindow(w, how) ==
  /\ AppRuns
  /\ \E d \in Delegates : Made(d) /\ (window[w] = "open" => display[d] = "open")
  /\ window[w] = "open" \/ (how = "deleted" /\ window[w] = "closed")
  /\ window' = [window EXCEPT ![w] = how]
  /\ window_map' = window_map \ {w}
  /\ undercut' = (undercut \/ (how = "deleted" /\ Contains(handling, w)))
  /\ UNCHANGED <<building, object, display, handling, touched, alive, told, twice>>

\* Lines 147-171.  An event is for a window the server still knew when it was sent;
\* one that is not in the map is dropped.  A callback may poll again, so that handlers
\* of this window and of others nest.
Dispatch(w) ==
  /\ AppRuns /\ Len(handling) < MaxPolls /\ w \in window_map
  /\ \E d \in Delegates : Made(d) /\ display[d] = "open"
  /\ handling' = <<w>> \o handling
  /\ UNCHANGED <<building, object, display, window, window_map, touched, undercut, alive, told,
                 twice>>

\* Line 165: the handler goes on after the callback, of which it knows only that it is
\* over; or an exception of the callback ends it there.
HandlerReturns ==
  /\ AppRuns /\ handling # <<>>
  /\ handling' = Tail(handling)
  /\ touched' \in {touched, touched \/ window[Head(handling)] = "deleted"}
  /\ UNCHANGED <<building, object, display, window, window_map, undercut, alive, told, twice>>

Init ==
  /\ created = FALSE
  /\ object = [d \in Delegates |-> "none"]
  /\ display = [d \in Delegates |-> "null"]
  /\ window = [w \in Windows |-> "none"]
  /\ window_map = {}
  /\ pc = "idle"
  /\ making = NoDelegate
  /\ infos = {}
  /\ handling = <<>>
  /\ alive = TRUE
  /\ left = FALSE
  /\ told = {}
  /\ twice = FALSE
  /\ touched = FALSE
  /\ undercut = FALSE

Building == alive /\ (GetDyfuncs \/ Connect \/ Probe \/ MakeBase \/ OpenDisplay)

Next ==
  \/ Building
  \/ \E d \in Delegates : Create(d) \/ Terminate(d) \/ Delete(d)
  \/ \E w \in Windows : \/ CreateWindow(w) \/ Dispatch(w)
                        \/ \E how \in {"closed", "deleted"} : EndWindow(w, how)
  \/ HandlerReturns

Spec == Init /\ [][Next]_vars

-------------------------------------------------------------------------------
(* Properties                                                              *)

\* created_ says whether there is a delegate, however far the making of one has come
\* before it failed, so that there is never a second one and, after a failure or a
\* delete, always another chance; what XRandR gave is given back on all the ways out
\* of current_video_mode; the map knows the open windows only, and a handler outlives
\* its window only when that is deleted in a callback of its own handler or of one that
\* was polled for inside it; and a connection is closed twice only after the application
\* called terminate() before it deleted the delegate.
DelegateIsAccounted ==
  /\ created <=> pc \in {"members", "display"} \/ \E d \in Delegates : object[d] = "made"
  /\ \A d, e \in Delegates : object[d] = "made" /\ object[e] = "made" => d = e
  /\ alive /\ pc \in {"idle", "base", "members", "display"} => infos = {}
  /\ window_map = {w \in Windows : window[w] = "open"}
  /\ touched => undercut
  /\ twice => told # {}

===============================================================================
