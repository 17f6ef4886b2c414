------------------------------ MODULE X11Window -------------------------------
(***************************************************************************)
(* RF::x11_window and the event loop of RF::x11_delegate                   *)
(* (src/render/interface/window/x11_window.cpp, window.cpp,                *)
(* delegate/x11_delegate.cpp): one window, the X server with the window    *)
(* manager, and the application that polls for events.                     *)
(*                                                                         *)
(* A handler calls back into the application, and the application may poll *)
(* for events, change the Fullscreen flag or close the window inside any   *)
(* callback: the program is a stack of calls, the last one on top.  What a *)
(* handler does between two callbacks is one step.                         *)
(***************************************************************************)
EXTENDS Naturals, Sequences, Functions

CONSTANTS
  Keys,       \* virtual keys and mouse keys, whose handlers are the same
  Fails,      \* BOOLEAN: XRandR may refuse to switch the display mode
  MaxQueue,   \* bound on the events of user and window manager in the queue
  MaxDepth    \* bound on the calls that poll_events may be nested in

VARIABLES
  state,      \* state_
  flag,       \* window_flag_bit_t::Fullscreen in flags_
  keys,       \* virtual_key_states_ and mouse_key_states_
  open,       \* window_ # 0, and registered in window_map_
  stack,      \* the calls under way
  alive,      \* Xlib has not ended the process
  mapped,     \* X: the window is viewable
  focused,    \* X: it has the input focus
  mode,       \* X: the display mode
  iconify,    \* a request of minimise() the window manager has not seen yet
  queue,      \* events sent and not yet read
  last,       \* history: per key, the last event handled
  seen,       \* history: an event has told the window its state
  excuse      \* history: why mode need not fit state since the last switch

program == <<state, flag, keys, open, stack, alive>>
screen  == <<mapped, focused, mode, iconify, queue>>
history == <<last, seen, excuse>>
vars    == <<program, screen, history>>

WindowStates == {"Hidden", "Visible", "Focused"}
KeyStates    == {"Inactive", "Triggered", "Ongoing", "Suppressed"}

\* Events about the window, and events about a key.
WindowEvents == {"FocusIn", "FocusOut", "UnmapNotify", "MapNotify", "ClientMessage"}
KeyEvents    == {"KeyPress", "KeyRelease"}
Events == [type : WindowEvents] \cup [type : KeyEvents, key : Keys]
Event(type) == [type |-> type]

\* Calls: poll_events, and the callbacks, by what the handler has to do after
\* them.  StateTold: lines 84-96.  DownTold: lines 580-586.  UpTold: line 605.
\* Told: nothing.
Frames ==
  [fn : {"Poll", "Told"}] \cup [fn : {"StateTold"}, new : WindowStates]
    \cup [fn : {"DownTold", "UpTold"}, key : Keys]
Callbacks == {"StateTold", "DownTold", "UpTold", "Told"}
Poll == [fn |-> "Poll"]
Told == [fn |-> "Told"]
StateTold(new) == [fn |-> "StateTold", new |-> new]
DownTold(k)    == [fn |-> "DownTold", key |-> k]
UpTold(k)      == [fn |-> "UpTold", key |-> k]

TypeOK ==
  /\ state \in WindowStates
  /\ {flag, open, alive, mapped, focused, iconify, seen} \subseteq BOOLEAN
  /\ keys \in [Keys -> KeyStates]
  /\ stack \in Seq(Frames)
  /\ mode \in {"desktop", "full"}
  /\ queue \in Seq(Events)
  /\ last \in [Keys -> {"none", "press", "release", "overtaken", "lost"}]
  /\ excuse \in {"none", "forced", "stale", "failed"}
  /\ focused => mapped

-------------------------------------------------------------------------------
(* The stack                                                               *)

Depth == Len(stack)
Top == stack[Depth]
Push(frame) == Append(stack, frame)
Pop == SubSeq(stack, 1, Depth - 1)

Inside(frame) == frame \in Range(stack)
InCallback == stack # <<>> /\ Top.fn \in Callbacks

\* The application's own code runs: its main loop or a callback.
AppRuns == alive /\ (stack = <<>> \/ InCallback)

\* An exception leaves the calls above depth d: a callback catches it there, or
\* the main loop does, at depth 0.
Catchers(deepest) == {0} \cup {d \in 1 .. deepest : stack[d].fn \in Callbacks}

Unwind(d) ==
  /\ stack' = SubSeq(stack, 1, d)
  /\ last' = [k \in Keys |->
                IF \E i \in d + 1 .. Depth : stack[i] \in {DownTold(k), UpTold(k)}
                THEN "lost" ELSE last[k]]

-------------------------------------------------------------------------------
(* X: what the server and the window manager do to the window, in any      *)
(* order the user likes                                                    *)

Send(events) == queue' = queue \o events
Room == alive /\ open /\ Len(queue) < MaxQueue

Map ==
  /\ Room /\ ~mapped
  /\ mapped' = TRUE
  /\ Send(<<Event("MapNotify")>>)
  /\ UNCHANGED <<program, history, focused, mode, iconify>>

GiveFocus ==
  /\ Room /\ mapped /\ ~focused
  /\ focused' = TRUE
  /\ Send(<<Event("FocusIn")>>)
  /\ UNCHANGED <<program, history, mapped, mode, iconify>>

TakeFocus ==
  /\ Room /\ focused
  /\ focused' = FALSE
  /\ Send(<<Event("FocusOut")>>)
  /\ UNCHANGED <<program, history, mapped, mode, iconify>>

\* The user or, on request, the window manager turns the window into an icon.
\* The focus goes before or after.
Iconify ==
  /\ alive /\ open
  /\ iconify \/ (mapped /\ Len(queue) < MaxQueue)
  /\ iconify' = FALSE
  /\ mapped' = FALSE
  /\ focused' = FALSE
  /\ \/ ~mapped /\ UNCHANGED queue
     \/ mapped /\ ~focused /\ Send(<<Event("UnmapNotify")>>)
     \/ focused /\ Send(<<Event("FocusOut"), Event("UnmapNotify")>>)
     \/ focused /\ Send(<<Event("UnmapNotify"), Event("FocusOut")>>)
  /\ UNCHANGED <<program, history, mode>>

\* Keys go to the window that has the focus; a key that is held repeats, and one
\* pressed elsewhere may be released here.
UseKey(type, k) ==
  /\ Room /\ focused
  /\ Send(<<[type |-> type, key |-> k]>>)
  /\ UNCHANGED <<program, history, mapped, focused, mode, iconify>>

AskToClose ==
  /\ Room /\ mapped
  /\ Send(<<Event("ClientMessage")>>)
  /\ UNCHANGED <<program, history, mapped, focused, mode, iconify>>

-------------------------------------------------------------------------------
(* Requests of the window                                                  *)

\* focus() (lines 275-284).  XSetInputFocus on a window that is not viewable is a
\* BadMatch error, and Xlib's handler ends the process.
Focus ==
  /\ alive' = (~open \/ mapped)
  /\ focused' = (open /\ mapped)
  /\ IF open /\ mapped /\ ~focused THEN Send(<<Event("FocusIn")>>) ELSE UNCHANGED queue
  /\ UNCHANGED iconify

\* minimise() (lines 286-295).
Minimise ==
  /\ iconify' = (iconify \/ open)
  /\ UNCHANGED <<alive, focused, queue>>

\* Any of the XRandR calls fails (lines 374, 384, 416, 424, 446 and 486-557).
Throw(deepest) ==
  /\ Fails
  /\ excuse' = "failed"
  /\ \E d \in Catchers(deepest) : Unwind(d)
  /\ UNCHANGED <<alive, screen>>

\* handle_window_fullscreen_ and handle_window_restore_ (lines 340-561), called
\* from code at depth "from", which goes on with "rest".
HandleWindowFullscreen(from, rest) == (mode' = "full" /\ rest) \/ Throw(from)
HandleWindowRestore(from, rest) == (mode' = "desktop" /\ rest) \/ Throw(from)

\* handle_flag_update_ (lines 692-704).
HandleFlagUpdate(enabled, rest) ==
  IF enabled THEN HandleWindowFullscreen(Depth, rest) ELSE HandleWindowRestore(Depth, rest)

\* set_flag(Fullscreen, enabled) (window.cpp:104-116): the flag changes first.
SetFlag(enabled) ==
  /\ AppRuns
  /\ flag' = enabled
  /\ HandleFlagUpdate(enabled,
       /\ excuse' = IF enabled /\ state # "Focused" THEN "forced" ELSE "none"
       /\ UNCHANGED <<stack, last, alive, mapped, focused, iconify, queue>>)
  /\ UNCHANGED <<state, keys, open, seen>>

\* close() (lines 258-273): the window is no longer in window_map_.  The flag and
\* the display mode stay.
Close ==
  /\ AppRuns /\ open
  /\ open' = FALSE
  /\ mapped' = FALSE
  /\ focused' = FALSE
  /\ iconify' = FALSE
  /\ UNCHANGED <<state, flag, keys, stack, alive, mode, queue, history>>

-------------------------------------------------------------------------------
(* The event loop, x11_delegate.cpp:147-171                                *)

PollEvents ==
  /\ AppRuns /\ Depth < MaxDepth
  /\ stack' = Push(Poll)
  /\ UNCHANGED <<state, flag, keys, open, alive, screen, history>>

PollReturns ==
  /\ alive /\ stack # <<>> /\ Top = Poll /\ queue = <<>>
  /\ stack' = Pop
  /\ UNCHANGED <<state, flag, keys, open, alive, screen, history>>

\* The next event is read.
Reads(type) ==
  /\ alive /\ stack # <<>> /\ Top = Poll
  /\ queue # <<>> /\ Head(queue).type = type
  /\ queue' = Tail(queue)

\* The window it was sent to has been closed.
Drop ==
  /\ \E type \in WindowEvents \cup KeyEvents : Reads(type)
  /\ ~open
  /\ UNCHANGED <<program, mapped, focused, mode, iconify, history>>

\* update_window_state (lines 74-82).
UpdateState(new) ==
  /\ state' = new
  /\ stack' = IF state # new THEN Push(StateTold(new)) ELSE stack

\* Lines 138-166: a FocusOut of a hidden window and a MapNotify of a focused one
\* are ignored.
HandleWindowEvent ==
  /\ open
  /\ \/ Reads("FocusIn") /\ UpdateState("Focused") /\ seen' = TRUE
     \/ Reads("FocusOut") /\ seen' = TRUE
        /\ UpdateState(IF state = "Hidden" THEN "Hidden" ELSE "Visible")
     \/ Reads("UnmapNotify") /\ UpdateState("Hidden") /\ seen' = TRUE
     \/ Reads("MapNotify") /\ UNCHANGED seen
        /\ UpdateState(IF state = "Focused" THEN "Focused" ELSE "Visible")
  /\ UNCHANGED <<flag, keys, open, alive, mapped, focused, mode, iconify, last, excuse>>

\* Lines 105-113: close_callback_.
HandleClientMessage ==
  /\ open /\ Reads("ClientMessage")
  /\ stack' = Push(Told)
  /\ UNCHANGED <<state, flag, keys, open, alive, mapped, focused, mode, iconify, history>>

\* handle_virtual_key_down, handle_mouse_key_down: up to the first callback (lines
\* 575-579, 623-627), and from there on, which a key that is held does at once.
KeyDownRest(k, calls) ==
  /\ keys' = [keys EXCEPT ![k] = IF @ = "Triggered" THEN "Ongoing" ELSE @]
  /\ stack' = Append(calls, Told)

Mut_KeyDown(k) ==
  IF keys[k] = "Inactive"
  THEN /\ keys' = [keys EXCEPT ![k] = "Triggered"]
       /\ stack' = Push(DownTold(k))
  ELSE KeyDownRest(k, stack)

KeyDown(k) ==
  IF keys[k] \in {"Inactive", "Suppressed"}
  THEN /\ keys' = [keys EXCEPT ![k] = "Triggered"]
       /\ stack' = Push(DownTold(k))
  ELSE KeyDownRest(k, stack)

HandleKeyPress(k) ==
  /\ open /\ Reads("KeyPress") /\ Head(queue).key = k
  /\ KeyDown(k)
  /\ last' = [last EXCEPT ![k] = IF Inside(UpTold(k)) THEN "overtaken" ELSE "press"]
  /\ UNCHANGED <<state, flag, open, alive, mapped, focused, mode, iconify, seen, excuse>>

\* handle_virtual_key_up, handle_mouse_key_up (lines 601-611, 645-655), entered
\* from the event loop or, by the recursion of lines 605 and 649, from itself.
KeyUp(k, calls) ==
  CASE keys[k] \in {"Ongoing", "Triggered"} ->
         /\ keys' = [keys EXCEPT ![k] = "Suppressed"]
         /\ stack' = Append(calls, UpTold(k))
    [] keys[k] = "Suppressed" ->
         /\ keys' = [keys EXCEPT ![k] = "Inactive"]
         /\ stack' = Append(calls, Told)
    [] keys[k] = "Inactive" ->
         /\ stack' = calls
         /\ UNCHANGED keys

HandleKeyRelease(k) ==
  /\ open /\ Reads("KeyRelease") /\ Head(queue).key = k
  /\ KeyUp(k, stack)
  /\ last' = [last EXCEPT ![k] = "release"]
  /\ UNCHANGED <<state, flag, open, alive, mapped, focused, mode, iconify, seen, excuse>>

-------------------------------------------------------------------------------
(* Callbacks return to their handlers                                      *)

KeyCallbackReturns ==
  /\ alive /\ InCallback
  /\ \/ \E k \in Keys : Top = DownTold(k) /\ KeyDownRest(k, Pop)
     \/ \E k \in Keys : Top = UpTold(k) /\ KeyUp(k, Pop)
     \/ Top = Told /\ stack' = Pop /\ UNCHANGED keys
  /\ UNCHANGED <<state, flag, open, alive, screen, history>>

\* Lines 84-96, by the state the callback was told, not by state_.
AfterSwitch ==
  /\ stack' = Pop
  /\ excuse' = IF Top.new = state THEN "none" ELSE "stale"
  /\ UNCHANGED <<last, mapped>>

Mut_Restore ==
  /\ alive /\ InCallback /\ Top.fn = "StateTold"
  /\ \/ ~flag /\ stack' = Pop /\ UNCHANGED <<alive, screen, last, excuse>>
     \/ flag /\ Top.new # "Hidden" /\ HandleWindowFullscreen(Depth - 1, AfterSwitch /\ Focus)
     \/ flag /\ Top.new = "Hidden" /\ HandleWindowRestore(Depth - 1, AfterSwitch /\ Minimise)
  /\ UNCHANGED <<state, flag, keys, open, seen>>

Mut_NoMinimise ==
  /\ alive /\ InCallback /\ Top.fn = "StateTold"
  /\ \/ ~flag /\ stack' = Pop /\ UNCHANGED <<alive, screen, last, excuse>>
     \/ flag /\ Top.new = "Focused" /\ HandleWindowFullscreen(Depth - 1, AfterSwitch /\ Focus)
     \/ /\ flag /\ Top.new # "Focused"
        /\ HandleWindowRestore(Depth - 1,
             AfterSwitch /\ UNCHANGED <<alive, focused, iconify, queue>>)
  /\ UNCHANGED <<state, flag, keys, open, seen>>

Mut_Swapped ==
  /\ alive /\ InCallback /\ Top.fn = "StateTold"
  /\ \/ ~flag /\ stack' = Pop /\ UNCHANGED <<alive, screen, last, excuse>>
     \/ flag /\ Top.new # "Focused" /\ HandleWindowFullscreen(Depth - 1, AfterSwitch /\ Focus)
     \/ flag /\ Top.new = "Focused" /\ HandleWindowRestore(Depth - 1, AfterSwitch /\ Minimise)
  /\ UNCHANGED <<state, flag, keys, open, seen>>

StateCallbackReturns ==
  /\ alive /\ InCallback /\ Top.fn = "StateTold"
  /\ \/ ~flag /\ stack' = Pop /\ UNCHANGED <<alive, screen, last, excuse>>
     \/ flag /\ Top.new = "Focused" /\ HandleWindowFullscreen(Depth - 1, AfterSwitch /\ Focus)
     \/ flag /\ Top.new # "Focused" /\ HandleWindowRestore(Depth - 1, AfterSwitch /\ Minimise)
  /\ UNCHANGED <<state, flag, keys, open, seen>>

\* The process has ended.
Ended == ~alive /\ UNCHANGED vars

-------------------------------------------------------------------------------
\* The constructor (window.cpp:9-26, x11_window.cpp:7-72): the state is Focused
\* before the window is even mapped.
Init ==
  /\ state = "Focused"
  /\ flag = FALSE
  /\ keys = [k \in Keys |-> "Inactive"]
  /\ open = TRUE
  /\ stack = <<>>
  /\ alive = TRUE
  /\ mapped = FALSE
  /\ focused = FALSE
  /\ mode = "desktop"
  /\ iconify = FALSE
  /\ queue = <<>>
  /\ last = [k \in Keys |-> "none"]
  /\ seen = FALSE
  /\ excuse = "none"

Server ==
  \/ Map \/ GiveFocus \/ TakeFocus \/ Iconify \/ AskToClose
  \/ \E k \in Keys, type \in KeyEvents : UseKey(type, k)

Program ==
  \/ \E enabled \in BOOLEAN : SetFlag(enabled)
  \/ Close \/ PollEvents \/ PollReturns \/ Drop
  \/ HandleWindowEvent \/ HandleClientMessage
  \/ \E k \in Keys : HandleKeyPress(k) \/ HandleKeyRelease(k)
  \/ KeyCallbackReturns \/ StateCallbackReturns

Next == Server \/ Program \/ Ended

Spec == Init /\ [][Next]_vars

-------------------------------------------------------------------------------
(* Properties                                                              *)

\* A key is where the last event handled for it says, Ongoing or Inactive, however
\* callbacks nest, and whatever an earlier exception left behind.  Two things are
\* excepted: a handler of that key that an exception has ended, and a press that
\* a callback polls while it is told of the release (line 604), which the
\* recursion of line 605 then takes back.
KeysFollowEvents ==
  \A k \in Keys : ~Inside(DownTold(k)) /\ ~Inside(UpTold(k)) =>
    /\ last[k] = "press" => keys[k] = "Ongoing"
    /\ last[k] = "release" => keys[k] = "Inactive"

\* With all events read, state_ is what the server knows of the window, once
\* anything but a MapNotify has been read: until then it is the Focused the
\* constructor assumes.
StateIsTrue ==
  open /\ alive /\ seen /\ queue = <<>> =>
    /\ state = "Focused" <=> focused
    /\ state = "Hidden" <=> ~mapped

\* The display is in the window's mode when the window is in fullscreen and in
\* focus, and in the desktop's mode otherwise, whatever failed before the last
\* switch.  Excepted: that switch failed; it was made by set_flag on a window out
\* of focus; it followed a state that had changed again inside the callback.
ModeFitsState ==
  open /\ excuse = "none" /\ ~(\E s \in WindowStates : Inside(StateTold(s))) =>
    (mode = "full" <=> flag /\ state = "Focused")

\* A fullscreen window that is out of focus does not stay on the screen: with the
\* same exceptions, when all events are read and the window manager has done what
\* it was asked to, it has the focus or is an icon.
NeverLingers ==
  open /\ alive /\ seen /\ queue = <<>> /\ ~iconify /\ stack = <<>>
    /\ flag /\ excuse = "none" => focused \/ ~mapped

\* focus() of line 89 ends the process only in a race with the window manager: the
\* window has become an icon and the event that says so has not been read, or it
\* has been read inside the callback and the state has moved on.
DiesInRace ==
  alive /\ ~alive' => Top.new # state \/ Event("UnmapNotify") \in Range(queue)

===============================================================================
