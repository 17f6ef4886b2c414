----------------------------- MODULE Win32Window ------------------------------
(***************************************************************************)
(* RF::win32_window, its window procedure and the message loop             *)
(* (src/render/interface/window/win32_window.cpp, delegate/                *)
(* win32_delegate.cpp).  It has the same duties as X11Window, but Windows  *)
(* calls the window procedure inside the calls that show, size, activate   *)
(* and destroy the window, so the handlers nest whether the application    *)
(* polls in its callbacks or not.  What runs between two callbacks or two  *)
(* such messages is one step.                                              *)
(***************************************************************************)
EXTENDS Naturals, Sequences, Functions

CONSTANTS
  Keys,       \* keys of win32_key_map and mouse keys, whose handlers are the same
  Fails,      \* BOOLEAN: Windows may refuse to switch the display mode
  MaxDepth    \* bound on the calls inside which the application makes another

VARIABLES
  state,      \* state_
  flag,       \* window_flag_bit_t::Fullscreen in flags_
  borderless, \* window_flag_bit_t::Borderless in flags_
  keys,       \* virtual_key_states_ and mouse_key_states_
  open,       \* the window has not been destroyed
  stack,      \* the calls under way
  alive,      \* the process has not ended
  mapped,     \* Windows: the window is not an icon
  focused,    \* Windows: it is the active window
  mode,       \* Windows: the display mode
  framed,     \* Windows: its style has RF_WINDOWSTYLE
  last,       \* history: per key, the last message handled
  misled,     \* history: the last message about the activation was not of use
  excuse,     \* history: why mode need not fit state since the last switch
  mixed       \* history: Borderless has been used with fullscreen

program == <<state, flag, borderless, keys, open, stack, alive>>
screen  == <<mapped, focused, mode, framed>>
history == <<last, misled, excuse, mixed>>
vars    == <<program, screen, history>>

WindowStates == {"Hidden", "Visible", "Focused"}
KeyStates    == {"Inactive", "Triggered", "Ongoing", "Suppressed"}

\* WM_ACTIVATE with WA_ACTIVE, WA_CLICKACTIVE, WA_INACTIVE; WM_SIZE with
\* SIZE_MINIMIZED, SIZE_RESTORED.
Messages == {"Active", "Click", "Inactive", "Minimized", "Restored"}

\* Calls.  Sent: a call into Windows that has to send these messages before it
\* returns.  StateTold: lines 175-198.  DownTold: 331-337.  UpTold: 356.  Sized:
\* lines 293-296 and 191, or 508.  Destroying: the end of DestroyWindow.
Poll == [fn |-> "Poll"]
Told == [fn |-> "Told"]
Destroying == [fn |-> "Destroying"]
Sent(msgs)     == [fn |-> "Sent", msgs |-> msgs]
Sized(ok)      == [fn |-> "Sized", ok |-> ok]
StateTold(new) == [fn |-> "StateTold", new |-> new]
DownTold(k)    == [fn |-> "DownTold", key |-> k]
UpTold(k)      == [fn |-> "UpTold", key |-> k]
Callbacks == {"StateTold", "DownTold", "UpTold", "Told"}

TypeOK ==
  /\ state \in WindowStates
  /\ {flag, borderless, open, alive, mapped, focused, framed, misled, mixed} \subseteq BOOLEAN
  /\ keys \in [Keys -> KeyStates]
  /\ \A i \in DOMAIN stack : stack[i].fn \in Callbacks \cup {"Poll", "Sent", "Sized", "Destroying"}
  /\ mode \in {"desktop", "full"}
  /\ last \in [Keys -> {"none", "press", "release", "overtaken", "lost"}]
  /\ excuse \in {"none", "forced", "stale", "failed"}

-------------------------------------------------------------------------------
(* The stack                                                               *)

Depth == Len(stack)
Top == stack[Depth]
Below == SubSeq(stack, 1, Depth - 1)
Inside(frame) == frame \in Range(stack)
Frames(fn) == {i \in 1 .. Depth : stack[i].fn = fn}
Running(fn) == alive /\ stack # <<>> /\ Top.fn = fn
InCallback == stack # <<>> /\ Top.fn \in Callbacks

\* Messages that Windows has to send still.
Pending == \E i \in Frames("Sent") : stack[i].msgs # <<>>

\* The application's own code runs: its main loop or a callback.
AppRuns == alive /\ (stack = <<>> \/ InCallback)
MayCall == AppRuns /\ Depth < MaxDepth

\* "calls" goes on, in a call that sends msgs; without any it has returned at once.
Sending(calls, msgs) == IF msgs = <<>> THEN calls ELSE Append(calls, Sent(msgs))

\* An exception leaves the calls above depth d: a callback or the main loop catches
\* it.  If there are calls of Windows in between, Windows may as well drop it there,
\* or end the process.
Throw(deepest) ==
  /\ Fails
  /\ excuse' = "failed"
  /\ \E d \in {0} \cup {i \in 1 .. deepest : stack[i].fn \in Callbacks \cup {"Poll", "Sent"}} :
       /\ stack' = SubSeq(stack, 1, d)
       /\ last' = [k \in Keys |->
                     IF \E i \in d + 1 .. Depth : stack[i] \in {DownTold(k), UpTold(k)}
                     THEN "lost" ELSE last[k]]
       /\ open' = (open /\ \A i \in Frames("Destroying") : i <= d)
       /\ alive' \in IF \E i \in Frames("Poll") \cup Frames("Sent") : i >= d
                    THEN BOOLEAN ELSE {TRUE}

-------------------------------------------------------------------------------
(* Calls into Windows                                                      *)

\* ShowWindow(SW_SHOW), SetForegroundWindow: the window is made the active one, if
\* Windows lets it; an icon stays one.
Activate(calls) ==
  \/ UNCHANGED focused /\ stack' = calls
  \/ ~focused /\ open /\ focused' = TRUE /\ stack' = Append(calls, Sent(<<"Active">>))

\* The window becomes an icon.
Orders == IF focused THEN {<<"Minimized", "Inactive">>, <<"Inactive", "Minimized">>}
          ELSE {<<"Minimized">>}
Iconify(calls) ==
  /\ mapped /\ open
  /\ mapped' = FALSE /\ focused' = FALSE
  /\ \E msgs \in Orders : stack' = Append(calls, Sent(msgs))

\* ShowWindow(SW_MINIMIZE): nothing happens to an icon, or to a window that is gone.
Minimise(calls) ==
  \/ Iconify(calls)
  \/ ~(mapped /\ open) /\ UNCHANGED <<mapped, focused>> /\ stack' = calls

\* handle_window_fullscreen_ (lines 282-297), called by "calls".  No mode of the
\* display may fit (line 288, win32_delegate.cpp:54-87): the style has changed then.
\* What SetWindowPos changes it tells, line 291, before line 293 looks at the result.
HandleWindowFullscreen(calls, why) ==
  /\ framed' = FALSE
  /\ \/ /\ \E ok \in IF Fails THEN BOOLEAN ELSE {TRUE} :
             \E msgs \in IF mapped /\ open THEN {<<>>, <<"Restored">>} ELSE {<<>>} :
               /\ mode' = IF ok THEN "full" ELSE mode
               /\ excuse' = IF ok THEN why ELSE "failed"
               /\ stack' = Sending(Append(calls, Sized(ok)), msgs)
        /\ UNCHANGED <<last, alive, open>>
     \/ Throw(Len(calls)) /\ UNCHANGED mode
  /\ UNCHANGED <<mapped, focused>>

\* handle_window_restore_ (lines 299-312), after which "rest".  The frame comes back
\* whatever Borderless says.
HandleWindowRestore(calls, why, rest) ==
  /\ framed' = TRUE
  /\ \/ mode' = "desktop" /\ excuse' = why /\ rest /\ UNCHANGED <<last, alive, open>>
     \/ Throw(Len(calls)) /\ UNCHANGED <<mode, mapped, focused>>

\* Lines 293-296; then ShowWindow(SW_SHOW), line 191 or 508.
SizedReturns ==
  /\ Running("Sized")
  /\ \/ Top.ok /\ Activate(Below) /\ UNCHANGED <<last, excuse, alive, open>>
     \/ ~Top.ok /\ Throw(Depth - 1) /\ UNCHANGED focused
  /\ UNCHANGED <<state, flag, borderless, keys, mapped, mode, framed, misled, mixed>>

\* A call into Windows has sent its messages, or the window has been destroyed.
SentReturns ==
  /\ Running("Sent") /\ (Top.msgs = <<>> \/ ~open)
  /\ stack' = Below
  /\ UNCHANGED <<state, flag, borderless, keys, open, alive, screen, history>>

-------------------------------------------------------------------------------
(* Requests of the application                                             *)

\* set_flag(Fullscreen, enabled) (window.cpp:104-116, lines 501-515).
SetFullscreen(enabled) ==
  /\ MayCall /\ open
  /\ flag' = enabled
  /\ mixed' = (mixed \/ borderless)
  /\ IF enabled
     THEN HandleWindowFullscreen(stack, IF state # "Focused" THEN "forced" ELSE "none")
     ELSE HandleWindowRestore(stack, "none", Activate(stack) /\ UNCHANGED mapped)
  /\ UNCHANGED <<state, borderless, keys, misled>>

\* set_flag(Borderless, enabled) (lines 517-529).
SetBorderless(enabled) ==
  /\ MayCall /\ open
  /\ borderless' = enabled
  /\ framed' = ~enabled
  /\ mixed' = (mixed \/ flag)
  /\ UNCHANGED <<state, flag, keys, open, stack, alive, mapped, focused, mode, last, misled,
                 excuse>>

\* focus() and minimise() (lines 425-433).
Request ==
  /\ MayCall /\ open
  /\ \/ Activate(stack) /\ UNCHANGED mapped
     \/ Minimise(stack)
  /\ UNCHANGED <<state, flag, borderless, keys, open, alive, mode, framed, history>>

\* close() (lines 240-246): DestroyWindow takes the activation away first.
Close ==
  /\ MayCall /\ open
  /\ focused' = FALSE
  /\ stack' = Append(stack, Destroying) \o (IF focused THEN <<Sent(<<"Inactive">>)>> ELSE <<>>)
  /\ UNCHANGED <<state, flag, borderless, keys, open, alive, mapped, mode, framed, history>>

Destroyed ==
  /\ Running("Destroying")
  /\ open' = FALSE
  /\ stack' = Below
  /\ UNCHANGED <<state, flag, borderless, keys, alive, screen, history>>

-------------------------------------------------------------------------------
(* The message loop, win32_delegate.cpp:99-108                             *)

PollEvents ==
  /\ MayCall
  /\ stack' = Append(stack, Poll)
  /\ UNCHANGED <<state, flag, borderless, keys, open, alive, screen, history>>

PollReturns ==
  /\ Running("Poll")
  /\ stack' = Below
  /\ UNCHANGED <<state, flag, borderless, keys, open, alive, screen, history>>

\* What the user does to the window.  Windows activates a window it restores before
\* it tells the size, if it does.
UserActs ==
  /\ Running("Poll") /\ open
  /\ \/ /\ mapped /\ ~focused /\ focused' = TRUE
        /\ \E m \in {"Active", "Click"} : stack' = Append(stack, Sent(<<m>>))
        /\ UNCHANGED mapped
     \/ /\ focused /\ focused' = FALSE
        /\ stack' = Append(stack, Sent(<<"Inactive">>))
        /\ UNCHANGED mapped
     \/ Iconify(stack)
     \/ /\ ~mapped /\ mapped' = TRUE
        /\ \/ ~focused /\ focused' = TRUE
                 /\ stack' = Append(stack, Sent(<<"Active", "Restored">>))
           \/ UNCHANGED focused /\ stack' = Append(stack, Sent(<<"Restored">>))
  /\ UNCHANGED <<state, flag, borderless, keys, open, alive, mode, framed, history>>

\* WM_CLOSE: lines 18-22 and 161-165.
HandleClose ==
  /\ Running("Poll") /\ open
  /\ stack' = Append(stack, Told)
  /\ UNCHANGED <<state, flag, borderless, keys, open, alive, screen, history>>

\* update_window_state (lines 167-173).
UpdateWindowState(new, calls) ==
  /\ state' = new
  /\ stack' = IF state # new THEN Append(calls, StateTold(new)) ELSE calls

Mut_NewState(m) ==
  CASE m = "Active" -> "Focused"
    [] m = "Inactive" -> "Visible"
    [] m = "Minimized" -> "Hidden"
    [] m = "Restored" -> "Visible"
    [] OTHER -> state

\* Lines 111-143.  A window activated with the mouse is not taken for focused.
NewState(m) ==
  CASE m = "Active" -> "Focused"
    [] m = "Inactive" /\ state # "Hidden" -> "Visible"
    [] m = "Minimized" -> "Hidden"
    [] m = "Restored" /\ state # "Focused" -> "Visible"
    [] OTHER -> state

\* An activation the code does not know, or of an icon; the end of one, of an icon
\* that has not been told to be one; and a message that has been overtaken by what the
\* window has done since, or that comes inside an earlier call.
Misleads(m) ==
  \/ m = "Click"
  \/ m = "Active" /\ ~(mapped /\ focused)
  \/ m = "Inactive" /\ (focused \/ (~mapped /\ state # "Hidden"))
  \/ m = "Minimized" /\ (mapped \/ focused)
  \/ \E i \in Frames("Sent") : i < Depth /\ stack[i].msgs # <<>>

\* The window procedure is called with the next message, lines 8-159.
HandleMessage ==
  /\ Running("Sent") /\ Top.msgs # <<>> /\ open
  /\ LET m == Head(Top.msgs)  calls == Append(Below, Sent(Tail(Top.msgs))) IN
       /\ UpdateWindowState(NewState(m), calls)
       /\ misled' = CASE m \in {"Active", "Minimized"} -> Misleads(m)
                      [] m = "Restored" -> misled
                      [] OTHER -> misled \/ Misleads(m)
  /\ UNCHANGED <<flag, borderless, keys, open, alive, screen, last, excuse, mixed>>

\* handle_virtual_key_down, handle_mouse_key_down: up to the first callback (lines
\* 326-330, 375-379), and from there on, which a key that is held does at once.
KeyDownRest(k, calls) ==
  /\ keys' = [keys EXCEPT ![k] = IF @ = "Triggered" THEN "Ongoing" ELSE @]
  /\ stack' = Append(calls, Told)

KeyDown(k) ==
  IF keys[k] \in {"Inactive", "Suppressed"}
  THEN /\ keys' = [keys EXCEPT ![k] = "Triggered"]
       /\ stack' = Append(stack, DownTold(k))
  ELSE KeyDownRest(k, stack)

\* handle_virtual_key_up, handle_mouse_key_up (lines 340-363, 389-410), entered from
\* the window procedure or, by the recursion of lines 356 and 403, from itself.
KeyUp(k, calls) ==
  CASE keys[k] \in {"Ongoing", "Triggered"} ->
         /\ keys' = [keys EXCEPT ![k] = "Suppressed"]
         /\ stack' = Append(calls, UpTold(k))
    [] keys[k] = "Suppressed" ->
         /\ keys' = [keys EXCEPT ![k] = "Inactive"]
         /\ stack' = Append(calls, Told)
    [] keys[k] = "Inactive" ->
         /\ stack' = calls
         /\ UNCHANGED keys

\* Lines 24-109: keys are posted to the window that has the focus.
HandleKey(k) ==
  /\ Running("Poll") /\ open /\ focused
  /\ \/ /\ KeyDown(k)
        /\ last' = [last EXCEPT ![k] = IF Inside(UpTold(k)) THEN "overtaken" ELSE "press"]
     \/ KeyUp(k, stack) /\ last' = [last EXCEPT ![k] = "release"]
  /\ UNCHANGED <<state, flag, borderless, open, alive, screen, misled, excuse, mixed>>

-------------------------------------------------------------------------------
(* Callbacks return to their handlers                                      *)

KeyCallbackReturns ==
  /\ alive /\ InCallback
  /\ \/ \E k \in Keys : Top = DownTold(k) /\ KeyDownRest(k, Below)
     \/ \E k \in Keys : Top = UpTold(k) /\ KeyUp(k, Below)
     \/ Top = Told /\ stack' = Below /\ UNCHANGED keys
  /\ UNCHANGED <<state, flag, borderless, open, alive, screen, history>>

\* Lines 186-198, by the state the callback was told, not by state_.
StateCallbackReturns ==
  /\ Running("StateTold")
  /\ LET why == IF Top.new = state THEN "none" ELSE "stale" IN
     \/ /\ ~flag /\ stack' = Below
        /\ UNCHANGED <<open, alive, screen, last, excuse, mixed>>
     \/ /\ flag /\ Top.new = "Focused" /\ HandleWindowFullscreen(Below, why)
        /\ mixed' = (mixed \/ borderless)
     \/ /\ flag /\ Top.new # "Focused" /\ HandleWindowRestore(Below, why, Minimise(Below))
        /\ mixed' = (mixed \/ borderless)
  /\ UNCHANGED <<state, flag, borderless, keys, misled>>

\* The process has ended.
Ended == ~alive /\ UNCHANGED vars

-------------------------------------------------------------------------------
\* The constructor (window.cpp:9-26, lines 206-238): the state is Focused, whether
\* Windows makes the new window the active one or not.
Init ==
  /\ state = "Focused"
  /\ flag = FALSE
  /\ borderless = FALSE
  /\ keys = [k \in Keys |-> "Inactive"]
  /\ open = TRUE
  /\ stack = <<>>
  /\ alive = TRUE
  /\ mapped = TRUE
  /\ focused \in BOOLEAN
  /\ mode = "desktop"
  /\ framed = TRUE
  /\ last = [k \in Keys |-> "none"]
  /\ misled = ~focused
  /\ excuse = "none"
  /\ mixed = FALSE

Next ==
  \/ \E enabled \in BOOLEAN : SetFullscreen(enabled) \/ SetBorderless(enabled)
  \/ Request \/ Close \/ Destroyed
  \/ PollEvents \/ PollReturns \/ UserActs \/ HandleClose \/ HandleMessage
  \/ \E k \in Keys : HandleKey(k)
  \/ SentReturns \/ SizedReturns \/ KeyCallbackReturns \/ StateCallbackReturns
  \/ Ended

Spec == Init /\ [][Next]_vars

-------------------------------------------------------------------------------
(* Properties                                                              *)

\* A key is where the last message handled for it says, as in X11Window.
KeysFollowEvents ==
  \A k \in Keys : ~Inside(DownTold(k)) /\ ~Inside(UpTold(k)) =>
    /\ last[k] = "press" => keys[k] = "Ongoing"
    /\ last[k] = "release" => keys[k] = "Inactive"

\* When Windows has no message left to send, state_ is what Windows knows of the
\* window, unless it was last activated with the mouse or as an icon, or told of that
\* while it was still being told of something else.
StateIsTrue ==
  open /\ alive /\ ~misled /\ ~Pending /\ Frames("Destroying") = {} =>
    /\ state = "Focused" <=> focused
    /\ state = "Hidden" <=> ~mapped

\* The display is in the window's mode when the window is in fullscreen and in
\* focus, and in the desktop's mode otherwise, with the exceptions of X11Window; and
\* the window has a frame when it is neither in fullscreen nor borderless, unless it
\* has been both.
ModeFitsState ==
  open /\ excuse = "none" /\ Frames("StateTold") = {} =>
    /\ mode = "full" <=> flag /\ state = "Focused"
    /\ mixed \/ (framed <=> mode = "desktop" /\ ~borderless)

\* A fullscreen window that is out of focus is an icon, with the same exceptions.
NeverLingers ==
  open /\ alive /\ ~misled /\ stack = <<>> /\ flag /\ excuse = "none" => focused \/ ~mapped

===============================================================================
