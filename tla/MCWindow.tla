------------------------------- MODULE MCWindow --------------------------------
(***************************************************************************)
(* The window of each platform, X11Window and Win32Window, for itself:     *)
(* RF::window::create makes one or the other, and they keep the same       *)
(* promises.  The instances share the variables of the same names.         *)
(***************************************************************************)
EXTENDS Naturals

CONSTANTS Platforms, Keys, Fails, MaxQueue, MaxDepth

VARIABLES
  platform,
  state, flag, keys, open, stack, alive, mapped, focused, mode, last, excuse,
  iconify, queue, seen,
  borderless, framed, misled, mixed

x11Only   == <<iconify, queue, seen>>
win32Only == <<borderless, framed, misled, mixed>>
shared    == <<state, flag, keys, open, stack, alive, mapped, focused, mode, last, excuse>>
windowVars == <<platform, shared, x11Only, win32Only>>

X == INSTANCE X11Window
W == INSTANCE Win32Window

WindowInit ==
  /\ platform \in Platforms
  /\ \/ /\ platform = "x11" /\ X!Init
        /\ borderless = FALSE /\ framed = TRUE /\ misled = FALSE /\ mixed = FALSE
     \/ /\ platform = "win32" /\ W!Init
        /\ iconify = FALSE /\ queue = <<>> /\ seen = FALSE

WindowNext ==
  /\ UNCHANGED platform
  /\ \/ platform = "x11" /\ X!Next /\ UNCHANGED win32Only
     \/ platform = "win32" /\ W!Next /\ UNCHANGED x11Only

WindowSpec == WindowInit /\ [][WindowNext]_windowVars

-------------------------------------------------------------------------------
(* The properties of the window that is run, by their names                *)

\* A key is where the last event for it says (x11_window.cpp:563-656,
\* win32_window.cpp:314-410).
KeysFollowEvents == IF platform = "x11" THEN X!KeysFollowEvents ELSE W!KeysFollowEvents

\* state_ is what the system knows of the window when the program knows all of it
\* (x11_window.cpp:74-166, win32_window.cpp:111-201).
StateIsTrue == IF platform = "x11" THEN X!StateIsTrue ELSE W!StateIsTrue

\* The display mode and the window's frame fit the flags and the state
\* (x11_window.cpp:84-96, win32_window.cpp:186-198).
ModeFitsState == IF platform = "x11" THEN X!ModeFitsState ELSE W!ModeFitsState

\* A fullscreen window out of focus does not stay on the screen (x11_window.cpp:95,
\* win32_window.cpp:195-196).
NeverLingers == IF platform = "x11" THEN X!NeverLingers ELSE W!NeverLingers

\* focus() ends the process only in a race with the window manager
\* (x11_window.cpp:275-284).
KilledOnlyByRace == [][platform = "x11" => X!DiesInRace]_windowVars

===============================================================================
