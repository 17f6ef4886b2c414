------------------------------ MODULE VideoModes -------------------------------
(***************************************************************************)
(* RF::window::find_fitting_video_mode_ (src/render/interface/window.cpp): *)
(* which of the modes of the display a fullscreen window asks for, and     *)
(* which of them enumerate_video_modes lists (delegate/x11_delegate.cpp).  *)
(***************************************************************************)
EXTENDS Naturals, Sequences, SequencesExt, FiniteSetsExt

CONSTANTS
  Width,     \* std::uint32_t has values below Width
  MaxModes   \* bound on the modes of a display

VideoModesAssumption == Width \in Nat \ {0, 1} /\ MaxModes \in Nat

VARIABLES
  screen,  \* the modes XRandR knows
  listed,  \* how many of them enumerate_video_modes has looked at
  modes,   \* what it lists
  extent,  \* the window's size
  best,    \* the mode chosen so far; the variable has no initialiser
  least,   \* least_size_diff
  at       \* the next mode of the list to look at; 0 when the loop is over

vars == <<screen, listed, modes, extent, best, least, at>>

UInt32 == 0 .. Width - 1
Modes == [x : UInt32, y : UInt32]
\* What XRandR says of a mode: its size, and whether hTotal and vTotal are above zero.
ScreenModes == [size : Modes, timed : BOOLEAN]
NoMode == [x |-> Width, y |-> Width]

TypeOK ==
  /\ screen \in SeqOf(ScreenModes, MaxModes) /\ modes \in SeqOf(Modes, MaxModes)
  /\ listed \in 0 .. MaxModes
  /\ extent \in Modes
  /\ best \in Modes \cup {NoMode}
  /\ least \in UInt32
  /\ at \in 0 .. MaxModes + 1

HasExtent(mode) == mode.x # 0 /\ mode.y # 0
Usable(m) == HasExtent(m.size) /\ m.timed

\* x11_delegate.cpp:97-115: a mode without an extent, or without totals to tell the
\* refresh rate by, is passed over.
EnumerateVideoModes ==
  /\ listed < Len(screen)
  /\ listed' = listed + 1
  /\ modes' = IF Usable(screen[listed + 1]) THEN Append(modes, screen[listed + 1].size) ELSE modes
  /\ UNCHANGED <<screen, extent, best, least, at>>

\* Lines 47-48: the difference of two unsigned numbers.
Diff(a, b) == (Width + a - b) % Width

Mut_Fits(mode) == Diff(mode.y, extent.y) < least \/ Diff(mode.x, extent.x) < least

\* Line 50.
Fits(mode) == Diff(mode.y, extent.y) < least /\ Diff(mode.x, extent.x) < least

\* Lines 45-55.
Look ==
  /\ listed = Len(screen) /\ at \in 1 .. Len(modes)
  /\ LET mode == modes[at] IN
       IF Fits(mode)
       THEN /\ best' = mode
            /\ least' = Min({Diff(mode.y, extent.y), Diff(mode.x, extent.x)})
       ELSE UNCHANGED <<best, least>>
  /\ at' = at + 1
  /\ UNCHANGED <<screen, listed, modes, extent>>

\* Line 71.
Return ==
  /\ listed = Len(screen) /\ at > Len(modes)
  /\ at' = 0
  /\ UNCHANGED <<screen, listed, modes, extent, best, least>>

\* Lines 36-43.
Init ==
  /\ screen \in SeqOf(ScreenModes, MaxModes)
  /\ listed = 0 /\ modes = <<>>
  /\ extent \in [x : UInt32 \ {0}, y : UInt32 \ {0}]
  /\ best = NoMode
  /\ least = Width - 1
  /\ at = 1

Next == EnumerateVideoModes \/ Look \/ Return

Spec == Init /\ [][Next]_vars

-------------------------------------------------------------------------------
\* One size is as asked, the other is not; or one is just below what was asked,
\* which line 43 takes for "no mode yet".
HalfFits(mode) == (mode.x = extent.x) # (mode.y = extent.y)
JustBelow(mode) == mode.x + 1 = extent.x \/ mode.y + 1 = extent.y

\* The display has a mode of that size which enumerate_video_modes may list.
Offered(size) == Contains(screen, [size |-> size, timed |-> TRUE])

\* The mode that is returned is one of the display's.  It has the size of the window
\* if one with totals has, unless a mode before it has the window's width or height
\* only: after that line 50 compares with 0.  The uninitialised variable is returned
\* only when each of the modes listed is one short in width or in height.
ExactModeIsFound ==
  at = 0 =>
    /\ best # NoMode => Offered(best)
    /\ best = NoMode <=> \A i \in DOMAIN modes : JustBelow(modes[i])
    /\ Offered(extent) =>
         best = extent \/ \E i \in DOMAIN modes : HalfFits(modes[i]) /\ ~JustBelow(modes[i])
                            /\ \A j \in 1 .. i : modes[j] # extent
===============================================================================
