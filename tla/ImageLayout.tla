------------------------------ MODULE ImageLayout -------------------------------
(***************************************************************************)
(* What RedFox knows of the layout of an image and what the GPU has made   *)
(* of it: RF::vulkan::image_impl_t (src/render/vulkan/image.cpp) and       *)
(* render_pass_impl_t::create_info (render_pass.cpp).                      *)
(*                                                                         *)
(* An image object tracks the layout in barrier_data_.  Objects can be     *)
(* copied: image_impl_t::create_framebuffer gives the framebuffer a copy   *)
(* of the image object, which goes on for itself.  Access and stages are   *)
(* tracked the same way and not modelled.                                  *)
(***************************************************************************)
EXTENDS Naturals

CONSTANTS
  Layouts,    \* vk::ImageLayout without eUndefined
  Buffers     \* framebuffers

Undefined == "undefined"
Passes == [initial : Layouts \cup {Undefined}, final : Layouts]

VARIABLES
  live,       \* the image exists
  tracked,    \* barrier_data_.layout of each image object that is in use
  object,     \* the image object of each framebuffer there is
  recorded,   \* the pass that is begun and not yet submitted, or None: one at a time
  actual,     \* GPU: the layout of the image
  latest,     \* history: the object by which the layout was last changed
  wrong,      \* history: the GPU was told a layout the image did not have
  remade,     \* history: the image has been destroyed and made again
  overtook    \* history: trans() was called while a pass was recorded

vars == <<live, tracked, object, recorded, actual, latest, wrong, remade, overtook>>

Own == "own"        \* the object the application holds

NamesAssumption == Undefined \notin Layouts /\ Own \notin Buffers

Objects == {Own} \cup Buffers
None == [initial |-> Undefined, final |-> Undefined]

TypeOK ==
  /\ {live, wrong, remade, overtook} \subseteq BOOLEAN
  /\ tracked \in [Objects -> Layouts \cup {Undefined}]
  /\ DOMAIN object \subseteq Buffers
  /\ \A f \in DOMAIN object : object[f] \in {Own, f}
  /\ recorded \in Passes \cup {None}
  /\ actual \in Layouts \cup {Undefined}
  /\ latest \in Objects

\* The GPU is told that the image has a layout.  It may always be eUndefined.
Mistaken(layout) == layout # Undefined /\ layout # actual

-------------------------------------------------------------------------------
\* image_impl_t::init (lines 202-237).  The layout tracked is not reset.
InitImage ==
  /\ ~live
  /\ live' = TRUE
  /\ actual' = Undefined
  /\ UNCHANGED <<tracked, object, recorded, latest, wrong, remade, overtook>>

\* image_impl_t::destroy (lines 409-417), after its framebuffers.
DestroyImage ==
  /\ live /\ recorded = None
  /\ live' = FALSE
  /\ object' = [f \in {} |-> Own]
  /\ remade' = TRUE
  /\ UNCHANGED <<tracked, recorded, actual, latest, wrong, overtook>>

Mut_Trans(layout) ==
  /\ live
  /\ wrong' = (wrong \/ Mistaken(tracked[Own]))
  /\ actual' = layout
  /\ latest' = Own
  /\ overtook' = (overtook \/ recorded # None)
  /\ UNCHANGED <<live, tracked, object, recorded, remade>>

\* trans() (lines 127-200) submits the barrier and waits until the queue is idle.
Trans(layout) ==
  /\ live
  /\ wrong' = (wrong \/ Mistaken(tracked[Own]))
  /\ actual' = layout
  /\ tracked' = [tracked EXCEPT ![Own] = layout]
  /\ latest' = Own
  /\ overtook' = (overtook \/ recorded # None)
  /\ UNCHANGED <<live, object, recorded, remade>>

\* framebuffer_impl_t::init with the application's image: both hold one object.
ShareFramebuffer(f) ==
  /\ live /\ f \notin DOMAIN object
  /\ object' = [g \in DOMAIN object \cup {f} |-> IF g = f THEN Own ELSE object[g]]
  /\ UNCHANGED <<live, tracked, recorded, actual, latest, wrong, remade, overtook>>

\* create_framebuffer (lines 444-452): handle_ptr<image_impl_t>(*this) copies.
CreateFramebuffer(f) ==
  /\ live /\ f \notin DOMAIN object
  /\ object' = [g \in DOMAIN object \cup {f} |-> IF g = f THEN f ELSE object[g]]
  /\ tracked' = [tracked EXCEPT ![f] = tracked[Own]]
  /\ UNCHANGED <<live, recorded, actual, latest, wrong, remade, overtook>>

\* create_info (lines 120-172) throws when the framebuffer's object tracks another
\* layout than the pass begins with; it is updated before the pass has run.
CreateInfo(f, pass) ==
  /\ recorded = None
  /\ pass.initial \in {Undefined, tracked[object[f]]}
  /\ recorded' = pass
  /\ tracked' = [tracked EXCEPT ![object[f]] = pass.final]
  /\ latest' = object[f]
  /\ UNCHANGED <<live, object, actual, wrong, remade, overtook>>

\* The application submits the pass and the GPU runs it.
RunPass ==
  /\ recorded # None
  /\ wrong' = (wrong \/ Mistaken(recorded.initial))
  /\ actual' = recorded.final
  /\ recorded' = None
  /\ UNCHANGED <<live, tracked, object, latest, remade, overtook>>

Init ==
  /\ live = FALSE
  /\ tracked = [o \in Objects |-> Undefined]
  /\ object = [f \in {} |-> Own]
  /\ recorded = None
  /\ actual = Undefined
  /\ latest = Own
  /\ wrong = FALSE
  /\ remade = FALSE
  /\ overtook = FALSE

Next ==
  \/ InitImage \/ DestroyImage \/ RunPass
  \/ \E layout \in Layouts : Trans(layout)
  \/ \E f \in Buffers : ShareFramebuffer(f) \/ CreateFramebuffer(f)
  \/ \E f \in DOMAIN object, pass \in Passes : CreateInfo(f, pass)

Spec == Init /\ [][Next]_vars

-------------------------------------------------------------------------------
(* Properties                                                              *)

\* The object through which the layout was changed last knows it, once the pass has
\* run; with other objects of the same image in use or not.  Excepted: the image
\* was made again; a trans() overtook a pass recorded before.
LastObjectKnows ==
  live /\ recorded = None /\ ~remade /\ ~overtook => tracked[latest] = actual

\* As long as every framebuffer shares the application's object, that object knows
\* the layout, and neither trans() nor a pass states a wrong one, with the same
\* exceptions.
SharingIsSafe ==
  ~remade /\ ~overtook /\ (\A f \in DOMAIN object : object[f] = Own) =>
    /\ ~wrong
    /\ live /\ recorded = None => tracked[Own] = actual

\* What create_info and trans() write into an image object is what the GPU does: both
\* of the above.
LayoutIsKnown == LastObjectKnows /\ SharingIsSafe

\* After create_info and the pass the image's barrier is up to date ("update the
\* image's barrier", render_pass.cpp:169): what the code does not do for the image
\* that made the framebuffer.
ImageIsUpdated ==
  live /\ recorded = None /\ ~remade /\ ~overtook => tracked[Own] = actual

===============================================================================
