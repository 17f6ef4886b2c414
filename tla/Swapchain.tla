------------------------------- MODULE Swapchain --------------------------------
(***************************************************************************)
(* RF::vulkan::swapchain_impl_t (src/render/vulkan/swapchain.cpp): handles *)
(* made in three rounds, with no flag that says whether there are any, and *)
(* recreate(), which a window that changes its size calls again and again. *)
(***************************************************************************)
EXTENDS Naturals, Sequences

CONSTANT MaxImages    \* bound on the images of a swapchain

VARIABLES
  handle,    \* handle_
  views,     \* image_views_
  buffers,   \* buffers_
  pc,        \* how far init() has come; "idle" outside of it
  at,        \* images_.size() and the loop variable of init()
  span,      \* the parameter buffer_attachments: valid or dangling
  owned,     \* the application has called init() and not destroy() since
  ready,     \* history: the last init() has returned
  lost,      \* history: a live handle has been overwritten or dropped
  twice,     \* history: a destroyed handle has been destroyed again
  failed,    \* history: an init() has thrown half way
  wild       \* history: a framebuffer has other attachments than those given

calls == <<pc, at, span>>
told  == <<owned, ready>>
vars  == <<handle, views, buffers, calls, told, lost, twice, failed, wild>>

Handles == {"null", "live", "dead"}
Counts == 1 .. MaxImages

TypeOK ==
  /\ handle \in Handles
  /\ {views, buffers} \subseteq UNION {[1 .. n -> Handles] : n \in 0 .. MaxImages}
  /\ pc \in {"idle", "query", "images", "views", "buffers"}
  /\ at \in [count : 0 .. MaxImages, i : Counts]
  /\ span \in {"valid", "dangling"}
  /\ {owned, ready, lost, twice, failed, wild} \subseteq BOOLEAN

\* std::vector::resize.
Resize(v, n) == [i \in 1 .. n |-> IF i <= Len(v) THEN v[i] ELSE "null"]
Drops(v, n) == \E i \in n + 1 .. Len(v) : v[i] = "live"

-------------------------------------------------------------------------------
(* init(), lines 49-178                                                    *)

\* Lines 53-57.  The application calls init() on a new or a destroyed swapchain.
InitCall ==
  /\ pc = "idle" /\ ~owned
  /\ pc' = "query"
  /\ span' = "valid"
  /\ owned' = TRUE
  /\ ready' = FALSE
  /\ wild' = FALSE
  /\ UNCHANGED <<handle, views, buffers, at, lost, twice, failed>>

\* Line 113.  A surface carries one swapchain.
CreateSwapchain ==
  /\ pc = "query" /\ handle # "live"
  /\ handle' = "live"
  /\ pc' = "images"
  /\ UNCHANGED <<views, buffers, at, span, told, lost, twice, failed, wild>>

\* Lines 118-123: the images belong to the swapchain.
GetImages ==
  /\ pc = "images"
  /\ \E n \in Counts :
       /\ at' = [count |-> n, i |-> 1]
       /\ lost' = (lost \/ Drops(views, n))
       /\ views' = Resize(views, n)
  /\ pc' = "views"
  /\ UNCHANGED <<handle, buffers, span, told, twice, failed, wild>>

Mut_CreateView ==
  /\ pc = "views"
  /\ views' = [views EXCEPT ![at.i] = "live"]
  /\ \/ /\ at.i < at.count - 1
        /\ at' = [at EXCEPT !.i = @ + 1]
        /\ lost' = (lost \/ views[at.i] = "live")
        /\ UNCHANGED <<pc, buffers>>
     \/ /\ at.i >= at.count - 1
        /\ at' = [at EXCEPT !.i = 1]
        /\ lost' = (lost \/ views[at.i] = "live" \/ Drops(buffers, at.count))
        /\ buffers' = Resize(buffers, at.count)
        /\ pc' = "buffers"
  /\ UNCHANGED <<handle, span, told, twice, failed, wild>>

\* Lines 125-150 and, after the last view, 153.
CreateView ==
  /\ pc = "views"
  /\ views' = [views EXCEPT ![at.i] = "live"]
  /\ \/ /\ at.i < at.count
        /\ at' = [at EXCEPT !.i = @ + 1]
        /\ lost' = (lost \/ views[at.i] = "live")
        /\ UNCHANGED <<pc, buffers>>
     \/ /\ at.i = at.count
        /\ at' = [at EXCEPT !.i = 1]
        /\ lost' = (lost \/ views[at.i] = "live" \/ Drops(buffers, at.count))
        /\ buffers' = Resize(buffers, at.count)
        /\ pc' = "buffers"
  /\ UNCHANGED <<handle, span, told, twice, failed, wild>>

\* Lines 155-177.  A dangling span is read in line 164, with any outcome.
CreateBuffer ==
  /\ pc = "buffers"
  /\ lost' = (lost \/ buffers[at.i] = "live")
  /\ buffers' = [buffers EXCEPT ![at.i] = "live"]
  /\ wild' \in IF span = "valid" THEN {wild} ELSE {wild, TRUE}
  /\ \/ /\ at.i < at.count
        /\ at' = [at EXCEPT !.i = @ + 1]
        /\ UNCHANGED <<pc, ready>>
     \/ /\ at.i = at.count
        /\ at' = [count |-> 0, i |-> 1]
        /\ pc' = "idle"
        /\ ready' = TRUE
  /\ UNCHANGED <<handle, views, span, owned, twice, failed>>

\* A query or a creation fails, lines 61-70, 120, 150, 177: nothing is undone.
Throw ==
  /\ pc # "idle"
  /\ pc' = "idle"
  /\ at' = [count |-> 0, i |-> 1]
  /\ failed' = TRUE
  /\ UNCHANGED <<handle, views, buffers, span, told, lost, twice, wild>>

-------------------------------------------------------------------------------
(* destroy(), lines 198-205, and recreate(), lines 234-241                 *)

Dead(v) == [i \in 1 .. Len(v) |-> IF v[i] = "live" THEN "dead" ELSE v[i]]
HasDead(v) == \E i \in 1 .. Len(v) : v[i] = "dead"

Mut_DestroyAll ==
  /\ twice' = (twice \/ handle = "dead" \/ HasDead(views) \/ HasDead(buffers))
  /\ handle' = IF handle = "live" THEN "dead" ELSE handle
  /\ views' = Dead(views)
  /\ UNCHANGED buffers

\* The vectors keep their size and the handles their values.
DestroyAll ==
  /\ twice' = (twice \/ handle = "dead" \/ HasDead(views) \/ HasDead(buffers))
  /\ handle' = IF handle = "live" THEN "dead" ELSE handle
  /\ views' = Dead(views)
  /\ buffers' = Dead(buffers)

\* The application destroys what it has made, once.
Destroy ==
  /\ pc = "idle" /\ owned
  /\ DestroyAll
  /\ owned' = FALSE
  /\ ready' = FALSE
  /\ UNCHANGED <<calls, lost, failed, wild>>

\* recreate() passes buffer_attachments_ to init() as a span, which line 56 leaves
\* without its vector; an empty span is as good as a valid one.
Recreate ==
  /\ pc = "idle" /\ owned
  /\ DestroyAll
  /\ pc' = "query"
  /\ span' \in {"valid", "dangling"}
  /\ ready' = FALSE
  /\ wild' = FALSE
  /\ UNCHANGED <<at, owned, lost, failed>>

Init ==
  /\ handle = "null"
  /\ views = <<>>
  /\ buffers = <<>>
  /\ pc = "idle"
  /\ at = [count |-> 0, i |-> 1]
  /\ span = "valid"
  /\ owned = FALSE
  /\ ready = FALSE
  /\ lost = FALSE
  /\ twice = FALSE
  /\ failed = FALSE
  /\ wild = FALSE

Next ==
  \/ InitCall \/ CreateSwapchain \/ GetImages \/ CreateView \/ CreateBuffer \/ Throw
  \/ Destroy \/ Recreate

Spec == Init /\ [][Next]_vars

-------------------------------------------------------------------------------
(* Properties                                                              *)

\* After an init() or recreate() that returned, whatever failed before, each image
\* has a live view and a live framebuffer, so begin_pass hands out live ones; and
\* with the attachments given, unless recreate() had a span of some.
WholeWhenReady ==
  ready => /\ handle = "live"
           /\ Len(views) = Len(buffers) /\ Len(views) > 0
           /\ \A i \in 1 .. Len(views) : views[i] = "live" /\ buffers[i] = "live"
           /\ span = "valid" => ~wild

\* The books of create and destroy are even.  No handle is lost, though vectors
\* shrink and an init() may end half way: the next recreate() or destroy() finds all
\* that is live.  A handle is destroyed twice only when an init() has thrown, after
\* which recreate() finds the old framebuffers still in buffers_.
HandlesAreAccounted ==
  /\ ~lost
  /\ pc = "idle" /\ ~owned =>
       /\ handle # "live"
       /\ \A i \in 1 .. Len(views) : views[i] # "live"
       /\ \A i \in 1 .. Len(buffers) : buffers[i] # "live"
  /\ twice => failed

===============================================================================
