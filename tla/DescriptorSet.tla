----------------------------- MODULE DescriptorSet -----------------------------
(***************************************************************************)
(* RF::vulkan::descriptor_set_impl_t and descriptor_binding_impl_t         *)
(* (src/render/vulkan/descriptor_set.cpp).  No flag says how far a set has *)
(* come: bind, add_binding and the writes may be called at any time, what  *)
(* allocate() has made is destroyed once, allocate() may be tried again    *)
(* when it has thrown, and the pool the set lives in may go first.         *)
(***************************************************************************)
EXTENDS Naturals, Sequences, SequencesExt

CONSTANTS
  Bindings,    \* binding objects
  Indices,     \* their indices in the shader
  MaxBindings  \* bound on the bindings added

VARIABLES
  index,     \* index_ of each binding; None before bind()
  bindings,  \* bindings_
  layout,    \* layout_, and the indices it was made of
  handle,    \* handle_, and the indices of the layout it was allocated with
  reached,   \* Vulkan: the indices of handle_ that have been written
  ready,     \* history: allocate() has returned, and the set is as it left it
  stray,     \* history: since then a write has found no place in the set
  owned,     \* the application has to call destroy(): allocate() has been called since
  thrown,    \* the last allocate() has thrown
  lost,      \* history: a live layout has been overwritten
  twice,     \* history: a destroyed layout has been destroyed again
  failed     \* history: what an allocate() could not make when it threw

books == <<owned, thrown, lost, twice, failed>>
vars  == <<index, bindings, layout, handle, reached, ready, stray, books>>

None == "none"
Objects == [is : {"null", "live", "dead"}, of : SUBSET Indices]

TypeOK ==
  /\ index \in [Bindings -> Indices \cup {None}]
  /\ bindings \in SeqOf(Bindings, MaxBindings)
  /\ {layout, handle} \subseteq Objects
  /\ reached \subseteq Indices
  /\ {ready, stray, owned, thrown, lost, twice} \subseteq BOOLEAN
  /\ failed \subseteq {"layout", "set"}

-------------------------------------------------------------------------------
\* Lines 64-76.  A binding that is bound anew no longer is what allocate() saw.
Bind(b, i) ==
  /\ index' = [index EXCEPT ![b] = i]
  /\ ready' = (ready /\ (index[b] = i \/ b \notin ToSet(bindings)))
  /\ UNCHANGED <<bindings, layout, handle, reached, stray, books>>

\* Lines 20-21.
AddBinding(b) ==
  /\ Len(bindings) < MaxBindings
  /\ bindings' = Append(bindings, b)
  /\ ready' = FALSE
  /\ UNCHANGED <<index, layout, handle, reached, stray, books>>

\* Lines 35-54, layouts a call may be given: index_ of a binding that is not bound
\* is read all the same, with any outcome.
Seen ==
  LET bound == {index[b] : b \in ToSet(bindings)} IN
  IF None \in bound THEN {(bound \ {None}) \cup {i} : i \in Indices} ELSE {bound}

\* The application calls allocate() on a set it has destroyed, or never allocated, and
\* again when it has thrown.  It then calls destroy() once, thrown or not: the exception
\* does not say whether there is a layout.
Calls == (owned => thrown) /\ owned' = TRUE

\* Lines 48-54.  An old layout is overwritten.
MakeLayout(of) ==
  /\ Calls
  /\ layout' = [is |-> "live", of |-> of]
  /\ lost' = (lost \/ layout.is = "live")

\* Lines 33-62.  The new set has nothing written.
Allocate ==
  /\ \E of \in Seen : MakeLayout(of) /\ handle' = [is |-> "live", of |-> of]
  /\ reached' = {}
  /\ ready' = \A b \in ToSet(bindings) : index[b] # None
  /\ stray' = FALSE
  /\ thrown' = FALSE
  /\ UNCHANGED <<index, bindings, twice, failed>>

\* Line 54: no layout is made, and layout_ names the old one, which may be destroyed.
\* Line 61: the pool is exhausted.  The layout has been made, handle_ is as it was.
AllocateThrows ==
  /\ \/ Calls /\ failed' = failed \cup {"layout"} /\ UNCHANGED <<layout, lost, ready>>
     \/ /\ \E of \in Seen : MakeLayout(of)
        /\ failed' = failed \cup {"set"}
        /\ ready' = FALSE
  /\ thrown' = TRUE
  /\ UNCHANGED <<index, bindings, handle, reached, stray, twice>>

\* set_buffer, set_sampler and set_image (lines 78-165): a write to handle_, at index_.
Write(b) ==
  /\ index[b] # None
  /\ IF handle.is = "live" /\ index[b] \in handle.of
     THEN reached' = reached \cup {index[b]} /\ UNCHANGED stray
     ELSE stray' = (stray \/ b \in ToSet(bindings)) /\ UNCHANGED reached
  /\ UNCHANGED <<index, bindings, layout, handle, ready, books>>

\* The application destroys the pool, and with it the set; handle_ stays.
DestroyPool ==
  /\ handle.is = "live"
  /\ handle' = [handle EXCEPT !.is = "dead"]
  /\ ready' = FALSE
  /\ UNCHANGED <<index, bindings, layout, reached, stray, books>>

\* Lines 15-18.  The set and the bindings stay: the layout is needed to make
\* pipelines only.  layout_ keeps its value; no layout is none to destroy.
Destroy ==
  /\ owned
  /\ owned' = FALSE
  /\ thrown' = FALSE
  /\ layout' = [layout EXCEPT !.is = IF @ = "live" THEN "dead" ELSE @]
  /\ twice' = (twice \/ layout.is = "dead")
  /\ UNCHANGED <<index, bindings, handle, reached, ready, stray, lost, failed>>

Init ==
  /\ index = [b \in Bindings |-> None]
  /\ bindings = <<>>
  /\ layout = [is |-> "null", of |-> {}]
  /\ handle = [is |-> "null", of |-> {}]
  /\ reached = {}
  /\ ready = FALSE
  /\ stray = FALSE
  /\ owned = FALSE
  /\ thrown = FALSE
  /\ lost = FALSE
  /\ twice = FALSE
  /\ failed = {}

Next ==
  \/ \E b \in Bindings : \/ \E i \in Indices : Bind(b, i)
                         \/ AddBinding(b) \/ Write(b)
  \/ Allocate \/ AllocateThrows \/ DestroyPool \/ Destroy

Spec == Init /\ [][Next]_vars

-------------------------------------------------------------------------------
(* Properties                                                              *)

\* A set that was allocated with all its bindings bound, and neither changed nor
\* lost its pool since, has a place for each of them, of the layout that layout()
\* gives to pipelines; so every write through one of them has reached it.
WholeWhenReady ==
  ready => /\ handle.is = "live" /\ layout.is \in {"live", "dead"}
           /\ handle.of = layout.of
           /\ \A b \in ToSet(bindings) : index[b] \in handle.of
           /\ ~stray

\* The books of create and destroy are even but for the calls that threw: a layout is
\* lost only when an allocate() could not make its set and was tried again, and dies
\* twice only when an allocate() on a set destroyed before could not make its layout.
LayoutsAreAccounted ==
  /\ ~owned => layout.is # "live"
  /\ lost => "set" \in failed
  /\ twice => "layout" \in failed

===============================================================================
