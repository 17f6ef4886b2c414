------------------------------- MODULE GpuObject --------------------------------
(***************************************************************************)
(* The life of one Vulkan object of RedFox (src/render/vulkan/*.cpp): a    *)
(* class with init(), destroy(), a flag initialised_, and members that are *)
(* handles init() creates and destroy() destroys.                          *)
(*                                                                         *)
(* The classes do the same with two differences.  Some set the flag before *)
(* they create anything, some when everything is created; and they own one *)
(* handle or several.  Both matter when a creation fails half way.         *)
(***************************************************************************)
EXTENDS Integers, Sequences, Functions

CONSTANTS
  Slots,     \* members and local variables that hold a handle
  Classes    \* the classes; see Class

\* first: initialised_ is set before the first creation.  makes: what init()
\* creates, in that order; temps: those of them it destroys again at its end.
\* copies: what copy() creates and destroys.  tail: init() may still throw when
\* everything is created.
Class == [first : BOOLEAN, tail : BOOLEAN, temps : SUBSET Slots,
          makes : Seq(Slots), copies : Seq(Slots)]

\* What a class has to be like for the theorems: its local variables are not its
\* members, and if it sets the flag first it creates each handle once.
CreatesOnce(c) ==
  \A i, j \in 1 .. Len(c.makes) : c.makes[i] = c.makes[j] => i = j

WellMade(c) ==
  /\ c \in Class
  /\ Range(c.makes) \cap Range(c.copies) = {}
  /\ c.first => CreatesOnce(c)

VARIABLES
  class,        \* the class of the object
  initialised,  \* initialised_
  slot,         \* the handle in each slot: none, a live or a destroyed one
  job,          \* the call under way
  at,           \* the creation it has come to
  lost,         \* history: slots of live handles overwritten or forgotten
  twice,        \* history: a destroyed handle has been destroyed again
  failed        \* history: the calls that have thrown half way

vars == <<class, initialised, slot, job, at, lost, twice, failed>>

Members == Range(class.makes) \ class.temps
Locals  == class.temps \cup Range(class.copies)
Creates == IF job = "init" THEN class.makes ELSE class.copies

TypeOK ==
  /\ class \in Classes
  /\ {initialised, twice} \subseteq BOOLEAN
  /\ failed \subseteq {"init", "copy"}
  /\ slot \in [Slots -> {"null", "live", "dead"}]
  /\ job \in {"none", "init", "copy"}
  /\ at \in 1 .. Len(Creates) + 1
  /\ lost \subseteq Slots

-------------------------------------------------------------------------------
Mut_FlagLast ==
  /\ job = "none" /\ ~initialised
  /\ job' = "init"
  /\ at' = 1
  /\ UNCHANGED <<class, initialised, slot, lost, twice, failed>>

Mut_FlagFirst ==
  /\ job = "none" /\ ~initialised
  /\ job' = "init"
  /\ at' = 1
  /\ initialised' = TRUE
  /\ UNCHANGED <<class, slot, lost, twice, failed>>

\* A second init() throws at once and changes nothing.
InitCall ==
  /\ job = "none" /\ ~initialised
  /\ job' = "init"
  /\ at' = 1
  /\ initialised' = class.first
  /\ UNCHANGED <<class, slot, lost, twice, failed>>

\* copy() does not look at the flag: the application calls it on an object whose
\* init() has returned, or which says it is initialised.
CopyCall ==
  /\ job = "none" /\ initialised /\ class.copies # <<>>
  /\ job' = "copy"
  /\ at' = 1
  /\ UNCHANGED <<class, initialised, slot, lost, twice, failed>>

Create ==
  /\ job # "none" /\ at <= Len(Creates)
  /\ lost' = IF slot[Creates[at]] = "live" THEN lost \cup {Creates[at]} ELSE lost
  /\ slot' = [slot EXCEPT ![Creates[at]] = "live"]
  /\ at' = at + 1
  /\ UNCHANGED <<class, initialised, job, twice, failed>>

\* A creation fails, or something between two of them (no memory type, a bind, a
\* submission).  Nothing is undone; the local variables are gone.
Throw ==
  /\ job # "none"
  /\ at <= Len(Creates) \/ (job = "init" => class.tail)
  /\ job' = "none"
  /\ at' = 1
  /\ failed' = failed \cup {job}
  /\ lost' = lost \cup {s \in Locals : slot[s] = "live"}
  /\ slot' = [s \in Slots |-> IF s \in Locals THEN "null" ELSE slot[s]]
  /\ UNCHANGED <<class, initialised, twice>>

Return ==
  /\ job # "none" /\ at > Len(Creates)
  /\ job' = "none"
  /\ at' = 1
  /\ initialised' = TRUE
  /\ slot' = [s \in Slots |-> IF s \in Locals THEN "null" ELSE slot[s]]
  /\ UNCHANGED <<class, lost, twice, failed>>

Mut_Destroy ==
  /\ job = "none" /\ initialised
  /\ twice' = (twice \/ \E s \in Members : slot[s] = "dead")
  /\ slot' = [s \in Slots |->
                IF s \in Members /\ slot[s] = "live" THEN "dead" ELSE slot[s]]
  /\ UNCHANGED <<class, initialised, job, at, lost, failed>>

\* A null handle is passed over by Vulkan.  On an empty object destroy() throws.
Destroy ==
  /\ job = "none" /\ initialised
  /\ initialised' = FALSE
  /\ twice' = (twice \/ \E s \in Members : slot[s] = "dead")
  /\ slot' = [s \in Slots |->
                IF s \in Members /\ slot[s] = "live" THEN "dead" ELSE slot[s]]
  /\ UNCHANGED <<class, job, at, lost, failed>>

\* handle_ptr makes the object with make_shared<T>(), which clears the flag and
\* the handles of a class without a constructor of its own.
Init ==
  /\ class \in Classes
  /\ initialised = FALSE
  /\ slot = [s \in Slots |-> "null"]
  /\ job = "none"
  /\ at = 1
  /\ lost = {}
  /\ twice = FALSE
  /\ failed = {}

Next == InitCall \/ CopyCall \/ Create \/ Throw \/ Return \/ Destroy

Spec == Init /\ [][Next]_vars

-------------------------------------------------------------------------------
(* Properties                                                              *)

\* The flag can be trusted: of an object that says it is initialised all handles
\* are live, unless its class sets the flag first and an init() has failed.
FlagIsTrue ==
  job = "none" /\ initialised /\ (class.first => "init" \notin failed) =>
    \A s \in Members : slot[s] = "live"

\* What init() made is destroyed exactly once.  A class that sets the flag last
\* never destroys a handle twice, however often its init() fails; with the flag
\* first, that takes a failure.
DestroyedOnce == twice => class.first /\ "init" \in failed

\* A class that sets the flag first, or owns one handle only, does not lose a member
\* even when init() fails: destroy() can still reach it.
NoMemberIsLost ==
  class.first \/ (Len(class.makes) = 1 /\ ~class.tail) =>
    /\ lost \subseteq Locals
    /\ job = "none" /\ ~initialised => \A s \in Members : slot[s] # "live"

===============================================================================
