------------------------------ MODULE Vulkan_proof -----------------------------
(***************************************************************************)
(* Theorems about the Vulkan parts of RedFoxParts: objects of any class,   *)
(* swapchains of any number of images, the layout of an image with any     *)
(* framebuffers, descriptor sets of any bindings.  Each is first proved of *)
(* the part alone and then of every behaviour of RedFoxParts.              *)
(***************************************************************************)
EXTENDS RedFoxParts, Sequences, TLAPS

-------------------------------------------------------------------------------
(* Objects                                                                 *)

\* Where the call is, and which handles it has created so far.
ObjectShape ==
  /\ GO!WellMade(class)
  /\ initialised \in BOOLEAN
  /\ slot \in [Slots -> {"null", "live", "dead"}]
  /\ job \in {"none", "init", "copy"}
  /\ at \in 1 .. Len(GO!Creates) + 1
  /\ job = "init" => initialised = class.first
  /\ job = "copy" => initialised

Made ==
  job = "init" => \A i \in 1 .. at - 1 : slot[class.makes[i]] = "live"

\* FlagIsTrue, also while copy() runs.
Trusted ==
  job # "init" /\ initialised /\ (class.first => "init" \notin failed) =>
    \A s \in GO!Members : slot[s] = "live"

ObjectInv == ObjectShape /\ Made /\ Trusted /\ GO!DestroyedOnce

-------------------------------------------------------------------------------
\* What a class creates is a slot.
LEMMA CreatesAreSlots ==
  ASSUME ObjectShape
  PROVE  /\ GO!Creates \in Seq(Slots)
         /\ \A i \in 1 .. Len(GO!Creates) : GO!Creates[i] \in Slots
         /\ class.makes \in Seq(Slots) /\ class.copies \in Seq(Slots)
         /\ GO!Members \subseteq Slots
         /\ class.first \in BOOLEAN
  <1>1. class.makes \in Seq(Slots) /\ class.copies \in Seq(Slots)
    BY DEF ObjectShape, GO!WellMade, GO!Class
  <1>2. GO!Creates \in Seq(Slots)
    BY <1>1 DEF GO!Creates
  <1>3. GO!Members \subseteq Slots
    BY <1>1 DEF GO!Members, GO!Range
  <1>4. class.first \in BOOLEAN
    BY DEF ObjectShape, GO!WellMade, GO!Class
  <1> QED
    BY <1>1, <1>2, <1>3, <1>4

LEMMA ObjectInitInv ==
  ASSUME \A c \in Classes : GO!WellMade(c), GO!Init
  PROVE  ObjectInv
  <1>1. class.makes \in Seq(Slots) /\ class.copies \in Seq(Slots)
    BY DEF GO!Init, GO!WellMade, GO!Class
  <1>2. at \in 1 .. Len(GO!Creates) + 1
    BY <1>1 DEF GO!Init, GO!Creates
  <1> QED
    BY <1>2 DEF GO!Init, ObjectInv, ObjectShape, Made, Trusted, GO!DestroyedOnce

LEMMA ObjectStepInv ==
  ASSUME ObjectInv, [GO!Next]_(GO!vars)
  PROVE  ObjectInv'
  <1> USE DEF ObjectInv
  <1>0. /\ GO!Creates \in Seq(Slots)
        /\ \A i \in 1 .. Len(GO!Creates) : GO!Creates[i] \in Slots
        /\ class.makes \in Seq(Slots) /\ class.copies \in Seq(Slots)
        /\ GO!Members \subseteq Slots
        /\ class.first \in BOOLEAN
    BY CreatesAreSlots
  <1>1. CASE GO!InitCall
    BY <1>0, <1>1 DEF GO!InitCall, ObjectShape, Made, Trusted, GO!DestroyedOnce, GO!Creates
  <1>2. CASE GO!CopyCall
    BY <1>0, <1>2 DEF GO!CopyCall, ObjectShape, Made, Trusted, GO!DestroyedOnce, GO!Creates, GO!Members
  <1>3. CASE GO!Create
    <2>1. ObjectShape'
      BY <1>0, <1>3 DEF GO!Create, ObjectShape, GO!Creates
    <2>2. Made'
      BY <1>0, <1>3 DEF GO!Create, ObjectShape, Made, GO!Creates
    <2>3. Trusted'
      <3>1. CASE job = "copy"
        <4>1. GO!Creates[at] \in GO!Range(class.copies)
          BY <1>0, <1>3, <3>1 DEF GO!Create, GO!Creates, ObjectShape, GO!Range
        <4>2. GO!Creates[at] \notin GO!Members
          BY <4>1 DEF GO!Members, ObjectShape, GO!WellMade
        <4> QED
          BY <1>0, <1>3, <3>1, <4>2 DEF GO!Create, Trusted, ObjectShape, GO!Members
      <3> QED
        BY <1>3, <3>1 DEF GO!Create, Trusted, ObjectShape
    <2> QED
      BY <1>3, <2>1, <2>2, <2>3 DEF GO!Create, GO!DestroyedOnce
  <1>4. CASE GO!Throw
    <2>1. ObjectShape'
      BY <1>0, <1>4 DEF GO!Throw, ObjectShape, GO!Creates
    <2>2. Trusted'
      <3>1. CASE job = "copy"
        <4>1. \A s \in GO!Members : s \notin GO!Locals
          BY DEF GO!Members, GO!Locals, ObjectShape, GO!WellMade
        <4> QED
          BY <1>0, <1>4, <3>1, <4>1 DEF GO!Throw, Trusted, ObjectShape, GO!Members
      <3>2. CASE job = "init"
        BY <1>4, <3>2 DEF GO!Throw, Trusted, ObjectShape
      <3> QED
        BY <1>4, <3>1, <3>2 DEF GO!Throw, ObjectShape
    <2> QED
      BY <1>4, <2>1, <2>2 DEF GO!Throw, Made, GO!DestroyedOnce
  <1>5. CASE GO!Return
    <2>1. ObjectShape'
      BY <1>0, <1>5 DEF GO!Return, ObjectShape, GO!Creates
    <2>2. Trusted'
      <3>1. \A s \in GO!Members : s \notin GO!Locals
        BY DEF GO!Members, GO!Locals, ObjectShape, GO!WellMade
      <3>2. CASE job = "copy"
        BY <1>0, <1>5, <3>1, <3>2 DEF GO!Return, Trusted, ObjectShape, GO!Members
      <3>3. CASE job = "init"
        <4>1. \A s \in GO!Members : \E i \in 1 .. at - 1 : s = class.makes[i]
          BY <1>0, <1>5, <3>3 DEF GO!Return, GO!Creates, GO!Members, GO!Range, ObjectShape
        <4>2. \A s \in GO!Members : slot[s] = "live"
          BY <4>1, <3>3 DEF Made
        <4> QED
          BY <1>0, <1>5, <3>1, <4>2 DEF GO!Return, Trusted, GO!Members
      <3> QED
        BY <1>5, <3>2, <3>3 DEF GO!Return, ObjectShape
    <2> QED
      BY <1>5, <2>1, <2>2 DEF GO!Return, Made, GO!DestroyedOnce
  <1>6. CASE GO!Destroy
    <2>1. ObjectShape'
      BY <1>0, <1>6 DEF GO!Destroy, ObjectShape, GO!Creates
    <2>2. GO!DestroyedOnce'
      BY <1>6 DEF GO!Destroy, GO!DestroyedOnce, Trusted, ObjectShape
    <2> QED
      BY <1>6, <2>1, <2>2 DEF GO!Destroy, Made, Trusted
  <1>7. CASE UNCHANGED GO!vars
    BY <1>7 DEF GO!vars, ObjectShape, Made, Trusted, GO!DestroyedOnce, GO!Creates, GO!Members
  <1> QED
    BY <1>1, <1>2, <1>3, <1>4, <1>5, <1>6, <1>7 DEF GO!Next

-------------------------------------------------------------------------------
(* What is not lost                                                        *)

Sturdy == class.first \/ (Len(class.makes) = 1 /\ ~class.tail)

\* NoMemberIsLost, also while a call is under way: what init() is still to create
\* does not exist yet.
Kept ==
  Sturdy =>
    /\ lost \subseteq GO!Locals
    /\ job = "none" /\ ~initialised => \A s \in GO!Members : slot[s] # "live"
    /\ job = "init" => \A i \in at .. Len(class.makes) :
                         class.makes[i] \in GO!Members => slot[class.makes[i]] # "live"

LEMMA StepKept ==
  ASSUME ObjectInv, Kept, [GO!Next]_(GO!vars)
  PROVE  Kept'
  <1> SUFFICES ASSUME Sturdy'
               PROVE  Kept'
    BY DEF Kept
  <1>0. /\ \A i \in 1 .. Len(GO!Creates) : GO!Creates[i] \in Slots
        /\ Len(class.makes) \in Nat /\ Len(class.copies) \in Nat
        /\ GO!Members \subseteq Slots
        /\ class.first \in BOOLEAN
        /\ slot \in [Slots -> {"null", "live", "dead"}]
        /\ at \in 1 .. Len(GO!Creates) + 1
        /\ job \in {"none", "init", "copy"}
    BY CreatesAreSlots DEF ObjectInv, ObjectShape
  <1>1. class' = class /\ Sturdy /\ GO!Members' = GO!Members /\ GO!Locals' = GO!Locals
    BY DEF GO!Next, GO!vars, GO!InitCall, GO!CopyCall, GO!Create, GO!Throw, GO!Return, GO!Destroy, Sturdy, GO!Members, GO!Locals
  <1>2. CASE GO!InitCall
    <2>1. \A i \in 1 .. Len(class.makes) :
             class.makes[i] \in GO!Members => slot[class.makes[i]] # "live"
      BY <1>1, <1>2 DEF GO!InitCall, Kept
    <2> QED
      BY <1>0, <1>1, <1>2, <2>1 DEF GO!InitCall, Kept
  <1>3. CASE GO!CopyCall
    BY <1>1, <1>3 DEF GO!CopyCall, Kept
  <1>4. CASE GO!Create
    <2>1. CASE job = "copy"
      <3>1. GO!Creates[at] \in GO!Locals
        BY <1>0, <1>4, <2>1 DEF GO!Create, GO!Creates, GO!Locals, GO!Range
      <3> QED
        BY <1>1, <1>4, <2>1, <3>1 DEF GO!Create, Kept
    <2>2. CASE job = "init"
      <3>1. at \in 1 .. Len(class.makes) /\ GO!Creates = class.makes
        BY <1>0, <1>4, <2>2 DEF GO!Create, GO!Creates
      <3>2. class.makes[at] \notin GO!Members => class.makes[at] \in GO!Locals
        BY <3>1 DEF GO!Members, GO!Locals, GO!Range
      <3>3. class.makes[at] \in GO!Members => slot[class.makes[at]] # "live"
        BY <1>1, <2>2, <3>1 DEF Kept
      <3>4. lost' \subseteq GO!Locals
        BY <1>1, <1>4, <3>1, <3>2, <3>3 DEF GO!Create, Kept
      <3>5. ASSUME NEW i \in at + 1 .. Len(class.makes)
            PROVE  class.makes[i] \in GO!Members => slot'[class.makes[i]] # "live"
        <4>1. i \in at .. Len(class.makes) /\ i # at /\ i \in 1 .. Len(class.makes)
          BY <1>0, <3>1
        <4>2. class.makes[i] # class.makes[at]
          <5>1. CASE class.first
            BY <3>1, <4>1, <5>1 DEF ObjectInv, ObjectShape, GO!WellMade, GO!CreatesOnce
          <5>2. CASE Len(class.makes) = 1
            BY <3>1, <4>1, <5>2
          <5> QED
            BY <1>1, <5>1, <5>2 DEF Sturdy
        <4>3. slot'[class.makes[i]] = slot[class.makes[i]]
          BY <1>0, <1>4, <3>1, <4>1, <4>2 DEF GO!Create
        <4> QED
          BY <1>1, <2>2, <4>1, <4>3 DEF Kept
      <3> QED
        BY <1>1, <1>4, <2>2, <3>4, <3>5 DEF GO!Create, Kept
    <2> QED
      BY <1>0, <1>4, <2>1, <2>2 DEF GO!Create
  <1>5. CASE GO!Throw
    <2>1. lost' \subseteq GO!Locals
      BY <1>1, <1>5 DEF GO!Throw, Kept
    <2>2. ASSUME ~initialised, NEW s \in GO!Members
          PROVE  slot'[s] # "live"
      <3>1. job = "init" /\ ~class.first
        BY <1>0, <1>5, <2>2 DEF GO!Throw, ObjectInv, ObjectShape
      <3>2. Len(class.makes) = 1 /\ at = 1
        BY <1>0, <1>1, <1>5, <3>1 DEF GO!Throw, Sturdy, GO!Creates
      <3>3. s = class.makes[1]
        BY <3>2 DEF GO!Members, GO!Range
      <3>4. slot[s] # "live"
        BY <1>1, <3>1, <3>2, <3>3 DEF Kept
      <3> QED
        BY <1>0, <1>5, <3>4 DEF GO!Throw
    <2> QED
      BY <1>1, <1>5, <2>1, <2>2 DEF GO!Throw, Kept
  <1>6. CASE GO!Return
    BY <1>1, <1>6 DEF GO!Return, Kept
  <1>7. CASE GO!Destroy
    BY <1>0, <1>1, <1>7 DEF GO!Destroy, Kept
  <1>8. CASE UNCHANGED GO!vars
    BY <1>1, <1>8 DEF GO!vars, Kept
  <1> QED
    BY <1>2, <1>3, <1>4, <1>5, <1>6, <1>7, <1>8 DEF GO!Next

LEMMA ObjectsAlone == PartsSpec => GO!Spec
  <1>1. PartsInit => GO!Init
    BY DEF PartsInit
  <1>2. [PartsNext]_partsVars => [GO!Next]_(GO!vars)
    BY DEF PartsNext, partsVars, objectVars, GO!vars
  <1> QED
    BY <1>1, <1>2, PTL DEF PartsSpec, GO!Spec

LEMMA ObjectInvariant == GO!Spec => [](ObjectInv /\ Kept)
  <1>1. ASSUME GO!Init
        PROVE  ObjectInv /\ Kept
    <2>1. ObjectInv
      BY <1>1, ObjectInitInv, ClassesAssumption
    <2>2. GO!Members \subseteq Slots
      BY <2>1, CreatesAreSlots DEF ObjectInv
    <2> QED
      BY <1>1, <2>1, <2>2 DEF GO!Init, Kept
  <1>2. ObjectInv /\ Kept /\ [GO!Next]_(GO!vars) => (ObjectInv /\ Kept)'
    BY ObjectStepInv, StepKept
  <1> QED
    BY <1>1, <1>2, PTL DEF GO!Spec

\* destroy() destroys no handle twice in a class that sets initialised_ last, and
\* in no class as long as its init() does not fail.
THEOREM DestroyedOnceCorrect == PartsSpec => []DestroyedOnce
  <1>1. ObjectInv => DestroyedOnce
    BY DEF ObjectInv, DestroyedOnce
  <1> QED
    BY <1>1, ObjectsAlone, ObjectInvariant, PTL

\* handle() of an object that is initialised returns a live handle, with the same
\* exception.
THEOREM FlagIsTrueCorrect == PartsSpec => []FlagIsTrue
  <1>1. ObjectInv => FlagIsTrue
    BY DEF ObjectInv, Trusted, FlagIsTrue, GO!FlagIsTrue
  <1> QED
    BY <1>1, ObjectsAlone, ObjectInvariant, PTL

\* A class that sets initialised_ first, or owns a single handle, loses none of its
\* handles, whatever fails; which is the price the others pay for DestroyedOnce.
THEOREM NoMemberIsLostCorrect == PartsSpec => []NoMemberIsLost
  <1>1. Kept => NoMemberIsLost
    BY DEF Kept, Sturdy, NoMemberIsLost, GO!NoMemberIsLost
  <1> QED
    BY <1>1, ObjectsAlone, ObjectInvariant, PTL

-------------------------------------------------------------------------------
(* Swapchains                                                              *)

SwapchainShape ==
  /\ handle \in SC!Handles
  /\ views \in Seq(SC!Handles) /\ buffers \in Seq(SC!Handles)
  /\ sc_pc \in {"idle", "query", "images", "views", "buffers"}
  /\ sc_at \in [count : Nat, i : Nat \ {0}]
  /\ span \in {"valid", "dangling"}
  /\ owned \in BOOLEAN /\ ready \in BOOLEAN /\ sc_lost \in BOOLEAN
  /\ sc_twice \in BOOLEAN /\ sc_failed \in BOOLEAN /\ wild \in BOOLEAN

NoneLive(v) == \A i \in 1 .. Len(v) : v[i] # "live"
AllLive(v)  == \A i \in 1 .. Len(v) : v[i] = "live"

\* The first at.i - 1 of the vector under way have been made anew, no other is live.
LiveBefore(v) ==
  /\ Len(v) = sc_at.count /\ sc_at.i <= sc_at.count
  /\ \A i \in 1 .. Len(v) : v[i] = "live" <=> i < sc_at.i

\* What is live at each place of init(), and outside of it.
Phases ==
  /\ sc_pc # "idle" => owned /\ ~ready
  /\ ready => owned
  /\ sc_pc = "idle" /\ owned /\ ~sc_failed => ready
  /\ sc_pc = "query" \/ ~owned => handle # "live"
  /\ sc_pc \in {"query", "images"} \/ ~owned => NoneLive(views)
  /\ sc_pc \in {"query", "images", "views"} \/ ~owned => NoneLive(buffers)
  /\ sc_pc \in {"images", "views", "buffers"} \/ ready => handle = "live"
  /\ sc_pc = "views" => LiveBefore(views)
  /\ sc_pc = "buffers" => LiveBefore(buffers) /\ AllLive(views) /\ Len(views) = sc_at.count
  /\ ready => /\ AllLive(views) /\ AllLive(buffers)
              /\ Len(views) = Len(buffers) /\ Len(views) > 0

SwapchainBooks ==
  /\ ~sc_lost
  /\ sc_twice => sc_failed
  /\ span = "valid" => ~wild

SwapchainInv == SwapchainShape /\ Phases /\ SwapchainBooks

-------------------------------------------------------------------------------
(* The vectors *)

LEMMA ResizeVector ==
  ASSUME NEW v \in Seq(SC!Handles), NEW n \in Nat, NoneLive(v)
  PROVE  /\ SC!Resize(v, n) \in Seq(SC!Handles) /\ Len(SC!Resize(v, n)) = n
         /\ NoneLive(SC!Resize(v, n))
         /\ ~SC!Drops(v, n)
  <1> DEFINE e(i) == IF i <= Len(v) THEN v[i] ELSE "null"
  <1>1. Len(v) \in Nat /\ \A i \in 1 .. Len(v) : v[i] \in SC!Handles
    OBVIOUS
  <1>2. \A i \in 1 .. n : e(i) \in SC!Handles /\ e(i) # "live"
    BY <1>1 DEF NoneLive, SC!Handles
  <1>3. SC!Resize(v, n) = [i \in 1 .. n |-> e(i)]
    BY DEF SC!Resize
  <1> HIDE DEF e
  <1>4. SC!Resize(v, n) \in Seq(SC!Handles) /\ Len(SC!Resize(v, n)) = n
    BY <1>2, <1>3
  <1>5. NoneLive(SC!Resize(v, n))
    BY <1>2, <1>3, <1>4 DEF NoneLive
  <1>6. ~SC!Drops(v, n)
    BY <1>1 DEF SC!Drops, NoneLive
  <1> QED
    BY <1>4, <1>5, <1>6

LEMMA DeadVector ==
  ASSUME NEW v \in Seq(SC!Handles)
  PROVE  /\ SC!Dead(v) \in Seq(SC!Handles) /\ Len(SC!Dead(v)) = Len(v) /\ NoneLive(SC!Dead(v))
         /\ AllLive(v) => ~SC!HasDead(v)
  <1> DEFINE e(i) == IF v[i] = "live" THEN "dead" ELSE v[i]
  <1>1. Len(v) \in Nat /\ \A i \in 1 .. Len(v) : e(i) \in SC!Handles /\ e(i) # "live"
    BY DEF SC!Handles
  <1>2. SC!Dead(v) = [i \in 1 .. Len(v) |-> e(i)]
    BY DEF SC!Dead
  <1> HIDE DEF e
  <1>3. SC!Dead(v) \in Seq(SC!Handles) /\ Len(SC!Dead(v)) = Len(v)
    BY <1>1, <1>2
  <1>4. NoneLive(SC!Dead(v))
    BY <1>1, <1>2, <1>3 DEF NoneLive
  <1>5. AllLive(v) => ~SC!HasDead(v)
    BY DEF AllLive, SC!HasDead
  <1> QED
    BY <1>3, <1>4, <1>5

LEMMA DestroyedAll ==
  ASSUME SwapchainInv, SC!DestroyAll, sc_pc = "idle", owned
  PROVE  /\ handle' \in SC!Handles \ {"live"}
         /\ views' \in Seq(SC!Handles) /\ NoneLive(views')
         /\ buffers' \in Seq(SC!Handles) /\ NoneLive(buffers')
         /\ sc_twice' \in BOOLEAN /\ (sc_twice' => sc_failed)
  <1>1. views \in Seq(SC!Handles) /\ buffers \in Seq(SC!Handles)
    BY DEF SwapchainInv, SwapchainShape
  <1>2. /\ views' = SC!Dead(views) /\ buffers' = SC!Dead(buffers)
        /\ handle' \in SC!Handles \ {"live"}
    BY DEF SC!DestroyAll, SwapchainInv, SwapchainShape, SC!Handles
  <1>3. sc_twice' \in BOOLEAN
    BY DEF SC!DestroyAll, SwapchainInv, SwapchainShape
  <1>4. ~sc_failed => ~sc_twice /\ handle # "dead" /\ ~SC!HasDead(views) /\ ~SC!HasDead(buffers)
    BY <1>1, DeadVector DEF SwapchainInv, Phases, SwapchainBooks
  <1> QED
    BY <1>1, <1>2, <1>3, <1>4, DeadVector DEF SC!DestroyAll

-------------------------------------------------------------------------------
LEMMA SwapchainInitInv ==
  ASSUME SC!Init
  PROVE  SwapchainInv
  <1>1. SwapchainShape
    <2>1. handle \in SC!Handles /\ views \in Seq(SC!Handles) /\ buffers \in Seq(SC!Handles)
      BY DEF SC!Init, SC!Handles
    <2>2. sc_at \in [count : Nat, i : Nat \ {0}]
      BY DEF SC!Init
    <2> QED
      BY <2>1, <2>2 DEF SC!Init, SwapchainShape
  <1>2. NoneLive(views) /\ NoneLive(buffers)
    BY DEF SC!Init, NoneLive
  <1>3. Phases /\ SwapchainBooks
    BY <1>2 DEF SC!Init, Phases, SwapchainBooks
  <1> QED
    BY <1>1, <1>3 DEF SwapchainInv

LEMMA SwapchainStepInv ==
  ASSUME MaxImages \in Nat, SwapchainInv, [SC!Next]_(SC!vars)
  PROVE  SwapchainInv'
  <1> USE DEF SwapchainInv, SC!calls, SC!told
  <1>1. CASE SC!InitCall
    BY <1>1 DEF SC!InitCall, SwapchainShape, Phases, SwapchainBooks, NoneLive, AllLive
  <1>2. CASE SC!CreateSwapchain
    BY <1>2 DEF SC!CreateSwapchain, SwapchainShape, Phases, SwapchainBooks, NoneLive, AllLive, SC!Handles
  <1>3. CASE SC!GetImages
    <2>1. PICK n \in SC!Counts : /\ sc_at' = [count |-> n, i |-> 1]
                              /\ sc_lost' = (sc_lost \/ SC!Drops(views, n))
                              /\ views' = SC!Resize(views, n)
      BY <1>3 DEF SC!GetImages
    <2>2. n \in Nat \ {0}
      BY DEF SC!Counts
    <2>3. views \in Seq(SC!Handles) /\ NoneLive(views)
      BY <1>3 DEF SC!GetImages, SwapchainShape, Phases
    <2>4. /\ views' \in Seq(SC!Handles) /\ Len(views') = n /\ NoneLive(views')
          /\ sc_lost' = sc_lost
      BY <2>1, <2>2, <2>3, ResizeVector DEF SwapchainBooks, SwapchainShape
    <2>5. SwapchainShape'
      BY <1>3, <2>1, <2>2, <2>4 DEF SC!GetImages, SwapchainShape
    <2>6. Phases'
      BY <1>3, <2>1, <2>2, <2>4 DEF SC!GetImages, SwapchainShape, Phases, NoneLive, AllLive, LiveBefore
    <2> QED
      BY <1>3, <2>4, <2>5, <2>6 DEF SC!GetImages, SwapchainBooks
  <1>4. CASE SC!CreateView
    <2>1. /\ views \in Seq(SC!Handles) /\ buffers \in Seq(SC!Handles) /\ LiveBefore(views)
          /\ NoneLive(buffers) /\ sc_at \in [count : Nat, i : Nat \ {0}]
      BY <1>4 DEF SC!CreateView, SwapchainShape, Phases
    <2>2. sc_at.i \in 1 .. Len(views) /\ views[sc_at.i] # "live" /\ Len(views) = sc_at.count
      BY <2>1 DEF LiveBefore
    <2>3. /\ views' \in Seq(SC!Handles) /\ Len(views') = sc_at.count
          /\ \A i \in 1 .. Len(views) : views'[i] = "live" <=> i < sc_at.i + 1
      BY <1>4, <2>1, <2>2 DEF SC!CreateView, LiveBefore, SC!Handles
    <2>4. CASE sc_at.i < sc_at.count
      <3>1. /\ sc_at' = [sc_at EXCEPT !.i = @ + 1] /\ sc_lost' = sc_lost
            /\ UNCHANGED <<sc_pc, buffers, handle, span, SC!told, sc_twice, sc_failed, wild>>
        BY <1>4, <2>2, <2>4 DEF SC!CreateView, SwapchainShape
      <3>2. SwapchainShape'
        BY <2>3, <3>1 DEF SwapchainShape
      <3>3. Phases'
        BY <1>4, <2>1, <2>3, <2>4, <3>1
        DEF SC!CreateView, Phases, LiveBefore, NoneLive, AllLive
      <3> QED
        BY <3>1, <3>2, <3>3 DEF SwapchainBooks
    <2>5. CASE sc_at.i = sc_at.count
      <3>1. /\ sc_at' = [sc_at EXCEPT !.i = 1] /\ sc_pc' = "buffers"
            /\ buffers' = SC!Resize(buffers, sc_at.count)
            /\ sc_lost' = (sc_lost \/ SC!Drops(buffers, sc_at.count))
            /\ UNCHANGED <<handle, span, SC!told, sc_twice, sc_failed, wild>>
        BY <1>4, <2>2, <2>5 DEF SC!CreateView, SwapchainShape
      <3>2. /\ buffers' \in Seq(SC!Handles) /\ Len(buffers') = sc_at.count /\ NoneLive(buffers')
            /\ sc_lost' = sc_lost
        BY <2>1, <3>1, ResizeVector DEF SwapchainShape
      <3>3. SwapchainShape'
        BY <2>3, <3>1, <3>2 DEF SwapchainShape
      <3>4. Phases'
        BY <1>4, <2>1, <2>2, <2>3, <2>5, <3>1, <3>2
        DEF SC!CreateView, Phases, LiveBefore, NoneLive, AllLive
      <3> QED
        BY <3>1, <3>2, <3>3, <3>4 DEF SwapchainBooks
    <2> QED
      BY <1>4, <2>4, <2>5 DEF SC!CreateView
  <1>5. CASE SC!CreateBuffer
    <2>1. /\ views \in Seq(SC!Handles) /\ buffers \in Seq(SC!Handles) /\ LiveBefore(buffers)
          /\ AllLive(views) /\ Len(views) = sc_at.count /\ sc_at \in [count : Nat, i : Nat \ {0}]
      BY <1>5 DEF SC!CreateBuffer, SwapchainShape, Phases
    <2>2. sc_at.i \in 1 .. Len(buffers) /\ buffers[sc_at.i] # "live" /\ Len(buffers) = sc_at.count
      BY <2>1 DEF LiveBefore
    <2>3. /\ buffers' \in Seq(SC!Handles) /\ Len(buffers') = sc_at.count
          /\ \A i \in 1 .. Len(buffers) : buffers'[i] = "live" <=> i < sc_at.i + 1
      BY <1>5, <2>1, <2>2 DEF SC!CreateBuffer, LiveBefore, SC!Handles
    <2>4. SwapchainBooks' /\ sc_lost' = sc_lost /\ wild' \in BOOLEAN
      BY <1>5, <2>2 DEF SC!CreateBuffer, SwapchainBooks, SwapchainShape
    <2>5. CASE sc_at.i < sc_at.count
      <3>1. /\ sc_at' = [sc_at EXCEPT !.i = @ + 1]
            /\ UNCHANGED <<sc_pc, ready, handle, views, span, owned, sc_twice, sc_failed>>
        BY <1>5, <2>1, <2>5 DEF SC!CreateBuffer
      <3>2. SwapchainShape'
        BY <2>3, <2>4, <3>1, SMTT(30) DEF SwapchainShape
      <3>3. Phases'
        BY <1>5, <2>1, <2>3, <2>5, <3>1
        DEF SC!CreateBuffer, Phases, LiveBefore, NoneLive, AllLive
      <3> QED
        BY <2>4, <3>2, <3>3
    <2>6. CASE sc_at.i = sc_at.count
      <3>1. /\ sc_at' = [count |-> 0, i |-> 1] /\ sc_pc' = "idle" /\ ready' = TRUE
            /\ UNCHANGED <<handle, views, span, owned, sc_twice, sc_failed>>
        BY <1>5, <2>1, <2>6 DEF SC!CreateBuffer
      <3>2. SwapchainShape'
        BY <2>3, <2>4, <3>1 DEF SwapchainShape
      <3>3. Phases'
        BY <1>5, <2>1, <2>2, <2>3, <2>6, <3>1
        DEF SC!CreateBuffer, Phases, LiveBefore, NoneLive, AllLive
      <3> QED
        BY <2>4, <3>2, <3>3
    <2> QED
      BY <1>5, <2>5, <2>6 DEF SC!CreateBuffer
  <1>6. CASE SC!Throw
    BY <1>6 DEF SC!Throw, SwapchainShape, Phases, SwapchainBooks, NoneLive, AllLive
  <1>7. CASE SC!Destroy
    <2>1. SC!DestroyAll /\ sc_pc = "idle" /\ owned
      BY <1>7 DEF SC!Destroy
    <2>2. SwapchainShape'
      BY <1>7, <2>1, DestroyedAll DEF SC!Destroy, SwapchainShape
    <2>3. Phases'
      BY <1>7, <2>1, DestroyedAll DEF SC!Destroy, Phases, NoneLive
    <2> QED
      BY <1>7, <2>1, <2>2, <2>3, DestroyedAll DEF SC!Destroy, SwapchainBooks
  <1>8. CASE SC!Recreate
    <2>1. SC!DestroyAll /\ sc_pc = "idle" /\ owned
      BY <1>8 DEF SC!Recreate
    <2>2. SwapchainShape'
      BY <1>8, <2>1, DestroyedAll DEF SC!Recreate, SwapchainShape
    <2>3. Phases'
      BY <1>8, <2>1, DestroyedAll DEF SC!Recreate, Phases, NoneLive
    <2> QED
      BY <1>8, <2>1, <2>2, <2>3, DestroyedAll DEF SC!Recreate, SwapchainBooks
  <1>9. CASE UNCHANGED SC!vars
    BY <1>9 DEF SC!vars, SwapchainShape, Phases, SwapchainBooks, NoneLive, AllLive, LiveBefore
  <1> QED
    BY <1>1, <1>2, <1>3, <1>4, <1>5, <1>6, <1>7, <1>8, <1>9 DEF SC!Next

LEMMA SwapchainAlone == PartsSpec => SC!Spec
  <1>1. PartsInit => SC!Init
    BY DEF PartsInit
  <1>2. [PartsNext]_partsVars => [SC!Next]_(SC!vars)
    BY DEF PartsNext, partsVars, swapchainVars, SC!vars, SC!calls, SC!told
  <1> QED
    BY <1>1, <1>2, PTL DEF PartsSpec, SC!Spec

LEMMA SwapchainInvariant == SC!Spec => []SwapchainInv
  BY SwapchainInitInv, SwapchainStepInv, ImagesAssumption, PTL DEF SC!Spec

-------------------------------------------------------------------------------
(* Descriptor sets                                                         *)

\* Bindings and layouts, and what the application owes.
SetShape ==
  /\ index \in [Bindings -> Indices \cup {DS!None}]
  /\ bindings \in Seq(Bindings)
  /\ layout \in DS!Objects /\ ds_handle \in DS!Objects
  /\ ds_ready \in BOOLEAN /\ stray \in BOOLEAN /\ ds_owned \in BOOLEAN
  /\ thrown \in BOOLEAN /\ ds_lost \in BOOLEAN /\ ds_twice \in BOOLEAN
  /\ ds_failed \subseteq {"layout", "set"}

\* A layout that lives is owed a destroy(); while allocate() may be tried again it is
\* one whose set could not be made.  A dead one is owed a destroy() only by an
\* allocate() that could not make another.
LayoutIsOwed ==
  /\ layout.is = "live" => ds_owned
  /\ layout.is = "live" /\ thrown => "set" \in ds_failed
  /\ layout.is = "dead" /\ ds_owned => "layout" \in ds_failed

SetInv == SetShape /\ LayoutIsOwed /\ DS!WholeWhenReady /\ DS!LayoutsAreAccounted

LEMMA BoundBindings ==
  ASSUME SetShape
  PROVE  DS!ToSet(bindings) \subseteq Bindings
  BY DEF SetShape, DS!ToSet

\* The indices a layout may be made of are indices; when all bindings are bound they
\* are those of the bindings.
LEMMA SeenIndices ==
  ASSUME SetShape, NEW of \in DS!Seen
  PROVE  /\ of \subseteq Indices
         /\ (\A b \in DS!ToSet(bindings) : index[b] # DS!None) =>
              \A b \in DS!ToSet(bindings) : index[b] \in of
  <1> DEFINE bound == {index[b] : b \in DS!ToSet(bindings)}
  <1>1. DS!ToSet(bindings) \subseteq Bindings
    BY BoundBindings
  <1>2. bound \subseteq Indices \cup {DS!None}
    BY <1>1 DEF SetShape
  <1>3. CASE DS!None \in bound
    <2>1. PICK i \in Indices : of = (bound \ {DS!None}) \cup {i}
      BY <1>3 DEF DS!Seen
    <2>2. ~ \A b \in DS!ToSet(bindings) : index[b] # DS!None
      BY <1>3
    <2> QED
      BY <1>2, <2>1, <2>2
  <1>4. CASE DS!None \notin bound
    <2>1. of = bound
      BY <1>4 DEF DS!Seen
    <2> QED
      BY <1>2, <1>4, <2>1
  <1> QED
    BY <1>3, <1>4

LEMMA SetInitInv ==
  ASSUME DS!Init
  PROVE  SetInv
  <1>1. layout \in DS!Objects /\ ds_handle \in DS!Objects
    BY DEF DS!Init, DS!Objects
  <1>2. bindings \in Seq(Bindings) /\ index \in [Bindings -> Indices \cup {DS!None}]
    BY DEF DS!Init
  <1>3. SetShape
    BY <1>1, <1>2 DEF DS!Init, SetShape
  <1> QED
    BY <1>3 DEF DS!Init, SetInv, LayoutIsOwed, DS!WholeWhenReady, DS!LayoutsAreAccounted

LEMMA SetStepInv ==
  ASSUME SetInv, [DS!Next]_(DS!vars)
  PROVE  SetInv'
  <1> USE DEF SetInv
  <1>1. ASSUME NEW b \in Bindings, NEW i \in Indices, DS!Bind(b, i)
        PROVE  SetInv'
    <2>1. SetShape' /\ LayoutIsOwed' /\ DS!LayoutsAreAccounted'
      BY <1>1 DEF DS!Bind, DS!books, SetShape, LayoutIsOwed, DS!LayoutsAreAccounted
    <2>2. ds_ready' => ds_ready /\ (index[b] = i \/ b \notin DS!ToSet(bindings))
      BY <1>1 DEF DS!Bind
    <2>3. ASSUME ds_ready', NEW c \in DS!ToSet(bindings)
          PROVE  index'[c] = index[c]
      BY <1>1, <2>2, <2>3, BoundBindings DEF DS!Bind, SetShape
    <2>4. DS!ToSet(bindings)' = DS!ToSet(bindings)
      BY <1>1 DEF DS!Bind, DS!ToSet
    <2>5. DS!WholeWhenReady'
      BY <1>1, <2>2, <2>3, <2>4 DEF DS!Bind, DS!WholeWhenReady
    <2> QED
      BY <2>1, <2>5
  <1>2. ASSUME NEW b \in Bindings, DS!AddBinding(b)
        PROVE  SetInv'
    <2>1. bindings' \in Seq(Bindings)
      BY <1>2 DEF DS!AddBinding, SetShape
    <2>2. SetShape'
      BY <1>2, <2>1 DEF DS!AddBinding, DS!books, SetShape
    <2> QED
      BY <1>2, <2>2 DEF DS!AddBinding, DS!books, LayoutIsOwed, DS!WholeWhenReady,
         DS!LayoutsAreAccounted
  <1>3. ASSUME NEW b \in Bindings, DS!Write(b)
        PROVE  SetInv'
    BY <1>3 DEF DS!Write, DS!books, SetShape, LayoutIsOwed, DS!WholeWhenReady,
       DS!LayoutsAreAccounted
  <1>4. ASSUME NEW of \in DS!Seen, DS!MakeLayout(of)
        PROVE  /\ layout' = [is |-> "live", of |-> of] /\ layout' \in DS!Objects
               /\ ds_owned'
               /\ ds_lost' \in BOOLEAN /\ (ds_lost' => "set" \in ds_failed)
    BY <1>4, SeenIndices DEF DS!MakeLayout, DS!Calls, DS!Objects, SetShape, LayoutIsOwed,
       DS!LayoutsAreAccounted
  <1>5. CASE DS!Allocate
    <2>1. PICK of \in DS!Seen : DS!MakeLayout(of) /\ ds_handle' = [is |-> "live", of |-> of]
      BY <1>5 DEF DS!Allocate
    <2>2. SetShape' /\ LayoutIsOwed' /\ DS!LayoutsAreAccounted'
      BY <1>4, <1>5, <2>1 DEF DS!Allocate, DS!MakeLayout, DS!Calls, SetShape, LayoutIsOwed,
         DS!LayoutsAreAccounted
    <2>3. layout'.is = "live" /\ ds_handle'.is = "live" /\ ds_handle'.of = of
          /\ layout'.of = of /\ ~stray'
      BY <1>4, <1>5, <2>1 DEF DS!Allocate
    <2>4. DS!ToSet(bindings)' = DS!ToSet(bindings) /\ index' = index
      BY <1>5 DEF DS!Allocate, DS!ToSet
    <2>5. ds_ready' => \A b \in DS!ToSet(bindings) : index[b] # DS!None
      BY <1>5 DEF DS!Allocate
    <2>6. ds_ready' => \A b \in DS!ToSet(bindings) : index[b] \in of
      BY <2>5, SeenIndices
    <2>7. DS!WholeWhenReady'
      BY <2>3, <2>4, <2>6 DEF DS!WholeWhenReady
    <2> QED
      BY <2>2, <2>7
  <1>6. CASE DS!AllocateThrows
    <2>1. CASE DS!Calls /\ ds_failed' = ds_failed \cup {"layout"}
               /\ UNCHANGED <<layout, ds_lost, ds_ready>>
      <3>1. SetShape' /\ LayoutIsOwed' /\ DS!LayoutsAreAccounted'
        BY <1>6, <2>1 DEF DS!AllocateThrows, DS!Calls, SetShape, LayoutIsOwed,
           DS!LayoutsAreAccounted
      <3>2. DS!ToSet(bindings)' = DS!ToSet(bindings)
        BY <1>6 DEF DS!AllocateThrows, DS!ToSet
      <3>3. UNCHANGED <<index, layout, ds_handle, ds_ready, stray>>
        BY <1>6, <2>1 DEF DS!AllocateThrows
      <3>4. DS!WholeWhenReady'
        BY <3>2, <3>3 DEF DS!WholeWhenReady
      <3> QED
        BY <3>1, <3>4
    <2>2. ASSUME NEW of \in DS!Seen, DS!MakeLayout(of), ds_failed' = ds_failed \cup {"set"},
                 ds_ready' = FALSE
          PROVE  SetInv'
      <3>1. thrown' = TRUE /\ UNCHANGED <<index, bindings, ds_handle, reached, stray, ds_twice>>
        BY <1>6 DEF DS!AllocateThrows
      <3>2. layout'.is = "live" /\ layout' \in DS!Objects /\ ds_owned' = TRUE
        BY <1>4, <2>2 DEF DS!MakeLayout, DS!Calls
      <3>3. ds_failed' \subseteq {"layout", "set"} /\ "set" \in ds_failed'
            /\ (ds_twice => "layout" \in ds_failed')
        BY <2>2 DEF SetShape, DS!LayoutsAreAccounted
      <3>4. SetShape' /\ LayoutIsOwed' /\ DS!LayoutsAreAccounted'
        BY <1>4, <2>2, <3>1, <3>2, <3>3 DEF SetShape, LayoutIsOwed, DS!LayoutsAreAccounted
      <3> QED
        BY <2>2, <3>4 DEF DS!WholeWhenReady
    <2> QED
      BY <1>6, <2>1, <2>2 DEF DS!AllocateThrows
  <1>7. CASE DS!DestroyPool
    BY <1>7 DEF DS!DestroyPool, DS!books, DS!Objects, SetShape, LayoutIsOwed,
       DS!WholeWhenReady, DS!LayoutsAreAccounted
  <1>8. CASE DS!Destroy
    BY <1>8 DEF DS!Destroy, DS!Objects, SetShape, LayoutIsOwed, DS!WholeWhenReady,
       DS!LayoutsAreAccounted
  <1>9. CASE UNCHANGED DS!vars
    BY <1>9 DEF DS!vars, DS!books, SetShape, LayoutIsOwed, DS!WholeWhenReady,
       DS!LayoutsAreAccounted
  <1> QED
    BY <1>1, <1>2, <1>3, <1>5, <1>6, <1>7, <1>8, <1>9 DEF DS!Next

LEMMA SetAlone == PartsSpec => DS!Spec
  <1>1. PartsInit => DS!Init
    BY DEF PartsInit
  <1>2. [PartsNext]_partsVars => [DS!Next]_(DS!vars)
    BY DEF PartsNext, partsVars, descriptorVars, DS!vars, DS!books
  <1> QED
    BY <1>1, <1>2, PTL DEF PartsSpec, DS!Spec

LEMMA SetInvariant == DS!Spec => []SetInv
  BY SetInitInv, SetStepInv, PTL DEF DS!Spec

-------------------------------------------------------------------------------
(* The promises of both                                                    *)

\* After an init() or recreate() that returned every image has a live view and a
\* live framebuffer, however many images and however many calls failed before
\* (swapchain.cpp:49-178, 234-241); and a set allocated with all its bindings bound
\* has a place for each, however bindings and calls follow upon each other
\* (descriptor_set.cpp:33-165).
THEOREM WholeWhenReadyCorrect == PartsSpec => []WholeWhenReady
  <1>1. SwapchainInv => SC!WholeWhenReady
    BY DEF SwapchainInv, SwapchainShape, Phases, SwapchainBooks, SC!WholeWhenReady, AllLive
  <1>2. SetInv => DS!WholeWhenReady
    BY DEF SetInv
  <1>3. SwapchainInv /\ SetInv => WholeWhenReady
    BY <1>1, <1>2 DEF WholeWhenReady
  <1> QED
    BY <1>3, SwapchainAlone, SwapchainInvariant, SetAlone, SetInvariant, PTL

\* No handle of a swapchain is ever lost, none is left when the application has
\* destroyed it, and none dies twice before an init() has thrown
\* (swapchain.cpp:198-205); a layout of a set is lost only after an allocate() that
\* could not make the set, and dies twice only after one that could not make the
\* layout (descriptor_set.cpp:15-62).
THEOREM HandlesAreAccountedCorrect == PartsSpec => []HandlesAreAccounted
  <1>1. SwapchainInv => SC!HandlesAreAccounted
    BY DEF SwapchainInv, Phases, SwapchainBooks, SC!HandlesAreAccounted, NoneLive
  <1>2. SetInv => DS!LayoutsAreAccounted
    BY DEF SetInv
  <1>3. SwapchainInv /\ SetInv => HandlesAreAccounted
    BY <1>1, <1>2 DEF HandlesAreAccounted
  <1> QED
    BY <1>3, SwapchainAlone, SwapchainInvariant, SetAlone, SetInvariant, PTL

-------------------------------------------------------------------------------
(* The layout of an image                                                  *)

LayoutShape ==
  /\ tracked \in [IL!Objects -> Layouts \cup {IL!Undefined}]
  /\ DOMAIN object \subseteq Buffers
  /\ \A f \in DOMAIN object : object[f] \in {IL!Own, f}
  /\ recorded \in IL!Passes \cup {IL!None}
  /\ live \in BOOLEAN /\ wrong \in BOOLEAN /\ remade \in BOOLEAN /\ overtook \in BOOLEAN

\* Before there is an image nothing is tracked and there is nothing else.
Fresh ==
  ~remade /\ ~live =>
    /\ tracked = [o \in IL!Objects |-> IL!Undefined]
    /\ DOMAIN object = {} /\ recorded = IL!None

\* The object that changed the layout last is the application's or a framebuffer's own.
LatestIsInUse ==
  ~remade => latest = IL!Own \/ (latest \in DOMAIN object /\ object[latest] = latest)

\* It tracks what the image has, or will have when the pass has run.
LatestKnows ==
  ~remade /\ ~overtook =>
    /\ live /\ recorded = IL!None => tracked[latest] = actual
    /\ recorded # IL!None => tracked[latest] = recorded.final

\* While all share one object, nothing wrong has been said or recorded.
Shared ==
  ~remade /\ ~overtook /\ (\A f \in DOMAIN object : object[f] = IL!Own) =>
    ~wrong /\ (recorded # IL!None => ~IL!Mistaken(recorded.initial))

LayoutInv == LayoutShape /\ Fresh /\ LatestIsInUse /\ LatestKnows /\ Shared

-------------------------------------------------------------------------------
LEMMA LayoutInitInv ==
  ASSUME IL!Init
  PROVE  LayoutInv
  BY DEF IL!Init, LayoutInv, LayoutShape, Fresh, LatestIsInUse, LatestKnows, Shared, IL!Objects

LEMMA LayoutStepInv ==
  ASSUME IL!NamesAssumption, LayoutInv, [IL!Next]_(IL!vars)
  PROVE  LayoutInv'
  <1> USE DEF LayoutInv, IL!NamesAssumption
  <1>o. IL!Own \in IL!Objects /\ Buffers \subseteq IL!Objects
    BY DEF IL!Objects
  <1>n. IL!None \notin IL!Passes
    BY DEF IL!None, IL!Passes
  <1>1. CASE IL!InitImage
    BY <1>o, <1>1 DEF IL!InitImage, LayoutShape, Fresh, LatestIsInUse, LatestKnows, Shared, IL!Mistaken
  <1>2. CASE IL!DestroyImage
    BY <1>2 DEF IL!DestroyImage, LayoutShape, Fresh, LatestIsInUse, LatestKnows, Shared
  <1>3. CASE IL!RunPass
    BY <1>n, <1>3 DEF IL!RunPass, LayoutShape, Fresh, LatestIsInUse, LatestKnows, Shared
  <1>4. ASSUME NEW l \in Layouts, IL!Trans(l)
        PROVE  LayoutInv'
    <2>1. LayoutShape' /\ Fresh' /\ LatestIsInUse'
      BY <1>o, <1>4 DEF IL!Trans, LayoutShape, Fresh, LatestIsInUse
    <2>2. LatestKnows'
      BY <1>o, <1>4 DEF IL!Trans, LayoutShape, LatestKnows
    <2>3. Shared'
      BY <1>o, <1>4 DEF IL!Trans, LayoutShape, LatestIsInUse, LatestKnows, Shared, IL!Mistaken
    <2> QED
      BY <2>1, <2>2, <2>3
  <1>5. ASSUME NEW f \in Buffers, IL!ShareFramebuffer(f)
        PROVE  LayoutInv'
    BY <1>5 DEF IL!ShareFramebuffer, LayoutShape, Fresh, LatestIsInUse, LatestKnows, Shared, IL!Mistaken
  <1>6. ASSUME NEW f \in Buffers, IL!CreateFramebuffer(f)
        PROVE  LayoutInv'
    <2>1. /\ live /\ f \notin DOMAIN object /\ f # IL!Own
          /\ object' = [g \in DOMAIN object \cup {f} |-> IF g = f THEN f ELSE object[g]]
          /\ tracked' = [tracked EXCEPT ![f] = tracked[IL!Own]]
          /\ UNCHANGED <<live, recorded, actual, latest, wrong, remade, overtook>>
      BY <1>6 DEF IL!CreateFramebuffer
    <2>2. LayoutShape' /\ Fresh' /\ LatestIsInUse'
      BY <1>o, <2>1 DEF LayoutShape, Fresh, LatestIsInUse
    <2>3. LatestKnows'
      BY <1>o, <2>1 DEF LayoutShape, LatestIsInUse, LatestKnows
    <2>4. Shared'
      BY <2>1 DEF Shared
    <2> QED
      BY <2>2, <2>3, <2>4
  <1>7. ASSUME NEW f \in DOMAIN object, NEW pass \in IL!Passes, IL!CreateInfo(f, pass)
        PROVE  LayoutInv'
    <2>1. /\ recorded = IL!None /\ pass.initial \in {IL!Undefined, tracked[object[f]]}
          /\ recorded' = pass /\ latest' = object[f]
          /\ tracked' = [tracked EXCEPT ![object[f]] = pass.final]
          /\ UNCHANGED <<live, object, actual, wrong, remade, overtook>>
      BY <1>7 DEF IL!CreateInfo
    <2>2. object[f] \in {IL!Own, f} /\ object[f] \in IL!Objects /\ pass.final \in Layouts
      BY <1>o DEF LayoutShape, IL!Passes
    <2>3. LayoutShape' /\ LatestIsInUse' /\ LatestKnows'
      BY <1>n, <2>1, <2>2 DEF LayoutShape, LatestIsInUse, LatestKnows
    <2>4. ~remade => live
      BY DEF Fresh, LayoutShape
    <2>5. Fresh'
      BY <2>1, <2>4 DEF Fresh
    <2>6. Shared'
      <3> SUFFICES ASSUME ~remade, ~overtook, \A g \in DOMAIN object : object[g] = IL!Own
                   PROVE  ~wrong /\ ~IL!Mistaken(pass.initial)
        BY <2>1 DEF Shared, IL!Mistaken
      <3>1. latest = IL!Own /\ object[f] = IL!Own
        BY DEF LatestIsInUse, LayoutShape
      <3>2. tracked[IL!Own] = actual
        BY <2>1, <2>4, <3>1 DEF LatestKnows
      <3> QED
        BY <2>1, <3>1, <3>2 DEF Shared, IL!Mistaken
    <2> QED
      BY <2>3, <2>5, <2>6
  <1>8. CASE UNCHANGED IL!vars
    BY <1>8 DEF IL!vars, LayoutShape, Fresh, LatestIsInUse, LatestKnows, Shared, IL!Mistaken
  <1> QED
    BY <1>1, <1>2, <1>3, <1>4, <1>5, <1>6, <1>7, <1>8 DEF IL!Next

LEMMA LayoutAlone == PartsSpec => IL!Spec
  <1>1. PartsInit => IL!Init
    BY DEF PartsInit
  <1>2. [PartsNext]_partsVars => [IL!Next]_(IL!vars)
    BY DEF PartsNext, partsVars, imageVars, IL!vars
  <1> QED
    BY <1>1, <1>2, PTL DEF PartsSpec, IL!Spec

\* The object through which the layout was last changed knows it, and framebuffers
\* that share the application's object never lead to a wrong one, however many there
\* are (image.cpp:127-200, render_pass.cpp:120-172).
THEOREM LayoutIsKnownCorrect == PartsSpec => []LayoutIsKnown
  <1>1. IL!Spec => []LayoutInv
    BY LayoutInitInv, LayoutStepInv, LayoutAssumption, PTL DEF IL!Spec
  <1>2. LayoutInv => IL!LastObjectKnows
    BY DEF LayoutInv, LatestKnows, IL!LastObjectKnows
  <1>3. LayoutInv => IL!SharingIsSafe
    BY LayoutAssumption
    DEF LayoutInv, LayoutShape, LatestIsInUse, LatestKnows, Shared, IL!SharingIsSafe,
        IL!NamesAssumption
  <1>4. LayoutInv => LayoutIsKnown
    BY <1>2, <1>3 DEF LayoutIsKnown, IL!LayoutIsKnown
  <1> QED
    BY <1>1, <1>4, LayoutAlone, PTL

===============================================================================
