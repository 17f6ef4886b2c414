----------------------------- MODULE Display_proof -----------------------------
(***************************************************************************)
(* Theorems about two parts of RedFoxParts: the delegate, whatever number  *)
(* of delegates and windows the application makes, and the choice of a     *)
(* video mode among any number of modes, in unsigned arithmetic of any     *)
(* width.  Each is first proved of the part alone and then of every        *)
(* behaviour of RedFoxParts.                                               *)
(***************************************************************************)
EXTENDS RedFoxParts, Sequences, SequenceTheorems, TLAPS

-------------------------------------------------------------------------------
(* The delegate                                                            *)

\* What XRandR has given when the making has come that far.
Got(p) ==
  CASE p \in {"output", "output_info"} -> {"resources"}
    [] p = "crtc_info" -> {"output_info", "resources"}
    [] p = "give_back" -> {"output_info", "resources", "crtc_info"}
    [] OTHER -> {}

\* created_ and the delegates; one is on its way only where there is none.
OneAtMost ==
  /\ created <=> dg_pc \in {"members", "display"} \/ \E d \in Delegates : delegates[d] = "made"
  /\ \A d, e \in Delegates : delegates[d] = "made" /\ delegates[e] = "made" => d = e
  /\ dg_pc \in {"members", "display"} => \A d \in Delegates : delegates[d] # "made"
  /\ dg_pc # "idle" => making \in Delegates

\* The map and the windows; the window of a handler under way was there when the
\* handler began, so if it is deleted it has been since.
WindowsKnown ==
  /\ window_map = {w \in Windows : window[w] = "open"}
  /\ touched => undercut
  /\ \A i \in DOMAIN handling : window[handling[i]] = "deleted" => undercut

\* A delegate whose connection is closed and that is still there was told to.
ClosedOnce ==
  /\ \A d \in Delegates : delegates[d] = "made" /\ display[d] = "closed" => d \in told
  /\ dg_twice => told # {}

DelegateInv == DG!TypeOK /\ OneAtMost /\ infos = Got(dg_pc) /\ WindowsKnown /\ ClosedOnce

LEMMA DelegateInitInv ==
  ASSUME DG!NamesAssumption, DG!Init
  PROVE  DelegateInv
  <1>1. handling \in Seq(Windows) /\ Len(handling) <= MaxPolls /\ DOMAIN handling = {}
    BY DEF DG!Init, DG!NamesAssumption
  <1>2. DG!TypeOK
    BY <1>1 DEF DG!Init, DG!TypeOK, DG!Steps
  <1> QED
    BY <1>1, <1>2 DEF DG!Init, DelegateInv, OneAtMost, Got, WindowsKnown, ClosedOnce

\* The steps of create() but the last.
LEMMA MakingInv ==
  ASSUME DelegateInv, DG!Others, dg_pc # "idle", dg_pc' \in DG!Steps \cup {"idle"}, infos' = Got(dg_pc'),
         {created', alive', left'} \subseteq BOOLEAN,
         dg_pc' # "idle" => making' = making,
         dg_pc' = "idle" => making' = DG!NoDelegate,
         dg_pc' \in {"members", "display"} => dg_pc \in {"members", "display"} \/ ~created,
         created' <=> dg_pc' \in {"members", "display"} \/ (created /\ dg_pc \notin {"members", "display"})
  PROVE  DelegateInv'
  <1> USE DEF DelegateInv
  <1>1. UNCHANGED <<delegates, display, window, window_map, handling, touched, undercut, told, dg_twice>>
    BY DEF DG!Others, DG!dispatch
  <1>2. making' \in Delegates \cup {DG!NoDelegate} /\ infos' \subseteq {"resources", "output_info", "crtc_info"}
    BY DEF DG!TypeOK, OneAtMost, Got
  <1>3. DG!TypeOK'
    BY <1>1, <1>2 DEF DG!TypeOK
  <1>4. OneAtMost'
    <2>1. dg_pc' # "idle" => making' \in Delegates
      BY DEF OneAtMost
    <2>2. dg_pc' \in {"members", "display"} => \A d \in Delegates : delegates[d] # "made"
      BY DEF OneAtMost
    <2>3. (\E d \in Delegates : delegates[d] = "made") <=> (created /\ dg_pc \notin {"members", "display"})
      BY DEF OneAtMost
    <2> QED
      BY <1>1, <2>1, <2>2, <2>3 DEF OneAtMost
  <1>5. WindowsKnown' /\ ClosedOnce'
    BY <1>1 DEF WindowsKnown, ClosedOnce
  <1> QED
    BY <1>3, <1>4, <1>5

LEMMA CloseInv ==
  ASSUME DelegateInv, NEW d \in Delegates, delegates[d] = "made", DG!CloseDisplay(d),
         told \subseteq told', told' \subseteq Delegates,
         display'[d] = "closed" /\ delegates'[d] = "made" => d \in told',
         \A e \in Delegates \ {d} : delegates'[e] = delegates[e]
  PROVE  /\ display' \in [Delegates -> {"null", "open", "closed"}]
         /\ alive' \in BOOLEAN /\ dg_twice' \in BOOLEAN
         /\ ClosedOnce'
  <1> USE DEF DelegateInv
  <1>1. display' = [display EXCEPT ![d] = IF @ = "open" THEN "closed" ELSE @]
    BY DEF DG!CloseDisplay
  <1>2. display' \in [Delegates -> {"null", "open", "closed"}]
    BY <1>1 DEF DG!TypeOK
  <1>3. alive' \in BOOLEAN /\ dg_twice' \in BOOLEAN
    BY DEF DG!CloseDisplay, DG!TypeOK
  <1>4. dg_twice' => told' # {}
    BY DEF DG!CloseDisplay, ClosedOnce
  <1>5. \A e \in Delegates : delegates'[e] = "made" /\ display'[e] = "closed" => e \in told'
    BY <1>1 DEF DG!TypeOK, ClosedOnce
  <1> QED
    BY <1>2, <1>3, <1>4, <1>5 DEF ClosedOnce

LEMMA DelegateStepInv ==
  ASSUME DG!NamesAssumption, DelegateInv, [DG!Next]_(DG!vars)
  PROVE  DelegateInv'
  <1> USE DEF DelegateInv
  <1>1. CASE DG!Building
    <2>0. alive \in BOOLEAN /\ left \in BOOLEAN /\ created \in BOOLEAN /\ alive
      BY <1>1 DEF DG!TypeOK, DG!Building
    <2>f. ASSUME NEW back, DG!Fail(back), dg_pc \notin {"idle", "display"}, infos \subseteq back, DG!Others,
                 UNCHANGED alive
          PROVE  DelegateInv'
      <3>1. dg_pc' = "idle" /\ making' = DG!NoDelegate /\ infos' = {} /\ created' = (created /\ dg_pc # "members")
            /\ UNCHANGED left
        BY <2>f DEF DG!Fail
      <3>2. {created', alive', left'} \subseteq BOOLEAN
        BY <2>0, <2>f, <3>1
      <3>3. dg_pc' \in DG!Steps \cup {"idle"} /\ dg_pc' \notin {"members", "display"} /\ infos' = Got(dg_pc')
        BY <3>1 DEF Got
      <3>4. created' <=> dg_pc' \in {"members", "display"} \/ (created /\ dg_pc \notin {"members", "display"})
        BY <2>f, <3>1, <3>3
      <3> QED
        BY <2>f, <3>1, <3>2, <3>3, <3>4, MakingInv
    <2>g. ASSUME NEW next \in DG!Steps, DG!Goes(next), dg_pc # "idle", infos' = Got(next), DG!Others, UNCHANGED alive,
                 next \in {"members", "display"} <=> dg_pc \in {"members", "display"}
          PROVE  DelegateInv'
      <3>1. dg_pc' = next /\ UNCHANGED <<created, making, left>> /\ next # "idle"
        BY <2>g DEF DG!Goes, DG!Steps
      <3>2. dg_pc \in {"members", "display"} => created
        BY DEF OneAtMost
      <3>3. created' <=> dg_pc' \in {"members", "display"} \/ (created /\ dg_pc \notin {"members", "display"})
        BY <2>g, <3>1, <3>2
      <3> QED
        BY <2>0, <2>g, <3>1, <3>3, MakingInv
    <2>1. CASE DG!GetDyfuncs
      <3>1. CASE dg_pc = "dyfuncs" /\ DG!Goes("connect") /\ UNCHANGED infos
        BY <2>1, <2>g, <3>1 DEF DG!GetDyfuncs, Got, DG!Steps
      <3>2. CASE dg_pc = "members" /\ DG!Goes("display") /\ UNCHANGED infos
        BY <2>1, <2>g, <3>2 DEF DG!GetDyfuncs, Got, DG!Steps
      <3>3. CASE dg_pc \in {"dyfuncs", "members"} /\ DG!Fail({})
        BY <2>1, <2>f, <3>3 DEF DG!GetDyfuncs, Got
      <3> QED
        BY <2>1, <3>1, <3>2, <3>3 DEF DG!GetDyfuncs
    <2>2. CASE DG!Connect
      <3>1. CASE dg_pc' = "resources" /\ left' = TRUE /\ UNCHANGED <<created, making, infos, alive>>
        BY <2>0, <2>2, <3>1, MakingInv DEF DG!Connect, Got, DG!Steps
      <3>2. CASE alive' = FALSE /\ UNCHANGED DG!building
        <4>1. DG!Others /\ UNCHANGED <<created, dg_pc, making, infos, left>>
          BY <2>2, <3>2 DEF DG!Connect, DG!building
        <4>2. UNCHANGED <<delegates, display, window, window_map, handling, touched, undercut, told, dg_twice>>
          BY <4>1 DEF DG!Others, DG!dispatch
        <4> QED
          BY <2>0, <3>2, <4>1, <4>2 DEF DG!TypeOK, OneAtMost, Got, WindowsKnown, ClosedOnce
      <3> QED
        BY <2>2, <3>1, <3>2 DEF DG!Connect
    <2>3. CASE DG!Probe
      <3>1. CASE dg_pc = "resources" /\ DG!Goes("output") /\ infos' = infos \cup {"resources"}
        BY <2>3, <2>g, <3>1 DEF DG!Probe, Got, DG!Steps
      <3>2. CASE dg_pc = "resources" /\ DG!Fail({})
        BY <2>3, <2>f, <3>2 DEF DG!Probe, Got
      <3>3. CASE dg_pc = "output" /\ DG!Goes("output_info") /\ UNCHANGED infos
        BY <2>3, <2>g, <3>3 DEF DG!Probe, Got, DG!Steps
      <3>4. CASE dg_pc = "output" /\ DG!Fail({"resources"})
        BY <2>3, <2>f, <3>4 DEF DG!Probe, Got
      <3>5. CASE dg_pc = "output_info" /\ DG!Goes("crtc_info") /\ infos' = infos \cup {"output_info"}
        BY <2>3, <2>g, <3>5 DEF DG!Probe, Got, DG!Steps
      <3>6. CASE dg_pc = "output_info" /\ DG!Fail({"resources"})
        BY <2>3, <2>f, <3>6 DEF DG!Probe, Got
      <3>7. CASE dg_pc = "crtc_info" /\ DG!Goes("give_back") /\ infos' = infos \cup {"crtc_info"}
        BY <2>3, <2>g, <3>7 DEF DG!Probe, Got, DG!Steps
      <3>8. CASE dg_pc = "crtc_info" /\ DG!Fail({"output_info", "resources"})
        BY <2>3, <2>f, <3>8 DEF DG!Probe, Got
      <3>9. CASE dg_pc = "give_back" /\ DG!Goes("base") /\ infos' = {}
        BY <2>3, <2>g, <3>9 DEF DG!Probe, Got, DG!Steps
      <3> QED
        BY <2>3, <3>1, <3>2, <3>3, <3>4, <3>5, <3>6, <3>7, <3>8, <3>9 DEF DG!Probe
    <2>4. CASE DG!MakeBase
      <3>1. CASE created /\ DG!Fail({})
        BY <2>4, <2>f, <3>1 DEF DG!MakeBase, Got
      <3>2. CASE /\ ~created /\ created' = TRUE
                 /\ dg_pc' = "members"
                 /\ UNCHANGED <<making, infos, left>>
        BY <2>0, <2>4, <3>2, MakingInv DEF DG!MakeBase, Got, DG!Steps
      <3> QED
        BY <2>4, <3>1, <3>2 DEF DG!MakeBase
    <2>5. CASE DG!OpenDisplay
      <3>1. /\ dg_pc = "display" /\ dg_pc' = "idle" /\ making' = DG!NoDelegate
            /\ delegates' = [delegates EXCEPT ![making] = "made"]
            /\ UNCHANGED <<created, infos, left, window, window_map, handling, touched, undercut,
                           alive, told, dg_twice>>
        BY <2>5 DEF DG!OpenDisplay, DG!dispatch
      <3>2. PICK is \in {"open", "null"} : display' = [display EXCEPT ![making] = is]
        BY <2>5 DEF DG!OpenDisplay
      <3>3. making \in Delegates /\ created /\ \A d \in Delegates : delegates[d] # "made"
        BY <3>1 DEF OneAtMost
      <3>4. DG!TypeOK'
        BY <3>1, <3>2 DEF DG!TypeOK
      <3>5. \A d \in Delegates : delegates'[d] = "made" <=> d = making
        BY <3>1, <3>3 DEF DG!TypeOK
      <3>6. OneAtMost'
        BY <3>1, <3>3, <3>5 DEF OneAtMost
      <3>7. infos' = Got(dg_pc')
        BY <3>1 DEF Got
      <3>8. WindowsKnown'
        BY <3>1 DEF WindowsKnown
      <3>9. ClosedOnce'
        BY <3>1, <3>2, <3>3, <3>5 DEF ClosedOnce, DG!TypeOK
      <3> QED
        BY <3>4, <3>6, <3>7, <3>8, <3>9
    <2> QED
      BY <1>1, <2>1, <2>2, <2>3, <2>4, <2>5 DEF DG!Building
  <1>2. ASSUME NEW d \in Delegates, DG!Create(d)
        PROVE  DelegateInv'
    BY <1>2 DEF DG!Create, DG!TypeOK, OneAtMost, Got, WindowsKnown, ClosedOnce, DG!Steps, DG!dispatch
  <1>3. ASSUME NEW d \in Delegates, DG!Terminate(d)
        PROVE  DelegateInv'
    <2>1. /\ DG!CloseDisplay(d) /\ told' = told \cup {d} /\ delegates[d] = "made"
          /\ UNCHANGED <<created, dg_pc, making, infos, left, delegates, window, window_map, handling,
                         touched, undercut>>
      BY <1>3 DEF DG!Terminate, DG!Made, DG!building, DG!dispatch
    <2>2. /\ display' \in [Delegates -> {"null", "open", "closed"}]
          /\ alive' \in BOOLEAN /\ dg_twice' \in BOOLEAN
          /\ ClosedOnce'
      BY <2>1, CloseInv DEF DG!TypeOK
    <2>3. DG!TypeOK'
      BY <2>1, <2>2 DEF DG!TypeOK
    <2>4. OneAtMost' /\ WindowsKnown' /\ infos' = Got(dg_pc')
      BY <2>1 DEF OneAtMost, WindowsKnown
    <2> QED
      BY <2>2, <2>3, <2>4
  <1>4. ASSUME NEW d \in Delegates, DG!Delete(d)
        PROVE  DelegateInv'
    <2>1. /\ DG!CloseDisplay(d) /\ delegates' = [delegates EXCEPT ![d] = "deleted"] /\ delegates[d] = "made"
          /\ created' = FALSE /\ dg_pc = "idle"
          /\ UNCHANGED <<dg_pc, making, infos, left, window, window_map, handling, touched, undercut, told>>
      BY <1>4 DEF DG!Delete, DG!AppRuns, DG!Made, DG!dispatch
    <2>2. delegates'[d] = "deleted" /\ \A e \in Delegates \ {d} : delegates'[e] = delegates[e]
      BY <2>1 DEF DG!TypeOK
    <2>3. /\ display' \in [Delegates -> {"null", "open", "closed"}]
          /\ alive' \in BOOLEAN /\ dg_twice' \in BOOLEAN
          /\ ClosedOnce'
      BY <2>1, <2>2, CloseInv DEF DG!TypeOK
    <2>4. DG!TypeOK'
      BY <2>1, <2>3 DEF DG!TypeOK
    <2>5. \A e \in Delegates : delegates'[e] # "made"
      BY <2>1, <2>2 DEF OneAtMost
    <2>6. OneAtMost' /\ WindowsKnown' /\ infos' = Got(dg_pc')
      BY <2>1, <2>5 DEF OneAtMost, WindowsKnown
    <2> QED
      BY <2>3, <2>4, <2>6
  <1>5. ASSUME NEW w \in Windows, DG!CreateWindow(w)
        PROVE  DelegateInv'
    BY <1>5 DEF DG!CreateWindow, DG!AppRuns, DG!TypeOK, OneAtMost, Got, WindowsKnown, ClosedOnce, DG!building, DG!dispatch
  <1>6. ASSUME NEW w \in Windows, DG!Dispatch(w)
        PROVE  DelegateInv'
    <2>1. /\ Len(handling) < MaxPolls /\ w \in window_map /\ handling' = <<w>> \o handling
          /\ UNCHANGED <<created, dg_pc, making, infos, left, delegates, display, window, window_map,
                         touched, undercut, alive, told, dg_twice>>
      BY <1>6 DEF DG!Dispatch, DG!building
    <2>2. handling \in Seq(Windows) /\ Len(handling) \in Nat
      BY DEF DG!TypeOK
    <2>3. handling' \in Seq(Windows) /\ Len(handling') <= MaxPolls
      BY <2>1, <2>2 DEF DG!NamesAssumption
    <2>4. DG!TypeOK'
      BY <2>1, <2>3 DEF DG!TypeOK
    <2>5. \A i \in DOMAIN handling' : handling'[i] = w \/ \E j \in DOMAIN handling : handling'[i] = handling[j]
      BY <2>1, <2>2
    <2>6. window[w] # "deleted"
      BY <2>1 DEF WindowsKnown
    <2>7. WindowsKnown'
      BY <2>1, <2>5, <2>6 DEF WindowsKnown
    <2>8. OneAtMost' /\ ClosedOnce' /\ infos' = Got(dg_pc')
      BY <2>1 DEF OneAtMost, ClosedOnce
    <2> QED
      BY <2>4, <2>7, <2>8
  <1>7. ASSUME NEW w \in Windows, NEW how \in {"closed", "deleted"}, DG!EndWindow(w, how)
        PROVE  DelegateInv'
    <2>1. /\ window' = [window EXCEPT ![w] = how] /\ window_map' = window_map \ {w}
          /\ undercut' = (undercut \/ (how = "deleted" /\ DG!Contains(handling, w)))
          /\ UNCHANGED <<created, dg_pc, making, infos, left, delegates, display, handling, touched,
                         alive, told, dg_twice>>
      BY <1>7 DEF DG!EndWindow, DG!building
    <2>2. undercut' \in BOOLEAN /\ window' \in [Windows -> {"none", "open", "closed", "deleted"}]
      BY <2>1 DEF DG!TypeOK
    <2>3. DG!TypeOK'
      BY <2>1, <2>2 DEF DG!TypeOK
    <2>4. OneAtMost' /\ ClosedOnce' /\ infos' = Got(dg_pc')
      BY <2>1 DEF OneAtMost, ClosedOnce
    <2>5. window_map' = {v \in Windows : window'[v] = "open"}
      BY <2>1 DEF WindowsKnown, DG!TypeOK
    <2>6. touched' => undercut'
      BY <2>1 DEF WindowsKnown
    <2>7. ASSUME NEW i \in DOMAIN handling', window'[handling'[i]] = "deleted"
          PROVE  undercut'
      <3>1. handling[i] \in Windows /\ handling' = handling
        BY <2>1, <2>7 DEF DG!TypeOK
      <3>2. CASE handling[i] = w
        <4>1. window'[w] = how
          BY <2>1 DEF DG!TypeOK
        <4>2. how = "deleted"
          BY <2>7, <3>1, <3>2, <4>1
        <4>3. i \in 1 .. Len(handling)
          BY <3>1 DEF DG!TypeOK
        <4>4. DG!Contains(handling, w)
          BY <3>2, <4>3 DEF DG!Contains
        <4> QED
          BY <2>1, <4>2, <4>4
      <3>3. CASE handling[i] # w
        <4>1. window'[handling[i]] = window[handling[i]]
          BY <2>1, <3>1, <3>3 DEF DG!TypeOK
        <4> QED
          BY <2>1, <2>7, <3>1, <4>1 DEF WindowsKnown
      <3> QED
        BY <3>2, <3>3
    <2> QED
      BY <2>3, <2>4, <2>5, <2>6, <2>7 DEF WindowsKnown
  <1>8. CASE DG!HandlerReturns
    <2>1. /\ handling # <<>> /\ handling' = Tail(handling)
          /\ touched' \in {touched, touched \/ window[Head(handling)] = "deleted"}
          /\ UNCHANGED <<created, dg_pc, making, infos, left, delegates, display, window, window_map,
                         undercut, alive, told, dg_twice>>
      BY <1>8 DEF DG!HandlerReturns, DG!building
    <2>2. /\ handling \in Seq(Windows) /\ Len(handling) \in Nat \ {0} /\ 1 \in DOMAIN handling
          /\ Head(handling) = handling[1]
      BY <2>1 DEF DG!TypeOK
    <2>3. handling' \in Seq(Windows) /\ Len(handling') = Len(handling) - 1
      BY <2>1, <2>2
    <2>4. touched' \in BOOLEAN /\ (touched' => undercut')
      BY <2>1, <2>2 DEF DG!TypeOK, WindowsKnown
    <2>5. Len(handling') <= MaxPolls
      BY <2>2, <2>3 DEF DG!TypeOK, DG!NamesAssumption
    <2>6. DG!TypeOK'
      BY <2>1, <2>3, <2>4, <2>5 DEF DG!TypeOK
    <2>7. \A i \in DOMAIN handling' : i + 1 \in DOMAIN handling /\ handling'[i] = handling[i + 1]
      BY <2>1, <2>2
    <2>8. WindowsKnown'
      BY <2>1, <2>4, <2>7 DEF WindowsKnown
    <2>9. OneAtMost' /\ ClosedOnce' /\ infos' = Got(dg_pc')
      BY <2>1 DEF OneAtMost, ClosedOnce
    <2> QED
      BY <2>6, <2>8, <2>9
  <1>9. CASE UNCHANGED DG!vars
    BY <1>9 DEF DG!vars, DG!building, DG!dispatch, DG!TypeOK, OneAtMost, WindowsKnown, ClosedOnce
  <1> QED
    BY <1>1, <1>2, <1>3, <1>4, <1>5, <1>6, <1>7, <1>8, <1>9 DEF DG!Next

LEMMA Accounted ==
  ASSUME DelegateInv
  PROVE  DG!DelegateIsAccounted
  <1>1. dg_pc \in {"idle", "base", "members", "display"} => infos = {}
    BY DEF DelegateInv, Got
  <1> QED
    BY <1>1 DEF DelegateInv, OneAtMost, WindowsKnown, ClosedOnce, DG!DelegateIsAccounted

LEMMA DelegateAlone == PartsSpec => DG!Spec
  <1>1. PartsInit => DG!Init
    BY DEF PartsInit
  <1>2. [PartsNext]_partsVars => [DG!Next]_(DG!vars)
    BY DEF PartsNext, partsVars, delegateVars, DG!vars, DG!building, DG!dispatch
  <1> QED
    BY <1>1, <1>2, PTL DEF PartsSpec, DG!Spec

LEMMA DelegateInvariant == DG!Spec => []DelegateInv
  BY DelegateAssumption, DelegateInitInv, DelegateStepInv, PTL DEF DG!Spec

\* There is one delegate at most and created_ knows it, however the making of one
\* fails; what XRandR gave is given back; the map knows the open windows; a handler
\* outlives its window only when that is deleted inside it, however deep callbacks
\* poll; and a connection is closed twice only after terminate()
\* (delegate.cpp:17-26, x11_delegate.cpp:6-183).
THEOREM DelegateIsAccountedCorrect == PartsSpec => []DelegateIsAccounted
  <1>1. DelegateInv => DelegateIsAccounted
    BY Accounted DEF DelegateIsAccounted
  <1> QED
    BY <1>1, DelegateAlone, DelegateInvariant, PTL

-------------------------------------------------------------------------------
(* The choice of a video mode                                              *)

\* How many modes of the list have been looked at.
Seen == IF vm_at = 0 THEN Len(modes) ELSE vm_at - 1

ModeShape ==
  /\ screen \in Seq(VM!ScreenModes) /\ listed \in 0 .. Len(screen)
  /\ modes \in Seq(VM!Modes)
  /\ vm_at \in 0 .. Len(modes) + 1 /\ (vm_at # 1 => listed = Len(screen))
  /\ extent \in [x : VM!UInt32 \ {0}, y : VM!UInt32 \ {0}]
  /\ best \in VM!Modes \cup {VM!NoMode}
  /\ least \in VM!UInt32

\* What has been listed are the sizes of the modes that have an extent and totals.
Listing ==
  /\ \A i \in 1 .. listed :
       VM!Usable(screen[i]) => \E k \in DOMAIN modes : modes[k] = screen[i].size
  /\ \A k \in DOMAIN modes :
       \E i \in 1 .. listed : VM!Usable(screen[i]) /\ modes[k] = screen[i].size

\* A mode of half the window's size is met before the one of its size.
HalfFirst ==
  \E i \in 1 .. Seen : VM!HalfFits(modes[i]) /\ ~VM!JustBelow(modes[i]) /\ \A j \in 1 .. i : modes[j] # extent

\* The choice among the modes seen: none only if line 43 takes them all for none; one
\* that differs by 0 in a size is the window's, or one of half its size, and nothing
\* fits any more.
Choice ==
  /\ best = VM!NoMode <=> \A i \in 1 .. Seen : VM!JustBelow(modes[i])
  /\ IF best = VM!NoMode THEN least = Pixels - 1
     ELSE least < Pixels - 1 /\ \E i \in 1 .. Seen : modes[i] = best
  /\ least = 0 => best = extent \/ HalfFirst
  /\ \A j \in 1 .. Seen : modes[j] = extent => least = 0

ModeInv == ModeShape /\ Listing /\ Choice

-------------------------------------------------------------------------------
\* The difference of two unsigned numbers, of which the second is not 0.
LEMMA Differences ==
  ASSUME VM!VideoModesAssumption, NEW a \in VM!UInt32, NEW b \in VM!UInt32 \ {0}
  PROVE  /\ VM!Diff(a, b) \in VM!UInt32
         /\ VM!Diff(a, b) = 0 <=> a = b
         /\ VM!Diff(a, b) = Pixels - 1 <=> a + 1 = b
  <1> Pixels \in Nat \ {0, 1}
    BY DEF VM!VideoModesAssumption
  <1>1. CASE b <= a
    <2>1. a - b \in 0 .. Pixels - 1 /\ Pixels + a - b = Pixels + (a - b)
      BY <1>1 DEF VM!UInt32
    <2>2. VM!Diff(a, b) = a - b
      BY <2>1 DEF VM!Diff
    <2> QED
      BY <1>1, <2>2 DEF VM!UInt32
  <1>2. CASE ~(b <= a)
    <2>1. Pixels + a - b \in 0 .. Pixels - 1
      BY <1>2 DEF VM!UInt32
    <2>2. VM!Diff(a, b) = Pixels + a - b
      BY <2>1 DEF VM!Diff
    <2> QED
      BY <1>2, <2>2 DEF VM!UInt32
  <1> QED
    BY <1>1, <1>2

\* What fits is below least in both sizes, and sets least to the smaller difference.
LEMMA Fitting ==
  ASSUME VM!VideoModesAssumption, NEW mode \in VM!Modes, extent \in [x : VM!UInt32 \ {0}, y : VM!UInt32 \ {0}],
         least \in VM!UInt32
  PROVE  LET m == VM!Min({VM!Diff(mode.y, extent.y), VM!Diff(mode.x, extent.x)}) IN
         /\ VM!Fits(mode) => ~VM!JustBelow(mode) /\ m \in VM!UInt32 /\ m < least
         /\ ~VM!JustBelow(mode) /\ least = Pixels - 1 => VM!Fits(mode)
         /\ m = 0 <=> mode.x = extent.x \/ mode.y = extent.y
         /\ mode = extent /\ least # 0 => VM!Fits(mode)
  <1> DEFINE a == VM!Diff(mode.y, extent.y)
             b == VM!Diff(mode.x, extent.x)
  <1>0. Pixels \in Nat \ {0, 1}
    BY DEF VM!VideoModesAssumption
  <1>1. /\ mode.x \in VM!UInt32 /\ mode.y \in VM!UInt32
        /\ extent.x \in VM!UInt32 \ {0} /\ extent.y \in VM!UInt32 \ {0}
    BY DEF VM!Modes
  <1>2. /\ a \in VM!UInt32 /\ (a = 0 <=> mode.y = extent.y) /\ (a = Pixels - 1 <=> mode.y + 1 = extent.y)
        /\ b \in VM!UInt32 /\ (b = 0 <=> mode.x = extent.x) /\ (b = Pixels - 1 <=> mode.x + 1 = extent.x)
    BY <1>1, Differences
  <1>3. VM!Fits(mode) <=> a < least /\ b < least
    BY DEF VM!Fits
  <1> DEFINE m == VM!Min({a, b})
  <1> HIDE DEF a, b
  <1>4. m = IF a <= b THEN a ELSE b
    BY <1>0, <1>2 DEF VM!Min, VM!UInt32
  <1> HIDE DEF m
  <1>5. VM!JustBelow(mode) <=> a = Pixels - 1 \/ b = Pixels - 1
    BY <1>2 DEF VM!JustBelow
  <1>6. mode = extent => a = 0 /\ b = 0
    BY <1>2
  <1>7. /\ VM!Fits(mode) => ~VM!JustBelow(mode) /\ m \in VM!UInt32 /\ m < least
        /\ ~VM!JustBelow(mode) /\ least = Pixels - 1 => VM!Fits(mode)
        /\ m = 0 <=> a = 0 \/ b = 0
        /\ mode = extent /\ least # 0 => VM!Fits(mode)
    BY <1>0, <1>2, <1>3, <1>4, <1>5, <1>6 DEF VM!UInt32
  <1> QED
    BY <1>2, <1>7 DEF m, a, b

-------------------------------------------------------------------------------
LEMMA ModeInitInv ==
  ASSUME VM!VideoModesAssumption, VM!Init
  PROVE  ModeInv
  <1>0. Pixels \in Nat \ {0, 1} /\ MaxModes \in Nat
    BY DEF VM!VideoModesAssumption
  <1>1. PICK n \in 0 .. MaxModes : screen \in [1 .. n -> VM!ScreenModes]
    BY DEF VM!Init, VM!SeqOf
  <1>2. screen \in Seq(VM!ScreenModes) /\ Len(screen) \in Nat
    <2>1. n \in Nat
      BY <1>0, <1>1
    <2>2. screen \in Seq(VM!ScreenModes)
      BY <1>1, <2>1
    <2> QED
      BY <2>2
  <1>3. modes = <<>> /\ modes \in Seq(VM!Modes) /\ Len(modes) = 0 /\ DOMAIN modes = {}
    BY DEF VM!Init
  <1>4. Seen = 0
    BY DEF VM!Init, Seen
  <1>5. ModeShape
    BY <1>0, <1>2, <1>3 DEF VM!Init, ModeShape, VM!UInt32
  <1>6. Listing
    BY <1>3 DEF VM!Init, Listing
  <1>7. Choice
    BY <1>0, <1>4 DEF VM!Init, Choice
  <1> QED
    BY <1>5, <1>6, <1>7 DEF ModeInv

LEMMA ListIInv ==
  ASSUME VM!VideoModesAssumption, ModeInv, VM!EnumerateVideoModes
  PROVE  ModeInv'
  <1>0. /\ screen \in Seq(VM!ScreenModes) /\ modes \in Seq(VM!Modes) /\ listed \in 0 .. Len(screen)
        /\ Len(screen) \in Nat /\ Len(modes) \in Nat /\ DOMAIN modes = 1 .. Len(modes)
    BY DEF ModeInv, ModeShape
  <1>1. /\ listed < Len(screen) /\ listed' = listed + 1 /\ UNCHANGED <<screen, extent, best, least, vm_at>>
        /\ modes' = IF VM!Usable(screen[listed + 1]) THEN Append(modes, screen[listed + 1].size) ELSE modes
    BY DEF VM!EnumerateVideoModes
  <1> DEFINE m == screen[listed + 1]
             mode == m.size
  <1>2. listed \in Nat /\ mode \in VM!Modes
    <2>1. listed + 1 \in 1 .. Len(screen)
      BY <1>0, <1>1
    <2>2. m \in VM!ScreenModes
      BY <1>0, <2>1, ElementOfSeq
    <2> QED
      BY <1>0, <2>2 DEF VM!ScreenModes
  <1>m. screen[listed + 1] = m /\ m.size = mode
    OBVIOUS
  <1> HIDE DEF m, mode
  <1>3. CASE VM!Usable(m)
    <2>1. modes' = Append(modes, mode)
      BY <1>1, <1>3, <1>m
    <2>2. /\ modes' \in Seq(VM!Modes) /\ Len(modes') = Len(modes) + 1
          /\ \A k \in 1 .. Len(modes) : modes'[k] = modes[k]
          /\ modes'[Len(modes) + 1] = mode
      BY <1>0, <1>2, <2>1, AppendProperties
    <2>3. /\ DOMAIN modes' = 1 .. Len(modes) + 1 /\ Len(modes') \in Nat
      BY <1>0, <2>2, LenProperties
    <2>4. vm_at = 1
      BY <1>0, <1>1 DEF ModeInv, ModeShape
    <2>5. ModeShape'
      BY <1>0, <1>1, <2>2, <2>4 DEF ModeInv, ModeShape
    <2>6. ASSUME NEW i \in 1 .. listed', VM!Usable(screen'[i])
          PROVE  \E k \in DOMAIN modes' : modes'[k] = screen'[i].size
      <3>1. CASE i \in 1 .. listed
        <4>1. PICK k \in DOMAIN modes : modes[k] = screen[i].size
          BY <1>1, <2>6, <3>1 DEF ModeInv, Listing
        <4>2. k \in DOMAIN modes' /\ modes'[k] = modes[k]
          BY <1>0, <2>2, <2>3
        <4> QED
          BY <1>1, <4>1, <4>2
      <3>2. CASE i = listed + 1
        <4>1. Len(modes) + 1 \in DOMAIN modes'
          BY <1>0, <2>3
        <4> QED
          BY <1>1, <1>m, <2>2, <3>2, <4>1
      <3> QED
        BY <1>1, <1>2, <3>1, <3>2
    <2>7. ASSUME NEW k \in DOMAIN modes'
          PROVE  \E i \in 1 .. listed' : VM!Usable(screen'[i]) /\ modes'[k] = screen'[i].size
      <3>1. CASE k \in DOMAIN modes
        <4>1. PICK i \in 1 .. listed : VM!Usable(screen[i]) /\ modes[k] = screen[i].size
          BY <3>1 DEF ModeInv, Listing
        <4>2. i \in 1 .. listed' /\ modes'[k] = modes[k]
          BY <1>0, <1>1, <1>2, <2>2, <3>1
        <4> QED
          BY <1>1, <4>1, <4>2
      <3>2. CASE k = Len(modes) + 1
        <4>1. listed + 1 \in 1 .. listed'
          BY <1>1, <1>2
        <4> QED
          BY <1>1, <1>3, <1>m, <2>2, <3>2, <4>1
      <3> QED
        BY <1>0, <2>3, <3>1, <3>2
    <2>8. Seen = 0 /\ Seen' = 0
      BY <1>1, <2>4 DEF Seen
    <2>9. Choice'
      BY <1>1, <2>8 DEF ModeInv, Choice, HalfFirst
    <2> QED
      BY <2>5, <2>6, <2>7, <2>9 DEF ModeInv, Listing
  <1>4. CASE ~VM!Usable(m)
    <2>1. UNCHANGED modes
      BY <1>1, <1>4, <1>m
    <2>2. vm_at = 1
      BY <1>0, <1>1 DEF ModeInv, ModeShape
    <2>3. ModeShape'
      <3>1. listed' \in 0 .. Len(screen)
        BY <1>0, <1>1
      <3>2. vm_at \in 0 .. Len(modes) + 1
        BY DEF ModeInv, ModeShape
      <3> QED
        BY <1>1, <2>1, <2>2, <3>1, <3>2 DEF ModeInv, ModeShape
    <2>4. \A i \in 1 .. listed' : i \in 1 .. listed \/ i = listed + 1
      BY <1>1, <1>2
    <2>5. \A i \in 1 .. listed : i \in 1 .. listed'
      BY <1>1, <1>2
    <2>6. Listing'
      BY <1>1, <1>4, <1>m, <2>1, <2>4, <2>5 DEF ModeInv, Listing
    <2>7. Choice'
      BY <1>1, <2>1 DEF ModeInv, Choice, HalfFirst, VM!HalfFits, VM!JustBelow, Seen
    <2> QED
      BY <2>3, <2>6, <2>7 DEF ModeInv
  <1> QED
    BY <1>3, <1>4

LEMMA LookIInv ==
  ASSUME VM!VideoModesAssumption, ModeInv, VM!Look
  PROVE  ModeInv'
  <1>w. Pixels \in Nat \ {0, 1}
    BY DEF VM!VideoModesAssumption
  <1>0. /\ modes \in Seq(VM!Modes) /\ Len(modes) \in Nat /\ DOMAIN modes = 1 .. Len(modes)
        /\ extent \in [x : VM!UInt32 \ {0}, y : VM!UInt32 \ {0}] /\ least \in VM!UInt32 /\ least \in Nat
    BY <1>w DEF ModeInv, ModeShape, VM!UInt32
  <1> DEFINE mode == modes[vm_at]
             m == VM!Min({VM!Diff(mode.y, extent.y), VM!Diff(mode.x, extent.x)})
  <1>1. /\ listed = Len(screen) /\ vm_at \in 1 .. Len(modes) /\ vm_at' = vm_at + 1
        /\ UNCHANGED <<screen, listed, modes, extent>>
        /\ IF VM!Fits(mode) THEN best' = mode /\ least' = m ELSE UNCHANGED <<best, least>>
    BY DEF VM!Look
  <1>2. mode \in VM!Modes /\ vm_at \in Nat
    BY <1>0, <1>1, ElementOfSeq
  <1>3. /\ VM!Fits(mode) => ~VM!JustBelow(mode) /\ m \in VM!UInt32 /\ m < least
        /\ ~VM!JustBelow(mode) /\ least = Pixels - 1 => VM!Fits(mode)
        /\ m = 0 <=> mode.x = extent.x \/ mode.y = extent.y
        /\ mode = extent /\ least # 0 => VM!Fits(mode)
    BY <1>0, <1>2, Fitting
  <1>4. Seen = vm_at - 1 /\ Seen' = vm_at
    BY <1>1, <1>2 DEF Seen
  <1>5. \A i \in 1 .. Seen' : i \in 1 .. Seen \/ i = vm_at
    BY <1>2, <1>4
  <1>6. vm_at \in 1 .. Seen' /\ \A i \in 1 .. Seen : i \in 1 .. Seen'
    BY <1>1, <1>2, <1>4
  <1>7. mode # VM!NoMode
    BY <1>2, <1>w DEF VM!Modes, VM!NoMode, VM!UInt32
  <1>m. modes[vm_at] = mode
    OBVIOUS
  <1> HIDE DEF mode, m
  <1>8. ModeShape'
    BY <1>0, <1>1, <1>2, <1>3 DEF ModeInv, ModeShape
  <1>9. Listing'
    BY <1>1 DEF ModeInv, Listing
  <1>10. HalfFirst => HalfFirst'
    BY <1>1, <1>6 DEF HalfFirst, VM!HalfFits, VM!JustBelow
  <1>11. \A i \in 1 .. Seen' : (VM!JustBelow(modes[i]))' <=> VM!JustBelow(modes[i])
    BY <1>1 DEF VM!JustBelow
  <1>c. Choice
    BY DEF ModeInv
  <1>12. CASE VM!Fits(mode)
    <2>1. best' = mode /\ least' = m /\ ~VM!JustBelow(mode) /\ m < least /\ m \in VM!UInt32
      BY <1>1, <1>3, <1>12
    <2>2. best' # VM!NoMode /\ ~ \A i \in 1 .. Seen' : VM!JustBelow(modes[i])
      BY <1>6, <1>7, <1>m, <2>1
    <2>3. least' < Pixels - 1
      BY <1>0, <1>w, <2>1 DEF VM!UInt32
    <2>4. \A j \in 1 .. Seen : modes[j] # extent
      BY <1>0, <1>w, <1>c, <2>1 DEF Choice, VM!UInt32
    <2>5. least' = 0 => best' = extent \/ HalfFirst'
      <3> SUFFICES ASSUME m = 0, mode # extent
                   PROVE  HalfFirst'
        BY <2>1
      <3>1. mode.x = extent.x \/ mode.y = extent.y
        BY <1>3
      <3>2. ~(mode.x = extent.x /\ mode.y = extent.y)
        BY <1>0, <1>2 DEF VM!Modes
      <3>3. VM!HalfFits(mode)
        BY <3>1, <3>2 DEF VM!HalfFits
      <3>4. \A j \in 1 .. vm_at : modes[j] # extent
        BY <1>4, <1>5, <1>m, <2>4
      <3> QED
        BY <1>1, <1>6, <1>m, <2>1, <3>3, <3>4 DEF HalfFirst, VM!HalfFits, VM!JustBelow
    <2>6. ASSUME NEW j \in 1 .. Seen', modes[j] = extent
          PROVE  least' = 0
      <3>1. mode = extent
        BY <1>5, <1>m, <2>4, <2>6
      <3> QED
        BY <1>3, <2>1, <3>1
    <2>7. \E i \in 1 .. Seen' : modes[i] = best'
      BY <1>6, <1>m, <2>1
    <2>8. Choice'
      BY <1>1, <1>11, <2>2, <2>3, <2>5, <2>6, <2>7 DEF Choice
    <2> QED
      BY <1>8, <1>9, <2>8 DEF ModeInv
  <1>13. CASE ~VM!Fits(mode)
    <2>1. UNCHANGED <<best, least>>
      BY <1>1, <1>13
    <2>2. best = VM!NoMode => VM!JustBelow(mode)
      BY <1>3, <1>13, <1>c DEF Choice
    <2>3. best = VM!NoMode <=> \A i \in 1 .. Seen' : VM!JustBelow(modes[i])
      BY <1>5, <1>6, <1>c, <1>m, <2>2 DEF Choice
    <2>4. IF best = VM!NoMode THEN least = Pixels - 1
          ELSE least < Pixels - 1 /\ \E i \in 1 .. Seen' : modes[i] = best
      BY <1>6, <1>c DEF Choice
    <2>5. least = 0 => best = extent \/ HalfFirst'
      BY <1>10, <1>c DEF Choice
    <2>6. \A j \in 1 .. Seen' : modes[j] = extent => least = 0
      BY <1>3, <1>5, <1>13, <1>c, <1>m DEF Choice
    <2>7. Choice'
      BY <1>1, <1>11, <2>1, <2>3, <2>4, <2>5, <2>6 DEF Choice
    <2> QED
      BY <1>8, <1>9, <2>7 DEF ModeInv
  <1> QED
    BY <1>12, <1>13

LEMMA ModeStepInv ==
  ASSUME VM!VideoModesAssumption, ModeInv, [VM!Next]_(VM!vars)
  PROVE  ModeInv'
  <1>1. CASE VM!Return
    <2>1. listed = Len(screen) /\ vm_at > Len(modes) /\ vm_at' = 0 /\ UNCHANGED <<screen, listed, modes, extent, best, least>>
      BY <1>1 DEF VM!Return
    <2>2. Len(modes) \in Nat /\ vm_at \in 0 .. Len(modes) + 1
      BY DEF ModeInv, ModeShape
    <2>3. Seen = Len(modes) /\ Seen' = Len(modes)
      BY <2>1, <2>2 DEF Seen
    <2>4. ModeShape'
      BY <2>1, <2>2 DEF ModeInv, ModeShape
    <2>5. Listing' /\ Choice'
      BY <2>1, <2>3 DEF ModeInv, Listing, Choice, HalfFirst, VM!HalfFits, VM!JustBelow
    <2> QED
      BY <2>4, <2>5 DEF ModeInv
  <1>2. CASE UNCHANGED VM!vars
    BY <1>2 DEF VM!vars, ModeInv, ModeShape, Listing, Choice, HalfFirst, VM!HalfFits, VM!JustBelow, Seen
  <1> QED
    BY <1>1, <1>2, ListIInv, LookIInv DEF VM!Next

LEMMA Found ==
  ASSUME VM!VideoModesAssumption, ModeInv
  PROVE  VM!ExactModeIsFound
  <1> SUFFICES ASSUME vm_at = 0
               PROVE  /\ best # VM!NoMode => VM!Offered(best)
                      /\ best = VM!NoMode <=> \A i \in DOMAIN modes : VM!JustBelow(modes[i])
                      /\ VM!Offered(extent) =>
                           best = extent \/ \E i \in DOMAIN modes :
                             VM!HalfFits(modes[i]) /\ ~VM!JustBelow(modes[i]) /\ \A j \in 1 .. i : modes[j] # extent
    BY DEF VM!ExactModeIsFound
  <1>1. /\ Seen = Len(modes) /\ DOMAIN modes = 1 .. Seen /\ listed = Len(screen)
        /\ DOMAIN screen = 1 .. listed
    BY DEF Seen, ModeInv, ModeShape
  <1>2. best # VM!NoMode => VM!Offered(best)
    <2> SUFFICES ASSUME best # VM!NoMode
                 PROVE  VM!Offered(best)
      OBVIOUS
    <2>1. PICK k \in 1 .. Seen : modes[k] = best
      BY DEF ModeInv, Choice
    <2>2. PICK i \in 1 .. listed : VM!Usable(screen[i]) /\ modes[k] = screen[i].size
      BY <1>1 DEF ModeInv, Listing
    <2>3. screen[i] \in VM!ScreenModes
      BY <1>1, ElementOfSeq DEF ModeInv, ModeShape
    <2>4. screen[i] = [size |-> best, timed |-> TRUE]
      BY <2>1, <2>2, <2>3 DEF VM!ScreenModes, VM!Usable
    <2> QED
      BY <1>1, <2>4 DEF VM!Offered, VM!Contains
  <1>3. best = VM!NoMode <=> \A i \in DOMAIN modes : VM!JustBelow(modes[i])
    BY <1>1 DEF ModeInv, Choice
  <1>4. ASSUME VM!Offered(extent)
        PROVE  best = extent \/ HalfFirst
    <2>1. PICK i \in 1 .. listed : screen[i] = [size |-> extent, timed |-> TRUE]
      BY <1>1, <1>4 DEF VM!Offered, VM!Contains
    <2>2. VM!Usable(screen[i]) /\ screen[i].size = extent
      BY <2>1 DEF VM!Usable, VM!HasExtent, ModeInv, ModeShape
    <2>3. PICK k \in DOMAIN modes : modes[k] = extent
      BY <2>1, <2>2 DEF ModeInv, Listing
    <2>4. least = 0
      BY <1>1, <2>3 DEF ModeInv, Choice
    <2> QED
      BY <2>4 DEF ModeInv, Choice
  <1> QED
    BY <1>1, <1>2, <1>3, <1>4 DEF HalfFirst

LEMMA ModeAlone == PartsSpec => VM!Spec
  <1>1. PartsInit => VM!Init
    BY DEF PartsInit
  <1>2. [PartsNext]_partsVars => [VM!Next]_(VM!vars)
    BY DEF PartsNext, partsVars, modeVars, VM!vars
  <1> QED
    BY <1>1, <1>2, PTL DEF PartsSpec, VM!Spec

LEMMA ModeInvariant == VM!Spec => []ModeInv
  BY ModesAssumption, ModeInitInv, ModeStepInv, PTL DEF VM!Spec

\* The mode of the window's size is found, if the display has one with totals and no
\* mode listed before it has the window's width or height alone; what is returned is
\* one of the display's modes unless all are one short in a size (window.cpp:36-72,
\* x11_delegate.cpp:83-119).
THEOREM ExactModeIsFoundCorrect == PartsSpec => []ExactModeIsFound
  <1>1. ModeInv => ExactModeIsFound
    BY ModesAssumption, Found DEF ExactModeIsFound
  <1> QED
    BY <1>1, ModeAlone, ModeInvariant, PTL

===============================================================================
